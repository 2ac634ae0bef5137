SPECIFICATION Spec
CONSTANTS
    d = d
    e = e
    p = p
    q = q
    None = None
    Event = {d, e}
    Person = {p}
    Demo = {d}
    Titled = {d}
    Offset = 3
    Starts = {3}
    Near = 1
    Far = 2
    Interval = 1
    ListLimit = 1
    MaxTime = 3
    MaxToken = 2
    MaxTask = 1
    MaxFaults = 1
INVARIANTS TypeOK ConfirmedByLink RemindedOnce NobodyMissed
CONSTRAINT Bound
CHECK_DEADLOCK FALSE
