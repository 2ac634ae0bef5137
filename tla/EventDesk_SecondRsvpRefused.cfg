SPECIFICATION Spec
CONSTANTS
    d = d
    e = e
    p = p
    q = q
    None = None
    Event = {d, e}
    Person = {p}
    Demo = {d}
    Titled = {}
    Offset = 4
    Starts = {4}
    Near = 1
    Far = 2
    Interval = 1
    ListLimit = 1
    MaxTime = 5
    MaxToken = 2
    MaxTask = 2
    MaxFaults = 1
PROPERTIES SecondRsvpRefused
CHECK_DEADLOCK FALSE
