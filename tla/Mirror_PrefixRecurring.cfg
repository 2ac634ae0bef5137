SPECIFICATION OrderedSpec
CONSTANTS
    p1 = p1
    p2 = p2
    Peer = {p1}
    RootAt <- RecurringRoots
    Last = 4
    Committed = 1
    PageSize = 2
    Buffer = 4
    Durable = TRUE
    MaxFaults = 0
INVARIANTS MirrorIsPrefix
CHECK_DEADLOCK FALSE
