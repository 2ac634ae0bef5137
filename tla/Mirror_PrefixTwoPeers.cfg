SPECIFICATION Spec
CONSTANTS
    p1 = p1
    p2 = p2
    Peer = {p1, p2}
    RootAt <- DistinctRoots
    Last = 2
    Committed = 1
    PageSize = 2
    Buffer = 2
    Durable = TRUE
    MaxFaults = 0
INVARIANTS MirrorIsPrefix
CHECK_DEADLOCK FALSE
