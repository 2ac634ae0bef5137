SPECIFICATION OrderedSpec
CONSTANTS
    p1 = p1
    p2 = p2
    Peer = {p1}
    RootAt <- DistinctRoots
    Last = 3
    Committed = 0
    PageSize = 2
    Buffer = 4
    Durable = TRUE
    MaxFaults = 0
PROPERTIES CatchesUp
CHECK_DEADLOCK FALSE
