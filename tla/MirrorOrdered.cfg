SPECIFICATION OrderedSpec
CONSTANTS
    p1 = p1
    p2 = p2
    Peer = {p1}
    RootAt <- DistinctRoots
    Last = 5
    Committed = 1
    PageSize = 2
    Buffer = 2
    Durable = TRUE
    MaxFaults = 3
PROPERTIES CatchesUp
CHECK_DEADLOCK FALSE
