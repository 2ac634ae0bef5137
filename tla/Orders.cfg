SPECIFICATION Spec
CONSTANTS
    o1 = o1
    o2 = o2
    o3 = o3
    Order = {o1, o2}
    Capacity = 2
    Quantity = {1, 2}
    Price = 2
    Partial = {1}
    MaxReturned = 2
SYMMETRY OrderSymmetry
INVARIANTS TypeOK SoldWithinCapacity SeatsMatch RefundsBacked
PROPERTIES RefundSticks
CHECK_DEADLOCK FALSE
