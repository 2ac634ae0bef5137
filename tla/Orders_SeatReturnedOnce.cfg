SPECIFICATION Spec
CONSTANTS
    o1 = o1
    o2 = o2
    o3 = o3
    Order = {o1}
    Capacity = 1
    Quantity = {1}
    Price = 2
    Partial = {1}
    MaxReturned = 2
INVARIANTS SeatReturnedOnce
CHECK_DEADLOCK FALSE
