SPECIFICATION Spec
CONSTANTS
    o1 = o1
    o2 = o2
    o3 = o3
    Order = {o1}
    Capacity = 2
    Quantity = {2}
    Price = 2
    Partial = {1}
    MaxReturned = 2
INVARIANTS ChargedTheTotal
CHECK_DEADLOCK FALSE
