SPECIFICATION Spec
CONSTANTS
    ann = ann
    bob = bob
    cem = cem
    home = home
    aside = aside
    d1 = d1
    Blank = Blank
    Actor = {ann, bob, cem}
    Handler = {home}
    Delivery = {d1}
    Timeout = 3
    Deadline = 7
    Tries = 3
    MaxRequests = 4
    MaxCrash = 0
INVARIANT AsksWhoStays
CHECK_DEADLOCK FALSE
