SPECIFICATION SteadySpec
CONSTANTS
    h1 = h1
    h2 = h2
    Host = {h1, h2}
    Start = 2
    Skew <- SteppedSkew
    MaxCounter = 1
    Window = 1
    MaxDrift = 1
    MaxTime = 3
    MaxWall = 4
    MaxSent = 2
INVARIANTS CursorsMerge
CHECK_DEADLOCK FALSE
