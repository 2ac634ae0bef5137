SPECIFICATION Spec
CONSTANTS
    h1 = h1
    h2 = h2
    Host = {h1, h2}
    Start = 1
    Skew <- SteppedSkew
    MaxCounter = 1
    Window = 1
    MaxDrift = 1
    MaxTime = 2
    MaxWall = 2
    MaxSent = 2
INVARIANTS TypeOK HappenedBefore DriftBounded
PROPERTIES CursorsAdvance
CHECK_DEADLOCK FALSE
