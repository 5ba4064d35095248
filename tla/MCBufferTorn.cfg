SPECIFICATION Spec
CONSTANTS
    MaxRetries = 2
    RotateSize = 2
    RotateAge = 3
    MaxAge = 1
    Faults = {"write", "torn"}
    Ranges <- AllOnly
    MaxFragments = 3
    MaxLag = 0
    MaxTick = 3
    MaxMishaps = 3
INVARIANT NoSilentLoss
CHECK_DEADLOCK FALSE
