SPECIFICATION FairSpec
CONSTANTS
    MaxRetries = 3
    RotateSize = 1
    RotateAge = 3
    MaxAge = 1
    Faults = {"create", "write", "read", "put", "delete", "down"}
    Ranges <- AllAndWindow
    MaxFragments = 2
    MaxLag = 2
    MaxTick = 3
    MaxMishaps = 2
INVARIANT NothingForgotten
PROPERTIES BufferedIsSent WindowSelects TriggerSendsAll
CHECK_DEADLOCK FALSE
