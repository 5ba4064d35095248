SPECIFICATION Spec
CONSTANTS
    MaxRetries = 2
    RotateSize = 2
    RotateAge = 3
    MaxAge = 2
    Faults = {"create", "sync", "write", "read", "put", "delete", "scan", "abort", "down"}
    Ranges <- AllOnly
    MaxFragments = 3
    MaxLag = 0
    MaxTick = 3
    MaxMishaps = 3
INVARIANTS TypeOK
PROPERTIES StoreSpec TriggerSendsInOrder
CHECK_DEADLOCK FALSE
