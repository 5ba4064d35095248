SPECIFICATION Spec
CONSTANTS
    Fragments = {f1, f2}
    NoFragment = none
    Capacity = 2
    AckCapacity = 2
    Retention = 1
    StaleAfter = 0
    SessionMax = 0
    MaxTries = 2
    MaxStatus = 2
INVARIANTS TypeOK HeadersFirst ConnectionOfSession PersistedCountIsSafe
PROPERTY UploaderSpec
