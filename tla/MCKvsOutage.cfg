SPECIFICATION Spec
CONSTANTS
    Fragments = {f1, f2}
    NoFragment = none
    Capacity = 2
    AckCapacity = 1
    Retention = 1
    StaleAfter = 0
    SessionMax = 0
    MaxTries = 2
    MaxStatus = 2
PROPERTY OutageIsNetworkError
