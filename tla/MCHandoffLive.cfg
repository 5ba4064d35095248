SPECIFICATION FairSpec
CONSTANTS
    Capacity = 1
    MaxTriggers = 1
    TriggerKinds = {"signal"}
    Track = FALSE
    Restarts = FALSE
PROPERTIES FragmentSettles ResetResolves ExpiredSessionReplaced
CHECK_DEADLOCK FALSE
