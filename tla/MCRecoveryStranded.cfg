SPECIFICATION Spec
CONSTANTS
    Recoveries = {r1, r2}
    Methods = {}
    Signals = {}
    NoTask = none
    Switches = {TRUE}
    Capacity = 1
    MaxRuns = 1
INVARIANT RecoveryScheduled
CHECK_DEADLOCK FALSE
