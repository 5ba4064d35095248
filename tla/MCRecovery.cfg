SPECIFICATION Spec
CONSTANTS
    Recoveries = {r1, r2}
    Methods = {}
    Signals = {}
    NoTask = none
    Switches = {TRUE}
    Capacity = 1
    MaxRuns = 2
INVARIANTS TypeOK NeverStranded HandleIsLive
\* The element may stay stopped.
CHECK_DEADLOCK FALSE
