SPECIFICATION FairSpec
CONSTANTS
    Recoveries = {r1, r2}
    Methods = {}
    Signals = {m}
    NoTask = none
    Switches = {TRUE, FALSE}
    Capacity = 1
    MaxRuns = 1
PROPERTIES ReturnsToImmediate FailureFallsBack
\* The element may stay stopped.
CHECK_DEADLOCK FALSE
