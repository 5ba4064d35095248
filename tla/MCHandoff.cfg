SPECIFICATION Spec
CONSTANTS
    Capacity = 2
    MaxTriggers = 1
    TriggerKinds = {"method", "recovery"}
    Track = TRUE
    Restarts = TRUE
INVARIANTS TypeOK TagConserved SessionsAligned NoCircularWait RenderNeverWaits
PROPERTY FateSpec
