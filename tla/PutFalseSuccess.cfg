SPECIFICATION Spec
CONSTANTS
    Options <- Resumed
    MaxPart = 2
    MaxPendingRead = 2
    Callbacks = TRUE
CHECK_DEADLOCK FALSE
INVARIANTS
    ResumedSuccessMeansObject
