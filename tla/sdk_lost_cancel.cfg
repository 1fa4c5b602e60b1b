SPECIFICATION Spec
CONSTANTS
    MaxTurns = 2
    MaxBridges = 1
    MaxDeaths = 0
    MayLoseFiles = FALSE
INVARIANTS
    CancelInterrupts
CHECK_DEADLOCK FALSE
