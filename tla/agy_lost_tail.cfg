SPECIFICATION Spec
CONSTANTS
    MaxTurns = 2
    MaxRows = 2
    DrainAttempts = 3
    MaxLocked = 3
    MayExpire = TRUE
INVARIANTS
    NothingMissing
CHECK_DEADLOCK FALSE
