SPECIFICATION FairSpec
CONSTANTS
    MaxTurns = 2
    MaxRows = 2
    DrainAttempts = 3
    MaxLocked = 1
    MayExpire = FALSE
INVARIANTS
    OnceInOrder
    NothingMissing
PROPERTIES
    SwallowedErrorTold
    Settles
CHECK_DEADLOCK FALSE
