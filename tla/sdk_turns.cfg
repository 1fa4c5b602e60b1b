SPECIFICATION FairSpec
CONSTANTS
    MaxTurns = 2
    MaxBridges = 2
    MaxDeaths = 1
    MayLoseFiles = TRUE
INVARIANTS
    CompleteAnswer
    NoStrayInterrupt
PROPERTIES
    NoSilentLoss
    Settles
CHECK_DEADLOCK FALSE
