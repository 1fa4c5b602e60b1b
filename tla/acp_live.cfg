SPECIFICATION FairSpec
CONSTANTS
    Turns = {t1, t2}
    NoTurn = NoTurn
    Kinds = {"prompt"}
    MayCancel = {t1}
    MayDie = TRUE
    MayTrail = TRUE
    Notes = {"text", "ask"}
    MaxNotes = 1
INVARIANTS
    StopsOnlyAbandoned
PROPERTIES
    CallerReleased
    AbandonedTurnStops
    PermissionAnswered
