SPECIFICATION Spec
CONSTANTS
    Turns = {t1, t2}
    NoTurn = NoTurn
    Kinds = {"prompt", "model"}
    MayCancel = {t1, t2}
    MayDie = TRUE
    MayTrail = FALSE
    Notes = {"text", "tool"}
    MaxNotes = 2
INVARIANTS
    TypeOK
    SlotConsistent
    CompleteTurn
    OneSender
PROPERTIES
    ImplementsGate
SYMMETRY Symmetry
