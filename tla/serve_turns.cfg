SPECIFICATION Spec
CONSTANTS
    Conns = {c1}
    Prompts = {p1, p2}
    Cancels = {k1}
    NoTurn = NoTurn
    NoConn = NoConn
    Stallers = {}
    MayShutDown = TRUE
    MaxEvents = 1
INVARIANTS
    TypeOK
    GateConsistent
    OwnCancelIsNotAFailure
    EndTurnIsReal
PROPERTIES
    NoSpuriousBusy
    ImplementsGate
SYMMETRY Symmetry
