SPECIFICATION FairSpec
CONSTANTS
    Conns = {c1, c2}
    Prompts = {p1}
    Cancels = {k1}
    NoTurn = NoTurn
    NoConn = NoConn
    Stallers = {c1}
    MayShutDown = FALSE
    MaxEvents = 1
PROPERTIES
    CancelSettles
    PumpReleased
    TeardownStopsOwnTurn
