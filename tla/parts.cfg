SPECIFICATION PartSpec
CONSTANTS
    Bridges = {b}
    Models = {m}
    MaxSessions = 3
    Holders = {h1, h2}
    MaxLocks = 2
    MaxBeats = 1
    Skills = {k1, k2}
    CallNames = {f, g}
    MaxCalls = 3
    MaxParallel = 2
    Sockets = {x1}
    Dials = {d1, d2}
    NoDial = NoDial
INVARIANTS
    OneHarness
    ServesRecord
    RecoveryExact
    Mirrors
    PairedRight
    NoOrphan
PROPERTIES
    Continuity
    Leaves
    HandMadeKept
    SigtermExits
CHECK_DEADLOCK FALSE
