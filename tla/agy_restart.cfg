SPECIFICATION FairSpec
CONSTANTS
    Sessions = {s1}
    Prompts = {p1, p2}
    NoSession = NoSession
    NoPrompt = NoPrompt
    Models = {m1}
    NoModel = NoModel
    MaxSessions = 1
    MaxRows = 1
    Requests = {}
    Ops = {"prompt", "model"}
    Overlap = {}
    MayCrash = TRUE
INVARIANTS
    ToldIsDurable
PROPERTIES
    Settles
