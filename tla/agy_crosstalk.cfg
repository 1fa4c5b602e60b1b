SPECIFICATION Spec
CONSTANTS
    Sessions = {s1, s2}
    Prompts = {p1, p2}
    NoSession = NoSession
    NoPrompt = NoPrompt
    Models = {m1}
    NoModel = NoModel
    MaxSessions = 2
    MaxRows = 1
    Requests = {}
    Ops = {"prompt"}
    Overlap = {}
    MayCrash = FALSE
INVARIANTS
    NoCrossTalk
