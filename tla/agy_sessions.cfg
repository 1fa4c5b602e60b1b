SPECIFICATION Spec
CONSTANTS
    Sessions = {s1, s2}
    Prompts = {p1, p2}
    NoSession = NoSession
    NoPrompt = NoPrompt
    Models = {m1}
    NoModel = NoModel
    MaxSessions = 1
    MaxRows = 1
    Requests = {r1}
    Ops = {"prompt", "model", "load", "configure"}
    Overlap = {}
    MayCrash = FALSE
PROPERTIES
    TurnResumes
    ImplementsGates
SYMMETRY Symmetry
