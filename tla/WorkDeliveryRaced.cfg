SPECIFICATION UnderSpec
CONSTANTS
    c1 = c1
    c2 = c2
    Callers = {c1, c2}
    Requests = {"accept", "source", "other", "evidence"}
    Kind <- Kinds
    SourceOf <- Sources
    Direct = {"other"}
    Refused = {"other"}
    Endpoints = {"u1", "u2"}
    First = "u1"
    Transitions = {"k1"}
    From <- Froms
    To <- Tos
    NoRequest = "none"
    NoEndpoint = "nowhere"
    MaxFaults = 0
SYMMETRY Symmetry
INVARIANTS
    FencesHoldAll
CHECK_DEADLOCK FALSE
