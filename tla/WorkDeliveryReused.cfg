SPECIFICATION UnderSpec
CONSTANTS
    c1 = c1
    Callers = {c1}
    Requests = {"accept", "source", "other", "evidence"}
    Kind <- Kinds
    SourceOf <- Sources
    Direct = {"evidence"}
    Refused = {"other"}
    Endpoints = {"u1", "u2"}
    First = "u1"
    Transitions = {"k1"}
    From <- Froms
    To <- Tos
    NoRequest = "none"
    NoEndpoint = "nowhere"
    MaxFaults = 0
SYMMETRY Symmetry
PROPERTIES
    NeverReused
CHECK_DEADLOCK FALSE
