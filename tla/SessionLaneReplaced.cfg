SPECIFICATION Spec
CONSTANTS
    p1 = p1
    p2 = p2
    Procs = {p1, p2}
    Makes <- Starters
    WorkOps = {"apply"}
    Sessions = {s1, s2, s3}
    Tokens = {t1, t2, t3}
    NoSession = NoSession
    NoToken = NoToken
    None = None
    MaxCalls <- Twice
    MaxFaults = 0
SYMMETRY Symmetry
PROPERTIES
    NeverReplaced
CHECK_DEADLOCK FALSE
