SPECIFICATION FairSpec
CONSTANTS
    p1 = p1
    p2 = p2
    Procs = {p1, p2}
    Makes <- Closers
    WorkOps = {}
    Sessions = {s1}
    Tokens = {t1, t2, t3}
    NoSession = NoSession
    NoToken = NoToken
    None = None
    MaxCalls <- Twice
    MaxFaults = 1
PROPERTIES
    Converges
CHECK_DEADLOCK FALSE
