SPECIFICATION FairSpec
CONSTANTS
    p1 = p1
    p2 = p2
    Procs = {p1, p2}
    Makes <- Reopeners
    WorkOps = {}
    Sessions = {s1, s2}
    Tokens = {t1, t2}
    NoSession = NoSession
    NoToken = NoToken
    None = None
    MaxCalls <- Alone
    MaxFaults = 1
PROPERTIES
    Converges
CHECK_DEADLOCK FALSE
