SPECIFICATION Spec
CONSTANTS
    p1 = p1
    p2 = p2
    Procs = {p1, p2}
    Makes <- Terminal
    WorkOps = {}
    Sessions = {s1, s2}
    Tokens = {t1, t2}
    NoSession = NoSession
    NoToken = NoToken
    None = None
    MaxCalls <- Twice
    MaxFaults = 0
SYMMETRY Symmetry
INVARIANTS
    ClosedNeverListed
CHECK_DEADLOCK FALSE
