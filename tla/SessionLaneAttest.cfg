SPECIFICATION Spec
CONSTANTS
    p1 = p1
    p2 = p2
    Procs = {p1, p2}
    Makes <- Attester
    WorkOps = {"attest", "verify"}
    Sessions = {s1, s2}
    Tokens = {t1, t2}
    NoSession = NoSession
    NoToken = NoToken
    None = None
    MaxCalls <- Thrice
    MaxFaults = 0
SYMMETRY Symmetry
PROPERTIES
    AttestsOwn
CHECK_DEADLOCK FALSE
