SPECIFICATION Spec
CONSTANTS
    p1 = p1
    p2 = p2
    Procs = {p1, p2}
    Makes <- Overwriters
    WorkOps = {"apply", "verify", "rollback", "attest"}
    Sessions = {s1, s2}
    Tokens = {t1, t2, t3}
    NoSession = NoSession
    NoToken = NoToken
    None = None
    MaxCalls <- Twice
    MaxFaults = 1
SYMMETRY Symmetry
INVARIANTS
    AttestedBacked
    ClosedIsEnded
PROPERTIES
    RevokedNeverFinishes
CHECK_DEADLOCK FALSE
