SPECIFICATION Spec
CONSTANTS
    o1 = o1
    o2 = o2
    o3 = o3
    p1 = p1
    p2 = p2
    s1 = s1
    s2 = s2
    root = root
    dir = dir
    file = file
    side = side
    Ops = {o1, o2, o3}
    Procs = {p1, p2}
    V1Procs = {v}
    Sessions = {s1, s2}
    NoSession = NoSession
    V1Session = V1Session
    Paths = {root, dir, file, side}
    Root = root
    Ancestors <- MCAncestors
    Requests <- Single
    LeaseIds = {l1, l2, l3}
    ProcOf <- UngovernedProc
    SessionOf <- UngovernedSession
    TTL = 1
    MaxTime = 2
    None = None
SYMMETRY Symmetry
INVARIANTS
    TypeOK
    WriteExclusion
    NoForeignOverwrite
    V1Exclusion
CHECK_DEADLOCK FALSE
