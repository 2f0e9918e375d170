SPECIFICATION Spec
CONSTANTS
    Requests = {r1}
    Procs = {p1, p2}
    Lanes = {l1, l2}
    NoRequest = NoRequest
    NoProc = NoProc
    Capacity = 1
    MaxFaults = 1
CHECK_DEADLOCK FALSE
INVARIANT OneOpenSession
