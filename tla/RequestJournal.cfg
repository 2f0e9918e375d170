SPECIFICATION FairSpec
CONSTANTS
    Requests = {r1, r2}
    Procs = {p1, p2}
    Lanes = {l1}
    NoRequest = NoRequest
    NoProc = NoProc
    Capacity = 1
    MaxFaults = 2
CHECK_DEADLOCK FALSE
INVARIANTS OpensOnce ExecutesOnce ConflictMeansPruned
PROPERTY Answered
