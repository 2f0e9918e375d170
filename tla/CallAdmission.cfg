SPECIFICATION FairSpec
CONSTANTS
    Procs = {p1, p2}
    Challenges = {c1, c2}
    NoProc = none
    NoChallenge = none
    Lifetime = 1
    Limit = 2
    Horizon = 2
    MaxFaults = 2
INVARIANTS
    TypeOK
    RunsAdmitted
    RevokedNeverRuns
PROPERTIES
    RunOrVoid
    Ends
CHECK_DEADLOCK FALSE
