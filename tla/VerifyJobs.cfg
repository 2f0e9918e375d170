SPECIFICATION FairSpec
CONSTANTS
    Jobs = {j1}
    Pollers = {c1, c2}
    OfSession = {j1}
    MaxFaults = 3
INVARIANTS
    PassedRan
    CompleteBacked
PROPERTIES
    NeverRegresses
    Settles
