SPECIFICATION Spec
CONSTANTS
    N = 3
    Chunks = 2
    VerifyOnly = {3}
    StopOnFirst = TRUE
    Promotes = TRUE
    Aborts = TRUE
    MaxFaults = 2
    MaxCrashes = 1
INVARIANTS
    TypeOK
    DoneMeansAttested
    RolledBackClean
PROPERTIES
    OwnWork
