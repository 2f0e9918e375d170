SPECIFICATION Spec
CONSTANTS
    N = 2
    Chunks = 2
    VerifyOnly = {}
    StopOnFirst = TRUE
    Promotes = TRUE
    Aborts = TRUE
    MaxFaults = 1
    MaxCrashes = 1
PROPERTIES
    AttestedVerified
