SPECIFICATION Spec
CONSTANTS
    N = 3
    Chunks = 2
    VerifyOnly = {3}
    StopOnFirst = TRUE
    Promotes = FALSE
    Aborts = TRUE
    MaxFaults = 2
    MaxCrashes = 1
PROPERTIES
    AttestedVerified
