SPECIFICATION Spec
CONSTANTS
    N = 2
    ChunkSize = 2
    Calls = {c1, c2}
    MaxCalls = 3
    MaxFaults = 1
SYMMETRY Symmetry
INVARIANTS
    ReceiptsLanded
    RecoveredOnce
    RollbackRoute
PROPERTIES
    RecoveryCovered
CHECK_DEADLOCK FALSE
