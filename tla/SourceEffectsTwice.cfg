SPECIFICATION Spec
CONSTANTS
    N = 2
    ChunkSize = 2
    Calls = {c1, c2}
    MaxCalls = 2
    MaxFaults = 0
SYMMETRY Symmetry
INVARIANT NotarizedOnce
CHECK_DEADLOCK FALSE
