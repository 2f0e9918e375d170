SPECIFICATION Spec
CONSTANTS
    N = 1
    ChunkSize = 1
    Calls = {c1}
    MaxCalls = 1
    MaxFaults = 1
SYMMETRY Symmetry
PROPERTY ExactPreimage
CHECK_DEADLOCK FALSE
