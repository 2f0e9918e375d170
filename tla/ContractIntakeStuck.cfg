SPECIFICATION IntakeSpec
CONSTANTS
    r1 = r1
    r2 = r2
    Procs = {p1, p2}
    Reviews = {r1, r2}
    Paths = {"doc", "judge"}
    Files <- Packages
    None = None
    MaxCalls = 4
    MaxStops = 2
    MaxEdits = 1
SYMMETRY Symmetry
CHECK_DEADLOCK FALSE
INVARIANT CompletedReleases
