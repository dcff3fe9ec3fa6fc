SPECIFICATION Spec
CONSTANTS
    Procs = {1, 2}
    NoProc = 0
    Apps = {"x", "y"}
    AppOf <- MCAppOf
    Rank <- MCRank
    CriticalRank = 3
    Cancellers = {"t1"}
    MayStop = TRUE
    MaxEvents = 2
INVARIANTS TypeOK NothingStranded QueuedOnce
PROPERTY CalmReleases
CHECK_DEADLOCK FALSE
