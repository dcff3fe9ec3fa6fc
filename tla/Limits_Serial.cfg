SPECIFICATION Spec
CONSTANTS
    A = A
    B = B
    Apps = {A}
    Cgroups = {1, 2}
    Owner <- MCOwner
    Controlled = {A}
    Monitor = monitor
    Main = main
    Rest = {r1}
    Ops = {"auto", "staged", "reap", "limit", "restore", "user_restore", "handoff", "unexclude", "exit", "launch", "shutdown"}
    Serial = TRUE
    WritesMayFail = FALSE
INVARIANTS TypeOK NoOrphanCap StoppedClean ExemptionEndsWithLimit
CHECK_DEADLOCK FALSE
