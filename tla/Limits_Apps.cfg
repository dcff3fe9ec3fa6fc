SPECIFICATION Spec
CONSTANTS
    A = A
    B = B
    Apps = {A, B}
    Cgroups = {1, 3}
    Owner <- MCOwner
    Controlled = {A}
    Monitor = monitor
    Main = main
    Rest = {r1}
    Ops = {"auto", "staged", "limit", "user_restore", "handoff"}
    Serial = TRUE
    WritesMayFail = TRUE
INVARIANTS NoPhantomCap StageMatchesCap
CHECK_DEADLOCK FALSE
