SPECIFICATION Spec
CONSTANTS
    A = A
    B = B
    Apps = {A}
    Cgroups = {1, 2}
    Owner <- MCOwner
    Controlled = {A}
    Monitor = monitor
    Main = main
    Rest = {r1, r2}
    Ops = {"auto", "staged", "limit", "restore", "handoff"}
    Serial = FALSE
    WritesMayFail = FALSE
INVARIANT OwnersDisjoint
CHECK_DEADLOCK FALSE
