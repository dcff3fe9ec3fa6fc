SPECIFICATION Spec
CONSTANTS
    Apps = {"a1"}
    NoApp = "none"
    STABLE_PERIOD = 3
    STABLE_DISK_IO_PERIOD = 2
    TOP_BATCH_TTL = 2
    IDLE_CHECK = 2
    Levels = {"low", "medium", "high", "critical"}
    DiskLevels = {"low", "high", "critical"}
    MaxLaunches = 0
    Switches = {"passive", "quiet", "faults"}
    Concurrent = TRUE
INVARIANTS TypeOK FreedStaysFree
PROPERTY HoldPeriod
