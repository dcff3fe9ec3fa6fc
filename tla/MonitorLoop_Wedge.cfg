SPECIFICATION Spec
CONSTANTS
    Apps = {"a1", "a2"}
    NoApp = "none"
    STABLE_PERIOD = 2
    STABLE_DISK_IO_PERIOD = 1
    TOP_BATCH_TTL = 1
    IDLE_CHECK = 1
    Levels = {"low", "critical"}
    DiskLevels = {"low", "critical"}
    MaxLaunches = 0
    Switches = {}
    Concurrent = TRUE
PROPERTY CalmLiftsEveryCap
