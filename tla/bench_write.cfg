\* A benchmark with --confirm-write on a device without errors.
CONSTANTS
    MaxLba = 2
    MaxWrites = 1
    Capacity = 2
    CoarseClock = FALSE
    Faults = {}
    WatermarkPct = 75
    Clients = {main}
    ReadOnlyModes = {FALSE}
    Calls = {"start", "stop", "drop"}
    StartFirst = TRUE
    MaxFree = 2
    Word = 128
    MiB = 16
    PageAlignment = 8
    SysFaults = {}
    CacheConfigs = {}
    BenchSizes = {1}
    BenchCounts = {2}
    BenchWrites = {TRUE}
SPECIFICATION CommandSpec
INVARIANT FlusherHasDevice
CHECK_DEADLOCK FALSE
