\* The three commands, with failing system calls; benchmarks of two or four
\* operations on a device of three blocks and a pool of two.
CONSTANTS
    MaxLba = 3
    MaxWrites = 1
    Capacity = 2
    CoarseClock = FALSE
    Faults = {"pread"}
    WatermarkPct = 75
    Clients = {main}
    ReadOnlyModes = {TRUE, FALSE}
    Calls = {"start", "stop", "drop"}
    StartFirst = FALSE
    MaxFree = 2
    Word = 128
    MiB = 16
    PageAlignment = 8
    SysFaults = {"stat", "open", "ioctl", "alloc"}
    CacheConfigs <- MCCacheConfigs
    BenchSizes = {0, 1, 4, 8, 9}
    BenchCounts = {0, 2, 4}
    BenchWrites = {TRUE, FALSE}
SPECIFICATION FairCommandSpec
INVARIANTS PoolHasBlocks NoPanic NothingLeftOpen WarmHits LostBlockEndsBench
PROPERTY CommandReturns
CHECK_DEADLOCK FALSE
