\* No flusher: hits, misses, clean and dirty evictions, failing I/O.
CONSTANTS
    MaxLba = 3
    MaxWrites = 2
    Capacity = 2
    CoarseClock = TRUE
    Faults = {"pread", "pwrite", "fsync"}
    WatermarkPct = 75
    Clients = {c1}
    ReadOnlyModes = {TRUE, FALSE}
    Calls = {}
    StartFirst = FALSE
    MaxFree = 2
SPECIFICATION Spec
INVARIANTS DirtyFlagAccurate
PROPERTY ImplementsBlockStore
