\* Two clients, the flusher and the owner: every call returns without the interval
\* timer; with it, dirty blocks are flushed.
CONSTANTS
    MaxLba = 1
    MaxWrites = 1
    Capacity = 1
    CoarseClock = TRUE
    Faults = {"pread", "fsync"}
    WatermarkPct = 75
    Clients = {c1, c2}
    ReadOnlyModes = {FALSE}
    Calls = {"start", "stop", "drop"}
    StartFirst = FALSE
    MaxFree = 2
SPECIFICATION FairSpec
INVARIANTS WakeNotLost ShutdownPrompt
PROPERTIES ShutdownReturns RequestsReturn DirtyIsFlushed
CHECK_DEADLOCK FALSE
