\* A write between the flusher's pwrite and its mark_clean.
CONSTANTS
    MaxLba = 2
    MaxWrites = 2
    Capacity = 2
    CoarseClock = TRUE
    Faults = {}
    WatermarkPct = 75
    Clients = {c1}
    ReadOnlyModes = {FALSE}
    Calls = {"start"}
    StartFirst = TRUE
    MaxFree = 2
SPECIFICATION Spec
INVARIANT DirtyFlagAccurate
