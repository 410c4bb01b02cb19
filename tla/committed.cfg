\* A dirty eviction is never followed by an fsync.
CONSTANTS
    MaxLba = 2
    MaxWrites = 1
    Capacity = 1
    CoarseClock = TRUE
    Faults = {}
    WatermarkPct = 75
    Clients = {c1}
    ReadOnlyModes = {FALSE}
    Calls = {"start", "stop"}
    StartFirst = TRUE
    MaxFree = 1
SPECIFICATION Spec
INVARIANT Committed
