\* Shutdown during a flush cycle.
CONSTANTS
    MaxLba = 2
    MaxWrites = 1
    Capacity = 2
    CoarseClock = TRUE
    Faults = {}
    WatermarkPct = 75
    Clients = {c1}
    ReadOnlyModes = {FALSE}
    Calls = {"start", "stop"}
    StartFirst = TRUE
    MaxFree = 2
SPECIFICATION Spec
INVARIANT FinalFlush
