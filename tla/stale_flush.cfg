\* The flusher writes a pool block that was reused for another address.
CONSTANTS
    MaxLba = 2
    MaxWrites = 1
    Capacity = 1
    CoarseClock = TRUE
    Faults = {}
    WatermarkPct = 75
    Clients = {c1}
    ReadOnlyModes = {FALSE}
    Calls = {"start"}
    StartFirst = TRUE
    MaxFree = 1
SPECIFICATION Spec
INVARIANT OwnBlocksOnDisk
