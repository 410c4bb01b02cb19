\* One client, the flusher, an owner that starts it.
CONSTANTS
    MaxLba = 3
    MaxWrites = 1
    Capacity = 2
    CoarseClock = TRUE
    Faults = {}
    WatermarkPct = 75
    Clients = {c1}
    ReadOnlyModes = {FALSE}
    Calls = {"start"}
    StartFirst = TRUE
    MaxFree = 2
SPECIFICATION Spec
INVARIANTS TypeOK OneOwner NoSlotLost VictimFresh WatermarkHeeded
