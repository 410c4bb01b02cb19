\* Two clients evict the same block.
CONSTANTS
    MaxLba = 2
    MaxWrites = 1
    Capacity = 1
    CoarseClock = TRUE
    Faults = {}
    WatermarkPct = 75
    Clients = {c1, c2}
    ReadOnlyModes = {FALSE}
    Calls = {"start"}
    StartFirst = TRUE
    MaxFree = 3
SPECIFICATION Spec
SYMMETRY ClientSymmetry
INVARIANT OneOwner
CHECK_DEADLOCK FALSE
