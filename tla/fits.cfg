\* A flusher that is started and stopped, room for every block in the cache; blocks
\* are rewritten and pwrites fail.
CONSTANTS
    MaxLba = 2
    MaxWrites = 2
    Capacity = 2
    CoarseClock = TRUE
    Faults = {"pwrite"}
    WatermarkPct = 75
    Clients = {c1}
    ReadOnlyModes = {FALSE}
    Calls = {"start", "stop"}
    StartFirst = FALSE
    MaxFree = 2
SPECIFICATION Spec
INVARIANT Committed
PROPERTIES ImplementsBlockStore FlagClearedOnlyInRace
