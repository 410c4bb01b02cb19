\* A block of three chunks between two words of its neighbours.
CONSTANTS
    PoolWords = 18
    Base = 2
    Len = 12
    Old = Old
SPECIFICATION CopySpec
INVARIANTS CopyComplete NeighboursKept
CHECK_DEADLOCK FALSE
