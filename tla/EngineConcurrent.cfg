SPECIFICATION Spec
CONSTANTS
    c1 = c1
    c2 = c2
    c3 = c3
    Calls = {c1, c2, c3}
    Torn = Torn
    SoftLimit = 1
    HardLimit = 1
    MaxFrozen = 1
    MaxFlushRetries = 1
    MaxInFlight = 2
    MaxRestarts = 1
    MaxDamaged = 1
    Faults = {"append", "crash", "seal", "flush"}
SYMMETRY CallSymmetry
INVARIANTS
    TypeOK
    MemTableSubsetOfWAL
    RunReadable
    FlushOrder
    NoLostFreeze
    NoLostFlush
PROPERTY VisibleStays
CHECK_DEADLOCK FALSE
