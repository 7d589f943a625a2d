\* One client that issues its writes one at a time.
SPECIFICATION Spec
CONSTANTS
    c1 = c1
    c2 = c2
    c3 = c3
    Calls = {c1, c2, c3}
    Torn = Torn
    SoftLimit = 1
    HardLimit = 2
    MaxFrozen = 2
    MaxFlushRetries = 2
    MaxInFlight = 1
    MaxRestarts = 2
    MaxDamaged = 0
    Faults = {"flush"}
SYMMETRY CallSymmetry
INVARIANTS
    AckedRecoverable
    AckedIdsUnique
PROPERTY StoreSpec
CHECK_DEADLOCK FALSE
