SPECIFICATION Spec
CONSTANTS
    c1 = c1
    c2 = c2
    Calls = {c1, c2}
    Torn = Torn
    SoftLimit = 2
    HardLimit = 2
    MaxFrozen = 1
    MaxFlushRetries = 2
    MaxInFlight = 1
    MaxRestarts = 1
    MaxDamaged = 0
    Faults = {"crash"}
INVARIANT AckedRecoverable
CHECK_DEADLOCK FALSE
