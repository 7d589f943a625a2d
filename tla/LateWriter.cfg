SPECIFICATION Spec
CONSTANTS
    c1 = c1
    c2 = c2
    Calls = {c1, c2}
    Torn = Torn
    SoftLimit = 1
    HardLimit = 2
    MaxFrozen = 1
    MaxFlushRetries = 2
    MaxInFlight = 2
    MaxRestarts = 0
    MaxDamaged = 0
    Faults = {}
INVARIANT AckedRecoverable
CHECK_DEADLOCK FALSE
