SPECIFICATION Spec
CONSTANTS
    c1 = c1
    c2 = c2
    Calls = {c1, c2}
    Torn = Torn
    SoftLimit = 1
    HardLimit = 2
    MaxFrozen = 1
    MaxFlushRetries = 2
    MaxInFlight = 1
    MaxRestarts = 1
    MaxDamaged = 1
    Faults = {}
PROPERTY SurvivingLogReplayed
CHECK_DEADLOCK FALSE
