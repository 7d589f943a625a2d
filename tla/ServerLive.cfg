SPECIFICATION FairServerSpec
CONSTANTS
    t1 = t1
    Calls = {c1, c2, c3}
    Torn = Torn
    SoftLimit = 1
    HardLimit = 1
    MaxFrozen = 1
    MaxFlushRetries = 2
    MaxInFlight = 2
    MaxRestarts = 0
    MaxDamaged = 0
    Faults = {"append", "flush"}
    Tenants = {t1}
    Owner <- MCOwner
    Readers = {}
    Kinds = {}
    Endings = {"timeout"}
INVARIANTS
    RefusedNotStored
PROPERTIES
    ShutdownEnds
    FrozenDrains
ACTION_CONSTRAINT LiveConstraint
CHECK_DEADLOCK FALSE
