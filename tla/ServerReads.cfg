SPECIFICATION ServerSpec
CONSTANTS
    c1 = c1
    c2 = c2
    t1 = t1
    t2 = t2
    r1 = r1
    Calls = {c1, c2}
    Torn = Torn
    SoftLimit = 1
    HardLimit = 1
    MaxFrozen = 1
    MaxFlushRetries = 1
    MaxInFlight = 2
    MaxRestarts = 1
    MaxDamaged = 0
    Faults = {"append", "seal", "flush"}
    Tenants = {t1, t2}
    Owner <- MCOwner
    Readers = {r1}
    Kinds = {"get", "query"}
    Endings = {"timeout", "error"}
SYMMETRY CallSymmetry
INVARIANTS
    GetFindsAcked
    QueryAnswersOwn
    AnsweredOnDisk
CHECK_DEADLOCK FALSE
