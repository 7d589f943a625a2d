SPECIFICATION Spec
CONSTANTS
    Writers = {w1, w2}
    Getters = {g1}
    Wanted = {w1}
    Scanners = {s1}
    SoftLimit = 1
    MaxFrozen = 1
    MaxTables = 3
INVARIANTS
    PutNeverFrozen
    LocksInv
    Accounts
    NoDeadlock
    GuardsExact
    ReadsConsistent
CHECK_DEADLOCK FALSE
