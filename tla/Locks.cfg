SPECIFICATION FairSpec
CONSTANTS
    Writers = {w1, w2}
    Getters = {g1}
    Wanted = {w1}
    Scanners = {s1}
    SoftLimit = 1
    MaxFrozen = 1
    MaxTables = 3
INVARIANTS
    PutNeverFrozen
    ReadsConsistent
    NoDeadlock
PROPERTIES
    IteratedUnchanged
    AllReturn
CHECK_DEADLOCK FALSE
