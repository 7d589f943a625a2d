SPECIFICATION Spec
CONSTANTS
    DocIDs = {1, 2, 3}
    Times = {1, 2}
    Windows <- SomeWindows
    MaxMemTables = 1
    MaxTables = 2
    Corruption = "later"
INVARIANTS
    VisitOrder
    ScanComplete
    ScanMatchesGet
    IteratorsReleased
CHECK_DEADLOCK FALSE
