SPECIFICATION Spec
CONSTANTS
    DocIDs = {1, 2}
    Times = {1}
    Windows <- NoWindow
    MaxMemTables = 1
    MaxTables = 1
    Corruption = "any"
INVARIANT ScanComplete
CHECK_DEADLOCK FALSE
