SPECIFICATION Spec
CONSTANTS
    MaxRecords = 3
    MaxFrozen = 1
    MaxIds = 2
    MaxStops = 2
    MaxRot = 1
INVARIANTS
    FilesInv
    KeptInv
CHECK_DEADLOCK FALSE
