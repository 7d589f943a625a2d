SPECIFICATION Spec
CONSTANTS
    MaxRecords = 3
    MaxFrozen = 1
    MaxIds = 2
    MaxStops = 2
    MaxRot = 1
INVARIANTS
    CompleteOrNowhere
    AckedOnDisk
    AckedServed
    SurvivorsUnique
    FlushedDurable
PROPERTIES
    StaysDurable
    NeverReplaced
CHECK_DEADLOCK FALSE
