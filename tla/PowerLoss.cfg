SPECIFICATION Spec
CONSTANTS
    MaxRecords = 1
    MaxFrozen = 1
    MaxIds = 1
    MaxStops = 1
    MaxRot = 0
INVARIANT AppendedDurable
CHECK_DEADLOCK FALSE
