SPECIFICATION DrainingSpec
CONSTANTS
    w1 = w1
    Writers = {w1}
    SoftLimit = 1
    HardLimit = 1
    MaxFrozen = 1
    Halts = {}
PROPERTY DrainWakesWriters
CHECK_DEADLOCK FALSE
