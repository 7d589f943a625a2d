SPECIFICATION FairSpec
CONSTANTS
    w1 = w1
    w2 = w2
    Writers = {w1, w2}
    SoftLimit = 1
    HardLimit = 1
    MaxFrozen = 1
    Halts = {"fatal"}
INVARIANTS
    WakeupPending
    NoWatchdogLeak
    StallBound
PROPERTIES
    SleeperWoken
    TimeoutEndsCall
CHECK_DEADLOCK FALSE
