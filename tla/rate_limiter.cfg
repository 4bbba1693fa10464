SPECIFICATION LimiterSpec
CONSTANTS
    Limit = 2
    Window = 3
    MaxTime = 7
    MaxHits = 6
    MaxEvictions = 2
CHECK_DEADLOCK FALSE
INVARIANTS
    LimiterInv
    WindowBound
    EvictionBound
PROPERTIES
    RefusalMeansNoRest
