SPECIFICATION Spec
CONSTANTS
    Kinds <- ThreeKinds
    LookbackHours = 0
    ReferenceHours = 1
    CurrentLimit = 3
    ReferenceLimit = 4
    CurrentMin = 1
    ReferenceMin = 2
    MaxAttempts = 2
    MaxRows = 4
    MaxNow = 2
INVARIANTS
    OutlierNeedsRace
    YoungSystemQuiet
PROPERTIES
    TaskEnds
