SPECIFICATION Spec
CONSTANTS
    r1 = r1
    r2 = r2
    r3 = r3
    Runs <- ThreeRuns
    MaxLive = 2
    LiveDate <- Dates
    MaxClock = 1
    DemoSize = 2
    BatchSize = 2
    Window = 5
    EvalMin = 2
    DriftMin = 4
    Kind <- Kinds
CHECK_DEADLOCK FALSE
SYMMETRY Symmetry
INVARIANTS
    HintSuffices
    EvenDemoRunsQuiet
PROPERTIES
    FirstResultStays
