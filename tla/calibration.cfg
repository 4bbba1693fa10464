SPECIFICATION EvalSpec
CONSTANTS
    NBins = 15
    Scale = 20
    MaxSamples = 3
CHECK_DEADLOCK FALSE
INVARIANTS
    GapBound
