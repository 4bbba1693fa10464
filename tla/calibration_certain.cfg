SPECIFICATION EvalSpec
CONSTANTS
    NBins = 15
    Scale = 20
    MaxSamples = 2
CHECK_DEADLOCK FALSE
INVARIANTS
    CertainAndWrongShows
