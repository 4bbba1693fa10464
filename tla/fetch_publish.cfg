SPECIFICATION LiveSpec
CONSTANTS
    Runs = {r1, r2}
    MaxArticle = 3
    NearPairs <- Chain
    Feeds <- ManyFeeds
    MaxPerFetch = 1
    MaxAttempts = 2
    MaxRetries = 1
    MaxStarts = 2
    MaxFaults = 2
CHECK_DEADLOCK FALSE
INVARIANTS
    NoLiveDuplicates
    SingleRunDistinct
    NothingForgotten
PROPERTIES
    MarkIsFinal
    RunEnds
