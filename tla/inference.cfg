SPECIFICATION Spec
CONSTANTS
    Weights <- TenthWeights
    RawLabels <- ModelLabels
    LabelMaps <- Maps
    Granules = 5
    Temperatures = {1, 2}
    TickerIn <- Capitals
    TooShort = {"A"}
    Blocklist = {"CEO"}
    SectorOf <- SectorTable
    Hedges = {"may"}
    Negations = {"not"}
    ForwardLooking = {"will"}
    HighImpact = {"surge"}
    MediumImpact = {"revenue"}
    MaxFaults = 1
    Workloads <- BothLoads
INVARIANTS
    Repeatable
    UnanimityDecides
    HeadlineTickersFirst
    UnknownOnlyByFault
