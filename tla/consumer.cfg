SPECIFICATION LiveSpec
CONSTANTS
    Kinds <- AllKinds
    MaxOffset = 4
    BatchSize = 2
    MaxFaults = 3
INVARIANTS
    IndInv
    NoSilentLoss
    DuplicateBudget
    CacheBehindDb
    GracefulDrain
    PoisonBarrier
PROPERTIES
    CommittedNeverReprocessed
    ContractSpec
    EventuallyCommitted
    StopEndsLoop
