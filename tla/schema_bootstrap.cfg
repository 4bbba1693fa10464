SPECIFICATION LiveSpec
CONSTANTS
    Procs = {consumer, worker1, worker2}
    MaxFaults = 3
CHECK_DEADLOCK FALSE
INVARIANTS
    IndInv
    AllOrNothing
    ReadyMeansSchema
PROPERTIES
    EventuallyReady
