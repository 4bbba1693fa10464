SPECIFICATION Spec
CONSTANTS
    Kinds <- NoPoison
    MaxOffset = 3
    BatchSize = 2
    MaxFaults = 2
INVARIANTS
    AtLeastOnce
