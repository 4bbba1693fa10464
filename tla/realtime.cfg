SPECIFICATION Spec
CONSTANTS
    Sockets = {s1, s2}
    MaxMessages = 3
    MaxFaults = 2
CHECK_DEADLOCK FALSE
INVARIANTS
    StreamInOrder
    LeakBound
PROPERTIES
    MessageSettled
