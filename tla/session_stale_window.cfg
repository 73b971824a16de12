CONSTANTS
    a = a
    b = b
    Node = {a, b}
    Window <- Window2
    SackEnabled = TRUE
    SackBits = 64
    FastThreshold = 1
    DedupBits = 2
    GenerationMod = 64
    Paced = FALSE
    MaxReliable <- TwoWay31
    MaxUnreliable <- None
    MaxAcks <- TwoWay12
    ReliableClasses = {2}
SPECIFICATION Spec
INVARIANT InFlightWithinAdvertised
CHECK_DEADLOCK FALSE
