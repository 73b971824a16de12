CONSTANTS
    a = a
    b = b
    Node = {a, b}
    Window <- Window2
    SackEnabled = TRUE
    SackBits = 64
    FastThreshold = 1
    DedupBits = 2
    GenerationMod = 64
    Paced = FALSE
    MaxReliable <- TwoWay21
    MaxUnreliable <- None
    MaxAcks <- TwoWay12
    ReliableClasses = {1, 2}
SPECIFICATION Spec
INVARIANT IndInv
PROPERTY ImplementsChannel
CHECK_DEADLOCK FALSE
