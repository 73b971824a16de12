CONSTANTS
    a = a
    b = b
    Node = {a, b}
    Window <- Window1
    SackEnabled = TRUE
    SackBits = 64
    FastThreshold = 1
    DedupBits = 2
    GenerationMod = 4
    Paced = FALSE
    MaxReliable <- OneWay2
    MaxUnreliable <- None
    MaxAcks <- Unbounded
    ReliableClasses = {1, 2}
    MaxFaults = 2
SPECIFICATION LiveSpec
PROPERTIES EveryMessageDelivered SenderDrains
CHECK_DEADLOCK FALSE
