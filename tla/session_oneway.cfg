CONSTANTS
    a = a
    b = b
    Node = {a, b}
    Window <- Window32
    SackEnabled = TRUE
    SackBits = 64
    FastThreshold = 1
    DedupBits = 2
    GenerationMod = 64
    Paced = FALSE
    MaxReliable <- OneWay3
    MaxUnreliable <- OneWay4
    MaxAcks <- BackAcks4
    ReliableClasses = {1, 2}
SPECIFICATION OneKindSpec
INVARIANTS AtMostOnce OrderedInTurn NoLoss NoOverflow NoStall UnreliableAtMostOnce
CHECK_DEADLOCK FALSE
