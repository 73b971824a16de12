CONSTANTS
    a = a
    b = b
    Node = {a, b}
    Window <- Window3
    SackEnabled = TRUE
    SackBits = 2
    FastThreshold = 2
    DedupBits = 2
    GenerationMod = 64
    Paced = TRUE
    MaxReliable <- OneWay4
    MaxUnreliable <- OneWay1
    MaxAcks <- BackAcks4
    ReliableClasses = {2}
SPECIFICATION Spec
INVARIANTS SackTruthful TimersCoverRing InFlightWithinAdvertised
PROPERTY WindowNeverReneges
CHECK_DEADLOCK FALSE
