CONSTANTS
    Subjects = {"congestion", "timers", "simnet", "codec", "order"}
    WindowPkts = {1, 5}
    InitialRtt = 1
    InitialCap = 2
    MilliTicks = 2
    Samples <- FastAndSlow
    SackedAbove = 3
    MaxSeq = 7
SPECIFICATION LibrarySpec
INVARIANTS GrowthEarned InboxHonest NeverMisparsed CrcIsRemainder TurnComes
PROPERTIES OneCutPerFlight ImplementsTimerSet EntriesReleased
CHECK_DEADLOCK FALSE
