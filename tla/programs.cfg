CONSTANTS
    Subjects = {"loop", "file", "stream", "rr", "tcp", "paced"}
    Fd = {"s1", "s2"}
    kMaxRecvPerTick = 2
    Buffer = 3
SPECIFICATION ProgramSpec
INVARIANTS NoLostWakeup DoneMeansDelivered EndIsLast HonestReport  
PROPERTIES StopReturns NoStarvation TransferCompletes SenderReturns ClientReturns
CHECK_DEADLOCK FALSE
