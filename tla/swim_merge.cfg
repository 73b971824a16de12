CONSTANTS
    Node = {1, 2}
    Seeds <- Strangers
    Budget <- Budget1
    MaxGossip = 16
    MaxFit = 106
    K = 3
    ProbeIds = 1
    Ticking = {1}
    Joiners = {2}
    Mortal = {2}
    Returning = {2}
    MaxNet = 2
    MaxProbeId = 1
    MaxIncarnation = 2
SPECIFICATION Spec
INVARIANTS RumorsAgree OnlySubjectMints
PROPERTY ResurrectedByItself
CHECK_DEADLOCK FALSE
