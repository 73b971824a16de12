CONSTANTS
    Node = {1, 2, 3}
    Seeds <- Everyone
    Budget <- Budget1
    MaxGossip = 16
    MaxFit = 106
    K = 1
    ProbeIds = 8
    Ticking = {1, 2}
    Joiners = {}
    Mortal = {}
    Returning = {}
    MaxNet = 2
    MaxProbeId = 3
    MaxIncarnation = 0
SPECIFICATION Spec
INVARIANT Testimony
CHECK_DEADLOCK FALSE
