CONSTANTS
    Node = {1, 2}
    Seeds <- Everyone
    Budget <- DefaultBudget
    MaxGossip = 16
    MaxFit = 106
    K = 3
    ProbeIds = 1
    Ticking = {1, 2}
    Joiners = {}
    Mortal = {}
    Returning = {}
    MaxNet = 100
    MaxProbeId = 1
    MaxIncarnation = 9
    FaultKinds = {"lose"}
    MaxFaults = 4
SPECIFICATION LiveSpec
PROPERTY Reconverges
