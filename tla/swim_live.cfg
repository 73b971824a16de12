CONSTANTS
    Node = {1, 2}
    Seeds <- Everyone
    Budget <- DefaultBudget
    MaxGossip = 16
    MaxFit = 106
    K = 3
    ProbeIds = 1
    Ticking = {1, 2}
    Joiners = {2}
    Mortal = {2}
    Returning = {2}
    MaxNet = 100
    MaxProbeId = 1
    MaxIncarnation = 9
    FaultKinds = {"lose", "early", "crash", "cut"}
    MaxFaults = 2
SPECIFICATION LiveSpec
PROPERTIES Reconverges CrashDetected JoinTerminates
