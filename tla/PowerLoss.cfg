CONSTANTS
    c1 = c1
    c2 = c2
    k1 = k1
    v1 = v1
    None = None
    Clients <- MCClients
    Keys = {k1}
    Vals = {v1}
    CrashKinds = {"process", "power"}
    MaxOps = 1
    MaxBatches = 3
    MaxCrashes = 2
SYMMETRY ClientSym
SPECIFICATION Spec
PROPERTY DurableSurvivesPowerLoss
