SPECIFICATION Spec
CONSTANTS
    Null = Null
    p = p
    q = q
    F = F
    G = G
    H = H
    Gold = Gold
    onnx1 = onnx1
    onnx2 = onnx2
    Procs <- MCProcs
    Cases <- MCCases
    Sources <- MCSources
    Exclusions <- MCExclusions
    Protected <- MCProtected
    Models <- MCModels
    MaxCases = 2
    K = 2
    MaxRank = 4
    MaxCommands = 3
    MaxUpgrades = 1
INVARIANTS
    NeverMixed
    OneCasePerFamily
    NeighboursAreDistinct
PROPERTIES
    AddNeverReplaces
    RefusedForAnother
SYMMETRY Alike
CHECK_DEADLOCK FALSE
