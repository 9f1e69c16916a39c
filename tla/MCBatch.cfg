SPECIFICATION FairSpec
CONSTANTS
    Null = Null
    a = a
    b = b
    Inputs <- MCInputs
    MaxEdits = 1
    MaxBatches = 2
INVARIANTS
    ExitZeroMeansArchived
    ReturnedIsAnalysed
PROPERTIES
    ReportsAreKept
    BatchEnds
CHECK_DEADLOCK FALSE
