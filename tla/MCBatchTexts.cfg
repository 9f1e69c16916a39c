SPECIFICATION Spec
CONSTANTS
    Null = Null
    a = a
    b = b
    Inputs <- MCInputs
    MaxEdits = 1
    MaxBatches = 2
INVARIANTS
    AcceptedIsAnalysed
    FailingEmailNeverStopsTheBatch
CHECK_DEADLOCK FALSE
