SPECIFICATION FairSpec
CONSTANTS
    Null = Null
    MaxUrls = 1
    FirstPoll = 2
    PollInterval = 1
    PhaseTimeout = 4
    VisionEnabled = TRUE
    MaxRuns = 2
    MaxTime = 5
INVARIANTS
    SubmissionsAreAccounted
    WithinBudget
    OkIsOurScan
PROPERTY
    ScanReturns
CHECK_DEADLOCK FALSE
