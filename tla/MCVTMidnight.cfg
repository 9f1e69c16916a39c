SPECIFICATION Spec
CONSTANTS
    Null = Null
    RequestsPerMinute = 2
    RequestsPerDay = 3
    Minute = 3
    Day = 4
    Exchange = 1
    MaxTime = 7
    MaxSends = 4
    MaxReboots = 1
INVARIANT
    RestartsKeepTheBudget
