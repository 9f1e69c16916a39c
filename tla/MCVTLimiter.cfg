\* Two requests per three ticks, three per day of four ticks: the window
\* straddles a midnight, both budgets are reached, and a reboot falls
\* before, within and after a window.
SPECIFICATION Spec
CONSTANTS
    Null = Null
    RequestsPerMinute = 2
    RequestsPerDay = 3
    Minute = 3
    Day = 4
    Exchange = 1
    MaxTime = 7
    MaxSends = 4
    MaxReboots = 1
INVARIANTS
    QuotasKept
    RefusalsAreJustified
