\* The configured ratios in units of 15 s, two exchanges, two workers.
CONSTANTS
    ex1 = ex1
    ex2 = ex2
    w1 = w1
    w2 = w2
    Exchanges = {ex1, ex2}
    Workers = {w1, w2}
    Nothing = Nothing
    Minute = 4
    TaskTimeout = 3
    Grace = 1
SPECIFICATION Spec
INVARIANTS
    OneActiveTask
PROPERTIES
    RunningEnds
    PendingIsClaimed
    AlwaysRescheduled
