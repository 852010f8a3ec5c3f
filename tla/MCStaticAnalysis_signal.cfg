SPECIFICATION Spec
CONSTANTS
    Programs <- McPrograms
    Rules <- AllRules
    Count = 2
    MaxThreads = 2
    MaxStarts = 1
    MaxMishaps = 0
CHECK_DEADLOCK FALSE
INVARIANT SignalReachesCommand
