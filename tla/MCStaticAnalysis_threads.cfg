SPECIFICATION Spec
CONSTANTS
    Programs <- McPrograms
    Rules <- AllRules
    Count = 2
    MaxThreads = 2
    MaxStarts = 2
    MaxMishaps = 1
CHECK_DEADLOCK FALSE
INVARIANT TypeOK
INVARIANT OneAnalysis
INVARIANT MemoryHeld
INVARIANT DamageShows
PROPERTY CommandEnds
