CONSTANTS
    o1 = o1
    o2 = o2
    Optimizers <- McOptimizers
    MaxRecords = 3
    MaxMishaps = 2
CHECK_DEADLOCK FALSE
SPECIFICATION Spec
INVARIANT TypeOK
INVARIANT NotOptimizedTwice
INVARIANT WholeRecording
INVARIANT OwnItems
INVARIANT Recoverable
PROPERTY OptimizerEnds
