CONSTANTS
    N = 8
    Families <- Computing
    Regs = {0, 1, 2, 3, 9}
    FlagReg = 9
    Reach = 48
    Stray = {0}
    MarksFrom = {1}
    Programs <- McPrograms
    NoTree <- NoNode
    CregInit <- Creg0
    Known <- Defined
    Boundary <- IsBoundary
    OpensCreg <- IsOpening
    PopReg <- IsPopReg
    RegOf <- CregOf
    Rflag <- HasRflag
    SpDelta <- DefSp
    FlagSize <- PopSize
    AsFlagPop <- ToMovFlag
    Analyze <- DefAnalyze
    MadeUp <- Invented
    Gen <- TreeGen
    TreeOff <- TreeOffset
    Merge <- TreeMerge
    Complete <- TreeComplete
    Restore <- ExpRestore
SPECIFICATION Spec
INVARIANT LinesCoverOwned
INVARIANT Faithful
PROPERTY HiddenIsFinal
PROPERTY Advances
