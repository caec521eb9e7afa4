SPECIFICATION FairSpec
CONSTANTS
    w1 = w1
    w2 = w2
    Worker <- TwoWorkers
    StoredSizes = {1, 2}
    IndexSizes = {1}
    MaxBlocks = 3
    HeaderSize = 1
    U32 = 4
    Faults <- AllFaults
INVARIANTS
    IInv
    DiskInv
    SuccessIsComplete
    LoadableIsComplete
    FailureLeavesNothing
    IndexContiguous
    FinalizeIsLast
    ErrorsSurface
    NoFalseAlarm
PROPERTIES
    ImplementsOrderedLog
    Terminates
