SPECIFICATION Spec
CONSTANTS
    w1 = w1
    w2 = w2
    Worker <- TwoWorkers
    StoredSizes = {1}
    IndexSizes = {1, 3}
    MaxBlocks = 2
    HeaderSize = 1
    U32 = 4
    MaxOld = 1
    MaxLen = 3
    Faults <- OnlyCopy
INVARIANTS
    FailureRemovesTmp
