SPECIFICATION FairSpec
CONSTANTS
    w1 = w1
    w2 = w2
    Worker <- TwoWorkers
    StoredSizes = {1, 2}
    IndexSizes = {1, 3}
    MaxBlocks = 2
    HeaderSize = 1
    U32 = 4
    MaxOld = 2
    MaxLen = 5
    Faults <- AllFaults
INVARIANTS
    AppendInv
    ArchiveAlwaysWhole
    OldEntriesKept
    OutcomeMatchesArchive
    FailureRemovesCopy
PROPERTIES
    NoWriteAfterRename
    ImplementsOrderedLog
    Terminates
