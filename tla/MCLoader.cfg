SPECIFICATION LoadSpec
CONSTANTS
    Default <- SmallDefault
    Sizes <- TwoSizes
    BlockSizes <- ThreeSizes
    Options <- SmallOptions
    Kib = 2
    U32 = 4
    StoredExtra = 1
INVARIANTS
    WithinLimits
    AskedLast
    OpensTheSound
