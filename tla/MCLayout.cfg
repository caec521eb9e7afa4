SPECIFICATION LSpec
CONSTANTS
    BlockSize = 2
    U32 = 8
    Inputs <- Mixed
    MaxSessions = 3
    StoredSizes <- Sizes
    Scale = 2
INVARIANTS
    RoundTrip
    StreamAccounting
    BlocksFit
    ColumnsAddUp
