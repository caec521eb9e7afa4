SPECIFICATION LSpec
CONSTANTS
    BlockSize = 0
    U32 = 8
    Inputs <- OneFile
    MaxSessions = 1
    StoredSizes <- Sizes
    Scale = 1
INVARIANTS
    RoundTrip
