SPECIFICATION CodecSpec
CONSTANTS
    Data <- TheData
    Noise <- TheNoise
    Size <- Sizes
    PackedSize <- PackedSizes
    BlockSize = 3
    TagSize = 1
    Overhead = 2
    U32 = 8
    Passwords = {"mine", "another"}
    MaxBlocks = 4
    MaxDamage = 2
INVARIANTS
    ReadBackExact
    NoWrongBytes
    VerifyAgrees
