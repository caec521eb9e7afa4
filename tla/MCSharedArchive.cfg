SPECIFICATION Spec
CONSTANTS
    p1 = p1
    p2 = p2
    p3 = p3
    r1 = r1
    Appender <- ThreeAppends
    Reader <- OneReader
    Overlap = FALSE
    NewId <- Ids
    NewLen <- Lengths
    Failures = TRUE
INVARIANTS
    NoAppendLost
    ReadersUndisturbed
