SPECIFICATION Spec
CONSTANTS
    p1 = p1
    p2 = p2
    p3 = p3
    r1 = r1
    Appender <- TwoAppends
    Reader <- NoReader
    Overlap = TRUE
    NewId <- TwoIds
    NewLen <- TwoLengths
    Failures = FALSE
PROPERTIES
    NeverInPlace
