SPECIFICATION ExtractSpec
CONSTANTS
    r1 = r1
    r2 = r2
    Name <- TwoNames
    MaxDepth = 2
    Attribute = {"umask", "now", "own", "src", "before 1970"}
    Archives <- AllTrees
    Proc <- TwoRuns
    MaxFileSize = 2
    Faults <- AllFaults
INVARIANTS
    EarlierEntriesStand
    PartialIsPrefix
PROPERTIES
    SuccessIsExact
