SPECIFICATION RSpec
CONSTANTS
    Name <- TwoNames
    MaxDepth = 3
    Attribute = {"umask", "now", "own", "src", "before 1970"}
    Trees <- FirstTrees
    MoreTrees <- AddedTrees
    MaxAppends = 2
    MaxVanish = 1
    Unreadable = TRUE
    Archives = {}
    Proc = {decompress}
    MaxFileSize = 2
    Faults = {}
INVARIANTS
    ListsEachOnce
    EntriesDistinct
    ParentsFirst
    NothingListedIsLost
    ComesBack
    FailsOnlyFor
