SPECIFICATION RSpec
CONSTANTS
    Name <- TwoNames
    MaxDepth = 3
    Attribute = {"umask", "now", "own", "src", "before 1970"}
    Trees <- FirstTrees
    MoreTrees <- AddedTrees
    MaxAppends = 1
    MaxVanish = 0
    Unreadable = FALSE
    Archives = {}
    Proc = {decompress}
    MaxFileSize = 2
    Faults = {}
INVARIANTS
    EveryFileComesBack
