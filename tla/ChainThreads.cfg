SPECIFICATION Spec
CONSTANTS
    Blocks <- Short
    Genesis = "G"
    Parent <- ShortParent
    Ancestors <- ShortAncestors
    Height <- ShortHeight
    ChainWork <- ShortWork
    Address <- ShortAddress
    BadBody = {}
    BadConnect = {"B1"}
    Files <- ShortFiles
    KeepBlocks = 1
    PruneMode = TRUE
    Threads = {t1, t2}
    ImportThread = t1
    NoThread = NoThread
    None = None
    Commands = {}
    MaxCommands = 0
    MaxCrashes = 0
    MaxSequenceId = 6
    DiskMayFail = FALSE
INVARIANTS CheckBlockIndex KeepsRecentBlocks NoAssertion
