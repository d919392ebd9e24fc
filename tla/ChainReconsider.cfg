SPECIFICATION Spec
CONSTANTS
    Blocks <- Short
    Genesis = "G"
    Parent <- ShortParent
    Ancestors <- ShortAncestors
    Height <- ShortHeight
    ChainWork <- ShortWork
    Address <- ShortAddress
    BadBody = {}
    BadConnect = {"B1"}
    Files <- NoFiles
    KeepBlocks = 2
    PruneMode = FALSE
    Threads = {t1}
    ImportThread = t1
    NoThread = NoThread
    None = None
    Commands = {"invalidate", "reconsider"}
    MaxCommands = 2
    MaxCrashes = 0
    MaxSequenceId = 9
    DiskMayFail = FALSE
INVARIANTS TipNotFailed DirtyIsComplete
