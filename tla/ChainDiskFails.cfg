SPECIFICATION Spec
CONSTANTS
    Blocks <- Short
    Genesis = "G"
    Parent <- ShortParent
    Ancestors <- ShortAncestors
    Height <- ShortHeight
    ChainWork <- ShortWork
    Address <- ShortAddress
    BadBody = {"A2"}
    BadConnect = {}
    Files <- NoFiles
    KeepBlocks = 2
    PruneMode = FALSE
    Threads = {t1}
    ImportThread = t1
    NoThread = NoThread
    None = None
    Commands = {"invalidate", "precious"}
    MaxCommands = 1
    MaxCrashes = 0
    MaxSequenceId = 9
    DiskMayFail = TRUE
INVARIANTS CheckBlockIndex CoinsAtTip
PROPERTIES ActivatedOrFailed
