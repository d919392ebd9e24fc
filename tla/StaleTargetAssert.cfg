SPECIFICATION Spec
CONSTANTS
    Blocks <- Line
    Genesis = "G"
    Parent <- LineParent
    Ancestors <- LineAncestors
    Height <- LineHeight
    ChainWork <- LineWork
    Address <- LineAddress
    BadBody = {}
    BadConnect = {}
    Files <- NoFiles
    KeepBlocks = 2
    PruneMode = FALSE
    Threads = {t1, t2}
    ImportThread = t1
    NoThread = NoThread
    None = None
    Commands = {"invalidate"}
    MaxCommands = 1
    MaxCrashes = 0
    MaxSequenceId = 9
    DiskMayFail = FALSE
INVARIANTS NoAssertion
