SPECIFICATION FairSpec
CONSTANTS
    Blocks <- Fork
    Genesis = "G"
    Parent <- ForkParent
    Ancestors <- ForkAncestors
    Height <- ForkHeight
    ChainWork <- ForkWork
    Address <- ForkAddress
    BadBody = {}
    BadConnect = {"B2"}
    Files <- NoFiles
    KeepBlocks = 2
    PruneMode = FALSE
    Threads = {t1}
    ImportThread = t1
    NoThread = NoThread
    None = None
    Commands = {}
    MaxCommands = 0
    MaxCrashes = 1
    MaxSequenceId = 9
    DiskMayFail = FALSE
INVARIANTS TypeOK CheckBlockIndex BestChainActivated DiskCoinsIndexed DirtyIsComplete NoAssertion
PROPERTIES ActivationEnds
