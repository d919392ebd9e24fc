SPECIFICATION FairSpec
CONSTANTS
    Workers = {w1, w2}
    Master = master
    nBatchSize = 2
    MaxChecks = 4
    MaxAdd = 4
    MayFail = {1, 3}
    MaxBlocks = 2
CHECK_DEADLOCK FALSE
INVARIANTS TypeOK TodoCountsPending VerdictRight NothingOutlivesControl
PROPERTIES WaitReturns
