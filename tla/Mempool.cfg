SPECIFICATION Spec
CONSTANTS
    Tx <- MCTx
    TxIn <- MCTxIn
    NOut <- MCNOut
    Fee <- MCFee
    Size <- MCSize
    LockTime <- MCLockTime
    SeqLock <- MCSeqLock
    Version1 <- MCVersion1
    Block <- MCBlock
    Prev <- MCPrev
    Vtx <- MCVtx
    RootOut <- MCRootOut
    Maturity = 2
    LimitAncestors = 3
    LimitAncestorSize = 3
    LimitDescendantSize = 3
    LimitDescendants = 3
    MaxMempool = 3
    IncrementalRelayFee = 1000
    Deltas = {3}
    MayExpire = {"t1"}
INVARIANTS PoolConsistent DescendantStateRight NoConflict PoolIsMinable
