SPECIFICATION ChainSpec
CONSTANTS
    Blocks <- MCBlocks
    Genesis = "G"
    Prev <- MCPrev
    Height <- MCHeight
    Vtx <- MCVtx
    Outpoints <- MCOutpoints
    Coins <- MCCoins
    Unspendable = Unspendable
    Spent = Spent
    Absent = Absent
    NullHash = NullHash
    WritesMayFail = FALSE
INVARIANTS TipMatchesBestBlock DbMatchesBestBlock VerdictsAreRight UndoIsClean
