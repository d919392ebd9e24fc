------------------------------- MODULE UtxoChain -------------------------------
(***************************************************************************)
(* Blocks applied to, and undone from, the coins database through the      *)
(* stack of caches of CoinsCache: ConnectBlock, DisconnectBlock and the    *)
(* undo data (src/validation.cpp), with FlushStateToDisk, crashes and      *)
(* restarts in between.  Which block is connected next is left open here;  *)
(* ChainState models that choice.                                          *)
(*                                                                         *)
(* A block is a sequence of transactions; a transaction spends outpoints   *)
(* <<txid, n>> and creates outputs, of which Unspendable ones are never    *)
(* stored.  Scripts, amounts, maturity and locktimes are not modelled.     *)
(***************************************************************************)
EXTENDS CoinsCache, Sequences, SequencesExt

CONSTANTS
    Genesis,      \* its transactions are never applied
    Prev,         \* [Blocks \ {Genesis} -> Blocks]: hashPrevBlock
    Height,       \* [Blocks -> Nat]
    Vtx,          \* [Blocks -> Seq(transaction)], the first one a coinbase
    Unspendable   \* the txout whose script is provably unspendable

VARIABLES
    undo,       \* CBlockUndo by block, NoUndo when nUndoPos is null
    undoDisk,   \* the blocks whose nUndoPos is stored in the block index
    rejected,   \* blocks that ConnectBlock found invalid
    unclean     \* DisconnectBlock returned something else than DISCONNECT_OK

chainVars == <<undo, undoDisk, rejected, unclean>>
allVars   == <<vars, chainVars>>

NoUndo == "no undo"

IsCoinBase(tx) == tx.vin = << >>

\* The outpoints and coins that AddCoins adds for tx, unspendable ones left out.
Spendable(tx) == {n \in DOMAIN tx.vout : tx.vout[n] # Unspendable}

NewCoin(tx, n, height) ==
    [txout |-> tx.vout[n], height |-> height, coinbase |-> IsCoinBase(tx)]

OutpointSeq(tx) == SetToSortSeq({<<tx.id, n>> : n \in Spendable(tx)}, LAMBDA p, q : p[2] < q[2])

----------------------------------------------------------------------------
(* Operations on a pair [view, tip] of caches over dbCoins.                *)

Fetched(s, o) ==
    LET tip == IF s.view[o] # Absent THEN s.tip
               ELSE FetchCoin(s.tip, o, dbCoins[o] # Spent, dbCoins[o])
    IN  [s EXCEPT !.tip = tip,
                  !.view = FetchCoin(s.view, o, tip[o] # Absent,
                                     IF tip[o] # Absent THEN tip[o].coin ELSE Spent)]

FetchedAll(s, os) == FoldLeft(Fetched, s, os)

\* HaveCoin, on a pair in which o has been fetched.
HaveCoin(s, o) == s.view[o] # Absent /\ s.view[o].coin # Spent

SpendIn(s, o) == LET f == Fetched(s, o) IN [f EXCEPT !.view = SpendCoin(f.view, o)]

\* UpdateCoins: the inputs are spent and their coins kept for the undo data,
\* then the outputs are added; a coinbase may overwrite.
UpdateCoins(s, tx, height) ==
    LET spent == FoldLeft(SpendIn, s, tx.vin)
        add(r, o) == [r EXCEPT !.view =
                        AddCoin(r.view, o, NewCoin(tx, o[2], height), IsCoinBase(tx))]
    IN  [FoldLeft(add, spent, OutpointSeq(tx)) EXCEPT !.undo =
            IF IsCoinBase(tx) THEN @
            ELSE Append(@, [i \in DOMAIN tx.vin |-> s.view[tx.vin[i]].coin])]

\* Mutant: HaveInputs asks HaveCoinInCache, which a spent entry satisfies.
ConnectTxInCache(s, tx, height) ==
    LET f == FetchedAll(s, tx.vin)
    IN  IF ~s.ok THEN s
        ELSE IF \E i \in DOMAIN tx.vin : f.view[tx.vin[i]] = Absent THEN [f EXCEPT !.ok = FALSE]
        ELSE UpdateCoins(f, tx, height)

\* One transaction of ConnectBlock: HaveInputs, then UpdateCoins.
ConnectTx(s, tx, height) ==
    LET f == FetchedAll(s, tx.vin)
    IN  IF ~s.ok THEN s
        ELSE IF \E i \in DOMAIN tx.vin : ~HaveCoin(f, tx.vin[i]) THEN [f EXCEPT !.ok = FALSE]
        ELSE UpdateCoins(f, tx, height)

Opened == [view |-> EmptyCache, tip |-> tipCoins, undo |-> << >>, ok |-> TRUE]

\* ConnectBlock up to the undo data: the BIP30 test, then the transactions.
ConnectBlock(b) ==
    LET outputs == FlattenSeq([i \in DOMAIN Vtx[b] |-> OutpointSeq(Vtx[b][i])])
        f == FetchedAll(Opened, outputs)
    IN  IF b = Genesis THEN Opened
        ELSE IF \E i \in DOMAIN outputs : HaveCoin(f, outputs[i]) THEN [f EXCEPT !.ok = FALSE]
        ELSE FoldLeft(LAMBDA s, tx : ConnectTx(s, tx, Height[b]), f, Vtx[b])

\* The outputs of tx are spent again and compared with the block.
SpendOutput(s, tx, o) ==
    LET f == Fetched(s, o)
        match == f.view[o] # Absent /\ f.view[o].coin # Spent
                    /\ f.view[o].coin.txout = tx.vout[o[2]]
    IN  [f EXCEPT !.view = SpendCoin(f.view, o), !.ok = @ /\ match]

\* UndoCoinSpend.
UndoCoinSpend(s, o, coin) ==
    LET f == Fetched(s, o)
    IN  [f EXCEPT !.ok = @ /\ ~HaveCoin(f, o),
                  !.view = AddCoin(f.view, o, coin, coin.coinbase)]

\* ApplyBlockUndo: the transactions, and the inputs of each, in reverse order.
UndoTx(s, b, i) ==
    LET tx == Vtx[b][i]
        out == FoldLeft(LAMBDA r, o : SpendOutput(r, tx, o), s, OutpointSeq(tx))
        ins == Reverse([j \in DOMAIN tx.vin |-> <<tx.vin[j], undo[b][i - 1][j]>>])
    IN  IF i = 1 THEN out
        ELSE FoldLeft(LAMBDA r, p : UndoCoinSpend(r, p[1], p[2]), out, ins)

ApplyBlockUndo(b) ==
    FoldLeft(LAMBDA s, i : UndoTx(s, b, i), Opened, Reverse([i \in DOMAIN Vtx[b] |-> i]))

----------------------------------------------------------------------------
(* The actions.  cs_main is held throughout each of them.                  *)

Tip == GetBestBlock(tipBest, dbBest)

\* ConnectTip: a view over pcoinsTip, ConnectBlock, and the view's flush.  The
\* undo data is written unless the block index already knows its position.
ConnectTip(b) ==
    LET r == ConnectBlock(b)
    IN  /\ phase # "down"
        /\ IF b = Genesis THEN Tip = NullHash ELSE Tip = Prev[b]
        /\ tipCoins' = IF r.ok THEN BatchWrite(r.view, r.tip) ELSE r.tip
        /\ tipBest' = IF r.ok THEN b ELSE Tip
        /\ undo' = IF r.ok /\ b # Genesis /\ undo[b] = NoUndo
                   THEN [undo EXCEPT ![b] = r.undo] ELSE undo
        /\ rejected' = IF r.ok THEN rejected ELSE rejected \cup {b}
        /\ UNCHANGED <<phase, viewVars, dbVars, undoDisk, unclean>>

\* DisconnectTip: fails, changing nothing but lookups, unless the undo is clean.
DisconnectTip ==
    /\ phase # "down"
    /\ Tip \notin {NullHash, Genesis}
    /\ IF undo[Tip] = NoUndo
       THEN unclean' = TRUE /\ UNCHANGED tipVars
       ELSE LET r == ApplyBlockUndo(Tip)
            IN  /\ tipCoins' = IF r.ok THEN BatchWrite(r.view, r.tip) ELSE r.tip
                /\ tipBest' = IF r.ok THEN Prev[Tip] ELSE Tip
                /\ unclean' = (unclean \/ ~r.ok)
    /\ UNCHANGED <<phase, viewVars, dbVars, undo, undoDisk, rejected>>

\* FlushStateToDisk, periodic write: the block index alone.
PeriodicWrite ==
    /\ phase # "down"
    /\ undoDisk' = {b \in Blocks : undo[b] # NoUndo}
    /\ UNCHANGED <<vars, undo, rejected, unclean>>

\* Mutant: the coins are flushed without the block index.
FullFlushCoinsOnly ==
    /\ FlushTip \/ FlushTipFails \/ Shutdown
    /\ UNCHANGED chainVars

\* FlushStateToDisk, full flush: the block index, then the coins.
FullFlush ==
    /\ FlushTip \/ FlushTipFails \/ Shutdown
    /\ undoDisk' = {b \in Blocks : undo[b] # NoUndo}
    /\ UNCHANGED <<undo, rejected, unclean>>

\* The index entries that were not written are gone, and with them nUndoPos.
CrashNode ==
    /\ Crash
    /\ undo' = [b \in Blocks |-> IF b \in undoDisk THEN undo[b] ELSE NoUndo]
    /\ rejected' = {}
    /\ UNCHANGED <<undoDisk, unclean>>

RestartNode == Restart /\ UNCHANGED chainVars

\* Lookups and Uncache by the mempool.
MempoolAccess(o) == (TipAccess(o) \/ TipUncache(o)) /\ UNCHANGED chainVars

ChainInit ==
    /\ Init
    /\ undo = [b \in Blocks |-> NoUndo]
    /\ undoDisk = {} /\ rejected = {} /\ unclean = FALSE

ChainNext ==
    \/ \E b \in Blocks : ConnectTip(b)
    \/ DisconnectTip \/ PeriodicWrite \/ FullFlush \/ CrashNode \/ RestartNode
    \/ \E o \in Outpoints : MempoolAccess(o)

ChainSpec == ChainInit /\ [][ChainNext]_allVars

----------------------------------------------------------------------------
(* The reference: the outputs left unspent by a chain, computed on a plain *)
(* map without caches, flags or undo data.                                 *)

ApplyTx(m, tx, height) ==
    [o \in Outpoints |->
        IF o[1] = tx.id /\ o[2] \in Spendable(tx) THEN NewCoin(tx, o[2], height)
        ELSE IF \E i \in DOMAIN tx.vin : tx.vin[i] = o THEN Spent ELSE m[o]]

UtxoOf[b \in Blocks \cup {NullHash}] ==
    IF b \in {NullHash, Genesis} THEN [o \in Outpoints |-> Spent]
    ELSE FoldLeft(LAMBDA m, tx : ApplyTx(m, tx, Height[b]), UtxoOf[Prev[b]], Vtx[b])

\* A block is valid after its parent when it overwrites no unspent output and
\* each of its inputs is unspent when its transaction is reached.
ValidBlock(b) ==
    LET before(i) == FoldLeft(LAMBDA m, tx : ApplyTx(m, tx, Height[b]), UtxoOf[Prev[b]],
                              SubSeq(Vtx[b], 1, i - 1))
    IN  \/ b = Genesis
        \/ \A i \in DOMAIN Vtx[b] :
            /\ \A n \in Spendable(Vtx[b][i]) : UtxoOf[Prev[b]][<<Vtx[b][i].id, n>>] = Spent
            /\ \A j \in DOMAIN Vtx[b][i].vin : before(i)[Vtx[b][i].vin[j]] # Spent

----------------------------------------------------------------------------
(* Properties.                                                             *)

\* "The block hash whose state this CCoinsView currently represents" (coins.h):
\* pcoinsTip holds exactly the unspent outputs of the chain that ends in its best
\* block, after any sequence of reorganisations, flushes, evictions and crashes.
TipMatchesBestBlock == ViewOf(tipCoins, dbCoins) = UtxoOf[Tip]

\* The same of the database, which is all that a restart has to start from.
DbMatchesBestBlock == dbCoins = UtxoOf[dbBest]

\* ConnectBlock rejects a block if and only if the reference finds it invalid: a
\* stale cache entry never turns a valid block away or lets a double spend in.
VerdictsAreRight ==
    /\ \A b \in rejected : ~ValidBlock(b)
    /\ Tip # NullHash => ValidBlock(Tip)

\* Every block that was connected can be disconnected: its undo data is there,
\* also after a crash, and restores the state before the block exactly.
UndoIsClean == ~unclean
================================================================================
