------------------------------- MODULE CoinsCache -------------------------------
(***************************************************************************)
(* The stack of coin views of a running node: the local CCoinsViewCache    *)
(* "view" of ConnectTip or DisconnectTip, over pcoinsTip, over the coins   *)
(* database.  cs_main is held from the construction of "view" until it is  *)
(* flushed or destroyed, so other users of pcoinsTip (the mempool, RPC)    *)
(* run only while no view exists.  The process may crash at any point; if  *)
(* WritesMayFail, a database write may also fail, which makes the node     *)
(* shut itself down (AbortNode) and flush once more on its way (Shutdown). *)
(***************************************************************************)
EXTENDS CoinsView

CONSTANTS Blocks,         \* block hashes a view can be set to
          NullHash,       \* the null uint256
          WritesMayFail   \* whether leveldb may report an I/O error

ASSUME BlocksAssumption == NullHash \notin Blocks /\ WritesMayFail \in BOOLEAN

VARIABLES
    phase,       \* "running"; "aborting": shutdown requested; "down"
    viewOpen,    \* the local view exists
    viewCoins,   \* view.cacheCoins
    viewBest,    \* view.hashBlock
    tipCoins,    \* pcoinsTip->cacheCoins
    tipBest,     \* pcoinsTip->hashBlock
    dbCoins,     \* the coins in the database
    dbBest       \* DB_BEST_BLOCK

viewVars == <<viewOpen, viewCoins, viewBest>>
tipVars  == <<tipCoins, tipBest>>
dbVars   == <<dbCoins, dbBest>>
vars     == <<phase, viewVars, tipVars, dbVars>>

\* What a reader of pcoinsTip, and of the local view, obtains for o.
TipCoin(o) == Seen(tipCoins, dbCoins, o)
ViewCoin(o) == Seen(viewCoins, [p \in Outpoints |-> TipCoin(p)], o)

\* CCoinsViewCache::GetBestBlock: a null hashBlock is filled from the base.
GetBestBlock(own, base) == IF own # NullHash THEN own ELSE base

Init ==
    /\ phase = "running"
    /\ viewOpen = FALSE /\ viewCoins = EmptyCache /\ viewBest = NullHash
    /\ tipCoins = EmptyCache /\ tipBest = NullHash
    /\ dbCoins = [o \in Outpoints |-> Spent] /\ dbBest = NullHash

\* pcoinsTip after a lookup of o, and view after a lookup that reached it.
TipFetched(o) == FetchCoin(tipCoins, o, dbCoins[o] # Spent, dbCoins[o])

ViewFetched(o) ==
    LET tip == IF viewCoins[o] # Absent THEN tipCoins ELSE TipFetched(o)
    IN  [tip  |-> tip,
         view |-> FetchCoin(viewCoins, o, tip[o] # Absent,
                            IF tip[o] # Absent THEN tip[o].coin ELSE Spent)]

----------------------------------------------------------------------------
(* The local view of ConnectTip and DisconnectTip.                         *)

\* CCoinsViewCache view(pcoinsTip), and the GetBestBlock of the assertion with
\* which ConnectBlock and DisconnectBlock begin.
BeginView ==
    /\ phase # "down" /\ ~viewOpen
    /\ viewOpen' = TRUE
    /\ viewCoins' = EmptyCache
    /\ tipBest' = GetBestBlock(tipBest, dbBest)
    /\ viewBest' = tipBest'
    /\ UNCHANGED <<phase, tipCoins, dbVars>>

\* AccessCoin, GetCoin, HaveCoin and HaveInputs on the view.
ViewAccess(o) ==
    /\ viewOpen
    /\ viewCoins' = ViewFetched(o).view
    /\ tipCoins' = ViewFetched(o).tip
    /\ UNCHANGED <<phase, viewOpen, viewBest, tipBest, dbVars>>

ViewSpend(o) ==
    /\ viewOpen
    /\ viewCoins' = SpendCoin(ViewFetched(o).view, o)
    /\ tipCoins' = ViewFetched(o).tip
    /\ UNCHANGED <<phase, viewOpen, viewBest, tipBest, dbVars>>

\* AddCoin does not look below its own cache.  Its callers promise that the
\* view has no unspent coin for o unless they pass possible_overwrite: the
\* BIP30 test of ConnectBlock, and HaveCoin in UndoCoinSpend.
ViewAdd(o, c, possible_overwrite) ==
    /\ viewOpen
    /\ possible_overwrite \/ ViewCoin(o) = Spent
    /\ viewCoins' = AddCoin(viewCoins, o, c, possible_overwrite)
    /\ UNCHANGED <<phase, viewOpen, viewBest, tipVars, dbVars>>

\* view.SetBestBlock(b) and assert(view.Flush()).
CommitView(b) ==
    /\ viewOpen
    /\ tipCoins' = BatchWrite(viewCoins, tipCoins)
    /\ tipBest' = b
    /\ viewOpen' = FALSE /\ viewCoins' = EmptyCache /\ viewBest' = NullHash
    /\ UNCHANGED <<phase, dbVars>>

\* The block turned out to be invalid: the view is destroyed without a Flush.
DropView ==
    /\ viewOpen
    /\ viewOpen' = FALSE /\ viewCoins' = EmptyCache /\ viewBest' = NullHash
    /\ UNCHANGED <<phase, tipVars, dbVars>>

----------------------------------------------------------------------------
(* pcoinsTip and the database.                                             *)

\* A lookup in pcoinsTip by the mempool or by RPC.
TipAccess(o) ==
    /\ phase # "down" /\ ~viewOpen
    /\ tipCoins' = TipFetched(o)
    /\ UNCHANGED <<phase, viewVars, tipBest, dbVars>>

\* The mempool forgets the coins of a transaction it rejected.
TipUncache(o) ==
    /\ phase # "down" /\ ~viewOpen
    /\ tipCoins' = Uncache(tipCoins, o)
    /\ UNCHANGED <<phase, viewVars, tipBest, dbVars>>

\* pcoinsTip->Flush(): the database takes coins and best block in one batch.
WriteTip ==
    /\ dbCoins' = BatchWriteDB(tipCoins, dbCoins)
    /\ dbBest' = IF tipBest # NullHash THEN tipBest ELSE dbBest
    /\ tipCoins' = EmptyCache

FlushTip ==
    /\ phase # "down" /\ ~viewOpen
    /\ WriteTip
    /\ UNCHANGED <<phase, viewVars, tipBest>>

\* The batch fails and HandleError throws.  CCoinsViewDB::BatchWrite has by then
\* erased every entry of cacheCoins, while hashBlock keeps its value.
FlushTipFails ==
    /\ WritesMayFail
    /\ phase # "down" /\ ~viewOpen
    /\ tipCoins' = EmptyCache
    /\ phase' = "aborting"
    /\ UNCHANGED <<viewVars, tipBest, dbVars>>

\* Shutdown(): a last FlushStateToDisk, then the views are deleted.
Shutdown ==
    /\ phase # "down" /\ ~viewOpen
    /\ WriteTip
    /\ tipBest' = NullHash
    /\ phase' = "down"
    /\ UNCHANGED viewVars

\* The process dies: memory is lost, the database is not.
Crash ==
    /\ phase # "down"
    /\ phase' = "down"
    /\ viewOpen' = FALSE /\ viewCoins' = EmptyCache /\ viewBest' = NullHash
    /\ tipCoins' = EmptyCache /\ tipBest' = NullHash
    /\ UNCHANGED dbVars

\* A new process; LoadBlockIndexDB asks pcoinsTip for its best block.
Restart ==
    /\ phase = "down"
    /\ phase' = "running"
    /\ tipBest' = GetBestBlock(tipBest, dbBest)
    /\ UNCHANGED <<viewVars, tipCoins, dbVars>>

Next ==
    \/ BeginView \/ DropView \/ FlushTip \/ FlushTipFails
    \/ Shutdown \/ Crash \/ Restart
    \/ \E o \in Outpoints : ViewAccess(o) \/ ViewSpend(o) \/ TipAccess(o) \/ TipUncache(o)
    \/ \E o \in Outpoints, c \in Coins, ow \in BOOLEAN : ViewAdd(o, c, ow)
    \/ \E b \in Blocks : CommitView(b)

Spec == Init /\ [][Next]_vars

----------------------------------------------------------------------------
(* Properties.                                                             *)

\* Every cache entry is a CCoinsCacheEntry, an unspent coin or a spent one with its
\* two flags, at both levels of the stack, and every best block is a known hash.
TypeOK ==
    /\ phase \in {"running", "aborting", "down"}
    /\ viewOpen \in BOOLEAN
    /\ viewCoins \in Cache /\ viewBest \in Blocks \cup {NullHash}
    /\ tipCoins \in Cache /\ tipBest \in Blocks \cup {NullHash}
    /\ dbCoins \in CoinMap /\ dbBest \in Blocks \cup {NullHash}

\* What coins.h says of the FRESH flag, "The parent view does not have this entry
\* (or it is pruned)", at both levels of the stack and through every sequence
\* of lookups, spends, additions, merges, flushes and crashes: erasing a FRESH
\* entry never loses a deletion that the level below still needs.
FreshMeansSpentBelow ==
    \A o \in Outpoints :
        /\ tipCoins[o] # Absent /\ tipCoins[o].fresh => dbCoins[o] = Spent
        /\ viewCoins[o] # Absent /\ viewCoins[o].fresh => TipCoin(o) = Spent

\* An entry that is not DIRTY equals what the level below holds, so dropping it
\* (Uncache, or the clear() at the end of Flush) loses nothing.
CleanMatchesBelow ==
    \A o \in Outpoints :
        /\ tipCoins[o] # Absent /\ ~tipCoins[o].dirty => tipCoins[o].coin = dbCoins[o]
        /\ viewCoins[o] # Absent /\ ~viewCoins[o].dirty => viewCoins[o].coin = TipCoin(o)

\* FRESH and DIRTY mean what coins.h says of them, together: what the caches
\* drop on the strength of either flag is never needed again.
FlagsMatchBelow == FreshMeansSpentBelow /\ CleanMatchesBelow

\* BatchWrite never meets the state for which it throws "FRESH flag misapplied",
\* which would leave pcoinsTip with half of a block.
NoLogicError == \A o \in Outpoints : ~FreshMisapplied(viewCoins[o], tipCoins[o])

\* A spent entry of pcoinsTip is one the database still has to hear of.
SpentIsPending ==
    \A o \in Outpoints : tipCoins[o] # Absent /\ tipCoins[o].coin = Spent
                            => tipCoins[o].dirty /\ ~tipCoins[o].fresh

\* The caches are invisible: the stack behaves as one flat map with a working
\* copy and a durable copy that changes, with its block, all at once; only a write
\* that fails separates the map from its block (Forget of UtxoSet).
Utxo == INSTANCE UtxoSet WITH
            coins   <- ViewOf(tipCoins, dbCoins),
            best    <- GetBestBlock(tipBest, dbBest),
            working <- IF viewOpen THEN <<ViewOf(viewCoins, ViewOf(tipCoins, dbCoins))>> ELSE << >>,
            durable <- [coins |-> dbCoins, best |-> dbBest]

RefinesUtxoSet == Utxo!UtxoSpec

================================================================================
