-------------------------------- MODULE Mempool --------------------------------
(***************************************************************************)
(* The memory pool (src/txmempool.cpp) and the chain operations that       *)
(* change it (src/validation.cpp): AcceptToMemoryPool, the removals when a *)
(* block is connected, the resurrection of a disconnected block's          *)
(* transactions, removeForReorg, expiry and eviction.                      *)
(*                                                                         *)
(* Every operation runs under cs_main.  An operation of the code that is a *)
(* loop over transactions is a phase here: its steps are actions, and no   *)
(* other operation is enabled until it ends, so that the inconsistent      *)
(* states the code goes through are states of the model.                   *)
(*                                                                         *)
(* A transaction spends outpoints <<id, n>>; the coinbase of block b has   *)
(* id b.  Fees, sizes, locktimes and relative lock heights are numbers;    *)
(* scripts, sigops (counted exactly as sizes are) and time-based locks are *)
(* not modelled.  Memory usage is the total size of the transactions.      *)
(***************************************************************************)
EXTENDS Integers, Sequences, FiniteSets, SequencesExt

CONSTANTS
    Tx,            \* the transactions that may be submitted or mined
    TxIn,          \* [Tx -> SUBSET Outpoint]: vin
    NOut,          \* [Tx -> Nat]: vout.size()
    Fee, Size,     \* [Tx -> Nat]
    LockTime,      \* [Tx -> Nat]: final in blocks above this height
    SeqLock,       \* [Tx -> Nat \cup {NoLock}]: BIP68 lock, in blocks
    Version1,      \* the transactions with nVersion < 2, which BIP68 does not bind
    Block,         \* the blocks above Root
    Prev,          \* [Block -> Block \cup {Root}]
    Vtx,           \* [Block -> Seq(Tx)], without the coinbase
    RootOut,       \* outpoints that exist at Root
    Maturity,      \* COINBASE_MATURITY
    LimitAncestors, LimitDescendants, \* counts, the transaction included
    LimitAncestorSize, LimitDescendantSize,
    MaxMempool,    \* -maxmempool
    IncrementalRelayFee, \* satoshis per 1000 bytes
    Deltas,        \* fee deltas PrioritiseTransaction may be called with
    MayExpire      \* transactions that may outlive -mempoolexpiry

ASSUME MempoolAssumption ==
    /\ "no tx" \notin Tx
    /\ Vtx \in [Block -> Seq(Tx)]

ASSUME VersionAssumption ==
    \A t \in Version1 : t \in Tx /\ SeqLock[t] = -1

VARIABLES
    chain,      \* chainActive, from Root
    coins,      \* the chain whose effects pcoinsTip holds
    pool,       \* mapTx, mapLinks, mapNextTx and the entries' totals
    mapDeltas,  \* [Tx -> Int], 0 when absent
    minRate,    \* rollingMinimumFeeRate
    sinceBump,  \* blockSinceLastRollingFeeBump
    old,        \* entries older than -mempoolexpiry
    reorg,      \* "no"; "down"/"up": a step that disconnected blocks is under way
    phase       \* the loop being executed: [at, todo, done]

vars == <<chain, coins, pool, mapDeltas, minRate, sinceBump, old, reorg, phase>>

Root     == "root"
NoLock   == -1
NoTx     == "no tx"
Outpoint == UNION {TxIn[t] : t \in Tx} \cup RootOut
Outputs(t) == {<<t, n>> : n \in 0 .. NOut[t] - 1}

Idle    == [at |-> "idle", todo |-> << >>, done |-> << >>]
AtRest  == phase = Idle /\ reorg = "no"

----------------------------------------------------------------------------
(* The coins at the tip of a chain.  Chain index i is height i - 1.        *)

Height(c) == Len(c) - 1

TxsOf(b) == IF b = Root THEN {} ELSE ToSet(Vtx[b])

BlockOutputs(b) ==
    IF b = Root THEN RootOut ELSE {<<b, 0>>} \cup UNION {Outputs(t) : t \in TxsOf(b)}

Unspent(c) ==
    UNION {BlockOutputs(b) : b \in ToSet(c)}
      \ UNION {TxIn[t] : t \in UNION {TxsOf(b) : b \in ToSet(c)}}

CoinHeight(c, o) == (CHOOSE i \in DOMAIN c : o \in BlockOutputs(c[i])) - 1

\* CheckTxInputs: a coinbase output may be spent Maturity blocks later.
Mature(c, o) == o[1] \in Block => Len(c) - CoinHeight(c, o) >= Maturity

Final(t, height) == LockTime[t] < height

----------------------------------------------------------------------------
(* Entry totals are <<count, size, modified fees>>.                        *)

Plus(a, b)  == <<a[1] + b[1], a[2] + b[2], a[3] + b[3]>>
Minus(a, b) == <<a[1] - b[1], a[2] - b[2], a[3] - b[3]>>
Zero        == <<0, 0, 0>>

Weight(P, t) == <<1, Size[t], Fee[t] + P.feeDelta[t]>>

Total(P, S) ==
    LET add(x, acc) == Plus(Weight(P, x), acc)
    IN  FoldSet(add, Zero, S)

\* What is reachable from S along link, the result of the loops over stage
\* sets: the least set that contains S and is closed under link.
Closed(C, link) == \A t \in C : link[t] \subseteq C

Closure(S, link) ==
    LET linked == S \cup UNION {link[t] : t \in Tx}
        closed == {C \in SUBSET linked : S \subseteq C /\ Closed(C, link)}
    IN  {t \in linked : \A C \in closed : t \in C}

\* CalculateDescendants, for a set of entries; the entries are included.
CalculateDescendants(P, S) == Closure(S, P.children)

\* CalculateMemPoolAncestors without limits: from mapLinks for an entry of
\* the pool, from the inputs for a transaction that is not in the pool.
InPoolParents(P, t) == {p \in P.tx : \E o \in TxIn[t] : o[1] = p}
Ancestors(P, S)     == Closure(S, P.parents)

WithinLimits(P, t) ==
    LET anc == Ancestors(P, InPoolParents(P, t))
    IN  /\ Cardinality(anc) + 1 <= LimitAncestors
        /\ anc # {} => Total(P, anc)[2] + Size[t] <= LimitAncestorSize
        /\ \A a \in anc : /\ P.desc[a][1] + 1 <= LimitDescendants
                          /\ P.desc[a][2] + Size[t] <= LimitDescendantSize

EmptyPool ==
    [tx       |-> {},
     parents  |-> [t \in Tx |-> {}],
     children |-> [t \in Tx |-> {}],
     desc     |-> [t \in Tx |-> Zero],
     anc      |-> [t \in Tx |-> Zero],
     feeDelta |-> [t \in Tx |-> 0],
     lp       |-> [t \in Tx |-> <<0, Root>>],
     next     |-> [o \in Outpoint |-> NoTx]]

\* addUnchecked; lp is the entry's lock points.
addUnchecked(P, t, lp) ==
    LET ps  == InPoolParents(P, t)
        as  == Ancestors(P, ps)
        w   == <<1, Size[t], Fee[t] + mapDeltas[t]>>
    IN  [tx       |-> P.tx \cup {t},
         parents  |-> [P.parents EXCEPT ![t] = ps],
         children |-> [u \in Tx |-> IF u \in ps THEN P.children[u] \cup {t} ELSE P.children[u]],
         desc     |-> [u \in Tx |-> IF u = t THEN w
                                    ELSE IF u \in as THEN Plus(P.desc[u], w) ELSE P.desc[u]],
         anc      |-> [P.anc EXCEPT ![t] = Plus(w, Total(P, as))],
         feeDelta |-> [P.feeDelta EXCEPT ![t] = mapDeltas[t]],
         lp       |-> [P.lp EXCEPT ![t] = lp],
         next     |-> [o \in Outpoint |-> IF o \in TxIn[t] /\ P.next[o] = NoTx THEN t ELSE P.next[o]]]

\* RemoveStaged: UpdateForRemoveFromMempool on the whole stage, then
\* removeUnchecked on each of its entries.
RemoveStaged(P, stage, updateDescendants) ==
    LET gone(S) == Total(P, S)
        above(u) == {r \in stage : u # r /\ u \in CalculateDescendants(P, {r})}
        below(u) == {r \in stage : u # r /\ u \in Ancestors(P, {r})}
        blank(f, v) == [u \in Tx |-> IF u \in stage THEN v ELSE f[u]]
    IN  [tx       |-> P.tx \ stage,
         parents  |-> [u \in Tx |-> IF u \in stage THEN {} ELSE P.parents[u] \ stage],
         children |-> [u \in Tx |-> IF u \in stage THEN {} ELSE P.children[u] \ stage],
         desc     |-> [u \in Tx |-> IF u \in stage THEN Zero ELSE Minus(P.desc[u], gone(below(u)))],
         anc      |-> [u \in Tx |-> IF u \in stage THEN Zero
                                    ELSE IF updateDescendants THEN Minus(P.anc[u], gone(above(u)))
                                    ELSE P.anc[u]],
         feeDelta |-> blank(P.feeDelta, 0),
         lp       |-> blank(P.lp, <<0, Root>>),
         next     |-> [o \in Outpoint |-> IF \E r \in stage : o \in TxIn[r] THEN NoTx ELSE P.next[o]]]

\* removeRecursive: t and its descendants or, when t is not in the pool, the
\* spenders of its outputs and theirs.  t may be a coinbase.
removeRecursive(P, t) ==
    LET spenders == {P.next[o] : o \in {x \in Outpoint : x[1] = t /\ P.next[x] # NoTx}}
    IN  RemoveStaged(P, CalculateDescendants(P, IF t \in P.tx THEN {t} ELSE spenders), FALSE)

\* removeConflicts: the pool transactions, other than t, that spend its inputs.
Conflicts(P, t) == {P.next[o] : o \in {x \in TxIn[t] : P.next[x] \notin {NoTx, t}}}

----------------------------------------------------------------------------
(* Lock points.                                                            *)

\* CheckSequenceLocks without existing lock points: pool inputs count as
\* confirmed in the next block.  tip is chainActive, c the coins' chain.  An
\* input whose sequence number disables the lock does not count, unless the
\* transaction's version does so for all of them.
LockPoints(P, t, tip, c) ==
    LET h(o) == IF o[1] \in P.tx THEN Height(tip) + 1 ELSE CoinHeight(c, o)
        hs   == {h(o) : o \in TxIn[t]}
        inChain == IF SeqLock[t] = NoLock /\ t \notin Version1 THEN {}
                   ELSE hs \ {Height(tip) + 1}
    IN  <<IF SeqLock[t] = NoLock THEN -1 ELSE Max(hs) + SeqLock[t] - 1,
          tip[(IF inChain = {} THEN 0 ELSE Max(inChain)) + 1]>>

EvaluateSequenceLocks(lp, tip) == lp[1] < Height(tip) + 1

TestLockPointValidity(lp, tip) == lp[2] \in ToSet(tip)

----------------------------------------------------------------------------
(* AcceptToMemoryPoolWorker.                                               *)

HaveInputs(P, t, c) ==
    \A o \in TxIn[t] : \/ o[1] \in P.tx /\ o \in Outputs(o[1])
                       \/ o \in Unspent(c)

\* Mutant: the inputs are not looked up in mapNextTx.
PreChecksNoConflictTest(P, t, tip, c) ==
    /\ Final(t, Height(tip) + 1)
    /\ t \notin P.tx
    /\ Outputs(t) \cap Unspent(c) = {}
    /\ HaveInputs(P, t, c)
    /\ EvaluateSequenceLocks(LockPoints(P, t, tip, c), tip)

\* Up to the fee test.
PreChecks(P, t, tip, c) ==
    /\ Final(t, Height(tip) + 1)
    /\ t \notin P.tx
    /\ \A o \in TxIn[t] : P.next[o] = NoTx
    /\ Outputs(t) \cap Unspent(c) = {}
    /\ HaveInputs(P, t, c)
    /\ EvaluateSequenceLocks(LockPoints(P, t, tip, c), tip)

\* CFeeRate(fee, size) and CFeeRate::GetFee.
FeeRate(fee, size) == (1000 * fee) \div size
FeeFor(rate, size) ==
    LET f == (size * rate) \div 1000 IN IF f = 0 /\ rate > 0 THEN 1 ELSE f

\* GetMinFee; elapsed: a half-life has passed since the last update.
Rolled(elapsed) ==
    IF sinceBump /\ minRate # 0 /\ elapsed
    THEN IF 2 * (minRate \div 2) < IncrementalRelayFee THEN 0 ELSE minRate \div 2
    ELSE minRate

GetMinFee(rate) ==
    IF ~sinceBump \/ rate = 0 THEN rate ELSE Max({rate, IncrementalRelayFee})

\* The fee of the entry without any delta: ApplyDeltas takes the fee by value.
ModifiedFees(t) == Fee[t]

MeetsMinFee(t, rate) == ModifiedFees(t) >= FeeFor(GetMinFee(rate), Size[t])

\* After the fee test: chain limits, then CheckInputs (maturity).
LateChecks(P, t, c) ==
    /\ WithinLimits(P, t)
    /\ \A o \in TxIn[t] : o[1] \notin P.tx => Mature(c, o)

Accepts(P, t, tip, c, rate) ==
    PreChecks(P, t, tip, c) /\ MeetsMinFee(t, rate) /\ LateChecks(P, t, c)

----------------------------------------------------------------------------
(* LimitMempoolSize: Expire, then TrimToSize, the latter one step for each *)
(* package it evicts.                                                      *)

Usage(P) == Total(P, P.tx)[2]

Expire(P) == RemoveStaged(P, CalculateDescendants(P, old \cap P.tx), FALSE)

\* The order of the descendant_score index.
UseDescendantScore(P, t) ==
    Size[t] * P.desc[t][3] > P.desc[t][2] * (Fee[t] + P.feeDelta[t])

Score(P, t) ==
    IF UseDescendantScore(P, t) THEN <<P.desc[t][3], P.desc[t][2]>>
    ELSE <<Fee[t] + P.feeDelta[t], Size[t]>>

Worst(P) ==
    {t \in P.tx : \A u \in P.tx : LET a == Score(P, t) b == Score(P, u)
                                  IN  a[1] * b[2] <= a[2] * b[1]}

\* LimitMempoolSize as the end of an operation: Expire now, TrimToSize in
\* the phase "trim" if the pool is too large.
Limited(P, at) ==
    LET e == Expire(P)
    IN  /\ pool' = e
        /\ old' = old \cap e.tx
        /\ phase' = IF Usage(e) > MaxMempool \/ at # "trim"
                    THEN [Idle EXCEPT !.at = at] ELSE Idle

----------------------------------------------------------------------------
(* removeForReorg.                                                         *)

\* The lock points an entry is judged by: the stored ones while they are
\* valid, new ones otherwise.
ReorgLockPoints(t) ==
    IF TestLockPointValidity(pool.lp[t], chain) THEN pool.lp[t]
    ELSE LockPoints(pool, t, chain, coins)

SpendsCoinbase(t) == \E o \in TxIn[t] : o[1] \in Block

\* Mutant: spends of a coinbase are not looked at again.
StaysAfterReorgIfFinal(t) ==
    /\ Final(t, Height(chain) + 1)
    /\ \/ TestLockPointValidity(pool.lp[t], chain)
       \/ HaveInputs(pool, t, coins)
    /\ EvaluateSequenceLocks(ReorgLockPoints(t), chain)

StaysAfterReorg(t) ==
    /\ Final(t, Height(chain) + 1)
    /\ \/ TestLockPointValidity(pool.lp[t], chain)
       \/ HaveInputs(pool, t, coins)
    /\ EvaluateSequenceLocks(ReorgLockPoints(t), chain)
    /\ SpendsCoinbase(t) =>
         \A o \in TxIn[t] : o[1] \in pool.tx \/ (o \in Unspent(coins) /\ Mature(coins, o))

removeForReorg ==
    LET leaving == {t \in pool.tx : ~StaysAfterReorg(t)}
        P == [pool EXCEPT !.lp = [t \in Tx |-> IF t \in pool.tx \ leaving
                                               THEN ReorgLockPoints(t) ELSE pool.lp[t]]]
    IN  RemoveStaged(P, CalculateDescendants(P, leaving), FALSE)

----------------------------------------------------------------------------
Init ==
    /\ chain = <<Root>>
    /\ coins = <<Root>>
    /\ pool = EmptyPool
    /\ mapDeltas = [t \in Tx |-> 0]
    /\ minRate = 0
    /\ sinceBump = FALSE
    /\ old = {}
    /\ reorg = "no"
    /\ phase = Idle

\* A transaction from a peer, the wallet or an RPC.
AcceptToMemoryPool(t, elapsed) ==
    /\ AtRest
    /\ PreChecks(pool, t, chain, coins)
    /\ minRate' = Rolled(elapsed)
    /\ IF MeetsMinFee(t, Rolled(elapsed)) /\ LateChecks(pool, t, coins)
       THEN Limited(addUnchecked(pool, t, LockPoints(pool, t, chain, coins)), "trim")
       ELSE UNCHANGED <<pool, old, phase>>
    /\ UNCHANGED <<chain, coins, mapDeltas, sinceBump, reorg>>

\* One round of TrimToSize; trackPackageRemoved raises the rolling minimum.
TrimToSize ==
    /\ phase.at \in {"trim", "trim invalidate"}
    /\ pool.tx # {}
    /\ Usage(pool) > MaxMempool
    /\ \E t \in Worst(pool) :
         LET removed == FeeRate(pool.desc[t][3], pool.desc[t][2]) + IncrementalRelayFee
             P == RemoveStaged(pool, CalculateDescendants(pool, {t}), FALSE)
         IN  /\ pool' = P
             /\ old' = old \cap P.tx
             /\ minRate' = IF removed > minRate THEN removed ELSE minRate
             /\ sinceBump' = IF removed > minRate THEN FALSE ELSE sinceBump
    /\ UNCHANGED <<chain, coins, mapDeltas, reorg, phase>>

EndTrim ==
    /\ phase.at = "trim"
    /\ Usage(pool) <= MaxMempool
    /\ phase' = Idle
    /\ UNCHANGED <<chain, coins, pool, mapDeltas, minRate, sinceBump, old, reorg>>

\* Bound: a transaction is prioritised again only once its delta is gone.
PrioritiseTransaction(t, d) ==
    /\ AtRest
    /\ mapDeltas[t] = 0
    /\ mapDeltas' = [mapDeltas EXCEPT ![t] = d]
    /\ pool' = IF t \notin pool.tx THEN pool
               ELSE LET as == Ancestors(pool, {t}) \ {t}
                        ds == CalculateDescendants(pool, {t}) \ {t}
                        w  == <<0, 0, d>>
                    IN  [pool EXCEPT
                          !.feeDelta = [@ EXCEPT ![t] = d],
                          !.desc = [u \in Tx |-> IF u = t \/ u \in as THEN Plus(@[u], w) ELSE @[u]],
                          !.anc  = [u \in Tx |-> IF u = t \/ u \in ds THEN Plus(@[u], w) ELSE @[u]]]
    /\ UNCHANGED <<chain, coins, minRate, sinceBump, old, reorg, phase>>

\* Time passes: an entry becomes older than -mempoolexpiry.
Age(t) ==
    /\ AtRest
    /\ t \in pool.tx \ old
    /\ old' = old \cup {t}
    /\ UNCHANGED <<chain, coins, pool, mapDeltas, minRate, sinceBump, reorg, phase>>

----------------------------------------------------------------------------
(* ConnectTip: the coins are flushed, then removeForBlock goes through the *)
(* block, then UpdateTip.                                                  *)

ValidBlock(b, c) ==
    \A i \in DOMAIN Vtx[b] :
        LET t == Vtx[b][i]
            before == {Vtx[b][j] : j \in 1 .. i - 1}
            avail == (Unspent(c) \cup UNION {Outputs(u) : u \in before})
                       \ UNION {TxIn[u] : u \in before}
            h(o) == IF o[1] \in before THEN Len(c) ELSE CoinHeight(c, o)
        IN  /\ TxIn[t] \subseteq avail
            /\ Final(t, Len(c))
            /\ \A o \in TxIn[t] : /\ o[1] \notin before => Mature(c, o)
                                  /\ SeqLock[t] # NoLock => h(o) + SeqLock[t] - 1 < Len(c)

ConnectTip(b) ==
    /\ phase = Idle
    /\ Prev[b] = Last(chain)
    /\ ValidBlock(b, coins)
    /\ coins' = Append(coins, b)
    /\ reorg' = IF reorg = "no" THEN "no" ELSE "up"
    /\ phase' = [at |-> "connect", todo |-> Vtx[b], done |-> << >>]
    /\ UNCHANGED <<chain, pool, mapDeltas, minRate, sinceBump, old>>

\* One transaction of removeForBlock: it leaves the pool, its descendants
\* stay; what conflicts with it leaves with its descendants.
RemoveBlockTx ==
    /\ phase.at = "connect"
    /\ phase.todo # << >>
    /\ LET t == Head(phase.todo)
           P == IF t \in pool.tx THEN RemoveStaged(pool, {t}, TRUE) ELSE pool
           Q == RemoveStaged(P, CalculateDescendants(P, Conflicts(P, t)), FALSE)
       IN  /\ pool' = Q
           /\ old' = old \cap Q.tx
           /\ mapDeltas' = [u \in Tx |-> IF u = t \/ u \in Conflicts(P, t) THEN 0 ELSE mapDeltas[u]]
    /\ phase' = [phase EXCEPT !.todo = Tail(@)]
    /\ UNCHANGED <<chain, coins, minRate, sinceBump, reorg>>

EndConnect ==
    /\ phase.at = "connect"
    /\ phase.todo = << >>
    /\ chain' = coins
    /\ sinceBump' = TRUE
    /\ phase' = Idle
    /\ UNCHANGED <<coins, pool, mapDeltas, minRate, old, reorg>>

----------------------------------------------------------------------------
(* DisconnectTip: the coins are rolled back first; the block's             *)
(* transactions are resurrected while chainActive still ends in the block. *)

DisconnectTip ==
    /\ phase = Idle
    /\ reorg \in {"no", "down"}
    /\ Len(chain) > 1
    /\ coins' = Front(coins)
    /\ reorg' = "down"
    /\ phase' = [at |-> "resurrect", todo |-> <<Last(chain)>> \o Vtx[Last(chain)], done |-> << >>]
    /\ UNCHANGED <<chain, pool, mapDeltas, minRate, sinceBump, old>>

\* A transaction that is not accepted takes its descendants with it.  The
\* pool is not limited here (fOverrideMempoolLimit).
ResurrectTx(elapsed) ==
    /\ phase.at = "resurrect"
    /\ phase.todo # << >>
    /\ LET t == Head(phase.todo)
           judged == t \notin Block /\ PreChecks(pool, t, chain, coins)
           ok == judged /\ Accepts(pool, t, chain, coins, Rolled(elapsed))
           P == IF ok THEN addUnchecked(pool, t, LockPoints(pool, t, chain, coins))
                ELSE removeRecursive(pool, t)
       IN  /\ pool' = P
           /\ old' = old \cap P.tx
           /\ minRate' = IF judged THEN Rolled(elapsed) ELSE minRate
           /\ phase' = [phase EXCEPT !.todo = Tail(@),
                                     !.done = IF ok THEN Append(@, t) ELSE @]
    /\ UNCHANGED <<chain, coins, mapDeltas, sinceBump, reorg>>

StartLinking ==
    /\ phase.at = "resurrect"
    /\ phase.todo = << >>
    /\ phase' = [at |-> "link", todo |-> Reverse(phase.done), done |-> phase.done]
    /\ UNCHANGED <<chain, coins, pool, mapDeltas, minRate, sinceBump, old, reorg>>

\* Mutant: the children a resurrected transaction has in the pool are not
\* linked to it.
UpdateFromBlockNothing(P, t, included) == P

\* Mutant: they are linked, but t's descendant totals stay as they were.
UpdateFromBlockLinksOnly(P, t, included) ==
    LET kids == {P.next[o] : o \in {x \in Outpoint : x[1] = t /\ P.next[x] # NoTx}} \ included
        L == [P EXCEPT !.children = [P.children EXCEPT ![t] = @ \cup kids],
                       !.parents = [u \in Tx |-> IF u \in kids THEN @[u] \cup {t} ELSE @[u]]]
        ds == CalculateDescendants(L, L.children[t]) \ included
    IN  [L EXCEPT !.anc = [u \in Tx |-> IF u \in ds THEN Plus(@[u], Weight(L, t)) ELSE @[u]]]

\* UpdateTransactionsFromBlock for one transaction t: its children from
\* mapNextTx are linked, then UpdateForDescendants adds its descendants
\* outside the block to its totals and t to theirs.  (The code's cache of
\* descendants only shortens the walk.)
UpdateFromBlock(P, t, included) ==
    LET kids == {P.next[o] : o \in {x \in Outpoint : x[1] = t /\ P.next[x] # NoTx}} \ included
        L == [P EXCEPT !.children = [P.children EXCEPT ![t] = @ \cup kids],
                       !.parents = [u \in Tx |-> IF u \in kids THEN @[u] \cup {t} ELSE @[u]]]
        ds == CalculateDescendants(L, L.children[t]) \ included
    IN  [L EXCEPT !.desc = [L.desc EXCEPT ![t] = Plus(@, Total(L, ds))],
                  !.anc = [u \in Tx |-> IF u \in ds THEN Plus(@[u], Weight(L, t)) ELSE @[u]]]

LinkTx ==
    /\ phase.at = "link"
    /\ phase.todo # << >>
    /\ LET t == Head(phase.todo)
       IN  pool' = IF t \in pool.tx THEN UpdateFromBlock(pool, t, ToSet(phase.done)) ELSE pool
    /\ phase' = [phase EXCEPT !.todo = Tail(@)]
    /\ UNCHANGED <<chain, coins, mapDeltas, minRate, sinceBump, old, reorg>>

EndDisconnect ==
    /\ phase.at = "link"
    /\ phase.todo = << >>
    /\ chain' = coins
    /\ phase' = Idle
    /\ UNCHANGED <<coins, pool, mapDeltas, minRate, sinceBump, old, reorg>>

\* The end of an ActivateBestChainStep that disconnected blocks.
EndStep ==
    /\ phase = Idle
    /\ reorg # "no"
    /\ Limited(removeForReorg, "trim")
    /\ reorg' = "no"
    /\ UNCHANGED <<chain, coins, mapDeltas, minRate, sinceBump>>

\* The end of InvalidateBlock: the pool is limited before removeForReorg.
EndInvalidate ==
    /\ phase = Idle
    /\ reorg = "down"
    /\ Limited(pool, "trim invalidate")
    /\ UNCHANGED <<chain, coins, mapDeltas, minRate, sinceBump, reorg>>

EndInvalidateTrim ==
    /\ phase.at = "trim invalidate"
    /\ Usage(pool) <= MaxMempool
    /\ pool' = removeForReorg
    /\ old' = old \cap pool'.tx
    /\ reorg' = "no"
    /\ phase' = Idle
    /\ UNCHANGED <<chain, coins, mapDeltas, minRate, sinceBump>>

----------------------------------------------------------------------------
Next ==
    \/ \E t \in Tx, elapsed \in BOOLEAN : AcceptToMemoryPool(t, elapsed)
    \/ TrimToSize
    \/ EndTrim
    \/ \E t \in Tx, d \in Deltas : PrioritiseTransaction(t, d)
    \/ \E t \in MayExpire : Age(t)
    \/ \E b \in Block : ConnectTip(b)
    \/ RemoveBlockTx
    \/ EndConnect
    \/ DisconnectTip
    \/ \E elapsed \in BOOLEAN : ResurrectTx(elapsed)
    \/ StartLinking
    \/ LinkTx
    \/ EndDisconnect
    \/ EndStep
    \/ EndInvalidate
    \/ EndInvalidateTrim

Spec == Init /\ [][Next]_vars

----------------------------------------------------------------------------
(* Properties.                                                             *)

\* The true relation between pool transactions.
Kids(t) == {u \in pool.tx : t \in InPoolParents(pool, u)}
TrueAncestors(t)   == Closure({t}, [u \in Tx |-> InPoolParents(pool, u)])
TrueDescendants(t) == Closure({t}, [u \in Tx |-> Kids(u)])

\* CTxMemPool::check, whenever no loop is under way: mapLinks is the spending
\* relation, mapNextTx maps exactly the inputs of the pool's transactions, and
\* an entry's ancestor totals are those of its true ancestors.
PoolConsistent ==
    phase = Idle =>
      /\ \A t \in pool.tx :
           /\ pool.parents[t] = InPoolParents(pool, t)
           /\ pool.children[t] = Kids(t)
           /\ pool.anc[t] = Total(pool, TrueAncestors(t))
           /\ pool.feeDelta[t] = mapDeltas[t]
           /\ \A o \in TxIn[t] : pool.next[o] = t
      /\ \A o \in Outpoint : pool.next[o] # NoTx => pool.next[o] \in pool.tx /\ o \in TxIn[pool.next[o]]

\* What check() only bounds from below: the descendant totals, by which the
\* pool evicts, are those of the true descendants.
DescendantStateRight ==
    phase = Idle => \A t \in pool.tx : pool.desc[t] = Total(pool, TrueDescendants(t))

\* No output is spent twice by transactions of the pool, not even while a
\* reorganisation is under way.
NoConflict == \A t, u \in pool.tx : t # u => TxIn[t] \cap TxIn[u] = {}

\* At rest every pool transaction could be mined next, together with its
\* ancestors: its inputs are mature unspent coins or outputs of the pool, and
\* its locktime and relative lock are satisfied.
PoolIsMinable ==
    AtRest =>
      \A t \in pool.tx :
        /\ Final(t, Len(chain))
        /\ \A o \in TxIn[t] :
             \/ o[1] \in pool.tx /\ o \in Outputs(o[1])
             \/ o \in Unspent(chain) /\ Mature(chain, o)
        /\ SeqLock[t] # NoLock =>
             \A o \in TxIn[t] :
               (IF o[1] \in pool.tx THEN Len(chain) ELSE CoinHeight(chain, o)) + SeqLock[t] - 1 < Len(chain)

\* The fee AcceptToMemoryPool compares with the pool's minimum includes the
\* delta given to PrioritiseTransaction, as its comment and the functional
\* test of that call say.
PrioritisedFeeCounts ==
    \A t \in Tx : Fee[t] + mapDeltas[t] >= FeeFor(GetMinFee(minRate), Size[t])
                    => MeetsMinFee(t, minRate)
================================================================================
