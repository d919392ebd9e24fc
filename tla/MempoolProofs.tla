---------------------------- MODULE MempoolProofs ----------------------------
(***************************************************************************)
(* No two transactions of the pool spend the same output, in any state: at *)
(* rest, and at every step of the loops of a reorganisation.  The reason   *)
(* is mapNextTx, which names the spender of every input of the pool and is *)
(* what AcceptToMemoryPool consults; the proof shows that it never misses  *)
(* one.  The case that needs an argument is removal: RemoveStaged clears   *)
(* the inputs of the whole stage, which is right only if the stage, built  *)
(* by following mapLinks, holds nothing but transactions of the pool.      *)
(***************************************************************************)
EXTENDS Mempool, SequenceTheorems, TLAPS

Fields == {"tx", "parents", "children", "desc", "anc", "feeDelta", "lp", "next"}

\* What the pool relies on: children are entries, mapNextTx names
\* the spender of every input of an entry, and names nothing else.
Indexed(P) ==
    /\ DOMAIN P = Fields
    /\ P.tx \subseteq Tx
    /\ P.children \in [Tx -> SUBSET P.tx]
    /\ \A t \in P.tx : \A o \in TxIn[t] : P.next[o] = t
    /\ \A o \in Outpoint : P.next[o] # NoTx => P.next[o] \in P.tx /\ o \in TxIn[P.next[o]]

ChainOk(c) == c \in Seq(Block \cup {Root}) /\ \A i \in 2 .. Len(c) : c[i] \in Block

\* What a loop goes through: transactions when a block is connected, the
\* coinbase as well when one is disconnected.
PhaseOk ==
    /\ DOMAIN phase = {"at", "todo", "done"}
    /\ phase.at = "connect" => phase.todo \in Seq(Tx)
    /\ phase.at = "resurrect" => phase.todo \in Seq(Tx \cup Block)

IInv == Indexed(pool) /\ ChainOk(chain) /\ ChainOk(coins) /\ PhaseOk

\* The inputs of a transaction are outpoints.
LEMMA Inputs == \A t \in Tx : TxIn[t] \subseteq Outpoint
BY DEF Outpoint

\* Following mapLinks from entries of the pool reaches only entries.
LEMMA StageInPool ==
  ASSUME NEW P, Indexed(P), NEW S, S \subseteq P.tx
  PROVE  CalculateDescendants(P, S) \subseteq P.tx
<1> DEFINE linked == S \cup UNION {P.children[t] : t \in Tx}
           C == P.tx \cap linked
<1>1. C \in SUBSET linked /\ S \subseteq C
  OBVIOUS
<1>2. Closed(C, P.children)
  BY DEF Closed, Indexed
<1>3. CalculateDescendants(P, S) \subseteq C
  BY <1>1, <1>2 DEF CalculateDescendants, Closure
<1> QED BY <1>3

\* Removing entries of the pool keeps mapNextTx right.
LEMMA Removal ==
  ASSUME NEW P, Indexed(P), NEW stage, stage \subseteq P.tx, NEW upd
  PROVE  /\ Indexed(RemoveStaged(P, stage, upd))
         /\ RemoveStaged(P, stage, upd).tx \subseteq P.tx
<1> DEFINE R == RemoveStaged(P, stage, upd)
<1>1. /\ DOMAIN R = Fields
      /\ R.tx = P.tx \ stage
      /\ R.children = [u \in Tx |-> IF u \in stage THEN {} ELSE P.children[u] \ stage]
      /\ R.next = [o \in Outpoint |-> IF \E r \in stage : o \in TxIn[r] THEN NoTx ELSE P.next[o]]
  BY DEF RemoveStaged, Fields
<1>2. R.children \in [Tx -> SUBSET R.tx]
  BY <1>1 DEF Indexed
<1>3. \A t \in R.tx : \A o \in TxIn[t] : R.next[o] = t
  BY <1>1, Inputs DEF Indexed
<1>4. \A o \in Outpoint : R.next[o] # NoTx => R.next[o] \in R.tx /\ o \in TxIn[R.next[o]]
  BY <1>1 DEF Indexed
<1>5. R.tx \subseteq Tx
  BY <1>1 DEF Indexed
<1> HIDE DEF R
<1>6. Indexed(R)
  BY <1>1, <1>2, <1>3, <1>4, <1>5 DEF Indexed
<1> QED BY <1>1, <1>6 DEF R

\* Adding a transaction none of whose inputs is in mapNextTx keeps it right.
LEMMA Addition ==
  ASSUME NEW P, Indexed(P), NEW t \in Tx, NEW lp, \A o \in TxIn[t] : P.next[o] = NoTx
  PROVE  Indexed(addUnchecked(P, t, lp))
<1> DEFINE R == addUnchecked(P, t, lp)
<1>0. NoTx \notin Tx
  BY MempoolAssumption DEF NoTx
<1>1. /\ DOMAIN R = Fields
      /\ R.tx = P.tx \cup {t}
      /\ R.children = [u \in Tx |-> IF u \in InPoolParents(P, t) THEN P.children[u] \cup {t} ELSE P.children[u]]
      /\ R.next = [o \in Outpoint |-> IF o \in TxIn[t] /\ P.next[o] = NoTx THEN t ELSE P.next[o]]
  BY DEF addUnchecked, Fields
<1>2. R.children \in [Tx -> SUBSET R.tx]
  BY <1>1 DEF Indexed
<1>3. \A u \in R.tx : \A o \in TxIn[u] : R.next[o] = u
  BY <1>0, <1>1, Inputs DEF Indexed
<1>4. \A o \in Outpoint : R.next[o] # NoTx => R.next[o] \in R.tx /\ o \in TxIn[R.next[o]]
  BY <1>1 DEF Indexed
<1>5. R.tx \subseteq Tx
  BY <1>1 DEF Indexed
<1> HIDE DEF R
<1>6. Indexed(R)
  BY <1>1, <1>2, <1>3, <1>4, <1>5 DEF Indexed
<1> QED BY <1>6 DEF R

\* A pool whose other fields change keeps the index.
LEMMA SameIndex ==
  ASSUME NEW P, Indexed(P), NEW Q, DOMAIN Q = Fields,
         Q.tx = P.tx, Q.children = P.children, Q.next = P.next
  PROVE  Indexed(Q)
BY DEF Indexed

\* Linking a resurrected transaction to its children touches links and totals only.
LEMMA Linking ==
  ASSUME NEW P, Indexed(P), NEW t \in P.tx, NEW included
  PROVE  Indexed(UpdateFromBlock(P, t, included))
<1> DEFINE kids == {P.next[o] : o \in {x \in Outpoint : x[1] = t /\ P.next[x] # NoTx}} \ included
           ch == [P.children EXCEPT ![t] = @ \cup kids]
           pa == [u \in Tx |-> IF u \in kids THEN P.parents[u] \cup {t} ELSE P.parents[u]]
           L == [P EXCEPT !.children = ch, !.parents = pa]
           ds == CalculateDescendants(L, L.children[t]) \ included
           R == [L EXCEPT !.desc = [L.desc EXCEPT ![t] = Plus(@, Total(L, ds))],
                          !.anc = [u \in Tx |-> IF u \in ds THEN Plus(@[u], Weight(L, t)) ELSE @[u]]]
<1>0. R = UpdateFromBlock(P, t, included)
  BY DEF UpdateFromBlock
<1>1. kids \subseteq P.tx
  BY DEF Indexed
<1>2. ch \in [Tx -> SUBSET P.tx]
  BY <1>1 DEF Indexed
<1> HIDE DEF kids, ch, pa
<1>3. DOMAIN L = Fields /\ L.tx = P.tx /\ L.next = P.next /\ L.children = ch
  BY DEF Indexed, Fields
<1> HIDE DEF L, ds
<1>4. DOMAIN R = Fields /\ R.tx = P.tx /\ R.next = P.next /\ R.children = ch
  BY <1>3 DEF Fields
<1> HIDE DEF R
<1>5. Indexed(R)
  BY <1>2, <1>4 DEF Indexed
<1> QED BY <1>0, <1>5

\* LimitMempoolSize's Expire, which ends most operations.
LEMMA Limiting ==
  ASSUME NEW P, Indexed(P), NEW at, Limited(P, at)
  PROVE  /\ Indexed(pool')
         /\ phase' = [Idle EXCEPT !.at = at] \/ phase' = Idle
<1>1. CalculateDescendants(P, old \cap P.tx) \subseteq P.tx
  BY StageInPool
<1>2. Indexed(Expire(P))
  BY <1>1, Removal DEF Expire
<1> QED BY <1>2 DEF Limited

\* removeRecursive keeps the index, whichever transaction it starts from.
LEMMA Recursive ==
  ASSUME NEW P, Indexed(P), NEW t
  PROVE  Indexed(removeRecursive(P, t))
<1> DEFINE spenders == {P.next[o] : o \in {x \in Outpoint : x[1] = t /\ P.next[x] # NoTx}}
           S == IF t \in P.tx THEN {t} ELSE spenders
<1>1. S \subseteq P.tx
  BY DEF Indexed
<1> HIDE DEF S
<1>2. CalculateDescendants(P, S) \subseteq P.tx
  BY <1>1, StageInPool
<1>3. Indexed(RemoveStaged(P, CalculateDescendants(P, S), FALSE))
  BY <1>2, Removal
<1> QED BY <1>3 DEF removeRecursive, S

\* removeForReorg keeps the index.
LEMMA Reorg ==
  ASSUME Indexed(pool)
  PROVE  Indexed(removeForReorg)
<1> DEFINE leaving == {t \in pool.tx : ~StaysAfterReorg(t)}
           P == [pool EXCEPT !.lp = [t \in Tx |-> IF t \in pool.tx \ leaving
                                                  THEN ReorgLockPoints(t) ELSE pool.lp[t]]]
<1>1. DOMAIN P = Fields /\ P.tx = pool.tx /\ P.children = pool.children /\ P.next = pool.next
  BY DEF Indexed, Fields
<1>2. leaving \subseteq P.tx
  BY <1>1
<1> HIDE DEF P
<1>3. Indexed(P)
  BY <1>1, SameIndex
<1> HIDE DEF leaving
<1>4. CalculateDescendants(P, leaving) \subseteq P.tx
  BY <1>2, <1>3, StageInPool
<1>5. Indexed(RemoveStaged(P, CalculateDescendants(P, leaving), FALSE))
  BY <1>3, <1>4, Removal
<1> QED BY <1>5 DEF removeForReorg, P, leaving
\* A block of the chain above its first one is in Block, and stays so when
\* the chain grows or loses its last block.
LEMMA ChainGrows ==
  ASSUME NEW c, ChainOk(c), NEW b \in Block
  PROVE  ChainOk(Append(c, b))
<1>1. c \in Seq(Block \cup {Root}) /\ Append(c, b) \in Seq(Block \cup {Root})
  BY DEF ChainOk
<1>2. Len(Append(c, b)) = Len(c) + 1
      /\ \A i \in 1 .. Len(c) + 1 : Append(c, b)[i] = IF i <= Len(c) THEN c[i] ELSE b
  BY <1>1
<1>3. \A i \in 2 .. Len(Append(c, b)) : Append(c, b)[i] \in Block
  <2> TAKE i \in 2 .. Len(Append(c, b))
  <2>1. Len(c) \in Nat /\ i \in 1 .. Len(c) + 1
    BY <1>1, <1>2
  <2>2. CASE i <= Len(c)
    BY <2>1, <2>2, <1>2 DEF ChainOk
  <2>3. CASE ~(i <= Len(c))
    BY <2>1, <2>3, <1>2
  <2> QED BY <2>2, <2>3
<1> QED BY <1>1, <1>3 DEF ChainOk

\* Disconnecting the tip leaves a chain.
LEMMA ChainShrinks ==
  ASSUME NEW c, ChainOk(c)
  PROVE  ChainOk(Front(c))
<1>1. c \in Seq(Block \cup {Root}) /\ Len(c) \in Nat
  BY DEF ChainOk
<1>2. CASE Len(c) = 0
  <2>1. Front(c) = << >>
    BY <1>1, <1>2 DEF Front
  <2> QED BY <2>1 DEF ChainOk
<1>3. CASE Len(c) > 0
  <2>1. /\ Front(c) \in Seq(Block \cup {Root})
        /\ Len(Front(c)) = Len(c) - 1
        /\ \A i \in 1 .. Len(c) - 1 : Front(c)[i] = c[i]
    <3>1. \A i \in 1 .. Len(c) - 1 : c[i] \in Block \cup {Root}
      BY <1>1, ElementOfSeq
    <3>2. 1 \in Int /\ Len(c) - 1 \in Int
      BY <1>1
    <3>3. /\ Front(c) \in Seq(Block \cup {Root})
          /\ Len(Front(c)) = IF 1 <= Len(c) - 1 THEN (Len(c) - 1) - 1 + 1 ELSE 0
          /\ \A i \in 1 .. (Len(c) - 1) - 1 + 1 : Front(c)[i] = c[1 + i - 1]
      BY <3>1, <3>2, SubSeqProperties DEF Front
    <3>4. Len(Front(c)) = Len(c) - 1
      <4>1. \A n, m \in Nat : n > 0 /\ m = (IF 1 <= n - 1 THEN (n - 1) - 1 + 1 ELSE 0) => m = n - 1
        OBVIOUS
      <4>2. Len(Front(c)) \in Nat
        BY <3>3, LenProperties
      <4> QED BY <1>1, <1>3, <3>3, <4>1, <4>2, Zenon
    <3>5. ASSUME NEW i \in 1 .. Len(c) - 1 PROVE Front(c)[i] = c[i]
      <4>1. i \in 1 .. (Len(c) - 1) - 1 + 1 /\ 1 + i - 1 = i
        BY <1>1
      <4> QED BY <3>3, <4>1
    <3> QED BY <3>3, <3>4, <3>5
  <2> QED BY <1>1, <1>3, <2>1 DEF ChainOk
<1> QED BY <1>1, <1>2, <1>3

\* The empty pool is indexed.
LEMMA IInvInit == Init => IInv
<1> SUFFICES ASSUME Init PROVE IInv
  OBVIOUS
<1>1. Indexed(pool)
  BY DEF Init, EmptyPool, Indexed, Fields
<1>2. ChainOk(<<Root>>)
  BY DEF ChainOk
<1>3. PhaseOk
  BY DEF Init, PhaseOk, Idle
<1> QED BY <1>1, <1>2, <1>3 DEF Init, IInv

\* Every step of every operation keeps the invariant, one step per action.
LEMMA IInvNext == IInv /\ [Next]_vars => IInv'
<1> SUFFICES ASSUME IInv, [Next]_vars PROVE IInv'
  OBVIOUS
<1> USE DEF IInv
<1>1. ASSUME NEW t \in Tx, NEW elapsed \in BOOLEAN, AcceptToMemoryPool(t, elapsed) PROVE IInv'
  <2>1. ChainOk(chain)' /\ ChainOk(coins)'
    BY <1>1 DEF AcceptToMemoryPool, ChainOk
  <2>2. CASE MeetsMinFee(t, Rolled(elapsed)) /\ LateChecks(pool, t, coins)
    <3> DEFINE P == addUnchecked(pool, t, LockPoints(pool, t, chain, coins))
    <3>1. Indexed(P)
      BY <1>1, Addition DEF AcceptToMemoryPool, PreChecks
    <3>2. Limited(P, "trim")
      BY <1>1, <2>2 DEF AcceptToMemoryPool
    <3> HIDE DEF P
    <3>3. Indexed(pool)' /\ (phase' = [Idle EXCEPT !.at = "trim"] \/ phase' = Idle)
      BY <3>1, <3>2, Limiting
    <3>4. PhaseOk'
      BY <3>3 DEF PhaseOk, Idle
    <3> QED BY <2>1, <3>3, <3>4
  <2>3. CASE ~(MeetsMinFee(t, Rolled(elapsed)) /\ LateChecks(pool, t, coins))
    BY <1>1, <2>1, <2>3 DEF AcceptToMemoryPool, PhaseOk
  <2> QED BY <2>2, <2>3
<1>2. CASE TrimToSize
  <2>1. PICK t \in Worst(pool) : pool' = RemoveStaged(pool, CalculateDescendants(pool, {t}), FALSE)
    BY <1>2 DEF TrimToSize
  <2>2. {t} \subseteq pool.tx
    BY DEF Worst
  <2>3. CalculateDescendants(pool, {t}) \subseteq pool.tx
    BY <2>2, StageInPool
  <2>4. Indexed(pool)'
    BY <2>1, <2>3, Removal
  <2> QED BY <1>2, <2>4 DEF TrimToSize, ChainOk, PhaseOk
<1>3. CASE EndTrim
  BY <1>3 DEF EndTrim, ChainOk, PhaseOk, Idle
<1>4. ASSUME NEW t \in Tx, NEW d \in Deltas, PrioritiseTransaction(t, d) PROVE IInv'
  <2>1. DOMAIN pool' = Fields /\ pool'.tx = pool.tx /\ pool'.children = pool.children
        /\ pool'.next = pool.next
    BY <1>4 DEF PrioritiseTransaction, Indexed, Fields
  <2>2. Indexed(pool)'
    BY <2>1, SameIndex
  <2> QED BY <1>4, <2>2 DEF PrioritiseTransaction, ChainOk, PhaseOk
<1>5. ASSUME NEW t \in MayExpire, Age(t) PROVE IInv'
  BY <1>5 DEF Age, ChainOk, PhaseOk
<1>6. ASSUME NEW b \in Block, ConnectTip(b) PROVE IInv'
  <2>1. ChainOk(coins)'
    BY <1>6, ChainGrows DEF ConnectTip
  <2>2. Vtx[b] \in Seq(Tx)
    BY MempoolAssumption
  <2>3. PhaseOk'
    BY <1>6, <2>2 DEF ConnectTip, PhaseOk
  <2> QED BY <1>6, <2>1, <2>3 DEF ConnectTip, ChainOk
<1>7. CASE RemoveBlockTx
  <2> DEFINE t == Head(phase.todo)
             P == IF t \in pool.tx THEN RemoveStaged(pool, {t}, TRUE) ELSE pool
             S == CalculateDescendants(P, Conflicts(P, t))
  <2>1. Indexed(P)
    BY Removal
  <2>2. pool' = RemoveStaged(P, S, FALSE)
    BY <1>7 DEF RemoveBlockTx
  <2> HIDE DEF P
  <2>3. Conflicts(P, t) \subseteq P.tx
    <3> SUFFICES ASSUME NEW o \in TxIn[t], P.next[o] \notin {NoTx, t} PROVE P.next[o] \in P.tx
      BY DEF Conflicts
    <3>1. t \in Tx
      BY <1>7, HeadTailProperties DEF RemoveBlockTx, PhaseOk
    <3> QED BY <2>1, <3>1, Inputs DEF Indexed
  <2>4. Indexed(pool)'
    BY <2>1, <2>2, <2>3, StageInPool, Removal
  <2>5. PhaseOk'
    <3>1. Tail(phase.todo) \in Seq(Tx)
      BY <1>7, HeadTailProperties DEF RemoveBlockTx, PhaseOk
    <3> QED BY <1>7, <3>1 DEF RemoveBlockTx, PhaseOk
  <2> QED BY <1>7, <2>4, <2>5 DEF RemoveBlockTx, ChainOk
<1>8. CASE EndConnect
  BY <1>8 DEF EndConnect, ChainOk, PhaseOk, Idle
<1>9. CASE DisconnectTip
  <2>1. ChainOk(coins)'
    BY <1>9, ChainShrinks DEF DisconnectTip
  <2>2. Last(chain) \in Block
    BY <1>9 DEF DisconnectTip, ChainOk, Last
  <2>3. Vtx[Last(chain)] \in Seq(Tx \cup Block) /\ <<Last(chain)>> \in Seq(Tx \cup Block)
    <3>1. Vtx[Last(chain)] \in Seq(Tx)
      BY <2>2, MempoolAssumption
    <3>2. Vtx[Last(chain)] \in Seq(Tx \cup Block)
      BY <3>1, SeqMonotonic
    <3> QED BY <2>2, <3>2
  <2>4. <<Last(chain)>> \o Vtx[Last(chain)] \in Seq(Tx \cup Block)
    BY <2>3
  <2>5. PhaseOk'
    BY <1>9, <2>4 DEF DisconnectTip, PhaseOk
  <2> QED BY <1>9, <2>1, <2>5 DEF DisconnectTip, ChainOk
<1>10. ASSUME NEW elapsed \in BOOLEAN, ResurrectTx(elapsed) PROVE IInv'
  <2> DEFINE t == Head(phase.todo)
             ok == t \notin Block /\ PreChecks(pool, t, chain, coins)
                   /\ Accepts(pool, t, chain, coins, Rolled(elapsed))
  <2>1. t \in Tx \cup Block /\ Tail(phase.todo) \in Seq(Tx \cup Block)
    BY <1>10, HeadTailProperties DEF ResurrectTx, PhaseOk
  <2>2. ASSUME ok PROVE Indexed(pool)'
    <3>1. t \in Tx /\ \A o \in TxIn[t] : pool.next[o] = NoTx
      BY <2>1, <2>2 DEF PreChecks
    <3>2. pool' = addUnchecked(pool, t, LockPoints(pool, t, chain, coins))
      BY <1>10, <2>2 DEF ResurrectTx
    <3> QED BY <3>1, <3>2, Addition
  <2>3. ASSUME ~ok PROVE Indexed(pool)'
    <3>1. pool' = removeRecursive(pool, t)
      BY <1>10, <2>3 DEF ResurrectTx
    <3> QED BY <3>1, Recursive
  <2>4. PhaseOk'
    BY <1>10, <2>1 DEF ResurrectTx, PhaseOk
  <2> QED BY <1>10, <2>2, <2>3, <2>4 DEF ResurrectTx, ChainOk
<1>11. CASE StartLinking
  BY <1>11 DEF StartLinking, PhaseOk, ChainOk
<1>12. CASE LinkTx
  <2>1. Indexed(pool)'
    BY <1>12, Linking DEF LinkTx
  <2>2. PhaseOk'
    BY <1>12 DEF LinkTx, PhaseOk
  <2> QED BY <1>12, <2>1, <2>2 DEF LinkTx, ChainOk
<1>13. CASE EndDisconnect
  BY <1>13 DEF EndDisconnect, ChainOk, PhaseOk, Idle
<1>14. CASE EndStep
  <2>1. Indexed(pool)' /\ (phase' = [Idle EXCEPT !.at = "trim"] \/ phase' = Idle)
    BY <1>14, Reorg, Limiting DEF EndStep
  <2> QED BY <1>14, <2>1 DEF EndStep, ChainOk, PhaseOk, Idle
<1>15. CASE EndInvalidate
  <2>1. Indexed(pool)' /\ (phase' = [Idle EXCEPT !.at = "trim invalidate"] \/ phase' = Idle)
    BY <1>15, Limiting DEF EndInvalidate
  <2> QED BY <1>15, <2>1 DEF EndInvalidate, ChainOk, PhaseOk, Idle
<1>16. CASE EndInvalidateTrim
  <2>1. Indexed(pool)'
    BY <1>16, Reorg DEF EndInvalidateTrim
  <2> QED BY <1>16, <2>1 DEF EndInvalidateTrim, ChainOk, PhaseOk, Idle
<1>17. CASE UNCHANGED vars
  BY <1>17 DEF vars, ChainOk, PhaseOk
<1> QED
  BY <1>1, <1>2, <1>3, <1>4, <1>5, <1>6, <1>7, <1>8, <1>9, <1>10, <1>11, <1>12, <1>13,
     <1>14, <1>15, <1>16, <1>17 DEF Next

\* IInv is an inductive invariant of the pool.
THEOREM Inductive == Spec => []IInv
BY IInvInit, IInvNext, PTL DEF Spec

\* The pool never holds two transactions that spend the same output, at any
\* step of accepting, evicting, connecting, disconnecting or resurrecting.
THEOREM NeverConflicting == Spec => []NoConflict
<1>1. IInv => NoConflict
  BY DEF IInv, Indexed, NoConflict
<1> QED BY <1>1, Inductive, PTL

\* mapNextTx at every step, loops included: it names the spender of each
\* input of the pool, and what it names is an entry that spends the outpoint.
NextTxRight ==
    /\ \A t \in pool.tx : \A o \in TxIn[t] : pool.next[o] = t
    /\ \A o \in Outpoint : pool.next[o] # NoTx => pool.next[o] \in pool.tx /\ o \in TxIn[pool.next[o]]

\* mapNextTx is exactly the index of the pool's inputs in every reachable state,
\* also between the steps of removeForBlock and of the resurrection of a block.
THEOREM NextTxCorrect == Spec => []NextTxRight
<1>1. IInv => NextTxRight
  BY DEF IInv, Indexed, NextTxRight
<1> QED BY <1>1, Inductive, PTL
=============================================================================
