--------------------------- MODULE ChainChoiceProofs ---------------------------
(***************************************************************************)
(* The choice of the active chain, for every tree of blocks: which blocks  *)
(* can be marked as failed, why PruneBlockIndexCandidates always leaves a  *)
(* candidate, and what CheckBlockIndex may assert.                         *)
(***************************************************************************)
EXTENDS ChainStateProofs

----------------------------------------------------------------------------
(* Trees and orders.                                                       *)

\* A proper ancestor is lower and has less work.
LEMMA AncestorOrder ==
    ASSUME NEW b \in Blocks, NEW a \in Ancestors[b], a # b
    PROVE  a \in Blocks /\ Height[a] < Height[b] /\ ChainWork[a] < ChainWork[b]
<1> DEFINE Right(x) == \A y \in Ancestors[x] \ {x} : Height[y] < Height[x] /\ ChainWork[y] < ChainWork[x]
           Wrong == {x \in Blocks : ~Right(x)}
<1>1. SUFFICES Wrong = {}
  BY SelfAncestor
<1>2. SUFFICES ASSUME Wrong # {} PROVE FALSE
  OBVIOUS
<1>5. PICK x \in Wrong : \A y \in Wrong : Height[x] <= Height[y]
  <2>1. Wrong \in SUBSET Blocks
    OBVIOUS
  <2> HIDE DEF Wrong
  <2> QED BY <1>2, <2>1, FiniteAssumption
<1>6. x \in Blocks \ {Genesis}
  BY TreeAssumption
<1> DEFINE p == Parent[x]
<1>7. p \in Blocks /\ Ancestors[x] = Ancestors[p] \cup {x}
  BY <1>6, TreeAssumption, Zenon
<1>8. Height[p] < Height[x] /\ ChainWork[p] < ChainWork[x] /\ Height[p] \in Nat /\ Height[x] \in Nat
      /\ ChainWork[p] \in Nat /\ ChainWork[x] \in Nat
  BY <1>6, <1>7, OrderAssumption
<1>9. p \notin Wrong
  BY <1>5, <1>8
<1>10. Right(p)
  BY <1>7, <1>9
<1>11. ASSUME NEW y \in Ancestors[x] \ {x} PROVE Height[y] < Height[x] /\ ChainWork[y] < ChainWork[x]
  <2>1. y \in Ancestors[p] /\ y \in Blocks
    BY <1>7, SelfAncestor
  <2>2. Height[y] \in Nat /\ ChainWork[y] \in Nat
    BY <2>1, OrderAssumption
  <2>3. y = p \/ (Height[y] < Height[p] /\ ChainWork[y] < ChainWork[p])
    BY <1>10, <2>1
  <2> QED BY <1>8, <2>2, <2>3
<1> QED BY <1>11

\* Ancestors of ancestors.
LEMMA AncestorChain ==
    ASSUME NEW b \in Blocks, NEW a \in Ancestors[b]
    PROVE  a \in Blocks /\ Ancestors[a] \subseteq Ancestors[b]
BY TreeAssumption, SelfAncestor

\* CBlockIndexWorkComparator is a strict weak order.
LEMMA WorkOrder ==
    ASSUME NEW seq \in [Blocks -> Int], NEW a \in Blocks, NEW b \in Blocks, NEW c \in Blocks
    PROVE  /\ ~WorkLess(seq, a, a)
           /\ WorkLess(seq, a, b) => ~WorkLess(seq, b, a)
           /\ WorkLess(seq, a, b) /\ ~WorkLess(seq, c, b) => WorkLess(seq, a, c)
           /\ ~WorkLess(seq, b, a) /\ WorkLess(seq, b, c) => WorkLess(seq, a, c)
           /\ ~WorkLess(seq, b, a) /\ ~WorkLess(seq, c, b) => ~WorkLess(seq, c, a)
<1>1. /\ ChainWork[a] \in Int /\ ChainWork[b] \in Int /\ ChainWork[c] \in Int
      /\ Address[a] \in Int /\ Address[b] \in Int /\ Address[c] \in Int
      /\ seq[a] \in Int /\ seq[b] \in Int /\ seq[c] \in Int
  BY OrderAssumption
<1> QED BY <1>1 DEF WorkLess

\* The comparison of two blocks whose sequence ids stay as they are.
LEMMA SameOrder ==
    ASSUME NEW s1, NEW s2, NEW a, NEW b, s1[a] = s2[a], s1[b] = s2[b]
    PROVE  WorkLess(s1, a, b) <=> WorkLess(s2, a, b)
BY DEF WorkLess

----------------------------------------------------------------------------
(* What FindMostWorkChain does.                                            *)

\* It gives up, finds the best candidate usable, or drops blocks built on one that
\* rules the best candidate out.
LEMMA FindEffect ==
    ASSUME TypeInv, NEW t \in Threads, FindMostWorkChain(t)
    PROVE  \/ /\ candidates = {} /\ threads' = [threads EXCEPT ![t] = Idle]
              /\ UNCHANGED <<nStatus, candidates, unlinked>>
           \/ /\ UNCHANGED <<nStatus, candidates, unlinked>>
              /\ \E c \in candidates : /\ \A x \in candidates \ {c} : WorkLess(nSequenceId, x, c)
                                       /\ threads' = Go(t, "begin", c)
           \/ /\ threads' = threads
              /\ \E c \in candidates, test \in Blocks, above \in SUBSET Blocks :
                    /\ test \in Ancestors[c] \ Active
                    /\ Failed(nStatus, test) \/ "DATA" \notin nStatus[test]
                    /\ above \subseteq Ancestors[c] /\ \A x \in above : test \in Ancestors[x]
                    /\ candidates' = candidates \ (above \cup {test})
                    /\ IF Failed(nStatus, test)
                       THEN /\ nStatus' = [b \in Blocks |-> IF b \in above
                                              THEN nStatus[b] \cup {"FAILED_CHILD"} ELSE nStatus[b]]
                            /\ UNCHANGED unlinked
                       ELSE unlinked' = unlinked \cup above /\ UNCHANGED nStatus

\* Of two ancestors of a block the higher one is built on the lower one.
<1>HigherAncestor.
    ASSUME NEW b \in Blocks, NEW a \in Ancestors[b], NEW c \in Ancestors[b], Height[a] <= Height[c]
    PROVE  a \in Ancestors[c]
  <2> USE <1>HigherAncestor
  <2>1. a \in Blocks /\ c \in Blocks /\ (a \in Ancestors[c] \/ c \in Ancestors[a])
    BY TreeAssumption, SelfAncestor
  <2>2. Height[a] \in Nat /\ Height[c] \in Nat
    BY <2>1, OrderAssumption
  <2>3. CASE c \in Ancestors[a]
    <3>1. c = a
      BY <2>1, <2>2, <2>3, AncestorOrder
    <3> QED BY <2>1, <3>1, SelfAncestor
  <2> QED BY <2>1, <2>3

\* Some block that rules a candidate out is the topmost one.
<1>TopUnusable.
    ASSUME NEW c \in Blocks, Unusable(c) # {}
    PROVE  \E x \in Unusable(c) : \A y \in Unusable(c) : Height[y] <= Height[x]
  <2> USE <1>TopUnusable
  <2>1. Unusable(c) \subseteq Ancestors[c] /\ Ancestors[c] \subseteq Blocks
    BY SelfAncestor DEF Unusable
  <2> QED BY <2>1, FiniteAssumption

<1>1. CASE candidates = {}
  BY <1>1 DEF FindMostWorkChain
<1>2. CASE candidates # {}
  <2> DEFINE test(c) == CHOOSE x \in Unusable(c) : \A y \in Unusable(c) : Height[y] <= Height[x]
             above(c) == {x \in Ancestors[c] : Height[x] > Height[test(c)]}
  <2>1. PICK c \in candidates :
          /\ \A x \in candidates \ {c} : WorkLess(nSequenceId, x, c)
          /\ IF Unusable(c) = {}
             THEN /\ threads' = Go(t, "begin", c)
                  /\ UNCHANGED <<nStatus, candidates, unlinked, csMain>>
             ELSE /\ candidates' = candidates \ (above(c) \cup {test(c)})
                  /\ IF Failed(nStatus, test(c))
                     THEN /\ nStatus' = [b \in Blocks |-> IF b \in above(c)
                               THEN nStatus[b] \cup {"FAILED_CHILD"} ELSE nStatus[b]]
                          /\ UNCHANGED unlinked
                     ELSE unlinked' = unlinked \cup above(c) /\ UNCHANGED nStatus
                  /\ UNCHANGED <<threads, csMain>>
    BY <1>2, Zenon DEF FindMostWorkChain
  <2>2. c \in Blocks
    BY TypeSplit DEF TypeInv, IndexOK
  <2>3. CASE Unusable(c) = {}
    BY <2>1, <2>3, Zenon
  <2>4. CASE Unusable(c) # {}
    <3>1. test(c) \in Unusable(c)
      BY <2>2, <2>4, <1>TopUnusable
    <3>2. /\ test(c) \in Ancestors[c] \ Active /\ test(c) \in Blocks
          /\ Failed(nStatus, test(c)) \/ "DATA" \notin nStatus[test(c)]
      BY <2>2, <3>1, SelfAncestor DEF Unusable
    <3>3. above(c) \subseteq Ancestors[c] /\ above(c) \in SUBSET Blocks
      BY <2>2, SelfAncestor
    <3>4. \A x \in above(c) : test(c) \in Ancestors[x]
      <4> SUFFICES ASSUME NEW x \in above(c) PROVE test(c) \in Ancestors[x]
        OBVIOUS
      <4>1. x \in Ancestors[c] /\ Height[x] > Height[test(c)]
        OBVIOUS
      <4>2. x \in Blocks
        BY <3>3
      <4> HIDE DEF test, above
      <4>3. Height[x] \in Nat /\ Height[test(c)] \in Nat
        BY <3>2, <4>2, OrderAssumption, Zenon
      <4>4. Height[test(c)] <= Height[x]
        BY <4>1, <4>3
      <4> QED BY <2>2, <3>2, <4>1, <4>4, <1>HigherAncestor
    <3> HIDE DEF test, above
    <3>5. /\ candidates' = candidates \ (above(c) \cup {test(c)})
          /\ IF Failed(nStatus, test(c))
             THEN /\ nStatus' = [b \in Blocks |-> IF b \in above(c)
                       THEN nStatus[b] \cup {"FAILED_CHILD"} ELSE nStatus[b]]
                  /\ UNCHANGED unlinked
             ELSE unlinked' = unlinked \cup above(c) /\ UNCHANGED nStatus
          /\ threads' = threads
      BY <2>1, <2>4, Zenon
    <3> QED BY <3>2, <3>3, <3>4, <3>5, Zenon
  <2> QED BY <2>3, <2>4
<1> QED BY <1>1, <1>2

----------------------------------------------------------------------------
(* Good blocks are never marked as failed.                                 *)

\* A block that would pass every test, and so would all its ancestors.
Good(b) == Ancestors[b] \cap (BadBody \cup BadConnect) = {}

\* Statuses in which the marks are right and only a block that ContextualCheckBlock
\* has let through is stored.
Sound(st) ==
    \A b \in Blocks : /\ Failed(st, b) => ~Good(b)
                      /\ "DATA" \in st[b] => "TX" \in st[b]
                      /\ "TX" \in st[b] => b \notin BadBody

\* No thread is inside InvalidateBlock.
NeverInvalidates == \A t \in Threads : threads[t].pc # "invalidate"

\* Only blocks with a bad ancestor are marked, in memory and on disk, and the chain and
\* the coins are at good blocks.
GoodInv ==
    /\ Sound(nStatus) /\ Sound(diskIndex) /\ NeverInvalidates
    /\ \A b \in {tip, coinsBest, diskCoins} \ {None} : Good(b)

\* ConnectTip is called for the block above the tip.
LEMMA NextBlockBelow ==
    ASSUME TypeInv, NEW t \in Threads, CanConnect(t)
    PROVE  Below(NextBlock(t)) = tip
<1> DEFINE mw == threads[t].mostWork
<1>1. mw \in Blocks
  BY DEF CanConnect, TypeInv, TargetOK
<1>2. tip = None \/ tip \in Ancestors[mw] \ {mw}
  BY DEF CanConnect
<1> HIDE DEF mw
<1>3. \E x \in Ancestors[mw] : Below(x) = tip
  <2>1. CASE tip = None
    BY <1>1, <2>1, TreeAssumption, SelfAncestor DEF Below
  <2>2. CASE tip # None
    BY <1>1, <1>2, <2>2, TreeAssumption, SelfAncestor DEF Below
  <2> QED BY <2>1, <2>2
<1>4. Below(Towards(tip, mw)) = tip
  BY <1>3 DEF Towards
<1> QED BY <1>4 DEF NextBlock, mw

LEMMA GoodBelow ==
    /\ \A b \in Blocks : Good(b) /\ Below(b) # None => Good(Below(b))
    /\ \A b \in Blocks : \A a \in Ancestors[b] : Good(b) => Good(a)
    /\ \A b \in Blocks : b \notin BadBody \cup BadConnect /\ (Below(b) # None => Good(Below(b))) => Good(b)
<1>1. \A b \in Blocks : \A a \in Ancestors[b] : Good(b) => Good(a)
  BY TreeAssumption, SelfAncestor DEF Good
<1>2. \A b \in Blocks : Good(b) /\ Below(b) # None => Good(Below(b))
  BY <1>1, BelowType
<1>3. ASSUME NEW b \in Blocks, b \notin BadBody \cup BadConnect, Below(b) # None => Good(Below(b))
      PROVE  Good(b)
  <2>1. CASE b = Genesis
    BY <1>3, <2>1, TreeAssumption DEF Good
  <2>2. CASE b # Genesis
    <3>1. Parent[b] \in Blocks /\ Ancestors[b] = Ancestors[Parent[b]] \cup {b}
      BY <2>2, TreeAssumption
    <3>2. Below(b) = Parent[b] /\ Parent[b] # None
      BY <2>2, <3>1, TreeAssumption DEF Below
    <3> QED BY <1>3, <3>1, <3>2 DEF Good
  <2> QED BY <2>1, <2>2
<1> QED BY <1>1, <1>2, <1>3

\* What is left of GoodInv besides NeverInvalidates.
MarksInv == /\ Sound(nStatus) /\ Sound(diskIndex)
            /\ \A b \in {tip, coinsBest, diskCoins} \ {None} : Good(b)

LEMMA GoodNext ==
    "invalidate" \notin Commands /\ TypeInv /\ GoodInv /\ [Next]_vars => GoodInv'

<1>SoundChange.
    ASSUME NEW st, NEW st2, Sound(st),
           \A x \in Blocks : /\ Failed(st2, x) => Failed(st, x) \/ ~Good(x)
                             /\ "TX" \in st2[x] <=> "TX" \in st[x]
                             /\ "DATA" \in st2[x] => "DATA" \in st[x]
    PROVE  Sound(st2)
  BY <1>SoundChange DEF Sound

\* New flags that say nothing about failures or storage.
<1>SoundFlags.
    ASSUME NEW st, NEW st2, Sound(st),
           \A x \in Blocks : st2[x] = st[x] \/ st2[x] = st[x] \cup {"SCRIPTS"} \/ st2[x] = st[x] \cup {"TREE"}
                             \/ st2[x] = st[x] \ FailedMask
                             \/ (st2[x] \in {st[x] \cup {"FAILED_CHILD"}, st[x] \cup {"FAILED_VALID"},
                                             st[x] \cup {"TREE", "FAILED_VALID"}} /\ ~Good(x))
    PROVE  Sound(st2)
  <2> USE <1>SoundFlags
  <2>1. ASSUME NEW x \in Blocks
        PROVE  /\ Failed(st2, x) => Failed(st, x) \/ ~Good(x)
               /\ "TX" \in st2[x] <=> "TX" \in st[x]
               /\ "DATA" \in st2[x] => "DATA" \in st[x]
    BY DEF Failed, FailedMask
  <2> QED BY <2>1, <1>SoundChange

<1>FlushSound.
    ASSUME NEW st \in Status, NEW d, NEW u, NEW mode, Sound(st), Sound(diskIndex),
           FlushStateToDisk(st, d, u, mode)
    PROVE  Sound(nStatus') /\ Sound(diskIndex')
  <2> USE <1>FlushSound
  <2> PICK F \in PruneChoices(st) :
          /\ nStatus' = Pruned(st, F)
          /\ unlinked' = u \ F
          /\ \/ /\ F = {}
                /\ dirty' = d /\ coinsDue' = FALSE
                /\ UNCHANGED diskIndex
             \/ /\ F # {} \/ mode # "none"
                /\ dirty' = {} /\ diskIndex' = Written(Pruned(st, F), d \cup F)
                /\ coinsDue' = TRUE
             \/ /\ F = {} /\ mode = "periodic"
                /\ dirty' = {} /\ diskIndex' = Written(st, d)
                /\ coinsDue' = FALSE
          /\ UNCHANGED diskCoins
    BY Zenon DEF FlushStateToDisk
  <2>1. Sound(Pruned(st, F))
    <3>1. \A x \in Blocks : Pruned(st, F)[x] = IF x \in F THEN st[x] \ {"DATA"} ELSE st[x]
      BY DEF Pruned
    <3> HIDE DEF Pruned
    <3>2. ASSUME NEW x \in Blocks
          PROVE  /\ Failed(Pruned(st, F), x) => Failed(st, x)
                 /\ "TX" \in Pruned(st, F)[x] <=> "TX" \in st[x]
                 /\ "DATA" \in Pruned(st, F)[x] => "DATA" \in st[x]
      BY <3>1, Zenon DEF Failed, FailedMask
    <3> QED BY <3>2, <1>SoundChange, Zenon
  <2>2. ASSUME NEW st2, Sound(st2), NEW w PROVE Sound(Written(st2, w))
    BY <2>2 DEF Sound, Written, Failed
  <2>3. diskIndex' = diskIndex \/ \E w : diskIndex' = Written(Pruned(st, F), w) \/ diskIndex' = Written(st, w)
    OBVIOUS
  <2> QED BY <2>1, <2>2, <2>3

\* A thread that moves does not begin invalidateblock.
<1>NeverMove.
    ASSUME TypeInv, NeverInvalidates, NEW t \in Threads, NEW r,
           threads' = threads \/ (threads' = [threads EXCEPT ![t] = r] /\ r.pc # "invalidate")
    PROVE  NeverInvalidates'
  <2> USE <1>NeverMove
  <2>1. threads \in [Threads -> Thread]
    BY TypeSplit DEF TypeInv, ThreadOK
  <2> QED BY <2>1 DEF NeverInvalidates

<1>NeverNext.
    ASSUME "invalidate" \notin Commands, TypeInv, NeverInvalidates, [Next]_vars
    PROVE  NeverInvalidates'
  <2> USE <1>NeverNext
  <2>0. Idle.pc # "invalidate" /\ AtLoop.pc # "invalidate"
    BY IdleType
  <2>1. ASSUME NEW t \in Threads, NEW pc, NEW mw, pc # "invalidate", threads' = Go(t, pc, mw)
        PROVE  NeverInvalidates'
    <3> DEFINE r == [pc |-> pc, mostWork |-> mw, oldTip |-> threads[t].oldTip, arg |-> threads[t].arg]
    <3>1. threads' = [threads EXCEPT ![t] = r] /\ r.pc # "invalidate"
      BY <2>1 DEF Go
    <3> HIDE DEF r
    <3> QED BY <3>1, <1>NeverMove, Zenon
  <2>2. ASSUME NEW t \in Threads,
               threads' = threads \/ threads' = [threads EXCEPT ![t] = Idle]
               \/ threads' = [threads EXCEPT ![t] = AtLoop]
        PROVE  NeverInvalidates'
    BY <2>0, <2>2, <1>NeverMove
  <2>3. ASSUME NEW t \in Threads, Step(t) PROVE NeverInvalidates'
    <3>1. CASE ActivateBestChain(t)
      <4>1. \E pc, mw : pc # "invalidate" /\ threads' = Go(t, pc, mw)
        BY <3>1 DEF ActivateBestChain
      <4> QED BY <2>1, <4>1
    <3>2. CASE LockMain(t)
      <4>1. \E pc, mw : pc # "invalidate" /\ threads' = Go(t, pc, mw)
        BY <3>2 DEF LockMain
      <4> QED BY <2>1, <4>1
    <3>3. CASE FindMostWorkChain(t)
      <4>1. \/ \E c : threads' = Go(t, "begin", c)
            \/ threads' = threads \/ threads' = [threads EXCEPT ![t] = Idle]
        BY <3>3, FindEffect, Zenon
      <4> QED BY <2>1, <2>2, <4>1
    <3>4. CASE BeginStep(t)
      <4> DEFINE r == [pc |-> "step", mostWork |-> threads[t].mostWork, oldTip |-> tip, arg |-> None]
      <4>1. threads' = [threads EXCEPT ![t] = Idle] \/ threads' = [threads EXCEPT ![t] = r]
        BY <3>4 DEF BeginStep
      <4>2. r.pc # "invalidate"
        OBVIOUS
      <4> HIDE DEF r
      <4> QED BY <2>2, <4>1, <4>2, <1>NeverMove
    <3>5. CASE StepDone(t) \/ ConnectInvalid(t)
      <4>1. \E mw : threads' = Go(t, "end", mw)
        BY <3>5 DEF StepDone, ConnectInvalid
      <4> QED BY <2>1, <4>1
    <3>6. CASE ConnectTip(t)
      <4>1. AbortNode(t) \/ \E pc, mw : pc # "invalidate" /\ threads' = Go(t, pc, mw)
        <5> DEFINE pc == IF \/ NextBlock(t) = threads[t].mostWork \/ threads[t].oldTip = None
                            \/ ChainWork[NextBlock(t)] > ChainWork[threads[t].oldTip] THEN "end" ELSE "step"
        <5>1. AbortNode(t) \/ threads' = Go(t, pc, threads[t].mostWork)
          BY <3>6, Zenon DEF ConnectTip
        <5>2. pc # "invalidate"
          OBVIOUS
        <5> HIDE DEF pc
        <5> QED BY <5>1, <5>2
      <4> QED BY <2>1, <2>2, <4>1 DEF AbortNode
    <3>7. CASE EndStep(t)
      <4> DEFINE pc == IF tip = threads[t].mostWork THEN "flush" ELSE "again"
                 r == [pc |-> pc, mostWork |-> threads[t].mostWork, oldTip |-> None, arg |-> None]
      <4>1. threads' = [threads EXCEPT ![t] = r] /\ r.pc # "invalidate"
        BY <3>7 DEF EndStep
      <4> HIDE DEF r
      <4> QED BY <4>1, <1>NeverMove, Zenon
    <3>8. CASE \/ StepDisconnect(t) \/ ConnectUnreadable(t) \/ CoinsElsewhere(t) \/ FinishActivate(t)
               \/ InvalidateDisconnect(t) \/ InvalidateFinish(t)
      <4>1. threads' = threads \/ threads' = [threads EXCEPT ![t] = Idle]
               \/ threads' = [threads EXCEPT ![t] = AtLoop]
        BY <3>8, Zenon DEF StepDisconnect, ConnectUnreadable, CoinsElsewhere, FinishActivate, InvalidateDisconnect,
                           InvalidateFinish, DisconnectTip, AbortNode, UndoUnreadable
      <4> QED BY <2>2, <4>1
    <3> QED BY <2>3, <3>1, <3>2, <3>3, <3>4, <3>5, <3>6, <3>7, <3>8 DEF Step
  <2>4. ASSUME NEW t \in Threads, NEW b, NEW fRequested,
               \/ SkipBlock(t, b, fRequested) \/ RejectBlock(t, b, fRequested) \/ AcceptBlock(t, b, fRequested)
               \/ InvalidateBlock(t, b) \/ ResetBlockFailureFlags(t, b) \/ PreciousBlock(t, b)
        PROVE  NeverInvalidates'
    <3>1. threads' = threads \/ threads' = [threads EXCEPT ![t] = AtLoop]
      BY <2>4, Zenon DEF SkipBlock, RejectBlock, AcceptBlock, InvalidateBlock, ResetBlockFailureFlags,
                         PreciousBlock, Command
    <3> QED BY <2>2, <3>1
  <2>5. ASSUME NEW b, ProcessNewBlockHeaders(b) PROVE NeverInvalidates'
    BY <2>5 DEF ProcessNewBlockHeaders, NeverInvalidates
  <2>6. CASE FlushCoins \/ PruneBlockFilesManual \/ StartShutdown \/ UNCHANGED vars
    <3>1. threads' = threads
      BY <2>6 DEF FlushCoins, PruneBlockFilesManual, StartShutdown, vars
    <3> QED BY <3>1 DEF NeverInvalidates
  <2>7. CASE Shutdown \/ Crash \/ AssertFails
    <3>1. threads' = [t \in Threads |-> Idle]
      BY <2>7 DEF Shutdown, Crash, AssertFails, MemoryLost
    <3> QED BY <2>0, <3>1 DEF NeverInvalidates
  <2>8. CASE Restart
    <3>1. threads' = [threads EXCEPT ![ImportThread] = AtLoop]
      BY <2>8 DEF Restart
    <3> QED BY <2>2, <3>1, ProcessAssumption, Zenon
  <2> QED BY <2>3, <2>4, <2>5, <2>6, <2>7, <2>8, Zenon DEF Next, Operate

\* A step that leaves the disk alone.
<1>MarksStep.
    ASSUME MarksInv, Sound(nStatus'), diskIndex' = diskIndex, diskCoins' = diskCoins,
           tip' # None => Good(tip'), coinsBest' # None => Good(coinsBest')
    PROVE  MarksInv'
  <2> USE <1>MarksStep
  <2>1. Sound(diskIndex') /\ (diskCoins' # None => Good(diskCoins'))
    BY DEF MarksInv
  <2> QED BY <2>1 DEF MarksInv, Sound, Failed

<1>ReceiveMarks.
    ASSUME TypeInv, MarksInv, NEW b \in Blocks, NEW t, NEW fRequested,
           \/ ProcessNewBlockHeaders(b) \/ SkipBlock(t, b, fRequested)
           \/ RejectBlock(t, b, fRequested) \/ AcceptBlock(t, b, fRequested)
    PROVE  MarksInv'
  <2> USE <1>ReceiveMarks
  <2>1. nStatus \in Status /\ Sound(nStatus) /\ Sound(diskIndex)
    BY TypeSplit DEF TypeInv, IndexOK, MarksInv
  <2>2. /\ WithHeader(b) \in Status
        /\ \A x \in Blocks : WithHeader(b)[x] = IF x = b THEN nStatus[b] \cup {"TREE"} ELSE nStatus[x]
    BY <2>1 DEF WithHeader, Status, StatusFlags
  <2>3. CASE ProcessNewBlockHeaders(b) \/ SkipBlock(t, b, fRequested)
    <3>1. nStatus' = WithHeader(b) /\ UNCHANGED <<tip, coinsBest, diskIndex, diskCoins>>
      BY <2>3, Zenon DEF ProcessNewBlockHeaders, SkipBlock, diskVars
    <3>2. \A x \in Blocks : nStatus'[x] = nStatus[x] \/ nStatus'[x] = nStatus[x] \cup {"TREE"}
      BY <2>2, <3>1, Zenon
    <3>3. Sound(nStatus')
      BY <2>1, <3>2, <1>SoundFlags
    <3> QED BY <3>1, <3>3, <1>MarksStep DEF MarksInv
  <2>4. CASE RejectBlock(t, b, fRequested)
    <3>1. /\ nStatus' = [WithHeader(b) EXCEPT ![b] = @ \cup {"FAILED_VALID"}]
          /\ b \in BadBody /\ UNCHANGED <<tip, coinsBest, diskIndex, diskCoins>>
      BY <2>4 DEF RejectBlock, diskVars
    <3>2. ~Good(b)
      BY <3>1, SelfAncestor DEF Good
    <3>3. \A x \in Blocks : nStatus'[x] = nStatus[x]
                            \/ (nStatus'[x] = nStatus[x] \cup {"TREE", "FAILED_VALID"} /\ ~Good(x))
      BY <2>2, <3>1, <3>2 DEF Status
    <3>4. Sound(nStatus')
      BY <2>1, <3>3, <1>SoundFlags
    <3> QED BY <3>1, <3>4, <1>MarksStep DEF MarksInv
  <2>5. CASE AcceptBlock(t, b, fRequested)
    <3> DEFINE st == [WithHeader(b) EXCEPT ![b] = @ \cup {"TX", "DATA"}]
    <3>1. /\ FlushStateToDisk(st, dirty \cup {b}, UnlinkedAfter(b), "none")
          /\ b \notin BadBody /\ UNCHANGED <<tip, coinsBest>>
      BY <2>5 DEF AcceptBlock
    <3>2. diskCoins' = diskCoins
      BY <3>1 DEF FlushStateToDisk
    <3>3. /\ st \in Status
          /\ \A x \in Blocks : st[x] = IF x = b THEN nStatus[b] \cup {"TREE", "TX", "DATA"} ELSE nStatus[x]
      BY <2>2, Zenon DEF Status, StatusFlags
    <3> HIDE DEF st
    <3>4. Sound(st)
      <4>1. ASSUME NEW x \in Blocks
            PROVE  /\ Failed(st, x) => ~Good(x)
                   /\ "DATA" \in st[x] => "TX" \in st[x]
                   /\ "TX" \in st[x] => x \notin BadBody
        <5>1. CASE x = b
          BY <2>1, <3>1, <3>3, <5>1 DEF Sound, Failed, FailedMask
        <5>2. CASE x # b
          BY <2>1, <3>3, <5>2 DEF Sound, Failed
        <5> QED BY <5>1, <5>2
      <4> QED BY <4>1 DEF Sound
    <3>5. Sound(nStatus') /\ Sound(diskIndex')
      BY <2>1, <3>1, <3>3, <3>4, <1>FlushSound
    <3> QED BY <3>1, <3>2, <3>5, Zenon DEF MarksInv, Sound, Failed
  <2> QED BY <2>3, <2>4, <2>5

\* The steps of a thread that leave the index alone.
<1>ControlMarks.
    ASSUME MarksInv, NEW t \in Threads,
           \/ ActivateBestChain(t) \/ LockMain(t) \/ BeginStep(t) \/ StepDone(t) \/ EndStep(t)
           \/ ConnectUnreadable(t) \/ CoinsElsewhere(t) \/ InvalidateFinish(t)
    PROVE  MarksInv'
  <2> USE <1>ControlMarks
  <2>1. UNCHANGED <<nStatus, tip, coinsBest, diskIndex, diskCoins>>
    BY Zenon DEF ActivateBestChain, LockMain, BeginStep, StepDone, EndStep, ConnectUnreadable, CoinsElsewhere,
           InvalidateFinish, AbortNode, indexVars, diskVars
  <2> QED BY <2>1 DEF MarksInv, Sound, Failed

<1>FindMarks.
    ASSUME TypeInv, MarksInv, NEW t \in Threads, FindMostWorkChain(t)
    PROVE  MarksInv'
  <2> USE <1>FindMarks
  <2>1. UNCHANGED <<tip, coinsBest, diskIndex, diskCoins>>
    BY DEF FindMostWorkChain, diskVars
  <2>2. Sound(nStatus)
    BY DEF MarksInv
  <2>3. Sound(nStatus')
    <3>1. CASE nStatus' = nStatus
      BY <2>2, <3>1 DEF Sound, Failed
    <3>2. CASE nStatus' # nStatus
      <4>1. PICK test \in Blocks, above \in SUBSET Blocks :
              /\ Failed(nStatus, test) /\ \A x \in above : test \in Ancestors[x]
              /\ nStatus' = [b \in Blocks |-> IF b \in above
                                THEN nStatus[b] \cup {"FAILED_CHILD"} ELSE nStatus[b]]
        BY <3>2, FindEffect, Zenon
      <4>2. ~Good(test)
        BY <2>2, <4>1 DEF Sound
      <4>3. \A x \in above : ~Good(x)
        BY <4>1, <4>2, GoodBelow
      <4>4. \A x \in Blocks : nStatus'[x] = nStatus[x]
                              \/ (nStatus'[x] = nStatus[x] \cup {"FAILED_CHILD"} /\ ~Good(x))
        BY <4>1, <4>3
      <4> QED BY <2>2, <4>4, <1>SoundFlags
    <3> QED BY <3>1, <3>2
  <2> QED BY <2>1, <2>3, <1>MarksStep DEF MarksInv

<1>ConnectInvalidMarks.
    ASSUME TypeInv, MarksInv, NEW t \in Threads, ConnectInvalid(t)
    PROVE  MarksInv'
  <2> USE <1>ConnectInvalidMarks
  <2> DEFINE n == NextBlock(t)
  <2>1. /\ UNCHANGED <<tip, coinsBest, diskIndex, diskCoins>> /\ CanConnect(t) /\ n \in BadConnect
        /\ nStatus' = [nStatus EXCEPT ![n] = @ \cup {"FAILED_VALID"}]
    BY DEF ConnectInvalid, diskVars
  <2>2. n \in Blocks
    BY <2>1, NextBlockType
  <2> HIDE DEF n
  <2>3. ~Good(n)
    BY <2>1, <2>2, SelfAncestor DEF Good
  <2>4. nStatus \in Status /\ Sound(nStatus)
    BY TypeSplit DEF TypeInv, IndexOK, MarksInv
  <2>5. \A x \in Blocks : nStatus'[x] = nStatus[x]
                          \/ (nStatus'[x] = nStatus[x] \cup {"FAILED_VALID"} /\ ~Good(x))
    BY <2>1, <2>3, <2>4 DEF Status
  <2>6. Sound(nStatus')
    BY <2>4, <2>5, <1>SoundFlags
  <2> QED BY <2>1, <2>6, <1>MarksStep DEF MarksInv

\* ConnectTip follows a good tip with a good block.
<1>ConnectTipMarks.
    ASSUME TypeInv, MarksInv, NEW t \in Threads, ConnectTip(t)
    PROVE  MarksInv'
  <2> USE <1>ConnectTipMarks
  <2> DEFINE b == NextBlock(t)
             known == b = Genesis \/ ("SCRIPTS" \in nStatus[b] /\ ~Failed(nStatus, b))
             st == IF known \/ Failed(nStatus, b) THEN nStatus
                   ELSE [nStatus EXCEPT ![b] = @ \cup {"SCRIPTS"}]
             d == IF known THEN dirty ELSE dirty \cup {b}
  <2>1. /\ CanConnect(t) /\ "DATA" \in nStatus[b] /\ b \notin BadConnect /\ coinsBest' = b
        /\ \/ FlushStateToDisk(st, d, unlinked, "if_needed") /\ tip' = b
           \/ FlushFails(st, unlinked) /\ tip' = tip
    BY Zenon DEF ConnectTip
  <2>2. b \in Blocks /\ Below(b) = tip
    BY <2>1, NextBlockType, NextBlockBelow
  <2>3. nStatus \in Status /\ Sound(nStatus) /\ Sound(diskIndex)
    BY TypeSplit DEF TypeInv, IndexOK, MarksInv
  <2> HIDE DEF b, known
  <2>4. Good(b)
    <3>1. b \notin BadBody
      BY <2>1, <2>2, <2>3 DEF Sound
    <3>2. tip # None => Good(tip)
      BY DEF MarksInv
    <3> QED BY <2>1, <2>2, <3>1, <3>2, GoodBelow
  <2>5. st \in Status /\ \A x \in Blocks : st[x] = nStatus[x] \/ st[x] = nStatus[x] \cup {"SCRIPTS"}
    BY <2>2, <2>3, Zenon DEF Status, StatusFlags
  <2> HIDE DEF st, d
  <2>6. Sound(st)
    BY <2>3, <2>5, <1>SoundFlags
  <2>7. CASE FlushStateToDisk(st, d, unlinked, "if_needed") /\ tip' = b
    <3>1. Sound(nStatus') /\ Sound(diskIndex')
      BY <2>3, <2>5, <2>6, <2>7, <1>FlushSound, Zenon
    <3>2. diskCoins' = diskCoins
      BY <2>7, Zenon DEF FlushStateToDisk
    <3> QED BY <2>1, <2>4, <2>7, <3>1, <3>2, Zenon DEF MarksInv, Sound, Failed
  <2>8. CASE FlushFails(st, unlinked) /\ tip' = tip
    <3>1. nStatus' = st /\ diskIndex' = diskIndex /\ diskCoins' = diskCoins
      BY <2>8 DEF FlushFails, diskVars
    <3>2. Sound(nStatus')
      BY <2>6, <3>1 DEF Sound, Failed
    <3> QED BY <2>1, <2>4, <2>8, <3>1, <3>2, <1>MarksStep DEF MarksInv
  <2> QED BY <2>1, <2>7, <2>8

<1>DisconnectMarks.
    ASSUME TypeInv, MarksInv, NEW t \in Threads, StepDisconnect(t)
    PROVE  MarksInv'
  <2> USE <1>DisconnectMarks
  <2>1. tip \in Blocks /\ DisconnectTip(t, nStatus, dirty)
    BY TypeSplit DEF StepDisconnect, TypeInv, ChainOK, MaybeBlock
  <2>2. nStatus \in Status /\ Sound(nStatus) /\ Sound(diskIndex)
    BY TypeSplit DEF TypeInv, IndexOK, MarksInv
  <2>3. Below(tip) # None => Good(Below(tip))
    BY <2>1, GoodBelow, TreeAssumption DEF MarksInv
  <2>4. CASE UNCHANGED <<nStatus, tip, coinsBest, diskVars>>
    BY <2>4, Zenon DEF MarksInv, Sound, Failed, diskVars
  <2>5. CASE /\ coinsBest' = Below(tip) /\ tip' = Below(tip)
             /\ FlushStateToDisk(nStatus, dirty, unlinked, "if_needed")
    <3>1. Sound(nStatus') /\ Sound(diskIndex')
      BY <2>2, <2>5, <1>FlushSound
    <3>2. diskCoins' = diskCoins
      BY <2>5, Zenon DEF FlushStateToDisk
    <3> QED BY <2>3, <2>5, <3>1, <3>2, Zenon DEF MarksInv, Sound, Failed
  <2>6. CASE coinsBest' = Below(tip) /\ FlushFails(nStatus, unlinked) /\ UNCHANGED tip
    BY <2>3, <2>6, Zenon DEF MarksInv, Sound, Failed, FlushFails, diskVars
  <2> QED BY <2>1, <2>4, <2>5, <2>6, Zenon DEF DisconnectTip

<1>FinishMarks.
    ASSUME TypeInv, MarksInv, FlushStateToDisk(nStatus, dirty, unlinked, "periodic")
                              \/ FlushStateToDisk(nStatus, dirty, unlinked, "none"),
           UNCHANGED <<tip, coinsBest>>
    PROVE  MarksInv'
  <2> USE <1>FinishMarks
  <2>1. nStatus \in Status /\ Sound(nStatus) /\ Sound(diskIndex)
    BY TypeSplit DEF TypeInv, IndexOK, MarksInv
  <2>2. Sound(nStatus') /\ Sound(diskIndex')
    BY <2>1, <1>FlushSound
  <2>3. diskCoins' = diskCoins
    BY Zenon DEF FlushStateToDisk
  <2> QED BY <2>2, <2>3, Zenon DEF MarksInv, Sound, Failed

<1>CommandMarks.
    ASSUME TypeInv, MarksInv, NEW t \in Threads, NEW b \in Blocks,
           ResetBlockFailureFlags(t, b) \/ PreciousBlock(t, b)
    PROVE  MarksInv'
  <2> USE <1>CommandMarks
  <2>1. UNCHANGED <<tip, coinsBest, diskIndex, diskCoins>>
    BY DEF ResetBlockFailureFlags, PreciousBlock, diskVars
  <2>2. \A x \in Blocks : nStatus'[x] = nStatus[x] \/ nStatus'[x] = nStatus[x] \ FailedMask
    BY DEF ResetBlockFailureFlags, PreciousBlock
  <2>3. Sound(nStatus')
    BY <2>2, <1>SoundFlags DEF MarksInv
  <2> QED BY <2>1, <2>3, <1>MarksStep DEF MarksInv

<1>ProcessMarks.
    ASSUME TypeInv, MarksInv,
           FlushCoins \/ StartShutdown \/ Shutdown \/ Crash \/ AssertFails \/ Restart \/ UNCHANGED vars
    PROVE  MarksInv'
  <2> USE <1>ProcessMarks
  <2>1. CASE FlushCoins \/ StartShutdown \/ UNCHANGED vars
    <3>1. UNCHANGED <<nStatus, tip, coinsBest, diskIndex>> /\ diskCoins' \in {diskCoins, coinsBest}
      BY <2>1 DEF FlushCoins, StartShutdown, vars, indexVars, diskVars
    <3> QED BY <3>1 DEF MarksInv, Sound, Failed
  <2>2. CASE Shutdown \/ Crash \/ AssertFails
    <3>1. /\ nStatus' = [b \in Blocks |-> {}] /\ tip' = None /\ coinsBest' = None
          /\ diskCoins' \in {diskCoins, coinsBest} /\ diskIndex' \in {diskIndex, Written(nStatus, dirty)}
      BY <2>2 DEF Shutdown, Crash, AssertFails, MemoryLost
    <3>2. Sound(nStatus')
      BY <3>1 DEF Sound, Failed
    <3>3. Sound(diskIndex')
      <4>1. Sound(Written(nStatus, dirty))
        BY DEF MarksInv, Sound, Written, Failed
      <4> QED BY <3>1, <4>1, Zenon DEF MarksInv
    <3>4. diskCoins' # None => Good(diskCoins')
      BY <3>1 DEF MarksInv
    <3> QED BY <3>1, <3>2, <3>3, <3>4, Zenon DEF MarksInv, Sound, Failed
  <2>3. CASE Restart
    <3>1. /\ nStatus' = diskIndex /\ coinsBest' = diskCoins /\ tip' \in {diskCoins, None}
          /\ UNCHANGED <<diskIndex, diskCoins>>
      BY <2>3 DEF Restart, diskVars
    <3> QED BY <3>1 DEF MarksInv, Sound, Failed
  <2> QED BY <2>1, <2>2, <2>3

<1> SUFFICES ASSUME "invalidate" \notin Commands, TypeInv, GoodInv, [Next]_vars
             PROVE  GoodInv'
  OBVIOUS
<1>1. NeverInvalidates'
  BY <1>NeverNext DEF GoodInv
<1>2. MarksInv /\ \A t \in Threads : threads[t].pc # "invalidate"
  BY DEF GoodInv, MarksInv, NeverInvalidates
<1>3. MarksInv'
  <2>1. ASSUME NEW t \in Threads, Step(t) PROVE MarksInv'
    <3>1. CASE FinishActivate(t)
      <4>1. CASE FlushStateToDisk(nStatus, dirty, unlinked, "periodic")
        BY <1>2, <3>1, <4>1, <1>FinishMarks, Zenon DEF FinishActivate
      <4>2. CASE FlushFails(nStatus, unlinked)
        <5>1. UNCHANGED <<nStatus, tip, coinsBest, diskIndex, diskCoins>>
          BY <3>1, <4>2, Zenon DEF FinishActivate, FlushFails, diskVars
        <5> QED BY <1>2, <5>1 DEF MarksInv, Sound, Failed
      <4> QED BY <3>1, <4>1, <4>2 DEF FinishActivate
    <3>2. CASE InvalidateDisconnect(t)
      BY <1>2, <3>2 DEF InvalidateDisconnect
    <3> QED BY <1>2, <2>1, <3>1, <3>2, <1>ControlMarks, <1>FindMarks, <1>ConnectInvalidMarks, <1>ConnectTipMarks,
               <1>DisconnectMarks, Zenon DEF Step
  <2>2. ASSUME NEW b \in Blocks, NEW t, NEW fRequested,
               \/ ProcessNewBlockHeaders(b) \/ SkipBlock(t, b, fRequested)
               \/ RejectBlock(t, b, fRequested) \/ AcceptBlock(t, b, fRequested)
        PROVE  MarksInv'
    BY <1>2, <2>2, <1>ReceiveMarks, Zenon
  <2>3. ASSUME NEW t \in Threads, NEW b \in Blocks,
               InvalidateBlock(t, b) \/ ResetBlockFailureFlags(t, b) \/ PreciousBlock(t, b)
        PROVE  MarksInv'
    BY <1>2, <2>3, <1>CommandMarks, Zenon DEF InvalidateBlock, Command
  <2>4. CASE PruneBlockFilesManual
    BY <1>2, <2>4, <1>FinishMarks DEF PruneBlockFilesManual
  <2> QED BY <1>2, <2>1, <2>2, <2>3, <2>4, <1>ProcessMarks, Zenon DEF Next, Operate
<1> QED BY <1>1, <1>3 DEF GoodInv, MarksInv, Sound, Failed

LEMMA GoodInit == Init => TypeInv /\ GoodInv
<1> SUFFICES ASSUME Init PROVE TypeInv /\ GoodInv
  OBVIOUS
<1>1. TypeInv
  BY InitType, IdleType DEF TypeInv, Init, TargetOK, DownOK
<1>2. NeverInvalidates
  BY IdleType DEF Init, NeverInvalidates
<1>3. Sound(nStatus) /\ diskIndex = nStatus
  BY GenesisAssumption DEF Init, Sound, Failed, FailedMask
<1>4. tip = None /\ coinsBest = None /\ diskCoins = None
  BY DEF Init
<1> QED BY <1>1, <1>2, <1>3, <1>4 DEF GoodInv

\* As long as invalidateblock is not used, no block of the active chain is marked as
\* failed, with any threads, crashes, pruned files, disk errors, reconsiderblock and
\* preciousblock: only blocks with a bad ancestor are ever marked, in memory and on
\* disk, and ConnectTip builds the active chain from blocks that have none.
THEOREM NoFailedTip == "invalidate" \notin Commands => (Spec => []TipNotFailed)
<1> SUFFICES ASSUME "invalidate" \notin Commands PROVE Spec => []TipNotFailed
  OBVIOUS
<1> DEFINE Inv == TypeInv /\ GoodInv
<1>1. Init => Inv
  BY GoodInit
<1>2. Inv /\ [Next]_vars => Inv'
  BY TypeNext, GoodNext
<1>3. Inv => TipNotFailed
  <2> SUFFICES ASSUME TypeInv, GoodInv, tip # None, NEW b \in Ancestors[tip] PROVE ~Failed(nStatus, b)
    BY Zenon DEF TipNotFailed, Visible, Active
  <2>1. tip \in Blocks /\ Good(tip)
    BY TypeSplit DEF TypeInv, ChainOK, MaybeBlock, GoodInv
  <2>2. Good(b) /\ b \in Blocks
    BY <2>1, GoodBelow, SelfAncestor, Zenon
  <2> QED BY <2>2, Zenon DEF GoodInv, Sound
<1> HIDE DEF Inv
<1> QED BY <1>1, <1>2, <1>3, PTL DEF Spec

----------------------------------------------------------------------------
(* PruneBlockIndexCandidates always leaves a candidate.                    *)

Stored(st) == \A b \in Blocks : "TX" \in st[b] => "DATA" \in st[b]

\* What was received is stored, and what waits for a parent is not linked.
StoredInv == Stored(nStatus) /\ Stored(diskIndex) /\ linked \cap unlinked = {} /\ coinsBest = tip

\* Every good block that is linked has a good candidate that is no worse.
Topped == \A x \in linked : Good(x) => \E c \in candidates : Good(c) /\ ~WorkLess(nSequenceId, c, x)
\* No assertion has failed, and none can fail in the next step.
TopInv == phase # "assert" /\ Topped

\* The index database stays as it is, or the dirty entries are written.
Writes == diskIndex' = diskIndex \/ (dirty' = {} /\ \E w : diskIndex' = Written(nStatus', w))

\* A node that does not prune flushes what is there.
LEMMA NoPrune ==
    ASSUME ~PruneMode, NEW st \in Status, NEW d, NEW u, NEW mode, FlushStateToDisk(st, d, u, mode)
    PROVE  /\ nStatus' = st /\ unlinked' = u /\ diskCoins' = diskCoins
           /\ Writes
<1>1. \A F \in PruneChoices(st) : F = {}
  BY Zenon DEF PruneChoices
<1>2. Pruned(st, {}) = st
  BY DEF Pruned, Status
<1>3. PICK F \in PruneChoices(st) :
        /\ nStatus' = Pruned(st, F) /\ unlinked' = u \ F /\ diskCoins' = diskCoins
        /\ \/ UNCHANGED diskIndex
           \/ dirty' = {} /\ \E w : diskIndex' \in {Written(Pruned(st, F), w), Written(st, w)}
  BY Zenon DEF FlushStateToDisk
<1>4. F = {}
  BY <1>1
<1>5. Writes
  BY <1>2, <1>3, <1>4 DEF Writes
<1> QED BY <1>2, <1>3, <1>4, <1>5

\* Without disk errors and pruning FindMostWorkChain only drops what is built on a failed block.
LEMMA FindStored ==
    ASSUME TypeInv, LinkedInv, Stored(nStatus), NEW t \in Threads, FindMostWorkChain(t)
    PROVE  /\ UNCHANGED unlinked
           /\ \/ UNCHANGED <<nStatus, candidates>>
              \/ /\ threads' = threads
                 /\ \E test \in linked, above \in SUBSET linked :
                    /\ Failed(nStatus, test) /\ \A x \in above : test \in Ancestors[x]
                    /\ candidates' = candidates \ (above \cup {test})
                    /\ nStatus' = [b \in Blocks |-> IF b \in above
                                     THEN nStatus[b] \cup {"FAILED_CHILD"} ELSE nStatus[b]]
<1>1. CASE UNCHANGED <<nStatus, candidates, unlinked>>
  BY <1>1
<1>2. CASE ~UNCHANGED <<nStatus, candidates, unlinked>>
  <2>1. PICK c \in candidates, test \in Blocks, above \in SUBSET Blocks :
          /\ threads' = threads
          /\ test \in Ancestors[c] \ Active
          /\ Failed(nStatus, test) \/ "DATA" \notin nStatus[test]
          /\ above \subseteq Ancestors[c] /\ \A x \in above : test \in Ancestors[x]
          /\ candidates' = candidates \ (above \cup {test})
          /\ IF Failed(nStatus, test)
             THEN /\ nStatus' = [b \in Blocks |-> IF b \in above
                                    THEN nStatus[b] \cup {"FAILED_CHILD"} ELSE nStatus[b]]
                  /\ UNCHANGED unlinked
             ELSE unlinked' = unlinked \cup above /\ UNCHANGED nStatus
    BY <1>2, FindEffect, Zenon
  <2>2. Ancestors[c] \subseteq linked
    BY DEF LinkedInv
  <2>3. test \in linked /\ above \in SUBSET linked
    BY <2>1, <2>2
  <2>4. "DATA" \in nStatus[test]
    BY <2>3 DEF LinkedInv, Stored
  <2> QED BY <2>1, <2>3, <2>4, Zenon
<1> QED BY <1>1, <1>2, Zenon

\* What ReceivedBlockTransactions links was not linked, and it only changes the
\* sequence ids of that.
LEMMA LinkEffect ==
    ASSUME TypeInv, LinkedInv, Stored(nStatus), linked \cap unlinked = {},
           NEW b \in Blocks, "DATA" \notin nStatus[b], LinkBlock(b)
    PROVE  /\ b \notin linked \cup unlinked
           /\ \/ /\ b = Genesis \/ Parent[b] \in linked
                 /\ linked' = linked \cup NowLinked(b) /\ linked \cap NowLinked(b) = {}
                 /\ b \in NowLinked(b) /\ NowLinked(b) \subseteq unlinked \cup {b}
                 /\ \A x \in Blocks \ NowLinked(b) : nSequenceId'[x] = nSequenceId[x]
                 /\ candidates' = candidates \cup
                        {x \in NowLinked(b) : tip = None \/ ~WorkLess(nSequenceId', x, tip)}
              \/ /\ b # Genesis /\ Parent[b] \notin linked
                 /\ UNCHANGED <<linked, nSequenceId, candidates>>
<1>0. \A i, j \in Nat : ~(i < j /\ j < i)
  OBVIOUS
<1>1. b \notin linked \cup unlinked
  BY DEF LinkedInv, Stored
<1>2. CASE b = Genesis \/ Parent[b] \in linked
  <2>1. PICK f \in QueueOrders(NowLinked(b), counters.next) :
          /\ linked' = linked \cup DOMAIN f
          /\ nSequenceId' = [x \in Blocks |-> IF x \in DOMAIN f THEN f[x] ELSE nSequenceId[x]]
          /\ candidates' = candidates \cup
                 {x \in DOMAIN f : tip = None \/ ~WorkLess(nSequenceId', x, tip)}
    BY <1>2 DEF LinkBlock
  <2>2. DOMAIN f = NowLinked(b)
    BY Zenon DEF QueueOrders
  <2>3. b \in NowLinked(b)
    BY SelfAncestor, Zenon DEF NowLinked
  <2>4. ASSUME NEW x \in NowLinked(b), x # b PROVE x \in unlinked
    <3>1. x \in Blocks /\ b \in Ancestors[x] /\ Ancestors[x] \ Ancestors[b] \subseteq unlinked
      BY DEF NowLinked
    <3>2. x \notin Ancestors[b]
      <4> SUFFICES ASSUME x \in Ancestors[b] PROVE FALSE
        OBVIOUS
      <4>1. Height[x] < Height[b] /\ Height[b] < Height[x]
        BY <2>4, <3>1, AncestorOrder, Zenon
      <4>2. Height[x] \in Nat /\ Height[b] \in Nat
        BY <3>1, OrderAssumption
      <4> QED BY <1>0, <4>1, <4>2, Zenon
    <3> QED BY <3>1, <3>2, SelfAncestor, Zenon
  <2>5. NowLinked(b) \subseteq unlinked \cup {b} /\ linked \cap NowLinked(b) = {}
    BY <1>1, <2>4
  <2>6. \A x \in Blocks \ NowLinked(b) : nSequenceId'[x] = nSequenceId[x]
    BY <2>1, <2>2, Zenon
  <2> QED BY <1>1, <1>2, <2>1, <2>2, <2>3, <2>5, <2>6, Zenon
<1>3. CASE ~(b = Genesis \/ Parent[b] \in linked)
  BY <1>1, <1>3 DEF LinkBlock
<1> QED BY <1>2, <1>3, Zenon

\* What AcceptBlock does to the index of a node that does not prune.
LEMMA AcceptEffect ==
    ASSUME ~PruneMode, TypeInv, NEW t, NEW b \in Blocks, NEW fRequested, AcceptBlock(t, b, fRequested)
    PROVE  /\ "DATA" \notin nStatus[b] /\ b \notin BadBody /\ LinkBlock(b) /\ HeaderAccepted(b)
           /\ UNCHANGED <<tip, coinsBest, phase, csMain, diskCoins>> /\ unlinked' = UnlinkedAfter(b)
           /\ Serving /\ threads[t] = Idle /\ threads' = [threads EXCEPT ![t] = AtLoop]
           /\ nStatus' \in Status
           /\ \A x \in Blocks :
                  nStatus'[x] = IF x = b THEN nStatus[b] \cup {"TREE", "TX", "DATA"} ELSE nStatus[x]
           /\ Writes
<1> DEFINE st == [WithHeader(b) EXCEPT ![b] = @ \cup {"TX", "DATA"}]
<1>1. /\ FlushStateToDisk(st, dirty \cup {b}, UnlinkedAfter(b), "none") /\ LinkBlock(b)
      /\ ~NotWanted(b, fRequested) /\ b \notin BadBody /\ UNCHANGED <<tip, coinsBest, phase, csMain>>
      /\ Serving /\ threads[t] = Idle /\ threads' = [threads EXCEPT ![t] = AtLoop] /\ HeaderAccepted(b)
  BY DEF AcceptBlock
<1>2. nStatus \in Status
  BY TypeSplit DEF TypeInv, IndexOK
<1>3. /\ WithHeader(b) \in Status
      /\ \A x \in Blocks : WithHeader(b)[x] = IF x = b THEN nStatus[b] \cup {"TREE"} ELSE nStatus[x]
  BY <1>2, Zenon DEF WithHeader, Status, StatusFlags
<1>4. /\ st \in Status
      /\ \A x \in Blocks : st[x] = IF x = b THEN nStatus[b] \cup {"TREE", "TX", "DATA"} ELSE nStatus[x]
  BY <1>3 DEF Status, StatusFlags
<1> HIDE DEF st
<1>5. /\ nStatus' = st /\ unlinked' = UnlinkedAfter(b) /\ diskCoins' = diskCoins
      /\ Writes
  BY <1>1, <1>4, NoPrune, Zenon
<1>6. "DATA" \notin nStatus[b]
  BY <1>1, Zenon DEF NotWanted
<1> QED BY <1>1, <1>4, <1>5, <1>6, Zenon

LEMMA ConnectEffect ==
    ASSUME ~PruneMode, ~DiskMayFail, TypeInv, LinkedInv, NEW t \in Threads, ConnectTip(t),
           NEW b, b = NextBlock(t)
    PROVE  /\ b \in linked /\ "DATA" \in nStatus[b] /\ b \notin BadConnect /\ Below(b) = tip
           /\ b \in Ancestors[threads[t].mostWork] /\ threads[t].mostWork \in Blocks /\ threads[t].pc = "step"
           /\ tip' = b /\ coinsBest' = b
           /\ UNCHANGED <<linked, nSequenceId, unlinked, diskCoins, csMain>>
           /\ candidates' = {c \in candidates : ~WorkLess(nSequenceId, c, b)}
           /\ phase' = IF candidates' = {} THEN "assert" ELSE phase
           /\ \E pc \in {"step", "end"} : threads' = Go(t, pc, threads[t].mostWork)
           /\ nStatus' \in Status
           /\ \A x \in Blocks : nStatus'[x] = nStatus[x] \/ nStatus'[x] = nStatus[x] \cup {"SCRIPTS"}
           /\ Writes
<1> DEFINE known == b = Genesis \/ ("SCRIPTS" \in nStatus[b] /\ ~Failed(nStatus, b))
           st == IF known \/ Failed(nStatus, b) THEN nStatus
                 ELSE [nStatus EXCEPT ![b] = @ \cup {"SCRIPTS"}]
           d == IF known THEN dirty ELSE dirty \cup {b}
           pc == IF \/ b = threads[t].mostWork \/ threads[t].oldTip = None
                    \/ ChainWork[b] > ChainWork[threads[t].oldTip] THEN "end" ELSE "step"
<1>1. /\ CanConnect(t) /\ "DATA" \in nStatus[b] /\ b \notin BadConnect /\ coinsBest' = b
      /\ FlushStateToDisk(st, d, unlinked, "if_needed") /\ tip' = b
      /\ candidates' = PruneBlockIndexCandidates(candidates, nSequenceId, b)
      /\ phase' = IF candidates' = {} THEN "assert" ELSE phase
      /\ threads' = Go(t, pc, threads[t].mostWork)
      /\ UNCHANGED <<csMain, linked, nSequenceId>>
  BY Zenon DEF ConnectTip, FlushFails
<1>2. b \in Ancestors[threads[t].mostWork] /\ b \in Blocks /\ Below(b) = tip
  BY <1>1, NextBlockType, NextBlockBelow, Zenon
<1>3. threads[t].mostWork \in Blocks /\ threads[t].pc = "step"
  BY <1>1 DEF CanConnect, TypeInv, TargetOK
<1>4. threads[t].mostWork \in linked
  BY <1>3, TreeAssumption, Zenon DEF LinkedInv
<1>5. b \in linked
  BY <1>2, <1>4 DEF LinkedInv
<1>6. nStatus \in Status
  BY TypeSplit DEF TypeInv, IndexOK
<1>7. st \in Status /\ \A x \in Blocks : st[x] = nStatus[x] \/ st[x] = nStatus[x] \cup {"SCRIPTS"}
  BY <1>2, <1>6, Zenon DEF Status, StatusFlags
<1>8. pc \in {"step", "end"}
  OBVIOUS
<1> HIDE DEF known, st, d, pc
<1>9. /\ nStatus' = st /\ unlinked' = unlinked /\ diskCoins' = diskCoins
      /\ Writes
  BY <1>1, <1>7, NoPrune, Zenon
<1>10. candidates' = {c \in candidates : ~WorkLess(nSequenceId, c, b)}
  BY <1>1, Zenon DEF PruneBlockIndexCandidates
<1> QED BY <1>1, <1>2, <1>3, <1>5, <1>7, <1>8, <1>9, <1>10, Zenon

LEMMA DisconnectEffect ==
    ASSUME ~PruneMode, ~DiskMayFail, TypeInv, LinkedInv, Stored(nStatus), NEW t \in Threads, StepDisconnect(t)
    PROVE  /\ tip \in linked /\ tip \notin Ancestors[threads[t].mostWork] /\ threads[t].pc = "step"
           /\ tip' = Below(tip) /\ coinsBest' = Below(tip)
           /\ UNCHANGED <<nStatus, linked, nSequenceId, candidates, unlinked, diskCoins, csMain, threads, phase>>
           /\ Writes
<1>1. /\ tip \in linked /\ threads[t].pc = "step" /\ tip \notin Ancestors[threads[t].mostWork]
      /\ DisconnectTip(t, nStatus, dirty) /\ UNCHANGED <<linked, nSequenceId, candidates>>
  BY Zenon DEF StepDisconnect, LinkedInv
<1>2. "DATA" \in nStatus[tip]
  BY <1>1, TypeSplit, Zenon DEF LinkedInv, Stored, TypeInv, IndexOK
<1>3. /\ coinsBest' = Below(tip) /\ tip' = Below(tip) /\ UNCHANGED <<csMain, threads, phase>>
      /\ FlushStateToDisk(nStatus, dirty, unlinked, "if_needed")
  BY <1>1, <1>2, Zenon DEF DisconnectTip, Unreadable, UndoUnreadable, FlushFails
<1>4. nStatus \in Status
  BY TypeSplit DEF TypeInv, IndexOK
<1>5. /\ nStatus' = nStatus /\ unlinked' = unlinked /\ diskCoins' = diskCoins
      /\ Writes
  BY <1>3, <1>4, NoPrune
<1> QED BY <1>1, <1>3, <1>5, Zenon

LEMMA FinishEffect ==
    ASSUME ~PruneMode, ~DiskMayFail, TypeInv, NEW t \in Threads, FinishActivate(t)
    PROVE  /\ threads[t].pc = "flush" /\ threads' = [threads EXCEPT ![t] = Idle]
           /\ UNCHANGED <<nStatus, linked, nSequenceId, candidates, unlinked, tip, coinsBest, diskCoins, csMain, phase>>
           /\ Writes
<1>1. /\ threads[t].pc = "flush" /\ threads' = [threads EXCEPT ![t] = Idle]
      /\ UNCHANGED <<linked, nSequenceId, candidates, tip, coinsBest, csMain, phase>>
      /\ FlushStateToDisk(nStatus, dirty, unlinked, "periodic")
  BY DEF FinishActivate, FlushFails
<1>2. nStatus \in Status
  BY TypeSplit DEF TypeInv, IndexOK
<1>3. /\ nStatus' = nStatus /\ unlinked' = unlinked /\ diskCoins' = diskCoins
      /\ Writes
  BY <1>1, <1>2, NoPrune
<1> QED BY <1>1, <1>3, Zenon

\* Headers and refused blocks: what they add to the index says nothing about storage.
LEMMA HeaderEffect ==
    ASSUME TypeInv, NEW b \in Blocks, NEW t, NEW fRequested,
           \/ ProcessNewBlockHeaders(b) \/ SkipBlock(t, b, fRequested) \/ RejectBlock(t, b, fRequested)
    PROVE  /\ UNCHANGED <<linked, nSequenceId, candidates, unlinked, tip, coinsBest, diskIndex, diskCoins, csMain, phase>>
           /\ Serving /\ (UNCHANGED threads \/ (threads[t] = Idle /\ threads' = [threads EXCEPT ![t] = AtLoop]))
           /\ nStatus' \in Status
           /\ \/ \A x \in Blocks : nStatus'[x] = IF x = b THEN nStatus[b] \cup {"TREE"} ELSE nStatus[x]
              \/ /\ b \in BadBody /\ "DATA" \notin nStatus[b]
                 /\ \A x \in Blocks :
                       nStatus'[x] = IF x = b THEN nStatus[b] \cup {"TREE", "FAILED_VALID"} ELSE nStatus[x]
<1>1. /\ UNCHANGED <<linked, nSequenceId, candidates, unlinked, tip, coinsBest, diskIndex, diskCoins, csMain, phase>>
      /\ Serving /\ (UNCHANGED threads \/ (threads[t] = Idle /\ threads' = [threads EXCEPT ![t] = AtLoop]))
  BY Zenon DEF ProcessNewBlockHeaders, SkipBlock, RejectBlock, diskVars
<1>2. nStatus \in Status
  BY TypeSplit DEF TypeInv, IndexOK
<1>3. /\ WithHeader(b) \in Status
      /\ \A x \in Blocks : WithHeader(b)[x] = IF x = b THEN nStatus[b] \cup {"TREE"} ELSE nStatus[x]
  BY <1>2 DEF WithHeader, Status, StatusFlags
<1>4. CASE ProcessNewBlockHeaders(b) \/ SkipBlock(t, b, fRequested)
  <2>1. nStatus' = WithHeader(b)
    BY <1>4, Zenon DEF ProcessNewBlockHeaders, SkipBlock
  <2> QED BY <1>1, <1>3, <2>1, Zenon
<1>5. CASE RejectBlock(t, b, fRequested)
  <2>1. /\ nStatus' = [WithHeader(b) EXCEPT ![b] = @ \cup {"FAILED_VALID"}]
        /\ b \in BadBody /\ "DATA" \notin nStatus[b]
    BY <1>5, Zenon DEF RejectBlock, NotWanted
  <2>2. /\ nStatus' \in Status
        /\ \A x \in Blocks : nStatus'[x] = IF x = b THEN nStatus[b] \cup {"TREE", "FAILED_VALID"} ELSE nStatus[x]
    BY <1>3, <2>1, Zenon DEF Status, StatusFlags, FailedMask
  <2> QED BY <1>1, <2>1, <2>2, Zenon
<1> QED BY <1>4, <1>5, Zenon

\* The steps of a thread that leave the index and the chain alone, when pcoinsTip is
\* at the tip and the thread does not invalidate blocks.
LEMMA ControlEffect ==
    ASSUME NEW t \in Threads, coinsBest = tip, threads[t].pc # "invalidate",
           phase \in {"running", "stopping"},
           \/ ActivateBestChain(t) \/ LockMain(t) \/ BeginStep(t) \/ StepDone(t) \/ EndStep(t)
           \/ ConnectUnreadable(t) \/ CoinsElsewhere(t) \/ InvalidateDisconnect(t) \/ InvalidateFinish(t)
    PROVE  /\ UNCHANGED <<nStatus, linked, nSequenceId, candidates, unlinked, tip, coinsBest, diskIndex, diskCoins>>
           /\ phase' \in {"running", "stopping"}
BY Zenon DEF ActivateBestChain, LockMain, BeginStep, StepDone, EndStep, ConnectUnreadable, CoinsElsewhere,
             InvalidateDisconnect, InvalidateFinish, AbortNode, indexVars, diskVars

\* What happens to the index while it grows by nothing: the steps of the process.
LEMMA ProcessEffect ==
    ASSUME ~PruneMode,
           FlushCoins \/ PruneBlockFilesManual \/ StartShutdown \/ UNCHANGED vars
    PROVE  /\ UNCHANGED <<nStatus, linked, nSequenceId, candidates, unlinked, tip, coinsBest, diskIndex, threads>>
           /\ phase' \in {phase, "stopping"} /\ (phase' # phase => phase = "running")
           /\ diskCoins' \in {diskCoins, coinsBest}
BY Zenon DEF FlushCoins, PruneBlockFilesManual, StartShutdown, vars, indexVars, diskVars

LEMMA StopEffect ==
    ASSUME Shutdown \/ Crash \/ AssertFails
    PROVE  /\ nStatus' = [b \in Blocks |-> {}] /\ linked' = {} /\ candidates' = {} /\ unlinked' = {}
           /\ nSequenceId' = [b \in Blocks |-> 0]
           /\ tip' = None /\ coinsBest' = None /\ phase' = "down" /\ phase # "down"
           /\ diskCoins' \in {diskCoins, coinsBest} /\ diskIndex' \in {diskIndex, Written(nStatus, dirty)}
BY DEF Shutdown, Crash, AssertFails, MemoryLost

LEMMA RestartEffect ==
    ASSUME TypeInv, DiskInv, Restart, NEW chainTx, NEW all,
           chainTx = {b \in Blocks : \A a \in Ancestors[b] : "TX" \in diskIndex[a]},
           all = {b \in chainTx : IsValid(diskIndex, b)}
    PROVE  /\ nStatus' = diskIndex /\ linked' = chainTx /\ coinsBest' = diskCoins /\ tip' = diskCoins
           /\ unlinked' = {b \in Blocks \ {Genesis} : "TX" \in diskIndex[b] /\ Parent[b] \notin chainTx}
           /\ UNCHANGED <<diskIndex, diskCoins>>
           /\ threads' = [threads EXCEPT ![ImportThread] = AtLoop]
           /\ IF diskCoins # None
              THEN /\ diskCoins \in chainTx /\ nSequenceId' = nSequenceId
                   /\ candidates' = {c \in all : ~WorkLess(nSequenceId, c, diskCoins)}
                   /\ phase' = IF candidates' = {} THEN "assert" ELSE "running"
              ELSE /\ nSequenceId' = [nSequenceId EXCEPT ![Genesis] = 1]
                   /\ candidates' = all \cup {Genesis} /\ phase' = "running"
<1>1. diskCoins # None => diskCoins \in Blocks /\ diskCoins \in chainTx
  BY TypeSplit DEF TypeInv, DiskOK, MaybeBlock, DiskInv, DiskCoinsIndexed
<1>2. diskCoins # None => diskIndex[diskCoins] # {}
  BY <1>1, SelfAncestor DEF DiskInv, DiskCoinsIndexed
<1> DEFINE left == PruneBlockIndexCandidates(all, nSequenceId, diskCoins)
<1>3. /\ nStatus' = diskIndex /\ linked' = chainTx /\ coinsBest' = diskCoins
      /\ unlinked' = {b \in Blocks \ {Genesis} : "TX" \in diskIndex[b] /\ Parent[b] \notin chainTx}
      /\ UNCHANGED <<diskIndex, diskCoins>>
      /\ threads' = [threads EXCEPT ![ImportThread] = AtLoop]
  BY DEF Restart, diskVars
<1>4. CASE diskCoins # None
  <2>1. /\ tip' = diskCoins /\ candidates' = left /\ nSequenceId' = nSequenceId
        /\ phase' = IF left = {} THEN "assert" ELSE "running"
    BY <1>2, <1>4, Zenon DEF Restart
  <2> QED BY <1>1, <1>3, <1>4, <2>1, Zenon DEF PruneBlockIndexCandidates
<1>5. CASE diskCoins = None
  <2>1. /\ tip' = None /\ candidates' = all \cup {Genesis} /\ phase' = "running"
        /\ nSequenceId' = [nSequenceId EXCEPT ![Genesis] = 1]
    BY <1>5, Zenon DEF Restart
  <2> QED BY <1>3, <1>5, <2>1, Zenon
<1> QED BY <1>4, <1>5, Zenon

\* All of the above together.
ChoiceInv == TypeInv /\ LinkedInv /\ DiskInv /\ GoodInv /\ StoredInv /\ TopInv

LEMMA ChoiceInit == Init => ChoiceInv
<1> SUFFICES ASSUME Init PROVE ChoiceInv
  OBVIOUS
<1>1. TypeInv /\ GoodInv
  BY GoodInit
<1>2. LinkedInv /\ DiskInv
  BY DiskInit
<1>3. StoredInv
  BY Zenon DEF Init, StoredInv, Stored
<1>4. TopInv
  <2>1. nSequenceId \in [Blocks -> Int] /\ linked = {Genesis} /\ candidates = {Genesis} /\ phase = "running"
    BY <1>1, TypeSplit, Zenon DEF Init, TypeInv, IndexOK, OrderOK
  <2>2. ~WorkLess(nSequenceId, Genesis, Genesis)
    BY <2>1, WorkOrder, TreeAssumption, Zenon
  <2> QED BY <2>1, <2>2 DEF TopInv, Topped
<1> QED BY <1>1, <1>2, <1>3, <1>4 DEF ChoiceInv

LEMMA ChoiceNext ==
    ~PruneMode /\ ~DiskMayFail /\ Commands \cap {"invalidate", "precious"} = {} /\ ChoiceInv /\ [Next]_vars => ChoiceInv'

<1>StoredWritten.
    ASSUME NEW st, NEW d, Stored(st), Stored(diskIndex) PROVE Stored(Written(st, d))
  BY <1>StoredWritten, Zenon DEF Stored, Written

<1>StoredNext.
    ASSUME ~PruneMode, ~DiskMayFail, "invalidate" \notin Commands,
           TypeInv, LinkedInv, DiskInv, NeverInvalidates, StoredInv, [Next]_vars
    PROVE  StoredInv'
  <2> USE <1>StoredNext
  <2>0. /\ Stored(nStatus) /\ Stored(diskIndex) /\ linked \cap unlinked = {} /\ coinsBest = tip
        /\ \A t \in Threads : threads[t].pc # "invalidate"
    BY DEF StoredInv, NeverInvalidates
  <2>1. ASSUME Stored(nStatus'), Writes PROVE Stored(nStatus)' /\ Stored(diskIndex)'
    <3>1. \A w : Stored(Written(nStatus', w))
      BY <2>0, <2>1, <1>StoredWritten
    <3>2. Stored(diskIndex')
      BY <2>0, <2>1, <3>1 DEF Writes
    <3> QED BY <2>1, <3>2 DEF Stored
  <2>9. ASSUME NEW flag, flag # "TX",
               \A x \in Blocks : nStatus'[x] = nStatus[x] \/ nStatus'[x] = nStatus[x] \cup {flag}
        PROVE  Stored(nStatus')
    <3>1. ASSUME NEW x \in Blocks, "TX" \in nStatus'[x] PROVE "DATA" \in nStatus'[x]
      <4>1. "TX" \in nStatus[x] /\ nStatus[x] \subseteq nStatus'[x]
        BY <2>9, <3>1
      <4> QED BY <2>0, <4>1 DEF Stored
    <3> QED BY <3>1 DEF Stored
  <2>2. ASSUME NEW b \in Blocks, NEW t, NEW fRequested,
               \/ ProcessNewBlockHeaders(b) \/ SkipBlock(t, b, fRequested) \/ RejectBlock(t, b, fRequested)
        PROVE  StoredInv'
    <3>1. UNCHANGED <<linked, unlinked, tip, coinsBest, diskIndex>>
      BY <2>2, HeaderEffect, Zenon
    <3>2. \A x \in Blocks : nStatus'[x] \in {nStatus[x], nStatus[x] \cup {"TREE"},
                                            nStatus[x] \cup {"TREE", "FAILED_VALID"}}
      BY <2>2, HeaderEffect, Zenon
    <3>4. Stored(nStatus')
      BY <2>0, <3>2 DEF Stored
    <3> QED BY <2>0, <3>1, <3>4 DEF StoredInv, Stored
  <2>3. ASSUME NEW b \in Blocks, NEW t, NEW fRequested, AcceptBlock(t, b, fRequested) PROVE StoredInv'
    <3>1. /\ "DATA" \notin nStatus[b] /\ LinkBlock(b) /\ UNCHANGED <<tip, coinsBest>>
          /\ unlinked' = UnlinkedAfter(b)
          /\ \A x \in Blocks :
                 nStatus'[x] = IF x = b THEN nStatus[b] \cup {"TREE", "TX", "DATA"} ELSE nStatus[x]
          /\ Writes
      BY <2>3, AcceptEffect, Zenon
    <3>2. Stored(nStatus')
      BY <2>0, <3>1, Zenon DEF Stored
    <3>3. linked' \cap unlinked' = {}
      <4>1. b \notin linked \cup unlinked
        BY <2>0, <3>1, LinkEffect, Zenon
      <4>2. CASE b = Genesis \/ Parent[b] \in linked
        <5>1. linked' = linked \cup NowLinked(b) /\ NowLinked(b) \subseteq unlinked \cup {b}
          BY <2>0, <3>1, <4>2, LinkEffect, Zenon
        <5>2. unlinked' = unlinked \ (NowLinked(b) \ {b})
          BY <3>1, <4>2, Zenon DEF UnlinkedAfter
        <5> QED BY <2>0, <4>1, <5>1, <5>2
      <4>3. CASE ~(b = Genesis \/ Parent[b] \in linked)
        <5>1. linked' = linked
          BY <2>0, <3>1, <4>3, LinkEffect, Zenon
        <5>2. unlinked' \subseteq unlinked \cup {b}
          BY <3>1 DEF UnlinkedAfter
        <5> QED BY <2>0, <4>1, <5>1, <5>2
      <4> QED BY <4>2, <4>3
    <3> QED BY <2>0, <2>1, <3>1, <3>2, <3>3, Zenon DEF StoredInv
  <2>4. ASSUME NEW t \in Threads, Step(t) PROVE StoredInv'
    <3>1. CASE FindMostWorkChain(t)
      <4>1. UNCHANGED <<linked, unlinked, tip, coinsBest, diskIndex>>
        <5>1. UNCHANGED unlinked
          BY <2>0, <3>1, FindStored, Zenon
        <5> QED BY <3>1, <5>1, Zenon DEF FindMostWorkChain, diskVars
      <4>2. \A x \in Blocks : nStatus'[x] = nStatus[x] \/ nStatus'[x] = nStatus[x] \cup {"FAILED_CHILD"}
        BY <2>0, <3>1, FindStored, Zenon
      <4>3. Stored(nStatus')
        BY <2>9, <4>2, Zenon
      <4> QED BY <2>0, <4>1, <4>3, Zenon DEF StoredInv, Stored
    <3>2. CASE ConnectInvalid(t)
      <4>1. UNCHANGED <<linked, unlinked, tip, coinsBest, diskIndex>>
        BY <3>2 DEF ConnectInvalid, diskVars
      <4>2. \A x \in Blocks : nStatus'[x] = nStatus[x] \/ nStatus'[x] = nStatus[x] \cup {"FAILED_VALID"}
        BY <3>2, TypeSplit DEF ConnectInvalid, TypeInv, IndexOK, Status
      <4>3. Stored(nStatus')
        BY <2>9, <4>2, Zenon
      <4> QED BY <2>0, <4>1, <4>3 DEF StoredInv, Stored
    <3>3. CASE ConnectTip(t)
      <4>0. PICK b : b = NextBlock(t)
        OBVIOUS
      <4>1. tip' = coinsBest'
        BY <3>3, Zenon DEF ConnectTip, FlushFails
      <4>2. UNCHANGED <<linked, unlinked>> /\ Writes
        BY <3>3, <4>0, ConnectEffect, Zenon
      <4>3. \A x \in Blocks : nStatus'[x] = nStatus[x] \/ nStatus'[x] = nStatus[x] \cup {"SCRIPTS"}
        BY <3>3, <4>0, ConnectEffect, Zenon
      <4>4. Stored(nStatus')
        BY <2>9, <4>3, Zenon
      <4> QED BY <2>0, <2>1, <4>1, <4>2, <4>4, Zenon DEF StoredInv
    <3>4. CASE StepDisconnect(t) \/ FinishActivate(t)
      <4>1. tip' = coinsBest' /\ UNCHANGED <<nStatus, linked, unlinked>> /\ Writes
        BY <2>0, <3>4, DisconnectEffect, FinishEffect, Zenon
      <4>2. Stored(nStatus')
        BY <2>0, <4>1
      <4> QED BY <2>0, <2>1, <4>1, <4>2 DEF StoredInv
    <3>5. CASE \/ ActivateBestChain(t) \/ LockMain(t) \/ BeginStep(t) \/ StepDone(t) \/ EndStep(t)
               \/ ConnectUnreadable(t) \/ CoinsElsewhere(t) \/ InvalidateDisconnect(t) \/ InvalidateFinish(t)
      <4>1. UNCHANGED <<nStatus, linked, unlinked, tip, coinsBest, diskIndex>>
        <5>1. phase \in {"running", "stopping"}
          BY <2>4 DEF Step
        <5> QED BY <2>0, <3>5, <5>1, ControlEffect, Zenon
      <4> QED BY <2>0, <4>1, Zenon DEF StoredInv, Stored
    <3> QED BY <2>4, <3>1, <3>2, <3>3, <3>4, <3>5 DEF Step
  <2>5. ASSUME NEW t \in Threads, NEW b \in Blocks,
               InvalidateBlock(t, b) \/ ResetBlockFailureFlags(t, b) \/ PreciousBlock(t, b)
        PROVE  StoredInv'
    <3>1. UNCHANGED <<linked, unlinked, tip, coinsBest, diskIndex>>
      BY <2>5, Zenon DEF InvalidateBlock, ResetBlockFailureFlags, PreciousBlock, diskVars
    <3>2. \A x \in Blocks : nStatus'[x] = nStatus[x] \/ nStatus'[x] = nStatus[x] \ FailedMask
      <4>1. ~InvalidateBlock(t, b)
        BY DEF InvalidateBlock, Command
      <4> QED BY <2>5, <4>1 DEF ResetBlockFailureFlags, PreciousBlock
    <3>3. Stored(nStatus')
      BY <2>0, <3>2, Zenon DEF Stored, FailedMask
    <3> QED BY <2>0, <3>1, <3>3, Zenon DEF StoredInv, Stored
  <2>6. CASE FlushCoins \/ PruneBlockFilesManual \/ StartShutdown \/ UNCHANGED vars
    <3>1. UNCHANGED <<nStatus, linked, unlinked, tip, coinsBest, diskIndex>>
      BY <2>6, ProcessEffect
    <3> QED BY <2>0, <3>1 DEF StoredInv, Stored
  <2>7. CASE Shutdown \/ Crash \/ AssertFails
    <3>1. /\ nStatus' = [b \in Blocks |-> {}] /\ linked' = {} /\ tip' = coinsBest'
          /\ diskIndex' \in {diskIndex, Written(nStatus, dirty)}
      BY <2>7, StopEffect
    <3>2. Stored(nStatus')
      BY <3>1 DEF Stored
    <3>3. Stored(diskIndex')
      BY <2>0, <3>1, <1>StoredWritten
    <3> QED BY <3>1, <3>2, <3>3, Zenon DEF StoredInv, Stored
  <2>8. CASE Restart
    <3> DEFINE chainTx == {b \in Blocks : \A a \in Ancestors[b] : "TX" \in diskIndex[a]}
    <3>1. /\ nStatus' = diskIndex /\ linked' = chainTx /\ tip' = coinsBest' /\ diskIndex' = diskIndex
          /\ unlinked' = {b \in Blocks \ {Genesis} : "TX" \in diskIndex[b] /\ Parent[b] \notin chainTx}
      BY <2>8, RestartEffect, Zenon
    <3>2. \A b \in chainTx \ {Genesis} : Parent[b] \in chainTx
      BY TreeAssumption
    <3>3. linked' \cap unlinked' = {}
      BY <3>1, <3>2, Zenon
    <3> QED BY <2>0, <3>1, <3>3, Zenon DEF StoredInv, Stored
  <2> QED BY <2>2, <2>3, <2>4, <2>5, <2>6, <2>7, <2>8, Zenon DEF Next, Operate

\* Candidates that are lost were not good, or a better one is left.
<1>ToppedStep.
    ASSUME Topped, UNCHANGED <<linked, nSequenceId>>, \A c \in candidates : Good(c) => c \in candidates'
    PROVE  Topped'
  BY <1>ToppedStep DEF Topped, WorkLess

<1>TopNext.
    ASSUME ~PruneMode, ~DiskMayFail, Commands \cap {"invalidate", "precious"} = {},
           TypeInv, LinkedInv, DiskInv, GoodInv, StoredInv, TopInv, [Next]_vars
    PROVE  TopInv'
  <2> USE <1>TopNext
  <2>0. /\ Stored(nStatus) /\ Stored(diskIndex) /\ linked \cap unlinked = {} /\ coinsBest = tip
        /\ Sound(nStatus) /\ Sound(diskIndex) /\ (tip # None => Good(tip)) /\ (diskCoins # None => Good(diskCoins))
        /\ \A t \in Threads : threads[t].pc # "invalidate"
        /\ phase # "assert" /\ Topped
    BY Zenon DEF StoredInv, GoodInv, NeverInvalidates, TopInv
  <2>1. /\ linked \subseteq Blocks /\ candidates \subseteq linked /\ nSequenceId \in [Blocks -> Int]
        /\ tip \in linked \cup {None}
    BY TypeSplit, Zenon DEF TypeInv, IndexOK, OrderOK, LinkedInv
  <2>2. ASSUME UNCHANGED <<linked, nSequenceId, candidates>> PROVE Topped'
    BY <2>0, <2>2, <1>ToppedStep, Zenon
  <2>3. ASSUME NEW b \in Blocks, NEW t, NEW fRequested,
               \/ ProcessNewBlockHeaders(b) \/ SkipBlock(t, b, fRequested) \/ RejectBlock(t, b, fRequested)
        PROVE  TopInv'
    <3>1. UNCHANGED <<linked, nSequenceId, candidates, phase>>
      BY <2>3, HeaderEffect, Zenon
    <3> QED BY <2>0, <2>2, <3>1, Zenon DEF TopInv
  <2>4. ASSUME NEW b \in Blocks, NEW t, NEW fRequested, AcceptBlock(t, b, fRequested) PROVE TopInv'
    <3>1. /\ "DATA" \notin nStatus[b] /\ LinkBlock(b) /\ UNCHANGED <<tip, phase>> /\ tip # None
      BY <2>4, AcceptEffect, Zenon DEF Serving
    <3>2. CASE UNCHANGED <<linked, nSequenceId, candidates>>
      BY <2>0, <2>2, <3>1, <3>2, Zenon DEF TopInv
    <3>3. CASE ~UNCHANGED <<linked, nSequenceId, candidates>>
      <4> DEFINE N == NowLinked(b)
      <4>1. /\ linked' = linked \cup N /\ linked \cap N = {}
            /\ \A x \in Blocks \ N : nSequenceId'[x] = nSequenceId[x]
            /\ candidates' = candidates \cup {x \in N : tip = None \/ ~WorkLess(nSequenceId', x, tip)}
        BY <2>0, <3>1, <3>3, LinkEffect, Zenon
      <4>2. N \subseteq Blocks
        BY DEF NowLinked
      <4>3. nSequenceId' \in [Blocks -> Int]
        BY TypeNext, TypeSplit DEF TypeInv, OrderOK
      <4> HIDE DEF N
      <4>4. ASSUME NEW x \in linked, NEW y \in linked
            PROVE  WorkLess(nSequenceId', x, y) <=> WorkLess(nSequenceId, x, y)
        <5>1. nSequenceId'[x] = nSequenceId[x] /\ nSequenceId'[y] = nSequenceId[y]
          BY <2>1, <4>1, Zenon
        <5> QED BY <5>1, SameOrder
      <4>5. ASSUME NEW x \in linked', Good(x)
            PROVE  \E c \in candidates' : Good(c) /\ ~WorkLess(nSequenceId', c, x)
        <5>1. CASE x \in linked
          <6>1. PICK c \in candidates : Good(c) /\ ~WorkLess(nSequenceId, c, x)
            BY <2>0, <4>5, <5>1, Zenon DEF Topped
          <6> QED BY <2>1, <4>1, <4>4, <5>1, <6>1
        <5>2. CASE x \in candidates'
          BY <2>1, <4>1, <4>2, <4>3, <4>5, <5>2, WorkOrder, Zenon
        <5>3. CASE x \in N /\ WorkLess(nSequenceId', x, tip)
          <6>1. PICK c \in candidates : Good(c) /\ ~WorkLess(nSequenceId, c, tip)
            BY <2>0, <2>1, <3>1, Zenon DEF Topped
          <6>2. ~WorkLess(nSequenceId', c, tip)
            BY <2>1, <3>1, <4>4, <6>1, Zenon
          <6>3. c \in Blocks /\ tip \in Blocks /\ x \in Blocks
            BY <2>1, <3>1, <4>2, <5>3, Zenon
          <6>4. ~WorkLess(nSequenceId', c, x)
            BY <4>3, <5>3, <6>2, <6>3, WorkOrder, Zenon
          <6> QED BY <4>1, <6>1, <6>4
        <5> QED BY <4>1, <5>1, <5>2, <5>3
      <4> QED BY <2>0, <3>1, <4>5, Zenon DEF TopInv, Topped
    <3> QED BY <3>2, <3>3
  <2>5. ASSUME NEW t \in Threads, Step(t) PROVE TopInv'
    <3>1. CASE FindMostWorkChain(t)
      <4>1. UNCHANGED <<linked, nSequenceId, phase>>
        BY <3>1, Zenon DEF FindMostWorkChain
      <4>2. ASSUME NEW c \in candidates, Good(c) PROVE c \in candidates'
        <5>1. CASE UNCHANGED candidates
          BY <5>1
        <5>2. CASE ~UNCHANGED candidates
          <6>1. PICK test \in linked, above \in SUBSET linked :
                  /\ Failed(nStatus, test) /\ \A x \in above : test \in Ancestors[x]
                  /\ candidates' = candidates \ (above \cup {test})
            BY <2>0, <3>1, <5>2, FindStored, Zenon
          <6>2. ~Good(test)
            BY <2>0, <2>1, <6>1, Zenon DEF Sound
          <6>3. c # test /\ c \notin above
            BY <2>1, <4>2, <6>1, <6>2, GoodBelow, Zenon
          <6> QED BY <6>1, <6>3, Zenon
        <5> QED BY <5>1, <5>2
      <4> QED BY <2>0, <4>1, <4>2, <1>ToppedStep, Zenon DEF TopInv
    <3>2. CASE ConnectInvalid(t)
      <4>1. /\ UNCHANGED <<linked, nSequenceId, phase>> /\ candidates' = candidates \ {NextBlock(t)}
            /\ NextBlock(t) \in BadConnect /\ CanConnect(t)
        BY <3>2 DEF ConnectInvalid
      <4>2. ~Good(NextBlock(t))
        BY <4>1, NextBlockType, SelfAncestor, Zenon DEF Good
      <4>3. \A c \in candidates : Good(c) => c \in candidates'
        BY <4>1, <4>2
      <4> QED BY <2>0, <4>1, <4>3, <1>ToppedStep, Zenon DEF TopInv
    <3>3. CASE ConnectTip(t)
      <4> DEFINE b == NextBlock(t)
      <4>1. /\ b \in linked /\ tip' = b /\ UNCHANGED <<linked, nSequenceId>>
            /\ candidates' = {c \in candidates : ~WorkLess(nSequenceId, c, b)}
            /\ phase' = IF candidates' = {} THEN "assert" ELSE phase
        BY <3>3, ConnectEffect, Zenon
      <4>2. Good(b)
        <5>1. GoodInv' /\ tip' = b /\ b # None
          BY <2>1, <4>1, GoodNext, TreeAssumption
        <5> QED BY <5>1, Zenon DEF GoodInv, Good
      <4> HIDE DEF b
      <4>3. PICK top \in candidates : Good(top) /\ ~WorkLess(nSequenceId, top, b)
        BY <2>0, <4>1, <4>2, Zenon DEF Topped
      <4>4. top \in candidates' /\ phase' # "assert"
        BY <2>0, <4>1, <4>3, Zenon
      <4>5. ASSUME NEW x \in linked, Good(x)
            PROVE  \E c \in candidates' : Good(c) /\ ~WorkLess(nSequenceId, c, x)
        <5>1. PICK c \in candidates : Good(c) /\ ~WorkLess(nSequenceId, c, x)
          BY <2>0, <4>5, Zenon DEF Topped
        <5>2. CASE ~WorkLess(nSequenceId, c, b)
          BY <4>1, <5>1, <5>2
        <5>3. CASE WorkLess(nSequenceId, c, b)
          <6>1. c \in Blocks /\ b \in Blocks /\ x \in Blocks /\ top \in Blocks
            BY <2>1, <4>1, Zenon
          <6>2. WorkLess(nSequenceId, c, top)
            BY <2>1, <4>3, <5>3, <6>1, WorkOrder
          <6>3. WorkLess(nSequenceId, x, top)
            BY <2>1, <5>1, <6>1, <6>2, WorkOrder, Zenon
          <6>4. ~WorkLess(nSequenceId, top, x)
            BY <2>1, <6>1, <6>3, WorkOrder, Zenon
          <6> QED BY <4>3, <4>4, <6>4
        <5> QED BY <5>2, <5>3
      <4> QED BY <4>1, <4>4, <4>5 DEF TopInv, Topped
    <3>4. CASE StepDisconnect(t) \/ FinishActivate(t)
      <4>1. UNCHANGED <<linked, nSequenceId, candidates, phase>>
        BY <2>0, <3>4, DisconnectEffect, FinishEffect, Zenon
      <4> QED BY <2>0, <2>2, <4>1 DEF TopInv
    <3>5. CASE \/ ActivateBestChain(t) \/ LockMain(t) \/ BeginStep(t) \/ StepDone(t) \/ EndStep(t)
               \/ ConnectUnreadable(t) \/ CoinsElsewhere(t) \/ InvalidateDisconnect(t) \/ InvalidateFinish(t)
      <4>1. phase \in {"running", "stopping"}
        BY <2>5 DEF Step
      <4>2. UNCHANGED <<linked, nSequenceId, candidates>> /\ phase' \in {"running", "stopping"}
        BY <2>0, <3>5, <4>1, ControlEffect, Zenon
      <4> QED BY <2>2, <4>2 DEF TopInv
    <3> QED BY <2>5, <3>1, <3>2, <3>3, <3>4, <3>5 DEF Step
  <2>6. ASSUME NEW t \in Threads, NEW b \in Blocks,
               InvalidateBlock(t, b) \/ ResetBlockFailureFlags(t, b) \/ PreciousBlock(t, b)
        PROVE  TopInv'
    <3>1. ~InvalidateBlock(t, b) /\ ~PreciousBlock(t, b)
      BY DEF InvalidateBlock, PreciousBlock, Command
    <3>2. /\ UNCHANGED <<linked, nSequenceId, phase>>
          /\ \A c \in candidates : c \in candidates'
      BY <2>6, <3>1, Zenon DEF ResetBlockFailureFlags, Command
    <3> QED BY <2>0, <3>2, <1>ToppedStep, Zenon DEF TopInv
  <2>7. CASE FlushCoins \/ PruneBlockFilesManual \/ StartShutdown \/ UNCHANGED vars
    <3>1. UNCHANGED <<linked, nSequenceId, candidates>> /\ phase' \in {phase, "stopping"}
      BY <2>7, ProcessEffect, Zenon
    <3> QED BY <2>0, <2>2, <3>1, Zenon DEF TopInv
  <2>8. CASE Shutdown \/ Crash \/ AssertFails
    <3>1. linked' = {} /\ phase' = "down"
      BY <2>8, StopEffect
    <3> QED BY <3>1 DEF TopInv, Topped
  <2>9. CASE Restart
    <3> DEFINE chainTx == {b \in Blocks : \A a \in Ancestors[b] : "TX" \in diskIndex[a]}
               all == {b \in chainTx : IsValid(diskIndex, b)}
    <3>1. /\ linked' = chainTx
          /\ IF diskCoins # None
             THEN /\ diskCoins \in chainTx /\ nSequenceId' = nSequenceId
                  /\ candidates' = {c \in all : ~WorkLess(nSequenceId, c, diskCoins)}
                  /\ phase' = IF candidates' = {} THEN "assert" ELSE "running"
             ELSE /\ nSequenceId' = [nSequenceId EXCEPT ![Genesis] = 1]
                  /\ candidates' = all \cup {Genesis} /\ phase' = "running"
      BY <2>9, RestartEffect, Zenon
    <3>2. nSequenceId' \in [Blocks -> Int]
      BY TypeNext, TypeSplit DEF TypeInv, OrderOK
    <3>3. ASSUME NEW x \in chainTx, Good(x) PROVE x \in all
      <4>1. x \in Blocks /\ "TX" \in diskIndex[x]
        BY SelfAncestor
      <4>2. ~Failed(diskIndex, x)
        BY <2>0, <3>3, <4>1, Zenon DEF Sound
      <4> QED BY <4>1, <4>2, Zenon DEF IsValid
    <3>4. chainTx \subseteq Blocks
      OBVIOUS
    <3> HIDE DEF chainTx, all
    <3>5. CASE diskCoins # None
      <4>1. Good(diskCoins) /\ diskCoins \in all
        BY <2>0, <3>1, <3>3, <3>5, Zenon
      <4>2. ~WorkLess(nSequenceId, diskCoins, diskCoins)
        BY <2>1, <3>1, <3>4, <3>5, WorkOrder, Zenon
      <4>3. diskCoins \in candidates' /\ phase' # "assert"
        BY <3>1, <3>5, <4>1, <4>2
      <4>4. ASSUME NEW x \in chainTx, Good(x)
            PROVE  \E c \in candidates' : Good(c) /\ ~WorkLess(nSequenceId, c, x)
        <5>1. CASE ~WorkLess(nSequenceId, x, diskCoins)
          <6>1. x \in candidates' /\ ~WorkLess(nSequenceId, x, x)
            BY <2>1, <3>1, <3>3, <3>4, <3>5, <4>4, <5>1, WorkOrder, Zenon
          <6> QED BY <4>4, <6>1
        <5>2. CASE WorkLess(nSequenceId, x, diskCoins)
          <6>1. ~WorkLess(nSequenceId, diskCoins, x)
            BY <2>1, <3>1, <3>4, <3>5, <5>2, WorkOrder, Zenon
          <6> QED BY <4>1, <4>3, <6>1, Zenon
        <5> QED BY <5>1, <5>2
      <4> QED BY <3>1, <3>5, <4>3, <4>4 DEF TopInv, Topped
    <3>6. CASE diskCoins = None
      <4>1. ASSUME NEW x \in linked', Good(x)
            PROVE  x \in candidates' /\ ~WorkLess(nSequenceId', x, x)
        BY <3>1, <3>2, <3>3, <3>4, <3>6, <4>1, WorkOrder
      <4> QED BY <3>1, <3>6, <4>1, Zenon DEF TopInv, Topped
    <3> QED BY <3>5, <3>6
  <2> QED BY <2>3, <2>4, <2>5, <2>6, <2>7, <2>8, <2>9, Zenon DEF Next, Operate

<1> SUFFICES ASSUME ~PruneMode, ~DiskMayFail, Commands \cap {"invalidate", "precious"} = {}, ChoiceInv, [Next]_vars
             PROVE  ChoiceInv'
  OBVIOUS
<1>1. "invalidate" \notin Commands
  OBVIOUS
<1>2. TypeInv' /\ LinkedInv' /\ DiskInv'
  BY TypeNext, DiskNext DEF ChoiceInv
<1>3. GoodInv'
  BY <1>1, GoodNext DEF ChoiceInv
<1>4. StoredInv'
  BY <1>1, <1>StoredNext DEF ChoiceInv, GoodInv
<1>5. TopInv'
  BY <1>TopNext DEF ChoiceInv
<1> QED BY <1>2, <1>3, <1>4, <1>5, Zenon DEF ChoiceInv

\* The assertion of PruneBlockIndexCandidates and those of ConnectBlock and
\* DisconnectBlock on the best block of the coins never fail on a node that does not
\* prune and whose disk works, with any threads, crashes and reconsiderblock: a good block
\* is only dropped from setBlockIndexCandidates when a better good one is left in it,
\* and the tip is always good.
THEOREM AssertionsHold ==
    ~PruneMode /\ ~DiskMayFail /\ Commands \cap {"invalidate", "precious"} = {} => (Spec => []NoAssertion)
<1> SUFFICES ASSUME ~PruneMode, ~DiskMayFail, Commands \cap {"invalidate", "precious"} = {}
             PROVE  Spec => []NoAssertion
  OBVIOUS
<1>1. ChoiceInv /\ [Next]_vars => ChoiceInv'
  BY ChoiceNext
<1>2. ChoiceInv => NoAssertion
  BY DEF ChoiceInv, TopInv, NoAssertion
<1> QED BY <1>1, <1>2, ChoiceInit, PTL DEF Spec
================================================================================
