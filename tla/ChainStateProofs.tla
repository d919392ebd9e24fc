---------------------------- MODULE ChainStateProofs ----------------------------
(***************************************************************************)
(* Theorems about ChainState for every tree of blocks, every set of        *)
(* threads and every number of commands and crashes: the types and the     *)
(* discipline of cs_main, what is on disk against what is in memory, and   *)
(* the coins against the tip.                                              *)
(***************************************************************************)
EXTENDS ChainState, TLAPS

Status == [Blocks -> SUBSET StatusFlags]
MaybeBlock == Blocks \cup {None}
Places == {"idle", "abc", "lock", "again", "relock", "flush"} \cup CriticalSection
Thread == [pc : Places, mostWork : MaybeBlock, oldTip : MaybeBlock, arg : MaybeBlock]

IndexOK == /\ nStatus \in Status
           /\ linked \subseteq Blocks /\ candidates \subseteq Blocks /\ unlinked \subseteq Blocks
           /\ dirty \subseteq Blocks
OrderOK == /\ nSequenceId \in [Blocks -> Int]
           /\ counters \in [next : Int, reverse : Int, lastPrecious : Int]
ChainOK == tip \in MaybeBlock /\ coinsBest \in MaybeBlock
DiskOK  == diskIndex \in Status /\ diskCoins \in MaybeBlock /\ coinsDue \in BOOLEAN
LockOK  == \A t \in Threads : csMain = t <=> threads[t].pc \in CriticalSection
ThreadOK == csMain \in Threads \cup {NoThread} /\ threads \in [Threads -> Thread] /\ LockOK
ProcessOK == /\ phase \in {"running", "stopping", "down", "assert"}
             /\ budget \in [commands : Nat, crashes : Nat]

\* A thread in ActivateBestChainStep has a target, and a node that is down holds nothing.
TargetOK == \A t \in Threads : threads[t].pc \in {"begin", "step"} => threads[t].mostWork \in Blocks
DownOK == phase = "down" => csMain = NoThread /\ dirty = {} /\ \A t \in Threads : threads[t] = Idle
TypeInv == TypeOK /\ TargetOK /\ DownOK

LEMMA TypeSplit ==
    /\ TypeOK <=> IndexOK /\ OrderOK /\ ChainOK /\ DiskOK /\ ThreadOK /\ ProcessOK
    /\ TypeOK' <=> (IndexOK /\ OrderOK /\ ChainOK /\ DiskOK /\ ThreadOK /\ ProcessOK)'
BY DEF TypeOK, IndexOK, OrderOK, ChainOK, DiskOK, ThreadOK, LockOK, ProcessOK, Status, MaybeBlock,
       Places, Thread

----------------------------------------------------------------------------
(* Trees.                                                                  *)

LEMMA SelfAncestor == \A b \in Blocks : b \in Ancestors[b] /\ Ancestors[b] \subseteq Blocks
BY TreeAssumption

LEMMA BelowType == \A b \in Blocks : Below(b) \in MaybeBlock /\ Below(b) \in Ancestors[b] \cup {None}
BY TreeAssumption, SelfAncestor DEF Below, MaybeBlock

\* The next block of a step towards mw is part of the chain of mw.
LEMMA TowardsType ==
    ASSUME NEW mw \in Blocks, NEW from, from = None \/ from \in Ancestors[mw] \ {mw}
    PROVE  Towards(from, mw) \in Ancestors[mw]
<1>1. \E x \in Ancestors[mw] : Below(x) = from
  <2>1. CASE from = None
    BY <2>1, TreeAssumption, SelfAncestor DEF Below
  <2>2. CASE from # None
    BY <2>2, TreeAssumption, SelfAncestor DEF Below
  <2> QED BY <2>1, <2>2
<1> QED BY <1>1 DEF Towards

----------------------------------------------------------------------------
(* What the helpers return.                                                *)

LEMMA GoType ==
    ASSUME threads \in [Threads -> Thread], NEW t \in Threads, NEW pc \in Places, NEW mw \in MaybeBlock
    PROVE  /\ Go(t, pc, mw) \in [Threads -> Thread]
           /\ Go(t, pc, mw)[t].pc = pc /\ Go(t, pc, mw)[t].mostWork = mw
           /\ \A u \in Threads \ {t} : Go(t, pc, mw)[u] = threads[u]
BY DEF Go, Thread

LEMMA IdleType == Idle \in Thread /\ AtLoop \in Thread /\ Idle.pc = "idle" /\ AtLoop.pc = "abc"
                  /\ Idle.mostWork = None /\ AtLoop.mostWork = None
BY DEF Idle, AtLoop, Thread, Places, MaybeBlock

LEMMA InitType == Init => TypeOK
<1> SUFFICES ASSUME Init PROVE IndexOK /\ OrderOK /\ ChainOK /\ DiskOK /\ ThreadOK /\ ProcessOK
  BY TypeSplit
<1>1. nStatus \in Status
  BY DEF Init, Status, StatusFlags
<1>2. IndexOK /\ DiskOK /\ ChainOK
  BY <1>1, TreeAssumption, Zenon DEF Init, IndexOK, DiskOK, ChainOK, MaybeBlock
<1>3. OrderOK
  BY DEF Init, OrderOK
<1>4. ThreadOK
  BY ProcessAssumption, IdleType DEF Init, ThreadOK, LockOK, CriticalSection
<1>5. ProcessOK
  BY DEF Init, ProcessOK
<1> QED BY <1>2, <1>3, <1>4, <1>5

----------------------------------------------------------------------------
(* Every action keeps the types.                                           *)

LEMMA NextBlockType ==
    ASSUME TypeInv, NEW t \in Threads, CanConnect(t)
    PROVE  /\ NextBlock(t) \in Ancestors[threads[t].mostWork] /\ NextBlock(t) \in Blocks
           /\ csMain = t /\ threads[t] \in Thread
<1>1. threads[t].mostWork \in Blocks
  BY DEF CanConnect, TypeInv, TargetOK
<1>2. csMain = t /\ threads[t] \in Thread
  BY TypeSplit DEF CanConnect, TypeInv, ThreadOK, LockOK, CriticalSection
<1> QED BY <1>1, <1>2, TowardsType, SelfAncestor DEF CanConnect, NextBlock

LEMMA TypeNext == TypeInv /\ [Next]_vars => TypeInv'

<1>CountersType.
    ASSUME NEW n \in Int, NEW r \in Int, NEW w \in Int
    PROVE  [next |-> n, reverse |-> r, lastPrecious |-> w]
               \in [next : Int, reverse : Int, lastPrecious : Int]
  BY <1>CountersType

\* A flush keeps the types; what it writes is a status that was in memory.
<1>FlushType.
    ASSUME DiskOK, NEW st \in Status, NEW d \in SUBSET Blocks, NEW u \in SUBSET Blocks, NEW mode,
           FlushStateToDisk(st, d, u, mode)
    PROVE  /\ nStatus' \in Status /\ diskIndex' \in Status
           /\ dirty' \in SUBSET Blocks /\ unlinked' \in SUBSET u
           /\ coinsDue' \in BOOLEAN /\ diskCoins' = diskCoins
  <2> USE <1>FlushType
  <2> PICK F \in PruneChoices(st) :
          /\ nStatus' = Pruned(st, F)
          /\ unlinked' = u \ F
          /\ \/ /\ F = {}
                /\ dirty' = d /\ coinsDue' = FALSE
                /\ UNCHANGED diskIndex
             \/ /\ F # {} \/ mode # "none"
                /\ dirty' = {} /\ diskIndex' = Written(Pruned(st, F), d \cup F)
                /\ coinsDue' = TRUE
             \/ /\ F = {} /\ mode = "periodic"
                /\ dirty' = {} /\ diskIndex' = Written(st, d)
                /\ coinsDue' = FALSE
          /\ UNCHANGED diskCoins
    BY Zenon DEF FlushStateToDisk
  <2>1. Pruned(st, F) \in Status
    BY DEF Pruned, Status
  <2>2. Written(Pruned(st, F), d \cup F) \in Status /\ Written(st, d) \in Status
    BY <2>1 DEF Written, Status, DiskOK
  <2> QED BY <2>1, <2>2, Zenon DEF DiskOK

\* A thread moves and cs_main with it: the lock stays with the critical sections.
<1>MoveType.
    ASSUME ThreadOK, NEW t \in Threads, NEW r \in Thread,
           threads' = [threads EXCEPT ![t] = r],
           \/ csMain' = t /\ csMain \in {t, NoThread} /\ r.pc \in CriticalSection
           \/ csMain' = NoThread /\ csMain \in {t, NoThread} /\ r.pc \notin CriticalSection
           \/ csMain' = csMain /\ (csMain = t <=> r.pc \in CriticalSection)
    PROVE  ThreadOK'
  <2> USE <1>MoveType
  <2>1. threads' \in [Threads -> Thread] /\ \A u \in Threads : threads'[u] = IF u = t THEN r ELSE threads[u]
    BY DEF ThreadOK
  <2>2. csMain' \in Threads \cup {NoThread}
    BY DEF ThreadOK
  <2>3. LockOK'
    BY <2>1, ProcessAssumption DEF ThreadOK, LockOK
  <2> QED BY <2>1, <2>2, <2>3 DEF ThreadOK

<1>MoveTarget.
    ASSUME ThreadOK, TargetOK, NEW t \in Threads, NEW r \in Thread,
           threads' = [threads EXCEPT ![t] = r],
           r.pc \in {"begin", "step"} => r.mostWork \in Blocks
    PROVE  TargetOK'
  BY <1>MoveTarget DEF TargetOK, ThreadOK

<1>HeaderType.
    ASSUME IndexOK, NEW b \in Blocks
    PROVE  WithHeader(b) \in Status /\ HeaderDirty(b) \in SUBSET Blocks
  BY <1>HeaderType DEF IndexOK, WithHeader, HeaderDirty, Status, StatusFlags

<1>AbortType.
    ASSUME ThreadOK, ProcessOK, NEW t \in Threads, AbortNode(t), csMain \in {t, NoThread},
           budget' = budget
    PROVE  ThreadOK' /\ ProcessOK'
  <2> USE <1>AbortType
  <2>1. ThreadOK'
    BY <1>MoveType, IdleType, Zenon DEF AbortNode, CriticalSection
  <2> QED BY <2>1 DEF AbortNode, ProcessOK

<1>UndoType.
    ASSUME ThreadOK, ProcessOK, NEW t \in Threads, UndoUnreadable(t), csMain \in {t, NoThread},
           budget' = budget
    PROVE  ThreadOK' /\ ProcessOK'
  <2> USE <1>UndoType
  <2>1. PICK r \in {Idle, AtLoop} : threads' = [threads EXCEPT ![t] = r] /\ csMain' = NoThread
    BY Zenon DEF UndoUnreadable
  <2>2. r \in Thread /\ r.pc \notin CriticalSection
    BY <2>1, IdleType DEF CriticalSection
  <2>3. ThreadOK'
    BY <2>1, <2>2, <1>MoveType, Zenon
  <2> QED BY <2>3 DEF UndoUnreadable, ProcessOK

<1>ReceiveType.
    ASSUME TypeInv, NEW t \in Threads, NEW b \in Blocks, NEW fRequested \in BOOLEAN,
           \/ ProcessNewBlockHeaders(b)
           \/ SkipBlock(t, b, fRequested)
           \/ RejectBlock(t, b, fRequested)
    PROVE  TypeInv'
  <2> USE <1>ReceiveType
  <2> USE TypeSplit DEF TypeInv
  <2>1. OrderOK' /\ ChainOK' /\ DiskOK' /\ ProcessOK'
    BY DEF ProcessNewBlockHeaders, SkipBlock, RejectBlock, OrderOK, ChainOK, DiskOK, ProcessOK, diskVars
  <2>2. IndexOK'
    BY <1>HeaderType DEF ProcessNewBlockHeaders, SkipBlock, RejectBlock, IndexOK, Status, StatusFlags, FailedMask
  <2>3. ThreadOK' /\ TargetOK'
    <3>1. CASE ProcessNewBlockHeaders(b) \/ RejectBlock(t, b, fRequested)
      BY <3>1, Zenon DEF ProcessNewBlockHeaders, RejectBlock, ThreadOK, LockOK, TargetOK
    <3>2. CASE SkipBlock(t, b, fRequested)
      BY <3>2, <1>MoveType, <1>MoveTarget, IdleType, ProcessAssumption, Zenon DEF SkipBlock, Serving, CriticalSection
    <3> QED BY <3>1, <3>2
  <2>4. DownOK'
    BY Zenon DEF ProcessNewBlockHeaders, SkipBlock, RejectBlock, Serving, DownOK
  <2> QED BY <2>1, <2>2, <2>3, <2>4

\* ReceivedBlockTransactions.
<1>LinkType.
    ASSUME TypeOK, NEW b \in Blocks, LinkBlock(b)
    PROVE  /\ linked' \subseteq Blocks /\ candidates' \subseteq Blocks
           /\ OrderOK'
  <2> USE <1>LinkType
  <2> USE TypeSplit
  <2>1. CASE b = Genesis \/ Parent[b] \in linked
    <3> PICK f \in QueueOrders(NowLinked(b), counters.next) :
           /\ linked' = linked \cup DOMAIN f
           /\ nSequenceId' = [x \in Blocks |-> IF x \in DOMAIN f THEN f[x] ELSE nSequenceId[x]]
           /\ counters' = [counters EXCEPT !.next = @ + Cardinality(DOMAIN f)]
           /\ candidates' = candidates \cup
                  {x \in DOMAIN f : tip = None \/ ~WorkLess(nSequenceId', x, tip)}
      BY <2>1 DEF LinkBlock
    <3>1. NowLinked(b) \subseteq Blocks
      BY DEF NowLinked
    <3>3. Cardinality(NowLinked(b)) \in Nat
      BY <3>1, FiniteAssumption
    <3>4. counters.next \in Int
      BY DEF OrderOK
    <3>5. f \in [NowLinked(b) -> Int] /\ DOMAIN f = NowLinked(b)
      BY <3>3, <3>4 DEF QueueOrders
    <3>6. linked' \subseteq Blocks /\ candidates' \subseteq Blocks
      BY <3>1, <3>5 DEF IndexOK
    <3>7. nSequenceId' \in [Blocks -> Int]
      BY <3>5 DEF OrderOK
    <3>8. counters' \in [next : Int, reverse : Int, lastPrecious : Int]
      BY <3>3, <3>4, <3>5 DEF OrderOK
    <3> QED BY <3>6, <3>7, <3>8, Zenon DEF OrderOK
  <2>2. CASE ~(b = Genesis \/ Parent[b] \in linked)
    BY <2>2 DEF LinkBlock, IndexOK, OrderOK
  <2> QED BY <2>1, <2>2

<1>AcceptType.
    ASSUME TypeInv, NEW t \in Threads, NEW b \in Blocks, NEW fRequested \in BOOLEAN,
           AcceptBlock(t, b, fRequested)
    PROVE  TypeInv'
  <2> USE <1>AcceptType
  <2> USE TypeSplit DEF TypeInv
  <2> DEFINE st == [WithHeader(b) EXCEPT ![b] = @ \cup {"TX", "DATA"}]
  <2>1. st \in Status
    BY <1>HeaderType DEF Status, StatusFlags
  <2>2. dirty \cup {b} \in SUBSET Blocks /\ UnlinkedAfter(b) \in SUBSET Blocks
    BY DEF IndexOK, UnlinkedAfter
  <2>3. FlushStateToDisk(st, dirty \cup {b}, UnlinkedAfter(b), "none") /\ LinkBlock(b)
    BY DEF AcceptBlock
  <2> HIDE DEF st
  <2>4. IndexOK' /\ OrderOK' /\ DiskOK'
    BY <2>1, <2>2, <2>3, <1>FlushType, <1>LinkType DEF IndexOK, DiskOK
  <2>5. ChainOK' /\ ProcessOK' /\ DownOK'
    BY DEF AcceptBlock, Serving, ChainOK, ProcessOK, DownOK
  <2>6. ThreadOK' /\ TargetOK'
    BY <1>MoveType, <1>MoveTarget, IdleType, ProcessAssumption, Zenon DEF AcceptBlock, Serving, CriticalSection
  <2> QED BY <2>4, <2>5, <2>6

<1>DisconnectType.
    ASSUME IndexOK, DiskOK, ChainOK, ThreadOK, ProcessOK, NEW t \in Threads, csMain = t,
           NEW st \in Status, NEW d \in SUBSET Blocks, tip # None, DisconnectTip(t, st, d),
           budget' = budget
    PROVE  /\ nStatus' \in Status /\ dirty' \subseteq Blocks /\ unlinked' \subseteq Blocks
           /\ DiskOK' /\ ChainOK' /\ ThreadOK' /\ ProcessOK'
  <2> USE <1>DisconnectType
  <2>1. Below(tip) \in MaybeBlock
    BY BelowType DEF ChainOK, MaybeBlock
  <2>2. CASE /\ AbortNode(t)
             /\ nStatus' = st /\ dirty' = d
             /\ UNCHANGED <<unlinked, tip, coinsBest, diskVars>>
    BY <2>2, <1>AbortType DEF IndexOK, DiskOK, ChainOK, diskVars
  <2>5. CASE /\ UndoUnreadable(t)
             /\ nStatus' = st /\ dirty' = d
             /\ UNCHANGED <<unlinked, tip, coinsBest, diskVars>>
    BY <2>5, <1>UndoType DEF IndexOK, DiskOK, ChainOK, diskVars
  <2>3. CASE /\ coinsBest' = Below(tip)
             /\ FlushStateToDisk(st, d, unlinked, "if_needed")
             /\ tip' = Below(tip)
             /\ UNCHANGED <<csMain, threads, phase>>
    <3>1. unlinked \in SUBSET Blocks
      BY DEF IndexOK
    <3>2. nStatus' \in Status /\ dirty' \subseteq Blocks /\ unlinked' \subseteq Blocks /\ DiskOK'
      BY <2>3, <3>1, <1>FlushType DEF DiskOK
    <3>3. ChainOK' /\ ThreadOK' /\ ProcessOK'
      BY <2>1, <2>3 DEF ChainOK, ThreadOK, LockOK, ProcessOK
    <3> QED BY <3>2, <3>3
  <2>4. CASE /\ coinsBest' = Below(tip)
             /\ FlushFails(st, unlinked) /\ AbortNode(t) /\ UNCHANGED tip
    BY <2>1, <2>4, <1>AbortType DEF FlushFails, IndexOK, DiskOK, ChainOK, diskVars
  <2> QED BY <2>2, <2>3, <2>4, <2>5, Zenon DEF DisconnectTip

\* The steps of a thread that change nothing but where it is.
<1>ControlType.
    ASSUME TypeInv, NEW t \in Threads, phase \in {"running", "stopping"},
           ActivateBestChain(t) \/ LockMain(t) \/ BeginStep(t) \/ StepDone(t) \/ EndStep(t)
    PROVE  TypeInv'
  <2> USE <1>ControlType
  <2> USE TypeSplit DEF TypeInv
  <2>1. /\ UNCHANGED <<indexVars, tip, coinsBest, dirty, diskVars, phase, budget>>
    BY DEF ActivateBestChain, LockMain, BeginStep, StepDone, EndStep
  <2>2. IndexOK' /\ OrderOK' /\ ChainOK' /\ DiskOK' /\ ProcessOK' /\ DownOK'
    BY <2>1, Zenon DEF IndexOK, OrderOK, ChainOK, DiskOK, ProcessOK, DownOK, indexVars, diskVars
  <2>3. /\ threads \in [Threads -> Thread] /\ threads[t] \in Thread
        /\ csMain \in Threads \cup {NoThread}
        /\ csMain = t <=> threads[t].pc \in CriticalSection
    BY DEF ThreadOK, LockOK
  <2>4. /\ threads[t].mostWork \in MaybeBlock /\ threads[t].oldTip \in MaybeBlock
        /\ threads[t].arg \in MaybeBlock /\ tip \in MaybeBlock /\ None \in MaybeBlock
    BY <2>3 DEF Thread, ChainOK, MaybeBlock
  <2>5. CASE ActivateBestChain(t)
    <3> DEFINE pc == IF phase = "stopping" THEN "flush"
                     ELSE IF threads[t].pc = "abc" THEN "lock" ELSE "relock"
               r == [pc |-> pc, mostWork |-> threads[t].mostWork, oldTip |-> threads[t].oldTip,
                     arg |-> threads[t].arg]
    <3>1. r \in Thread /\ r.pc \notin CriticalSection
      BY <2>4 DEF Thread, Places, CriticalSection
    <3>2. threads' = [threads EXCEPT ![t] = r] /\ csMain' = csMain /\ csMain # t
      BY <2>3, <2>5 DEF ActivateBestChain, Go, CriticalSection
    <3>3. r.pc \notin {"begin", "step"}
      BY <3>1 DEF CriticalSection
    <3> HIDE DEF r
    <3>4. ThreadOK' /\ TargetOK'
      BY <3>1, <3>2, <3>3, <1>MoveType, <1>MoveTarget, Zenon
    <3> QED BY <2>2, <3>4
  <2>6. CASE LockMain(t)
    <3> DEFINE pc == IF threads[t].mostWork = None THEN "find" ELSE "begin"
               r == [pc |-> pc, mostWork |-> threads[t].mostWork, oldTip |-> threads[t].oldTip,
                     arg |-> threads[t].arg]
    <3>1. r \in Thread /\ r.pc \in CriticalSection
      BY <2>4, Zenon DEF Thread, Places, CriticalSection
    <3>2. threads' = [threads EXCEPT ![t] = r] /\ csMain' = t /\ csMain = NoThread
      BY <2>6 DEF LockMain, Go
    <3>3. r.pc \in {"begin", "step"} => r.mostWork \in Blocks
      BY <2>4, Zenon DEF MaybeBlock
    <3> HIDE DEF r
    <3>4. ThreadOK' /\ TargetOK'
      BY <3>1, <3>2, <3>3, <1>MoveType, <1>MoveTarget, Zenon
    <3> QED BY <2>2, <3>4
  <2>7. CASE BeginStep(t)
    <3>1. csMain = t /\ threads[t].mostWork \in Blocks
      BY <2>3, <2>7 DEF BeginStep, CriticalSection, TargetOK
    <3>2. CASE threads[t].mostWork = tip
      <4>1. threads' = [threads EXCEPT ![t] = Idle] /\ csMain' = NoThread
        BY <2>7, <3>2 DEF BeginStep
      <4> QED BY <2>2, <3>1, <4>1, <1>MoveType, <1>MoveTarget, IdleType, Zenon DEF CriticalSection
    <3>3. CASE threads[t].mostWork # tip
      <4> DEFINE r == [pc |-> "step", mostWork |-> threads[t].mostWork, oldTip |-> tip, arg |-> None]
      <4>1. r \in Thread /\ r.pc \in CriticalSection /\ r.mostWork \in Blocks
        BY <2>4, <3>1 DEF Thread, Places, CriticalSection
      <4>2. threads' = [threads EXCEPT ![t] = r] /\ csMain' = t
        BY <2>7, <3>1, <3>3 DEF BeginStep
      <4> HIDE DEF r
      <4> QED BY <2>2, <3>1, <4>1, <4>2, <1>MoveType, <1>MoveTarget, Zenon
    <3> QED BY <3>2, <3>3
  <2>8. CASE StepDone(t)
    <3> DEFINE r == [pc |-> "end", mostWork |-> threads[t].mostWork, oldTip |-> threads[t].oldTip,
                     arg |-> threads[t].arg]
    <3>1. r \in Thread /\ r.pc \in CriticalSection /\ r.pc \notin {"begin", "step"}
      BY <2>4, Zenon DEF Thread, Places, CriticalSection
    <3>2. threads' = [threads EXCEPT ![t] = r] /\ csMain' = t /\ csMain = t
      BY <2>3, <2>8 DEF StepDone, Go, CriticalSection
    <3> HIDE DEF r
    <3> QED BY <2>2, <3>1, <3>2, <1>MoveType, <1>MoveTarget, Zenon
  <2>9. CASE EndStep(t)
    <3> DEFINE pc == IF tip = threads[t].mostWork THEN "flush" ELSE "again"
               r == [pc |-> pc, mostWork |-> threads[t].mostWork, oldTip |-> None, arg |-> None]
    <3>1. r \in Thread /\ r.pc \notin CriticalSection /\ r.pc \notin {"begin", "step"}
      BY <2>4, Zenon DEF Thread, Places, CriticalSection
    <3>2. threads' = [threads EXCEPT ![t] = r] /\ csMain' = NoThread /\ csMain = t
      BY <2>3, <2>9 DEF EndStep, CriticalSection
    <3> HIDE DEF r
    <3> QED BY <2>2, <3>1, <3>2, <1>MoveType, <1>MoveTarget, Zenon
  <2> QED BY <2>5, <2>6, <2>7, <2>8, <2>9

<1>FindType.
    ASSUME TypeInv, NEW t \in Threads, phase \in {"running", "stopping"}, FindMostWorkChain(t)
    PROVE  TypeInv'
  <2> USE <1>FindType
  <2> USE TypeSplit DEF TypeInv
  <2>1. OrderOK' /\ ChainOK' /\ DiskOK' /\ ProcessOK' /\ DownOK'
    BY DEF FindMostWorkChain, OrderOK, ChainOK, DiskOK, ProcessOK, DownOK, diskVars
  <2>2. linked' = linked /\ dirty' = dirty
    BY Zenon DEF FindMostWorkChain
  <2>3. csMain = t /\ threads \in [Threads -> Thread] /\ threads[t] \in Thread
    BY Zenon DEF FindMostWorkChain, ThreadOK, LockOK, CriticalSection
  <2>4. CASE candidates = {}
    <3>1. IndexOK'
      BY <2>2, <2>4 DEF FindMostWorkChain, IndexOK
    <3>2. threads' = [threads EXCEPT ![t] = Idle] /\ csMain' = NoThread
      BY <2>4 DEF FindMostWorkChain
    <3>3. ThreadOK' /\ TargetOK'
      BY <2>3, <3>2, <1>MoveType, <1>MoveTarget, IdleType, Zenon DEF CriticalSection
    <3> QED BY <2>1, <3>1, <3>3, Zenon
  <2>5. CASE candidates # {}
    <3> DEFINE test(c) == CHOOSE x \in Unusable(c) : \A y \in Unusable(c) : Height[y] <= Height[x]
               above(c) == {x \in Ancestors[c] : Height[x] > Height[test(c)]}
    <3>1. PICK c \in candidates :
            IF Unusable(c) = {}
            THEN /\ threads' = Go(t, "begin", c)
                 /\ UNCHANGED <<nStatus, candidates, unlinked, csMain>>
            ELSE /\ candidates' = candidates \ (above(c) \cup {test(c)})
                 /\ IF Failed(nStatus, test(c))
                    THEN /\ nStatus' = [b \in Blocks |-> IF b \in above(c)
                              THEN nStatus[b] \cup {"FAILED_CHILD"} ELSE nStatus[b]]
                         /\ UNCHANGED unlinked
                    ELSE unlinked' = unlinked \cup above(c) /\ UNCHANGED nStatus
                 /\ UNCHANGED <<threads, csMain>>
      BY <2>5, Zenon DEF FindMostWorkChain
    <3>2. c \in Blocks /\ above(c) \subseteq Blocks
      BY SelfAncestor DEF IndexOK
    <3> HIDE DEF above, test
    <3>3. CASE Unusable(c) = {}
      <4> DEFINE r == [pc |-> "begin", mostWork |-> c, oldTip |-> threads[t].oldTip, arg |-> threads[t].arg]
      <4>1. r \in Thread /\ r.pc \in CriticalSection /\ r.mostWork \in Blocks
        BY <2>3, <3>2 DEF Thread, Places, CriticalSection, MaybeBlock
      <4>2. threads' = [threads EXCEPT ![t] = r] /\ csMain' = t
        BY <2>3, <3>1, <3>3 DEF Go
      <4>3. IndexOK'
        BY <2>2, <3>1, <3>3 DEF IndexOK
      <4> HIDE DEF r
      <4>4. ThreadOK' /\ TargetOK'
        BY <2>3, <4>1, <4>2, <1>MoveType, <1>MoveTarget, Zenon
      <4> QED BY <2>1, <4>3, <4>4
    <3>4. CASE Unusable(c) # {}
      <4>1. threads' = threads /\ csMain' = csMain
        BY <3>1, <3>4
      <4>2. ThreadOK' /\ TargetOK'
        BY <4>1 DEF ThreadOK, LockOK, TargetOK
      <4>3. candidates' \subseteq Blocks /\ unlinked' \subseteq Blocks
        BY <3>1, <3>2, <3>4 DEF IndexOK
      <4>4. nStatus' \in Status
        BY <3>1, <3>2, <3>4 DEF IndexOK, Status, StatusFlags, FailedMask
      <4> QED BY <2>1, <2>2, <4>2, <4>3, <4>4 DEF IndexOK
    <3> QED BY <3>3, <3>4
  <2> QED BY <2>4, <2>5

<1>AbortTarget.
    ASSUME ThreadOK, TargetOK, NEW t \in Threads, AbortNode(t)
    PROVE  TargetOK' /\ DownOK'
  <2> USE <1>AbortTarget
  <2>1. TargetOK'
    BY <1>MoveTarget, IdleType, Zenon DEF AbortNode
  <2> QED BY <2>1 DEF AbortNode, DownOK

<1>UndoTarget.
    ASSUME ThreadOK, TargetOK, DownOK, NEW t \in Threads, UndoUnreadable(t), UNCHANGED budget,
           phase \in {"running", "stopping"}
    PROVE  TargetOK' /\ DownOK'
  <2> USE <1>UndoTarget
  <2>1. PICK r \in {Idle, AtLoop} : threads' = [threads EXCEPT ![t] = r]
    BY Zenon DEF UndoUnreadable
  <2>2. r \in Thread /\ r.pc \notin {"begin", "step"}
    BY <2>1, IdleType
  <2>3. TargetOK'
    BY <2>1, <2>2, <1>MoveTarget, Zenon
  <2> QED BY <2>3 DEF UndoUnreadable, DownOK

<1>ConnectType.
    ASSUME TypeInv, NEW t \in Threads, phase \in {"running", "stopping"},
           ConnectUnreadable(t) \/ ConnectInvalid(t) \/ CoinsElsewhere(t)
    PROVE  TypeInv'
  <2> USE <1>ConnectType
  <2> USE TypeSplit DEF TypeInv
  <2>1. CASE ConnectUnreadable(t)
    <3>1. AbortNode(t) /\ csMain = t /\ budget' = budget
      BY <2>1, NextBlockType DEF ConnectUnreadable
    <3>2. IndexOK' /\ OrderOK' /\ ChainOK' /\ DiskOK'
      BY <2>1, SMTT(30) DEF ConnectUnreadable, IndexOK, OrderOK, ChainOK, DiskOK, indexVars, diskVars
    <3> QED BY <3>1, <3>2, <1>AbortType, <1>AbortTarget
  <2>2. CASE ConnectInvalid(t)
    <3> DEFINE r == [pc |-> "end", mostWork |-> None, oldTip |-> threads[t].oldTip, arg |-> threads[t].arg]
    <3>1. csMain = t /\ threads[t] \in Thread /\ NextBlock(t) \in Blocks
      BY <2>2, NextBlockType, Zenon DEF ConnectInvalid
    <3>2. OrderOK' /\ ChainOK' /\ DiskOK' /\ ProcessOK' /\ DownOK'
      BY <2>2, Zenon DEF ConnectInvalid, OrderOK, ChainOK, DiskOK, ProcessOK, DownOK, diskVars
    <3>3. IndexOK'
      BY <2>2, <3>1, Zenon DEF ConnectInvalid, IndexOK, Status, StatusFlags, FailedMask
    <3>4. r \in Thread /\ r.pc \in CriticalSection /\ r.pc \notin {"begin", "step"}
      BY <3>1, Zenon DEF Thread, Places, CriticalSection, MaybeBlock
    <3>5. threads' = [threads EXCEPT ![t] = r] /\ csMain' = t
      <4>1. threads' = Go(t, "end", None) /\ csMain' = csMain
        BY <2>2, Zenon DEF ConnectInvalid
      <4> QED BY <3>1, <4>1, Zenon DEF Go
    <3> HIDE DEF r
    <3> QED BY <3>1, <3>2, <3>3, <3>4, <3>5, <1>MoveType, <1>MoveTarget, Zenon
  <2>3. CASE CoinsElsewhere(t)
    BY <2>3, Zenon DEF CoinsElsewhere, IndexOK, OrderOK, ChainOK, DiskOK, ThreadOK, LockOK, ProcessOK, TargetOK,
                DownOK, indexVars, diskVars
  <2> QED BY <2>1, <2>2, <2>3

<1>ConnectTipType.
    ASSUME TypeInv, NEW t \in Threads, phase \in {"running", "stopping"}, ConnectTip(t)
    PROVE  TypeInv'
  <2> USE <1>ConnectTipType
  <2> USE TypeSplit DEF TypeInv
  <2> DEFINE b == NextBlock(t)
             known == b = Genesis \/ ("SCRIPTS" \in nStatus[b] /\ ~Failed(nStatus, b))
             st == IF known \/ Failed(nStatus, b) THEN nStatus
                   ELSE [nStatus EXCEPT ![b] = @ \cup {"SCRIPTS"}]
             d == IF known THEN dirty ELSE dirty \cup {b}
             left == PruneBlockIndexCandidates(candidates, nSequenceId, b)
             old == threads[t].oldTip
             over == b = threads[t].mostWork \/ old = None \/ ChainWork[b] > ChainWork[old]
             pc == IF over THEN "end" ELSE "step"
             r == [pc |-> pc, mostWork |-> threads[t].mostWork, oldTip |-> threads[t].oldTip,
                   arg |-> threads[t].arg]
  <2>1. CanConnect(t) /\ coinsBest' = b /\ UNCHANGED <<linked, nSequenceId, counters, budget>>
    BY DEF ConnectTip
  <2>2. csMain = t /\ threads[t] \in Thread /\ b \in Blocks
    BY <2>1, NextBlockType
  <2>3. st \in Status
    BY <2>2 DEF IndexOK, Status, StatusFlags
  <2>4. d \in SUBSET Blocks /\ unlinked \in SUBSET Blocks
    BY <2>2, SMTT(30) DEF IndexOK
  <2>5. \/ /\ FlushStateToDisk(st, d, unlinked, "if_needed")
           /\ tip' = b
           /\ candidates' = left
           /\ phase' = IF left = {} THEN "assert" ELSE phase
           /\ threads' = [threads EXCEPT ![t] = r]
           /\ UNCHANGED csMain
        \/ FlushFails(st, unlinked) /\ AbortNode(t) /\ UNCHANGED <<tip, candidates>>
    BY Zenon DEF ConnectTip, Go
  <2>6. left \subseteq Blocks
    BY SMTT(30) DEF PruneBlockIndexCandidates, IndexOK
  <2>7. r \in Thread /\ r.pc \in CriticalSection /\ (r.pc \in {"begin", "step"} => r.mostWork \in Blocks)
    BY <2>1, <2>2, Zenon DEF Thread, Places, CriticalSection, TargetOK, CanConnect
  <2>8. OrderOK'
    BY <2>1 DEF OrderOK
  <2> HIDE DEF b, st, d, left, r
  <2>9. CASE /\ FlushStateToDisk(st, d, unlinked, "if_needed")
             /\ tip' = b
             /\ candidates' = left
             /\ phase' = IF left = {} THEN "assert" ELSE phase
             /\ threads' = [threads EXCEPT ![t] = r]
             /\ UNCHANGED csMain
    <3>1. IndexOK' /\ DiskOK'
      BY <2>1, <2>3, <2>4, <2>6, <2>9, <1>FlushType DEF IndexOK, DiskOK
    <3>2. ChainOK' /\ ProcessOK' /\ DownOK'
      BY <2>1, <2>2, <2>9 DEF ChainOK, ProcessOK, DownOK, MaybeBlock
    <3>3. ThreadOK' /\ TargetOK'
      BY <2>2, <2>7, <2>9, <1>MoveType, <1>MoveTarget, Zenon
    <3> QED BY <2>8, <3>1, <3>2, <3>3
  <2>10. CASE FlushFails(st, unlinked) /\ AbortNode(t) /\ UNCHANGED <<tip, candidates>>
    <3>1. IndexOK' /\ DiskOK' /\ ChainOK'
      BY <2>1, <2>2, <2>3, <2>10, Zenon DEF FlushFails, IndexOK, DiskOK, ChainOK, diskVars, MaybeBlock
    <3> QED BY <2>1, <2>2, <2>8, <2>10, <3>1, <1>AbortType, <1>AbortTarget
  <2> QED BY <2>5, <2>9, <2>10

<1>StepDisconnectType.
    ASSUME TypeInv, NEW t \in Threads, phase \in {"running", "stopping"},
           StepDisconnect(t) \/ InvalidateDisconnect(t)
    PROVE  TypeInv'
  <2> USE <1>StepDisconnectType
  <2> USE TypeSplit DEF TypeInv
  <2>1. /\ csMain = t /\ tip \in Blocks /\ tip # None
        /\ UNCHANGED <<linked, nSequenceId, counters, budget>> /\ candidates' \subseteq candidates
    BY TreeAssumption, Zenon DEF StepDisconnect, InvalidateDisconnect, ThreadOK, LockOK, CriticalSection, ChainOK,
       MaybeBlock, Active
  <2>2. PICK st \in Status, d \in SUBSET Blocks : DisconnectTip(t, st, d)
    <3>1. CASE StepDisconnect(t)
      BY <3>1 DEF StepDisconnect, IndexOK
    <3>2. CASE InvalidateDisconnect(t)
      <4>1. [nStatus EXCEPT ![tip] = @ \cup {"FAILED_CHILD"}] \in Status
        BY <2>1 DEF IndexOK, Status, StatusFlags, FailedMask
      <4>2. dirty \cup {tip} \in SUBSET Blocks
        BY <2>1 DEF IndexOK
      <4> QED BY <3>2, <4>1, <4>2, Zenon DEF InvalidateDisconnect
    <3> QED BY <3>1, <3>2
  <2>3. /\ nStatus' \in Status /\ dirty' \subseteq Blocks /\ unlinked' \subseteq Blocks
        /\ DiskOK' /\ ChainOK' /\ ThreadOK' /\ ProcessOK'
    BY <2>1, <2>2, <1>DisconnectType
  <2>4. IndexOK' /\ OrderOK'
    BY <2>1, <2>3, SMTT(30) DEF IndexOK, OrderOK
  <2>5. UNCHANGED <<threads, phase>> \/ AbortNode(t) \/ UndoUnreadable(t)
    BY <2>2, Zenon DEF DisconnectTip
  <2>6. TargetOK' /\ DownOK'
    BY <2>1, <2>5, <1>AbortTarget, <1>UndoTarget, Zenon DEF TargetOK, DownOK
  <2> QED BY <2>3, <2>4, <2>6, SMTT(30)

<1>FinishType.
    ASSUME TypeInv, NEW t \in Threads, phase \in {"running", "stopping"},
           FinishActivate(t) \/ InvalidateFinish(t)
    PROVE  TypeInv'
  <2> USE <1>FinishType
  <2> USE TypeSplit DEF TypeInv
  <2>1. CASE FinishActivate(t)
    <3>1. csMain = NoThread /\ UNCHANGED <<linked, nSequenceId, counters, candidates, tip, coinsBest, budget>>
      BY <2>1 DEF FinishActivate
    <3>2. OrderOK' /\ ChainOK'
      BY <3>1 DEF OrderOK, ChainOK
    <3>3. nStatus \in Status /\ dirty \in SUBSET Blocks /\ unlinked \in SUBSET Blocks
      BY DEF IndexOK
    <3>4. CASE /\ FlushStateToDisk(nStatus, dirty, unlinked, "periodic")
               /\ threads' = [threads EXCEPT ![t] = Idle]
               /\ UNCHANGED <<csMain, phase>>
      <4>1. IndexOK' /\ DiskOK'
        BY <3>1, <3>3, <3>4, <1>FlushType DEF IndexOK, DiskOK
      <4>2. ProcessOK' /\ DownOK'
        BY <3>1, <3>4 DEF ProcessOK, DownOK
      <4>3. ThreadOK' /\ TargetOK'
        BY <3>1, <3>4, <1>MoveType, <1>MoveTarget, IdleType, ProcessAssumption, Zenon DEF CriticalSection
      <4> QED BY <3>2, <4>1, <4>2, <4>3
    <3>5. CASE FlushFails(nStatus, unlinked) /\ AbortNode(t)
      <4>1. IndexOK' /\ DiskOK'
        BY <3>1, <3>5 DEF FlushFails, IndexOK, DiskOK, diskVars
      <4> QED BY <3>1, <3>2, <3>5, <4>1, <1>AbortType, <1>AbortTarget
    <3> QED BY <2>1, <3>4, <3>5 DEF FinishActivate
  <2>2. CASE InvalidateFinish(t)
    <3>1. IndexOK' /\ OrderOK' /\ ChainOK' /\ DiskOK' /\ ProcessOK' /\ DownOK'
      BY <2>2, Zenon DEF InvalidateFinish, IndexOK, OrderOK, ChainOK, DiskOK, ProcessOK, DownOK, diskVars
    <3>2. csMain = t /\ threads' = [threads EXCEPT ![t] = AtLoop] /\ csMain' = NoThread
      BY <2>2 DEF InvalidateFinish, ThreadOK, LockOK, CriticalSection
    <3>3. ThreadOK' /\ TargetOK'
      BY <3>2, <1>MoveType, <1>MoveTarget, IdleType, Zenon DEF CriticalSection
    <3> QED BY <3>1, <3>3, SMTT(30)
  <2> QED BY <2>1, <2>2

<1>CommandType.
    ASSUME TypeInv, NEW t \in Threads, NEW b \in Blocks,
           InvalidateBlock(t, b) \/ ResetBlockFailureFlags(t, b) \/ PreciousBlock(t, b)
    PROVE  TypeInv'
  <2> USE <1>CommandType
  <2> USE TypeSplit DEF TypeInv
  <2>1. /\ csMain = NoThread /\ phase \in {"running", "stopping"} /\ tip \in Blocks
        /\ ProcessOK' /\ phase' # "down"
        /\ UNCHANGED <<linked, unlinked, tip, coinsBest, diskVars>>
    <3>1. /\ csMain = NoThread /\ phase \in {"running", "stopping"} /\ tip # None
          /\ budget' = [budget EXCEPT !.commands = @ + 1]
      BY Zenon DEF InvalidateBlock, ResetBlockFailureFlags, PreciousBlock, Command, Serving
    <3>2. /\ phase' \in {phase, "assert"}
          /\ UNCHANGED <<linked, unlinked, tip, coinsBest, diskVars>>
      BY Zenon DEF InvalidateBlock, ResetBlockFailureFlags, PreciousBlock
    <3>3. ProcessOK' /\ phase' # "down"
      BY <3>1, <3>2, SMTT(20) DEF ProcessOK
    <3> QED BY <3>1, <3>2, <3>3 DEF ChainOK, MaybeBlock
  <2>2. ChainOK' /\ DiskOK' /\ DownOK'
    BY <2>1, Zenon DEF ChainOK, DiskOK, DownOK, diskVars
  <2>3. CASE InvalidateBlock(t, b)
    <3> DEFINE r == [pc |-> "invalidate", mostWork |-> None, oldTip |-> None, arg |-> b]
    <3>1. r \in Thread /\ r.pc \in CriticalSection /\ r.pc \notin {"begin", "step"}
      BY DEF Thread, Places, CriticalSection, MaybeBlock
    <3>2. threads' = [threads EXCEPT ![t] = r] /\ csMain' = t
      BY <2>3 DEF InvalidateBlock
    <3> HIDE DEF r
    <3>3. ThreadOK' /\ TargetOK'
      BY <2>1, <3>1, <3>2, <1>MoveType, <1>MoveTarget, Zenon
    <3>4. IndexOK' /\ OrderOK'
      BY <2>1, <2>3, Zenon DEF InvalidateBlock, IndexOK, OrderOK, Status, StatusFlags, FailedMask
    <3> QED BY <2>1, <2>2, <3>3, <3>4
  <2>4. ASSUME ResetBlockFailureFlags(t, b) \/ PreciousBlock(t, b)
        PROVE  ThreadOK' /\ TargetOK'
    <3>1. threads' = [threads EXCEPT ![t] = AtLoop] /\ csMain' = NoThread
      BY <2>1, <2>4, Zenon DEF ResetBlockFailureFlags, PreciousBlock
    <3> QED BY <2>1, <3>1, <1>MoveType, <1>MoveTarget, IdleType, Zenon DEF CriticalSection
  <2>5. CASE ResetBlockFailureFlags(t, b)
    <3>1. nStatus' \in Status
      BY <2>5, Zenon DEF ResetBlockFailureFlags, IndexOK, Status
    <3>2. dirty' \subseteq Blocks /\ candidates' \subseteq Blocks
      BY <2>5, SelfAncestor, Zenon DEF ResetBlockFailureFlags, IndexOK
    <3>3. IndexOK' /\ OrderOK'
      BY <2>1, <2>5, <3>1, <3>2, Zenon DEF ResetBlockFailureFlags, IndexOK, OrderOK
    <3> QED BY <2>1, <2>2, <2>4, <2>5, <3>3
  <2>6. CASE PreciousBlock(t, b)
    <3>1. IndexOK'
      BY <2>1, <2>6, SMTT(30) DEF PreciousBlock, PruneBlockIndexCandidates, IndexOK
    <3> DEFINE rev == IF ChainWork[tip] > counters.lastPrecious THEN -1 ELSE counters.reverse
    <3>2. rev \in Int /\ ChainWork[tip] \in Int /\ counters.next \in Int
      <4>1. counters.reverse \in Int /\ counters.next \in Int
        BY DEF OrderOK
      <4>2. ChainWork[tip] \in Nat
        BY <2>1, OrderAssumption, Zenon
      <4> QED BY <4>1, <4>2
    <3>3. /\ nSequenceId' = [nSequenceId EXCEPT ![b] = rev]
          /\ counters' = [counters EXCEPT !.reverse = rev - 1, !.lastPrecious = ChainWork[tip]]
      BY <2>6 DEF PreciousBlock
    <3> HIDE DEF rev
    <3>4. nSequenceId' \in [Blocks -> Int]
      BY <3>2, <3>3 DEF OrderOK
    <3>5. counters' = [next |-> counters.next, reverse |-> rev - 1, lastPrecious |-> ChainWork[tip]]
      BY <3>3, Zenon DEF OrderOK
    <3>6. rev - 1 \in Int
      BY <3>2
    <3>7. OrderOK'
      BY <3>2, <3>4, <3>5, <3>6, <1>CountersType, Zenon DEF OrderOK
    <3> QED BY <2>1, <2>2, <2>4, <2>6, <3>1, <3>7
  <2> QED BY <2>3, <2>5, <2>6

<1>ProcessType.
    ASSUME TypeInv,
           FlushCoins \/ PruneBlockFilesManual \/ StartShutdown \/ Shutdown \/ Crash \/ AssertFails
    PROVE  TypeInv'
  <2> USE <1>ProcessType
  <2> USE TypeSplit DEF TypeInv
  <2>1. CASE FlushCoins \/ StartShutdown
    BY <2>1, Zenon DEF FlushCoins, StartShutdown, IndexOK, OrderOK, ChainOK, DiskOK, ThreadOK, LockOK, ProcessOK,
                TargetOK, DownOK, indexVars, diskVars
  <2>2. CASE PruneBlockFilesManual
    <3>1. nStatus \in Status /\ dirty \in SUBSET Blocks /\ unlinked \in SUBSET Blocks
      BY DEF IndexOK
    <3>2. FlushStateToDisk(nStatus, dirty, unlinked, "none")
      BY <2>2, Zenon DEF PruneBlockFilesManual
    <3>3. IndexOK' /\ DiskOK'
      BY <2>2, <3>1, <3>2, <1>FlushType DEF PruneBlockFilesManual, IndexOK, DiskOK
    <3> QED BY <2>2, <3>3, Zenon DEF PruneBlockFilesManual, Serving, OrderOK, ChainOK, ThreadOK, LockOK,
                              ProcessOK, TargetOK, DownOK
  <2>3. CASE Shutdown \/ Crash \/ AssertFails
    <3>1. MemoryLost
      BY <2>3 DEF Shutdown, Crash, AssertFails
    <3>2. IndexOK' /\ OrderOK' /\ ChainOK'
      <4>1. IndexOK'
        BY <3>1 DEF MemoryLost, IndexOK, Status
      <4>2. OrderOK'
        BY <3>1 DEF MemoryLost, OrderOK
      <4>3. ChainOK'
        BY <3>1 DEF MemoryLost, ChainOK, MaybeBlock
      <4> QED BY <4>1, <4>2, <4>3
    <3>3. ThreadOK' /\ TargetOK' /\ DownOK'
      BY <3>1, IdleType, ProcessAssumption, Zenon
         DEF MemoryLost, ThreadOK, LockOK, TargetOK, DownOK, CriticalSection
    <3>4. Written(nStatus, dirty) \in Status
      BY DEF Written, IndexOK, DiskOK, Status
    <3>5. DiskOK'
      BY <2>3, <3>1, <3>4, Zenon DEF Shutdown, Crash, AssertFails, MemoryLost, DiskOK, ChainOK
    <3>6. ProcessOK'
      <4>1. budget' = budget \/ budget' = [budget EXCEPT !.crashes = @ + 1]
        BY <2>3, Zenon DEF Shutdown, Crash, AssertFails
      <4>2. phase' = "down"
        BY <3>1, Zenon DEF MemoryLost
      <4> QED BY <4>1, <4>2 DEF ProcessOK
    <3> QED BY <3>2, <3>3, <3>5, <3>6
  <2> QED BY <2>1, <2>2, <2>3

<1>RestartType. ASSUME TypeInv, Restart PROVE TypeInv'
  <2> USE <1>RestartType
  <2> USE TypeSplit DEF TypeInv
  <2>1. csMain = NoThread /\ csMain' = NoThread /\ threads' = [threads EXCEPT ![ImportThread] = AtLoop]
    BY DEF Restart, DownOK
  <2>2. ThreadOK' /\ TargetOK'
    BY <2>1, <1>MoveType, <1>MoveTarget, IdleType, ProcessAssumption, Zenon DEF CriticalSection
  <2>3. /\ nStatus' \in Status /\ linked' \subseteq Blocks /\ unlinked' \subseteq Blocks
        /\ dirty' \subseteq Blocks
    BY DEF Restart, DiskOK, IndexOK
  <2>4. candidates' \subseteq Blocks
    BY TreeAssumption DEF Restart, PruneBlockIndexCandidates
  <2>5. OrderOK'
    <3>1. CASE UNCHANGED <<nSequenceId, counters>>
      BY <3>1 DEF OrderOK
    <3>2. CASE nSequenceId' = [nSequenceId EXCEPT ![Genesis] = 1] /\ counters' = [counters EXCEPT !.next = 2]
      <4>1. nSequenceId' \in [Blocks -> Int]
        <5>1. nSequenceId' = [nSequenceId EXCEPT ![Genesis] = 1]
          BY <3>2, Zenon
        <5>2. nSequenceId \in [Blocks -> Int] /\ Genesis \in Blocks
          BY TreeAssumption DEF OrderOK
        <5> QED BY <5>1, <5>2
      <4>2. counters' = [next |-> 2, reverse |-> counters.reverse, lastPrecious |-> counters.lastPrecious]
        BY <3>2 DEF OrderOK
      <4>3. counters.reverse \in Int /\ counters.lastPrecious \in Int
        BY DEF OrderOK
      <4> QED BY <4>1, <4>2, <4>3 DEF OrderOK
    <3> QED BY <3>1, <3>2 DEF Restart
  <2>6. ChainOK' /\ DiskOK'
    BY DEF Restart, ChainOK, DiskOK, MaybeBlock, diskVars
  <2>7. ProcessOK' /\ DownOK'
    BY DEF Restart, ProcessOK, DownOK
  <2> QED BY <2>2, <2>3, <2>4, <2>5, <2>6, <2>7 DEF IndexOK

<1> SUFFICES ASSUME TypeInv, [Next]_vars PROVE TypeInv'
  OBVIOUS
<1>1. ASSUME NEW t \in Threads, Step(t) PROVE TypeInv'
  BY <1>1, <1>ControlType, <1>FindType, <1>ConnectType, <1>ConnectTipType, <1>StepDisconnectType, <1>FinishType DEF Step
<1>2. ASSUME NEW b \in Blocks, ProcessNewBlockHeaders(b) PROVE TypeInv'
  <2>1. \E t \in Threads, r \in BOOLEAN : TRUE
    BY ProcessAssumption
  <2> QED BY <1>2, <2>1, <1>ReceiveType
<1>3. ASSUME NEW t \in Threads, NEW b \in Blocks, NEW fRequested \in BOOLEAN,
             \/ SkipBlock(t, b, fRequested)
             \/ RejectBlock(t, b, fRequested)
             \/ AcceptBlock(t, b, fRequested)
      PROVE  TypeInv'
  BY <1>3, <1>ReceiveType, <1>AcceptType
<1>4. ASSUME NEW t \in Threads, NEW b \in Blocks,
             InvalidateBlock(t, b) \/ ResetBlockFailureFlags(t, b) \/ PreciousBlock(t, b)
      PROVE  TypeInv'
  BY <1>4, <1>CommandType, SMTT(30)
<1>5. CASE UNCHANGED vars
  BY <1>5, TypeSplit, Zenon DEF TypeInv, IndexOK, OrderOK, ChainOK, DiskOK, ThreadOK, LockOK, ProcessOK, TargetOK,
                         DownOK, vars, indexVars, diskVars
<1> QED BY <1>1, <1>2, <1>3, <1>4, <1>5, <1>ProcessType, <1>RestartType DEF Next, Operate

\* Whatever the tree, the number of threads and the commands, the types hold and
\* cs_main is held exactly by the thread in a critical section (LOCK(cs_main) in
\* ActivateBestChain and invalidateblock): no step of one thread runs inside
\* ActivateBestChainStep or InvalidateBlock of another.
THEOREM TypeCorrect == Spec => []TypeOK
<1>1. Init => TypeInv
  <2> SUFFICES ASSUME Init PROVE TargetOK /\ DownOK
    BY InitType DEF TypeInv
  <2> QED BY IdleType DEF Init, TargetOK, DownOK
<1>2. TypeInv => TypeOK
  BY DEF TypeInv
<1> QED BY <1>1, <1>2, TypeNext, PTL DEF Spec

----------------------------------------------------------------------------
(* The databases against each other and against the node's memory.        *)

\* What is linked, targeted or active was received, and so were all its ancestors.
LinkedInv ==
    /\ \A b \in linked : Ancestors[b] \subseteq linked
    /\ \A b \in linked \cup unlinked : "TX" \in nStatus[b]
    /\ candidates \subseteq linked
    /\ tip \in linked \cup {None} /\ coinsBest \in linked \cup {None}
    /\ \A t \in Threads : threads[t].mostWork \in linked \cup {None}

\* The index with statuses st and dirty entries d is ahead of the one on disk, and
\* only in its dirty entries.
Behind(st, d) ==
    \A b \in Blocks : /\ "TX" \in diskIndex[b] => "TX" \in st[b]
                      /\ b \notin d /\ "TX" \in st[b] => "TX" \in diskIndex[b]

DiskInv ==
    /\ "TX" \in diskIndex[Genesis]
    /\ phase # "down" => Behind(nStatus, dirty)
    /\ coinsDue => dirty = {} /\ phase # "down"
    /\ DiskCoinsIndexed

LEMMA DiskNext ==
    ~DiskMayFail /\ TypeInv /\ LinkedInv /\ DiskInv /\ [Next]_vars => LinkedInv' /\ DiskInv'

<1>LinkedStep.
    ASSUME TypeInv, LinkedInv, linked' = linked,
           \A b \in Blocks : "TX" \in nStatus[b] => "TX" \in nStatus'[b],
           candidates' \subseteq linked, unlinked' \subseteq unlinked \cup linked,
           tip' \in linked \cup {None}, coinsBest' \in linked \cup {None},
           \A t \in Threads : threads'[t].mostWork \in linked \cup {None}
    PROVE  LinkedInv'
  <2> USE <1>LinkedStep
  <2>1. linked \subseteq Blocks /\ unlinked \subseteq Blocks
    BY TypeSplit, Zenon DEF TypeInv, IndexOK
  <2>2. \A b \in linked' \cup unlinked' : "TX" \in nStatus'[b]
    BY <2>1 DEF LinkedInv
  <2> QED BY <2>2 DEF LinkedInv

<1>MoveLinked.
    ASSUME TypeInv, LinkedInv, NEW t \in Threads, NEW r, threads' = [threads EXCEPT ![t] = r],
           r.mostWork \in linked \cup {None}
    PROVE  \A u \in Threads : threads'[u].mostWork \in linked \cup {None}
  <2> USE <1>MoveLinked
  <2>1. \A u \in Threads : threads'[u] = IF u = t THEN r ELSE threads[u]
    BY TypeSplit, Zenon DEF TypeInv, ThreadOK
  <2> QED BY <2>1 DEF LinkedInv

<1>DiskStep.
    ASSUME DiskInv, phase # "down", phase' # "down", ~coinsDue, UNCHANGED diskVars, dirty \subseteq dirty',
           \A b \in Blocks : "TX" \in nStatus'[b] <=> "TX" \in nStatus[b]
    PROVE  DiskInv'
  <2> USE <1>DiskStep
  <2>1. diskIndex' = diskIndex /\ diskCoins' = diskCoins /\ coinsDue' = coinsDue
    BY DEF diskVars
  <2>2. Behind(nStatus, dirty)
    BY DEF DiskInv
  <2>3. Behind(nStatus, dirty)'
    BY <2>1, <2>2 DEF Behind
  <2>4. DiskCoinsIndexed'
    BY <2>1 DEF DiskInv, DiskCoinsIndexed
  <2> QED BY <2>1, <2>3, <2>4 DEF DiskInv

\* A flush: the index goes first and nothing received is lost from it.
<1>FlushStep.
    ASSUME TypeInv, DiskInv, phase # "down", phase' # "down",
           NEW st \in Status, NEW d \in SUBSET Blocks, NEW u \in SUBSET Blocks, NEW mode,
           Behind(st, d), FlushStateToDisk(st, d, u, mode)
    PROVE  DiskInv' /\ unlinked' \subseteq u /\ \A b \in Blocks : "TX" \in nStatus'[b] <=> "TX" \in st[b]
  <2> USE <1>FlushStep
  <2> PICK F \in PruneChoices(st) :
          /\ nStatus' = Pruned(st, F)
          /\ unlinked' = u \ F
          /\ \/ /\ F = {}
                /\ dirty' = d /\ coinsDue' = FALSE
                /\ UNCHANGED diskIndex
             \/ /\ F # {} \/ mode # "none"
                /\ dirty' = {} /\ diskIndex' = Written(Pruned(st, F), d \cup F)
                /\ coinsDue' = TRUE
             \/ /\ F = {} /\ mode = "periodic"
                /\ dirty' = {} /\ diskIndex' = Written(st, d)
                /\ coinsDue' = FALSE
          /\ UNCHANGED diskCoins
    BY Zenon DEF FlushStateToDisk
  <2>1. \A b \in Blocks : "TX" \in nStatus'[b] <=> "TX" \in st[b]
    BY DEF Pruned
  <2>2. Behind(nStatus, dirty)' /\ \A b \in Blocks : "TX" \in diskIndex[b] => "TX" \in diskIndex'[b]
    <3>1. CASE F = {} /\ dirty' = d /\ UNCHANGED diskIndex
      BY <2>1, <3>1, Zenon DEF Behind
    <3>2. CASE dirty' = {} /\ diskIndex' = Written(Pruned(st, F), d \cup F)
      <4>1. \A b \in Blocks : diskIndex'[b] = IF b \in d \cup F THEN nStatus'[b] ELSE diskIndex[b]
        BY <3>2, Zenon DEF Written
      <4> QED BY <2>1, <3>2, <4>1, Zenon DEF Behind
    <3>3. CASE dirty' = {} /\ diskIndex' = Written(st, d)
      <4>1. \A b \in Blocks : diskIndex'[b] = IF b \in d THEN st[b] ELSE diskIndex[b]
        BY <3>3, Zenon DEF Written
      <4> QED BY <2>1, <3>3, <4>1, Zenon DEF Behind
    <3> QED BY <3>1, <3>2, <3>3, Zenon
  <2>3. diskCoins \in Blocks \cup {None} /\ Genesis \in Blocks
    BY TypeSplit, TreeAssumption, Zenon DEF TypeInv, DiskOK, MaybeBlock
  <2>4. DiskCoinsIndexed'
    BY <2>2, <2>3, SelfAncestor, Zenon DEF DiskInv, DiskCoinsIndexed
  <2>5. coinsDue' => dirty' = {}
    OBVIOUS
  <2> QED BY <2>1, <2>2, <2>3, <2>4, <2>5, Zenon DEF DiskInv

\* The steps of a thread that write nothing.
<1>ControlDisk.
    ASSUME TypeInv, LinkedInv, DiskInv, NEW t \in Threads, phase \in {"running", "stopping"}, ~coinsDue,
           \/ ActivateBestChain(t) \/ LockMain(t) \/ BeginStep(t) \/ StepDone(t) \/ EndStep(t)
           \/ ConnectUnreadable(t) \/ CoinsElsewhere(t)
    PROVE  LinkedInv' /\ DiskInv'
  <2> USE <1>ControlDisk
  <2>1. UNCHANGED <<indexVars, tip, coinsBest, dirty, diskVars>> /\ phase' # "down"
    BY Zenon DEF ActivateBestChain, LockMain, BeginStep, StepDone, EndStep, ConnectUnreadable, CoinsElsewhere, AbortNode
  <2>2. \A u \in Threads : threads'[u].mostWork \in linked \cup {None}
    <3>1. CASE UNCHANGED threads
      BY <3>1, Zenon DEF LinkedInv
    <3>2. CASE threads' = [threads EXCEPT ![t] = Idle]
      BY <3>2, <1>MoveLinked, IdleType, Zenon
    <3>3. CASE \E pc, old, arg : threads' = [threads EXCEPT ![t] =
                   [pc |-> pc, mostWork |-> threads[t].mostWork, oldTip |-> old, arg |-> arg]]
      <4> PICK pc, old, arg : threads' = [threads EXCEPT ![t] =
                   [pc |-> pc, mostWork |-> threads[t].mostWork, oldTip |-> old, arg |-> arg]]
        BY <3>3, Zenon
      <4> DEFINE r == [pc |-> pc, mostWork |-> threads[t].mostWork, oldTip |-> old, arg |-> arg]
      <4>1. r.mostWork \in linked \cup {None} /\ threads' = [threads EXCEPT ![t] = r]
        BY DEF LinkedInv
      <4> HIDE DEF r
      <4> QED BY <4>1, <1>MoveLinked, Zenon
    <3>4. CASE ActivateBestChain(t)
      BY <3>3, <3>4, Zenon DEF ActivateBestChain, Go
    <3>5. CASE LockMain(t)
      BY <3>3, <3>5, Zenon DEF LockMain, Go
    <3>6. CASE BeginStep(t)
      BY <3>2, <3>3, <3>6, Zenon DEF BeginStep
    <3>7. CASE StepDone(t)
      BY <3>3, <3>7, Zenon DEF StepDone, Go
    <3>8. CASE EndStep(t)
      BY <3>3, <3>8, Zenon DEF EndStep
    <3>9. CASE ConnectUnreadable(t) \/ CoinsElsewhere(t)
      BY <3>1, <3>2, <3>9, Zenon DEF ConnectUnreadable, CoinsElsewhere, AbortNode
    <3> QED BY <3>4, <3>5, <3>6, <3>7, <3>8, <3>9
  <2>3. LinkedInv'
    BY <2>1, <2>2, <1>LinkedStep, Zenon DEF LinkedInv, indexVars
  <2>4. DiskInv'
    BY <2>1, <1>DiskStep, Zenon DEF indexVars
  <2> QED BY <2>3, <2>4

<1>FindDisk.
    ASSUME TypeInv, LinkedInv, DiskInv, NEW t \in Threads, phase \in {"running", "stopping"}, ~coinsDue,
           FindMostWorkChain(t)
    PROVE  LinkedInv' /\ DiskInv'
  <2> USE <1>FindDisk
  <2>1. UNCHANGED <<linked, tip, coinsBest, dirty, diskVars, phase>>
    BY Zenon DEF FindMostWorkChain
  <2>2. /\ \A b \in Blocks : "TX" \in nStatus'[b] <=> "TX" \in nStatus[b]
        /\ candidates' \subseteq linked /\ unlinked' \subseteq unlinked \cup linked
        /\ \A u \in Threads : threads'[u].mostWork \in linked \cup {None}
    <3>1. CASE candidates = {}
      <4>1. threads' = [threads EXCEPT ![t] = Idle] /\ UNCHANGED <<nStatus, candidates, unlinked>>
        BY <3>1, Zenon DEF FindMostWorkChain
      <4> QED BY <4>1, <1>MoveLinked, IdleType, Zenon DEF LinkedInv
    <3>2. CASE candidates # {}
      <4> DEFINE test(c) == CHOOSE x \in Unusable(c) : \A y \in Unusable(c) : Height[y] <= Height[x]
                 above(c) == {x \in Ancestors[c] : Height[x] > Height[test(c)]}
      <4>1. PICK c \in candidates :
              IF Unusable(c) = {}
              THEN /\ threads' = Go(t, "begin", c)
                   /\ UNCHANGED <<nStatus, candidates, unlinked, csMain>>
              ELSE /\ candidates' = candidates \ (above(c) \cup {test(c)})
                   /\ IF Failed(nStatus, test(c))
                      THEN /\ nStatus' = [b \in Blocks |-> IF b \in above(c)
                                THEN nStatus[b] \cup {"FAILED_CHILD"} ELSE nStatus[b]]
                           /\ UNCHANGED unlinked
                      ELSE unlinked' = unlinked \cup above(c) /\ UNCHANGED nStatus
                   /\ UNCHANGED <<threads, csMain>>
        BY <3>2, Zenon DEF FindMostWorkChain
      <4>2. c \in linked /\ above(c) \subseteq linked
        BY DEF LinkedInv
      <4> HIDE DEF above, test
      <4>3. CASE Unusable(c) = {}
        <5> DEFINE r == [pc |-> "begin", mostWork |-> c, oldTip |-> threads[t].oldTip, arg |-> threads[t].arg]
        <5>1. threads' = [threads EXCEPT ![t] = r] /\ r.mostWork \in linked \cup {None}
          BY <4>1, <4>2, <4>3, Zenon DEF Go
        <5> HIDE DEF r
        <5>2. \A u \in Threads : threads'[u].mostWork \in linked \cup {None}
          BY <5>1, <1>MoveLinked, Zenon
        <5> QED BY <4>1, <4>3, <5>2, Zenon DEF LinkedInv
      <4>4. CASE Unusable(c) # {}
        BY <4>1, <4>2, <4>4, Zenon DEF LinkedInv
      <4> QED BY <4>3, <4>4, Zenon
    <3> QED BY <3>1, <3>2, Zenon
  <2>3. LinkedInv'
    BY <2>1, <2>2, <1>LinkedStep, Zenon DEF LinkedInv
  <2>4. DiskInv'
    BY <2>1, <2>2, <1>DiskStep, Zenon
  <2> QED BY <2>3, <2>4

<1>ConnectInvalidDisk.
    ASSUME TypeInv, LinkedInv, DiskInv, NEW t \in Threads, phase \in {"running", "stopping"}, ~coinsDue,
           ConnectInvalid(t)
    PROVE  LinkedInv' /\ DiskInv'
  <2> USE <1>ConnectInvalidDisk
  <2>1. /\ UNCHANGED <<linked, unlinked, tip, coinsBest, diskVars, phase>>
        /\ candidates' \subseteq candidates /\ dirty \subseteq dirty'
        /\ nStatus' = [nStatus EXCEPT ![NextBlock(t)] = @ \cup {"FAILED_VALID"}]
    BY DEF ConnectInvalid
  <2>2. \A b \in Blocks : "TX" \in nStatus'[b] <=> "TX" \in nStatus[b]
    BY <2>1, TypeSplit DEF TypeInv, IndexOK, Status
  <2>3. \A u \in Threads : threads'[u].mostWork \in linked \cup {None}
    <3> DEFINE r == [pc |-> "end", mostWork |-> None, oldTip |-> threads[t].oldTip, arg |-> threads[t].arg]
    <3>1. threads' = [threads EXCEPT ![t] = r] /\ r.mostWork \in linked \cup {None}
      BY DEF ConnectInvalid, Go
    <3> HIDE DEF r
    <3> QED BY <3>1, <1>MoveLinked, Zenon
  <2>4. LinkedInv'
    BY <2>1, <2>2, <2>3, <1>LinkedStep, Zenon DEF LinkedInv
  <2>5. DiskInv'
    BY <2>1, <2>2, <1>DiskStep
  <2> QED BY <2>4, <2>5

<1>ConnectTipDisk.
    ASSUME ~DiskMayFail, TypeInv, LinkedInv, DiskInv, NEW t \in Threads,
           phase \in {"running", "stopping"}, ~coinsDue, ConnectTip(t)
    PROVE  LinkedInv' /\ DiskInv'
  <2> USE <1>ConnectTipDisk
  <2> DEFINE b == NextBlock(t)
             known == b = Genesis \/ ("SCRIPTS" \in nStatus[b] /\ ~Failed(nStatus, b))
             st == IF known \/ Failed(nStatus, b) THEN nStatus
                   ELSE [nStatus EXCEPT ![b] = @ \cup {"SCRIPTS"}]
             d == IF known THEN dirty ELSE dirty \cup {b}
             left == PruneBlockIndexCandidates(candidates, nSequenceId, b)
             old == threads[t].oldTip
             over == b = threads[t].mostWork \/ old = None \/ ChainWork[b] > ChainWork[old]
             pc == IF over THEN "end" ELSE "step"
             r == [pc |-> pc, mostWork |-> threads[t].mostWork, oldTip |-> threads[t].oldTip,
                   arg |-> threads[t].arg]
  <2>1. CanConnect(t) /\ coinsBest' = b /\ linked' = linked
    BY Zenon DEF ConnectTip
  <2>2. b \in Blocks /\ b \in Ancestors[threads[t].mostWork] /\ threads[t].mostWork \in Blocks
    BY <2>1, NextBlockType, Zenon DEF CanConnect, TypeInv, TargetOK
  <2>3. b \in linked
    <3> HIDE DEF b
    <3>1. threads[t].mostWork # None
      BY <2>2, TreeAssumption, Zenon
    <3>2. threads[t].mostWork \in linked
      BY <3>1, Zenon DEF LinkedInv
    <3>3. Ancestors[threads[t].mostWork] \subseteq linked
      BY <3>2, Zenon DEF LinkedInv
    <3> QED BY <2>2, <3>3, Zenon
  <2>4. nStatus \in Status /\ dirty \in SUBSET Blocks /\ unlinked \in SUBSET Blocks
    BY TypeSplit DEF TypeInv, IndexOK
  <2>5. st \in Status /\ \A x \in Blocks : "TX" \in st[x] <=> "TX" \in nStatus[x]
    BY <2>2, <2>4, Zenon DEF Status, StatusFlags
  <2>6. d \in SUBSET Blocks /\ dirty \subseteq d
    BY <2>2, <2>4, Zenon
  <2>7. /\ FlushStateToDisk(st, d, unlinked, "if_needed")
        /\ tip' = b
        /\ candidates' = left
        /\ phase' = IF left = {} THEN "assert" ELSE phase
        /\ threads' = [threads EXCEPT ![t] = r]
    BY Zenon DEF ConnectTip, Go, FlushFails
  <2>8. left \subseteq linked /\ r.mostWork \in linked \cup {None}
    BY Zenon DEF PruneBlockIndexCandidates, LinkedInv
  <2> HIDE DEF b, st, d, left, r
  <2>9. phase' # "down"
    BY <2>7
  <2>10. Behind(st, d)
    BY <2>5, <2>6, Zenon DEF DiskInv, Behind
  <2>11. /\ DiskInv' /\ unlinked' \subseteq unlinked
         /\ \A x \in Blocks : "TX" \in nStatus'[x] <=> "TX" \in st[x]
    BY <2>4, <2>5, <2>6, <2>7, <2>9, <2>10, <1>FlushStep, Zenon
  <2>12. \A u \in Threads : threads'[u].mostWork \in linked \cup {None}
    BY <2>7, <2>8, <1>MoveLinked, Zenon
  <2>13. LinkedInv'
    BY <2>1, <2>3, <2>5, <2>7, <2>8, <2>11, <2>12, <1>LinkedStep, Zenon
  <2> QED BY <2>11, <2>13

<1>DisconnectDisk.
    ASSUME ~DiskMayFail, TypeInv, LinkedInv, DiskInv, NEW t \in Threads,
           phase \in {"running", "stopping"}, ~coinsDue, StepDisconnect(t) \/ InvalidateDisconnect(t)
    PROVE  LinkedInv' /\ DiskInv'
  <2> USE <1>DisconnectDisk
  <2>1. /\ tip \in Blocks /\ linked' = linked /\ candidates' \subseteq candidates
    BY TypeSplit, Zenon DEF StepDisconnect, InvalidateDisconnect, TypeInv, ChainOK, MaybeBlock, Active
  <2>2. nStatus \in Status /\ dirty \in SUBSET Blocks /\ unlinked \in SUBSET Blocks
    BY TypeSplit DEF TypeInv, IndexOK
  <2>3. PICK st \in Status, d \in SUBSET Blocks :
          /\ DisconnectTip(t, st, d) /\ dirty \subseteq d
          /\ \A x \in Blocks : "TX" \in st[x] <=> "TX" \in nStatus[x]
    <3>1. CASE StepDisconnect(t)
      BY <2>2, <3>1, Zenon DEF StepDisconnect
    <3>2. CASE InvalidateDisconnect(t)
      <4> DEFINE st == [nStatus EXCEPT ![tip] = @ \cup {"FAILED_CHILD"}]
      <4>1. st \in Status /\ \A x \in Blocks : "TX" \in st[x] <=> "TX" \in nStatus[x]
        BY <2>1, <2>2 DEF Status, StatusFlags, FailedMask
      <4>2. dirty \cup {tip} \in SUBSET Blocks /\ dirty \subseteq dirty \cup {tip}
        BY <2>1, <2>2
      <4>3. DisconnectTip(t, st, dirty \cup {tip})
        BY <3>2, Zenon DEF InvalidateDisconnect
      <4> HIDE DEF st
      <4> QED BY <4>1, <4>2, <4>3, Zenon
    <3> QED BY <3>1, <3>2, Zenon
  <2>4. CASE /\ AbortNode(t)
             /\ nStatus' = st /\ dirty' = d
             /\ UNCHANGED <<unlinked, tip, coinsBest, diskVars>>
    <3>1. \A u \in Threads : threads'[u].mostWork \in linked \cup {None}
      BY <2>4, <1>MoveLinked, IdleType, Zenon DEF AbortNode
    <3>2. LinkedInv'
      BY <2>1, <2>3, <2>4, <3>1, <1>LinkedStep, Zenon DEF LinkedInv
    <3>3. phase' # "down"
      BY <2>4 DEF AbortNode
    <3>4. DiskInv'
      BY <2>3, <2>4, <3>3, <1>DiskStep, Zenon
    <3> QED BY <3>2, <3>4
  <2>5. CASE /\ coinsBest' = Below(tip)
             /\ FlushStateToDisk(st, d, unlinked, "if_needed")
             /\ tip' = Below(tip)
             /\ UNCHANGED <<csMain, threads, phase>>
    <3>1. Below(tip) \in linked \cup {None}
      BY <2>1, BelowType, TreeAssumption, Zenon DEF LinkedInv
    <3>2. Behind(st, d)
      BY <2>3, Zenon DEF DiskInv, Behind
    <3>3. /\ DiskInv' /\ unlinked' \subseteq unlinked
          /\ \A x \in Blocks : "TX" \in nStatus'[x] <=> "TX" \in st[x]
      <4>1. phase # "down" /\ phase' # "down"
        BY <2>5
      <4> QED BY <2>2, <2>5, <3>2, <4>1, <1>FlushStep, Zenon
    <3>4. LinkedInv'
      BY <2>1, <2>3, <2>5, <3>1, <3>3, <1>LinkedStep, Zenon DEF LinkedInv
    <3> QED BY <3>3, <3>4
  <2> QED BY <2>3, <2>4, <2>5, Zenon DEF DisconnectTip, UndoUnreadable, FlushFails

<1>FinishDisk.
    ASSUME ~DiskMayFail, TypeInv, LinkedInv, DiskInv, NEW t \in Threads,
           phase \in {"running", "stopping"}, ~coinsDue, FinishActivate(t) \/ InvalidateFinish(t)
    PROVE  LinkedInv' /\ DiskInv'
  <2> USE <1>FinishDisk
  <2>1. CASE FinishActivate(t)
    <3>1. /\ UNCHANGED <<linked, candidates, tip, coinsBest, phase>>
          /\ FlushStateToDisk(nStatus, dirty, unlinked, "periodic")
          /\ threads' = [threads EXCEPT ![t] = Idle]
      BY <2>1, Zenon DEF FinishActivate, FlushFails
    <3>2. nStatus \in Status /\ dirty \in SUBSET Blocks /\ unlinked \in SUBSET Blocks
      BY TypeSplit DEF TypeInv, IndexOK
    <3>3. Behind(nStatus, dirty)
      BY SMTT(30) DEF DiskInv
    <3>4. /\ DiskInv' /\ unlinked' \subseteq unlinked
          /\ \A x \in Blocks : "TX" \in nStatus'[x] <=> "TX" \in nStatus[x]
      BY <3>1, <3>2, <3>3, <1>FlushStep, Zenon
    <3>5. \A u \in Threads : threads'[u].mostWork \in linked \cup {None}
      BY <3>1, <1>MoveLinked, IdleType, Zenon
    <3>6. LinkedInv'
      BY <3>1, <3>4, <3>5, <1>LinkedStep, Zenon DEF LinkedInv
    <3> QED BY <3>4, <3>6, Zenon
  <2>2. CASE InvalidateFinish(t)
    <3>1. /\ UNCHANGED <<nStatus, linked, unlinked, tip, coinsBest, dirty, diskVars, phase>>
          /\ candidates' \subseteq candidates \cup linked
          /\ threads' = [threads EXCEPT ![t] = AtLoop]
      BY <2>2 DEF InvalidateFinish
    <3>2. \A u \in Threads : threads'[u].mostWork \in linked \cup {None}
      BY <3>1, <1>MoveLinked, IdleType, Zenon
    <3>3. LinkedInv'
      BY <3>1, <3>2, <1>LinkedStep, Zenon DEF LinkedInv
    <3>4. DiskInv'
      BY <3>1, <1>DiskStep, Zenon
    <3> QED BY <3>3, <3>4, Zenon
  <2> QED BY <2>1, <2>2

<1>ReceiveDisk.
    ASSUME TypeInv, LinkedInv, DiskInv, ~coinsDue,
           NEW t \in Threads, NEW b \in Blocks, NEW fRequested \in BOOLEAN,
           \/ ProcessNewBlockHeaders(b)
           \/ SkipBlock(t, b, fRequested)
           \/ RejectBlock(t, b, fRequested)
    PROVE  LinkedInv' /\ DiskInv'
  <2> USE <1>ReceiveDisk
  <2>1. /\ UNCHANGED <<linked, candidates, unlinked, tip, coinsBest, diskVars, phase>>
        /\ phase \in {"running", "stopping"} /\ dirty \subseteq dirty'
    BY Zenon DEF ProcessNewBlockHeaders, SkipBlock, RejectBlock, Serving, HeaderDirty
  <2>2. \A x \in Blocks : "TX" \in nStatus'[x] <=> "TX" \in nStatus[x]
    <3>1. nStatus' = WithHeader(b) \/ nStatus' = [WithHeader(b) EXCEPT ![b] = @ \cup {"FAILED_VALID"}]
      BY Zenon DEF ProcessNewBlockHeaders, SkipBlock, RejectBlock
    <3>2. nStatus \in Status
      BY TypeSplit DEF TypeInv, IndexOK
    <3> QED BY <3>1, <3>2 DEF WithHeader, Status
  <2>3. \A u \in Threads : threads'[u].mostWork \in linked \cup {None}
    <3>1. UNCHANGED threads \/ threads' = [threads EXCEPT ![t] = AtLoop]
      BY Zenon DEF ProcessNewBlockHeaders, SkipBlock, RejectBlock
    <3>2. CASE UNCHANGED threads
      BY <3>2, Zenon DEF LinkedInv
    <3>3. CASE threads' = [threads EXCEPT ![t] = AtLoop]
      BY <3>3, <1>MoveLinked, IdleType, Zenon
    <3> QED BY <3>1, <3>2, <3>3, SMTT(30)
  <2>4. LinkedInv'
    BY <2>1, <2>2, <2>3, <1>LinkedStep, Zenon DEF LinkedInv
  <2>5. DiskInv'
    BY <2>1, <2>2, <1>DiskStep, Zenon
  <2> QED BY <2>4, <2>5, SMTT(30)

\* What ReceivedBlockTransactions links is closed under ancestors and was received.
<1>NowLinkedClosed.
    ASSUME TypeInv, LinkedInv, NEW b \in Blocks, b = Genesis \/ Parent[b] \in linked
    PROVE  /\ \A x \in linked \cup NowLinked(b) : Ancestors[x] \subseteq linked \cup NowLinked(b)
           /\ NowLinked(b) \subseteq Blocks /\ NowLinked(b) \subseteq {b} \cup linked \cup unlinked
  <2> USE <1>NowLinkedClosed
  <2>1. \A a \in Ancestors[b] : a = b \/ a \in linked
    BY TreeAssumption, SMTT(20) DEF LinkedInv
  <2>2. b \in NowLinked(b)
    BY SelfAncestor DEF NowLinked
  <2>3. ASSUME NEW x \in NowLinked(b), NEW a \in Ancestors[x]
        PROVE  a \in linked \cup NowLinked(b)
    <3>1. x \in Blocks /\ b \in Ancestors[x] /\ Ancestors[x] \ Ancestors[b] \subseteq unlinked
      BY DEF NowLinked
    <3>2. a \in Ancestors[b] \/ b \in Ancestors[a]
      BY <3>1, TreeAssumption
    <3>3. a \in Blocks /\ Ancestors[a] \subseteq Ancestors[x]
      BY <3>1, TreeAssumption, SelfAncestor
    <3>4. b \in Ancestors[a] => a \in NowLinked(b)
      BY <3>1, <3>3, Zenon DEF NowLinked
    <3> QED BY <2>1, <2>2, <3>2, <3>4
  <2>4. ASSUME NEW x \in NowLinked(b) PROVE x \in {b} \cup linked \cup unlinked
    BY <2>1, SelfAncestor, Zenon DEF NowLinked
  <2>5. NowLinked(b) \subseteq Blocks
    BY DEF NowLinked
  <2> QED BY <2>3, <2>4, <2>5, Zenon DEF LinkedInv

<1>AcceptDisk.
    ASSUME TypeInv, LinkedInv, DiskInv, ~coinsDue,
           NEW t \in Threads, NEW b \in Blocks, NEW fRequested \in BOOLEAN,
           AcceptBlock(t, b, fRequested)
    PROVE  LinkedInv' /\ DiskInv'
  <2> USE <1>AcceptDisk
  <2> DEFINE st == [WithHeader(b) EXCEPT ![b] = @ \cup {"TX", "DATA"}]
  <2>1. /\ UNCHANGED <<tip, coinsBest, phase>> /\ phase \in {"running", "stopping"}
        /\ threads' = [threads EXCEPT ![t] = AtLoop] /\ LinkBlock(b)
        /\ FlushStateToDisk(st, dirty \cup {b}, UnlinkedAfter(b), "none")
    BY DEF AcceptBlock, Serving
  <2>2. nStatus \in Status /\ dirty \subseteq Blocks /\ unlinked \subseteq Blocks /\ linked \subseteq Blocks
    BY TypeSplit DEF TypeInv, IndexOK
  <2>3. st \in Status /\ \A x \in Blocks : "TX" \in st[x] <=> x = b \/ "TX" \in nStatus[x]
    BY <2>2 DEF WithHeader, Status, StatusFlags
  <2> HIDE DEF st
  <2>4. /\ dirty \cup {b} \in SUBSET Blocks /\ UnlinkedAfter(b) \in SUBSET Blocks
        /\ UnlinkedAfter(b) \subseteq unlinked \cup {b}
    <3>1. UnlinkedAfter(b) \subseteq unlinked \cup {b}
      BY Zenon DEF UnlinkedAfter
    <3> QED BY <2>2, <3>1
  <2>5. Behind(st, dirty \cup {b})
    <3>1. Behind(nStatus, dirty)
      BY <2>1, Zenon DEF DiskInv
    <3> QED BY <2>3, <3>1 DEF Behind
  <2>6. /\ DiskInv' /\ unlinked' \subseteq unlinked \cup {b}
        /\ \A x \in Blocks : "TX" \in nStatus'[x] <=> "TX" \in st[x]
    <3>1. phase # "down" /\ phase' # "down" /\ st \in Status
      BY <2>1, <2>3, Zenon
    <3>2. /\ DiskInv' /\ unlinked' \subseteq UnlinkedAfter(b)
          /\ \A x \in Blocks : "TX" \in nStatus'[x] <=> "TX" \in st[x]
      BY <2>1, <2>4, <2>5, <3>1, <1>FlushStep, Zenon
    <3> QED BY <2>4, <3>2, Zenon
  <2>7. /\ linked \subseteq linked' /\ linked' \subseteq linked \cup unlinked \cup {b}
        /\ \A x \in linked' : Ancestors[x] \subseteq linked'
        /\ candidates' \subseteq linked'
    <3>1. CASE b = Genesis \/ Parent[b] \in linked
      <4>1. PICK f \in QueueOrders(NowLinked(b), counters.next) :
               /\ linked' = linked \cup DOMAIN f
               /\ candidates' = candidates \cup
                      {x \in DOMAIN f : tip = None \/ ~WorkLess(nSequenceId', x, tip)}
        BY <2>1, <3>1 DEF LinkBlock
      <4>2. DOMAIN f = NowLinked(b)
        BY Zenon DEF QueueOrders
      <4>3. linked' = linked \cup NowLinked(b) /\ candidates' \subseteq candidates \cup NowLinked(b)
        BY <4>1, <4>2
      <4>4. candidates \subseteq linked
        BY Zenon DEF LinkedInv
      <4> QED BY <3>1, <4>3, <4>4, <1>NowLinkedClosed, Zenon
    <3>2. CASE ~(b = Genesis \/ Parent[b] \in linked)
      <4>1. b \notin linked
        <5>1. b # Genesis /\ Parent[b] \notin linked
          BY <3>2
        <5>2. Parent[b] \in Blocks /\ Parent[b] \in Ancestors[b]
          BY <5>1, TreeAssumption, SelfAncestor
        <5> QED BY <5>1, <5>2, Zenon DEF LinkedInv
      <4>2. linked' = linked /\ candidates' = candidates
        BY <2>1, <3>2, <4>1, SMTT(30) DEF LinkBlock
      <4> QED BY <4>2 DEF LinkedInv
    <3> QED BY <3>1, <3>2, Zenon
  <2>8. \A x \in linked' \cup unlinked' : "TX" \in nStatus'[x]
    <3>1. \A x \in linked \cup unlinked : "TX" \in nStatus[x]
      BY Zenon DEF LinkedInv
    <3>2. \A x \in linked' \cup unlinked' : x \in Blocks /\ (x = b \/ x \in linked \cup unlinked)
      BY <2>2, <2>6, <2>7
    <3> QED BY <2>3, <2>6, <3>1, <3>2, Zenon
  <2>9. \A u \in Threads : threads'[u].mostWork \in linked' \cup {None}
    BY <2>1, <2>7, <1>MoveLinked, IdleType, Zenon
  <2>10. LinkedInv'
    BY <2>1, <2>7, <2>8, <2>9, Zenon DEF LinkedInv
  <2> QED BY <2>6, <2>10

<1>CommandDisk.
    ASSUME TypeInv, LinkedInv, DiskInv, ~coinsDue, NEW t \in Threads, NEW b \in Blocks,
           InvalidateBlock(t, b) \/ ResetBlockFailureFlags(t, b) \/ PreciousBlock(t, b)
    PROVE  LinkedInv' /\ DiskInv'
  <2> USE <1>CommandDisk
  <2>1. /\ UNCHANGED <<linked, unlinked, tip, coinsBest, diskVars>>
        /\ phase \in {"running", "stopping"} /\ phase' # "down" /\ dirty \subseteq dirty'
    BY DEF InvalidateBlock, ResetBlockFailureFlags, PreciousBlock, Command, Serving
  <2>2. candidates' \subseteq linked
    BY Zenon DEF InvalidateBlock, ResetBlockFailureFlags, PreciousBlock, PruneBlockIndexCandidates, LinkedInv
  <2>3. \A x \in Blocks : "TX" \in nStatus'[x] <=> "TX" \in nStatus[x]
    <3>1. nStatus \in Status
      BY TypeSplit DEF TypeInv, IndexOK
    <3>2. CASE InvalidateBlock(t, b)
      BY <3>1, <3>2, Zenon DEF InvalidateBlock, Status
    <3>3. CASE ResetBlockFailureFlags(t, b)
      BY <3>1, <3>3, Zenon DEF ResetBlockFailureFlags, FailedMask
    <3>4. CASE PreciousBlock(t, b)
      <4>1. nStatus' = nStatus
        BY <3>4 DEF PreciousBlock
      <4> QED BY <4>1, Zenon
    <3> QED BY <3>2, <3>3, <3>4, Zenon
  <2>4. \A u \in Threads : threads'[u].mostWork \in linked \cup {None}
    <3> DEFINE r == [pc |-> "invalidate", mostWork |-> None, oldTip |-> None, arg |-> b]
    <3>1. threads' = [threads EXCEPT ![t] = AtLoop] \/ threads' = [threads EXCEPT ![t] = r]
      BY DEF InvalidateBlock, ResetBlockFailureFlags, PreciousBlock
    <3>2. r.mostWork = None
      OBVIOUS
    <3> HIDE DEF r
    <3>3. CASE threads' = [threads EXCEPT ![t] = AtLoop]
      BY <3>3, <1>MoveLinked, IdleType, Zenon
    <3>4. CASE threads' = [threads EXCEPT ![t] = r]
      BY <3>2, <3>4, <1>MoveLinked, Zenon
    <3> QED BY <3>1, <3>3, <3>4
  <2>5. LinkedInv'
    BY <2>1, <2>2, <2>3, <2>4, <1>LinkedStep, Zenon DEF LinkedInv
  <2>6. DiskInv'
    BY <2>1, <2>3, <1>DiskStep, Zenon
  <2> QED BY <2>5, <2>6

\* The chain of pcoinsTip's best block was received.
<1>CoinsReceived.
    ASSUME TypeInv, LinkedInv
    PROVE  coinsBest # None => /\ Ancestors[coinsBest] \subseteq Blocks
                               /\ \A a \in Ancestors[coinsBest] : "TX" \in nStatus[a]
  BY <1>CoinsReceived, TypeSplit, SelfAncestor, Zenon DEF LinkedInv, TypeInv, IndexOK

<1>ProcessDisk.
    ASSUME TypeInv, LinkedInv, DiskInv,
           FlushCoins \/ PruneBlockFilesManual \/ StartShutdown \/ Shutdown \/ Crash \/ AssertFails
    PROVE  LinkedInv' /\ DiskInv'
  <2> USE <1>ProcessDisk
  <2>1. CASE FlushCoins
    <3>1. /\ UNCHANGED <<indexVars, tip, coinsBest, dirty, diskIndex, threads, phase>>
          /\ coinsDue /\ coinsDue' = FALSE /\ diskCoins' = coinsBest
      BY <2>1 DEF FlushCoins
    <3>2. LinkedInv'
      BY <3>1, Zenon DEF LinkedInv, indexVars
    <3>3. Behind(nStatus, dirty) /\ dirty = {} /\ phase # "down"
      BY <3>1 DEF DiskInv
    <3>4. DiskCoinsIndexed'
      BY <3>1, <3>3, <1>CoinsReceived DEF DiskCoinsIndexed, Behind
    <3> QED BY <3>1, <3>2, <3>3, <3>4, Zenon DEF DiskInv, Behind, indexVars
  <2>2. CASE PruneBlockFilesManual
    <3>1. /\ UNCHANGED <<linked, candidates, tip, coinsBest, threads, phase>>
          /\ FlushStateToDisk(nStatus, dirty, unlinked, "none") /\ phase # "down"
      BY <2>2 DEF PruneBlockFilesManual, Serving
    <3>2. nStatus \in Status /\ dirty \in SUBSET Blocks /\ unlinked \in SUBSET Blocks
      BY TypeSplit DEF TypeInv, IndexOK
    <3>3. Behind(nStatus, dirty)
      BY <3>1 DEF DiskInv
    <3>4. /\ DiskInv' /\ unlinked' \subseteq unlinked
          /\ \A x \in Blocks : "TX" \in nStatus'[x] <=> "TX" \in nStatus[x]
      <4>1. phase' # "down"
        BY <3>1
      <4> QED BY <3>1, <3>2, <3>3, <4>1, <1>FlushStep, Zenon
    <3>5. LinkedInv'
      <4>1. /\ candidates' \subseteq linked /\ tip' \in linked \cup {None} /\ coinsBest' \in linked \cup {None}
            /\ \A t \in Threads : threads'[t].mostWork \in linked \cup {None}
        BY <3>1, Zenon DEF LinkedInv
      <4> QED BY <3>1, <3>4, <4>1, <1>LinkedStep, Zenon
    <3> QED BY <3>4, <3>5
  <2>3. CASE StartShutdown
    <3>1. /\ UNCHANGED <<nStatus, linked, unlinked, candidates, tip, coinsBest, threads>>
          /\ UNCHANGED <<dirty, diskIndex, diskCoins, coinsDue>> /\ phase # "down" /\ phase' # "down"
      BY <2>3, Zenon DEF StartShutdown, indexVars, diskVars
    <3>2. LinkedInv'
      BY <3>1, Zenon DEF LinkedInv
    <3>3. DiskInv'
      BY <3>1, Zenon DEF DiskInv, Behind, DiskCoinsIndexed
    <3> QED BY <3>2, <3>3, Zenon
  <2>4. CASE Shutdown \/ Crash \/ AssertFails
    <3>1. MemoryLost /\ phase # "down"
      BY <2>4 DEF Crash, Shutdown, AssertFails
    <3>2. LinkedInv'
      BY <3>1, IdleType, Zenon DEF MemoryLost, LinkedInv
    <3>3. Behind(nStatus, dirty)
      BY <3>1 DEF DiskInv
    <3>4. \A b \in Blocks : "TX" \in diskIndex[b] => "TX" \in diskIndex'[b]
      BY <2>4, <3>3 DEF Crash, Shutdown, AssertFails, Written, Behind
    <3>5. diskCoins \in Blocks \cup {None} /\ Genesis \in Blocks
      BY TypeSplit, TreeAssumption DEF TypeInv, DiskOK, MaybeBlock
    <3>6. DiskCoinsIndexed'
      <4>1. CASE Shutdown
        <5>1. \A b \in Blocks : diskIndex'[b] = IF b \in dirty THEN nStatus[b] ELSE diskIndex[b]
          BY <4>1, Zenon DEF Shutdown, Written
        <5>2. diskCoins' = coinsBest
          BY <4>1 DEF Shutdown
        <5> QED BY <3>3, <5>1, <5>2, <1>CoinsReceived DEF DiskCoinsIndexed, Behind
      <4>2. CASE diskCoins' = diskCoins
        BY <3>4, <3>5, <4>2, SelfAncestor, Zenon DEF DiskInv, DiskCoinsIndexed
      <4> QED BY <2>4, <4>1, <4>2, Zenon DEF Crash, AssertFails
    <3> QED BY <3>1, <3>2, <3>4, <3>5, <3>6, Zenon DEF DiskInv, MemoryLost
  <2> QED BY <2>1, <2>2, <2>3, <2>4

<1>RestartDisk.
    ASSUME TypeInv, LinkedInv, DiskInv, ~coinsDue, Restart
    PROVE  LinkedInv' /\ DiskInv'
  <2> USE <1>RestartDisk
  <2> DEFINE chainTx == {b \in Blocks : \A a \in Ancestors[b] : "TX" \in diskIndex[a]}
  <2>1. /\ nStatus' = diskIndex /\ linked' = chainTx /\ coinsBest' = diskCoins
        /\ tip' \in {diskCoins, None}
        /\ unlinked' \subseteq {b \in Blocks : "TX" \in diskIndex[b]}
        /\ threads' = [threads EXCEPT ![ImportThread] = AtLoop]
        /\ UNCHANGED diskVars /\ phase' # "down"
    BY DEF Restart
  <2>2. candidates' \subseteq chainTx \cup {Genesis}
    BY DEF Restart, PruneBlockIndexCandidates
  <2>3. Genesis \in chainTx /\ diskCoins \in chainTx \cup {None}
    <3>1. diskCoins \in Blocks \cup {None}
      BY TypeSplit DEF TypeInv, DiskOK, MaybeBlock
    <3>2. DiskCoinsIndexed /\ "TX" \in diskIndex[Genesis]
      BY DEF DiskInv
    <3>3. diskCoins \in chainTx \cup {None}
      BY <3>1, <3>2, Zenon DEF DiskCoinsIndexed
    <3> QED BY <3>2, <3>3, TreeAssumption, Zenon
  <2>4. \A b \in chainTx : Ancestors[b] \subseteq chainTx /\ "TX" \in diskIndex[b]
    BY TreeAssumption, SelfAncestor
  <2>5. \A u \in Threads : threads'[u].mostWork = None
    BY <2>1, IdleType, TypeSplit, SMTT(30) DEF Restart, TypeInv, DownOK, ThreadOK
  <2> HIDE DEF chainTx
  <2>6. LinkedInv'
    BY <2>1, <2>2, <2>3, <2>4, <2>5, Zenon DEF LinkedInv
  <2>7. diskIndex' = diskIndex /\ diskCoins' = diskCoins /\ coinsDue' = coinsDue
    BY <2>1 DEF diskVars
  <2>8. DiskInv'
    BY <2>1, <2>7, Zenon DEF DiskInv, Behind, DiskCoinsIndexed
  <2> QED BY <2>6, <2>8

<1> SUFFICES ASSUME ~DiskMayFail, TypeInv, LinkedInv, DiskInv, [Next]_vars PROVE LinkedInv' /\ DiskInv'
  OBVIOUS
<1>1. ASSUME ~coinsDue, NEW t \in Threads, Step(t) PROVE LinkedInv' /\ DiskInv'
  BY <1>1, <1>ControlDisk, <1>FindDisk, <1>ConnectInvalidDisk, <1>ConnectTipDisk, <1>DisconnectDisk, <1>FinishDisk, Zenon DEF Step
<1>2. ASSUME ~coinsDue, NEW b \in Blocks, ProcessNewBlockHeaders(b) PROVE LinkedInv' /\ DiskInv'
  <2>1. \E t \in Threads, r \in BOOLEAN : TRUE
    BY ProcessAssumption
  <2> QED BY <1>2, <2>1, <1>ReceiveDisk
<1>3. ASSUME ~coinsDue, NEW t \in Threads, NEW b \in Blocks, NEW fRequested \in BOOLEAN,
             \/ SkipBlock(t, b, fRequested)
             \/ RejectBlock(t, b, fRequested)
             \/ AcceptBlock(t, b, fRequested)
      PROVE  LinkedInv' /\ DiskInv'
  BY <1>3, <1>ReceiveDisk, <1>AcceptDisk
<1>4. ASSUME ~coinsDue, NEW t \in Threads, NEW b \in Blocks,
             InvalidateBlock(t, b) \/ ResetBlockFailureFlags(t, b) \/ PreciousBlock(t, b)
      PROVE  LinkedInv' /\ DiskInv'
  BY <1>4, <1>CommandDisk, SMTT(30)
<1>5. CASE UNCHANGED vars
  BY <1>5, Zenon DEF LinkedInv, DiskInv, Behind, DiskCoinsIndexed, vars, indexVars, diskVars
<1> QED BY <1>1, <1>2, <1>3, <1>4, <1>5, <1>ProcessDisk, <1>RestartDisk, Zenon DEF Next, Operate

LEMMA DiskInit == Init => LinkedInv /\ DiskInv
<1> SUFFICES ASSUME Init PROVE LinkedInv /\ DiskInv
  OBVIOUS
<1>1. /\ linked = {Genesis} /\ candidates = {Genesis} /\ unlinked = {} /\ "TX" \in nStatus[Genesis]
      /\ tip = None /\ coinsBest = None /\ Ancestors[Genesis] = {Genesis}
  BY TreeAssumption, Zenon DEF Init
<1>2. \A t \in Threads : threads[t].mostWork = None
  BY IdleType, Zenon DEF Init
<1>3. LinkedInv
  BY <1>1, <1>2, Zenon DEF LinkedInv
<1>4. DiskInv
  BY TreeAssumption, Zenon DEF Init, DiskInv, Behind, DiskCoinsIndexed
<1> QED BY <1>3, <1>4

\* As long as writes to the index database do not fail, the coins database never
\* names a block whose chain the index database does not have, whatever crashes,
\* reorganizations and commands happen: FlushStateToDisk writes the dirty entries
\* before pcoinsTip, and everything pcoinsTip ever was at is in the index or dirty.
THEOREM CoinsNeverAhead == ~DiskMayFail => (Spec => []DiskCoinsIndexed)
<1> SUFFICES ASSUME ~DiskMayFail PROVE Spec => []DiskCoinsIndexed
  OBVIOUS
<1> DEFINE Inv == TypeInv /\ LinkedInv /\ DiskInv
<1>1. Init => Inv
  <2> SUFFICES ASSUME Init PROVE Inv
    OBVIOUS
  <2>1. TypeInv
    BY InitType, IdleType, Zenon DEF TypeInv, Init, TargetOK, DownOK
  <2> QED BY <2>1, DiskInit
<1>2. Inv /\ [Next]_vars => Inv'
  BY TypeNext, DiskNext
<1>3. Inv => DiskCoinsIndexed
  BY DEF DiskInv
<1> HIDE DEF Inv
<1> QED BY <1>1, <1>2, <1>3, PTL DEF Spec

----------------------------------------------------------------------------
(* Memory and disk: setDirtyBlockIndex misses nothing, and pcoinsTip is at *)
(* the tip, also when writes to the disk fail.                             *)

\* A block with any validity or data flag has a header in the index.
HasTree(st) ==
    \A b \in Blocks : "TX" \in st[b] \/ "SCRIPTS" \in st[b] \/ "DATA" \in st[b] => "TREE" \in st[b]

\* With statuses st, all but the entries in d are as on disk.
OnDisk(st, d) ==
    \A b \in Blocks \ d : st[b] \ {"FAILED_CHILD"} = diskIndex[b] \ {"FAILED_CHILD"}

\* As long as a failed write cannot have emptied setDirtyBlockIndex.
Trusted == phase = "running" \/ (phase # "down" /\ ~DiskMayFail)

DirtyInv == HasTree(nStatus) /\ HasTree(diskIndex) /\ (Trusted => OnDisk(nStatus, dirty))

LEMMA DirtyInvImplies == DirtyInv => DirtyIsComplete
BY DEF DirtyInv, DirtyIsComplete, Trusted, OnDisk

LEMMA DirtyNext == TypeInv /\ DirtyInv /\ [Next]_vars => DirtyInv'

\* A step that writes nothing.
<1>MemoryStep.
    ASSUME DirtyInv, Trusted' => Trusted, diskIndex' = diskIndex, HasTree(nStatus'),
           OnDisk(nStatus, dirty) => OnDisk(nStatus', dirty')
    PROVE  DirtyInv'
  BY <1>MemoryStep, Zenon DEF DirtyInv, HasTree, OnDisk

\* A step that leaves the index and the disk alone.
<1>SameStep.
    ASSUME DirtyInv, Trusted' => Trusted, UNCHANGED <<nStatus, dirty, diskIndex>>
    PROVE  DirtyInv'
  BY <1>SameStep DEF DirtyInv, HasTree, OnDisk

\* Marks on dirty entries, and FAILED_CHILD on any, leave setDirtyBlockIndex complete.
<1>FlagsStep.
    ASSUME NEW st, NEW st2, NEW d, NEW d2, HasTree(st), d \subseteq d2,
           \A x \in Blocks :
               \/ st2[x] = st[x] \/ st2[x] = st[x] \cup {"FAILED_CHILD"}
               \/ /\ x \in d2
                  /\ \/ st2[x] = st[x] \cup {"FAILED_VALID"} \/ st2[x] = st[x] \cup {"TREE", "FAILED_VALID"}
                     \/ st2[x] = st[x] \cup {"SCRIPTS"} /\ "TREE" \in st[x]
    PROVE  HasTree(st2) /\ (OnDisk(st, d) => OnDisk(st2, d2))
  <2> USE <1>FlagsStep
  <2>1. ASSUME NEW x \in Blocks, "TX" \in st2[x] \/ "SCRIPTS" \in st2[x] \/ "DATA" \in st2[x]
        PROVE  "TREE" \in st2[x]
    BY <2>1 DEF HasTree
  <2>2. ASSUME NEW x \in Blocks \ d2
        PROVE  x \in Blocks \ d /\ st2[x] \ {"FAILED_CHILD"} = st[x] \ {"FAILED_CHILD"}
    <3>1. st2[x] = st[x] \/ st2[x] = st[x] \cup {"FAILED_CHILD"}
      OBVIOUS
    <3> QED BY <3>1
  <2>3. HasTree(st2)
    BY <2>1, Zenon DEF HasTree
  <2>4. OnDisk(st, d) => OnDisk(st2, d2)
    BY <2>2, Zenon DEF OnDisk
  <2> QED BY <2>3, <2>4, Zenon

\* A flush writes every entry that it takes out of setDirtyBlockIndex.
<1>FlushDirty.
    ASSUME NEW st \in Status, NEW d \in SUBSET Blocks, NEW u, NEW mode,
           HasTree(st), HasTree(diskIndex), FlushStateToDisk(st, d, u, mode),
           Trusted' => OnDisk(st, d)
    PROVE  DirtyInv'
  <2> USE <1>FlushDirty
  <2> PICK F \in PruneChoices(st) :
          /\ nStatus' = Pruned(st, F)
          /\ unlinked' = u \ F
          /\ \/ /\ F = {}
                /\ dirty' = d /\ coinsDue' = FALSE
                /\ UNCHANGED diskIndex
             \/ /\ F # {} \/ mode # "none"
                /\ dirty' = {} /\ diskIndex' = Written(Pruned(st, F), d \cup F)
                /\ coinsDue' = TRUE
             \/ /\ F = {} /\ mode = "periodic"
                /\ dirty' = {} /\ diskIndex' = Written(st, d)
                /\ coinsDue' = FALSE
          /\ UNCHANGED diskCoins
    BY Zenon DEF FlushStateToDisk
  <2>1. \A b \in Blocks : nStatus'[b] = IF b \in F THEN st[b] \ {"DATA"} ELSE st[b]
    BY DEF Pruned
  <2>2. HasTree(nStatus)'
    BY <2>1, Zenon DEF HasTree
  <2>3. CASE F = {} /\ dirty' = d /\ UNCHANGED diskIndex
    BY <2>1, <2>2, <2>3, Zenon DEF DirtyInv, HasTree, OnDisk
  <2>4. CASE dirty' = {} /\ \E w \in {d, d \cup F} : F \subseteq w /\ diskIndex' = Written(nStatus', w)
    <3> PICK w \in {d, d \cup F} : F \subseteq w /\ diskIndex' = Written(nStatus', w)
      BY <2>4, Zenon
    <3>1. \A b \in Blocks : diskIndex'[b] = IF b \in w THEN nStatus'[b] ELSE diskIndex[b]
      BY DEF Written
    <3>2. HasTree(diskIndex)'
      BY <2>2, <3>1, Zenon DEF HasTree
    <3>3. ASSUME Trusted', NEW b \in Blocks
          PROVE  nStatus'[b] \ {"FAILED_CHILD"} = diskIndex'[b] \ {"FAILED_CHILD"}
      BY <2>1, <3>1, <3>3, Zenon DEF OnDisk
    <3> QED BY <2>2, <2>4, <3>2, <3>3, Zenon DEF DirtyInv, OnDisk
  <2>5. F = {} => Pruned(st, F) = st
    BY Zenon DEF Pruned, Status
  <2>6. CASE dirty' = {} /\ diskIndex' = Written(nStatus', d \cup F)
    BY <2>4, <2>6, Zenon
  <2>7. CASE F = {} /\ dirty' = {} /\ diskIndex' = Written(nStatus', d)
    BY <2>4, <2>7, Zenon
  <2> QED BY <2>3, <2>5, <2>6, <2>7, Zenon

\* A write that fails leaves a node that is stopping.
<1>FailDirty.
    ASSUME NEW st, NEW u, NEW t, HasTree(st), HasTree(diskIndex), FlushFails(st, u), AbortNode(t)
    PROVE  DirtyInv'
  BY <1>FailDirty, Zenon DEF FlushFails, AbortNode, DirtyInv, Trusted, HasTree, diskVars

<1>ReceiveDirty.
    ASSUME TypeInv, DirtyInv, NEW b \in Blocks, NEW t, NEW fRequested,
           \/ ProcessNewBlockHeaders(b) \/ SkipBlock(t, b, fRequested)
           \/ RejectBlock(t, b, fRequested) \/ AcceptBlock(t, b, fRequested)
    PROVE  DirtyInv'
  <2> USE <1>ReceiveDirty
  <2>1. nStatus \in Status /\ dirty \subseteq Blocks /\ HasTree(nStatus) /\ HasTree(diskIndex)
    BY TypeSplit DEF TypeInv, IndexOK, DirtyInv
  <2>2. phase' = phase /\ HeaderAccepted(b)
    BY Zenon DEF ProcessNewBlockHeaders, SkipBlock, RejectBlock, AcceptBlock
  <2>3. /\ WithHeader(b) \in Status
        /\ \A x \in Blocks : WithHeader(b)[x] = IF x = b THEN nStatus[b] \cup {"TREE"} ELSE nStatus[x]
    BY <2>1 DEF WithHeader, Status, StatusFlags
  <2>4. nStatus[b] = {} \/ "TREE" \in nStatus[b]
    <3>1. nStatus[b] # {} => nStatus[b] \cap FailedMask = {} /\ nStatus[b] \subseteq StatusFlags
      BY <2>1, <2>2, Zenon DEF HeaderAccepted, Failed, Status
    <3> QED BY <2>1, <3>1, Zenon DEF HasTree, StatusFlags, FailedMask
  <2>5. HasTree(WithHeader(b)) /\ (OnDisk(nStatus, dirty) => OnDisk(WithHeader(b), HeaderDirty(b)))
    BY <2>1, <2>3, <2>4, Zenon DEF HasTree, OnDisk, HeaderDirty
  <2>6. CASE ProcessNewBlockHeaders(b) \/ SkipBlock(t, b, fRequested)
    <3>1. nStatus' = WithHeader(b) /\ dirty' = HeaderDirty(b) /\ diskIndex' = diskIndex
      BY <2>6, Zenon DEF ProcessNewBlockHeaders, SkipBlock, diskVars
    <3> QED BY <2>2, <2>5, <3>1, <1>MemoryStep, Zenon DEF Trusted
  <2>7. CASE RejectBlock(t, b, fRequested)
    <3>1. /\ nStatus' = [WithHeader(b) EXCEPT ![b] = @ \cup {"FAILED_VALID"}]
          /\ dirty' = dirty \cup {b} /\ diskIndex' = diskIndex
      BY <2>7, Zenon DEF RejectBlock, diskVars
    <3>2. \A x \in Blocks : nStatus'[x] = IF x = b THEN nStatus[b] \cup {"TREE", "FAILED_VALID"} ELSE nStatus[x]
      BY <2>3, <3>1, Zenon DEF Status
    <3>3. HasTree(nStatus') /\ (OnDisk(nStatus, dirty) => OnDisk(nStatus', dirty'))
      <4>1. /\ dirty \subseteq dirty'
            /\ \A x \in Blocks : nStatus'[x] = nStatus[x]
                                 \/ (x \in dirty' /\ nStatus'[x] = nStatus[x] \cup {"TREE", "FAILED_VALID"})
        BY <3>1, <3>2, Zenon
      <4> QED BY <2>1, <4>1, <1>FlagsStep, Zenon
    <3> QED BY <2>2, <3>1, <3>3, <1>MemoryStep DEF Trusted
  <2>8. CASE AcceptBlock(t, b, fRequested)
    <3> DEFINE st == [WithHeader(b) EXCEPT ![b] = @ \cup {"TX", "DATA"}]
    <3>1. FlushStateToDisk(st, dirty \cup {b}, UnlinkedAfter(b), "none")
      BY <2>8, Zenon DEF AcceptBlock
    <3>2. /\ st \in Status
          /\ \A x \in Blocks : st[x] = IF x = b THEN nStatus[b] \cup {"TREE", "TX", "DATA"} ELSE nStatus[x]
      BY <2>3, Zenon DEF Status, StatusFlags
    <3> HIDE DEF st
    <3>3. HasTree(st) /\ (Trusted' => OnDisk(st, dirty \cup {b}))
      BY <2>1, <2>2, <3>2, Zenon DEF HasTree, OnDisk, DirtyInv, Trusted
    <3> QED BY <2>1, <3>1, <3>2, <3>3, <1>FlushDirty, Zenon
  <2> QED BY <2>6, <2>7, <2>8

\* The steps of a thread that leave the index alone.
<1>ControlDirty.
    ASSUME DirtyInv, NEW t \in Threads, phase \in {"running", "stopping"},
           \/ ActivateBestChain(t) \/ LockMain(t) \/ BeginStep(t) \/ StepDone(t) \/ EndStep(t)
           \/ ConnectUnreadable(t) \/ CoinsElsewhere(t) \/ InvalidateFinish(t)
    PROVE  DirtyInv'
  <2> USE <1>ControlDirty
  <2>1. UNCHANGED <<nStatus, dirty, diskIndex>> /\ phase' \in {phase, "stopping", "assert"}
    BY Zenon DEF ActivateBestChain, LockMain, BeginStep, StepDone, EndStep, ConnectUnreadable, CoinsElsewhere,
           InvalidateFinish, AbortNode, indexVars, diskVars
  <2>2. Trusted' => Trusted
    BY <2>1, Zenon DEF Trusted
  <2> QED BY <2>1, <2>2, <1>SameStep

<1>FindDirty.
    ASSUME TypeInv, DirtyInv, NEW t \in Threads, FindMostWorkChain(t) \/ ConnectInvalid(t)
    PROVE  DirtyInv'
  <2> USE <1>FindDirty
  <2>1. nStatus \in Status /\ HasTree(nStatus)
    BY TypeSplit DEF TypeInv, IndexOK, DirtyInv
  <2>2. phase' = phase /\ diskIndex' = diskIndex
    BY Zenon DEF FindMostWorkChain, ConnectInvalid, diskVars
  <2>3. HasTree(nStatus') /\ (OnDisk(nStatus, dirty) => OnDisk(nStatus', dirty'))
    <3>1. CASE FindMostWorkChain(t)
      <4>1. /\ dirty' = dirty
            /\ \A x \in Blocks : nStatus'[x] \in {nStatus[x], nStatus[x] \cup {"FAILED_CHILD"}}
        BY <3>1, Zenon DEF FindMostWorkChain
      <4> QED BY <2>1, <4>1, <1>FlagsStep, Zenon
    <3>2. CASE ConnectInvalid(t)
      <4> DEFINE n == NextBlock(t)
      <4>1. dirty' = dirty \cup {n} /\ nStatus' = [nStatus EXCEPT ![n] = @ \cup {"FAILED_VALID"}]
        BY <3>2, Zenon DEF ConnectInvalid
      <4> HIDE DEF n
      <4>2. \A x \in Blocks : nStatus'[x] = IF x = n THEN nStatus[x] \cup {"FAILED_VALID"} ELSE nStatus[x]
        BY <2>1, <4>1, Zenon DEF Status
      <4>3. /\ dirty \subseteq dirty'
            /\ \A x \in Blocks : nStatus'[x] = nStatus[x]
                                 \/ (x \in dirty' /\ nStatus'[x] = nStatus[x] \cup {"FAILED_VALID"})
        BY <4>1, <4>2, Zenon
      <4> QED BY <2>1, <4>3, <1>FlagsStep, Zenon
    <3> QED BY <3>1, <3>2
  <2> QED BY <2>2, <2>3, <1>MemoryStep, Zenon DEF Trusted

<1>ConnectTipDirty.
    ASSUME TypeInv, DirtyInv, NEW t \in Threads, phase \in {"running", "stopping"}, ConnectTip(t)
    PROVE  DirtyInv'
  <2> USE <1>ConnectTipDirty
  <2> DEFINE b == NextBlock(t)
             known == b = Genesis \/ ("SCRIPTS" \in nStatus[b] /\ ~Failed(nStatus, b))
             st == IF known \/ Failed(nStatus, b) THEN nStatus
                   ELSE [nStatus EXCEPT ![b] = @ \cup {"SCRIPTS"}]
             d == IF known THEN dirty ELSE dirty \cup {b}
  <2>1. /\ CanConnect(t) /\ "DATA" \in nStatus[b]
        /\ \/ FlushStateToDisk(st, d, unlinked, "if_needed") /\ phase' \in {phase, "assert"}
           \/ FlushFails(st, unlinked) /\ AbortNode(t)
    BY Zenon DEF ConnectTip
  <2>2. b \in Blocks
    BY <2>1, NextBlockType, Zenon
  <2>3. nStatus \in Status /\ dirty \subseteq Blocks /\ HasTree(nStatus) /\ HasTree(diskIndex)
    BY TypeSplit, Zenon DEF TypeInv, IndexOK, DirtyInv
  <2> HIDE DEF b, known
  <2>4. st \in Status /\ d \in SUBSET Blocks
    BY <2>2, <2>3, Zenon DEF Status, StatusFlags
  <2>5. HasTree(st) /\ (OnDisk(nStatus, dirty) => OnDisk(st, d))
    <3>1. CASE st = nStatus /\ dirty \subseteq d
      BY <2>3, <3>1, Zenon DEF OnDisk
    <3>2. CASE st = [nStatus EXCEPT ![b] = @ \cup {"SCRIPTS"}] /\ d = dirty \cup {b}
      <4>1. \A x \in Blocks : st[x] = IF x = b THEN nStatus[x] \cup {"SCRIPTS"} ELSE nStatus[x]
        BY <2>3, <3>2, Zenon DEF Status
      <4> HIDE DEF st, d
      <4>2. "TREE" \in nStatus[b]
        BY <2>1, <2>2, <2>3, Zenon DEF HasTree
      <4>3. /\ dirty \subseteq d
            /\ \A x \in Blocks : \/ st[x] = nStatus[x]
                                 \/ x \in d /\ st[x] = nStatus[x] \cup {"SCRIPTS"} /\ "TREE" \in nStatus[x]
        BY <3>2, <4>1, <4>2, Zenon
      <4> QED BY <2>3, <4>3, <1>FlagsStep, Zenon
    <3> QED BY <3>1, <3>2, Zenon
  <2> HIDE DEF st, d
  <2>6. CASE FlushStateToDisk(st, d, unlinked, "if_needed") /\ phase' \in {phase, "assert"}
    <3>1. Trusted' => OnDisk(st, d)
      BY <2>5, <2>6, Zenon DEF Trusted, DirtyInv
    <3> QED BY <2>3, <2>4, <2>5, <2>6, <3>1, <1>FlushDirty, Zenon
  <2>7. CASE FlushFails(st, unlinked) /\ AbortNode(t)
    BY <2>3, <2>5, <2>7, <1>FailDirty, Zenon
  <2> QED BY <2>1, <2>6, <2>7, Zenon

<1>DisconnectTipDirty.
    ASSUME DirtyInv, NEW t \in Threads, phase \in {"running", "stopping"},
           NEW st \in Status, NEW d \in SUBSET Blocks, HasTree(st),
           OnDisk(nStatus, dirty) => OnDisk(st, d), DisconnectTip(t, st, d)
    PROVE  DirtyInv'
  <2> USE <1>DisconnectTipDirty
  <2>1. HasTree(diskIndex)
    BY Zenon DEF DirtyInv
  <2>2. CASE AbortNode(t) /\ nStatus' = st /\ dirty' = d /\ UNCHANGED diskVars
    <3>1. diskIndex' = diskIndex /\ (Trusted' => Trusted)
      BY <2>2, Zenon DEF diskVars, AbortNode, Trusted
    <3> QED BY <2>2, <3>1, <1>MemoryStep, Zenon
  <2>5. CASE UndoUnreadable(t) /\ nStatus' = st /\ dirty' = d /\ UNCHANGED diskVars
    <3>1. diskIndex' = diskIndex /\ (Trusted' => Trusted)
      BY <2>5, Zenon DEF diskVars, UndoUnreadable, Trusted
    <3> QED BY <2>5, <3>1, <1>MemoryStep, Zenon
  <2>3. CASE FlushStateToDisk(st, d, unlinked, "if_needed") /\ phase' = phase
    <3>1. Trusted' => OnDisk(st, d)
      BY <2>3, Zenon DEF Trusted, DirtyInv
    <3> QED BY <2>1, <2>3, <3>1, <1>FlushDirty, Zenon
  <2>4. CASE FlushFails(st, unlinked) /\ AbortNode(t)
    BY <2>1, <2>4, <1>FailDirty, Zenon
  <2> QED BY <2>2, <2>3, <2>4, <2>5, Zenon DEF DisconnectTip

<1>DisconnectDirty.
    ASSUME TypeInv, DirtyInv, NEW t \in Threads, phase \in {"running", "stopping"},
           StepDisconnect(t) \/ InvalidateDisconnect(t)
    PROVE  DirtyInv'
  <2> USE <1>DisconnectDirty
  <2>1. nStatus \in Status /\ dirty \in SUBSET Blocks /\ HasTree(nStatus)
    BY TypeSplit, Zenon DEF TypeInv, IndexOK, DirtyInv
  <2>2. CASE StepDisconnect(t)
    BY <2>1, <2>2, <1>DisconnectTipDirty, Zenon DEF StepDisconnect
  <2>3. CASE InvalidateDisconnect(t)
    <3> DEFINE st == [nStatus EXCEPT ![tip] = @ \cup {"FAILED_CHILD"}]
    <3>1. DisconnectTip(t, st, dirty \cup {tip})
      BY <2>3, Zenon DEF InvalidateDisconnect
    <3>2. tip \in Blocks
      BY <2>3, TypeSplit, Zenon DEF InvalidateDisconnect, Active, TypeInv, ChainOK, MaybeBlock
    <3>3. /\ st \in Status
          /\ \A x \in Blocks : st[x] = IF x = tip THEN nStatus[x] \cup {"FAILED_CHILD"} ELSE nStatus[x]
      BY <2>1, <3>2, Zenon DEF Status, StatusFlags, FailedMask
    <3> HIDE DEF st
    <3>4. /\ HasTree(st)
          /\ OnDisk(nStatus, dirty) => OnDisk(st, dirty \cup {tip})
      <4>1. HasTree(st)
        <5>1. ASSUME NEW x \in Blocks, "TX" \in st[x] \/ "SCRIPTS" \in st[x] \/ "DATA" \in st[x]
              PROVE  "TREE" \in st[x]
          <6>1. st[x] = nStatus[x] \cup {"FAILED_CHILD"} \/ st[x] = nStatus[x]
            BY <3>3, Zenon
          <6>2. "TX" \in nStatus[x] \/ "SCRIPTS" \in nStatus[x] \/ "DATA" \in nStatus[x]
            BY <5>1, <6>1, SMTT(20)
          <6>3. "TREE" \in nStatus[x]
            BY <2>1, <6>2, Zenon DEF HasTree
          <6> QED BY <6>1, <6>3, Zenon
        <5> QED BY <5>1, Zenon DEF HasTree
      <4>2. \A x \in Blocks \ (dirty \cup {tip}) : x \in Blocks \ dirty /\ st[x] = nStatus[x]
        BY <3>3, Zenon
      <4> QED BY <4>1, <4>2, Zenon DEF OnDisk
    <3>5. dirty \cup {tip} \in SUBSET Blocks
      BY <2>1, <3>2, Zenon
    <3> QED BY <3>1, <3>3, <3>4, <3>5, <1>DisconnectTipDirty, Zenon
  <2> QED BY <2>2, <2>3, Zenon

<1>FinishDirty.
    ASSUME TypeInv, DirtyInv, NEW t \in Threads, phase # "down", FinishActivate(t) \/ PruneBlockFilesManual
    PROVE  DirtyInv'
  <2> USE <1>FinishDirty
  <2>1. nStatus \in Status /\ dirty \in SUBSET Blocks /\ HasTree(nStatus) /\ HasTree(diskIndex)
    BY TypeSplit, Zenon DEF TypeInv, IndexOK, DirtyInv
  <2>2. ASSUME NEW mode, FlushStateToDisk(nStatus, dirty, unlinked, mode), phase' = phase
        PROVE  DirtyInv'
    <3>1. Trusted' => OnDisk(nStatus, dirty)
      BY <2>2, Zenon DEF Trusted, DirtyInv
    <3> QED BY <2>1, <2>2, <3>1, <1>FlushDirty, Zenon
  <2>3. CASE FlushFails(nStatus, unlinked) /\ AbortNode(t)
    BY <2>1, <2>3, <1>FailDirty, Zenon
  <2>4. CASE FinishActivate(t)
    BY <2>2, <2>3, <2>4, Zenon DEF FinishActivate
  <2>5. CASE PruneBlockFilesManual
    BY <2>2, <2>5, Zenon DEF PruneBlockFilesManual
  <2> QED BY <2>4, <2>5, Zenon

<1>CommandDirty.
    ASSUME TypeInv, DirtyInv, NEW t \in Threads, NEW b \in Blocks,
           InvalidateBlock(t, b) \/ ResetBlockFailureFlags(t, b) \/ PreciousBlock(t, b)
    PROVE  DirtyInv'
  <2> USE <1>CommandDirty
  <2>1. nStatus \in Status /\ HasTree(nStatus)
    BY TypeSplit, Zenon DEF TypeInv, IndexOK, DirtyInv
  <2>2. phase' \in {phase, "assert"} /\ phase \in {"running", "stopping"} /\ diskIndex' = diskIndex
    BY Zenon DEF InvalidateBlock, ResetBlockFailureFlags, PreciousBlock, Command, Serving, diskVars
  <2>3. HasTree(nStatus') /\ (OnDisk(nStatus, dirty) => OnDisk(nStatus', dirty'))
    <3>1. CASE InvalidateBlock(t, b)
      <4>1. dirty' = dirty \cup {b} /\ nStatus' = [nStatus EXCEPT ![b] = @ \cup {"FAILED_VALID"}]
        BY <3>1, Zenon DEF InvalidateBlock
      <4>2. \A x \in Blocks : nStatus'[x] = IF x = b THEN nStatus[x] \cup {"FAILED_VALID"} ELSE nStatus[x]
        BY <2>1, <4>1, Zenon DEF Status
      <4>3. /\ dirty \subseteq dirty'
            /\ \A x \in Blocks : nStatus'[x] = nStatus[x]
                                 \/ (x \in dirty' /\ nStatus'[x] = nStatus[x] \cup {"FAILED_VALID"})
        BY <4>1, <4>2, Zenon
      <4> QED BY <2>1, <4>3, <1>FlagsStep, Zenon
    <3>2. CASE ResetBlockFailureFlags(t, b)
      <4> DEFINE changed == {x \in Blocks : b \in Ancestors[x] /\ ~IsValid(nStatus, x) /\ nStatus[x] # {}}
                               \cup {x \in Ancestors[b] : Failed(nStatus, x)}
      <4>0. /\ nStatus' = [x \in Blocks |-> IF x \in changed THEN nStatus[x] \ FailedMask ELSE nStatus[x]]
            /\ dirty' = dirty \cup changed
        BY <3>2, Zenon DEF ResetBlockFailureFlags
      <4> HIDE DEF changed
      <4>1. /\ dirty \subseteq dirty'
            /\ \A x \in Blocks :
                  nStatus'[x] = nStatus[x] \/ (x \in dirty' /\ nStatus'[x] = nStatus[x] \ FailedMask)
        BY <4>0, Zenon
      <4> QED BY <2>1, <4>1, Zenon DEF HasTree, OnDisk, FailedMask
    <3>3. CASE PreciousBlock(t, b)
      BY <2>1, <3>3, Zenon DEF PreciousBlock
    <3> QED BY <3>1, <3>2, <3>3, Zenon
  <2> QED BY <2>2, <2>3, <1>MemoryStep, Zenon DEF Trusted

<1>ProcessDirty.
    ASSUME TypeInv, DirtyInv,
           FlushCoins \/ StartShutdown \/ Shutdown \/ Crash \/ AssertFails \/ Restart
    PROVE  DirtyInv'
  <2> USE <1>ProcessDirty
  <2>1. CASE FlushCoins \/ StartShutdown
    <3>1. UNCHANGED <<nStatus, dirty, diskIndex>> /\ (Trusted' => Trusted)
      BY <2>1, Zenon DEF FlushCoins, StartShutdown, indexVars, diskVars, Trusted
    <3> QED BY <3>1, <1>SameStep
  <2>2. CASE Shutdown \/ Crash \/ AssertFails
    <3>1. MemoryLost /\ (diskIndex' = diskIndex \/ diskIndex' = Written(nStatus, dirty))
      BY <2>2, Zenon DEF Shutdown, Crash, AssertFails
    <3>2. HasTree(nStatus') /\ ~Trusted'
      BY <3>1, Zenon DEF MemoryLost, HasTree, Trusted
    <3>3. HasTree(diskIndex')
      BY <3>1, Zenon DEF DirtyInv, HasTree, Written
    <3> QED BY <3>2, <3>3, Zenon DEF DirtyInv, HasTree
  <2>3. CASE Restart
    <3>1. nStatus' = diskIndex /\ diskIndex' = diskIndex
      BY <2>3 DEF Restart, diskVars
    <3> QED BY <3>1, Zenon DEF DirtyInv, HasTree, OnDisk
  <2> QED BY <2>1, <2>2, <2>3, Zenon

<1> SUFFICES ASSUME TypeInv, DirtyInv, [Next]_vars PROVE DirtyInv'
  BY Zenon
<1>1. ASSUME NEW t \in Threads, Step(t) PROVE DirtyInv'
  BY <1>1, <1>ControlDirty, <1>FindDirty, <1>ConnectTipDirty, <1>DisconnectDirty, <1>FinishDirty, Zenon DEF Step
<1>2. CASE PruneBlockFilesManual
  <2>1. PICK t \in Threads : TRUE
    BY ProcessAssumption, Zenon
  <2>2. phase # "down"
    BY <1>2, Zenon DEF PruneBlockFilesManual, Serving
  <2> QED BY <1>2, <2>1, <2>2, <1>FinishDirty, Zenon
<1>3. CASE UNCHANGED vars
  <2>1. UNCHANGED <<nStatus, dirty, diskIndex, phase>>
    BY <1>3, Zenon DEF vars, indexVars, diskVars
  <2> QED BY <2>1, <1>SameStep DEF Trusted
<1> QED BY <1>1, <1>2, <1>3, <1>ReceiveDirty, <1>CommandDirty, <1>ProcessDirty DEF Next, Operate

LEMMA DirtyInit == Init => TypeInv /\ DirtyInv
<1> SUFFICES ASSUME Init PROVE TypeInv /\ DirtyInv
  OBVIOUS
<1>1. TypeInv
  BY InitType, IdleType, Zenon DEF TypeInv, Init, TargetOK, DownOK
<1>2. DirtyInv
  BY Zenon DEF Init, DirtyInv, HasTree, OnDisk
<1> QED BY <1>1, <1>2

\* A running node can lose no change of its block index but FAILED_CHILD marks:
\* every other change of nStatus has put the block in setDirtyBlockIndex, and
\* FlushStateToDisk has written what it took out, also when writes to the disk fail.
THEOREM DirtyCorrect == Spec => []DirtyIsComplete
BY DirtyInit, TypeNext, DirtyNext, DirtyInvImplies, PTL DEF Spec

----------------------------------------------------------------------------
(* The coins and the tip.                                                  *)

\* A tip and coins that differ are those of a node that has no chain yet (the index
\* database did not know the best block of the coins) or that is stopping.
CoinsInv == phase = "running" /\ tip # None => coinsBest = tip

LEMMA CoinsStep ==
    ASSUME CoinsInv, phase' = "running" => phase = "running" /\ UNCHANGED <<tip, coinsBest>>
    PROVE  CoinsInv'
BY DEF CoinsInv

LEMMA CoinsNext == CoinsInv /\ [Next]_vars => CoinsInv'
<1> SUFFICES ASSUME CoinsInv, [Next]_vars PROVE CoinsInv'
  OBVIOUS
<1>1. ASSUME NEW t \in Threads, Step(t) PROVE CoinsInv'
  <2>1. CASE \/ ActivateBestChain(t) \/ LockMain(t) \/ FindMostWorkChain(t) \/ BeginStep(t) \/ StepDone(t)
             \/ ConnectUnreadable(t) \/ ConnectInvalid(t) \/ CoinsElsewhere(t)
             \/ EndStep(t) \/ InvalidateFinish(t)
    <3>1. phase' = "running" => phase = "running" /\ UNCHANGED <<tip, coinsBest>>
      BY <2>1, Zenon DEF ActivateBestChain, LockMain, FindMostWorkChain, BeginStep, StepDone,
                  ConnectUnreadable, ConnectInvalid, CoinsElsewhere, EndStep, InvalidateFinish, AbortNode
    <3> QED BY <3>1, CoinsStep
  <2>2. CASE FinishActivate(t)
    <3>1. phase' = "running" => phase = "running" /\ UNCHANGED <<tip, coinsBest>>
      BY <2>2, Zenon DEF FinishActivate, AbortNode
    <3> QED BY <3>1, CoinsStep
  <2>3. CASE ConnectTip(t)
    BY <2>3, Zenon DEF ConnectTip, AbortNode, CoinsInv
  <2>4. ASSUME NEW st, NEW d, DisconnectTip(t, st, d) PROVE CoinsInv'
    <3>1. CASE AbortNode(t)
      BY <3>1, Zenon DEF AbortNode, CoinsInv
    <3>2. CASE UndoUnreadable(t) /\ UNCHANGED <<tip, coinsBest, diskVars>>
      BY <3>2, CoinsStep, Zenon DEF UndoUnreadable
    <3>3. CASE tip' = Below(tip) /\ coinsBest' = Below(tip)
      BY <3>3, Zenon DEF CoinsInv
    <3> QED BY <2>4, <3>1, <3>2, <3>3, Zenon DEF DisconnectTip
  <2>5. CASE StepDisconnect(t) \/ InvalidateDisconnect(t)
    BY <2>4, <2>5, Zenon DEF StepDisconnect, InvalidateDisconnect
  <2> QED BY <1>1, <2>1, <2>2, <2>3, <2>5, Zenon DEF Step
<1>2. ASSUME NEW t, NEW b, NEW fRequested,
             \/ ProcessNewBlockHeaders(b) \/ SkipBlock(t, b, fRequested)
             \/ RejectBlock(t, b, fRequested) \/ AcceptBlock(t, b, fRequested)
             \/ InvalidateBlock(t, b) \/ ResetBlockFailureFlags(t, b) \/ PreciousBlock(t, b)
      PROVE  CoinsInv'
  <2>1. phase' = "running" => phase = "running" /\ UNCHANGED <<tip, coinsBest>>
    BY <1>2, Zenon DEF ProcessNewBlockHeaders, SkipBlock, RejectBlock, AcceptBlock, InvalidateBlock,
                ResetBlockFailureFlags, PreciousBlock
  <2> QED BY <2>1, CoinsStep
<1>3. CASE \/ FlushCoins \/ PruneBlockFilesManual \/ StartShutdown \/ Shutdown \/ Crash \/ AssertFails
           \/ UNCHANGED vars
  <2>1. phase' = "running" => phase = "running" /\ UNCHANGED <<tip, coinsBest>>
    BY <1>3, Zenon DEF FlushCoins, PruneBlockFilesManual, StartShutdown, Shutdown, Crash, AssertFails,
                MemoryLost, vars
  <2> QED BY <2>1, CoinsStep
<1>4. CASE Restart
  BY <1>4, Zenon DEF Restart, CoinsInv
<1> QED BY <1>1, <1>2, <1>3, <1>4, Zenon DEF Next, Operate

\* Whenever another thread can look (cs_main is free) at a running node with a
\* chain, pcoinsTip is at the tip: ConnectTip and DisconnectTip move both or, when
\* the write between them fails, request a shutdown.
THEOREM CoinsFollowTip == Spec => []CoinsAtTip
<1>1. Init => CoinsInv
  BY Zenon DEF Init, CoinsInv
<1>2. CoinsInv => CoinsAtTip
  BY DEF CoinsInv, CoinsAtTip, Visible
<1> QED BY <1>1, <1>2, CoinsNext, PTL DEF Spec
================================================================================
