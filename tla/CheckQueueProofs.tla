---------------------------- MODULE CheckQueueProofs ----------------------------
(***************************************************************************)
(* Proofs about CheckQueue, for any number of workers, checks and blocks,  *)
(* with spurious wake-ups and interruptions: the counters are right, the   *)
(* verdict is right, and no check outlives its control.                    *)
(***************************************************************************)
EXTENDS CheckQueue, FiniteSetTheorems, WellFoundedInduction, TLAPS

Held == UNION {threads[t].batch : t \in Threads}
Pending == queue \cup Held
Asleep == {t \in Threads : threads[t].pc \in {"wait", "woken"}}

\* The checks of a block are numbered from 1.
Numbered == \E k \in Nat : added = 1 .. k

\* nTotal counts the sleeping threads and those with a batch.  A thread that is
\* interrupted stays in both counters, so nIdle may count more than sleep.
CountsInv == nTotal = nIdle + Cardinality(Holding) /\ nIdle >= Cardinality(Asleep)

\* What the flags say about the checks while a control exists: as long as
\* fAllOk holds, every check that is no longer pending was executed and passed; a flag
\* that is down is there because a failing check was executed.
FlagsInv ==
    /\ fAllOk => added \ Pending \subseteq ran \ bad
    /\ ~fAllOk => bad \cap ran # {}
    /\ \A t \in Threads :
          /\ threads[t].pc = "ready" /\ threads[t].ok => threads[t].batch \subseteq ran \ bad
          /\ ~threads[t].ok => bad \cap ran # {}

\* A thread without a batch starts the next one with a good result.
OkInv == \A t \in Threads : ~threads[t].ok => t \in Holding

\* Between two blocks nothing is pending; a verdict is there only then.
ControlInv ==
    /\ control = "none" => queue = {} /\ Holding = {} /\ fAllOk
    /\ verdict # "none" => control = "none"

IInv ==
    /\ TypeOK /\ Numbered /\ TodoCountsPending /\ CountsInv /\ OkInv
    /\ (control # "none" => FlagsInv)
    /\ ControlInv /\ VerdictRight

----------------------------------------------------------------------------
(* Facts about sets of numbers.                                            *)

\* A set of naturals that has a member has a least one.
LEMMA LeastNatural ==
    ASSUME NEW S \in SUBSET Nat, S # {}
    PROVE  \E x \in S : \A y \in S : x <= y
<1> DEFINE R == OpToRel(<, Nat)
<1>1. IsWellFoundedOn(R, Nat)
  BY NatLessThanWellFounded, Zenon
<1>2. \A x, y \in Nat : x < y => <<x, y>> \in R
  BY DEF OpToRel
<1> HIDE DEF R
<1>3. PICK x \in S : \A y \in S : ~ (<<y, x>> \in R)
  BY <1>1, WFMin, Zenon
<1>4. ASSUME NEW y \in S, ~ (x <= y) PROVE FALSE
  <2>1. x \in Nat /\ y \in Nat /\ y < x
    BY <1>4
  <2> QED BY <2>1, <1>2, <1>3, Zenon
<1> QED BY <1>4

\* The checks of a queue that is not empty have a last one, its back.
LEMMA Back ==
    ASSUME NEW n \in Nat, NEW S \in SUBSET (1 .. n), S # {}
    PROVE  \E x \in S : \A y \in S : y <= x
<1> DEFINE T == {k \in Nat : k <= n /\ n - k \in S}
<1>1. T # {}
  <2> PICK x \in S : TRUE BY Zenon
  <2> n - x \in T OBVIOUS
  <2> QED BY Zenon
<1>2. PICK k \in T : \A j \in T : k <= j
  BY <1>1, LeastNatural, Zenon
<1>3. \A y \in S : n - y \in T
  OBVIOUS
<1>4. \A y \in S : y <= n - k
  BY <1>2, <1>3
<1> QED BY <1>2, <1>4

\* Every set of checks is finite.
LEMMA ChecksFinite ==
    ASSUME NEW S \in SUBSET (1 .. MaxChecks)
    PROVE  IsFiniteSet(S) /\ Cardinality(S) \in Nat
<1>1. IsFiniteSet(1 .. MaxChecks)
  BY QueueAssumption, FS_Interval
<1> QED BY <1>1, FS_Subset, FS_CardinalityType, Zenon

\* Every set of threads is finite.
LEMMA ThreadsFinite ==
    ASSUME NEW S \in SUBSET Threads
    PROVE  IsFiniteSet(S) /\ Cardinality(S) \in Nat
<1>1. IsFiniteSet(Threads)
  BY QueueAssumption, FS_AddElement DEF Threads
<1> QED BY <1>1, FS_Subset, FS_CardinalityType

\* Membership in Held, without the union.
LEMMA HeldDef == \A c : c \in Held <=> \E t \in Threads : c \in threads[t].batch
  BY DEF Held

----------------------------------------------------------------------------
(* The clean-up at the beginning of a critical section.                    *)

\* What the clean-up makes of nTodo: the pending checks without the batch that is
\* being given back.
LEMMA TodoAfter ==
    ASSUME TypeOK, TodoCountsPending, NEW t \in Threads, Locking(t)
    PROVE  /\ Todo(t) = Cardinality(Pending \ threads[t].batch)
           /\ Pending \subseteq 1 .. MaxChecks
           /\ Todo(t) \in Nat
<1> DEFINE batch == threads[t].batch
<1>1. Pending \subseteq 1 .. MaxChecks /\ batch \subseteq Pending /\ batch \subseteq 1 .. MaxChecks
  BY HeldDef, Zenon DEF Pending, TypeOK
<1>2. nTodo = Cardinality(Pending)
  BY DEF TodoCountsPending, Pending, Held
<1>3. /\ IsFiniteSet(Pending) /\ Cardinality(Pending) \in Nat /\ Cardinality(batch) \in Nat
      /\ Cardinality(Pending \ batch) \in Nat
  <2>1. Pending \ batch \subseteq 1 .. MaxChecks
    BY <1>1, Zenon
  <2> QED BY <1>1, <2>1, ChecksFinite
<1>4. Cardinality(Pending \ batch) = Cardinality(Pending) - Cardinality(batch)
  <2>1. Pending \cap batch = batch
    BY <1>1
  <2> QED BY <1>3, <2>1, FS_Difference, Zenon
<1>5. CASE threads[t].pc = "ready"
  BY <1>1, <1>2, <1>3, <1>4, <1>5 DEF Todo
<1>6. CASE threads[t].pc # "ready"
  <2>1. batch = {}
    BY <1>6 DEF TypeOK, Locking, Holding
  <2>2. Pending \ batch = Pending
    BY <2>1
  <2> QED BY <1>1, <1>2, <1>3, <1>6, <2>2 DEF Todo
<1> QED BY <1>5, <1>6

\* What it makes of nTotal and nIdle: the thread counts as one that is neither
\* asleep nor holding checks.
LEMMA CountsAfter ==
    ASSUME TypeOK, CountsInv, NEW t \in Threads, Locking(t)
    PROVE  /\ Idle(t) \in Nat /\ Cardinality(Holding \ {t}) \in Nat
           /\ Total(t) = Idle(t) + 1 + Cardinality(Holding \ {t})
           /\ Idle(t) >= Cardinality(Asleep \ {t})
           /\ Cardinality(Asleep \ {t}) \in Nat
<1>1. IsFiniteSet(Holding) /\ Cardinality(Holding) \in Nat /\ IsFiniteSet(Asleep)
      /\ Cardinality(Asleep) \in Nat
  BY ThreadsFinite DEF Holding, Asleep
<1>2. Cardinality(Holding \ {t}) = IF t \in Holding THEN Cardinality(Holding) - 1
                                                   ELSE Cardinality(Holding)
  BY <1>1, FS_RemoveElement, Zenon
<1>3. Cardinality(Asleep \ {t}) = IF t \in Asleep THEN Cardinality(Asleep) - 1
                                                 ELSE Cardinality(Asleep)
  BY <1>1, FS_RemoveElement, Zenon
<1>4. Cardinality(Holding \ {t}) \in Nat /\ Cardinality(Asleep \ {t}) \in Nat
  BY ThreadsFinite DEF Holding, Asleep
<1>5. nTotal \in Nat /\ nIdle \in Nat /\ nTotal = nIdle + Cardinality(Holding)
      /\ nIdle >= Cardinality(Asleep)
  BY DEF TypeOK, CountsInv
<1>6. CASE threads[t].pc = "enter"
  <2>1. t \notin Holding /\ t \notin Asleep
    BY <1>6 DEF Holding, Asleep
  <2> QED BY <1>1, <1>2, <1>3, <1>4, <1>5, <1>6, <2>1 DEF Idle, Total
<1>7. CASE threads[t].pc = "ready"
  <2>1. t \in Holding /\ t \notin Asleep
    BY <1>7 DEF Holding, Asleep
  <2> QED BY <1>1, <1>2, <1>3, <1>4, <1>5, <1>7, <2>1 DEF Idle, Total
<1>8. CASE threads[t].pc = "woken"
  <2>1. t \notin Holding /\ t \in Asleep
    BY <1>8 DEF Holding, Asleep
  <2> QED BY <1>1, <1>2, <1>3, <1>4, <1>5, <1>8, <2>1 DEF Idle, Total
<1> QED BY <1>6, <1>7, <1>8 DEF Locking

----------------------------------------------------------------------------
(* What a step leaves of the threads that do not take it.                  *)

Local(S) == [pc : PCs, batch : SUBSET S, ok : BOOLEAN]

\* A thread that another one's step may have woken, and not more.
AtMostWoken(r, s) ==
    s.batch = r.batch /\ s.ok = r.ok /\ (s.pc = r.pc \/ (r.pc = "wait" /\ s.pc = "woken"))

\* A thread that waits has neither a batch nor a bad result.
LEMMA WaitingIsFresh ==
    ASSUME TypeOK, OkInv, NEW t \in Threads, threads[t].pc = "wait"
    PROVE  threads[t].batch = {} /\ threads[t].ok
<1>1. t \notin Holding
  BY DEF Holding
<1> QED BY <1>1 DEF TypeOK, OkInv

\* NotifyMaster wakes the master and does nothing else.
LEMMA NotifyShape ==
    ASSUME TypeOK, OkInv, NEW t \in Threads, NEW r \in Local(added),
           NEW ths, ths = [threads EXCEPT ![t] = r] \/ ths = threads
    PROVE  /\ NotifyMaster(t, ths) \in [Threads -> Local(added)]
           /\ NotifyMaster(t, ths)[t] = ths[t]
           /\ \A u \in Threads \ {t} : AtMostWoken(threads[u], NotifyMaster(t, ths)[u])
<1> DEFINE w == At("woken", {}, TRUE)
<1>1. Master \in Threads /\ w \in Local(added) /\ threads \in [Threads -> Local(added)]
      /\ w.pc = "woken" /\ w.batch = {} /\ w.ok = TRUE
  BY DEF Threads, At, Local, PCs, TypeOK
<1>2. ths \in [Threads -> Local(added)] /\ \A u \in Threads \ {t} : ths[u] = threads[u]
  BY <1>1
<1>3. CASE t # Master /\ ths[Master].pc = "wait" /\ NotifyMaster(t, ths) = [ths EXCEPT ![Master] = w]
  <2>1. threads[Master].pc = "wait" /\ threads[Master].batch = {} /\ threads[Master].ok = TRUE
    BY <1>1, <1>2, <1>3, WaitingIsFresh DEF Local
  <2> HIDE DEF w
  <2> QED BY <1>1, <1>2, <1>3, <2>1, Zenon DEF AtMostWoken
<1>4. CASE NotifyMaster(t, ths) = ths
  BY <1>1, <1>2, <1>4 DEF AtMostWoken
<1> QED BY <1>3, <1>4, Zenon DEF NotifyMaster

----------------------------------------------------------------------------
(* What a critical section of Loop does, whichever way it ends.            *)

\* The step of thread t: the others are at most woken, and t has given back its
\* batch and taken a new one, maybe none, from the queue.
Section(t) ==
    /\ threads' \in [Threads -> Local(added)]
    /\ \A u \in Threads \ {t} : AtMostWoken(threads[u], threads'[u])
    /\ queue' \cup threads'[t].batch = queue
    /\ queue' \cap threads'[t].batch = {}
    /\ threads'[t].batch # {} <=> threads'[t].pc = "run"
    /\ threads'[t].pc # "ready" /\ (threads'[t].pc # "run" => threads'[t].ok)
    /\ nTodo' = Todo(t) /\ added' = added /\ bad' = bad /\ ran' = ran

\* nTodo counts the checks that are left.
LEMMA SectionTodo ==
    ASSUME TypeOK, TodoCountsPending, NEW t \in Threads, Locking(t), Section(t)
    PROVE  Pending' = Pending \ threads[t].batch /\ TodoCountsPending'
<1>1. \A u \in Threads \ {t} : threads'[u].batch = threads[u].batch
  BY DEF Section, AtMostWoken
<1>2. /\ \A u \in Threads : threads[u].batch \cap queue = {}
      /\ \A u, v \in Threads : u # v => threads[u].batch \cap threads[v].batch = {}
  BY DEF TodoCountsPending
<1>3. \A c : c \in Held' <=> \E u \in Threads : c \in threads'[u].batch
  BY DEF Held
<1>4. queue' \subseteq queue /\ threads'[t].batch \subseteq queue
      /\ \A c \in queue : c \in queue' \/ c \in threads'[t].batch
  BY DEF Section
<1>5. Pending' = Pending \ threads[t].batch
  <2>1. ASSUME NEW c \in Pending' PROVE c \in Pending \ threads[t].batch
    <3>1. CASE c \in queue
      BY <1>2, <3>1 DEF Pending
    <3>2. CASE c \notin queue
      <4>1. PICK u \in Threads : c \in threads'[u].batch
        BY <1>3, <1>4, <2>1, <3>2 DEF Pending
      <4>2. u # t
        BY <1>4, <3>2, <4>1
      <4>3. c \in threads[u].batch
        BY <1>1, <4>1, <4>2
      <4> QED BY <1>2, <4>2, <4>3, HeldDef DEF Pending
    <3> QED BY <3>1, <3>2
  <2>2. ASSUME NEW c \in Pending, c \notin threads[t].batch PROVE c \in Pending'
    <3>1. CASE c \in queue
      BY <1>3, <1>4, <3>1 DEF Pending
    <3>2. CASE c \notin queue
      <4>1. PICK u \in Threads : c \in threads[u].batch
        BY <2>2, <3>2, HeldDef DEF Pending
      <4>2. c \in threads'[u].batch
        BY <1>1, <2>2, <4>1
      <4> QED BY <1>3, <4>2 DEF Pending
    <3> QED BY <3>1, <3>2
  <2> QED BY <2>1, <2>2
<1>6. nTodo' = Cardinality(Pending')
  BY <1>5, TodoAfter DEF Section
<1>7. \A u \in Threads : threads'[u].batch \cap queue' = {}
  BY <1>1, <1>2, <1>4 DEF Section
<1>8. ASSUME NEW u \in Threads, NEW v \in Threads, u # v
      PROVE  threads'[u].batch \cap threads'[v].batch = {}
  <2>1. CASE u = t
    BY <1>1, <1>2, <1>4, <1>8, <2>1
  <2>2. CASE v = t
    BY <1>1, <1>2, <1>4, <1>8, <2>2
  <2>3. CASE u # t /\ v # t
    BY <1>1, <1>2, <1>8, <2>3
  <2> QED BY <2>1, <2>2, <2>3
<1> QED BY <1>5, <1>6, <1>7, <1>8 DEF TodoCountsPending, Pending, Held

\* Nobody else starts or stops holding checks or sleeping.
LEMMA SectionHolding ==
    ASSUME TypeOK, NEW t \in Threads, Section(t)
    PROVE  /\ Holding' \ {t} = Holding \ {t} /\ Asleep' \ {t} = Asleep \ {t}
           /\ t \in Holding' <=> threads'[t].pc = "run"
           /\ \A u \in Threads : threads'[u].batch # {} <=> u \in Holding'
<1>1. \A u \in Threads \ {t} : AtMostWoken(threads[u], threads'[u])
  BY DEF Section
<1>2. \A u \in Threads \ {t} : u \in Holding' <=> u \in Holding
  BY <1>1 DEF AtMostWoken, Holding
<1>3. \A u \in Threads \ {t} : u \in Asleep' <=> u \in Asleep
  BY <1>1 DEF AtMostWoken, Asleep
<1>4. t \in Holding' <=> threads'[t].pc = "run"
  BY DEF Section, Holding
<1>5. Holding' \subseteq Threads /\ Holding \subseteq Threads /\ Asleep' \subseteq Threads
      /\ Asleep \subseteq Threads
  BY DEF Holding, Asleep
<1>6. \A u \in Threads : threads'[u].batch # {} <=> u \in Holding'
  BY <1>1, <1>2, <1>4 DEF Section, AtMostWoken, TypeOK
<1> QED BY <1>2, <1>3, <1>4, <1>5, <1>6

\* Only failures that were executed take fAllOk down.
LEMMA SectionFlags ==
    ASSUME TypeOK, TodoCountsPending, FlagsInv, OkInv, NEW t \in Threads, Locking(t), Section(t),
           fAllOk' = AllOk(t), threads'[t].pc = "run" => threads'[t].ok = AllOk(t)
    PROVE  FlagsInv'
<1>1. Pending' = Pending \ threads[t].batch
  BY SectionTodo
<1>2. AllOk(t) \in BOOLEAN /\ threads[t].ok \in BOOLEAN /\ fAllOk \in BOOLEAN
  BY DEF AllOk, TypeOK
<1>3. ~AllOk(t) => bad \cap ran # {}
  BY <1>2 DEF AllOk, FlagsInv
<1>4. AllOk(t) => fAllOk /\ threads[t].batch \subseteq ran \ bad
  <2>1. CASE threads[t].pc = "ready"
    BY <1>2, <2>1 DEF AllOk, FlagsInv
  <2>2. CASE threads[t].pc # "ready"
    <3>1. t \notin Holding
      BY <2>2 DEF Holding, Locking
    <3>2. threads[t].batch = {}
      BY <3>1 DEF TypeOK
    <3> QED BY <1>2, <2>2, <3>2 DEF AllOk
  <2> QED BY <2>1, <2>2
<1>5. fAllOk' => added' \ Pending' \subseteq ran' \ bad'
  BY <1>1, <1>4 DEF FlagsInv, Section
<1>6. ASSUME NEW u \in Threads
      PROVE  /\ threads'[u].pc = "ready" /\ threads'[u].ok => threads'[u].batch \subseteq ran' \ bad'
             /\ ~threads'[u].ok => bad' \cap ran' # {}
  <2>1. CASE u = t
    BY <1>3, <2>1 DEF Section
  <2>2. CASE u # t
    <3>1. AtMostWoken(threads[u], threads'[u])
      BY <2>2 DEF Section
    <3> QED BY <3>1 DEF AtMostWoken, FlagsInv, Section
  <2> QED BY <2>1, <2>2
<1> QED BY <1>2, <1>3, <1>5, <1>6 DEF FlagsInv, Section
\* The counters after a section that ends in neither a wait nor a batch, in a wait,
\* or in a batch.
LEMMA SectionCounts ==
    ASSUME TypeOK, CountsInv, NEW t \in Threads, Locking(t), Section(t),
           \/ /\ nTotal' = Total(t) - 1 /\ nIdle' = Idle(t)
              /\ threads'[t].pc \notin {"run", "wait", "woken"}
           \/ /\ nTotal' = Total(t) /\ nIdle' = Idle(t) + 1 /\ threads'[t].pc # "run"
           \/ /\ nTotal' = Total(t) /\ nIdle' = Idle(t) /\ threads'[t].pc = "run"
    PROVE  CountsInv' /\ nTotal' \in Nat /\ nIdle' \in Nat
<1> DEFINE H == Holding \ {t}
           A == Asleep \ {t}
<1>1. /\ Idle(t) \in Nat /\ Cardinality(H) \in Nat /\ Total(t) = Idle(t) + 1 + Cardinality(H)
      /\ Idle(t) >= Cardinality(A) /\ Cardinality(A) \in Nat
  BY CountsAfter, Zenon
<1>2. IsFiniteSet(H) /\ IsFiniteSet(A) /\ t \notin H /\ t \notin A
  BY ThreadsFinite DEF Holding, Asleep
<1>3. Cardinality(H \cup {t}) = Cardinality(H) + 1 /\ Cardinality(A \cup {t}) = Cardinality(A) + 1
  BY <1>2, FS_AddElement, Zenon
<1>4. Holding' = IF threads'[t].pc = "run" THEN H \cup {t} ELSE H
  BY SectionHolding
<1>5. Asleep' = IF threads'[t].pc \in {"wait", "woken"} THEN A \cup {t} ELSE A
  <2>1. t \in Asleep' <=> threads'[t].pc \in {"wait", "woken"}
    BY DEF Asleep
  <2> QED BY <2>1, SectionHolding
<1> HIDE DEF H, A
<1>6. CASE nTotal' = Total(t) - 1 /\ nIdle' = Idle(t) /\ threads'[t].pc \notin {"run", "wait", "woken"}
  <2>1. Holding' = H /\ Asleep' = A
    BY <1>4, <1>5, <1>6
  <2> QED BY <1>1, <1>6, <2>1 DEF CountsInv
<1>7. CASE nTotal' = Total(t) /\ nIdle' = Idle(t) + 1 /\ threads'[t].pc # "run"
  <2>1. Holding' = H /\ Cardinality(Asleep') <= Cardinality(A) + 1 /\ Cardinality(Asleep') \in Nat
    BY <1>1, <1>3, <1>4, <1>5, <1>7
  <2> QED BY <1>1, <1>7, <2>1 DEF CountsInv
<1>8. CASE nTotal' = Total(t) /\ nIdle' = Idle(t) /\ threads'[t].pc = "run"
  <2>1. Cardinality(Holding') = Cardinality(H) + 1 /\ Asleep' = A
    BY <1>3, <1>4, <1>5, <1>8
  <2> QED BY <1>1, <1>8, <2>1 DEF CountsInv
<1> QED BY <1>6, <1>7, <1>8

\* A thread that finds work takes at least one check.
LEMMA TakesSome ==
    ASSUME TypeOK, CountsInv, NEW t \in Threads, Locking(t), queue # {}
    PROVE  {c \in queue : Cardinality({d \in queue : d > c}) < nNow(t)} # {}
<1>1. queue \subseteq 1 .. MaxChecks /\ MaxChecks \in Nat /\ nBatchSize \in Nat \ {0}
  BY QueueAssumption DEF TypeOK
<1>2. PICK c \in queue : \A d \in queue : d <= c
  BY <1>1, Back, Zenon
<1>3. {d \in queue : d > c} = {}
  <2>1. ASSUME NEW d \in queue, d > c PROVE FALSE
    <3>1. d <= c /\ d \in Int /\ c \in Int
      BY <1>1, <1>2
    <3> QED BY <2>1, <3>1
  <2> QED BY <2>1
<1>4. Cardinality({d \in queue : d > c}) = 0
  BY <1>3, FS_EmptySet
<1>5. nNow(t) \in Nat /\ nNow(t) >= 1
  <2>1. Cardinality(queue) \in Nat
    BY <1>1, ChecksFinite
  <2>2. Total(t) + Idle(t) + 1 \in Nat \ {0}
    <3>1. /\ Idle(t) \in Nat /\ Cardinality(Holding \ {t}) \in Nat
          /\ Total(t) = Idle(t) + 1 + Cardinality(Holding \ {t})
      BY CountsAfter, Zenon
    <3> QED BY <3>1
  <2>3. Cardinality(queue) \div (Total(t) + Idle(t) + 1) \in Int
    BY <2>1, <2>2
  <2> QED BY <1>1, <2>3 DEF nNow
<1>6. 0 < nNow(t)
  BY <1>5
<1> QED BY <1>2, <1>4, <1>6

----------------------------------------------------------------------------
(* The three ways a critical section ends are sections.                    *)

LEMMA ReturnIsSection ==
    ASSUME TypeOK, OkInv, NEW t \in Threads, Return(t)
    PROVE  /\ Section(t) /\ Locking(t) /\ t = Master /\ Todo(t) = 0
           /\ threads'[t].pc = "out" /\ queue = {}
<1> DEFINE r == At("out", {}, TRUE)
<1>1. r \in Local(added) /\ r.pc = "out" /\ r.batch = {} /\ r.ok = TRUE
  BY DEF At, Local, PCs
<1>2. threads \in [Threads -> Local(added)] /\ threads' = [threads EXCEPT ![t] = r]
  BY DEF TypeOK, Local, Return
<1> HIDE DEF r
<1>3. threads' \in [Threads -> Local(added)] /\ threads'[t] = r
      /\ \A u \in Threads \ {t} : threads'[u] = threads[u]
  BY <1>1, <1>2
<1> QED BY <1>1, <1>3, Zenon DEF Return, Section, AtMostWoken, MayReturn

LEMMA SleepIsSection ==
    ASSUME TypeOK, OkInv, NEW t \in Threads, Sleep(t)
    PROVE  /\ Section(t) /\ Locking(t) /\ queue = {}
           /\ threads'[t].pc \in {"wait", "gone", "enter"}
           /\ interrupted' \subseteq interrupted
           /\ t # Master => control' = control
           /\ t = Master => \/ threads'[t].pc \in {"wait", "gone", "enter"} /\ control' = control
                            \/ control' \in {"leaving", "terminated"}
<1> DEFINE r == At("wait", {}, TRUE)
           gone == At("gone", {}, TRUE)
           enter == At("enter", {}, TRUE)
<1>1. /\ r \in Local(added) /\ r.pc = "wait" /\ r.batch = {} /\ r.ok = TRUE
      /\ gone \in Local(added) /\ gone.pc = "gone" /\ gone.batch = {} /\ gone.ok = TRUE
      /\ enter \in Local(added) /\ enter.pc = "enter" /\ enter.batch = {} /\ enter.ok = TRUE
  BY DEF At, Local, PCs
<1> HIDE DEF r, gone, enter
<1>2. CASE t \notin interrupted
  <2>1. threads' = NotifyMaster(t, [threads EXCEPT ![t] = r]) /\ interrupted' = interrupted
        /\ control' = control
    BY <1>2 DEF Sleep, r
  <2>2. threads' \in [Threads -> Local(added)] /\ threads'[t] = r
        /\ \A u \in Threads \ {t} : AtMostWoken(threads[u], threads'[u])
    BY <1>1, <2>1, NotifyShape, Zenon DEF TypeOK
  <2> QED BY <1>1, <2>1, <2>2, Zenon DEF Sleep, Section, block
<1>3. CASE t \in interrupted
  <2> DEFINE N == NotifyMaster(t, threads)
  <2>1. Thrown(t, N)
    BY <1>3 DEF Sleep
  <2>2. N \in [Threads -> Local(added)]
        /\ \A u \in Threads \ {t} : AtMostWoken(threads[u], N[u])
    BY <1>1, NotifyShape
  <2> HIDE DEF N
  <2>3. /\ interrupted' \subseteq interrupted
        /\ \/ threads' = [N EXCEPT ![t] = gone] /\ control' = control /\ t # Master
           \/ threads' = [N EXCEPT ![t] = enter] /\ control' = "leaving" /\ t = Master
           \/ threads' = [N EXCEPT ![t] = gone] /\ control' = "terminated" /\ t = Master
    BY <2>1, Zenon DEF Thrown, gone, enter
  <2>4. threads' \in [Threads -> Local(added)] /\ threads'[t] \in {gone, enter}
        /\ \A u \in Threads \ {t} : threads'[u] = N[u]
    BY <1>1, <2>2, <2>3
  <2> QED BY <1>1, <2>2, <2>3, <2>4 DEF Sleep, Section, block
<1> QED BY <1>2, <1>3

LEMMA TakeIsSection ==
    ASSUME TypeOK, OkInv, CountsInv, NEW t \in Threads, Take(t)
    PROVE  /\ Section(t) /\ Locking(t) /\ queue # {}
           /\ threads'[t].pc = "run" /\ threads'[t].ok = AllOk(t)
<1> DEFINE batch == {c \in queue : Cardinality({d \in queue : d > c}) < nNow(t)}
           r == At("run", batch, AllOk(t))
<1>1. batch # {} /\ batch \subseteq queue /\ batch \subseteq added
  <2>1. batch # {}
    BY TakesSome, Zenon DEF Take
  <2> QED BY <2>1, Zenon DEF TypeOK
<1>2. /\ Locking(t) /\ queue # {} /\ queue' = queue \ batch
      /\ threads' = NotifyMaster(t, [threads EXCEPT ![t] = r])
      /\ nTodo' = Todo(t) /\ added' = added /\ bad' = bad /\ ran' = ran
  BY DEF Take, block
<1> HIDE DEF batch
<1>3. r \in Local(added) /\ r.pc = "run" /\ r.batch = batch /\ r.ok = AllOk(t)
  <2>1. AllOk(t) \in BOOLEAN
    BY DEF AllOk, TypeOK
  <2> QED BY <1>1, <2>1 DEF At, Local, PCs
<1> HIDE DEF r
<1>4. threads' \in [Threads -> Local(added)] /\ threads'[t] = r
      /\ \A u \in Threads \ {t} : AtMostWoken(threads[u], threads'[u])
  <2>1. threads' = NotifyMaster(t, [threads EXCEPT ![t] = r]) /\ r \in Local(added)
    BY <1>2, <1>3
  <2>2. threads \in [Threads -> Local(added)]
    BY DEF TypeOK, Local
  <2>3. [threads EXCEPT ![t] = r][t] = r
    BY <2>2
  <2> QED BY <2>1, <2>3, NotifyShape, Zenon
<1>5. queue' \cup threads'[t].batch = queue /\ queue' \cap threads'[t].batch = {}
  BY <1>1, <1>2, <1>3, <1>4, Zenon
<1> QED BY <1>1, <1>2, <1>3, <1>4, <1>5, Zenon DEF Section
\* The parts of the invariant that every section keeps.
LEMMA SectionInv ==
    ASSUME TypeOK, Numbered, TodoCountsPending, OkInv,
           NEW t \in Threads, Locking(t), Section(t),
           nIdle' \in Nat, nTotal' \in Nat, fAllOk' \in BOOLEAN,
           interrupted' \subseteq Threads, stopping' = stopping, blocks' = blocks,
           control' \in {"none", "adding", "waiting", "leaving", "terminated"},
           control' \in {"none", "adding"} <=> threads'[Master].pc = "out",
           verdict' \in {"valid", "invalid", "none"}
    PROVE  TypeOK' /\ Numbered' /\ TodoCountsPending' /\ OkInv'
<1>1. TodoCountsPending'
  BY SectionTodo
<1>2. Numbered'
  BY DEF Numbered, Section
<1>3. \A u \in Threads : threads'[u].batch # {} <=> u \in Holding'
  BY SectionHolding
<1>4. OkInv'
  <2>1. ASSUME NEW u \in Threads, ~threads'[u].ok PROVE u \in Holding'
    <3>1. CASE u = t
      BY <2>1, <3>1, SectionHolding DEF Section
    <3>2. CASE u # t
      <4>1. ~threads[u].ok
        BY <2>1, <3>2 DEF Section, AtMostWoken
      <4>2. u \in Holding
        BY <4>1 DEF OkInv
      <4> QED BY <3>2, <4>2, SectionHolding
    <3> QED BY <3>1, <3>2
  <2> QED BY <2>1 DEF OkInv
<1>5. TypeOK'
  <2>1. queue' \subseteq added' /\ added' \subseteq 1 .. MaxChecks /\ bad' \subseteq added'
        /\ ran' \subseteq added'
    BY DEF TypeOK, Section
  <2>2. nTodo' \in Nat
    BY TodoAfter, Zenon DEF Section
  <2>3. threads' \in [Threads -> Local(added')]
    BY DEF Section
  <2>4. stopping' \in BOOLEAN /\ blocks' \in Nat
    BY DEF TypeOK
  <2> QED BY <2>1, <2>2, <2>3, <2>4, <1>3, Zenon DEF TypeOK, Local
<1> QED BY <1>1, <1>2, <1>4, <1>5

\* The master keeps its place between its own steps.
LEMMA MasterOutside ==
    ASSUME NEW t \in Threads \ {Master}, Section(t)
    PROVE  threads'[Master].pc = "out" <=> threads[Master].pc = "out"
<1>1. AtMostWoken(threads[Master], threads'[Master])
  BY DEF Section, Threads
<1> QED BY <1>1, Zenon DEF AtMostWoken

\* A thread that holds checks proves that a control exists.
LEMMA SomeControl ==
    ASSUME ControlInv, NEW t \in Holding
    PROVE  control # "none" /\ verdict = "none"
  BY DEF ControlInv

----------------------------------------------------------------------------
(* One lemma per action.                                                   *)

LEMMA ReturnIInv ==
    ASSUME IInv, NEW t \in Threads, Return(t)
    PROVE  IInv'
<1>1. /\ TypeOK /\ Numbered /\ TodoCountsPending /\ CountsInv /\ OkInv
      /\ ControlInv /\ VerdictRight
  BY DEF IInv
<1>2. /\ Section(t) /\ Locking(t) /\ t = Master /\ Todo(t) = 0
      /\ threads'[t].pc = "out" /\ queue = {}
  BY <1>1, ReturnIsSection
<1>3. control # "none" /\ FlagsInv /\ control \in {"waiting", "leaving", "terminated"}
  <2>1. threads[Master].pc # "out"
    BY <1>2 DEF Locking
  <2> QED BY <1>1, <2>1 DEF TypeOK, IInv
<1>4. Pending \ threads[t].batch = {}
  <2>1. Cardinality(Pending \ threads[t].batch) = 0 /\ Pending \subseteq 1 .. MaxChecks
    BY <1>1, <1>2, TodoAfter
  <2>2. Pending \ threads[t].batch \subseteq 1 .. MaxChecks
    BY <2>1, Zenon
  <2> QED BY <2>1, <2>2, ChecksFinite, FS_EmptySet
<1>5. Pending' = {}
  BY <1>1, <1>2, <1>4, SectionTodo
<1>6. CountsInv' /\ nTotal' \in Nat /\ nIdle' \in Nat
  BY <1>1, <1>2, SectionCounts, Zenon DEF Return
<1>7. TypeOK' /\ Numbered' /\ TodoCountsPending' /\ OkInv'
  <2>1. /\ fAllOk' = TRUE /\ interrupted' \subseteq Threads /\ stopping' = stopping
        /\ blocks' = blocks /\ control' = "none" /\ verdict' \in {"valid", "invalid", "none"}
    BY <1>1 DEF Return, TypeOK
  <2> QED BY <1>1, <1>2, <1>6, <2>1, SectionInv
<1>8. ControlInv'
  <2>1. queue' = {} /\ fAllOk' = TRUE /\ control' = "none"
    BY <1>2 DEF Return
  <2>2. \A u \in Threads : threads'[u].batch = {}
    BY <1>5 DEF Pending, Held
  <2>3. Holding' = {}
    BY <1>1, <1>2, <2>2, SectionHolding DEF Holding
  <2> QED BY <2>1, <2>3 DEF ControlInv
<1>9. VerdictRight'
  <2>1. added' = added /\ bad' = bad /\ ran' = ran
    BY <1>2 DEF Section
  <2>2. CASE verdict' = "valid"
    <3>1. AllOk(t) /\ AllOk(t) \in BOOLEAN
      BY <1>1, <2>2 DEF Return, AllOk, TypeOK
    <3>2. fAllOk /\ threads[t].batch \subseteq ran \ bad
      <4>1. CASE threads[t].pc = "ready"
        BY <1>3, <3>1, <4>1 DEF AllOk, FlagsInv
      <4>2. CASE threads[t].pc # "ready"
        <5>1. t \notin Holding
          BY <1>2, <4>2 DEF Holding, Locking
        <5> QED BY <1>1, <3>1, <4>2, <5>1 DEF AllOk, TypeOK
      <4> QED BY <4>1, <4>2
    <3>3. added \subseteq ran \ bad
      BY <1>3, <1>4, <3>2 DEF FlagsInv
    <3> QED BY <1>1, <2>1, <2>2, <3>3, Zenon DEF VerdictRight, TypeOK
  <2>3. CASE verdict' = "invalid"
    <3>1. ~AllOk(t)
      BY <2>3 DEF Return
    <3>2. bad \cap ran # {}
      BY <1>1, <1>3, <3>1 DEF AllOk, FlagsInv, TypeOK
    <3> QED BY <2>1, <2>3, <3>2 DEF VerdictRight
  <2> QED BY <2>2, <2>3 DEF VerdictRight
<1>10. control' = "none"
  BY DEF Return
<1> QED BY <1>6, <1>7, <1>8, <1>9, <1>10 DEF IInv

LEMMA SleepIInv ==
    ASSUME IInv, NEW t \in Threads, Sleep(t)
    PROVE  IInv'
<1>1. /\ TypeOK /\ Numbered /\ TodoCountsPending /\ CountsInv /\ OkInv
      /\ ControlInv /\ VerdictRight /\ (control # "none" => FlagsInv)
  BY DEF IInv
<1>2. /\ Section(t) /\ Locking(t) /\ queue = {}
      /\ threads'[t].pc \in {"wait", "gone", "enter"}
      /\ interrupted' \subseteq interrupted
      /\ t # Master => control' = control
      /\ t = Master => control' = control \/ control' \in {"leaving", "terminated"}
  BY <1>1, SleepIsSection, Zenon
<1>3. CountsInv' /\ nTotal' \in Nat /\ nIdle' \in Nat
  BY <1>1, <1>2, SectionCounts DEF Sleep
<1>4. /\ fAllOk' = AllOk(t) /\ stopping' = stopping /\ verdict' = verdict /\ blocks' = blocks
      /\ added' = added /\ bad' = bad /\ ran' = ran /\ AllOk(t) \in BOOLEAN
  BY <1>1 DEF Sleep, block, AllOk, TypeOK
<1>5. control' = control \/ (control # "none" /\ control' # "none")
  <2>1. t = Master => control \notin {"none", "adding"}
    BY <1>1, <1>2 DEF TypeOK, Locking
  <2> QED BY <1>2, <2>1
<1>6. control' \in {"none", "adding"} <=> threads'[Master].pc = "out"
  <2>1. CASE t = Master
    <3>1. control \notin {"none", "adding"}
      BY <1>1, <1>2, <2>1 DEF TypeOK, Locking
    <3> QED BY <1>2, <2>1, <3>1
  <2>2. CASE t # Master
    BY <1>1, <1>2, <2>2, MasterOutside, Zenon DEF TypeOK
  <2> QED BY <2>1, <2>2
<1>7. TypeOK' /\ Numbered' /\ TodoCountsPending' /\ OkInv'
  <2>1. /\ interrupted' \subseteq Threads /\ verdict' \in {"valid", "invalid", "none"}
        /\ control' \in {"none", "adding", "waiting", "leaving", "terminated"}
    BY <1>1, <1>2, <1>4 DEF TypeOK
  <2> QED BY <1>1, <1>2, <1>3, <1>4, <1>6, <2>1, SectionInv
<1>8. control' # "none" => FlagsInv'
  <2>1. ASSUME control' # "none" PROVE FlagsInv'
    <3>1. FlagsInv
      BY <1>1, <1>5, <2>1
    <3> QED BY <1>1, <1>2, <1>4, <3>1, SectionFlags
  <2> QED BY <2>1
<1>9. ControlInv'
  <2>1. ASSUME control' = "none" PROVE queue' = {} /\ Holding' = {} /\ fAllOk'
    <3>1. control = "none" /\ Holding = {} /\ fAllOk
      BY <1>1, <1>5, <2>1 DEF ControlInv
    <3>2. Holding' = {}
      <4>1. /\ Holding' \ {t} = Holding \ {t}
            /\ t \in Holding' <=> threads'[t].pc = "run"
        BY <1>1, <1>2, SectionHolding, Zenon
      <4>2. t \notin Holding'
        BY <1>2, <4>1
      <4> QED BY <3>1, <4>1, <4>2
    <3>3. threads[t].pc # "ready"
      BY <3>1 DEF Holding
    <3>4. queue' = {}
      BY <1>2 DEF Section
    <3>5. fAllOk'
      BY <1>4, <3>1, <3>3 DEF AllOk
    <3> QED BY <3>2, <3>4, <3>5
  <2>2. verdict' # "none" => control' = "none"
    BY <1>1, <1>4, <1>5 DEF ControlInv
  <2> QED BY <2>1, <2>2 DEF ControlInv
<1>10. VerdictRight'
  BY <1>1, <1>4 DEF VerdictRight
<1> QED BY <1>3, <1>7, <1>8, <1>9, <1>10 DEF IInv

LEMMA TakeIInv ==
    ASSUME IInv, NEW t \in Threads, Take(t)
    PROVE  IInv'
<1>1. /\ TypeOK /\ Numbered /\ TodoCountsPending /\ CountsInv /\ OkInv
      /\ ControlInv /\ VerdictRight /\ (control # "none" => FlagsInv)
  BY DEF IInv
<1>2. /\ Section(t) /\ Locking(t) /\ queue # {}
      /\ threads'[t].pc = "run" /\ threads'[t].ok = AllOk(t)
  BY <1>1, TakeIsSection
<1>3. CountsInv' /\ nTotal' \in Nat /\ nIdle' \in Nat
  BY <1>1, <1>2, SectionCounts, Zenon DEF Take
<1>4. /\ fAllOk' = AllOk(t) /\ stopping' = stopping /\ verdict' = verdict /\ blocks' = blocks
      /\ added' = added /\ bad' = bad /\ ran' = ran /\ control' = control
      /\ interrupted' = interrupted /\ AllOk(t) \in BOOLEAN
  BY <1>1 DEF Take, block, AllOk, TypeOK
<1>5. control # "none" /\ verdict = "none"
  BY <1>1, <1>2, Zenon DEF ControlInv
<1>6. control' \in {"none", "adding"} <=> threads'[Master].pc = "out"
  <2>1. CASE t = Master
    BY <1>1, <1>2, <1>4, <2>1, Zenon DEF TypeOK, Locking
  <2>2. CASE t # Master
    BY <1>1, <1>2, <1>4, <2>2, MasterOutside, Zenon DEF TypeOK
  <2> QED BY <2>1, <2>2
<1>7. TypeOK' /\ Numbered' /\ TodoCountsPending' /\ OkInv'
  <2>1. /\ interrupted' \subseteq Threads /\ verdict' \in {"valid", "invalid", "none"}
        /\ control' \in {"none", "adding", "waiting", "leaving", "terminated"}
    BY <1>1, <1>4, Zenon DEF TypeOK
  <2> QED BY <1>1, <1>2, <1>3, <1>4, <1>6, <2>1, SectionInv
<1>8. FlagsInv'
  BY <1>1, <1>2, <1>4, <1>5, SectionFlags
<1>9. ControlInv' /\ VerdictRight'
  BY <1>4, <1>5 DEF ControlInv, VerdictRight
<1> QED BY <1>3, <1>7, <1>8, <1>9 DEF IInv
\* Steps that move no check: every thread keeps its batch and its result.
KeepsBatches ==
    \A u \in Threads : /\ threads'[u].batch = threads[u].batch /\ threads'[u].ok = threads[u].ok
                       /\ threads'[u].pc = "run" <=> threads[u].pc = "run"
                       /\ threads'[u].pc = "ready" <=> threads[u].pc = "ready"

LEMMA KeepsHeld ==
    ASSUME KeepsBatches
    PROVE  Held' = Held /\ Holding' = Holding
<1>1. \A c : c \in Held' <=> \E u \in Threads : c \in threads'[u].batch
  BY DEF Held
<1>2. Held' = Held
  BY <1>1, HeldDef DEF KeepsBatches
<1> QED BY <1>2 DEF KeepsBatches, Holding

\* Such a step keeps the invariant when it adds no check, leaves the counters alone and
\* lets nobody fall asleep.
LEMMA KeepsIInv ==
    ASSUME IInv, KeepsBatches, threads' \in [Threads -> Local(added)], Asleep' \subseteq Asleep,
           UNCHANGED shared, UNCHANGED <<added, bad, ran, verdict, blocks>>,
           interrupted' \subseteq Threads, stopping' \in BOOLEAN,
           control' \in {"none", "adding", "waiting", "leaving", "terminated"},
           control' \in {"none", "adding"} <=> threads'[Master].pc = "out",
           control' = control \/ (control # "none" /\ control' # "none")
    PROVE  IInv'
<1>1. /\ TypeOK /\ Numbered /\ TodoCountsPending /\ CountsInv /\ OkInv
      /\ ControlInv /\ VerdictRight /\ (control # "none" => FlagsInv)
  BY DEF IInv
<1>2. Held' = Held /\ Holding' = Holding
  BY KeepsHeld
<1>3. /\ queue' = queue /\ nIdle' = nIdle /\ nTotal' = nTotal /\ nTodo' = nTodo /\ fAllOk' = fAllOk
      /\ added' = added /\ bad' = bad /\ ran' = ran /\ verdict' = verdict /\ blocks' = blocks
  BY DEF shared
<1>4. Pending' = Pending
  BY <1>2, <1>3 DEF Pending
<1>5. TypeOK'
  BY <1>1, <1>2, <1>3 DEF TypeOK, KeepsBatches, Local
<1>6. TodoCountsPending'
  <2>1. nTodo' = Cardinality(Pending')
    BY <1>1, <1>3, <1>4, Zenon DEF TodoCountsPending, Pending, Held
  <2>2. /\ \A u \in Threads : threads'[u].batch \cap queue' = {}
        /\ \A u, v \in Threads : u # v => threads'[u].batch \cap threads'[v].batch = {}
    BY <1>1, <1>3, Zenon DEF TodoCountsPending, KeepsBatches
  <2> QED BY <2>1, <2>2, Zenon DEF TodoCountsPending, Pending, Held
<1>7. CountsInv'
  <2>1. Cardinality(Asleep') <= Cardinality(Asleep) /\ Cardinality(Asleep') \in Nat
        /\ Cardinality(Asleep) \in Nat
    <3>1. Asleep \subseteq Threads /\ Asleep' \subseteq Threads
      BY DEF Asleep
    <3> QED BY <3>1, ThreadsFinite, FS_Subset
  <2>2. CountsInv /\ nIdle \in Nat /\ nTotal \in Nat
    BY <1>1 DEF TypeOK
  <2> QED BY <1>2, <1>3, <2>1, <2>2 DEF CountsInv
<1>8. OkInv' /\ ControlInv' /\ VerdictRight' /\ Numbered'
  BY <1>1, <1>2, <1>3, Zenon DEF OkInv, ControlInv, VerdictRight, Numbered, KeepsBatches
<1>9. control' # "none" => FlagsInv'
  BY <1>1, <1>3, <1>4 DEF FlagsInv, KeepsBatches
<1> QED BY <1>5, <1>6, <1>7, <1>8, <1>9 DEF IInv

LEMMA SpuriousWakeIInv ==
    ASSUME IInv, NEW t \in Threads, SpuriousWake(t)
    PROVE  IInv'
<1> DEFINE r == At("woken", {}, TRUE)
<1>1. TypeOK /\ OkInv
  BY Zenon DEF IInv
<1>2. r \in Local(added) /\ r.pc = "woken" /\ r.batch = {} /\ r.ok = TRUE
      /\ threads' = [threads EXCEPT ![t] = r] /\ threads \in [Threads -> Local(added)]
      /\ threads[t].pc = "wait" /\ threads[t].batch = {} /\ threads[t].ok = TRUE
  BY <1>1, WaitingIsFresh DEF At, Local, PCs, SpuriousWake, TypeOK
<1> HIDE DEF r
<1>3. threads' \in [Threads -> Local(added)] /\ KeepsBatches /\ Asleep' \subseteq Asleep
  BY <1>2, Zenon DEF KeepsBatches, Asleep
<1>5. threads'[Master].pc = "out" <=> threads[Master].pc = "out"
  BY <1>2 DEF Threads
<1>4. UNCHANGED shared /\ UNCHANGED <<added, bad, ran, verdict, blocks>> /\ control' = control
      /\ interrupted' = interrupted /\ stopping' = stopping
  BY DEF SpuriousWake, block
<1> QED BY <1>1, <1>3, <1>4, <1>5, KeepsIInv DEF TypeOK

LEMMA InterruptIInv ==
    ASSUME IInv, NEW t \in Threads, Interrupt(t)
    PROVE  IInv'
<1> DEFINE gone == At("gone", {}, TRUE)
           enter == At("enter", {}, TRUE)
<1>1. TypeOK /\ OkInv
  BY DEF IInv
<1>2. /\ gone \in Local(added) /\ gone.pc = "gone" /\ gone.batch = {} /\ gone.ok = TRUE
      /\ enter \in Local(added) /\ enter.pc = "enter" /\ enter.batch = {} /\ enter.ok = TRUE
      /\ threads \in [Threads -> Local(added)]
      /\ threads[t].pc = "wait" /\ threads[t].batch = {} /\ threads[t].ok = TRUE
  BY <1>1, WaitingIsFresh DEF At, Local, PCs, Interrupt, TypeOK
<1>3. /\ interrupted' \subseteq interrupted
      /\ \/ threads' = [threads EXCEPT ![t] = gone] /\ control' = control /\ t # Master
         \/ threads' = [threads EXCEPT ![t] = enter] /\ control' = "leaving" /\ t = Master
         \/ threads' = [threads EXCEPT ![t] = gone] /\ control' = "terminated" /\ t = Master
  BY Zenon DEF Interrupt, Thrown
<1> HIDE DEF gone, enter
<1>4. threads' \in [Threads -> Local(added)] /\ KeepsBatches /\ Asleep' \subseteq Asleep
  BY <1>2, <1>3, Zenon DEF KeepsBatches, Asleep
<1>5. UNCHANGED shared /\ UNCHANGED <<added, bad, ran, verdict, blocks>> /\ stopping' = stopping
  BY DEF Interrupt, block
<1>6. t = Master => control \notin {"none", "adding"}
  BY <1>1, <1>2 DEF TypeOK
<1>7. control' \in {"none", "adding"} <=> threads'[Master].pc = "out"
  <2>1. CASE t = Master
    <3>1. threads'[Master].pc \in {"gone", "enter"} /\ control' \in {"leaving", "terminated"}
      BY <1>2, <1>3, <2>1
    <3> QED BY <3>1
  <2>2. CASE t # Master
    <3>1. threads'[Master] = threads[Master] /\ control' = control
      BY <1>2, <1>3, <2>2 DEF Threads
    <3> QED BY <1>1, <3>1 DEF TypeOK
  <2> QED BY <2>1, <2>2
<1> QED BY <1>1, <1>3, <1>4, <1>5, <1>6, <1>7, KeepsIInv, Zenon DEF TypeOK

LEMMA WaitIInv ==
    ASSUME IInv, NEW how \in {"waiting", "leaving"}, Wait(how)
    PROVE  IInv'
<1> DEFINE r == At("enter", {}, TRUE)
<1>1. TypeOK /\ OkInv
  BY DEF IInv
<1>2. Master \in Threads /\ threads[Master].pc = "out" /\ control = "adding"
  BY <1>1 DEF Threads, Wait, TypeOK
<1>3. Master \notin Holding /\ threads[Master].batch = {} /\ threads[Master].ok = TRUE
  <2>1. Master \notin Holding
    BY <1>2, Zenon DEF Holding
  <2> QED BY <1>1, <1>2, <2>1 DEF TypeOK, OkInv
<1>4. r \in Local(added) /\ r.pc = "enter" /\ r.batch = {} /\ r.ok = TRUE
      /\ threads' = [threads EXCEPT ![Master] = r] /\ threads \in [Threads -> Local(added)]
  BY <1>1 DEF At, Local, PCs, Wait, TypeOK
<1> HIDE DEF r
<1>5. threads' \in [Threads -> Local(added)] /\ KeepsBatches /\ Asleep' \subseteq Asleep
      /\ threads'[Master].pc = "enter"
  BY <1>2, <1>3, <1>4, Zenon DEF KeepsBatches, Asleep
<1>6. UNCHANGED shared /\ UNCHANGED <<added, bad, ran, verdict, blocks>> /\ control' = how
      /\ interrupted' = interrupted /\ stopping' = stopping
  BY DEF Wait, block
<1> QED BY <1>1, <1>2, <1>5, <1>6, KeepsIInv DEF TypeOK

LEMMA InterruptAllIInv ==
    ASSUME IInv, InterruptAll
    PROVE  IInv'
<1>1. TypeOK
  BY DEF IInv
<1>2. threads' = threads /\ control' = control /\ UNCHANGED shared
      /\ UNCHANGED <<added, bad, ran, verdict, blocks>> /\ stopping' = TRUE
  BY DEF InterruptAll, block
<1>3. interrupted' \subseteq Threads
  BY DEF InterruptAll, Threads
<1>4. threads' \in [Threads -> Local(added)] /\ KeepsBatches /\ Asleep' \subseteq Asleep
  BY <1>1, <1>2 DEF TypeOK, Local, KeepsBatches, Asleep
<1> QED BY <1>1, <1>2, <1>3, <1>4, KeepsIInv DEF TypeOK
LEMMA ExecuteIInv ==
    ASSUME IInv, NEW t \in Threads, Execute(t)
    PROVE  IInv'
<1> DEFINE failing == threads[t].batch \cap bad
           done == {c \in threads[t].batch : threads[t].ok /\ \A d \in failing : d <= c}
           r == At("ready", threads[t].batch, threads[t].ok /\ failing = {})
<1>1. /\ TypeOK /\ Numbered /\ TodoCountsPending /\ CountsInv /\ OkInv
      /\ ControlInv /\ VerdictRight /\ (control # "none" => FlagsInv)
  BY DEF IInv
<1>2. t \in Holding /\ control # "none" /\ verdict = "none" /\ FlagsInv
  <2>1. t \in Holding
    BY Zenon DEF Execute, Holding
  <2> QED BY <1>1, <2>1, SomeControl
<1>3. /\ threads \in [Threads -> Local(added)] /\ threads[t].pc = "run"
      /\ threads[t].batch \subseteq added /\ threads[t].ok \in BOOLEAN
      /\ threads' = [threads EXCEPT ![t] = r] /\ ran' = ran \cup done
      /\ queue' = queue /\ nIdle' = nIdle /\ nTotal' = nTotal /\ nTodo' = nTodo /\ fAllOk' = fAllOk
      /\ added' = added /\ bad' = bad /\ verdict' = verdict /\ blocks' = blocks
      /\ control' = control /\ interrupted' = interrupted /\ stopping' = stopping
  BY <1>1 DEF Execute, TypeOK, Local, shared, block
<1>4. r \in Local(added) /\ r.pc = "ready" /\ r.batch = threads[t].batch
      /\ (r.ok <=> threads[t].ok /\ failing = {}) /\ r.ok \in BOOLEAN
  <2>1. (threads[t].ok /\ failing = {}) \in BOOLEAN
    BY <1>3, Zenon
  <2> QED BY <1>3, <2>1, Zenon DEF At, Local, PCs
<1>5. done \subseteq threads[t].batch
  OBVIOUS
<1>6. r.ok => threads[t].batch \subseteq done \ bad
  BY <1>4, Zenon
<1>7. threads[t].ok /\ failing # {} => bad \cap done # {}
  <2>1. ASSUME threads[t].ok, failing # {} PROVE bad \cap done # {}
    <3>1. failing \subseteq 1 .. MaxChecks /\ MaxChecks \in Nat
      BY <1>1, <1>3, QueueAssumption, Zenon DEF TypeOK
    <3>2. PICK c \in failing : \A d \in failing : d <= c
      BY <2>1, <3>1, Back, Zenon
    <3> QED BY <2>1, <3>2
  <2> QED BY <2>1
<1> HIDE DEF failing, done, r
<1>8. threads' \in [Threads -> Local(added)] /\ threads'[t] = r
      /\ \A u \in Threads \ {t} : threads'[u] = threads[u]
  BY <1>3, <1>4
<1>9. Held' = Held /\ Holding' = Holding /\ Asleep' = Asleep
  <2>1. \A u \in Threads : threads'[u].batch = threads[u].batch
    BY <1>4, <1>8
  <2>2. \A c : c \in Held' <=> \E u \in Threads : c \in threads'[u].batch
    BY DEF Held
  <2>3. Held' = Held
    BY <2>1, <2>2, HeldDef, Zenon
  <2>4. Holding' = Holding
    BY <1>3, <1>4, <1>8, Zenon DEF Holding
  <2>5. Asleep' = Asleep
    BY <1>3, <1>4, <1>8, Zenon DEF Asleep
  <2> QED BY <2>3, <2>4, <2>5
<1>10. TypeOK'
  <2>1. \A u \in Threads : threads'[u].batch # {} <=> u \in Holding'
    BY <1>1, <1>4, <1>8, <1>9, Zenon DEF TypeOK
  <2>2. threads'[Master].pc = "out" <=> threads[Master].pc = "out"
    BY <1>3, <1>4, <1>8 DEF Threads
  <2>3. ran' \subseteq added'
    BY <1>1, <1>3, <1>5 DEF TypeOK
  <2> QED BY <1>1, <1>3, <1>8, <2>1, <2>2, <2>3, Zenon DEF TypeOK, Local
<1>11. TodoCountsPending'
  <2>1. nTodo' = Cardinality(queue' \cup Held')
    BY <1>1, <1>3, <1>9, Zenon DEF TodoCountsPending, Held
  <2>2. \A u \in Threads : threads'[u].batch = threads[u].batch
    BY <1>4, <1>8
  <2> QED BY <1>1, <1>3, <2>1, <2>2, Zenon DEF TodoCountsPending, Held
<1>12. CountsInv' /\ OkInv' /\ Numbered'
  BY <1>1, <1>2, <1>3, <1>8, <1>9, Zenon DEF CountsInv, OkInv, Numbered
<1>13. FlagsInv'
  <2>1. Pending' = Pending
    BY <1>3, <1>9, Zenon DEF Pending
  <2>2. fAllOk' => added' \ Pending' \subseteq ran' \ bad'
    BY <1>2, <1>3, <2>1, Zenon DEF FlagsInv
  <2>3. ~fAllOk' => bad' \cap ran' # {}
    BY <1>2, <1>3 DEF FlagsInv
  <2>4. ASSUME NEW u \in Threads
        PROVE  /\ threads'[u].pc = "ready" /\ threads'[u].ok => threads'[u].batch \subseteq ran' \ bad'
               /\ ~threads'[u].ok => bad' \cap ran' # {}
    <3>1. CASE u = t
      <4>1. ~r.ok => bad \cap ran' # {}
        BY <1>2, <1>3, <1>4, <1>7, Zenon DEF FlagsInv
      <4>2. r.ok => r.batch \subseteq ran' \ bad
        BY <1>3, <1>4, <1>6, Zenon
      <4> QED BY <1>3, <1>8, <3>1, <4>1, <4>2, Zenon
    <3>2. CASE u # t
      BY <1>2, <1>3, <1>8, <3>2, Zenon DEF FlagsInv
    <3> QED BY <3>1, <3>2, Zenon
  <2> QED BY <2>2, <2>3, <2>4, Zenon DEF FlagsInv
<1>14. ControlInv' /\ VerdictRight'
  BY <1>2, <1>3 DEF ControlInv, VerdictRight
<1> QED BY <1>10, <1>11, <1>12, <1>13, <1>14 DEF IInv

LEMMA NewControlIInv ==
    ASSUME IInv, NewControl
    PROVE  IInv'
<1>1. /\ TypeOK /\ TodoCountsPending /\ CountsInv /\ OkInv /\ ControlInv
  BY DEF IInv
<1>2. queue = {} /\ Holding = {} /\ fAllOk
  BY <1>1 DEF ControlInv, NewControl
<1>3. /\ queue' = queue /\ nIdle' = nIdle /\ nTotal' = nTotal /\ nTodo' = nTodo /\ fAllOk' = fAllOk
      /\ threads' = threads /\ interrupted' = interrupted /\ stopping' = stopping
      /\ added' = {} /\ bad' = {} /\ ran' = {} /\ verdict' = "none" /\ blocks' = blocks + 1
      /\ control = "none" /\ control' = "adding"
  BY DEF NewControl, shared
<1>4. \A u \in Threads : threads[u].batch = {} /\ threads[u].ok
  BY <1>1, <1>2 DEF TypeOK, OkInv
<1>5. Holding' = Holding /\ Asleep' = Asleep
  BY <1>3 DEF Holding, Asleep
<1>6. threads' \in [Threads -> Local(added')]
  BY <1>1, <1>3, <1>4, Zenon DEF TypeOK, Local
<1>7. TypeOK'
  <2>1. blocks' \in Nat
    BY <1>1, <1>3 DEF TypeOK
  <2>2. \A u \in Threads : threads'[u].batch # {} <=> u \in Holding'
    BY <1>2, <1>3, <1>4, <1>5, Zenon
  <2> QED BY <1>1, <1>2, <1>3, <1>6, <2>1, <2>2, Zenon DEF TypeOK, Local
<1>8. TodoCountsPending'
  BY <1>1, <1>3 DEF TodoCountsPending
<1>9. Numbered'
  <2>1. 1 .. 0 = {}
    OBVIOUS
  <2> QED BY <1>3, <2>1 DEF Numbered
<1>10. CountsInv' /\ OkInv' /\ ControlInv' /\ VerdictRight'
  BY <1>1, <1>3, <1>4, <1>5 DEF CountsInv, OkInv, ControlInv, VerdictRight
<1>11. FlagsInv'
  BY <1>2, <1>3, <1>4 DEF FlagsInv
<1> QED BY <1>7, <1>8, <1>9, <1>10, <1>11 DEF IInv

LEMMA AddIInv ==
    ASSUME IInv, NEW n \in 0 .. MaxAdd, Add(n)
    PROVE  IInv'
<1> DEFINE checks == {c \in 1 .. MaxChecks : Cardinality(added) < c /\ c <= Cardinality(added) + n}
<1>1. /\ TypeOK /\ Numbered /\ TodoCountsPending /\ CountsInv /\ OkInv
      /\ ControlInv /\ VerdictRight /\ (control # "none" => FlagsInv)
  BY DEF IInv
<1>2. n \in Nat /\ MaxChecks \in Nat
  BY QueueAssumption
<1>3. PICK k \in Nat : added = 1 .. k
  BY <1>1 DEF Numbered
<1>4. Cardinality(added) = k
  BY <1>3, FS_Interval
<1>5. checks \cap added = {} /\ Numbered' /\ added \cup checks \subseteq 1 .. MaxChecks
  <2>1. checks \cap added = {}
    BY <1>2, <1>3, <1>4
  <2>2. added \subseteq 1 .. MaxChecks
    BY <1>1 DEF TypeOK
  <2>3. CASE k + n <= MaxChecks
    <3>1. added \cup checks = 1 .. (k + n) /\ k + n \in Nat
      BY <1>2, <1>3, <1>4, <2>3
    <3> QED BY <2>1, <2>2, <3>1 DEF Numbered, Add
  <2>4. CASE ~ (k + n <= MaxChecks)
    <3>1. added \cup checks = 1 .. MaxChecks
      BY <1>2, <1>3, <1>4, <2>2, <2>4
    <3> QED BY <1>2, <2>1, <2>2, <3>1 DEF Numbered, Add
  <2> QED BY <2>3, <2>4
<1>6. PICK fail \in SUBSET checks : bad' = bad \cup fail
  BY DEF Add
<1>7. /\ control = "adding" /\ Cardinality(checks) = n /\ added' = added \cup checks
      /\ queue' = queue \cup checks /\ nTodo' = nTodo + n /\ NotifyWorkers(n, threads)
      /\ nIdle' = nIdle /\ nTotal' = nTotal /\ fAllOk' = fAllOk /\ interrupted' = interrupted
      /\ stopping' = stopping /\ control' = control /\ ran' = ran /\ verdict' = verdict
      /\ blocks' = blocks
  BY DEF Add
<1> HIDE DEF checks
<1>8. /\ threads' \in [Threads -> Local(added)]
      /\ \A u \in Threads : AtMostWoken(threads[u], threads'[u])
  <2> DEFINE w == At("woken", {}, TRUE)
  <2>1. PICK woken \in SUBSET {u \in Workers : threads[u].pc = "wait"} :
            threads' = [u \in Threads |-> IF u \in woken THEN w ELSE threads[u]]
    BY <1>7, Zenon DEF NotifyWorkers
  <2>2. w \in Local(added) /\ w.pc = "woken" /\ w.batch = {} /\ w.ok = TRUE
        /\ threads \in [Threads -> Local(added)]
    BY <1>1 DEF At, Local, PCs, TypeOK
  <2> HIDE DEF w
  <2>3. ASSUME NEW u \in Threads PROVE AtMostWoken(threads[u], threads'[u])
    <3>1. CASE u \in woken
      <4>1. threads[u].pc = "wait" /\ threads[u].ok \in BOOLEAN
        BY <1>1, <2>1, <3>1, Zenon DEF TypeOK
      <4> QED BY <1>1, <2>1, <2>2, <3>1, <4>1, WaitingIsFresh, Zenon DEF AtMostWoken
    <3>2. CASE u \notin woken
      BY <2>1, <3>2 DEF AtMostWoken
    <3> QED BY <3>1, <3>2
  <2>4. threads' \in [Threads -> Local(added)]
    BY <2>1, <2>2
  <2> QED BY <2>3, <2>4
<1>9. KeepsBatches /\ Asleep' = Asleep
      /\ (threads'[Master].pc = "out" <=> threads[Master].pc = "out")
  <2>1. KeepsBatches
    BY <1>8 DEF KeepsBatches, AtMostWoken
  <2>2. Asleep' = Asleep
    BY <1>8 DEF Asleep, AtMostWoken
  <2>3. threads'[Master].pc = "out" <=> threads[Master].pc = "out"
    BY <1>8 DEF AtMostWoken, Threads
  <2> QED BY <2>1, <2>2, <2>3
<1>10. Held' = Held /\ Holding' = Holding
  BY <1>9, KeepsHeld
<1>11. Held \subseteq added /\ queue \subseteq added /\ bad \subseteq added /\ ran \subseteq added
  BY <1>1, HeldDef DEF TypeOK
<1>12. TypeOK'
  <2>1. nTodo' \in Nat
    BY <1>1, <1>2, <1>7 DEF TypeOK
  <2>2. \A u \in Threads : threads'[u].batch # {} <=> u \in Holding'
    BY <1>1, <1>9, <1>10 DEF TypeOK, KeepsBatches
  <2>3. threads' \in [Threads -> Local(added')]
    BY <1>7, <1>8, Zenon DEF Local
  <2>4. queue' \subseteq added' /\ added' \subseteq 1 .. MaxChecks /\ bad' \subseteq added'
        /\ ran' \subseteq added'
    BY <1>5, <1>6, <1>7, <1>11
  <2> QED BY <1>1, <1>7, <1>9, <2>1, <2>2, <2>3, <2>4, Zenon DEF TypeOK, Local
<1>13. TodoCountsPending'
  <2>1. Pending' = Pending \cup checks /\ Pending \cap checks = {}
    BY <1>5, <1>7, <1>10, <1>11 DEF Pending
  <2>2. Pending \subseteq 1 .. MaxChecks /\ checks \subseteq 1 .. MaxChecks
    BY <1>1, <1>5, <1>11 DEF Pending, TypeOK
  <2>3. Cardinality(Pending \cup checks) = Cardinality(Pending) + Cardinality(checks)
    <3>1. IsFiniteSet(Pending) /\ IsFiniteSet(checks) /\ Cardinality(Pending) \in Nat
          /\ Cardinality(checks) \in Nat
      BY <2>2, ChecksFinite
    <3> QED BY <2>1, <3>1, FS_Union, FS_EmptySet
  <2>4. nTodo' = Cardinality(Pending')
    BY <1>1, <1>7, <2>1, <2>3, Zenon DEF TodoCountsPending, Pending, Held
  <2>5. /\ \A u \in Threads : threads'[u].batch \cap queue' = {}
        /\ \A u, v \in Threads : u # v => threads'[u].batch \cap threads'[v].batch = {}
    <3>1. \A u \in Threads : threads'[u].batch = threads[u].batch /\ threads[u].batch \subseteq added
      BY <1>1, <1>9 DEF KeepsBatches, TypeOK
    <3> QED BY <1>1, <1>5, <1>7, <3>1, Zenon DEF TodoCountsPending
  <2> QED BY <2>4, <2>5 DEF TodoCountsPending, Pending, Held
<1>14. CountsInv' /\ OkInv' /\ ControlInv' /\ VerdictRight'
  <2>1. verdict = "none"
    BY <1>1, <1>7, Zenon DEF ControlInv
  <2>2. CountsInv'
    BY <1>1, <1>7, <1>9, <1>10, Zenon DEF CountsInv
  <2>3. OkInv'
    BY <1>1, <1>9, <1>10, Zenon DEF OkInv, KeepsBatches
  <2> QED BY <1>7, <2>1, <2>2, <2>3 DEF ControlInv, VerdictRight
<1>15. FlagsInv'
  <2>1. FlagsInv
    BY <1>1, <1>7
  <2>2. Pending' = Pending \cup checks
    BY <1>7, <1>10, Zenon DEF Pending
  <2>3. fAllOk' => added' \ Pending' \subseteq ran' \ bad'
    BY <1>5, <1>6, <1>7, <2>1, <2>2, Zenon DEF FlagsInv
  <2>4. \A u \in Threads : threads'[u].batch = threads[u].batch /\ threads[u].batch \subseteq added
    BY <1>1, <1>9 DEF KeepsBatches, TypeOK
  <2>5. ASSUME NEW u \in Threads
        PROVE  /\ threads'[u].pc = "ready" /\ threads'[u].ok => threads'[u].batch \subseteq ran' \ bad'
               /\ ~threads'[u].ok => bad' \cap ran' # {}
    BY <1>5, <1>6, <1>7, <1>9, <2>1, <2>4, Zenon DEF FlagsInv, KeepsBatches
  <2>6. ~fAllOk' => bad' \cap ran' # {}
    BY <1>6, <1>7, <2>1 DEF FlagsInv
  <2> QED BY <2>3, <2>5, <2>6 DEF FlagsInv
<1> QED BY <1>5, <1>12, <1>13, <1>14, <1>15 DEF IInv

----------------------------------------------------------------------------
(* The theorems.                                                           *)

LEMMA InitIInv == Init => IInv
<1> SUFFICES ASSUME Init PROVE IInv
  OBVIOUS
<1>1. \A t \in Threads : /\ threads[t] = At(IF t = Master THEN "out" ELSE "enter", {}, TRUE)
                         /\ threads[t].batch = {} /\ threads[t].ok = TRUE
                         /\ threads[t].pc = IF t = Master THEN "out" ELSE "enter"
  BY Zenon DEF Init, At
<1>2. threads \in [Threads -> Local({})]
  BY Zenon DEF Init, At, Local, PCs
<1>3. Holding = {} /\ Asleep = {} /\ Held = {} /\ Master \in Threads
  <2>1. Holding = {} /\ Asleep = {}
    BY <1>1, Zenon DEF Holding, Asleep
  <2>2. Held = {}
    BY <1>1, Zenon DEF Held
  <2> QED BY <2>1, <2>2 DEF Threads
<1>4. TypeOK
  BY <1>1, <1>2, <1>3, Zenon DEF Init, TypeOK, Local
<1>5. Numbered
  <2>1. 1 .. 0 = {}
    OBVIOUS
  <2> QED BY <2>1 DEF Numbered, Init
<1>6. TodoCountsPending
  <2>1. queue \cup Held = {}
    BY <1>3 DEF Init
  <2> QED BY <1>1, <2>1, FS_EmptySet, Zenon DEF Init, TodoCountsPending, Held
<1>7. CountsInv
  BY <1>3, FS_EmptySet DEF CountsInv, Init
<1>8. OkInv /\ ControlInv /\ VerdictRight /\ control = "none"
  BY <1>1, <1>3, Zenon DEF OkInv, ControlInv, VerdictRight, Init
<1> QED BY <1>4, <1>5, <1>6, <1>7, <1>8 DEF IInv

LEMMA NextIInv == IInv /\ [Next]_vars => IInv'
<1> SUFFICES ASSUME IInv, [Next]_vars PROVE IInv'
  OBVIOUS
<1>1. ASSUME NEW t \in Threads, Step(t) PROVE IInv'
  BY <1>1, ReturnIInv, SleepIInv, TakeIInv, ExecuteIInv, InterruptIInv DEF Step
<1>2. ASSUME NEW t \in Threads, SpuriousWake(t) PROVE IInv'
  BY <1>2, SpuriousWakeIInv
<1>3. CASE InterruptAll
  BY <1>3, InterruptAllIInv
<1>4. CASE NewControl
  BY <1>4, NewControlIInv
<1>5. ASSUME NEW n \in 0 .. MaxAdd, Add(n) PROVE IInv'
  BY <1>5, AddIInv
<1>6. ASSUME NEW how \in {"waiting", "leaving"}, Wait(how) PROVE IInv'
  BY <1>6, WaitIInv
<1>7. CASE UNCHANGED vars
  <2> USE <1>7 DEF vars, shared, block
  <2>1. Holding' = Holding /\ Asleep' = Asleep /\ Held' = Held
    BY DEF Holding, Asleep, Held
  <2>2. Pending' = Pending
    BY <2>1, Zenon DEF Pending
  <2>3. TypeOK' /\ Numbered'
    BY <2>1 DEF IInv, TypeOK, Numbered
  <2>4. TodoCountsPending' /\ CountsInv' /\ OkInv'
    BY <2>1, <2>2, Zenon DEF IInv, TodoCountsPending, CountsInv, OkInv
  <2>5. control' # "none" => FlagsInv'
    BY <2>1, <2>2, Zenon DEF IInv, FlagsInv
  <2>6. ControlInv' /\ VerdictRight'
    BY <2>1, <2>2 DEF IInv, ControlInv, VerdictRight
  <2> QED BY <2>3, <2>4, <2>5, <2>6, Zenon DEF IInv
<1> QED BY <1>1, <1>2, <1>3, <1>4, <1>5, <1>6, <1>7 DEF Next

\* The inductive invariant holds in every reachable state.
THEOREM Inductive == Spec => []IInv
  BY InitIInv, NextIInv, PTL DEF Spec

\* Type correctness of the queue, its counters and its threads.
THEOREM TypeCorrect == Spec => []TypeOK
<1>1. IInv => TypeOK
  BY DEF IInv
<1> QED BY <1>1, Inductive, PTL

\* nTodo is the number of checks in the queue and in the batches of all threads, and no
\* check is in two places, for any number of workers.
THEOREM TodoCorrect == Spec => []TodoCountsPending
<1>1. IInv => TodoCountsPending
  BY DEF IInv
<1> QED BY <1>1, Inductive, PTL

\* Wait returns TRUE only if every check was executed and passed, and FALSE only if one
\* that fails was executed.
THEOREM VerdictCorrect == Spec => []VerdictRight
<1>1. IInv => VerdictRight
  BY DEF IInv
<1> QED BY <1>1, Inductive, PTL

\* When a control is gone no thread holds a check, and the queue is idle, as the
\* constructor of the next control asserts.
THEOREM ControlCorrect == Spec => []NothingOutlivesControl
<1>1. ASSUME IInv, control = "none" PROVE queue = {} /\ Holding = {} /\ IsIdle
  <2>1. queue = {} /\ Holding = {} /\ fAllOk /\ TypeOK /\ CountsInv /\ TodoCountsPending
    BY <1>1 DEF IInv, ControlInv
  <2>2. \A u \in Threads : threads[u].batch = {}
    BY <2>1 DEF TypeOK
  <2>3. queue \cup Held = {}
    BY <2>1, <2>2 DEF Held
  <2>4. nTodo = 0
    BY <2>1, <2>3, FS_EmptySet, Zenon DEF TodoCountsPending, Held
  <2>5. nTotal = nIdle
    BY <2>1, FS_EmptySet DEF CountsInv, TypeOK
  <2> QED BY <2>1, <2>4, <2>5 DEF IsIdle
<1>2. IInv => NothingOutlivesControl
  BY <1>1 DEF NothingOutlivesControl
<1> QED BY <1>2, Inductive, PTL
================================================================================
