------------------------------- MODULE CheckQueue -------------------------------
(***************************************************************************)
(* CCheckQueue and CCheckQueueControl (src/checkqueue.h): the thread that  *)
(* connects a block (the master) hands the script checks of its inputs to  *)
(* worker threads, then joins them until all checks are done, and takes    *)
(* the verdict.                                                            *)
(*                                                                         *)
(* Every critical section of Loop runs from the locking of the mutex to    *)
(* the wait, the return or the end of the block, and is one action here.   *)
(* Checks are numbered as they are added, so the stack is a set of numbers *)
(* with its largest element at the back.                                   *)
(***************************************************************************)
EXTENDS Integers, FiniteSets

CONSTANTS
    Workers,     \* the threads of ThreadScriptCheck
    Master,      \* the thread that connects blocks
    nBatchSize,  \* the maximum number of checks in one batch
    MaxChecks,   \* bound: the checks of one block
    MaxAdd,      \* bound: the checks of one transaction
    MayFail,     \* bound: which checks of a block can fail, by their numbers
    MaxBlocks    \* bound: the number of blocks

ASSUME QueueAssumption ==
    /\ Master \notin Workers /\ IsFiniteSet(Workers)
    /\ nBatchSize \in Nat \ {0} /\ MaxChecks \in Nat /\ MaxAdd \in Nat /\ MaxBlocks \in Nat

Threads == Workers \cup {Master}

VARIABLES
    queue,        \* the checks to be processed
    nIdle, nTotal, nTodo, fAllOk,
    threads,      \* [Threads -> [pc, batch, ok]]: Loop and its vChecks, fOk
    interrupted,  \* threads with a pending boost::thread::interrupt()
    stopping,     \* interrupt_all() was called
    control,      \* the master's CCheckQueueControl: none, adding, waiting (in Wait),
                  \* leaving (in the destructor), terminated (the destructor threw)
    added,        \* the checks of this block
    bad,          \* those among them that will fail
    ran,          \* those that were executed
    verdict,      \* what Wait last returned: "valid", "invalid", or "none"
    blocks        \* how many blocks were begun

shared == <<queue, nIdle, nTotal, nTodo, fAllOk>>
block  == <<added, bad, verdict, blocks>>
vars   == <<shared, threads, interrupted, stopping, control, ran, block>>

\* The states of a thread: outside Loop; about to lock the mutex for the first time,
\* after a batch, or after a wait; waiting; executing its batch; ended.
PCs == {"out", "enter", "ready", "woken", "wait", "run", "gone"}

At(pc, batch, ok) == [pc |-> pc, batch |-> batch, ok |-> ok]

----------------------------------------------------------------------------
(* The clean-up that begins every critical section of Loop.                *)

Locking(t) == threads[t].pc \in {"enter", "ready", "woken"}

\* Mutant: the result of the batch is lost.
AllOkForgotten(t) == fAllOk

AllOk(t) == IF threads[t].pc = "ready" THEN fAllOk /\ threads[t].ok ELSE fAllOk

\* Mutant: a batch counts as one check.
TodoByOne(t) == IF threads[t].pc = "ready" THEN nTodo - 1 ELSE nTodo

Todo(t)  == IF threads[t].pc = "ready" THEN nTodo - Cardinality(threads[t].batch) ELSE nTodo

Total(t) == IF threads[t].pc = "enter" THEN nTotal + 1 ELSE nTotal

\* Mutant: a thread that did not wait counts as one that did.
IdleAlways(t) == IF threads[t].pc \in {"woken", "ready"} THEN nIdle - 1 ELSE nIdle

Idle(t)  == IF threads[t].pc = "woken" THEN nIdle - 1 ELSE nIdle

\* Mutant: the master is not told that the last check is done.
NotifyNobody(t, ths) == ths

\* condMaster.notify_one(), when a worker has processed the last element.
NotifyMaster(t, ths) ==
    IF threads[t].pc = "ready" /\ Todo(t) = 0 /\ t # Master /\ ths[Master].pc = "wait"
    THEN [ths EXCEPT ![Master] = At("woken", {}, TRUE)]
    ELSE ths

\* Mutant: the master does not wait for the batches of the workers.
MayReturnEarly(t) == t = Master

\* The master may return; a worker could only if something set fQuit.
MayReturn(t) == t = Master /\ Todo(t) = 0

----------------------------------------------------------------------------
(* The three ways a critical section of Loop ends.                         *)

\* Loop(true) returns the verdict and resets it for the next block.
Return(t) ==
    /\ Locking(t) /\ queue = {} /\ MayReturn(t)
    /\ nTotal' = Total(t) - 1
    /\ nIdle' = Idle(t) /\ nTodo' = Todo(t)
    /\ fAllOk' = TRUE
    /\ verdict' = IF control = "leaving" THEN "none"
                  ELSE IF AllOk(t) THEN "valid" ELSE "invalid"
    /\ threads' = [threads EXCEPT ![t] = At("out", {}, TRUE)]
    /\ control' = "none"
    /\ UNCHANGED <<queue, interrupted, stopping, ran, added, bad, blocks>>

\* cond.wait throws: nIdle and nTotal keep counting the thread.  A worker ends; the
\* master unwinds to the destructor of the control, which calls Wait again, and
\* which must not throw itself.
Thrown(t, ths) ==
    /\ interrupted' = interrupted \ {t}
    /\ IF t # Master
       THEN threads' = [ths EXCEPT ![t] = At("gone", {}, TRUE)] /\ UNCHANGED control
       ELSE IF control = "waiting"
            THEN /\ threads' = [ths EXCEPT ![t] = At("enter", {}, TRUE)]
                 /\ control' = "leaving"
            ELSE /\ threads' = [ths EXCEPT ![t] = At("gone", {}, TRUE)]
                 /\ control' = "terminated"

\* Out of work: wait on the condition variable, which first looks for an interruption.
Sleep(t) ==
    /\ Locking(t) /\ queue = {} /\ ~MayReturn(t)
    /\ nTotal' = Total(t) /\ nTodo' = Todo(t) /\ fAllOk' = AllOk(t)
    /\ nIdle' = Idle(t) + 1
    /\ IF t \in interrupted
       THEN Thrown(t, NotifyMaster(t, threads))
       ELSE /\ threads' = NotifyMaster(t, [threads EXCEPT ![t] = At("wait", {}, TRUE)])
            /\ UNCHANGED <<interrupted, control>>
    /\ UNCHANGED <<queue, stopping, ran, block>>

\* The size of the next batch.
nNow(t) ==
    LET share == Cardinality(queue) \div (Total(t) + Idle(t) + 1)
        most == IF share < nBatchSize THEN share ELSE nBatchSize
    IN  IF most < 1 THEN 1 ELSE most

\* Move nNow checks from the back of the queue to the thread's own batch.
Take(t) ==
    LET batch == {c \in queue : Cardinality({d \in queue : d > c}) < nNow(t)}
    IN  /\ Locking(t) /\ queue # {}
        /\ queue' = queue \ batch
        /\ threads' = NotifyMaster(t, [threads EXCEPT ![t] = At("run", batch, AllOk(t))])
        /\ nTotal' = Total(t) /\ nIdle' = Idle(t) /\ nTodo' = Todo(t) /\ fAllOk' = AllOk(t)
        /\ UNCHANGED <<interrupted, stopping, control, ran, block>>

\* Execute the batch, outside the lock, up to the first check that fails.
Execute(t) ==
    LET failing == threads[t].batch \cap bad
        done == {c \in threads[t].batch : threads[t].ok /\ \A d \in failing : d <= c}
    IN  /\ threads[t].pc = "run"
        /\ ran' = ran \cup done
        /\ threads' = [threads EXCEPT ![t] =
                          At("ready", threads[t].batch, threads[t].ok /\ failing = {})]
        /\ UNCHANGED <<shared, interrupted, stopping, control, block>>

----------------------------------------------------------------------------
(* Waking up.                                                              *)

SpuriousWake(t) ==
    /\ threads[t].pc = "wait"
    /\ threads' = [threads EXCEPT ![t] = At("woken", {}, TRUE)]
    /\ UNCHANGED <<shared, interrupted, stopping, control, ran, block>>

\* threadGroup.interrupt_all() at shutdown: the workers, and the master too when it is
\* the import thread.
InterruptAll ==
    /\ ~stopping
    /\ stopping' = TRUE
    /\ interrupted' \in {Workers, Threads}
    /\ UNCHANGED <<shared, threads, control, ran, block>>

\* The interruption ends a wait.
Interrupt(t) ==
    /\ threads[t].pc = "wait" /\ t \in interrupted
    /\ Thrown(t, threads)
    /\ UNCHANGED <<shared, stopping, ran, block>>

----------------------------------------------------------------------------
(* The master: ConnectBlock.                                               *)

IsIdle == nTotal = nIdle /\ nTodo = 0 /\ fAllOk

\* The constructor of CCheckQueueControl.
NewControl ==
    /\ control = "none" /\ blocks < MaxBlocks
    /\ control' = "adding"
    /\ blocks' = blocks + 1
    /\ added' = {} /\ bad' = {} /\ ran' = {}
    /\ verdict' = "none"
    /\ UNCHANGED <<shared, threads, interrupted, stopping>>

\* condWorker.notify_one() for one check, notify_all() for more.
NotifyWorkers(n, ths) ==
    LET asleep == {w \in Workers : ths[w].pc = "wait"}
    IN  \E woken \in SUBSET asleep :
           /\ n = 0 => woken = {}
           /\ n = 1 => Cardinality(woken) = IF asleep = {} THEN 0 ELSE 1
           /\ n > 1 => woken = asleep
           /\ threads' = [t \in Threads |-> IF t \in woken THEN At("woken", {}, TRUE) ELSE ths[t]]

\* Add: the n checks of one transaction.
Add(n) ==
    LET checks == {c \in 1 .. MaxChecks : Cardinality(added) < c /\ c <= Cardinality(added) + n}
    IN  /\ control = "adding" /\ Cardinality(checks) = n
        /\ \E fail \in SUBSET (checks \cap MayFail) : bad' = bad \cup fail
        /\ added' = added \cup checks
        /\ queue' = queue \cup checks
        /\ nTodo' = nTodo + n
        /\ NotifyWorkers(n, threads)
        /\ UNCHANGED <<nIdle, nTotal, fAllOk, interrupted, stopping, control, ran, verdict, blocks>>

\* control.Wait(), or the destructor after an early return of ConnectBlock.
Wait(how) ==
    /\ control = "adding"
    /\ control' = how
    /\ threads' = [threads EXCEPT ![Master] = At("enter", {}, TRUE)]
    /\ UNCHANGED <<shared, interrupted, stopping, ran, block>>

----------------------------------------------------------------------------
Init ==
    /\ queue = {} /\ nIdle = 0 /\ nTotal = 0 /\ nTodo = 0 /\ fAllOk = TRUE
    /\ threads = [t \in Threads |-> At(IF t = Master THEN "out" ELSE "enter", {}, TRUE)]
    /\ interrupted = {} /\ stopping = FALSE
    /\ control = "none"
    /\ added = {} /\ bad = {} /\ ran = {}
    /\ verdict = "none" /\ blocks = 0

\* What thread t does inside Loop.
Step(t) == Return(t) \/ Sleep(t) \/ Take(t) \/ Execute(t) \/ Interrupt(t)

Next ==
    /\ control # "terminated"
    /\ \/ \E t \in Threads : Step(t) \/ SpuriousWake(t)
       \/ InterruptAll
       \/ NewControl
       \/ \E n \in 0 .. MaxAdd : Add(n)
       \/ \E how \in {"waiting", "leaving"} : Wait(how)

Spec == Init /\ [][Next]_vars

\* The threads inside Loop are scheduled.
FairSpec == Spec /\ \A t \in Threads : WF_vars(control # "terminated" /\ Step(t))

----------------------------------------------------------------------------
(* Properties.                                                             *)

Holding == {t \in Threads : threads[t].pc \in {"run", "ready"}}

\* Type correctness; a thread holds checks exactly from Take to its next locking of the
\* mutex, and the master is outside Loop exactly while its control is not waiting.
TypeOK ==
    /\ queue \subseteq added /\ added \subseteq 1 .. MaxChecks
    /\ bad \subseteq added /\ ran \subseteq added
    /\ nIdle \in Nat /\ nTotal \in Nat /\ nTodo \in Nat /\ fAllOk \in BOOLEAN
    /\ threads \in [Threads -> [pc : PCs, batch : SUBSET added, ok : BOOLEAN]]
    /\ \A t \in Threads : threads[t].batch # {} <=> t \in Holding
    /\ interrupted \subseteq Threads /\ stopping \in BOOLEAN
    /\ control \in {"none", "adding", "waiting", "leaving", "terminated"}
    /\ control \in {"none", "adding"} <=> threads[Master].pc = "out"
    /\ verdict \in {"valid", "invalid", "none"} /\ blocks \in Nat

\* nTodo "includes elements that are no longer queued, but still in the worker's own
\* batches" (checkqueue.h), and no check is in two places.
TodoCountsPending ==
    /\ nTodo = Cardinality(queue \cup UNION {threads[t].batch : t \in Threads})
    /\ \A t \in Threads : /\ threads[t].batch \cap queue = {}
                          /\ \A u \in Threads \ {t} : threads[t].batch \cap threads[u].batch = {}

\* Wait returns "whether all evaluations were successful", though workers skip checks
\* once one has failed and the master may run none of them itself.
VerdictRight ==
    /\ verdict = "valid" => bad = {} /\ ran = added
    /\ verdict = "invalid" => bad \cap ran # {}

\* The control "guarantees the passed queue is finished before continuing": when it is
\* gone, also by an early return or an interruption, no thread holds a check (they
\* point into the block and its coins), and the next control will find the queue
\* idle, as its constructor asserts (isIdle).
NothingOutlivesControl ==
    control = "none" => queue = {} /\ Holding = {} /\ IsIdle

\* The thread that connects a block gets its verdict, whether or not workers are
\* left: no wake-up is lost.
WaitReturns == threads[Master].pc # "out" ~> threads[Master].pc = "out" \/ control = "terminated"
================================================================================
