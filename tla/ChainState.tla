------------------------------- MODULE ChainState -------------------------------
(***************************************************************************)
(* The block index and the choice of the active chain (src/validation.cpp) *)
(* as several threads drive them: the message handler, RPC workers and the *)
(* import thread.  cs_main protects all of it, but ActivateBestChain gives *)
(* the lock back after every improvement of the tip and goes on with the   *)
(* pindexMostWork it chose before.                                         *)
(*                                                                         *)
(* Every critical section that moves the tip is split into its DisconnectTip *)
(* and ConnectTip calls, because the process can die between them and each *)
(* of them may write to disk.  The content of blocks is UtxoChain's        *)
(* subject; here a block is good or belongs to one of the sets BadBody,    *)
(* BadConnect.                                                             *)
(***************************************************************************)
EXTENDS Integers, FiniteSets

CONSTANTS
    Blocks,        \* the blocks that can ever be received
    Genesis,
    Parent,        \* [Blocks \ {Genesis} -> Blocks]: pprev
    Ancestors,     \* [Blocks -> SUBSET Blocks]: the chain that ends in a block
    Height,        \* [Blocks -> Nat]
    ChainWork,     \* [Blocks -> Nat]: nChainWork
    Address,       \* [Blocks -> Nat]: the order of the CBlockIndex pointers
    BadBody,       \* blocks that ContextualCheckBlock refuses
    BadConnect,    \* blocks that ConnectBlock refuses
    Files,         \* sets of blocks that share a block file
    KeepBlocks,    \* MIN_BLOCKS_TO_KEEP
    PruneMode,     \* fPruneMode
    Threads,
    ImportThread,  \* the thread of ThreadImport
    NoThread,      \* cs_main is free
    None,          \* nullptr
    Commands,      \* the RPC commands in use: {"invalidate", "reconsider", "precious"}
    MaxCommands,   \* bound: the number of RPC commands
    MaxCrashes,    \* bound: the number of crashes
    MaxSequenceId, \* bound: the value of nBlockSequenceId
    DiskMayFail    \* whether block files and the index database may report an I/O error

ASSUME TreeAssumption ==
    /\ Genesis \in Blocks /\ None \notin Blocks
    /\ Parent \in [Blocks \ {Genesis} -> Blocks]
    /\ Ancestors \in [Blocks -> SUBSET Blocks]
    /\ Ancestors[Genesis] = {Genesis}
    /\ \A b \in Blocks \ {Genesis} : Ancestors[b] = Ancestors[Parent[b]] \cup {b}
    /\ \A b \in Blocks : \A a, c \in Ancestors[b] :
           /\ Genesis \in Ancestors[a] /\ Ancestors[a] \subseteq Ancestors[b]
           /\ a \in Ancestors[c] \/ c \in Ancestors[a]
           /\ a # b => \E x \in Ancestors[b] \ {Genesis} : Parent[x] = a

ASSUME OrderAssumption ==
    /\ Height \in [Blocks -> Nat] /\ ChainWork \in [Blocks -> Nat] /\ Address \in [Blocks -> Nat]
    /\ \A b \in Blocks \ {Genesis} : /\ Height[b] = Height[Parent[b]] + 1
                                     /\ ChainWork[b] > ChainWork[Parent[b]]

\* There are finitely many blocks: those of a set can be counted, and one of them is
\* the lowest and one the highest.
ASSUME FiniteAssumption ==
    \A S \in SUBSET Blocks :
        /\ Cardinality(S) \in Nat
        /\ S # {} => \E low, high \in S : \A x \in S : Height[low] <= Height[x] /\ Height[x] <= Height[high]

\* The genesis block is hard-coded: ConnectBlock takes it as it is.
ASSUME GenesisAssumption == Genesis \notin BadBody \cup BadConnect

ASSUME ProcessAssumption ==
    /\ ImportThread \in Threads /\ NoThread \notin Threads
    /\ MaxCommands \in Nat /\ MaxCrashes \in Nat /\ MaxSequenceId \in Nat
    /\ PruneMode \in BOOLEAN /\ DiskMayFail \in BOOLEAN
    /\ ~(PruneMode /\ DiskMayFail)

\* The bits of nStatus.  TREE: the block is in mapBlockIndex; TX: its transactions
\* were received at some time (nTx > 0); DATA: they are on disk (HAVE_DATA).
FailedMask == {"FAILED_VALID", "FAILED_CHILD"}
StatusFlags == {"TREE", "TX", "SCRIPTS", "DATA"} \cup FailedMask

VARIABLES
    nStatus,       \* [Blocks -> SUBSET StatusFlags]; {} when not in mapBlockIndex
    linked,        \* the blocks with nChainTx > 0
    nSequenceId,   \* [Blocks -> Int]
    counters,      \* nBlockSequenceId, nBlockReverseSequenceId, nLastPreciousChainwork
    candidates,    \* setBlockIndexCandidates
    unlinked,      \* the b for which mapBlocksUnlinked has (pprev, b)
    tip,           \* chainActive.Tip()
    coinsBest,     \* pcoinsTip->GetBestBlock()
    dirty,         \* setDirtyBlockIndex
    diskIndex,     \* nStatus as the block index database holds it
    diskCoins,     \* the best block of the coins database
    coinsDue,      \* FlushStateToDisk has written the index and will write the coins
    csMain,        \* the thread that holds cs_main
    threads,       \* where each thread is, and its local variables
    phase,         \* running, stopping (shutdown requested), down, assert
    budget         \* commands and crashes so far

indexVars  == <<nStatus, linked, nSequenceId, counters, candidates, unlinked>>
diskVars   == <<diskIndex, diskCoins, coinsDue>>
vars == <<indexVars, tip, coinsBest, dirty, diskVars, csMain, threads, phase, budget>>

\* A thread outside validation, and at the head of the loop of ActivateBestChain;
\* there "again" stands for all iterations but the first.
Idle == [pc |-> "idle", mostWork |-> None, oldTip |-> None, arg |-> None]
AtLoop == [pc |-> "abc", mostWork |-> None, oldTip |-> None, arg |-> None]

\* threads once t has gone on to pc with the target mw.
Go(t, pc, mw) == [threads EXCEPT ![t] =
    [pc |-> pc, mostWork |-> mw, oldTip |-> threads[t].oldTip, arg |-> threads[t].arg]]

----------------------------------------------------------------------------
(* CBlockIndex and its orders.                                             *)

Failed(st, b) == st[b] \cap FailedMask # {}

\* IsValid(BLOCK_VALID_TRANSACTIONS).
IsValid(st, b) == "TX" \in st[b] /\ ~Failed(st, b)

\* CBlockIndexWorkComparator: a sorts before (is worse than) b.
WorkLess(seq, a, b) ==
    \/ ChainWork[a] < ChainWork[b]
    \/ ChainWork[a] = ChainWork[b] /\ seq[a] > seq[b]
    \/ ChainWork[a] = ChainWork[b] /\ seq[a] = seq[b] /\ Address[a] > Address[b]

\* chainActive.
Active == IF tip = None THEN {} ELSE Ancestors[tip]

\* The block below b, and the one above "from" on the way to b.
Below(b) == IF b = Genesis THEN None ELSE Parent[b]
Towards(from, b) == CHOOSE x \in Ancestors[b] : Below(x) = from

\* Mutant: blocks as good as the tip are removed too.
PruneBlockIndexCandidatesStrict(set, seq, t) == {c \in set : WorkLess(seq, t, c)}

\* PruneBlockIndexCandidates, before its assertion.
PruneBlockIndexCandidates(set, seq, t) == {c \in set : ~WorkLess(seq, c, t)}

----------------------------------------------------------------------------
(* FlushStateToDisk.  Sizes and times are abstracted: a call may always    *)
(* find that it is not yet time to write.                                  *)

\* Mutant: MIN_BLOCKS_TO_KEEP is off by one.
PruneChoicesOneMore(st) ==
    LET stored(f) == {b \in f : "DATA" \in st[b]}
        old == {f \in Files : PruneMode /\ tip # None
                                 /\ \A b \in stored(f) : Height[b] < Height[tip] - KeepBlocks + 2}
    IN  {UNION {stored(f) : f \in S} : S \in SUBSET old}

\* FindFilesToPrune: the blocks of some of the files that end far below the tip.
PruneChoices(st) ==
    LET stored(f) == {b \in f : "DATA" \in st[b]}
        old == {f \in Files : PruneMode /\ tip # None
                                 /\ \A b \in stored(f) : Height[b] <= Height[tip] - KeepBlocks}
    IN  {UNION {stored(f) : f \in S} : S \in SUBSET old}

\* PruneOneBlockFile.
Pruned(st, F) == [b \in Blocks |-> IF b \in F THEN st[b] \ {"DATA"} ELSE st[b]]

\* WriteBatchSync: only the dirty entries are written.
Written(st, d) == [b \in Blocks |-> IF b \in d THEN st[b] ELSE diskIndex[b]]

\* Mutant: a full flush writes the coins but not the block index.
FlushStateToDiskCoinsOnly(st, d, u, mode) ==
    /\ nStatus' = st /\ unlinked' = u /\ dirty' = d
    /\ coinsDue' \in BOOLEAN
    /\ UNCHANGED <<diskIndex, diskCoins>>

\* st, d and u are nStatus, dirty and unlinked on entry.  A call writes nothing,
\* the index alone, or the index and then (FlushCoins) the coins.
FlushStateToDisk(st, d, u, mode) ==
    \E F \in PruneChoices(st) :
        /\ nStatus' = Pruned(st, F)
        /\ unlinked' = u \ F
        /\ \/ /\ F = {}
              /\ dirty' = d /\ coinsDue' = FALSE
              /\ UNCHANGED diskIndex
           \/ /\ F # {} \/ mode # "none"
              /\ dirty' = {} /\ diskIndex' = Written(Pruned(st, F), d \cup F)
              /\ coinsDue' = TRUE
           \/ /\ F = {} /\ mode = "periodic"
              /\ dirty' = {} /\ diskIndex' = Written(st, d)
              /\ coinsDue' = FALSE
        /\ UNCHANGED diskCoins

\* The end of a full flush: pcoinsTip->Flush().
FlushCoins ==
    /\ coinsDue
    /\ coinsDue' = FALSE /\ diskCoins' = coinsBest
    /\ UNCHANGED <<indexVars, tip, coinsBest, dirty, diskIndex, csMain, threads, phase, budget>>

\* WriteBatchSync throws: by then setDirtyBlockIndex is empty.
FlushFails(st, u) ==
    /\ DiskMayFail
    /\ nStatus' = st /\ unlinked' = u
    /\ dirty' = {}
    /\ UNCHANGED diskVars

\* Mutant: the error is returned but once there is a chain no shutdown is requested.
AbortNodeQuietly(t) ==
    /\ phase' = IF tip = None THEN "stopping" ELSE phase
    /\ csMain' = NoThread
    /\ threads' = [threads EXCEPT ![t] = Idle]

\* AbortNode in thread t: shutdown is requested and the call stack unwinds.
AbortNode(t) ==
    /\ phase' = "stopping"
    /\ csMain' = NoThread
    /\ threads' = [threads EXCEPT ![t] = Idle]

----------------------------------------------------------------------------
(* Headers and blocks arrive.                                              *)

Serving == phase \in {"running", "stopping"} /\ tip # None /\ csMain = NoThread

\* AcceptBlockHeader: a known block must not be marked as failed; for a new
\* one the same holds of its parent.
HeaderAccepted(b) ==
    IF nStatus[b] # {} THEN ~Failed(nStatus, b)
    ELSE nStatus[Parent[b]] # {} /\ ~Failed(nStatus, Parent[b])

\* Mutant: AddToBlockIndex forgets setDirtyBlockIndex.
HeaderDirtyNever(b) == dirty

\* AddToBlockIndex.
WithHeader(b) == [nStatus EXCEPT ![b] = @ \cup {"TREE"}]
HeaderDirty(b) == IF nStatus[b] = {} THEN dirty \cup {b} ELSE dirty

ProcessNewBlockHeaders(b) ==
    /\ Serving
    /\ nStatus[b] = {} /\ HeaderAccepted(b)
    /\ nStatus' = WithHeader(b)
    /\ dirty' = HeaderDirty(b)
    /\ UNCHANGED <<linked, nSequenceId, counters, candidates, unlinked, tip, coinsBest,
                   diskVars, csMain, threads, phase, budget>>

\* The early returns of AcceptBlock that do not look at the block.
NotWanted(b, fRequested) ==
    \/ "DATA" \in nStatus[b]
    \/ /\ ~fRequested
       /\ \/ "TX" \in nStatus[b]
          \/ ChainWork[b] <= ChainWork[tip]
          \/ Height[b] > Height[tip] + KeepBlocks

\* ProcessNewBlock, when AcceptBlock returns early: the header is kept and the
\* thread goes on to ActivateBestChain.
SkipBlock(t, b, fRequested) ==
    /\ Serving /\ threads[t] = Idle
    /\ HeaderAccepted(b) /\ NotWanted(b, fRequested)
    /\ nStatus' = WithHeader(b)
    /\ dirty' = HeaderDirty(b)
    /\ threads' = [threads EXCEPT ![t] = AtLoop]
    /\ UNCHANGED <<linked, nSequenceId, counters, candidates, unlinked, tip, coinsBest,
                   diskVars, csMain, phase, budget>>

\* ProcessNewBlock, when ContextualCheckBlock refuses the block.
RejectBlock(t, b, fRequested) ==
    /\ Serving /\ threads[t] = Idle
    /\ HeaderAccepted(b) /\ ~NotWanted(b, fRequested) /\ b \in BadBody
    /\ nStatus' = [WithHeader(b) EXCEPT ![b] = @ \cup {"FAILED_VALID"}]
    /\ dirty' = dirty \cup {b}
    /\ UNCHANGED <<linked, nSequenceId, counters, candidates, unlinked, tip, coinsBest,
                   diskVars, csMain, threads, phase, budget>>

\* The blocks that ReceivedBlockTransactions links: b and what waited for it.
NowLinked(b) == {x \in Blocks : b \in Ancestors[x] /\ Ancestors[x] \ Ancestors[b] \subseteq unlinked}

\* The sequence ids in the order of its queue: breadth first.
QueueOrders(L, first) ==
    {f \in [L -> first .. first + Cardinality(L) - 1] :
        \A x, y \in L :
            /\ x # y => f[x] # f[y]
            /\ x # Genesis /\ y = Parent[x] => f[y] < f[x]
            /\ (x # Genesis /\ y # Genesis /\ {Parent[x], Parent[y]} \subseteq L)
                  => (f[Parent[x]] < f[Parent[y]] => f[x] < f[y])}

\* Mutant: blocks that waited for this one are not linked.
LinkBlockAlone(b) ==
    IF b = Genesis \/ Parent[b] \in linked
    THEN /\ linked' = linked \cup {b}
         /\ nSequenceId' = [nSequenceId EXCEPT ![b] = counters.next]
         /\ counters' = [counters EXCEPT !.next = @ + 1]
         /\ candidates' = candidates \cup {x \in {b} : tip = None \/ ~WorkLess(nSequenceId', x, tip)}
    ELSE /\ linked' = linked \ {b}
         /\ UNCHANGED <<nSequenceId, counters, candidates>>

\* ReceivedBlockTransactions: what it does to links, candidates and sequence ids.
LinkBlock(b) ==
    IF b = Genesis \/ Parent[b] \in linked
    THEN \E f \in QueueOrders(NowLinked(b), counters.next) :
         /\ linked' = linked \cup DOMAIN f
         /\ nSequenceId' = [x \in Blocks |-> IF x \in DOMAIN f THEN f[x] ELSE nSequenceId[x]]
         /\ counters' = [counters EXCEPT !.next = @ + Cardinality(DOMAIN f)]
         /\ candidates' = candidates \cup
                {x \in DOMAIN f : tip = None \/ ~WorkLess(nSequenceId', x, tip)}
    ELSE /\ linked' = linked \ {b}
         /\ UNCHANGED <<nSequenceId, counters, candidates>>

UnlinkedAfter(b) ==
    IF b = Genesis \/ Parent[b] \in linked THEN unlinked \ (NowLinked(b) \ {b})
    ELSE IF ~Failed(nStatus, Parent[b]) THEN unlinked \cup {b} ELSE unlinked

\* ProcessNewBlock, when the block is stored; AcceptBlock ends with a call of
\* FlushStateToDisk that may prune.
AcceptBlock(t, b, fRequested) ==
    /\ Serving /\ threads[t] = Idle
    /\ HeaderAccepted(b) /\ ~NotWanted(b, fRequested) /\ b \notin BadBody
    /\ LinkBlock(b) /\ counters'.next <= MaxSequenceId
    /\ threads' = [threads EXCEPT ![t] = AtLoop]
    /\ UNCHANGED <<tip, coinsBest, csMain, phase, budget>>
    /\ FlushStateToDisk([WithHeader(b) EXCEPT ![b] = @ \cup {"TX", "DATA"}],
                        dirty \cup {b}, UnlinkedAfter(b), "none")

----------------------------------------------------------------------------
(* ActivateBestChain.                                                      *)

\* The head of the loop: leave if a shutdown was requested, ...
ActivateBestChain(t) ==
    /\ threads[t].pc \in {"abc", "again"}
    /\ threads' = Go(t, IF phase = "stopping" THEN "flush"
                        ELSE IF threads[t].pc = "abc" THEN "lock" ELSE "relock", threads[t].mostWork)
    /\ UNCHANGED <<indexVars, tip, coinsBest, dirty, diskVars, csMain, phase, budget>>

\* ... take cs_main, and choose a target unless one is left from the last iteration.
LockMain(t) ==
    /\ threads[t].pc \in {"lock", "relock"} /\ csMain = NoThread
    /\ threads' = Go(t, IF threads[t].mostWork = None THEN "find" ELSE "begin", threads[t].mostWork)
    /\ csMain' = t
    /\ UNCHANGED <<indexVars, tip, coinsBest, dirty, diskVars, phase, budget>>

\* Mutant: only the candidate itself is tested, not the blocks below it.
UnusableOnlyTip(c) == {x \in {c} \ Active : Failed(nStatus, x) \/ "DATA" \notin nStatus[x]}

\* The blocks between the active chain and candidate c that rule it out.
Unusable(c) == {x \in Ancestors[c] \ Active : Failed(nStatus, x) \/ "DATA" \notin nStatus[x]}

\* One round of FindMostWorkChain: the best candidate is the target, or it is dropped
\* with all that is built on the topmost block that rules it out.
FindMostWorkChain(t) ==
    /\ threads[t].pc = "find"
    /\ IF candidates = {}
       THEN /\ threads' = [threads EXCEPT ![t] = Idle]
            /\ csMain' = NoThread
            /\ UNCHANGED <<nStatus, candidates, unlinked>>
       ELSE \E c \in candidates :
            LET test == CHOOSE x \in Unusable(c) : \A y \in Unusable(c) : Height[y] <= Height[x]
                above == {x \in Ancestors[c] : Height[x] > Height[test]}
            IN  /\ \A x \in candidates \ {c} : WorkLess(nSequenceId, x, c)
                /\ IF Unusable(c) = {}
                   THEN /\ threads' = Go(t, "begin", c)
                        /\ UNCHANGED <<nStatus, candidates, unlinked, csMain>>
                   ELSE /\ candidates' = candidates \ (above \cup {test})
                        /\ IF Failed(nStatus, test)
                           THEN /\ nStatus' = [b \in Blocks |-> IF b \in above
                                     THEN nStatus[b] \cup {"FAILED_CHILD"} ELSE nStatus[b]]
                                /\ UNCHANGED unlinked
                           ELSE unlinked' = unlinked \cup above /\ UNCHANGED nStatus
                        /\ UNCHANGED <<threads, csMain>>
    /\ UNCHANGED <<linked, nSequenceId, counters, tip, coinsBest, dirty, diskVars, phase, budget>>

\* Nothing to do, or ActivateBestChainStep begins.
BeginStep(t) ==
    /\ threads[t].pc = "begin"
    /\ IF threads[t].mostWork = tip
       THEN threads' = [threads EXCEPT ![t] = Idle] /\ csMain' = NoThread
       ELSE /\ threads' = [threads EXCEPT ![t] = [pc |-> "step", mostWork |-> threads[t].mostWork,
                                                  oldTip |-> tip, arg |-> None]]
            /\ UNCHANGED csMain
    /\ UNCHANGED <<indexVars, tip, coinsBest, dirty, diskVars, phase, budget>>

\* ReadBlockFromDisk may fail: the block was pruned, or the disk fails.
Unreadable(st, b) == "DATA" \in st[b] => DiskMayFail

\* DisconnectBlock cannot read the undo data.  The error is only logged: no shutdown
\* is requested (but by ThreadImport, see StartShutdown), ActivateBestChain gives up,
\* and invalidateblock, whose state is still valid, goes on to call it.
UndoUnreadable(t) ==
    /\ DiskMayFail
    /\ csMain' = NoThread
    /\ threads' = [threads EXCEPT ![t] = IF threads[t].pc = "invalidate" THEN AtLoop ELSE Idle]
    /\ UNCHANGED phase

\* DisconnectTip by thread t with nStatus = st and dirty = d.  It fails when the
\* block or its undo data cannot be read, and when the chain state should be
\* written but cannot.
DisconnectTip(t, st, d) ==
    \/ /\ \/ Unreadable(st, tip) /\ AbortNode(t)
          \/ "DATA" \in st[tip] /\ UndoUnreadable(t)
       /\ nStatus' = st /\ dirty' = d
       /\ UNCHANGED <<unlinked, tip, coinsBest, diskVars>>
    \/ /\ "DATA" \in st[tip]
       /\ coinsBest' = Below(tip)
       /\ \/ /\ FlushStateToDisk(st, d, unlinked, "if_needed")
             /\ tip' = Below(tip)
             /\ UNCHANGED <<csMain, threads, phase>>
          \/ FlushFails(st, unlinked) /\ AbortNode(t) /\ UNCHANGED tip

StepDisconnect(t) ==
    /\ threads[t].pc = "step" /\ coinsBest = tip
    /\ tip # None /\ tip \notin Ancestors[threads[t].mostWork]
    /\ DisconnectTip(t, nStatus, dirty)
    /\ UNCHANGED <<linked, nSequenceId, counters, candidates, budget>>

\* The target was already part of the active chain: there is nothing to connect.
StepDone(t) ==
    /\ threads[t].pc = "step" /\ tip = threads[t].mostWork
    /\ threads' = Go(t, "end", threads[t].mostWork)
    /\ UNCHANGED <<indexVars, tip, coinsBest, dirty, diskVars, csMain, phase, budget>>

\* The block that ConnectTip is called for.
NextBlock(t) == Towards(tip, threads[t].mostWork)

CanConnect(t) ==
    /\ threads[t].pc = "step" /\ coinsBest = tip
    /\ tip = None \/ tip \in Ancestors[threads[t].mostWork] \ {threads[t].mostWork}

\* ConnectTip cannot read the block.
ConnectUnreadable(t) ==
    /\ CanConnect(t) /\ Unreadable(nStatus, NextBlock(t))
    /\ AbortNode(t)
    /\ UNCHANGED <<indexVars, tip, coinsBest, dirty, diskVars, budget>>

\* Mutant: the block is not marked at all.
ConnectInvalidUnmarked(t) ==
    /\ CanConnect(t) /\ "DATA" \in nStatus[NextBlock(t)]
    /\ NextBlock(t) \in BadConnect
    /\ threads' = Go(t, "end", None)
    /\ UNCHANGED <<indexVars, tip, coinsBest, dirty, diskVars, csMain, phase, budget>>

\* ConnectBlock refuses the block: InvalidBlockFound, and pindexMostWork is wiped.
ConnectInvalid(t) ==
    /\ CanConnect(t) /\ "DATA" \in nStatus[NextBlock(t)]
    /\ NextBlock(t) \in BadConnect
    /\ nStatus' = [nStatus EXCEPT ![NextBlock(t)] = @ \cup {"FAILED_VALID"}]
    /\ dirty' = dirty \cup {NextBlock(t)}
    /\ candidates' = candidates \ {NextBlock(t)}
    /\ threads' = Go(t, "end", None)
    /\ UNCHANGED <<linked, nSequenceId, counters, unlinked, tip, coinsBest, diskVars,
                   csMain, phase, budget>>

\* ConnectTip succeeds; then PruneBlockIndexCandidates and its assertion.  The
\* step is over at the target, or as soon as the tip has more work than before.
ConnectTip(t) ==
    LET b == NextBlock(t)
        known == b = Genesis \/ ("SCRIPTS" \in nStatus[b] /\ ~Failed(nStatus, b))
        st == IF known \/ Failed(nStatus, b) THEN nStatus
              ELSE [nStatus EXCEPT ![b] = @ \cup {"SCRIPTS"}]
        left == PruneBlockIndexCandidates(candidates, nSequenceId, b)
        old == threads[t].oldTip
        over == b = threads[t].mostWork \/ old = None \/ ChainWork[b] > ChainWork[old]
    IN  /\ CanConnect(t) /\ "DATA" \in nStatus[b] /\ b \notin BadConnect
        /\ coinsBest' = b
        /\ \/ /\ FlushStateToDisk(st, IF known THEN dirty ELSE dirty \cup {b}, unlinked, "if_needed")
              /\ tip' = b
              /\ candidates' = left
              /\ phase' = IF left = {} THEN "assert" ELSE phase
              /\ threads' = Go(t, IF over THEN "end" ELSE "step", threads[t].mostWork)
              /\ UNCHANGED csMain
           \/ FlushFails(st, unlinked) /\ AbortNode(t) /\ UNCHANGED <<tip, candidates>>
        /\ UNCHANGED <<linked, nSequenceId, counters, budget>>

\* ConnectBlock and DisconnectBlock assert that pcoinsTip is where chainActive is.
CoinsElsewhere(t) ==
    /\ coinsBest # tip
    /\ \/ threads[t].pc = "step" /\ tip # threads[t].mostWork
       \/ threads[t].pc = "invalidate" /\ threads[t].arg \in Active
    /\ phase' = "assert"
    /\ UNCHANGED <<indexVars, tip, coinsBest, dirty, diskVars, csMain, threads, budget>>

\* Mutant: the lock is kept for the next iteration.
EndStepKeepLock(t) ==
    /\ threads[t].pc = "end"
    /\ threads' = [threads EXCEPT ![t] =
                      [pc |-> IF tip = threads[t].mostWork THEN "flush" ELSE "again",
                       mostWork |-> threads[t].mostWork, oldTip |-> None, arg |-> None]]
    /\ UNCHANGED <<indexVars, tip, coinsBest, dirty, diskVars, csMain, phase, budget>>

\* cs_main is released; the loop ends when the tip is the chosen target.
EndStep(t) ==
    /\ threads[t].pc = "end"
    /\ csMain' = NoThread
    /\ threads' = [threads EXCEPT ![t] =
                      [pc |-> IF tip = threads[t].mostWork THEN "flush" ELSE "again",
                       mostWork |-> threads[t].mostWork, oldTip |-> None, arg |-> None]]
    /\ UNCHANGED <<indexVars, tip, coinsBest, dirty, diskVars, phase, budget>>

\* The periodic FlushStateToDisk at the end of ActivateBestChain.
FinishActivate(t) ==
    /\ threads[t].pc = "flush" /\ csMain = NoThread
    /\ UNCHANGED coinsBest
    /\ \/ /\ FlushStateToDisk(nStatus, dirty, unlinked, "periodic")
          /\ threads' = [threads EXCEPT ![t] = Idle]
          /\ UNCHANGED <<csMain, phase>>
       \/ FlushFails(nStatus, unlinked) /\ AbortNode(t)
    /\ UNCHANGED <<linked, nSequenceId, counters, candidates, tip, budget>>

----------------------------------------------------------------------------
(* RPC commands; each one ends in ActivateBestChain.                       *)

Command(name) ==
    /\ Serving
    /\ name \in Commands /\ budget.commands < MaxCommands
    /\ budget' = [budget EXCEPT !.commands = @ + 1]

\* InvalidateBlock marks the block, ...
InvalidateBlock(t, b) ==
    /\ Command("invalidate") /\ threads[t] = Idle
    /\ b # Genesis /\ nStatus[b] # {}
    /\ nStatus' = [nStatus EXCEPT ![b] = @ \cup {"FAILED_VALID"}]
    /\ dirty' = dirty \cup {b}
    /\ candidates' = candidates \ {b}
    /\ csMain' = t
    /\ threads' = [threads EXCEPT ![t] = [pc |-> "invalidate", mostWork |-> None,
                                          oldTip |-> None, arg |-> b]]
    /\ UNCHANGED <<linked, nSequenceId, counters, unlinked, tip, coinsBest, diskVars, phase>>

\* ... disconnects the active chain down to it, ...
InvalidateDisconnect(t) ==
    /\ threads[t].pc = "invalidate" /\ threads[t].arg \in Active /\ coinsBest = tip
    /\ candidates' = candidates \ {tip}
    /\ DisconnectTip(t, [nStatus EXCEPT ![tip] = @ \cup {"FAILED_CHILD"}], dirty \cup {tip})
    /\ UNCHANGED <<linked, nSequenceId, counters, budget>>

\* ... and puts back the candidates that are at least as good as the new tip.
InvalidateFinish(t) ==
    /\ threads[t].pc = "invalidate" /\ threads[t].arg \notin Active
    /\ candidates' = candidates \cup
           {b \in linked : IsValid(nStatus, b) /\ ~WorkLess(nSequenceId, b, tip)}
    /\ csMain' = NoThread
    /\ threads' = [threads EXCEPT ![t] = AtLoop]
    /\ UNCHANGED <<nStatus, linked, nSequenceId, counters, unlinked, tip, coinsBest, dirty,
                   diskVars, phase, budget>>

\* reconsiderblock: ResetBlockFailureFlags for the block and its descendants, then
\* for its ancestors.
ResetBlockFailureFlags(t, b) ==
    LET reset == {x \in Blocks : b \in Ancestors[x] /\ ~IsValid(nStatus, x) /\ nStatus[x] # {}}
        above == {x \in Ancestors[b] : Failed(nStatus, x)}
        cleared == [x \in Blocks |-> IF x \in reset \cup above THEN nStatus[x] \ FailedMask
                                     ELSE nStatus[x]]
    IN  /\ Command("reconsider") /\ threads[t] = Idle
        /\ nStatus[b] # {}
        /\ nStatus' = cleared
        /\ dirty' = dirty \cup reset \cup above
        /\ candidates' = candidates \cup
               {x \in reset \cap linked : IsValid(cleared, x) /\ WorkLess(nSequenceId, tip, x)}
        /\ threads' = [threads EXCEPT ![t] = AtLoop]
        /\ UNCHANGED <<linked, nSequenceId, counters, unlinked, tip, coinsBest, diskVars,
                       csMain, phase>>

\* Mutant: the block is not made a candidate.
PreciousBlockNotCandidate(t, b) ==
    LET rev == IF ChainWork[tip] > counters.lastPrecious THEN -1 ELSE counters.reverse
    IN  /\ Command("precious") /\ threads[t] = Idle
        /\ nStatus[b] # {} /\ ChainWork[b] >= ChainWork[tip]
        /\ nSequenceId' = [nSequenceId EXCEPT ![b] = rev]
        /\ counters' = [counters EXCEPT !.reverse = rev - 1, !.lastPrecious = ChainWork[tip]]
        /\ threads' = [threads EXCEPT ![t] = AtLoop]
        /\ UNCHANGED <<nStatus, linked, candidates, unlinked, tip, coinsBest, dirty, diskVars,
                       csMain, phase>>

\* PreciousBlock.
PreciousBlock(t, b) ==
    LET rev == IF ChainWork[tip] > counters.lastPrecious THEN -1 ELSE counters.reverse
        seq == [nSequenceId EXCEPT ![b] = rev]
        usable == IsValid(nStatus, b) /\ b \in linked
        left == PruneBlockIndexCandidates(candidates \cup {b}, seq, tip)
    IN  /\ Command("precious") /\ threads[t] = Idle
        /\ nStatus[b] # {} /\ ChainWork[b] >= ChainWork[tip]
        /\ nSequenceId' = seq
        /\ counters' = [counters EXCEPT !.reverse = rev - 1, !.lastPrecious = ChainWork[tip]]
        /\ candidates' = IF usable THEN left ELSE candidates \ {b}
        /\ phase' = IF usable /\ left = {} THEN "assert" ELSE phase
        /\ threads' = [threads EXCEPT ![t] = AtLoop]
        /\ UNCHANGED <<nStatus, linked, unlinked, tip, coinsBest, dirty, diskVars, csMain>>

\* pruneblockchain.
PruneBlockFilesManual ==
    /\ Serving /\ PruneMode
    /\ UNCHANGED <<linked, nSequenceId, counters, candidates, tip, coinsBest, csMain, threads,
                   phase, budget>>
    /\ FlushStateToDisk(nStatus, dirty, unlinked, "none")

----------------------------------------------------------------------------
(* Shutdown, crashes and restarts.                                         *)

StartShutdown ==
    /\ phase = "running" /\ tip # None
    /\ phase' = "stopping"
    /\ UNCHANGED <<indexVars, tip, coinsBest, dirty, diskVars, csMain, threads, budget>>

\* What is left of the process' memory.
MemoryLost ==
    /\ nStatus' = [b \in Blocks |-> {}]
    /\ linked' = {} /\ candidates' = {} /\ unlinked' = {} /\ dirty' = {}
    /\ nSequenceId' = [b \in Blocks |-> 0]
    /\ counters' = [next |-> 1, reverse |-> -1, lastPrecious |-> 0]
    /\ tip' = None /\ coinsBest' = None
    /\ csMain' = NoThread /\ coinsDue' = FALSE
    /\ threads' = [t \in Threads |-> Idle]
    /\ phase' = "down"

\* Shutdown: every thread has been joined; a last full flush.
Shutdown ==
    /\ phase = "stopping" /\ \A t \in Threads : threads[t] = Idle
    /\ diskIndex' = Written(nStatus, dirty)
    /\ diskCoins' = coinsBest
    /\ MemoryLost
    /\ UNCHANGED budget

\* The process dies, possibly between the two writes of a flush (for the one of
\* Shutdown, the second disjunct); or an assertion ends it.
Crash ==
    /\ phase \in {"running", "stopping"} /\ budget.crashes < MaxCrashes
    /\ budget' = [budget EXCEPT !.crashes = @ + 1]
    /\ \/ UNCHANGED diskIndex
       \/ /\ phase = "stopping" /\ \A t \in Threads : threads[t] = Idle
          /\ diskIndex' = Written(nStatus, dirty)
    /\ MemoryLost
    /\ UNCHANGED diskCoins

AssertFails ==
    /\ phase = "assert"
    /\ MemoryLost
    /\ UNCHANGED <<diskIndex, diskCoins, budget>>

\* LoadBlockIndexDB, InitBlockIndex and RewindBlockIndex (which inserts the same
\* candidates again); then ThreadImport calls ActivateBestChain.
Restart ==
    LET known == diskCoins # None /\ diskIndex[diskCoins] # {}
        chainTx == {b \in Blocks : \A a \in Ancestors[b] : "TX" \in diskIndex[a]}
        all == {b \in chainTx : IsValid(diskIndex, b)}
        left == PruneBlockIndexCandidates(all, nSequenceId, diskCoins)
    IN  /\ phase = "down"
        /\ nStatus' = diskIndex
        /\ linked' = chainTx
        /\ unlinked' = {b \in Blocks \ {Genesis} : "TX" \in diskIndex[b] /\ Parent[b] \notin chainTx}
        /\ coinsBest' = diskCoins
        /\ IF known
           THEN /\ tip' = diskCoins
                /\ candidates' = left
                /\ phase' = IF left = {} THEN "assert" ELSE "running"
                /\ UNCHANGED <<nSequenceId, counters>>
           ELSE /\ tip' = None
                /\ candidates' = all \cup {Genesis}
                /\ nSequenceId' = [nSequenceId EXCEPT ![Genesis] = 1]
                /\ counters' = [counters EXCEPT !.next = 2]
                /\ phase' = "running"
        /\ threads' = [threads EXCEPT ![ImportThread] = AtLoop]
        /\ UNCHANGED <<dirty, diskVars, csMain, budget>>

----------------------------------------------------------------------------
\* A node that has just created its databases: the genesis block is indexed but
\* not yet connected.
Init ==
    /\ nStatus = [b \in Blocks |-> IF b = Genesis THEN {"TREE", "TX", "DATA"} ELSE {}]
    /\ linked = {Genesis} /\ candidates = {Genesis} /\ unlinked = {} /\ dirty = {}
    /\ nSequenceId = [b \in Blocks |-> IF b = Genesis THEN 1 ELSE 0]
    /\ counters = [next |-> 2, reverse |-> -1, lastPrecious |-> 0]
    /\ tip = None /\ coinsBest = None
    /\ diskIndex = nStatus /\ diskCoins = None /\ coinsDue = FALSE
    /\ csMain = NoThread
    /\ threads = [t \in Threads |-> IF t = ImportThread THEN AtLoop ELSE Idle]
    /\ phase = "running"
    /\ budget = [commands |-> 0, crashes |-> 0]

\* What thread t does once it is inside validation.
Step(t) ==
    /\ phase \in {"running", "stopping"}
    /\ \/ ActivateBestChain(t) \/ LockMain(t) \/ FindMostWorkChain(t) \/ BeginStep(t)
       \/ StepDisconnect(t) \/ StepDone(t) \/ ConnectUnreadable(t) \/ ConnectInvalid(t) \/ ConnectTip(t)
       \/ CoinsElsewhere(t)
       \/ EndStep(t) \/ FinishActivate(t)
       \/ InvalidateDisconnect(t) \/ InvalidateFinish(t)

\* What may happen while cs_main is not in use for a flush.
Operate ==
    \/ \E t \in Threads : Step(t)
    \/ \E b \in Blocks : ProcessNewBlockHeaders(b)
    \/ \E t \in Threads, b \in Blocks, fRequested \in BOOLEAN :
           \/ SkipBlock(t, b, fRequested)
           \/ RejectBlock(t, b, fRequested)
           \/ AcceptBlock(t, b, fRequested)
    \/ \E t \in Threads, b \in Blocks :
           InvalidateBlock(t, b) \/ ResetBlockFailureFlags(t, b) \/ PreciousBlock(t, b)
    \/ PruneBlockFilesManual
    \/ StartShutdown \/ Shutdown \/ AssertFails \/ Restart

Next == FlushCoins \/ Crash \/ (~coinsDue /\ Operate)

Spec == Init /\ [][Next]_vars

\* Every thread is scheduled and a flush goes on to its second write.
FairSpec == /\ Spec
            /\ WF_vars(FlushCoins)
            /\ \A t \in Threads : WF_vars(~coinsDue /\ Step(t))

----------------------------------------------------------------------------
(* Properties.                                                             *)

CriticalSection == {"find", "begin", "step", "end", "invalidate"}

\* Type correctness of the block index, of the databases and of the threads; cs_main
\* is held exactly by the thread that is in a critical section.
TypeOK ==
    /\ nStatus \in [Blocks -> SUBSET StatusFlags] /\ diskIndex \in [Blocks -> SUBSET StatusFlags]
    /\ linked \subseteq Blocks /\ candidates \subseteq Blocks /\ unlinked \subseteq Blocks
    /\ dirty \subseteq Blocks
    /\ nSequenceId \in [Blocks -> Int]
    /\ counters \in [next : Int, reverse : Int, lastPrecious : Int]
    /\ tip \in Blocks \cup {None} /\ coinsBest \in Blocks \cup {None}
    /\ diskCoins \in Blocks \cup {None} /\ coinsDue \in BOOLEAN
    /\ csMain \in Threads \cup {NoThread}
    /\ threads \in [Threads ->
           [pc : {"idle", "abc", "lock", "again", "relock", "flush"} \cup CriticalSection,
            mostWork : Blocks \cup {None}, oldTip : Blocks \cup {None}, arg : Blocks \cup {None}]]
    /\ phase \in {"running", "stopping", "down", "assert"}
    /\ budget \in [commands : Nat, crashes : Nat]
    /\ \A t \in Threads : csMain = t <=> threads[t].pc \in CriticalSection

\* No thread is in a critical section: anyone may see the state.
Visible == phase \in {"running", "stopping"} /\ csMain = NoThread /\ ~coinsDue /\ tip # None

\* No thread is between two steps of ActivateBestChain, or left it half way.
Quiet == Visible /\ phase = "running" /\ \A t \in Threads : threads[t].pc \notin {"again", "relock"}

Processed(b) == \A a \in Ancestors[b] : "TX" \in nStatus[a]
Complete(b) == \A a \in Ancestors[b] : "DATA" \in nStatus[a]
Tainted(b) == \E a \in Ancestors[b] : "FAILED_VALID" \in nStatus[a]
Known == {b \in Blocks : nStatus[b] # {}}

\* The assertions of CheckBlockIndex on setBlockIndexCandidates: it has every
\* block that could replace the tip, and nothing worse than the tip.  A block
\* missing here is a chain the node will never switch to.
CandidatesRight ==
    Quiet => \A b \in Known :
        IF Processed(b) /\ ~WorkLess(nSequenceId, b, tip)
        THEN ~Tainted(b) /\ (Complete(b) \/ b = tip) => b \in candidates
        ELSE b \notin candidates

\* Its assertions on mapBlocksUnlinked and nChainTx: a block whose parents were
\* missing is found again when they arrive.
UnlinkedRight ==
    Quiet => \A b \in Known :
        /\ b \in linked <=> Processed(b)
        /\ b \notin linked => nSequenceId[b] <= 0
        /\ "DATA" \in nStatus[b] /\ ~Processed(b) /\ ~Tainted(b) => b \in unlinked
        /\ "DATA" \notin nStatus[b] \/ Complete(b) => b \notin unlinked
        /\ /\ "DATA" \in nStatus[b] /\ Processed(b) /\ ~Complete(b) /\ ~Tainted(b)
           /\ ~WorkLess(nSequenceId, b, tip) /\ b \notin candidates
           => b \in unlinked

\* Its assertion "The failed mask cannot be set for blocks without invalid
\* parents".
FailuresHaveCause == Quiet => \A b \in Known : Failed(nStatus, b) => Tainted(b)

\* The three together: what CheckBlockIndex asserts of the block index holds
\* whenever no thread is half way through a change of the chain.
CheckBlockIndex == CandidatesRight /\ UnlinkedRight /\ FailuresHaveCause

\* No block whose chain is complete and free of failures sorts above the tip.
NothingBetter ==
    \A b \in Known : Complete(b) /\ (\A a \in Ancestors[b] : ~Failed(nStatus, a))
                        => ~WorkLess(nSequenceId, tip, b)

\* The best chain is active once every call of ActivateBestChain has returned, in
\* whatever order blocks, crashes and restarts came.
BestChainActivated == Quiet /\ (\A t \in Threads : threads[t] = Idle) => NothingBetter

\* "The result is either failure or an activated best chain" (ActivateBestChain): a
\* call that returns true in a running node leaves no better chain, also when an
\* earlier one failed half way through a reorganization because undo data could not
\* be read, which only its caller hears of.
ActivatedOrFailed ==
    [][\A t \in Threads :
           threads[t].pc \in {"find", "begin", "flush"} /\ threads'[t] = Idle
               /\ phase' = "running" /\ tip' # None
           => NothingBetter']_vars

\* While the node runs and cs_main is free, pcoinsTip describes the block that
\* chainActive ends in: a flush that fails after the coins have moved (ConnectTip,
\* DisconnectTip) leaves a node that only shuts down.
CoinsAtTip == Visible /\ phase = "running" => coinsBest = tip

\* No block of the active chain is marked as failed: a block that invalidateblock
\* or ConnectBlock found invalid is not followed.
TipNotFailed == Visible /\ phase = "running" => \A b \in Active : ~Failed(nStatus, b)

\* The coins database never names a block that the block index database does not
\* have, received and with all its ancestors: "This can only be done if the blocks / block
\* index write was also done" (FlushStateToDisk).
DiskCoinsIndexed ==
    diskCoins # None => \A a \in Ancestors[diskCoins] : "TX" \in diskIndex[a]

\* setDirtyBlockIndex misses nothing but the FAILED_CHILD marks that
\* FindMostWorkChain derives: what a flush leaves out is on disk already.  Once a
\* write has failed the node only shuts down.
DirtyIsComplete ==
    phase = "running" \/ (phase # "down" /\ ~DiskMayFail) => \A b \in Blocks \ dirty :
        nStatus[b] \ {"FAILED_CHILD"} = diskIndex[b] \ {"FAILED_CHILD"}

\* "Block files containing a block-height within MIN_BLOCKS_TO_KEEP of
\* chainActive.Tip() will not be pruned" (validation.h): the newest blocks of the
\* active chain are there when a reorganization has to disconnect them.
KeepsRecentBlocks ==
    Visible => \A b \in Active : Height[b] > Height[tip] - KeepBlocks => "DATA" \in nStatus[b]

\* The assertion of PruneBlockIndexCandidates, "Either the current tip or a successor
\* of it we're working towards is left", and those on the coins never fail.
NoAssertion == phase # "assert"

\* A call of ActivateBestChain returns, whatever blocks turn out to be invalid.
ActivationEnds == \A t \in Threads : threads[t].pc = "abc" ~> threads[t].pc = "idle"
================================================================================
