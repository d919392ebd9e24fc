-------------------------- MODULE ChainIndexProofs --------------------------
(***************************************************************************)
(* The block index of a node: why every block that could be connected is a *)
(* candidate or waits where it is found again, and what CheckBlockIndex    *)
(* may assert when one thread does the work.                               *)
(***************************************************************************)
EXTENDS ChainChoiceProofs

----------------------------------------------------------------------------
(* Marks of failure have a cause, and blocks that wait are found again.    *)

\* A failed block descends from one that a test refused, or is one.
HasCause(st) ==
    \A b \in Blocks : Failed(st, b) => \E a \in Ancestors[b] : "FAILED_VALID" \in st[a]

\* A failed block whose ancestors are not all there was refused when it arrived.
FailedEarly(st) ==
    \A b \in Blocks : Failed(st, b) => b \in BadBody \/ \A a \in Ancestors[b] : "TX" \in st[a]

\* The same on disk, where no refusal is recorded that memory lacks.
CauseInv ==
    /\ HasCause(nStatus) /\ HasCause(diskIndex)
    /\ FailedEarly(nStatus) /\ FailedEarly(diskIndex)
    /\ phase # "down" => \A b \in Blocks : "FAILED_VALID" \in diskIndex[b] => "FAILED_VALID" \in nStatus[b]

\* Marks are only added, for a reason.
LEMMA CauseGrow ==
    ASSUME NEW st, NEW st2, HasCause(st), FailedEarly(st),
           \A x \in Blocks : /\ st[x] \subseteq st2[x]
                             /\ \/ Failed(st2, x) => Failed(st, x)
                                \/ /\ \E a \in Ancestors[x] : "FAILED_VALID" \in st2[a]
                                   /\ x \in BadBody \/ \A a \in Ancestors[x] : "TX" \in st[a]
    PROVE  HasCause(st2) /\ FailedEarly(st2)
<1>1. ASSUME NEW x \in Blocks, Failed(st2, x)
      PROVE  /\ \E a \in Ancestors[x] : "FAILED_VALID" \in st2[a]
             /\ x \in BadBody \/ \A a \in Ancestors[x] : "TX" \in st2[a]
  <2>1. Ancestors[x] \subseteq Blocks
    BY SelfAncestor
  <2>2. \A a \in Ancestors[x] : st[a] \subseteq st2[a]
    BY <2>1
  <2>3. /\ \E a \in Ancestors[x] : "FAILED_VALID" \in st2[a]
        /\ x \in BadBody \/ \A a \in Ancestors[x] : "TX" \in st[a]
    <3>1. CASE Failed(st, x)
      BY <2>2, <3>1 DEF HasCause, FailedEarly
    <3>2. CASE ~Failed(st, x)
      BY <1>1, <3>2, Zenon
    <3> QED BY <3>1, <3>2
  <2> QED BY <2>2, <2>3
<1> QED BY <1>1 DEF HasCause, FailedEarly

\* What may happen to the two indexes while the node runs.
Grows ==
    /\ nStatus' \in Status /\ HasCause(nStatus') /\ FailedEarly(nStatus')
    /\ \A x \in Blocks : nStatus[x] \subseteq nStatus'[x]
    /\ Writes

LEMMA ReceiveGrows ==
    ASSUME ~PruneMode, TypeInv, CauseInv, NEW b \in Blocks, NEW t, NEW fRequested,
           \/ ProcessNewBlockHeaders(b) \/ SkipBlock(t, b, fRequested)
           \/ RejectBlock(t, b, fRequested) \/ AcceptBlock(t, b, fRequested)
    PROVE  Grows
<1>0. HasCause(nStatus) /\ FailedEarly(nStatus)
  BY DEF CauseInv
<1>1. CASE \/ ProcessNewBlockHeaders(b) \/ SkipBlock(t, b, fRequested) \/ RejectBlock(t, b, fRequested)
  <2>1. nStatus' \in Status /\ diskIndex' = diskIndex
    BY <1>1, HeaderEffect, Zenon
  <2>2. CASE \A x \in Blocks : nStatus'[x] = IF x = b THEN nStatus[b] \cup {"TREE"} ELSE nStatus[x]
    <3>1. \A x \in Blocks : nStatus[x] \subseteq nStatus'[x] /\ (Failed(nStatus', x) => Failed(nStatus, x))
      BY <2>2 DEF Failed, FailedMask
    <3>2. HasCause(nStatus') /\ FailedEarly(nStatus')
      BY <1>0, <3>1, CauseGrow
    <3> QED BY <2>1, <3>1, <3>2 DEF Grows, Writes
  <2>3. CASE /\ b \in BadBody
             /\ \A x \in Blocks :
                   nStatus'[x] = IF x = b THEN nStatus[b] \cup {"TREE", "FAILED_VALID"} ELSE nStatus[x]
    <3>1. \A x \in Blocks : nStatus[x] \subseteq nStatus'[x]
      BY <2>3
    <3>2. ASSUME NEW x \in Blocks
          PROVE  \/ Failed(nStatus', x) => Failed(nStatus, x)
                 \/ x \in BadBody /\ \E a \in Ancestors[x] : "FAILED_VALID" \in nStatus'[a]
      <4>1. CASE x = b
        BY <2>3, <4>1, SelfAncestor
      <4>2. CASE x # b
        BY <2>3, <4>2 DEF Failed
      <4> QED BY <4>1, <4>2
    <3>3. HasCause(nStatus') /\ FailedEarly(nStatus')
      BY <1>0, <3>1, <3>2, CauseGrow
    <3> QED BY <2>1, <3>1, <3>3 DEF Grows, Writes
  <2> QED BY <1>1, <2>2, <2>3, HeaderEffect, Zenon
<1>2. CASE AcceptBlock(t, b, fRequested)
  <2>1. /\ nStatus' \in Status /\ Writes
        /\ \A x \in Blocks :
              nStatus'[x] = IF x = b THEN nStatus[b] \cup {"TREE", "TX", "DATA"} ELSE nStatus[x]
    BY <1>2, AcceptEffect, Zenon
  <2>2. \A x \in Blocks : nStatus[x] \subseteq nStatus'[x] /\ (Failed(nStatus', x) => Failed(nStatus, x))
    BY <2>1 DEF Failed, FailedMask
  <2>3. HasCause(nStatus') /\ FailedEarly(nStatus')
    BY <1>0, <2>2, CauseGrow
  <2> QED BY <2>1, <2>2, <2>3 DEF Grows
<1> QED BY <1>1, <1>2

LEMMA StepGrows ==
    ASSUME ~PruneMode, ~DiskMayFail, ChoiceInv, CauseInv, NEW t \in Threads, Step(t)
    PROVE  Grows /\ phase # "down" /\ phase' # "down"
<1>0. /\ TypeInv /\ LinkedInv /\ Stored(nStatus) /\ coinsBest = tip /\ threads[t].pc # "invalidate"
      /\ HasCause(nStatus) /\ FailedEarly(nStatus) /\ phase \in {"running", "stopping"}
  BY DEF ChoiceInv, StoredInv, GoodInv, NeverInvalidates, CauseInv, Step
<1>1. nStatus \in Status /\ linked \subseteq Blocks
  BY <1>0, TypeSplit DEF TypeInv, IndexOK
<1>2. ASSUME NEW x \in linked PROVE \A a \in Ancestors[x] : "TX" \in nStatus[a]
  BY <1>0 DEF LinkedInv
<1>3. ASSUME nStatus' = nStatus, Writes PROVE Grows
  BY <1>0, <1>1, <1>3 DEF Grows
<1>4. CASE FindMostWorkChain(t)
  <2>1. diskIndex' = diskIndex /\ phase' = phase
    BY <1>4, Zenon DEF FindMostWorkChain, diskVars
  <2>2. CASE nStatus' = nStatus
    BY <1>0, <1>3, <2>1, <2>2 DEF Writes
  <2>3. CASE nStatus' # nStatus
    <3>1. PICK test \in linked, above \in SUBSET linked :
            /\ Failed(nStatus, test) /\ \A x \in above : test \in Ancestors[x]
            /\ nStatus' = [b \in Blocks |-> IF b \in above
                             THEN nStatus[b] \cup {"FAILED_CHILD"} ELSE nStatus[b]]
      BY <1>0, <1>4, <2>3, FindStored, Zenon
    <3>2. nStatus' \in Status /\ \A x \in Blocks : nStatus[x] \subseteq nStatus'[x]
      BY <1>1, <3>1 DEF Status, StatusFlags, FailedMask
    <3>3. PICK a \in Ancestors[test] : "FAILED_VALID" \in nStatus[a]
      BY <1>0, <1>1, <3>1 DEF HasCause
    <3>4. ASSUME NEW x \in Blocks
          PROVE  \/ Failed(nStatus', x) => Failed(nStatus, x)
                 \/ /\ \E c \in Ancestors[x] : "FAILED_VALID" \in nStatus'[c]
                    /\ \A c \in Ancestors[x] : "TX" \in nStatus[c]
      <4>1. CASE x \in above
        <5>1. a \in Ancestors[x] /\ a \in Blocks
          BY <3>1, <4>1, AncestorChain
        <5> QED BY <1>2, <3>2, <3>3, <4>1, <5>1
      <4>2. CASE x \notin above
        BY <3>1, <4>2 DEF Failed
      <4> QED BY <4>1, <4>2
    <3>5. HasCause(nStatus') /\ FailedEarly(nStatus')
      BY <1>0, <3>2, <3>4, CauseGrow
    <3> QED BY <1>0, <2>1, <3>2, <3>5 DEF Grows, Writes
  <2> QED BY <2>2, <2>3
<1>5. CASE ConnectInvalid(t)
  <2>0. PICK n \in Blocks : n = NextBlock(t)
    BY <1>0, <1>5, NextBlockType DEF ConnectInvalid
  <2>1. /\ diskIndex' = diskIndex /\ phase' = phase /\ CanConnect(t)
        /\ nStatus' = [nStatus EXCEPT ![n] = @ \cup {"FAILED_VALID"}]
    BY <1>5, <2>0, Zenon DEF ConnectInvalid, diskVars
  <2>2. n \in Ancestors[threads[t].mostWork] /\ n \in Blocks
    BY <1>0, <2>0, <2>1, NextBlockType
  <2>3. threads[t].mostWork \in linked
    BY <1>0, <2>1, TreeAssumption DEF CanConnect, TypeInv, TargetOK, LinkedInv
  <2>4. n \in linked
    BY <1>0, <2>2, <2>3 DEF LinkedInv
  <2>5. /\ nStatus' \in Status
        /\ \A x \in Blocks \ {n} : nStatus'[x] = nStatus[x]
        /\ nStatus'[n] = nStatus[n] \cup {"FAILED_VALID"}
    BY <1>1, <2>1, <2>2 DEF Status, StatusFlags, FailedMask
  <2>6. \A x \in Blocks : nStatus[x] \subseteq nStatus'[x]
    BY <2>5
  <2>7. ASSUME NEW x \in Blocks
        PROVE  \/ Failed(nStatus', x) => Failed(nStatus, x)
               \/ /\ \E c \in Ancestors[x] : "FAILED_VALID" \in nStatus'[c]
                  /\ \A c \in Ancestors[x] : "TX" \in nStatus[c]
    <3>1. CASE x = n
      <4>1. x \in Ancestors[x] /\ "FAILED_VALID" \in nStatus'[x]
        BY <2>5, <3>1, SelfAncestor
      <4> QED BY <1>2, <2>4, <3>1, <4>1
    <3>2. CASE x # n
      BY <2>5, <3>2 DEF Failed
    <3> QED BY <3>1, <3>2
  <2>8. HasCause(nStatus') /\ FailedEarly(nStatus')
    BY <1>0, <2>6, <2>7, CauseGrow
  <2> QED BY <1>0, <2>1, <2>5, <2>6, <2>8 DEF Grows, Writes
<1>6. CASE ConnectTip(t)
  <2>1. /\ nStatus' \in Status /\ Writes
        /\ \A x \in Blocks : nStatus'[x] = nStatus[x] \/ nStatus'[x] = nStatus[x] \cup {"SCRIPTS"}
    BY <1>0, <1>6, ConnectEffect
  <2>2. \A x \in Blocks : nStatus[x] \subseteq nStatus'[x] /\ (Failed(nStatus', x) => Failed(nStatus, x))
    BY <2>1 DEF Failed, FailedMask
  <2>3. HasCause(nStatus') /\ FailedEarly(nStatus')
    BY <1>0, <2>2, CauseGrow
  <2>4. phase' # "down"
    BY <1>0, <1>6, Zenon DEF ConnectTip, AbortNode
  <2> QED BY <1>0, <2>1, <2>2, <2>3, <2>4, Zenon DEF Grows
<1>7. CASE StepDisconnect(t) \/ FinishActivate(t)
  <2>1. nStatus' = nStatus /\ phase' = phase /\ Writes
    BY <1>0, <1>7, DisconnectEffect, FinishEffect
  <2> QED BY <1>0, <1>3, <2>1
<1>8. CASE \/ ActivateBestChain(t) \/ LockMain(t) \/ BeginStep(t) \/ StepDone(t) \/ EndStep(t)
           \/ ConnectUnreadable(t) \/ CoinsElsewhere(t) \/ InvalidateDisconnect(t) \/ InvalidateFinish(t)
  <2>1. nStatus' = nStatus /\ diskIndex' = diskIndex /\ phase' \in {"running", "stopping"}
    BY <1>0, <1>8, ControlEffect, Zenon
  <2> QED BY <1>0, <1>3, <2>1 DEF Writes
<1> QED BY <1>4, <1>5, <1>6, <1>7, <1>8 DEF Step

\* nChainTx is set exactly where every ancestor was received, only what is linked has a
\* sequence id, and a block that was received too early waits in mapBlocksUnlinked, unless
\* it is built on a block that was refused when it arrived.
WaitInv ==
    /\ linked = {b \in Blocks : Processed(b)} /\ (phase = "down" => linked = {})
    /\ \A b \in Blocks \ linked : nSequenceId[b] = 0
    /\ \A b \in Blocks \ linked : "TX" \in nStatus[b] =>
           b \in unlinked \/ (Tainted(b) /\ Ancestors[b] \cap BadBody # {})

LEMMA StepWaits ==
    ASSUME ~PruneMode, ~DiskMayFail, ChoiceInv, NEW t \in Threads, Step(t)
    PROVE  /\ UNCHANGED <<linked, nSequenceId, unlinked>>
           /\ \A x \in Blocks : "TX" \in nStatus'[x] => "TX" \in nStatus[x]
<1>0. /\ TypeInv /\ LinkedInv /\ Stored(nStatus) /\ coinsBest = tip /\ threads[t].pc # "invalidate"
      /\ phase \in {"running", "stopping"} /\ nStatus \in Status
  BY TypeSplit, Zenon DEF ChoiceInv, StoredInv, GoodInv, NeverInvalidates, Step, TypeInv, IndexOK
<1>1. CASE FindMostWorkChain(t)
  <2>1. linked' = linked /\ nSequenceId' = nSequenceId
    BY <1>1, Zenon DEF FindMostWorkChain
  <2>2. unlinked' = unlinked
    BY <1>0, <1>1, FindStored, Zenon
  <2>3. \/ nStatus' = nStatus
        \/ \E above : nStatus' = [b \in Blocks |-> IF b \in above
                                    THEN nStatus[b] \cup {"FAILED_CHILD"} ELSE nStatus[b]]
    BY <1>0, <1>1, FindStored, Zenon
  <2>4. \A x \in Blocks : "TX" \in nStatus'[x] => "TX" \in nStatus[x]
    BY <2>3
  <2> QED BY <2>1, <2>2, <2>4
<1>2. CASE ConnectInvalid(t)
  BY <1>0, <1>2, Zenon DEF ConnectInvalid, Status
<1>3. CASE ConnectTip(t)
  <2>1. /\ UNCHANGED <<linked, nSequenceId, unlinked>>
        /\ \A x \in Blocks : nStatus'[x] = nStatus[x] \/ nStatus'[x] = nStatus[x] \cup {"SCRIPTS"}
    BY <1>0, <1>3, ConnectEffect
  <2> QED BY <2>1, SMTT(20)
<1>4. CASE StepDisconnect(t) \/ FinishActivate(t)
  BY <1>0, <1>4, DisconnectEffect, FinishEffect
<1>5. CASE \/ ActivateBestChain(t) \/ LockMain(t) \/ BeginStep(t) \/ StepDone(t) \/ EndStep(t)
           \/ ConnectUnreadable(t) \/ CoinsElsewhere(t) \/ InvalidateDisconnect(t) \/ InvalidateFinish(t)
  BY <1>0, <1>5, ControlEffect, Zenon
<1> QED BY <1>1, <1>2, <1>3, <1>4, <1>5 DEF Step

\* All that CheckBlockIndex needs, but for the candidates.
IndexInv == ChoiceInv /\ DirtyInv /\ CauseInv /\ WaitInv

LEMMA IndexInit == Init => IndexInv
<1> SUFFICES ASSUME Init PROVE IndexInv
  OBVIOUS
<1>1. ChoiceInv /\ DirtyInv
  BY ChoiceInit, DirtyInit
<1>2. \A x \in Blocks : ~Failed(nStatus, x)
  BY DEF Init, Failed, FailedMask
<1>3. diskIndex = nStatus
  BY DEF Init
<1>4. CauseInv
  BY <1>2, <1>3 DEF CauseInv, HasCause, FailedEarly
<1>5. Ancestors[Genesis] = {Genesis} /\ \A x \in Blocks : x \in Ancestors[x]
  BY TreeAssumption, SelfAncestor
<1>6. \A x \in Blocks : "TX" \in nStatus[x] <=> x = Genesis
  BY DEF Init
<1>7. \A x \in Blocks : Processed(x) <=> x = Genesis
  BY <1>5, <1>6 DEF Processed
<1>8. linked = {x \in Blocks : Processed(x)}
  BY <1>7, TreeAssumption DEF Init
<1>9. phase # "down" /\ \A x \in Blocks \ linked : nSequenceId[x] = 0 /\ "TX" \notin nStatus[x]
  BY <1>6 DEF Init
<1>10. WaitInv
  BY <1>8, <1>9 DEF WaitInv
<1> QED BY <1>1, <1>4, <1>10 DEF IndexInv

LEMMA IndexNext ==
    ~PruneMode /\ ~DiskMayFail /\ Commands = {} /\ IndexInv /\ [Next]_vars => IndexInv'

\* A disk that agrees with st except for marks it already had, or that st has.
<1>CauseWritten.
    ASSUME NEW st, NEW new, HasCause(st), FailedEarly(st), HasCause(diskIndex), FailedEarly(diskIndex),
           \A x \in Blocks : /\ "FAILED_VALID" \in diskIndex[x] => "FAILED_VALID" \in st[x]
                             /\ "TX" \in diskIndex[x] => "TX" \in st[x]
                             /\ "FAILED_VALID" \in st[x] <=> "FAILED_VALID" \in new[x]
                             /\ "TX" \in st[x] => "TX" \in new[x]
                             /\ Failed(new, x) => Failed(st, x) \/ Failed(diskIndex, x)
    PROVE  HasCause(new) /\ FailedEarly(new)
  <2> USE <1>CauseWritten
  <2>1. ASSUME NEW x \in Blocks, Failed(new, x)
        PROVE  /\ \E a \in Ancestors[x] : "FAILED_VALID" \in new[a]
               /\ x \in BadBody \/ \A a \in Ancestors[x] : "TX" \in new[a]
    <3>1. Ancestors[x] \subseteq Blocks
      BY SelfAncestor
    <3>2. CASE Failed(st, x)
      BY <3>1, <3>2 DEF HasCause, FailedEarly
    <3>3. CASE Failed(diskIndex, x)
      BY <3>1, <3>3 DEF HasCause, FailedEarly
    <3> QED BY <2>1, <3>2, <3>3
  <2> QED BY <2>1 DEF HasCause, FailedEarly

<1>GrowsCause.
    ASSUME ~DiskMayFail, TypeInv, DiskInv, CauseInv, DirtyInv', phase # "down", phase' # "down", Grows
    PROVE  CauseInv'
  <2> USE <1>GrowsCause
  <2>0. /\ HasCause(nStatus) /\ HasCause(diskIndex) /\ FailedEarly(nStatus) /\ FailedEarly(diskIndex)
        /\ \A b \in Blocks : "FAILED_VALID" \in diskIndex[b] => "FAILED_VALID" \in nStatus[b]
        /\ HasCause(nStatus') /\ FailedEarly(nStatus')
    BY DEF CauseInv, Grows
  <2>1. \A x \in Blocks : /\ "FAILED_VALID" \in diskIndex[x] => "FAILED_VALID" \in nStatus'[x]
                          /\ "TX" \in diskIndex[x] => "TX" \in nStatus'[x]
    BY <2>0 DEF Grows, DiskInv, Behind
  <2>2. CASE diskIndex' = diskIndex
    BY <2>0, <2>1, <2>2 DEF CauseInv, HasCause, FailedEarly, Failed
  <2>3. CASE dirty' = {} /\ \E w : diskIndex' = Written(nStatus', w)
    <3>1. PICK w : diskIndex' = Written(nStatus', w)
      BY <2>3
    <3>2. \A x \in Blocks : diskIndex'[x] = nStatus'[x] \/ diskIndex'[x] = diskIndex[x]
      BY <3>1 DEF Written
    <3>3. OnDisk(nStatus, dirty)'
      BY DEF DirtyInv, Trusted
    <3>4. \A x \in Blocks : nStatus'[x] \ {"FAILED_CHILD"} = diskIndex'[x] \ {"FAILED_CHILD"}
      BY <2>3, <3>3 DEF OnDisk
    <3>5. ASSUME NEW x \in Blocks
          PROVE  /\ "FAILED_VALID" \in nStatus'[x] <=> "FAILED_VALID" \in diskIndex'[x]
                 /\ "TX" \in nStatus'[x] => "TX" \in diskIndex'[x]
                 /\ Failed(diskIndex', x) => Failed(nStatus', x) \/ Failed(diskIndex, x)
      <4>1. \A f : f # "FAILED_CHILD" => (f \in nStatus'[x] <=> f \in diskIndex'[x])
        BY <3>4
      <4>2. "FAILED_VALID" # "FAILED_CHILD" /\ "TX" # "FAILED_CHILD"
        OBVIOUS
      <4>3. Failed(diskIndex', x) => Failed(nStatus', x) \/ Failed(diskIndex, x)
        BY <3>2 DEF Failed
      <4> QED BY <4>1, <4>2, <4>3, Zenon
    <3>6. HasCause(diskIndex') /\ FailedEarly(diskIndex')
      BY <2>0, <2>1, <3>5, <1>CauseWritten
    <3> QED BY <2>0, <3>5, <3>6 DEF CauseInv, HasCause, FailedEarly, Failed
  <2> QED BY <2>2, <2>3 DEF Grows, Writes

<1>CauseNext.
    ASSUME ~PruneMode, ~DiskMayFail, Commands = {}, ChoiceInv, DirtyInv, CauseInv, [Next]_vars
    PROVE  CauseInv'
  <2> USE <1>CauseNext
  <2>0. TypeInv /\ DiskInv /\ DirtyInv'
    BY DirtyNext DEF ChoiceInv
  <2>1. ASSUME NEW t \in Threads, Step(t) PROVE CauseInv'
    BY <2>0, <2>1, StepGrows, <1>GrowsCause
  <2>2. ASSUME NEW b \in Blocks, NEW t, NEW fRequested,
               \/ ProcessNewBlockHeaders(b) \/ SkipBlock(t, b, fRequested)
               \/ RejectBlock(t, b, fRequested) \/ AcceptBlock(t, b, fRequested)
        PROVE  CauseInv'
    <3>1. phase # "down" /\ phase' = phase
      BY <2>2, Zenon DEF ProcessNewBlockHeaders, SkipBlock, RejectBlock, AcceptBlock, Serving
    <3>2. Grows
      BY <2>0, <2>2, ReceiveGrows, Zenon
    <3> QED BY <2>0, <3>1, <3>2, <1>GrowsCause
  <2>3. CASE FlushCoins \/ PruneBlockFilesManual \/ StartShutdown \/ UNCHANGED vars
    <3>1. UNCHANGED <<nStatus, diskIndex>> /\ (phase' # "down" => phase # "down")
      BY <2>3, ProcessEffect, Zenon
    <3> QED BY <3>1 DEF CauseInv, HasCause, FailedEarly, Failed
  <2>4. CASE Shutdown \/ Crash \/ AssertFails
    <3>1. /\ nStatus' = [b \in Blocks |-> {}] /\ phase' = "down" /\ phase # "down"
          /\ diskIndex' \in {diskIndex, Written(nStatus, dirty)}
      BY <2>4, StopEffect
    <3>2. HasCause(nStatus') /\ FailedEarly(nStatus')
      BY <3>1 DEF HasCause, FailedEarly, Failed
    <3>3. HasCause(Written(nStatus, dirty)) /\ FailedEarly(Written(nStatus, dirty))
      <4> DEFINE new == Written(nStatus, dirty)
      <4>1. \A x \in Blocks : new[x] = IF x \in dirty THEN nStatus[x] ELSE diskIndex[x]
        BY DEF Written
      <4>2. OnDisk(nStatus, dirty) /\ Behind(nStatus, dirty)
        BY <2>0, <3>1 DEF DirtyInv, Trusted, DiskInv
      <4> HIDE DEF new
      <4>3. ASSUME NEW x \in Blocks
            PROVE  /\ "FAILED_VALID" \in diskIndex[x] => "FAILED_VALID" \in nStatus[x]
                   /\ "TX" \in diskIndex[x] => "TX" \in nStatus[x]
                   /\ "FAILED_VALID" \in nStatus[x] <=> "FAILED_VALID" \in new[x]
                   /\ "TX" \in nStatus[x] => "TX" \in new[x]
                   /\ Failed(new, x) => Failed(nStatus, x) \/ Failed(diskIndex, x)
        <5>1. /\ "FAILED_VALID" \in diskIndex[x] => "FAILED_VALID" \in nStatus[x]
              /\ "TX" \in diskIndex[x] => "TX" \in nStatus[x]
          BY <3>1, <4>2 DEF CauseInv, Behind
        <5>2. CASE x \in dirty
          BY <4>1, <5>1, <5>2 DEF Failed
        <5>3. CASE x \notin dirty
          <6>1. nStatus[x] \ {"FAILED_CHILD"} = new[x] \ {"FAILED_CHILD"} /\ new[x] = diskIndex[x]
            BY <4>1, <4>2, <5>3 DEF OnDisk
          <6>2. \A f : f # "FAILED_CHILD" => (f \in nStatus[x] <=> f \in new[x])
            BY <6>1
          <6>3. "FAILED_VALID" # "FAILED_CHILD" /\ "TX" # "FAILED_CHILD"
            OBVIOUS
          <6>4. Failed(new, x) => Failed(diskIndex, x)
            BY <6>1 DEF Failed
          <6> QED BY <5>1, <6>2, <6>3, <6>4, Zenon
        <5> QED BY <5>2, <5>3
      <4>4. HasCause(new) /\ FailedEarly(new)
        BY <4>3, <1>CauseWritten DEF CauseInv
      <4> QED BY <4>4 DEF new
    <3>4. HasCause(diskIndex') /\ FailedEarly(diskIndex')
      BY <3>1, <3>3 DEF CauseInv
    <3> QED BY <3>1, <3>2, <3>4 DEF CauseInv, HasCause, FailedEarly, Failed
  <2>5. CASE Restart
    <3>1. nStatus' = diskIndex /\ diskIndex' = diskIndex
      BY <2>5 DEF Restart, diskVars
    <3> QED BY <3>1 DEF CauseInv, HasCause, FailedEarly, Failed
  <2>6. ASSUME NEW t, NEW b, InvalidateBlock(t, b) \/ ResetBlockFailureFlags(t, b) \/ PreciousBlock(t, b)
        PROVE  FALSE
    BY <2>6 DEF InvalidateBlock, ResetBlockFailureFlags, PreciousBlock, Command
  <2> QED BY <2>1, <2>2, <2>3, <2>4, <2>5, <2>6, Zenon DEF Next, Operate

\* Steps that receive no block.
<1>WaitStep.
    ASSUME WaitInv, UNCHANGED <<linked, nSequenceId, unlinked>>, phase' = "down" => phase = "down",
           \A x \in Blocks : nStatus[x] \subseteq nStatus'[x] /\ ("TX" \in nStatus'[x] => "TX" \in nStatus[x])
    PROVE  WaitInv'
  <2> USE <1>WaitStep
  <2>1. \A x \in Blocks : Ancestors[x] \subseteq Blocks
    BY SelfAncestor
  <2>2. \A x \in Blocks : Processed(x)' <=> Processed(x)
    BY <2>1 DEF Processed
  <2>3. \A x \in Blocks : Tainted(x) => Tainted(x)'
    BY <2>1 DEF Tainted
  <2>4. linked' = {x \in Blocks : Processed(x)'} /\ (phase' = "down" => linked' = {})
    BY <2>2 DEF WaitInv
  <2>5. \A x \in Blocks \ linked' : nSequenceId'[x] = 0
    BY DEF WaitInv
  <2>6. \A x \in Blocks \ linked' : "TX" \in nStatus'[x] =>
            x \in unlinked' \/ (Tainted(x)' /\ Ancestors[x] \cap BadBody # {})
    BY <2>3 DEF WaitInv
  <2> QED BY <2>4, <2>5, <2>6, Zenon DEF WaitInv

\* A block arrives: it is linked with everything that waited for it, or it waits.
<1>AcceptWaits.
    ASSUME ~PruneMode, ChoiceInv, CauseInv, WaitInv, Sound(nStatus'), LinkedInv',
           NEW t, NEW b \in Blocks, NEW fRequested, AcceptBlock(t, b, fRequested)
    PROVE  WaitInv'
  <2> USE <1>AcceptWaits
  <2>0. /\ TypeInv /\ LinkedInv /\ Stored(nStatus) /\ linked \cap unlinked = {}
        /\ linked = {x \in Blocks : Processed(x)}
        /\ HasCause(nStatus) /\ FailedEarly(nStatus)
    BY Zenon DEF ChoiceInv, StoredInv, CauseInv, WaitInv
  <2>1. /\ "DATA" \notin nStatus[b] /\ b \notin BadBody /\ LinkBlock(b) /\ unlinked' = UnlinkedAfter(b)
        /\ phase' # "down"
        /\ \A x \in Blocks :
               nStatus'[x] = IF x = b THEN nStatus[b] \cup {"TREE", "TX", "DATA"} ELSE nStatus[x]
    <3>1. phase' = phase /\ phase # "down"
      BY DEF AcceptBlock, Serving
    <3> QED BY <2>0, <3>1, AcceptEffect, Zenon
  <2>2. /\ "TX" \notin nStatus[b] /\ b \notin linked \cup unlinked
        /\ \A x \in Blocks : "TX" \in nStatus'[x] <=> x = b \/ "TX" \in nStatus[x]
        /\ \A x \in Blocks : nStatus[x] \subseteq nStatus'[x]
    BY <2>0, <2>1, Zenon DEF Stored, LinkedInv
  <2>3. \A x \in Blocks : Ancestors[x] \subseteq Blocks /\ x \in Ancestors[x]
    BY SelfAncestor
  <2>4. \A x \in Blocks : Tainted(x) => Tainted(x)'
    BY <2>2, <2>3 DEF Tainted
  <2>5. ASSUME NEW x \in Blocks, b \notin Ancestors[x], Processed(x)' PROVE x \in linked
    BY <2>0, <2>2, <2>3, <2>5 DEF Processed
  <2>6. ASSUME NEW x \in Blocks \ linked, x # b, "TX" \in nStatus'[x]
        PROVE  x \in unlinked \/ (Tainted(x)' /\ Ancestors[x] \cap BadBody # {})
    BY <2>2, <2>4, <2>6 DEF WaitInv
  <2>7. CASE b = Genesis \/ Parent[b] \in linked
    <3> DEFINE N == NowLinked(b)
    <3>1. /\ linked' = linked \cup N /\ b \in N
          /\ \A x \in Blocks \ N : nSequenceId'[x] = nSequenceId[x]
      BY <2>0, <2>1, <2>7, LinkEffect, Zenon
    <3>2. unlinked' = unlinked \ (N \ {b})
      BY <2>1, <2>7 DEF UnlinkedAfter
    <3>3. N = {x \in Blocks : b \in Ancestors[x] /\ Ancestors[x] \ Ancestors[b] \subseteq unlinked}
      BY DEF NowLinked
    <3> HIDE DEF N
    <3>4. ASSUME NEW x \in linked' PROVE Processed(x)' /\ x \in Blocks
      <4>1. x \in Blocks
        BY <2>0, <3>1, <3>3
      <4>2. \A a \in Ancestors[x] : "TX" \in nStatus'[a]
        BY <3>4 DEF LinkedInv
      <4> QED BY <4>1, <4>2, Zenon DEF Processed
    <3>5. ASSUME NEW x \in Blocks, b \in Ancestors[x], Processed(x)' PROVE x \in N
      <4> SUFFICES ASSUME NEW y \in Ancestors[x] \ Ancestors[b] PROVE y \in unlinked
        BY <3>3, <3>5
      <4>1. y \in Blocks /\ b \in Ancestors[y] /\ Ancestors[y] \subseteq Ancestors[x] /\ y # b
        BY <2>3, <3>5, TreeAssumption, Zenon
      <4>2. y \notin linked
        BY <2>2, <4>1 DEF LinkedInv, ChoiceInv
      <4>3. "TX" \in nStatus'[y]
        BY <3>5 DEF Processed
      <4>4. Ancestors[y] \cap BadBody = {}
        BY <2>3, <3>5, <4>1, Zenon DEF Processed, Sound
      <4> QED BY <2>6, <4>1, <4>2, <4>3, <4>4
    <3>6. linked' = {x \in Blocks : Processed(x)'}
      BY <2>5, <3>1, <3>4, <3>5
    <3>7. \A x \in Blocks \ linked' : nSequenceId'[x] = 0
      BY <3>1 DEF WaitInv
    <3>8. \A x \in Blocks \ linked' : "TX" \in nStatus'[x] =>
              x \in unlinked' \/ (Tainted(x)' /\ Ancestors[x] \cap BadBody # {})
      BY <2>6, <3>1, <3>2
    <3> QED BY <2>1, <3>6, <3>7, <3>8, Zenon DEF WaitInv
  <2>8. CASE ~(b = Genesis \/ Parent[b] \in linked)
    <3> DEFINE p == Parent[b]
    <3>1. linked' = linked /\ nSequenceId' = nSequenceId
      BY <2>0, <2>1, <2>8, LinkEffect, Zenon
    <3>2. p \in Blocks /\ Ancestors[b] = Ancestors[p] \cup {b}
      BY <2>8, TreeAssumption
    <3>3. p \notin linked
      BY <2>8
    <3>4. b \notin Ancestors[p]
      <4>1. Height[p] \in Nat /\ Height[b] = Height[p] + 1
        BY <2>8, <3>2, OrderAssumption
      <4>2. b \in Ancestors[p] => b = p \/ Height[b] < Height[p]
        BY <3>2, AncestorOrder
      <4> QED BY <4>1, <4>2
    <3>5. unlinked' = IF ~Failed(nStatus, p) THEN unlinked \cup {b} ELSE unlinked
      BY <2>1, <2>8 DEF UnlinkedAfter
    <3> HIDE DEF p
    <3>6. ASSUME NEW x \in Blocks, Processed(x)' PROVE b \notin Ancestors[x]
      <4> SUFFICES ASSUME b \in Ancestors[x] PROVE FALSE
        OBVIOUS
      <4>1. Ancestors[p] \subseteq Ancestors[x]
        BY <3>2, AncestorChain
      <4>2. Processed(p)'
        BY <3>6, <4>1 DEF Processed
      <4> QED BY <2>5, <3>2, <3>3, <3>4, <4>2, Zenon
    <3>7. \A x \in Blocks : Processed(x) => Processed(x)'
      BY <2>2, <2>3, Zenon DEF Processed
    <3>8. linked' = {x \in Blocks : Processed(x)'}
      BY <2>0, <2>5, <3>1, <3>6, <3>7
    <3>9. \A x \in Blocks \ linked' : nSequenceId'[x] = 0
      BY <3>1 DEF WaitInv
    <3>10. ASSUME Failed(nStatus, p) PROVE Tainted(b)' /\ Ancestors[b] \cap BadBody # {}
      <4>1. PICK a \in Ancestors[p] : "FAILED_VALID" \in nStatus[a]
        BY <2>0, <3>2, <3>10 DEF HasCause
      <4>2. Tainted(b)'
        BY <2>2, <2>3, <3>2, <4>1 DEF Tainted
      <4>3. ~Processed(p)
        BY <2>0, <3>2, <3>3, Zenon
      <4>4. p \in BadBody
        BY <2>0, <3>2, <3>10, <4>3, Zenon DEF FailedEarly, Processed
      <4> QED BY <2>3, <3>2, <4>2, <4>4, Zenon
    <3>11. \A x \in Blocks \ linked' : "TX" \in nStatus'[x] =>
              x \in unlinked' \/ (Tainted(x)' /\ Ancestors[x] \cap BadBody # {})
      BY <2>6, <3>1, <3>5, <3>10
    <3> QED BY <2>1, <3>8, <3>9, <3>11, Zenon DEF WaitInv
  <2> QED BY <2>7, <2>8

<1>WaitNext.
    ASSUME ~PruneMode, ~DiskMayFail, Commands = {}, ChoiceInv, CauseInv, WaitInv, [Next]_vars
    PROVE  WaitInv'
  <2> USE <1>WaitNext
  <2>0. TypeInv /\ DiskInv /\ LinkedInv' /\ Sound(nStatus') /\ nStatus \in Status
    BY ChoiceNext, TypeSplit DEF ChoiceInv, GoodInv, TypeInv, IndexOK
  <2>1. ASSUME NEW t \in Threads, Step(t) PROVE WaitInv'
    BY <2>1, StepGrows, StepWaits, <1>WaitStep DEF Grows
  <2>2. ASSUME NEW b \in Blocks, NEW t, NEW fRequested,
               \/ ProcessNewBlockHeaders(b) \/ SkipBlock(t, b, fRequested) \/ RejectBlock(t, b, fRequested)
        PROVE  WaitInv'
    <3>1. UNCHANGED <<linked, nSequenceId, unlinked, phase>>
      BY <2>0, <2>2, HeaderEffect, Zenon
    <3>2. \/ \A x \in Blocks : nStatus'[x] = IF x = b THEN nStatus[b] \cup {"TREE"} ELSE nStatus[x]
          \/ \A x \in Blocks :
                nStatus'[x] = IF x = b THEN nStatus[b] \cup {"TREE", "FAILED_VALID"} ELSE nStatus[x]
      BY <2>0, <2>2, HeaderEffect, Zenon
    <3>3. \A x \in Blocks : nStatus[x] \subseteq nStatus'[x] /\ ("TX" \in nStatus'[x] => "TX" \in nStatus[x])
      BY <3>2
    <3> QED BY <3>1, <3>3, <1>WaitStep
  <2>3. ASSUME NEW b \in Blocks, NEW t, NEW fRequested, AcceptBlock(t, b, fRequested) PROVE WaitInv'
    BY <2>0, <2>3, <1>AcceptWaits
  <2>4. CASE FlushCoins \/ PruneBlockFilesManual \/ StartShutdown \/ UNCHANGED vars
    <3>1. UNCHANGED <<nStatus, linked, nSequenceId, unlinked>> /\ phase' \in {phase, "stopping"}
      BY <2>4, ProcessEffect
    <3> QED BY <3>1, <1>WaitStep
  <2>5. CASE Shutdown \/ Crash \/ AssertFails
    <3>1. /\ nStatus' = [b \in Blocks |-> {}] /\ linked' = {} /\ nSequenceId' = [b \in Blocks |-> 0]
      BY <2>5, StopEffect
    <3>2. \A x \in Blocks : ~Processed(x)' /\ "TX" \notin nStatus'[x] /\ nSequenceId'[x] = 0
      BY <3>1, SelfAncestor DEF Processed
    <3>3. linked' = {x \in Blocks : Processed(x)'}
      BY <3>1, <3>2
    <3> QED BY <3>1, <3>2, <3>3, Zenon DEF WaitInv
  <2>6. CASE Restart
    <3> DEFINE chainTx == {b \in Blocks : \A a \in Ancestors[b] : "TX" \in diskIndex[a]}
    <3>1. /\ nStatus' = diskIndex /\ linked' = chainTx /\ phase' # "down"
          /\ unlinked' = {b \in Blocks \ {Genesis} : "TX" \in diskIndex[b] /\ Parent[b] \notin chainTx}
          /\ nSequenceId' = nSequenceId \/ nSequenceId' = [nSequenceId EXCEPT ![Genesis] = 1]
      BY <2>6, Zenon DEF Restart
    <3>2. Genesis \in chainTx
      BY <2>0, TreeAssumption DEF DiskInv
    <3>3. \A x \in Blocks : nSequenceId[x] = 0
      BY <2>6 DEF Restart, WaitInv
    <3>4. nSequenceId \in [Blocks -> Int]
      BY <2>0, TypeSplit DEF TypeInv, OrderOK
    <3>5. \A x \in Blocks \ linked' : nSequenceId'[x] = 0
      BY <3>1, <3>2, <3>3, <3>4
    <3>6. linked' = {x \in Blocks : Processed(x)'}
      BY <3>1 DEF Processed
    <3>7. ASSUME NEW x \in Blocks \ linked', "TX" \in nStatus'[x] PROVE x \in unlinked'
      <4>1. x \in Blocks \ {Genesis} /\ x \notin chainTx /\ "TX" \in diskIndex[x]
        BY <3>1, <3>2, <3>7
      <4>2. Parent[x] \notin chainTx
        BY <4>1, TreeAssumption
      <4> QED BY <3>1, <4>1, <4>2
    <3> QED BY <3>1, <3>5, <3>6, <3>7, Zenon DEF WaitInv
  <2>7. ASSUME NEW t, NEW b, InvalidateBlock(t, b) \/ ResetBlockFailureFlags(t, b) \/ PreciousBlock(t, b)
        PROVE  FALSE
    BY <2>7 DEF InvalidateBlock, ResetBlockFailureFlags, PreciousBlock, Command
  <2> QED BY <2>1, <2>2, <2>3, <2>4, <2>5, <2>6, <2>7, Zenon DEF Next, Operate

<1> SUFFICES ASSUME ~PruneMode, ~DiskMayFail, Commands = {}, IndexInv, [Next]_vars
             PROVE  IndexInv'
  OBVIOUS
<1>1. ChoiceInv'
  BY ChoiceNext DEF IndexInv
<1>2. DirtyInv'
  BY DirtyNext DEF IndexInv, ChoiceInv
<1>3. CauseInv'
  BY <1>CauseNext DEF IndexInv
<1>4. WaitInv'
  BY <1>WaitNext DEF IndexInv
<1> QED BY <1>1, <1>2, <1>3, <1>4 DEF IndexInv

LEMMA IndexRight ==
    ASSUME IndexInv
    PROVE  UnlinkedRight /\ FailuresHaveCause
<1>1. FailuresHaveCause
  BY DEF IndexInv, CauseInv, HasCause, FailuresHaveCause, Tainted, Known
<1>2. /\ Stored(nStatus) /\ linked \cap unlinked = {} /\ Sound(nStatus)
      /\ \A x \in linked \cup unlinked : "TX" \in nStatus[x]
  BY DEF IndexInv, ChoiceInv, StoredInv, GoodInv, LinkedInv
<1>3. ASSUME NEW b \in Blocks
      PROVE  /\ b \in linked <=> Processed(b)
             /\ b \notin linked => nSequenceId[b] <= 0
             /\ "DATA" \in nStatus[b] /\ ~Processed(b) /\ ~Tainted(b) => b \in unlinked
             /\ "DATA" \notin nStatus[b] \/ Complete(b) => b \notin unlinked
             /\ Processed(b) => Complete(b)
  <2>1. b \in linked <=> Processed(b)
    BY DEF IndexInv, WaitInv
  <2>2. b \notin linked => nSequenceId[b] <= 0
    BY DEF IndexInv, WaitInv
  <2>3. "DATA" \in nStatus[b] <=> "TX" \in nStatus[b]
    BY <1>2 DEF Stored, Sound
  <2>4. "DATA" \in nStatus[b] /\ ~Processed(b) /\ ~Tainted(b) => b \in unlinked
    BY <2>1, <2>3 DEF IndexInv, WaitInv
  <2>5. Processed(b) <=> Complete(b)
    BY <1>2, SelfAncestor DEF Processed, Complete, Stored, Sound
  <2>6. "DATA" \notin nStatus[b] \/ Complete(b) => b \notin unlinked
    BY <1>2, <2>1, <2>3, <2>5
  <2> QED BY <2>1, <2>2, <2>4, <2>5, <2>6, Zenon
<1>4. UnlinkedRight
  BY <1>3, Zenon DEF UnlinkedRight, Known
<1> QED BY <1>1, <1>4, Zenon

\* What CheckBlockIndex asserts of nChainTx, of mapBlocksUnlinked and of the marks of
\* failure, with any threads and crashes, on a node that does not prune, whose disk works
\* and that gets no commands: a block that was received before its parents is linked when
\* the last of them arrives, and every mark goes back to a block that a test refused.
THEOREM WaitingBlocksFound ==
    ~PruneMode /\ ~DiskMayFail /\ Commands = {} => (Spec => [](UnlinkedRight /\ FailuresHaveCause))
<1> SUFFICES ASSUME ~PruneMode, ~DiskMayFail, Commands = {}
             PROVE  Spec => [](UnlinkedRight /\ FailuresHaveCause)
  OBVIOUS
<1>1. IndexInv /\ [Next]_vars => IndexInv'
  BY IndexNext
<1>2. IndexInv => UnlinkedRight /\ FailuresHaveCause
  BY IndexRight
<1> QED BY <1>1, <1>2, IndexInit, PTL DEF Spec

----------------------------------------------------------------------------
(* setBlockIndexCandidates has every block that could replace the tip.     *)

\* The blocks that could be followed and are not candidates.
Missing == {b \in linked \ candidates : ~Tainted(b)}

\* Of the blocks in m every one is worse than b; none of the blocks in cs is better.
Above(m, seq, b) == \A x \in m : WorkLess(seq, x, b)
Best(cs, seq, b) == \A c \in cs : ~WorkLess(seq, b, c)

\* A block is only missing when there is a better one that is good, and no candidate
\* is worse than the tip.
CandidateInv ==
    /\ \A b \in Missing : \E w \in linked : Good(w) /\ WorkLess(nSequenceId, b, w)
    /\ tip # None => \A c \in candidates : ~WorkLess(nSequenceId, c, tip)

----------------------------------------------------------------------------
(* A single thread: the target it works towards is the best there is, and  *)
(* so is the tip when ActivateBestChain returns.                           *)

\* The only thread in validation.
Me == threads[ImportThread]

\* While the thread has a target, no block that could be chosen is better; when it has
\* none, the same holds of the tip.
TargetInv ==
    /\ Me.pc \in {"begin", "step", "end", "again", "relock"} /\ Me.mostWork # None =>
           Above(Missing, nSequenceId, Me.mostWork) /\ Best(candidates, nSequenceId, Me.mostWork)
    /\ Me.pc \in {"idle", "abc", "lock", "flush"} /\ phase = "running" /\ tip # None =>
           Above(Missing, nSequenceId, tip)
    /\ Me.pc \in {"idle", "flush"} /\ phase = "running" /\ tip # None => Best(candidates, nSequenceId, tip)
    /\ Me.pc \in {"abc", "lock"} => Me.mostWork = None

\* The inductive invariant of a node with a single thread in validation.
AloneInv == IndexInv /\ CandidateInv /\ TargetInv

LEMMA AloneInit == Init => AloneInv
<1> SUFFICES ASSUME Init PROVE AloneInv
  OBVIOUS
<1>1. IndexInv
  BY IndexInit
<1>2. tip = None /\ linked = candidates
  BY DEF Init
<1>3. Missing = {}
  BY <1>2 DEF Missing
<1>4. CandidateInv
  BY <1>2, <1>3 DEF CandidateInv
<1>5. Me = AtLoop
  BY ProcessAssumption, Zenon DEF Init, Me
<1>6. TargetInv
  BY <1>2, <1>5, IdleType DEF TargetInv
<1> QED BY <1>1, <1>4, <1>6 DEF AloneInv

LEMMA AloneNext ==
    ~PruneMode /\ ~DiskMayFail /\ Commands = {} /\ Threads = {ImportThread} /\ AloneInv /\ [Next]_vars => AloneInv'

<1>FewerMissing.
    ASSUME linked \subseteq Blocks, linked' = linked, \A x \in Blocks : nStatus[x] \subseteq nStatus'[x],
           \A x \in candidates \ candidates' : Tainted(x)'
    PROVE  Missing' \subseteq Missing
  <2> USE <1>FewerMissing
  <2>1. \A x \in Blocks : Tainted(x) => Tainted(x)'
    BY SelfAncestor DEF Tainted
  <2> QED BY <2>1 DEF Missing

<1>CandidateStep.
    ASSUME CandidateInv, UNCHANGED <<linked, nSequenceId, tip>>, candidates' \subseteq candidates,
           Missing' \subseteq Missing
    PROVE  CandidateInv'
  BY <1>CandidateStep DEF CandidateInv

\* No step but ConnectTip takes a block away that could be followed.
<1>StepFewer.
    ASSUME ~PruneMode, ~DiskMayFail, IndexInv, NEW t \in Threads, Step(t), ~ConnectTip(t)
    PROVE  /\ Missing' \subseteq Missing /\ candidates' \subseteq candidates
           /\ UNCHANGED <<linked, nSequenceId>>
           /\ UNCHANGED tip \/ (tip \in linked /\ tip' = Below(tip))
  <2> USE <1>StepFewer
  <2>0. /\ TypeInv /\ LinkedInv /\ Stored(nStatus) /\ coinsBest = tip /\ threads[t].pc # "invalidate"
        /\ ChoiceInv /\ CauseInv /\ HasCause(nStatus) /\ phase \in {"running", "stopping"}
        /\ linked \subseteq Blocks /\ candidates \subseteq linked
    <3>1. /\ TypeInv /\ LinkedInv /\ ChoiceInv /\ CauseInv /\ HasCause(nStatus)
          /\ Stored(nStatus) /\ coinsBest = tip /\ NeverInvalidates
      BY Zenon DEF IndexInv, ChoiceInv, StoredInv, GoodInv, CauseInv
    <3>2. linked \subseteq Blocks /\ candidates \subseteq linked
      BY <3>1, TypeSplit, Zenon DEF TypeInv, IndexOK, LinkedInv
    <3>3. phase \in {"running", "stopping"} /\ threads[t].pc # "invalidate"
      BY <3>1, Zenon DEF Step, NeverInvalidates
    <3> QED BY <3>1, <3>2, <3>3
  <2>1. linked' = linked /\ nSequenceId' = nSequenceId
    BY <2>0, StepWaits, Zenon
  <2>2. \A x \in Blocks : nStatus[x] \subseteq nStatus'[x]
    BY <2>0, StepGrows DEF Grows
  <2>3. CASE FindMostWorkChain(t)
    <3>1. tip' = tip
      BY <2>3, Zenon DEF FindMostWorkChain
    <3>2. CASE UNCHANGED <<nStatus, candidates>>
      <4>1. Missing' \subseteq Missing
        BY <2>0, <2>1, <2>2, <3>2, <1>FewerMissing
      <4> QED BY <2>1, <3>1, <3>2, <4>1
    <3>3. CASE ~UNCHANGED <<nStatus, candidates>>
      <4>1. PICK test \in linked, above \in SUBSET linked :
              /\ Failed(nStatus, test) /\ \A x \in above : test \in Ancestors[x]
              /\ candidates' = candidates \ (above \cup {test})
        BY <2>0, <2>3, <3>3, FindStored, Zenon
      <4>2. PICK a \in Ancestors[test] : "FAILED_VALID" \in nStatus[a]
        BY <2>0, <4>1 DEF HasCause
      <4>3. a \in Blocks /\ "FAILED_VALID" \in nStatus'[a]
        BY <2>0, <2>2, <4>2, AncestorChain, Zenon
      <4>4. ASSUME NEW x \in above \cup {test} PROVE a \in Ancestors[x]
        BY <2>0, <4>1, <4>2, AncestorChain, SelfAncestor, Zenon
      <4>5. \A x \in candidates \ candidates' : Tainted(x)'
        BY <4>1, <4>3, <4>4 DEF Tainted
      <4>6. Missing' \subseteq Missing
        BY <2>0, <2>1, <2>2, <4>5, <1>FewerMissing
      <4> QED BY <2>1, <3>1, <4>1, <4>6
    <3> QED BY <3>2, <3>3
  <2>4. CASE ConnectInvalid(t)
    <3>1. PICK n \in Blocks : n = NextBlock(t)
      BY <2>0, <2>4, NextBlockType DEF ConnectInvalid
    <3>2. /\ tip' = tip /\ candidates' = candidates \ {n}
          /\ nStatus' = [nStatus EXCEPT ![n] = @ \cup {"FAILED_VALID"}]
      BY <2>4, <3>1, Zenon DEF ConnectInvalid
    <3>3. "FAILED_VALID" \in nStatus'[n]
      BY <2>0, <3>2, TypeSplit DEF TypeInv, IndexOK, Status
    <3>4. \A x \in candidates \ candidates' : Tainted(x)'
      BY <3>2, <3>3, SelfAncestor DEF Tainted
    <3>5. Missing' \subseteq Missing
      BY <2>0, <2>1, <2>2, <3>4, <1>FewerMissing, Zenon
    <3> QED BY <2>1, <3>2, <3>5
  <2>5. CASE StepDisconnect(t) \/ FinishActivate(t)
    <3>1. candidates' = candidates /\ (tip' = tip \/ (tip \in linked /\ tip' = Below(tip)))
      BY <2>0, <2>5, DisconnectEffect, FinishEffect, Zenon
    <3>2. Missing' \subseteq Missing
      BY <2>0, <2>1, <2>2, <3>1, <1>FewerMissing, Zenon
    <3> QED BY <2>1, <3>1, <3>2
  <2>6. CASE \/ ActivateBestChain(t) \/ LockMain(t) \/ BeginStep(t) \/ StepDone(t) \/ EndStep(t)
             \/ ConnectUnreadable(t) \/ CoinsElsewhere(t) \/ InvalidateDisconnect(t) \/ InvalidateFinish(t)
    <3>1. candidates' = candidates /\ tip' = tip
      BY <2>0, <2>6, ControlEffect, Zenon
    <3>2. Missing' \subseteq Missing
      BY <2>0, <2>1, <2>2, <3>1, <1>FewerMissing
    <3> QED BY <2>1, <3>1, <3>2
  <2> QED BY <2>3, <2>4, <2>5, <2>6 DEF Step

\* ConnectTip takes away what is worse than the new tip.
<1>ConnectMissing.
    ASSUME ~PruneMode, ~DiskMayFail, IndexInv, NEW t \in Threads, ConnectTip(t), NEW b, b = NextBlock(t)
    PROVE  /\ UNCHANGED <<linked, nSequenceId>> /\ tip' = b /\ b \in linked
           /\ candidates' = {c \in candidates : ~WorkLess(nSequenceId, c, b)}
           /\ \A x \in Missing' : x \in Missing \/ WorkLess(nSequenceId, x, b)
           /\ b \in Ancestors[threads[t].mostWork] /\ threads[t].mostWork \in Blocks
           /\ \E pc \in {"step", "end"} : threads' = Go(t, pc, threads[t].mostWork)
  <2> USE <1>ConnectMissing
  <2>0. TypeInv /\ LinkedInv /\ linked \subseteq Blocks
    BY TypeSplit DEF IndexInv, ChoiceInv, TypeInv, IndexOK
  <2>1. /\ UNCHANGED <<linked, nSequenceId>> /\ tip' = b /\ b \in linked
        /\ candidates' = {c \in candidates : ~WorkLess(nSequenceId, c, b)}
        /\ b \in Ancestors[threads[t].mostWork] /\ threads[t].mostWork \in Blocks
        /\ \E pc \in {"step", "end"} : threads' = Go(t, pc, threads[t].mostWork)
        /\ \A x \in Blocks : nStatus'[x] = nStatus[x] \/ nStatus'[x] = nStatus[x] \cup {"SCRIPTS"}
    BY <2>0, ConnectEffect, Zenon
  <2>2. \A x \in Blocks : Tainted(x) => Tainted(x)'
    BY <2>1, SelfAncestor, Zenon DEF Tainted
  <2>3. \A x \in Missing' : x \in Missing \/ WorkLess(nSequenceId, x, b)
    BY <2>0, <2>1, <2>2, Zenon DEF Missing
  <2> QED BY <2>1, <2>3, Zenon

\* A block arrives: what is linked and not made a candidate is worse than the tip.
<1>AcceptMissing.
    ASSUME ~PruneMode, IndexInv, TypeInv', NEW t, NEW b \in Blocks, NEW fRequested, AcceptBlock(t, b, fRequested)
    PROVE  /\ tip \in linked /\ tip' = tip /\ linked \subseteq linked'
           /\ \A x \in linked : nSequenceId'[x] = nSequenceId[x]
           /\ \A x \in Missing' : x \in Missing \/ WorkLess(nSequenceId', x, tip)
           /\ \A c \in candidates' : c \in candidates \/ ~WorkLess(nSequenceId', c, tip)
           /\ threads[t] = Idle /\ threads' = [threads EXCEPT ![t] = AtLoop]
  <2> USE <1>AcceptMissing
  <2>0. /\ TypeInv /\ LinkedInv /\ Stored(nStatus) /\ linked \cap unlinked = {}
        /\ linked \subseteq Blocks /\ linked' \subseteq Blocks
    BY TypeSplit DEF IndexInv, ChoiceInv, StoredInv, TypeInv, IndexOK
  <2>1. /\ "DATA" \notin nStatus[b] /\ LinkBlock(b) /\ tip' = tip /\ Serving
        /\ threads[t] = Idle /\ threads' = [threads EXCEPT ![t] = AtLoop]
        /\ \A x \in Blocks :
               nStatus'[x] = IF x = b THEN nStatus[b] \cup {"TREE", "TX", "DATA"} ELSE nStatus[x]
    BY <2>0, AcceptEffect, Zenon
  <2>2. tip \in linked
    BY <2>0, <2>1, Zenon DEF Serving, LinkedInv
  <2>3. \A x \in Blocks : nStatus[x] \subseteq nStatus'[x]
    BY <2>1, Zenon
  <2>4. \A x \in Blocks : Tainted(x) => Tainted(x)'
    BY <2>3, SelfAncestor DEF Tainted
  <2>5. CASE UNCHANGED <<linked, nSequenceId, candidates>>
    <3>1. Missing' \subseteq Missing
      BY <2>0, <2>3, <2>5, <1>FewerMissing, Zenon
    <3> QED BY <2>1, <2>2, <2>5, <3>1, Zenon
  <2>6. CASE ~UNCHANGED <<linked, nSequenceId, candidates>>
    <3> DEFINE N == NowLinked(b)
    <3>1. /\ linked' = linked \cup N /\ linked \cap N = {}
          /\ \A x \in Blocks \ N : nSequenceId'[x] = nSequenceId[x]
          /\ candidates' = candidates \cup {x \in N : tip = None \/ ~WorkLess(nSequenceId', x, tip)}
      BY <2>0, <2>1, <2>6, LinkEffect, Zenon
    <3> HIDE DEF N
    <3>2. tip # None
      BY <2>1, Zenon DEF Serving
    <3>3. \A x \in linked : nSequenceId'[x] = nSequenceId[x]
      BY <2>0, <3>1
    <3>4. \A x \in Missing' : x \in Missing \/ WorkLess(nSequenceId', x, tip)
      BY <2>0, <2>4, <3>1, <3>2, Zenon DEF Missing
    <3>5. \A c \in candidates' : c \in candidates \/ ~WorkLess(nSequenceId', c, tip)
      BY <3>1, <3>2
    <3> QED BY <2>1, <2>2, <3>1, <3>3, <3>4, <3>5, Zenon
  <2> QED BY <2>5, <2>6, Zenon

\* After a restart what is no candidate is worse than the tip, or failed.
<1>RestartMissing.
    ASSUME IndexInv, Restart
    PROVE  /\ tip' = diskCoins /\ (diskCoins # None => diskCoins \in linked' /\ nSequenceId' = nSequenceId)
           /\ \A x \in Missing' : diskCoins # None /\ WorkLess(nSequenceId', x, diskCoins)
           /\ diskCoins # None => \A c \in candidates' : ~WorkLess(nSequenceId', c, diskCoins)
           /\ threads' = [threads EXCEPT ![ImportThread] = AtLoop]
  <2> USE <1>RestartMissing
  <2> DEFINE chainTx == {b \in Blocks : \A a \in Ancestors[b] : "TX" \in diskIndex[a]}
             all == {b \in chainTx : IsValid(diskIndex, b)}
  <2>0. TypeInv /\ DiskInv /\ HasCause(diskIndex)
    BY DEF IndexInv, ChoiceInv, CauseInv
  <2>1. /\ nStatus' = diskIndex /\ linked' = chainTx /\ tip' = diskCoins
        /\ threads' = [threads EXCEPT ![ImportThread] = AtLoop]
        /\ IF diskCoins # None
           THEN /\ diskCoins \in chainTx /\ nSequenceId' = nSequenceId
                /\ candidates' = {c \in all : ~WorkLess(nSequenceId, c, diskCoins)}
           ELSE candidates' = all \cup {Genesis}
    BY <2>0, RestartEffect, Zenon
  <2>2. ASSUME NEW x \in chainTx, x \notin all PROVE Tainted(x)'
    <3>1. x \in Blocks /\ "TX" \in diskIndex[x]
      BY SelfAncestor
    <3>2. Failed(diskIndex, x)
      BY <2>2, <3>1 DEF IsValid
    <3> QED BY <2>0, <2>1, <3>1, <3>2, Zenon DEF HasCause, Tainted
  <2> HIDE DEF chainTx, all
  <2>3. \A x \in Missing' : x \in all
    BY <2>1, <2>2 DEF Missing
  <2>4. \A x \in Missing' : x \notin candidates'
    BY DEF Missing
  <2> QED BY <2>1, <2>3, <2>4

<1>CandidateNext.
    ASSUME ~PruneMode, ~DiskMayFail, Commands = {}, IndexInv, CandidateInv, [Next]_vars
    PROVE  CandidateInv'
  <2> USE <1>CandidateNext
  <2>0. /\ linked \subseteq Blocks /\ candidates \subseteq linked /\ nSequenceId \in [Blocks -> Int]
        /\ ChoiceInv /\ TypeInv /\ GoodInv
    BY TypeSplit, Zenon DEF IndexInv, ChoiceInv, TypeInv, IndexOK, OrderOK, LinkedInv
  <2>1. ChoiceInv' /\ TypeInv' /\ GoodInv' /\ nSequenceId' \in [Blocks -> Int] /\ linked' \subseteq Blocks
    <3>1. ChoiceInv'
      BY <2>0, ChoiceNext
    <3> QED BY <3>1, TypeSplit DEF ChoiceInv, TypeInv, OrderOK, IndexOK
  <2>2. ASSUME NEW t \in Threads, Step(t), ~ConnectTip(t) PROVE CandidateInv'
    <3>1. /\ Missing' \subseteq Missing /\ candidates' \subseteq candidates
          /\ UNCHANGED <<linked, nSequenceId>>
          /\ UNCHANGED tip \/ (tip \in linked /\ tip' = Below(tip))
      BY <2>2, <1>StepFewer
    <3>2. CASE UNCHANGED tip
      BY <3>1, <3>2, <1>CandidateStep
    <3>3. CASE tip \in linked /\ tip' = Below(tip)
      <4>1. ASSUME NEW c \in candidates', tip' # None PROVE ~WorkLess(nSequenceId, c, tip')
        <5>1. tip \in Blocks /\ tip' \in Blocks /\ c \in Blocks /\ c \in candidates
          BY <2>0, <3>1, <3>3, <4>1, BelowType DEF MaybeBlock
        <5>2. ~WorkLess(nSequenceId, c, tip)
          BY <2>0, <3>3, <5>1, TreeAssumption, Zenon DEF CandidateInv
        <5>3. tip # Genesis /\ tip' = Parent[tip]
          BY <3>3, <4>1 DEF Below
        <5>4. WorkLess(nSequenceId, tip', tip)
          BY <5>1, <5>3, OrderAssumption, Zenon DEF WorkLess
        <5> QED BY <2>0, <5>1, <5>2, <5>4, WorkOrder, Zenon
      <4>2. \A x \in Missing' : \E w \in linked' : Good(w) /\ WorkLess(nSequenceId', x, w)
        BY <3>1 DEF CandidateInv
      <4> QED BY <3>1, <4>1, <4>2, Zenon DEF CandidateInv
    <3> QED BY <3>1, <3>2, <3>3
  <2>3. ASSUME NEW t \in Threads, ConnectTip(t) PROVE CandidateInv'
    <3>1. PICK b : b = NextBlock(t)
      OBVIOUS
    <3>2. /\ nSequenceId' = nSequenceId /\ b \in linked
          /\ candidates' = {c \in candidates : ~WorkLess(nSequenceId, c, b)}
          /\ \A x \in Missing' : x \in Missing \/ WorkLess(nSequenceId, x, b)
      BY <2>3, <3>1, <1>ConnectMissing, Zenon
    <3>3. linked' = linked
      BY <2>3, <3>1, <1>ConnectMissing, Zenon
    <3>4. tip' = b
      BY <2>3, <3>1, <1>ConnectMissing, Zenon
    <3>5. /\ linked' = linked /\ nSequenceId' = nSequenceId /\ tip' = b /\ b \in linked
          /\ candidates' = {c \in candidates : ~WorkLess(nSequenceId, c, b)}
          /\ \A x \in Missing' : x \in Missing \/ WorkLess(nSequenceId, x, b)
      BY <3>2, <3>3, <3>4, Zenon
    <3>6. Good(b)
      BY <2>0, <2>1, <3>5, TreeAssumption DEF GoodInv
    <3>7. \A x \in Missing' : \E w \in linked : Good(w) /\ WorkLess(nSequenceId, x, w)
      BY <3>5, <3>6 DEF CandidateInv
    <3> QED BY <3>5, <3>7 DEF CandidateInv
  <2>4. ASSUME NEW b \in Blocks, NEW t, NEW fRequested,
               \/ ProcessNewBlockHeaders(b) \/ SkipBlock(t, b, fRequested) \/ RejectBlock(t, b, fRequested)
        PROVE  CandidateInv'
    <3>1. UNCHANGED <<linked, nSequenceId, candidates, tip>>
      BY <2>0, <2>4, HeaderEffect, Zenon
    <3>2. \A x \in Blocks : nStatus[x] \subseteq nStatus'[x]
      BY <2>0, <2>4, ReceiveGrows, Zenon DEF Grows, IndexInv
    <3>3. Missing' \subseteq Missing
      BY <2>0, <3>1, <3>2, <1>FewerMissing, Zenon
    <3> QED BY <3>1, <3>3, <1>CandidateStep
  <2>5. ASSUME NEW b \in Blocks, NEW t, NEW fRequested, AcceptBlock(t, b, fRequested) PROVE CandidateInv'
    <3>1. /\ tip \in linked /\ tip' = tip /\ linked \subseteq linked'
          /\ \A x \in linked : nSequenceId'[x] = nSequenceId[x]
          /\ \A x \in Missing' : x \in Missing \/ WorkLess(nSequenceId', x, tip)
          /\ \A c \in candidates' : c \in candidates \/ ~WorkLess(nSequenceId', c, tip)
      BY <2>1, <2>5, <1>AcceptMissing, Zenon
    <3>2. \A x \in Missing : x \in linked
      BY DEF Missing
    <3>3. ASSUME NEW x \in linked, NEW y \in linked
          PROVE  WorkLess(nSequenceId', x, y) <=> WorkLess(nSequenceId, x, y)
      BY <3>1, SameOrder, Zenon
    <3>4. Good(tip)
      BY <2>0, <3>1, TreeAssumption DEF GoodInv
    <3>5. ASSUME NEW x \in Missing' PROVE \E w \in linked' : Good(w) /\ WorkLess(nSequenceId', x, w)
      <4>1. CASE x \in Missing
        <5>1. PICK w \in linked : Good(w) /\ WorkLess(nSequenceId, x, w)
          BY <4>1 DEF CandidateInv
        <5> QED BY <3>1, <3>2, <3>3, <4>1, <5>1
      <4>2. CASE WorkLess(nSequenceId', x, tip)
        BY <3>1, <3>4, <4>2, Zenon
      <4> QED BY <3>1, <4>1, <4>2, Zenon
    <3>6. ASSUME NEW c \in candidates' PROVE ~WorkLess(nSequenceId', c, tip)
      <4>1. tip # None
        BY <2>0, <3>1, TreeAssumption
      <4>2. c \in candidates => ~WorkLess(nSequenceId, c, tip) /\ c \in linked
        BY <2>0, <4>1 DEF CandidateInv
      <4> QED BY <3>1, <3>3, <4>2, Zenon
    <3> QED BY <3>1, <3>5, <3>6 DEF CandidateInv
  <2>6. CASE FlushCoins \/ PruneBlockFilesManual \/ StartShutdown \/ UNCHANGED vars
    <3>1. UNCHANGED <<nStatus, linked, nSequenceId, candidates, tip>>
      BY <2>6, ProcessEffect
    <3>2. Missing' \subseteq Missing
      BY <2>0, <3>1, <1>FewerMissing
    <3> QED BY <3>1, <3>2, <1>CandidateStep
  <2>7. CASE Shutdown \/ Crash \/ AssertFails
    <3>1. linked' = {} /\ tip' = None
      BY <2>7, StopEffect
    <3> QED BY <3>1 DEF CandidateInv, Missing
  <2>8. CASE Restart
    <3>1. /\ tip' = diskCoins /\ (diskCoins # None => diskCoins \in linked')
          /\ \A x \in Missing' : diskCoins # None /\ WorkLess(nSequenceId', x, diskCoins)
          /\ diskCoins # None => \A c \in candidates' : ~WorkLess(nSequenceId', c, diskCoins)
      BY <2>8, <1>RestartMissing
    <3>2. diskCoins # None => Good(diskCoins)
      BY <2>0 DEF GoodInv
    <3>3. \A x \in Missing' : \E w \in linked' : Good(w) /\ WorkLess(nSequenceId', x, w)
      BY <3>1, <3>2
    <3> QED BY <3>1, <3>3 DEF CandidateInv
  <2>9. ASSUME NEW t, NEW b, InvalidateBlock(t, b) \/ ResetBlockFailureFlags(t, b) \/ PreciousBlock(t, b)
        PROVE  FALSE
    BY <2>9 DEF InvalidateBlock, ResetBlockFailureFlags, PreciousBlock, Command
  <2> QED BY <2>2, <2>3, <2>4, <2>5, <2>6, <2>7, <2>8, <2>9, Zenon DEF Next, Operate

<1>AimStep.
    ASSUME Missing' \subseteq Missing, candidates' \subseteq candidates, nSequenceId' = nSequenceId
    PROVE  \A b : /\ Above(Missing, nSequenceId, b) => Above(Missing', nSequenceId', b)
                  /\ Best(candidates, nSequenceId, b) => Best(candidates', nSequenceId', b)
  BY <1>AimStep DEF Above, Best

\* Steps that leave the thread where it is.
<1>TargetSame.
    ASSUME TargetInv, Missing' \subseteq Missing, candidates' \subseteq candidates, nSequenceId' = nSequenceId,
           UNCHANGED <<threads, tip>>, phase' = "running" => phase = "running"
    PROVE  TargetInv'
  <2> USE <1>TargetSame
  <2>1. Me' = Me
    BY DEF Me
  <2> QED BY <2>1, <1>AimStep, Zenon DEF TargetInv

\* Where Go takes the thread.
<1>Went.
    ASSUME threads \in [Threads -> Thread], NEW pc \in Places, NEW mw \in MaybeBlock,
           threads' = Go(ImportThread, pc, mw)
    PROVE  Me'.pc = pc /\ Me'.mostWork = mw
  <2>1. /\ Go(ImportThread, pc, mw)[ImportThread].pc = pc
        /\ Go(ImportThread, pc, mw)[ImportThread].mostWork = mw
    BY <1>Went, GoType, ProcessAssumption
  <2> QED BY <1>Went, <2>1, Zenon DEF Me

\* Where the steps of ActivateBestChain lead.
<1>ControlTarget.
    ASSUME TypeInv, NEW t, t = ImportThread, threads[t].pc # "invalidate", coinsBest = tip,
           \/ ActivateBestChain(t) \/ LockMain(t) \/ BeginStep(t) \/ StepDone(t) \/ EndStep(t)
           \/ ConnectUnreadable(t) \/ CoinsElsewhere(t) \/ InvalidateDisconnect(t) \/ InvalidateFinish(t)
    PROVE  /\ tip' = tip
           /\ \/ Me'.mostWork = Me.mostWork /\ phase' = phase
                 /\ \/ Me.pc \in {"abc", "again"} /\ Me'.pc = "flush" /\ phase # "running"
                    \/ Me.pc = "abc" /\ Me'.pc = "lock"
                    \/ Me.pc = "lock" /\ Me.mostWork # None /\ Me'.pc = "begin"
                    \/ Me.pc \in {"again", "begin", "relock", "step"} /\ Me'.pc \in {"relock", "begin", "step", "end"}
                    \/ Me'.pc = "find"
                    \/ Me.pc = "end" /\ Me'.pc = "again"
                    \/ Me.pc = "end" /\ Me'.pc = "flush" /\ tip = Me.mostWork
              \/ Me.pc = "begin" /\ Me' = Idle /\ phase' = phase /\ tip = Me.mostWork
              \/ Me' = Idle /\ phase' = "stopping"
  <2> USE <1>ControlTarget
  <2>0. threads \in [Threads -> Thread] /\ t \in Threads
    BY TypeSplit, ProcessAssumption DEF TypeInv, ThreadOK
  <2>1. threads[t] \in Thread /\ threads[t].pc \in Places /\ threads[t].mostWork \in MaybeBlock
    BY <2>0 DEF Thread
  <2>2. ASSUME NEW pc \in Places, threads' = Go(t, pc, threads[t].mostWork)
        PROVE  Me'.pc = pc /\ Me'.mostWork = Me.mostWork
    BY <2>0, <2>1, <2>2, GoType DEF Me
  <2>3. ASSUME threads' = [threads EXCEPT ![t] = Idle] PROVE Me' = Idle
    BY <2>0, <2>3 DEF Me
  <2>4. CASE ActivateBestChain(t)
    <3>1. tip' = tip /\ phase' = phase /\ Me.pc \in {"abc", "again"}
      BY <2>4, Zenon DEF ActivateBestChain, Me
    <3>2. CASE phase = "stopping"
      <4>1. threads' = Go(t, "flush", threads[t].mostWork)
        BY <2>4, <3>2, Zenon DEF ActivateBestChain
      <4>2. Me'.pc = "flush" /\ Me'.mostWork = Me.mostWork
        BY <2>2, <4>1, Zenon DEF Places
      <4> QED BY <3>1, <3>2, <4>2, Zenon
    <3>3. CASE phase # "stopping" /\ Me.pc = "abc"
      <4>1. threads' = Go(t, "lock", threads[t].mostWork)
        BY <2>4, <3>3, Zenon DEF ActivateBestChain, Me
      <4>2. Me'.pc = "lock" /\ Me'.mostWork = Me.mostWork
        BY <2>2, <4>1, Zenon DEF Places
      <4> QED BY <3>1, <3>3, <4>2, Zenon
    <3>4. CASE phase # "stopping" /\ Me.pc = "again"
      <4>1. threads' = Go(t, "relock", threads[t].mostWork)
        BY <2>4, <3>4, Zenon DEF ActivateBestChain, Me
      <4>2. Me'.pc = "relock" /\ Me'.mostWork = Me.mostWork
        BY <2>2, <4>1, Zenon DEF Places
      <4> QED BY <3>1, <3>4, <4>2, Zenon
    <3> QED BY <3>1, <3>2, <3>3, <3>4, Zenon
  <2>5. CASE LockMain(t)
    <3>1. tip' = tip /\ phase' = phase /\ Me.pc \in {"lock", "relock"}
      BY <2>5, Zenon DEF LockMain, Me
    <3>2. CASE Me.mostWork = None
      <4>1. threads' = Go(t, "find", threads[t].mostWork)
        BY <2>5, <3>2, Zenon DEF LockMain, Me
      <4>2. Me'.pc = "find" /\ Me'.mostWork = Me.mostWork
        BY <2>2, <4>1, Zenon DEF Places, CriticalSection
      <4> QED BY <3>1, <4>2, Zenon
    <3>3. CASE Me.mostWork # None
      <4>1. threads' = Go(t, "begin", threads[t].mostWork)
        BY <2>5, <3>3, Zenon DEF LockMain, Me
      <4>2. Me'.pc = "begin" /\ Me'.mostWork = Me.mostWork
        BY <2>2, <4>1, Zenon DEF Places, CriticalSection
      <4> QED BY <3>1, <3>3, <4>2, Zenon
    <3> QED BY <3>2, <3>3, Zenon
  <2>6. CASE BeginStep(t)
    <3>1. tip' = tip /\ phase' = phase /\ Me.pc = "begin"
      BY <2>6, Zenon DEF BeginStep, Me
    <3>2. CASE Me.mostWork = tip
      BY <2>3, <2>6, <3>1, <3>2, Zenon DEF BeginStep, Me
    <3>3. CASE Me.mostWork # tip
      <4>1. threads' = [threads EXCEPT ![t] = [pc |-> "step", mostWork |-> threads[t].mostWork,
                                               oldTip |-> tip, arg |-> None]]
        BY <2>6, <3>3, Zenon DEF BeginStep, Me
      <4>2. Me'.pc = "step" /\ Me'.mostWork = Me.mostWork
        BY <2>0, <4>1 DEF Me
      <4> QED BY <3>1, <4>2, Zenon
    <3> QED BY <3>2, <3>3, Zenon
  <2>7. CASE StepDone(t)
    <3>1. /\ tip' = tip /\ phase' = phase /\ Me.pc = "step"
          /\ threads' = Go(t, "end", threads[t].mostWork)
      BY <2>7, Zenon DEF StepDone, Me
    <3>2. Me'.pc = "end" /\ Me'.mostWork = Me.mostWork
      <4>1. "end" \in Places
        BY Zenon DEF Places, CriticalSection
      <4> QED BY <2>2, <3>1, <4>1, Zenon
    <3> QED BY <3>1, <3>2, Zenon
  <2>8. CASE EndStep(t)
    <3>1. /\ tip' = tip /\ phase' = phase /\ Me.pc = "end"
          /\ threads' = [threads EXCEPT ![t] =
                            [pc |-> IF tip = threads[t].mostWork THEN "flush" ELSE "again",
                             mostWork |-> threads[t].mostWork, oldTip |-> None, arg |-> None]]
      BY <2>8, Zenon DEF EndStep, Me
    <3>2. /\ Me'.pc = IF tip = Me.mostWork THEN "flush" ELSE "again"
          /\ Me'.mostWork = Me.mostWork
      BY <2>0, <3>1 DEF Me
    <3> QED BY <3>1, <3>2
  <2>9. CASE ConnectUnreadable(t)
    BY <2>3, <2>9, Zenon DEF ConnectUnreadable, AbortNode
  <2>10. CASE CoinsElsewhere(t) \/ InvalidateDisconnect(t) \/ InvalidateFinish(t)
    BY <2>10, Zenon DEF CoinsElsewhere, InvalidateDisconnect, InvalidateFinish
  <2> QED BY <2>4, <2>5, <2>6, <2>7, <2>8, <2>9, <2>10, Zenon

<1>TargetNext.
    ASSUME ~PruneMode, ~DiskMayFail, Commands = {}, Threads = {ImportThread},
           IndexInv, CandidateInv, TargetInv, [Next]_vars
    PROVE  TargetInv'
  <2> USE <1>TargetNext
  <2>0. /\ ChoiceInv /\ TypeInv /\ LinkedInv /\ Stored(nStatus) /\ coinsBest = tip /\ NeverInvalidates
        /\ Topped /\ GoodInv
    BY DEF IndexInv, ChoiceInv, StoredInv, GoodInv, TopInv
  <2>1. /\ linked \subseteq Blocks /\ candidates \subseteq linked /\ nSequenceId \in [Blocks -> Int]
        /\ threads \in [Threads -> Thread] /\ tip \in linked \cup {None}
    BY <2>0, TypeSplit, Zenon DEF TypeInv, IndexOK, OrderOK, ThreadOK, LinkedInv
  <2>2. TypeInv' /\ Missing \subseteq linked
    BY <2>0, TypeNext DEF Missing
  <2>3. ASSUME FindMostWorkChain(ImportThread), Step(ImportThread) PROVE TargetInv'
    <3>1. /\ Missing' \subseteq Missing /\ candidates' \subseteq candidates /\ nSequenceId' = nSequenceId
      <4>1. ~ConnectTip(ImportThread)
        BY <2>3, Zenon DEF FindMostWorkChain, ConnectTip, CanConnect
      <4> QED BY <2>3, <4>1, <1>StepFewer, ProcessAssumption
    <3>2. tip' = tip /\ phase' = phase
      BY <2>3, Zenon DEF FindMostWorkChain
    <3>3. CASE threads' = threads
      BY <3>1, <3>2, <3>3, <1>TargetSame
    <3>4. CASE candidates = {} /\ threads' = [threads EXCEPT ![ImportThread] = Idle]
      <4>1. tip = None
        BY <2>0, <2>1, <3>4 DEF Topped, GoodInv
      <4>2. Me' = Idle
        BY <2>1, <3>4, ProcessAssumption DEF Me
      <4> QED BY <3>2, <4>1, <4>2, IdleType, Zenon DEF TargetInv
    <3>5. ASSUME NEW c \in candidates, \A x \in candidates \ {c} : WorkLess(nSequenceId, x, c),
                 threads' = Go(ImportThread, "begin", c)
          PROVE  TargetInv'
      <4>1. c \in Blocks /\ Me'.pc = "begin" /\ Me'.mostWork = c
        <5>1. c \in Blocks
          BY <2>1
        <5>2. "begin" \in Places /\ c \in MaybeBlock
          BY <5>1 DEF Places, CriticalSection, MaybeBlock
        <5> QED BY <2>1, <3>5, <5>1, <5>2, <1>Went, Zenon
      <4>2. ASSUME NEW x \in candidates PROVE ~WorkLess(nSequenceId, c, x)
        BY <2>1, <3>5, <4>1, WorkOrder, Zenon
      <4>3. ASSUME NEW x \in Missing PROVE WorkLess(nSequenceId, x, c)
        <5>1. PICK w \in linked : Good(w) /\ WorkLess(nSequenceId, x, w)
          BY DEF CandidateInv
        <5>2. PICK d \in candidates : ~WorkLess(nSequenceId, d, w)
          BY <2>0, <5>1 DEF Topped
        <5>3. x \in Blocks /\ w \in Blocks /\ d \in Blocks
          BY <2>1, <2>2
        <5>4. WorkLess(nSequenceId, x, d)
          BY <2>1, <5>1, <5>2, <5>3, WorkOrder
        <5> QED BY <2>1, <4>1, <4>2, <5>2, <5>3, <5>4, WorkOrder
      <4>4. Above(Missing', nSequenceId', c) /\ Best(candidates', nSequenceId', c)
        BY <3>1, <4>2, <4>3 DEF Above, Best
      <4> QED BY <4>1, <4>4, Zenon DEF TargetInv
    <3> QED BY <2>0, <2>3, <3>3, <3>4, <3>5, FindEffect, ProcessAssumption, Zenon
  <2>4. ASSUME ConnectTip(ImportThread) PROVE TargetInv'
    <3>1. PICK b : b = NextBlock(ImportThread)
      OBVIOUS
    <3>2. /\ nSequenceId' = nSequenceId /\ b \in linked
          /\ candidates' = {c \in candidates : ~WorkLess(nSequenceId, c, b)}
          /\ \A x \in Missing' : x \in Missing \/ WorkLess(nSequenceId, x, b)
          /\ b \in Ancestors[Me.mostWork] /\ Me.mostWork \in Blocks
          /\ \E pc \in {"step", "end"} : threads' = Go(ImportThread, pc, Me.mostWork)
      BY <2>4, <3>1, <1>ConnectMissing, ProcessAssumption, Zenon DEF Me
    <3>3. Me'.pc \in {"step", "end"} /\ Me'.mostWork = Me.mostWork
      <4>0. PICK mw : mw = Me.mostWork
        OBVIOUS
      <4>1. PICK pc \in {"step", "end"} : threads' = Go(ImportThread, pc, mw)
        BY <3>2, <4>0, Zenon
      <4>2. pc \in Places /\ mw \in MaybeBlock
        BY <3>2, <4>0, Zenon DEF Places, CriticalSection, MaybeBlock
      <4> QED BY <2>1, <4>0, <4>1, <4>2, <1>Went, Zenon
    <3>4. Above(Missing, nSequenceId, Me.mostWork) /\ Best(candidates, nSequenceId, Me.mostWork)
      <4>1. Me.pc = "step" /\ Me.mostWork # None
        <5>1. Me.pc = "step"
          BY <2>4, Zenon DEF ConnectTip, CanConnect, Me
        <5> QED BY <3>2, <5>1, TreeAssumption
      <4> QED BY <4>1 DEF TargetInv
    <3>5. PICK mw \in Blocks : mw = Me.mostWork
      BY <3>2, Zenon
    <3>6. ~WorkLess(nSequenceId, mw, b)
      <4>1. b = mw \/ ChainWork[b] < ChainWork[mw]
        BY <3>2, <3>5, AncestorOrder, Zenon
      <4>2. b \in Blocks /\ (b # mw => WorkLess(nSequenceId, b, mw))
        BY <2>1, <3>2, <4>1, Zenon DEF WorkLess
      <4> QED BY <2>1, <4>2, WorkOrder
    <3>7. ASSUME NEW x \in Missing' PROVE WorkLess(nSequenceId, x, mw)
      <4>1. CASE x \in Missing
        BY <3>4, <3>5, <4>1, Zenon DEF Above
      <4>2. CASE WorkLess(nSequenceId, x, b)
        <5>1. x \in Blocks /\ b \in Blocks
          BY <2>1, <2>2, <3>2, TypeSplit, Zenon DEF Missing, TypeInv, IndexOK
        <5> QED BY <2>1, <3>6, <4>2, <5>1, WorkOrder
      <4> QED BY <3>2, <4>1, <4>2, Zenon
    <3>8. Above(Missing', nSequenceId', mw) /\ Best(candidates', nSequenceId', mw)
      BY <3>2, <3>4, <3>5, <3>7, Zenon DEF Above, Best
    <3> QED BY <3>3, <3>5, <3>8, Zenon DEF TargetInv
  <2>5. ASSUME Step(ImportThread), ~ConnectTip(ImportThread), ~FindMostWorkChain(ImportThread) PROVE TargetInv'
    <3>1. /\ Missing' \subseteq Missing /\ candidates' \subseteq candidates /\ nSequenceId' = nSequenceId
      BY <2>5, <1>StepFewer, ProcessAssumption
    <3>2. \A b : /\ Above(Missing, nSequenceId, b) => Above(Missing', nSequenceId', b)
                 /\ Best(candidates, nSequenceId, b) => Best(candidates', nSequenceId', b)
      BY <3>1, <1>AimStep, Zenon
    <3>3. threads[ImportThread].pc # "invalidate" /\ ImportThread \in Threads
      BY <2>0, ProcessAssumption DEF NeverInvalidates
    <3>4. CASE ConnectInvalid(ImportThread)
      <4>1. threads' = Go(ImportThread, "end", None)
        BY <3>4, Zenon DEF ConnectInvalid
      <4>2. Me'.pc = "end" /\ Me'.mostWork = None
        <5>1. "end" \in Places /\ None \in MaybeBlock
          BY DEF Places, CriticalSection, MaybeBlock
        <5> QED BY <2>1, <4>1, <5>1, <1>Went, Zenon
      <4> QED BY <4>2, Zenon DEF TargetInv
    <3>5. CASE StepDisconnect(ImportThread)
      <4>1. Me' = Me /\ Me.pc = "step"
        BY <2>0, <3>3, <3>5, DisconnectEffect, Zenon DEF Me
      <4> QED BY <3>2, <4>1, Zenon DEF TargetInv
    <3>6. CASE FinishActivate(ImportThread)
      <4>1. Me' = Idle /\ Me.pc = "flush" /\ UNCHANGED <<tip, phase>>
        BY <2>0, <2>1, <3>3, <3>6, FinishEffect DEF Me
      <4> QED BY <3>2, <4>1, IdleType, Zenon DEF TargetInv
    <3>7. CASE LET t == ImportThread
               IN  \/ ActivateBestChain(t) \/ LockMain(t) \/ BeginStep(t) \/ StepDone(t) \/ EndStep(t)
                   \/ ConnectUnreadable(t) \/ CoinsElsewhere(t) \/ InvalidateDisconnect(t) \/ InvalidateFinish(t)
      <4>1. /\ tip' = tip
            /\ \/ Me'.mostWork = Me.mostWork /\ phase' = phase
                  /\ \/ Me.pc \in {"abc", "again"} /\ Me'.pc = "flush" /\ phase # "running"
                     \/ Me.pc = "abc" /\ Me'.pc = "lock"
                     \/ Me.pc = "lock" /\ Me.mostWork # None /\ Me'.pc = "begin"
                     \/ Me.pc \in {"again", "begin", "relock", "step"} /\ Me'.pc \in {"relock", "begin", "step", "end"}
                     \/ Me'.pc = "find"
                     \/ Me.pc = "end" /\ Me'.pc = "again"
                     \/ Me.pc = "end" /\ Me'.pc = "flush" /\ tip = Me.mostWork
               \/ Me.pc = "begin" /\ Me' = Idle /\ phase' = phase /\ tip = Me.mostWork
               \/ Me' = Idle /\ phase' = "stopping"
        BY <2>0, <3>3, <3>7, <1>ControlTarget, Zenon
      <4> DEFINE ab == Above(Missing, nSequenceId, Me.mostWork) /\ Best(candidates, nSequenceId, Me.mostWork)
                 abp == Above(Missing', nSequenceId', Me.mostWork) /\ Best(candidates', nSequenceId', Me.mostWork)
      <4>2. ab => abp
        BY <3>2
      <4>3. CASE Me.pc \in {"begin", "step", "end", "again", "relock"} /\ Me.mostWork # None
        <5>1. abp
          BY <4>2, <4>3 DEF TargetInv
        <5> HIDE DEF ab, abp
        <5>2. CASE Me'.mostWork = Me.mostWork /\ phase' = phase /\ Me'.pc \in {"relock", "begin", "step", "end", "again", "find"}
          BY <5>1, <5>2, Zenon DEF TargetInv, abp
        <5>3. CASE tip = Me.mostWork /\ Me'.mostWork = Me.mostWork /\ Me'.pc = "flush"
          BY <4>1, <5>1, <5>3, Zenon DEF TargetInv, abp
        <5>4. CASE Me' = Idle /\ phase' = phase /\ tip = Me.mostWork
          BY <4>1, <5>1, <5>4, IdleType, Zenon DEF TargetInv, abp
        <5>5. CASE phase' # "running" /\ Me'.pc \in {"flush", "idle"}
          BY <5>5, Zenon DEF TargetInv
        <5> QED BY <4>1, <4>3, <5>2, <5>3, <5>4, <5>5, IdleType, Zenon
      <4>4. CASE Me.pc \in {"begin", "step", "end", "again", "relock"} /\ Me.mostWork = None
        BY <4>1, <4>4, IdleType, Zenon DEF TargetInv
      <4>5. CASE Me.pc \in {"abc", "lock"} /\ Me.mostWork = None
        <5>1. phase = "running" /\ tip # None => Above(Missing', nSequenceId', tip)
          BY <3>2, <4>5 DEF TargetInv
        <5> QED BY <4>1, <4>5, <5>1, IdleType, Zenon DEF TargetInv
      <4>6. CASE Me.pc \notin {"begin", "step", "end", "again", "relock", "abc", "lock"}
        BY <4>1, <4>6, IdleType, Zenon DEF TargetInv
      <4>7. Me.pc \in {"abc", "lock"} => Me.mostWork = None
        BY DEF TargetInv
      <4> QED BY <4>3, <4>4, <4>5, <4>6, <4>7
    <3> QED BY <2>5, <3>4, <3>5, <3>6, <3>7, Zenon DEF Step
  <2>6. ASSUME NEW b \in Blocks, NEW t \in Threads, NEW fRequested,
               \/ ProcessNewBlockHeaders(b) \/ SkipBlock(t, b, fRequested) \/ RejectBlock(t, b, fRequested)
        PROVE  TargetInv'
    <3>1. /\ UNCHANGED <<linked, nSequenceId, candidates, tip, phase>>
          /\ UNCHANGED threads \/ (threads[t] = Idle /\ threads' = [threads EXCEPT ![t] = AtLoop])
      BY <2>0, <2>6, HeaderEffect, Zenon
    <3>2. \A x \in Blocks : nStatus[x] \subseteq nStatus'[x]
      <4>1. CauseInv
        BY DEF IndexInv
      <4>2. Grows
        BY <2>0, <2>6, <4>1, ReceiveGrows, Zenon
      <4> QED BY <4>2 DEF Grows
    <3>3. Missing' \subseteq Missing
      BY <2>1, <3>1, <3>2, <1>FewerMissing, Zenon
    <3>4. CASE UNCHANGED threads
      BY <3>1, <3>3, <3>4, <1>TargetSame
    <3>5. CASE threads[t] = Idle /\ threads' = [threads EXCEPT ![t] = AtLoop]
      <4>1. Me = Idle /\ Me' = AtLoop
        BY <2>1, <3>5, Zenon DEF Me
      <4>2. \A x : Above(Missing, nSequenceId, x) => Above(Missing', nSequenceId', x)
        BY <3>1, <3>3, <1>AimStep
      <4> QED BY <3>1, <4>1, <4>2, IdleType, Zenon DEF TargetInv
    <3> QED BY <3>1, <3>4, <3>5
  <2>7. ASSUME NEW b \in Blocks, NEW t \in Threads, NEW fRequested, AcceptBlock(t, b, fRequested) PROVE TargetInv'
    <3>1. /\ tip \in linked /\ tip' = tip
          /\ \A x \in linked : nSequenceId'[x] = nSequenceId[x]
          /\ \A x \in Missing' : x \in Missing \/ WorkLess(nSequenceId', x, tip)
          /\ threads[t] = Idle /\ threads' = [threads EXCEPT ![t] = AtLoop]
      BY <2>2, <2>7, <1>AcceptMissing, Zenon
    <3>2. Me = Idle /\ Me' = AtLoop
      BY <2>1, <3>1 DEF Me
    <3>3. phase' = phase /\ tip # None
      BY <2>7, Zenon DEF AcceptBlock, Serving
    <3>4. ASSUME phase = "running", NEW x \in Missing' PROVE WorkLess(nSequenceId', x, tip)
      <4>1. CASE x \in Missing
        <5>1. WorkLess(nSequenceId, x, tip)
          BY <3>2, <3>3, <3>4, <4>1, IdleType DEF TargetInv, Above
        <5> QED BY <2>2, <3>1, <4>1, <5>1, SameOrder, Zenon
      <4> QED BY <3>1, <4>1
    <3> QED BY <3>1, <3>2, <3>3, <3>4, IdleType, Zenon DEF TargetInv, Above
  <2>8. CASE FlushCoins \/ PruneBlockFilesManual \/ StartShutdown \/ UNCHANGED vars
    <3>1. UNCHANGED <<nStatus, linked, nSequenceId, candidates, tip, threads>> /\ phase' \in {phase, "stopping"}
      BY <2>8, ProcessEffect, Zenon
    <3>2. Missing' \subseteq Missing
      BY <2>1, <3>1, <1>FewerMissing
    <3> QED BY <3>1, <3>2, <1>TargetSame
  <2>9. CASE Shutdown \/ Crash \/ AssertFails
    <3>1. phase' = "down" /\ Me' = Idle
      BY <2>9, ProcessAssumption DEF Shutdown, Crash, AssertFails, MemoryLost, Me
    <3>2. Me'.pc = "idle" /\ phase' # "running"
      BY <3>1, IdleType
    <3> QED BY <3>2, Zenon DEF TargetInv
  <2>10. CASE Restart
    <3>1. /\ tip' = diskCoins
          /\ \A x \in Missing' : diskCoins # None /\ WorkLess(nSequenceId', x, diskCoins)
          /\ threads' = [threads EXCEPT ![ImportThread] = AtLoop]
      BY <2>10, <1>RestartMissing
    <3>2. Me' = AtLoop
      BY <2>1, <3>1, ProcessAssumption DEF Me
    <3>3. Me'.pc = "abc" /\ Me'.mostWork = None
      BY <3>2, IdleType
    <3>4. Above(Missing', nSequenceId', tip')
      BY <3>1 DEF Above
    <3> QED BY <3>3, <3>4, Zenon DEF TargetInv
  <2>11. ASSUME NEW t, NEW b, InvalidateBlock(t, b) \/ ResetBlockFailureFlags(t, b) \/ PreciousBlock(t, b)
        PROVE  FALSE
    BY <2>11 DEF InvalidateBlock, ResetBlockFailureFlags, PreciousBlock, Command
  <2>12. \A t \in Threads : t = ImportThread
    OBVIOUS
  <2>13. ASSUME NEW t \in Threads, Step(t) PROVE TargetInv'
    BY <2>3, <2>4, <2>5, <2>12, <2>13, Zenon
  <2>14. ASSUME NEW b \in Blocks, ProcessNewBlockHeaders(b) PROVE TargetInv'
    BY <2>6, <2>14, ProcessAssumption, Zenon
  <2> QED BY <2>6, <2>7, <2>8, <2>9, <2>10, <2>11, <2>13, <2>14, Zenon DEF Next, Operate

<1> SUFFICES ASSUME ~PruneMode, ~DiskMayFail, Commands = {}, Threads = {ImportThread}, AloneInv, [Next]_vars
             PROVE  AloneInv'
  OBVIOUS
<1>1. IndexInv /\ CandidateInv /\ TargetInv
  BY DEF AloneInv
<1> QED BY <1>1, IndexNext, <1>CandidateNext, <1>TargetNext DEF AloneInv

LEMMA AloneRight ==
    AloneInv => CandidatesRight /\ BestChainActivated

\* In a quiet state the thread is in none of its critical sections.
<1>QuietPlace.
    ASSUME TypeInv, Quiet
    PROVE  Me.pc \in {"idle", "abc", "lock", "flush"} /\ phase = "running" /\ tip # None
  <2> USE <1>QuietPlace
  <2>1. /\ csMain = NoThread /\ phase = "running" /\ tip # None
        /\ \A t \in Threads : threads[t].pc \notin {"again", "relock"}
    BY DEF Quiet, Visible
  <2>2. ImportThread \in Threads /\ csMain # ImportThread
    BY <2>1, ProcessAssumption
  <2>3. threads[ImportThread] \in Thread /\ threads[ImportThread].pc \notin CriticalSection
    BY <2>2, TypeSplit DEF TypeInv, ThreadOK, LockOK
  <2>4. Me.pc \in Places /\ Me.pc \notin CriticalSection /\ Me.pc \notin {"again", "relock"}
    BY <2>1, <2>2, <2>3 DEF Me, Thread
  <2> QED BY <2>1, <2>4 DEF Places

<1> SUFFICES ASSUME AloneInv
             PROVE  CandidatesRight /\ BestChainActivated
  BY Zenon
<1>0. IndexInv /\ CandidateInv /\ TargetInv /\ TypeInv /\ Sound(nStatus) /\ candidates \subseteq linked
  BY DEF AloneInv, IndexInv, ChoiceInv, GoodInv, LinkedInv
<1>1. /\ linked \subseteq Blocks /\ nSequenceId \in [Blocks -> Int] /\ tip \in Blocks \cup {None}
      /\ \A b \in Blocks : b \in linked <=> Processed(b)
  BY <1>0, TypeSplit, Zenon DEF TypeInv, IndexOK, OrderOK, ChainOK, MaybeBlock, IndexInv, WaitInv
<1>2. ASSUME Quiet, NEW b \in linked \ candidates, ~Tainted(b) PROVE WorkLess(nSequenceId, b, tip)
  BY <1>0, <1>2, <1>QuietPlace DEF TargetInv, Above, Missing
<1>3. ASSUME Quiet, NEW b \in candidates PROVE ~WorkLess(nSequenceId, b, tip) /\ Processed(b)
  BY <1>0, <1>1, <1>3, <1>QuietPlace DEF CandidateInv
<1>4. CandidatesRight
  <2> SUFFICES ASSUME Quiet, NEW b \in Blocks
               PROVE  IF Processed(b) /\ ~WorkLess(nSequenceId, b, tip)
                      THEN ~Tainted(b) /\ (Complete(b) \/ b = tip) => b \in candidates
                      ELSE b \notin candidates
    BY Zenon DEF CandidatesRight, Known
  <2> QED BY <1>1, <1>2, <1>3
<1>5. BestChainActivated
  <2> SUFFICES ASSUME Quiet, \A t \in Threads : threads[t] = Idle, NEW b \in Blocks,
                      Complete(b), \A a \in Ancestors[b] : ~Failed(nStatus, a)
               PROVE  ~WorkLess(nSequenceId, tip, b)
    BY Zenon DEF BestChainActivated, NothingBetter, Known
  <2>1. tip \in Blocks /\ tip # None /\ phase = "running"
    BY <1>0, <1>1, <1>QuietPlace
  <2>2. Best(candidates, nSequenceId, tip)
    BY <1>0, <2>1, IdleType, ProcessAssumption, Zenon DEF TargetInv, Me
  <2>3. Processed(b)
    BY <1>0, SelfAncestor, Zenon DEF Complete, Processed, Sound
  <2>4. b \in linked /\ ~Tainted(b)
    BY <1>1, <2>3 DEF Tainted, Failed, FailedMask
  <2>5. CASE b \in candidates
    BY <2>2, <2>5 DEF Best
  <2>6. CASE b \notin candidates
    BY <1>1, <1>2, <2>1, <2>4, <2>6, WorkOrder, Zenon
  <2> QED BY <2>5, <2>6, Zenon
<1> QED BY <1>4, <1>5

\* Everything that CheckBlockIndex asserts, on a node whose validation is run by one
\* thread and that does not prune, whose disk works and that gets no commands, for every
\* tree of blocks, every order of arrival, and any crashes: no block that could replace the
\* tip is ever lost from setBlockIndexCandidates.  With a second thread it
\* is false, because ActivateBestChain goes on with a target chosen before.
THEOREM AloneBlockIndex ==
    ~PruneMode /\ ~DiskMayFail /\ Commands = {} /\ Threads = {ImportThread} => (Spec => []CheckBlockIndex)
<1> SUFFICES ASSUME ~PruneMode, ~DiskMayFail, Commands = {}, Threads = {ImportThread}
             PROVE  Spec => []CheckBlockIndex
  OBVIOUS
<1>1. AloneInv /\ [Next]_vars => AloneInv'
  BY AloneNext
<1>2. AloneInv => CheckBlockIndex
  BY AloneRight, IndexRight DEF AloneInv, CheckBlockIndex
<1> QED BY <1>1, <1>2, AloneInit, PTL DEF Spec

\* "The result is either failure or an activated best chain" (ActivateBestChain), under
\* the same conditions: when the thread has returned no complete chain free of
\* failures is better than the active one.
THEOREM AloneBestChain ==
    ~PruneMode /\ ~DiskMayFail /\ Commands = {} /\ Threads = {ImportThread} => (Spec => []BestChainActivated)
<1> SUFFICES ASSUME ~PruneMode, ~DiskMayFail, Commands = {}, Threads = {ImportThread}
             PROVE  Spec => []BestChainActivated
  OBVIOUS
<1>1. AloneInv /\ [Next]_vars => AloneInv'
  BY AloneNext
<1>2. AloneInv => BestChainActivated
  BY AloneRight
<1> QED BY <1>1, <1>2, AloneInit, PTL DEF Spec

================================================================================
