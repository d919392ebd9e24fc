------------------------------ MODULE BlockDownload ------------------------------
(* Downloading blocks from peers (net_processing.cpp): what the node records of   *)
(* each peer (CNodeState), the blocks it has asked for (mapBlocksInFlight and the  *)
(* peers' own lists), and the handlers that change them.  The message handler      *)
(* thread runs one handler at a time; ProcessNewBlock is called without cs_main,   *)
(* so the socket thread's FinalizeNode and the submitblock RPC interleave with it. *)
(* Blocks are valid and nothing is pruned; work is height.                         *)
EXTENDS Integers, Sequences, FiniteSets, Functions

CONSTANTS Peer, NoPeer, Block, Genesis, NoBlock,
          Prev,          \* Prev[b]: b's parent
          Height,        \* Height[b]
          Tips,          \* Tips[p]: the blocks p announces, as its chain grows
          Outbound,      \* the peers the node connected to itself
          Prompt,        \* the peers that stay, and answer before any timeout
          Submitted,     \* the blocks the submitblock RPC may bring
          Window,        \* BLOCK_DOWNLOAD_WINDOW
          MaxInTransit,  \* MAX_BLOCKS_IN_TRANSIT_PER_PEER
          CompactDepth,  \* how far above the tip a compact block is put together (2)
          RecentHeight   \* the height from which the tip counts as recent

Tree == Block \cup {Genesis}

ASSUME TreeAssumption ==
  /\ Genesis \notin Block /\ NoBlock \notin Tree /\ NoPeer \notin Peer
  /\ Prev \in [Block -> Tree]
  /\ Height \in [Tree -> Nat] /\ Height[Genesis] = 0
  /\ \A b \in Block : Height[b] = Height[Prev[b]] + 1

ASSUME PeerAssumption ==
  /\ IsFiniteSet(Peer)
  /\ Tips \in [Peer -> SUBSET Block]
  /\ Outbound \subseteq Peer /\ Prompt \subseteq Peer /\ Submitted \subseteq Block
  /\ {Window, MaxInTransit, CompactDepth} \subseteq Nat \ {0} /\ RecentHeight \in Nat

VARIABLES
  net,      \* what cs_main guards in net_processing.cpp
  index,    \* the blocks with an entry in mapBlockIndex
  have,     \* the blocks with BLOCK_HAVE_DATA
  tip,      \* chainActive.Tip()
  handler,  \* the block the message handler is passing to ProcessNewBlock
  rpc,      \* TRUE while the submitblock RPC has yet to activate its block
  getheaders  \* the prompt peers with a getheaders to answer
vars == <<net, index, have, tip, handler, rpc, getheaders>>

Idle == [at |-> "idle", peer |-> NoPeer]
(* FillBlock was called a second time: its assertion has ended the process.         *)
Aborted == [at |-> "aborted", peer |-> NoPeer]
NotInFlight == [peer |-> NoPeer, partial |-> "none", asked |-> "nothing"]
NewNode == [conn |-> "none", preferred |-> FALSE, sync |-> FALSE, best |-> NoBlock,
            unknown |-> NoBlock, common |-> NoBlock, queue |-> <<>>, count |-> 0,
            stalling |-> FALSE]

HasState(n, p) == n.node[p].conn \in {"init", "up", "closing"}

-----------------------------------------------------------------------------------
(* The block tree.                                                                 *)

Chain == [b \in Tree |->
            LET back[h \in 0 .. Height[b]] == IF h = 0 THEN b ELSE Prev[back[h - 1]]
            IN  {back[h] : h \in 0 .. Height[b]}]
Best(S) == {b \in S : \A c \in S : Height[c] <= Height[b]}
LastCommonAncestor ==
  [a \in Tree |-> [b \in Tree |-> CHOOSE c \in Best(Chain[a] \cap Chain[b]) : TRUE]]
Linked(b, S) == Chain[b] \subseteq S
(* The blocks of S, which are on one chain, from the lowest to the highest.        *)
ByHeight ==
  [S \in SUBSET Tree |->
     [k \in 1 .. Cardinality(S) |->
        CHOOSE b \in S : Cardinality({c \in S : Height[c] <= Height[b]}) = k]]
Recent == Height[tip] >= RecentHeight

-----------------------------------------------------------------------------------
(* Bookkeeping: MarkBlockAsReceived, MarkBlockAsInFlight, block availability.      *)

(* vBlocksInFlight.erase: b's own entry of the list goes.                          *)
Erase(q, b) ==
  LET i == CHOOSE i \in DOMAIN q : q[i] = b
  IN  SubSeq(q, 1, i - 1) \o SubSeq(q, i + 1, Len(q))

(* Mutant: the count of peers with a download in progress is not lowered.          *)
MarkBlockAsReceivedKeepsPeer(n, b) ==
  LET p == n.inFlight[b].peer
  IN  IF p = NoPeer THEN n
      ELSE [n EXCEPT !.node[p].queue = Erase(@, b),
                     !.node[p].count = @ - 1,
                     !.node[p].stalling = FALSE,
                     !.inFlight[b] = NotInFlight]

(* Mutant: the accusation of stalling is not withdrawn.                            *)
MarkBlockAsReceivedStillStalling(n, b) ==
  LET p == n.inFlight[b].peer
      left == n.node[p].count - 1
  IN  IF p = NoPeer THEN n
      ELSE [n EXCEPT !.node[p].queue = Erase(@, b),
                     !.node[p].count = left,
                     !.inFlight[b] = NotInFlight,
                     !.downloading = IF left = 0 THEN @ - 1 ELSE @]

MarkBlockAsReceived(n, b) ==
  LET p == n.inFlight[b].peer
      left == n.node[p].count - 1
  IN  IF p = NoPeer THEN n
      ELSE IF ~HasState(n, p) THEN [n EXCEPT !.broken = TRUE]
      ELSE [n EXCEPT !.node[p].queue = Erase(@, b),
                     !.node[p].count = left,
                     !.node[p].stalling = FALSE,
                     !.inFlight[b] = NotInFlight,
                     !.downloading = IF left = 0 THEN @ - 1 ELSE @]

MarkBlockAsInFlight(n, p, b, entry) ==
  LET m == MarkBlockAsReceived(n, b)
  IN  [m EXCEPT !.node[p].queue = Append(@, b),
                !.node[p].count = @ + 1,
                !.inFlight[b] = entry,
                !.downloading = IF m.node[p].count = 0 THEN @ + 1 ELSE @]

(* MarkBlockAsInFlight with no pit: a block already in flight from the same peer   *)
(* makes it write through the null pointer.                                        *)
RequestBlock(n, p, b, kind) ==
  IF n.inFlight[b].peer = p THEN [n EXCEPT !.broken = TRUE]
  ELSE MarkBlockAsInFlight(n, p, b, [peer |-> p, partial |-> "none", asked |-> kind])

RequestBlocks(n, p, bs, kind) ==
  LET after[i \in 0 .. Len(bs)] ==
        IF i = 0 THEN n ELSE RequestBlock(after[i - 1], p, bs[i], kind)
  IN  after[Len(bs)]

(* Mutant: the first block a peer is known to have is not recorded.                *)
BetterThanKnown(old, b) == IF old # NoBlock /\ Height[b] >= Height[old] THEN b ELSE old

Better(old, b) == IF old = NoBlock \/ Height[b] >= Height[old] THEN b ELSE old

ProcessBlockAvailability(n, p, known) ==
  IF n.node[p].unknown \in known
  THEN [n EXCEPT !.node[p].best = Better(@, n.node[p].unknown),
                 !.node[p].unknown = NoBlock]
  ELSE n

UpdateBlockAvailability(n, p, b, known) ==
  LET m == ProcessBlockAvailability(n, p, known)
  IN  IF b \in known THEN [m EXCEPT !.node[p].best = Better(@, b)]
      ELSE [m EXCEPT !.node[p].unknown = b]

Misbehaving(n, p) == [n EXCEPT !.node[p].conn = "closing"]

(* "getdata" for a block that may be in flight from this peer or from another.     *)
AskAgain(n, p, b) ==
  IF n.inFlight[b].peer = p THEN [n EXCEPT !.inFlight[b].asked = "block"] ELSE n

-----------------------------------------------------------------------------------
(* FindNextBlocksToDownload: the blocks to ask p for, at most count, and the peer  *)
(* whose block in flight keeps the download window from moving.  The walk goes     *)
(* from the last common block towards the best block p is known to have, one       *)
(* block past the window at most.                                                  *)

Least(i, j) == IF i < j THEN i ELSE j

(* Mutant: a block in flight is asked for again.                                   *)
WantedTwice(n, b) == b \notin have

Wanted(n, b) == b \notin have /\ n.inFlight[b].peer = NoPeer

FindNextBlocksToDownload(n, p, count) ==
  LET s == n.node[p]
      guess == IF s.common = NoBlock
               THEN CHOOSE b \in Chain[tip] : Height[b] = Least(Height[s.best], Height[tip])
               ELSE s.common
      common == LastCommonAncestor[guess][s.best]
      windowEnd == Height[common] + Window
      walk == {b \in Chain[s.best] : Height[common] < Height[b] /\ Height[b] <= windowEnd + 1}
      wanted == {b \in walk : Wanted(n, b)}
      inWindow == {b \in wanted : Height[b] <= windowEnd}
      inFlight == {b \in walk : b \notin have /\ n.inFlight[b].peer # NoPeer}
      waitingfor == IF inFlight = {} THEN NoPeer ELSE n.inFlight[ByHeight[inFlight][1]].peer
      linked == {b \in walk : Linked(b, have)} \cup {common}
  IN  IF s.best = NoBlock THEN [common |-> s.common, blocks |-> <<>>, staller |-> NoPeer]
      ELSE IF Height[s.best] < Height[tip]
      THEN [common |-> s.common, blocks |-> <<>>, staller |-> NoPeer]
      ELSE [common |-> CHOOSE b \in Best(linked) : TRUE,
            blocks |-> SubSeq(ByHeight[inWindow], 1, Least(count, Cardinality(inWindow))),
            staller |-> IF inWindow = {} /\ wanted # {} /\ waitingfor # p
                        THEN waitingfor ELSE NoPeer]

-----------------------------------------------------------------------------------
(* Direct fetch at the end of the headers handler.                                 *)

(* The walk back from b collects at most MaxInTransit + 1 missing blocks; if it    *)
(* then still is off the active chain, the branch is left to parallel download.    *)
DirectFetchBlocks(n, b) ==
  LET off == Chain[b] \ Chain[tip]
      missing == ByHeight[{c \in off : Wanted(n, c)}]
      extra == Len(missing) - (MaxInTransit + 1)
      below == {c \in off : Height[c] < Height[missing[1]]}
  IN  IF extra > 0 \/ (extra = 0 /\ below # {}) THEN <<>> ELSE missing

DirectFetch(n, p, b) ==
  LET wanted == DirectFetchBlocks(n, b)
      room == MaxInTransit - n.node[p].count
      bs == SubSeq(wanted, 1, Least(Len(wanted), room))
      m == RequestBlocks(n, p, bs, "block")
  IN  IF ~Recent \/ Height[tip] > Height[b] THEN {n}
      ELSE {m} \cup
           (IF Len(bs) = 1 /\ Cardinality({c \in Block : m.inFlight[c].peer # NoPeer}) = 1
            THEN {[m EXCEPT !.inFlight[bs[1]].asked = "cmpct"]} ELSE {})

ProcessHeaders(p, b, known) ==
  \E n \in {UpdateBlockAvailability(net, p, b, known)} : net' \in DirectFetch(n, p, b)

-----------------------------------------------------------------------------------
(* Peers come and go.                                                              *)

CanHandle(p) == handler = Idle /\ net.node[p].conn = "up"

AskHeaders(p) == getheaders \cup ({p} \cap Prompt)

(* InitializeNode *)
Connect(p) ==
  /\ handler # Aborted
  /\ net.node[p].conn = "none"
  /\ net' = [net EXCEPT !.node[p].conn = "init"]
  /\ UNCHANGED <<index, have, tip, handler, rpc, getheaders>>

(* The VERSION message: UpdatePreferredDownload.                                   *)
Version(p) ==
  /\ handler = Idle
  /\ net.node[p].conn = "init"
  /\ LET pref == p \in Outbound
     IN  net' = [net EXCEPT !.node[p].conn = "up", !.node[p].preferred = pref,
                            !.nPreferredDownload = IF pref THEN @ + 1 ELSE @]
  /\ UNCHANGED <<index, have, tip, handler, rpc, getheaders>>

(* The peer closes the connection, or the user disconnects it.                     *)
Close(p) ==
  /\ handler # Aborted
  /\ p \notin Prompt
  /\ net.node[p].conn \in {"init", "up"}
  /\ net' = [net EXCEPT !.node[p].conn = "closing"]
  /\ UNCHANGED <<index, have, tip, handler, rpc, getheaders>>

One(c) == IF c THEN 1 ELSE 0

(* FinalizeNode, called by the socket thread once no thread holds a reference.     *)
Finalized(n, p) ==
  LET s == n.node[p]
      left == {q \in Peer \ {p} : HasState(n, q)}
      m == [n EXCEPT
              !.node[p] = [NewNode EXCEPT !.conn = "gone"],
              !.inFlight = [b \in Block |-> IF \E i \in DOMAIN s.queue : s.queue[i] = b
                                            THEN NotInFlight ELSE @[b]],
              !.nSyncStarted = @ - One(s.sync),
              !.nPreferredDownload = @ - One(s.preferred),
              !.downloading = @ - One(s.count # 0)]
      asserted == /\ m.downloading >= 0
                  /\ left = {} => /\ \A b \in Block : m.inFlight[b].peer = NoPeer
                                  /\ m.nPreferredDownload = 0
                                  /\ m.downloading = 0
  IN  [m EXCEPT !.broken = @ \/ ~asserted]

FinalizeNode(p) ==
  /\ handler # Aborted
  /\ net.node[p].conn = "closing"
  /\ handler.peer # p
  /\ net' = Finalized(net, p)
  /\ getheaders' = getheaders \ {p}
  /\ UNCHANGED <<index, have, tip, handler, rpc>>

-----------------------------------------------------------------------------------
(* Announcements.                                                                  *)

(* INV of a block, or HEADERS that do not connect: the headers up to a block that   *)
(* is not in the index are asked for.                                              *)
Announce(p, b) ==
  /\ CanHandle(p)
  /\ b \in Tips[p]
  /\ net' = UpdateBlockAvailability(net, p, b, index)
  /\ getheaders' = IF b \in index THEN getheaders ELSE AskHeaders(p)
  /\ UNCHANGED <<index, have, tip, handler, rpc>>

(* CMPCTBLOCK that does not connect.  During the initial download it is ignored.    *)
CompactUnconnected(p, b) ==
  /\ CanHandle(p)
  /\ b \in Tips[p] /\ Prev[b] \notin index
  /\ getheaders' = AskHeaders(p)
  /\ UNCHANGED <<net, index, have, tip, handler, rpc>>

(* HEADERS up to b that connect to a block the node knows.  Those up to the end of  *)
(* p's chain are what a getheaders asks for.                                       *)
Headers(p, b) ==
  /\ CanHandle(p)
  /\ b \in Tips[p]
  /\ index' = index \cup Chain[b]
  /\ ProcessHeaders(p, b, index')
  /\ getheaders' = IF b \in Best(Tips[p]) THEN getheaders \ {p} ELSE getheaders
  /\ UNCHANGED <<have, tip, handler, rpc>>

-----------------------------------------------------------------------------------
(* Blocks arrive.                                                                  *)

Process(p, b, force, clear) ==
  handler' = [at |-> "accept", peer |-> p, block |-> b, force |-> force, clear |-> clear]

(* BLOCK *)
ReceiveBlock(p, b) ==
  /\ CanHandle(p)
  /\ p \in Prompt => net.inFlight[b].peer = p
  /\ \E t \in Tips[p] : b \in Chain[t]
  /\ net' = MarkBlockAsReceived(net, b)
  /\ Process(p, b, net.inFlight[b].peer # NoPeer, FALSE)
  /\ UNCHANGED <<index, have, tip, rpc, getheaders>>

(* A compact block whose download p holds is put together: the peer is dropped if   *)
(* the transactions do not fit, and asked for the whole block if they do not give   *)
(* it.  The partial block is empty then, but stays with the entry.                  *)
FillBlock(n, p, b, status) ==
  \/ /\ status = "invalid" /\ p \notin Prompt
     /\ net' = Misbehaving(MarkBlockAsReceived(n, b), p)
     /\ UNCHANGED handler
  \/ /\ status = "failed"
     /\ net' = [n EXCEPT !.inFlight[b].asked = "block", !.inFlight[b].partial = "filled"]
     /\ UNCHANGED handler
  \/ /\ status = "read"
     /\ net' = MarkBlockAsReceived(n, b)
     /\ Process(p, b, TRUE, FALSE)

(* CMPCTBLOCK, an announcement or an answer.  A block that p may deliver is put     *)
(* together at once, waits for missing transactions, or is asked for as a whole     *)
(* because InitData gives up.                                                      *)
CompactBlock(p, b, status) ==
  /\ CanHandle(p)
  /\ \/ b \in Tips[p]
     \/ net.inFlight[b].peer = p /\ net.inFlight[b].asked = "cmpct"
  /\ Prev[b] \in index
  /\ index' = index \cup {b}
  /\ \E n \in {UpdateBlockAvailability(net, p, b, index')} :
     LET holder == n.inFlight[b].peer
         stop == net' = n /\ UNCHANGED handler
         again == net' = AskAgain(n, p, b) /\ UNCHANGED handler
         mine == \/ holder = NoPeer /\ n.node[p].count < MaxInTransit
                 \/ holder = p
         entry == [peer |-> p, partial |-> "open", asked |-> "nothing"]
         m == IF holder = p THEN [n EXCEPT !.inFlight[b].partial = "open"]
              ELSE MarkBlockAsInFlight(n, p, b, entry)
         answered == /\ net' = IF holder = p /\ n.inFlight[b].asked = "cmpct"
                               THEN [n EXCEPT !.inFlight[b].asked = "nothing"] ELSE n
                     /\ UNCHANGED handler
     IN  IF b \in have THEN answered
         ELSE IF Height[b] <= Height[tip] THEN again
         ELSE IF holder = NoPeer /\ ~Recent THEN stop
         ELSE IF Height[b] > Height[tip] + CompactDepth
         THEN IF holder # NoPeer THEN again
              ELSE ProcessHeaders(p, b, index') /\ UNCHANGED handler
         ELSE IF mine
         THEN IF holder = p /\ n.inFlight[b].partial # "none" THEN stop
              ELSE \/ FillBlock(m, p, b, status)
                   \/ /\ status = "need"
                      /\ net' = [m EXCEPT !.inFlight[b].asked = "txn"]
                      /\ UNCHANGED handler
                   \/ /\ status = "failed"
                      /\ net' = [m EXCEPT !.inFlight[b].asked = "block"]
                      /\ UNCHANGED handler
         ELSE \/ status = "failed" /\ stop
              \/ /\ status = "read"
                 /\ net' = n
                 /\ Process(p, b, TRUE, TRUE)
  /\ UNCHANGED <<have, tip, rpc, getheaders>>

(* BLOCKTXN for a block that is in flight from p with a partial block, asked for or  *)
(* not.  FillBlock asserts that the partial block was not emptied before.            *)
BlockTxn(p, b, status) ==
  /\ CanHandle(p)
  /\ net.inFlight[b].peer = p /\ net.inFlight[b].partial # "none"
  /\ p \in Prompt => net.inFlight[b].asked = "txn"
  /\ IF net.inFlight[b].partial = "filled"
     THEN handler' = Aborted /\ UNCHANGED net
     ELSE FillBlock(net, p, b, status)
  /\ UNCHANGED <<index, have, tip, rpc, getheaders>>

-----------------------------------------------------------------------------------
(* ProcessNewBlock, called without cs_main.                                        *)

Stored(b, force) == Prev[b] \in index /\ (force \/ Height[b] > Height[tip])

AcceptBlock(b, force) ==
  /\ index' = IF Prev[b] \in index THEN index \cup {b} ELSE index
  /\ have' = IF Stored(b, force) THEN have \cup {b} ELSE have

(* The most-work chain whose blocks are all present; a tie keeps the tip.          *)
BestTips(S) ==
  LET linked == {b \in S : Linked(b, S)}
  IN  {b \in Best(linked) : Height[b] > Height[tip]}

Activate ==
  IF BestTips(have) = {} THEN UNCHANGED tip ELSE tip' \in BestTips(have)

AfterProcess == IF handler.clear THEN [handler EXCEPT !.at = "clear"] ELSE Idle

(* A block whose parent is unknown is refused, and nothing is activated.           *)
HandlerAccept ==
  /\ handler.at = "accept"
  /\ AcceptBlock(handler.block, handler.force)
  /\ handler' = IF Prev[handler.block] \in index
                THEN [handler EXCEPT !.at = "activate"] ELSE AfterProcess
  /\ UNCHANGED <<net, tip, rpc, getheaders>>

HandlerActivate ==
  /\ handler.at = "activate"
  /\ Activate
  /\ handler' = AfterProcess
  /\ UNCHANGED <<net, index, have, rpc, getheaders>>

(* After a compact block was put together out of turn.                             *)
HandlerClear ==
  /\ handler.at = "clear"
  /\ net' = IF handler.block \in have THEN MarkBlockAsReceived(net, handler.block) ELSE net
  /\ handler' = Idle
  /\ UNCHANGED <<index, have, tip, rpc, getheaders>>

(* The submitblock RPC stores a block whether or not it is in flight, and then     *)
(* activates the best chain.                                                       *)
SubmitBlock(b) ==
  /\ ~rpc /\ handler # Aborted
  /\ b \in Submitted \ have
  /\ AcceptBlock(b, TRUE)
  /\ rpc' = (Prev[b] \in index)
  /\ UNCHANGED <<net, tip, handler, getheaders>>

SubmitActivate ==
  /\ rpc /\ handler # Aborted
  /\ Activate
  /\ rpc' = FALSE
  /\ UNCHANGED <<net, index, have, handler, getheaders>>

-----------------------------------------------------------------------------------
(* SendMessages                                                                    *)

(* One peer is asked for its headers, a preferred one if there is any; near the tip  *)
(* every peer is.  Whoever was asked keeps the place until it leaves.                *)
StartsSync(n, p) ==
  LET fetch == n.node[p].preferred \/ n.nPreferredDownload = 0
      recentHeader == \E b \in index : Height[b] >= RecentHeight
  IN  ~n.node[p].sync /\ ((n.nSyncStarted = 0 /\ fetch) \/ recentHeader)

SyncStart(n, p) ==
  IF StartsSync(n, p) THEN [n EXCEPT !.node[p].sync = TRUE, !.nSyncStarted = @ + 1] ELSE n

AskedHeaders(p) == IF StartsSync(net, p) THEN AskHeaders(p) ELSE getheaders

AccuseStaller(n, p, staller) ==
  IF n.node[p].count # 0 \/ staller = NoPeer THEN n
  ELSE IF HasState(n, staller) THEN [n EXCEPT !.node[staller].stalling = TRUE]
  ELSE [n EXCEPT !.broken = TRUE]

RequestDownload(n, p, found) ==
  AccuseStaller(RequestBlocks([n EXCEPT !.node[p].common = found.common], p,
                              found.blocks, "block"),
                p, found.staller)

SendMessages(p) ==
  /\ CanHandle(p)
  /\ \E n \in {SyncStart(net, p)} :
       LET room == MaxInTransit - n.node[p].count
           fetch == n.node[p].preferred \/ n.nPreferredDownload = 0
       IN  IF room > 0 /\ (fetch \/ Recent)
           THEN \E m \in {ProcessBlockAvailability(n, p, index)} :
                  \E found \in {FindNextBlocksToDownload(m, p, room)} :
                    net' = RequestDownload(m, p, found)
           ELSE net' = n
  /\ getheaders' = AskedHeaders(p)
  /\ UNCHANGED <<index, have, tip, handler, rpc>>

(* SendMessages finds that the peer has stalled the window for too long, or that   *)
(* its first block in flight is overdue.                                           *)
Timeout(p) ==
  /\ CanHandle(p)
  /\ p \in Prompt => \E b \in Block : net.inFlight[b].peer = p /\ net.inFlight[b].asked = "nothing"
  /\ net.node[p].stalling \/ net.node[p].queue # <<>>
  /\ net' = [SyncStart(net, p) EXCEPT !.node[p].conn = "closing"]
  /\ getheaders' = AskedHeaders(p)
  /\ UNCHANGED <<index, have, tip, handler, rpc>>

-----------------------------------------------------------------------------------
Init ==
  /\ net = [node |-> [p \in Peer |-> NewNode],
            inFlight |-> [b \in Block |-> NotInFlight],
            downloading |-> 0, nPreferredDownload |-> 0, nSyncStarted |-> 0,
            broken |-> FALSE]
  /\ index = {Genesis} /\ have = {Genesis} /\ tip = Genesis
  /\ handler = Idle /\ rpc = FALSE /\ getheaders = {}

HandlerStep == HandlerAccept \/ HandlerActivate \/ HandlerClear

Next ==
  \/ \E p \in Peer :
       \/ Connect(p) \/ Version(p) \/ Close(p) \/ FinalizeNode(p)
       \/ SendMessages(p) \/ Timeout(p)
       \/ \E b \in Block :
            \/ Announce(p, b) \/ CompactUnconnected(p, b) \/ Headers(p, b)
            \/ ReceiveBlock(p, b)
            \/ \E status \in {"invalid", "failed", "need", "read"} :
                 CompactBlock(p, b, status) \/ BlockTxn(p, b, status)
  \/ HandlerStep
  \/ \E b \in Submitted : SubmitBlock(b)
  \/ SubmitActivate

Spec == Init /\ [][Next]_vars

(* A prompt peer's answer to what it was asked.                                    *)
Answer(p, b) ==
  /\ net.inFlight[b].peer = p
  /\ \/ net.inFlight[b].asked = "block" /\ ReceiveBlock(p, b)
     \/ /\ net.inFlight[b].asked = "cmpct"
        /\ \E status \in {"failed", "need", "read"} : CompactBlock(p, b, status)
     \/ \E status \in {"failed", "read"} : BlockTxn(p, b, status)

(* What happens to a connection a bounded number of times.                         *)
Lifecycle ==
  \/ \E p \in Peer : Version(p) \/ FinalizeNode(p) \/ Timeout(p)
  \/ \E p \in Prompt : Connect(p)

(* A call of ProcessNewBlock returns.  The message handler serves its peers in     *)
(* turn, so none waits for ever behind another's messages (strong fairness).  A     *)
(* prompt peer connects, and answers when it is asked for headers or blocks; it     *)
(* need not announce anything.  A peer that does not deliver a block is timed out.   *)
Fairness ==
  /\ WF_vars(HandlerStep \/ SubmitActivate)
  /\ SF_vars(Lifecycle)
  /\ \A p \in Prompt : /\ SF_vars(SendMessages(p))
                       /\ SF_vars(p \in getheaders /\ \E b \in Best(Tips[p]) : Headers(p, b))
                       /\ SF_vars(\E b \in Block : Answer(p, b))

FairSpec == Spec /\ Fairness

-----------------------------------------------------------------------------------
(* Each block in flight is on the list of exactly the peer mapBlocksInFlight       *)
(* names, once, and that peer is still known; the lists' lengths are the counters  *)
(* the handlers keep by hand, and the three global counters count the peers they   *)
(* stand for.  FinalizeNode's assertions and the timeout's allowance for other      *)
(* downloads rest on it.                                                           *)
InFlightConsistent ==
  /\ \A p \in Peer : LET q == net.node[p].queue IN
       /\ net.node[p].count = Len(q)
       /\ Cardinality(Range(q)) = Len(q)
       /\ Range(q) = {b \in Block : net.inFlight[b].peer = p}
       /\ q # <<>> => HasState(net, p)
  /\ net.downloading = Cardinality({p \in Peer : net.node[p].count # 0})
  /\ net.nPreferredDownload = Cardinality({p \in Peer : net.node[p].preferred})
  /\ net.nSyncStarted = Cardinality({p \in Peer : net.node[p].sync})

(* The records of the downloads never let a handler down: no assertion of            *)
(* FinalizeNode fails, no handler looks up the state of a peer that is gone, and    *)
(* MarkBlockAsInFlight is never called without pit for a block already in flight    *)
(* from the same peer.  (The assertion of FillBlock is the subject of FillsOnce.)    *)
RecordsNeverFail == ~net.broken

(* "Make sure we can't call FillBlock again" (blockencodings.cpp): its assertion     *)
(* that the partial block was not emptied before never fails.                       *)
FillsOnce == handler # Aborted

(* A peer is held to be stalling only while a block is in flight from it: the      *)
(* accusation SendMessages makes on behalf of another peer is withdrawn by          *)
(* whatever ends the download, so no peer is disconnected for a block that has      *)
(* already come.                                                                   *)
StallersOweBlocks ==
  \A p \in Peer : net.node[p].stalling => net.node[p].queue # <<>>

(* A prompt peer's best chain becomes active, whatever the other peers announce,     *)
(* withhold or take with them when they leave; provided that the node does not stay   *)
(* without a way to it, with p not known to have it, no getheaders on its way to p    *)
(* and another peer in the place of the one that headers are synced from.             *)
Sought(p) ==
  \/ net.node[p].best \in Best(Tips[p])
  \/ p \in getheaders
  \/ \A q \in Peer \ {p} : ~net.node[q].sync
InSync(p) == \E b \in Best(Tips[p]) : Height[tip] >= Height[b]
SyncCompletes ==
  \A p \in Prompt : []<>Sought(p) => <>(InSync(p) \/ handler = Aborted)
====
