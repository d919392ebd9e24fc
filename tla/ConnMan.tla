------------------------------- MODULE ConnMan -------------------------------
(* One connection between two nodes that both run net.cpp: on each side the      *)
(* CNode object, its send and receive queues with their pause flags, and the two *)
(* threads that use it, the socket handler and the message handler.  The link is *)
(* TCP: in order, reliable, with bounded buffers.  A message is a getdata for     *)
(* Batch blocks ("get") or a block ("item"), of size one; sizes, contents and     *)
(* partly sent messages are abstracted.                                           *)
EXTENDS Integers, Sequences, FiniteSets

CONSTANTS
  Node,       \* the two ends
  LinkSize,   \* how many messages the operating systems buffer in one direction
  SendMax,    \* nSendBufferMaxSize
  Flood,      \* nReceiveFloodSize
  Batch,      \* the blocks one getdata asks for
  Requests,   \* the getdata messages each end sends
  MaxSelectErrors  \* how often select() fails or reports an exceptional condition, by end

ASSUME ConnManAssumption ==
  /\ IsFiniteSet(Node) /\ Cardinality(Node) = 2
  /\ {LinkSize, Batch} \subseteq Nat \ {0}
  /\ {SendMax, Flood, Requests} \subseteq Nat
  /\ MaxSelectErrors \in [Node -> Nat]

VARIABLES
  node,  \* node[n]: n's CNode for the other end
  mh,    \* mh[n]: where n's message handler thread is
  sh,    \* sh[n]: where n's socket handler thread is, and what it selected
  wire   \* wire[n]: the messages n has written that the other end has not read
vars == <<node, mh, sh, wire>>

Other(n) == CHOOSE m \in Node : m # n
One(c) == IF c THEN 1 ELSE 0

(* ------------------------------- Sending ------------------------------------ *)

(* SocketSendData: as many messages as the link takes; the pause flag is set      *)
(* anew only when a message went out.                                             *)
Sendable(c, w) ==
  LET room == LinkSize - Len(w)
  IN  IF ~c.open THEN 0 ELSE IF Len(c.vSendMsg) < room THEN Len(c.vSendMsg) ELSE room

(* Mutant: the pause flag is only ever set.                                       *)
DrainedStaysPaused(c, w) ==
  [c EXCEPT !.vSendMsg = SubSeq(@, Sendable(c, w) + 1, Len(@))]

Drained(c, w) ==
  LET k == Sendable(c, w)
      left == SubSeq(c.vSendMsg, k + 1, Len(c.vSendMsg))
  IN  [c EXCEPT !.vSendMsg = left,
                !.fPauseSend = IF k > 0 THEN Len(left) > SendMax ELSE @]

Written(c, w) == w \o SubSeq(c.vSendMsg, 1, Sendable(c, w))

CloseSocketDisconnect(c) == [c EXCEPT !.fDisconnect = TRUE, !.open = FALSE]

(* PushMessage: the write is attempted at once only if nothing was queued; it     *)
(* fails if the other end has closed.                                             *)
Queued(c, msg) ==
  LET q == Append(c.vSendMsg, msg)
  IN  [c EXCEPT !.vSendMsg = q, !.fPauseSend = @ \/ Len(q) > SendMax]

PushMessage(n, c, msg) ==
  LET q == Queued(c, msg)
  IN  IF c.vSendMsg = <<>> /\ c.open /\ ~node[Other(n)].open
      THEN /\ node' = [node EXCEPT ![n] = CloseSocketDisconnect(q)]
           /\ UNCHANGED wire
      ELSE IF c.vSendMsg = <<>>
      THEN /\ node' = [node EXCEPT ![n] = Drained(q, wire[n])]
           /\ wire' = [wire EXCEPT ![n] = Written(q, wire[n])]
      ELSE /\ node' = [node EXCEPT ![n] = q]
           /\ UNCHANGED wire

(* -------------------- ThreadMessageHandler and ProcessMessages --------------- *)

(* The copy of vNodes holds a reference.  Nodes marked for disconnection are      *)
(* passed over.                                                                   *)
CopyNodes(n) ==
  /\ mh[n] = "wait"
  /\ node[n].list = "vNodes"
  /\ node' = [node EXCEPT ![n].nRefCount = @ + 1]
  /\ mh' = [mh EXCEPT ![n] = IF node[n].fDisconnect THEN "release" ELSE "getdata"]
  /\ UNCHANGED <<sh, wire>>

(* ProcessGetData sends one block at a time, none while sending is paused.        *)
ServeOne(n, c) ==
  IF c.vRecvGetData > 0 /\ ~c.fPauseSend
  THEN PushMessage(n, [c EXCEPT !.vRecvGetData = @ - 1], "item")
  ELSE node' = [node EXCEPT ![n] = c] /\ UNCHANGED wire

ProcessGetData(n) ==
  /\ mh[n] = "getdata"
  /\ ServeOne(n, node[n])
  /\ mh' = [mh EXCEPT ![n] = "message"]
  /\ UNCHANGED sh

(* One message is taken, unless the blocks asked for come first or sending is     *)
(* paused.                                                                        *)
ProcessMessage(n) ==
  LET c == node[n]
      rest == Tail(c.vProcessMsg)
      taken == [c EXCEPT !.vProcessMsg = rest, !.fPauseRecv = Len(rest) > Flood]
  IN  /\ mh[n] = "message"
      /\ IF c.fDisconnect \/ c.vRecvGetData > 0 \/ c.fPauseSend \/ c.vProcessMsg = <<>>
         THEN UNCHANGED <<node, wire>>
         ELSE IF Head(c.vProcessMsg) = "get"
         THEN ServeOne(n, [taken EXCEPT !.vRecvGetData = @ + Batch])
         ELSE node' = [node EXCEPT ![n] = taken] /\ UNCHANGED wire
      /\ mh' = [mh EXCEPT ![n] = "send"]
      /\ UNCHANGED sh

(* SendMessages asks for blocks, as long as there are any to ask for; it does not  *)
(* look at the pause flag.                                                        *)
SendMessages(n) ==
  /\ mh[n] = "send"
  /\ IF node[n].requests > 0 /\ ~node[n].fDisconnect
     THEN PushMessage(n, [node[n] EXCEPT !.requests = @ - 1], "get")
     ELSE UNCHANGED <<node, wire>>
  /\ mh' = [mh EXCEPT ![n] = "release"]
  /\ UNCHANGED sh

(* The references are released; the wait ends at a wake-up or after 100 ms.       *)
ReleaseNodes(n) ==
  /\ mh[n] = "release"
  /\ node' = [node EXCEPT ![n].nRefCount = @ - 1]
  /\ mh' = [mh EXCEPT ![n] = "wait"]
  /\ UNCHANGED <<sh, wire>>

(* --------------------------- ThreadSocketHandler ------------------------------ *)

DisconnectNodes(n) ==
  /\ sh[n] = "idle"
  /\ node[n].list = "vNodes" /\ node[n].fDisconnect
  /\ node' = [node EXCEPT ![n].list = "vNodesDisconnected", ![n].open = FALSE,
                          ![n].nRefCount = @ - 1]
  /\ UNCHANGED <<mh, sh, wire>>

(* Mutant: a disconnected node is deleted without a look at its references.       *)
MayDeleteAtOnce(c) == c.list = "vNodesDisconnected"

MayDelete(c) == c.list = "vNodesDisconnected" /\ c.nRefCount <= 0

DeleteNode(n) ==
  /\ sh[n] = "idle"
  /\ MayDelete(node[n])
  /\ node' = [node EXCEPT ![n].list = "deleted"]
  /\ UNCHANGED <<mh, sh, wire>>

(* Data waiting to be sent is sent before anything more is received.              *)
Selected(c) == IF ~c.open THEN "nothing"
               ELSE IF c.vSendMsg # <<>> THEN "send"
               ELSE IF ~c.fPauseRecv THEN "recv" ELSE "nothing"

(* When select() fails every socket is read, whatever is paused or waits to be     *)
(* sent, and nothing is sent; a socket with an exceptional condition is read too,   *)
(* and then written to if it was selected for that.                               *)
SelectedInError(c) ==
  IF ~c.open THEN {"nothing"} ELSE {"recv"} \cup {"both" : q \in {c.vSendMsg} \ {<<>>}}

(* select(), and a reference for each node to be served.                          *)
SelectSockets(n) ==
  LET c == node[n]
  IN  /\ sh[n] = "idle"
      /\ c.list = "vNodes" /\ ~c.fDisconnect
      /\ \/ /\ node' = [node EXCEPT ![n].nRefCount = @ + 1]
            /\ sh' = [sh EXCEPT ![n] = Selected(c)]
         \/ /\ c.selectErrors < MaxSelectErrors[n]
            /\ node' = [node EXCEPT ![n].nRefCount = @ + 1, ![n].selectErrors = @ + 1]
            /\ \E s \in SelectedInError(c) : sh' = [sh EXCEPT ![n] = s]
      /\ UNCHANGED <<mh, wire>>

(* recv(), ReceiveMsgBytes and the hand-over to the message handler.  The other   *)
(* end's close is seen once its data has been read.                               *)
Received(c, msgs) ==
  LET q == c.vProcessMsg \o msgs
  IN  [c EXCEPT !.vProcessMsg = q, !.fPauseRecv = Len(q) > Flood]

Serve(n, c, served) ==
  /\ node' = [node EXCEPT ![n] = [c EXCEPT !.nRefCount = @ - 1]]
  /\ sh' = [sh EXCEPT ![n] = "idle"]
  /\ wire' = served
  /\ UNCHANGED mh

(* What was read; a socket that is to be written to as well is served further.     *)
Read(n, c, served) ==
  \/ sh[n] = "recv" /\ Serve(n, c, served)
  \/ /\ sh[n] = "both"
     /\ node' = [node EXCEPT ![n] = c]
     /\ sh' = [sh EXCEPT ![n] = "send"]
     /\ wire' = served
     /\ UNCHANGED mh

ServiceSocket(n) ==
  LET c == node[n]
      o == Other(n)
  IN  \/ /\ sh[n] \in {"recv", "both"} /\ c.open /\ wire[o] # <<>>
         /\ Read(n, Received(c, wire[o]), [wire EXCEPT ![o] = <<>>])
      \/ /\ sh[n] \in {"recv", "both"} /\ c.open /\ wire[o] = <<>>
         /\ Read(n, IF node[o].open THEN c ELSE CloseSocketDisconnect(c), wire)
      \/ /\ sh[n] = "send" /\ c.open /\ node[o].open
         /\ Serve(n, Drained(c, wire[n]), [wire EXCEPT ![n] = Written(c, wire[n])])
      \/ /\ sh[n] = "send" /\ c.open /\ ~node[o].open
         /\ Serve(n, CloseSocketDisconnect(c), wire)
      \/ /\ sh[n] = "nothing" \/ (sh[n] \in {"recv", "send", "both"} /\ ~c.open)
         /\ Serve(n, c, wire)

(* Mutant: there is no check for inactivity.                                      *)
InactiveNever(c, w) == FALSE

(* Nothing was sent for TIMEOUT_INTERVAL: data is waiting and the link is full.   *)
Inactive(c, w) == c.vSendMsg # <<>> /\ Len(w) = LinkSize

InactivityTimeout(n) ==
  /\ sh[n] = "send"
  /\ Inactive(node[n], wire[n])
  /\ Serve(n, [node[n] EXCEPT !.fDisconnect = TRUE], wire)

(* The disconnectnode RPC.                                                        *)
DisconnectNode(n) ==
  /\ node[n].list = "vNodes" /\ ~node[n].fDisconnect
  /\ node' = [node EXCEPT ![n].fDisconnect = TRUE]
  /\ UNCHANGED <<mh, sh, wire>>

-------------------------------------------------------------------------------
Init ==
  /\ node = [n \in Node |->
               [list |-> "vNodes", nRefCount |-> 1, open |-> TRUE, fDisconnect |-> FALSE,
                vSendMsg |-> <<>>, fPauseSend |-> FALSE, vProcessMsg |-> <<>>,
                fPauseRecv |-> FALSE, vRecvGetData |-> 0, requests |-> Requests,
                selectErrors |-> 0]]
  /\ mh = [n \in Node |-> "wait"]
  /\ sh = [n \in Node |-> "idle"]
  /\ wire = [n \in Node |-> <<>>]

MessageHandler(n) ==
  \/ CopyNodes(n) \/ ProcessGetData(n) \/ ProcessMessage(n)
  \/ SendMessages(n) \/ ReleaseNodes(n)

SocketHandler(n) ==
  \/ DisconnectNodes(n) \/ DeleteNode(n) \/ SelectSockets(n) \/ ServiceSocket(n)

Next == \E n \in Node :
          \/ MessageHandler(n) \/ SocketHandler(n) \/ InactivityTimeout(n)
          \/ DisconnectNode(n)

Spec == Init /\ [][Next]_vars

(* Every thread keeps running, and a connection that stays stuck is timed out.    *)
FairSpec ==
  /\ Spec
  /\ \A n \in Node : WF_vars(MessageHandler(n)) /\ WF_vars(SocketHandler(n))
  /\ SF_vars(\E n \in Node : InactivityTimeout(n))

-------------------------------------------------------------------------------
(* A node's reference count is one for vNodes and one for each thread that works   *)
(* on a copy of it, so the object is never deleted under a thread's hands: what    *)
(* the message handler holds across a whole ProcessMessages call, cs_vNodes        *)
(* released, still exists.                                                         *)
RefsProtect ==
  \A n \in Node : LET c == node[n] IN
    /\ c.nRefCount = One(c.list = "vNodes") + One(mh[n] # "wait") + One(sh[n] # "idle")
    /\ c.list = "deleted" => mh[n] = "wait" /\ sh[n] = "idle"

(* The pause flags, which each thread sets from a count that the other thread      *)
(* changes too, always say whether the queue is over its limit.  The receive limit   *)
(* is exceeded by at most one read of the socket, and one more for each pass in     *)
(* which select() failed or reported an exceptional condition, when paused sockets  *)
(* are read too.  No block is queued behind more than SendMax other messages,       *)
(* however many requests, which do not look at the pause flag, come in between.     *)
QueuesBounded ==
  \A n \in Node : LET c == node[n] IN
    /\ c.fPauseSend = (Len(c.vSendMsg) > SendMax)
    /\ c.fPauseRecv = (Len(c.vProcessMsg) > Flood)
    /\ Len(c.vProcessMsg) <= Flood + LinkSize * (1 + c.selectErrors)
    /\ \A i \in DOMAIN c.vSendMsg : c.vSendMsg[i] = "item" => i <= SendMax + 1

(* Whatever one end asked for is sent, received and handled, or the connection     *)
(* comes to an end: two ends that both have data to send, and therefore both do    *)
(* not read, are parted by the inactivity timeout.                                 *)
Served ==
  \A n \in Node : LET c == node[n] IN
    c.vSendMsg = <<>> /\ wire[n] = <<>> /\ c.vProcessMsg = <<>> /\ c.vRecvGetData = 0
Ended == \A n \in Node : node[n].list = "deleted"
ServedOrEnded == <>[](Served \/ Ended)
==============================================================================
