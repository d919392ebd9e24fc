---------------------------- MODULE ConnManProofs ----------------------------
(* Proofs about ConnMan, for all sizes of the buffers and queues: a CNode is      *)
(* never deleted while a thread works on it, and the pause flags and queues are   *)
(* what the limits promise.                                                       *)
EXTENDS ConnMan, FiniteSetTheorems, SequenceTheorems, TLAPS

Message == {"get", "item"}

Conn == [list : {"vNodes", "vNodesDisconnected", "deleted"}, nRefCount : Int,
         open : BOOLEAN, fDisconnect : BOOLEAN, vSendMsg : Seq(Message), fPauseSend : BOOLEAN,
         vProcessMsg : Seq(Message), fPauseRecv : BOOLEAN, vRecvGetData : Nat, requests : Nat,
         selectErrors : Nat]

SocketPlaces == {"idle", "nothing", "send", "recv", "both"}

Types ==
  /\ node \in [Node -> Conn]
  /\ mh \in [Node -> {"wait", "getdata", "message", "send", "release"}]
  /\ sh \in [Node -> SocketPlaces]
  /\ wire \in [Node -> Seq(Message)]

(* The limits, node by node.  A block is pushed within the limit, and what is        *)
(* written goes from the front; the queue to process grows only when the socket was *)
(* selected for it, which it is within the limit, or because of an error that was   *)
(* counted.                                                                         *)
BlocksNear(q) == \A i \in 1 .. Len(q) : q[i] = "item" => i <= SendMax + 1

SendBounded(c) ==
  /\ (c.fPauseSend <=> Len(c.vSendMsg) > SendMax)
  /\ BlocksNear(c.vSendMsg)

RecvBounded(c, s) ==
  /\ (c.fPauseRecv <=> Len(c.vProcessMsg) > Flood)
  /\ Len(c.vProcessMsg) <= Flood + LinkSize * (1 + c.selectErrors)
  /\ s \in {"recv", "both"} => Len(c.vProcessMsg) <= Flood + LinkSize * c.selectErrors

Bounded ==
  \A n \in Node : /\ SendBounded(node[n]) /\ RecvBounded(node[n], sh[n])
                  /\ Len(wire[n]) <= LinkSize

IInv == Types /\ RefsProtect /\ Bounded

-------------------------------------------------------------------------------
(* Facts about the constants and about sequences.                                *)

LEMMA Constants ==
  /\ LinkSize \in Nat \ {0} /\ Batch \in Nat \ {0}
  /\ SendMax \in Nat /\ Flood \in Nat /\ Requests \in Nat
  /\ MaxSelectErrors \in [Node -> Nat]
  BY ConnManAssumption

(* What one more error adds to the bound.                                          *)
LEMMA OneMoreRead ==
  ASSUME NEW e \in Nat
  PROVE  /\ LinkSize * e \in Nat /\ LinkSize * (1 + e) \in Nat
         /\ LinkSize * (1 + e) = LinkSize * e + LinkSize
         /\ LinkSize * (e + 1) = LinkSize * (1 + e)
<1>1. LinkSize \in Nat
  BY Constants
<1> QED BY <1>1

LEMMA OtherType == ASSUME NEW n \in Node PROVE Other(n) \in Node /\ Other(n) # n
<1>1. Cardinality(Node \ {n}) = 1 /\ IsFiniteSet(Node \ {n})
  <2>1. IsFiniteSet(Node) /\ Cardinality(Node) = 2
    BY ConnManAssumption
  <2>2. IsFiniteSet(Node \ {n}) /\ Cardinality(Node \ {n}) = Cardinality(Node) - 1
    BY <2>1, FS_RemoveElement
  <2> QED BY <2>1, <2>2
<1>2. Node \ {n} # {}
  BY <1>1, FS_EmptySet
<1> QED BY <1>2 DEF Other

(* A flag that holds the outcome of a comparison.                                  *)
LEMMA Compared ==
  ASSUME NEW a \in Int, NEW b \in Int, NEW p, p = (a > b)
  PROVE  p \in BOOLEAN /\ (p <=> a > b)
<1>1. (a > b) \in BOOLEAN
  OBVIOUS
<1>2. p \in BOOLEAN
  BY <1>1, Zenon
<1>3. p <=> a > b
  BY Zenon
<1> QED BY <1>2, <1>3

(* The first k messages of a queue and the ones behind them.                       *)
LEMMA Split ==
  ASSUME NEW q \in Seq(Message), NEW k \in 0 .. Len(q)
  PROVE  /\ SubSeq(q, 1, k) \in Seq(Message) /\ Len(SubSeq(q, 1, k)) = k
         /\ SubSeq(q, k + 1, Len(q)) \in Seq(Message)
         /\ Len(SubSeq(q, k + 1, Len(q))) = Len(q) - k
         /\ \A i \in 1 .. Len(q) - k : SubSeq(q, k + 1, Len(q))[i] = q[k + i]
<1>1. Len(q) \in Nat /\ \A i \in 1 .. Len(q) : q[i] \in Message
  OBVIOUS
<1>2. SubSeq(q, 1, k) \in Seq(Message) /\ Len(SubSeq(q, 1, k)) = k
  BY <1>1, SubSeqProperties
<1>3. SubSeq(q, k + 1, Len(q)) \in Seq(Message)
  BY <1>1, SubSeqProperties
<1>4. Len(SubSeq(q, k + 1, Len(q))) = Len(q) - k
  BY <1>1, SubSeqProperties
<1>5. ASSUME NEW i \in 1 .. Len(q) - k PROVE SubSeq(q, k + 1, Len(q))[i] = q[k + i]
  <2>1. SubSeq(q, k + 1, Len(q))[i] = q[(k + 1) + i - 1]
    BY <1>1, SubSeqProperties
  <2>2. (k + 1) + i - 1 = k + i
    BY <1>1
  <2> QED BY <2>1, <2>2
<1> QED BY <1>2, <1>3, <1>4, <1>5

(* A block only comes nearer to the front.                                         *)
LEMMA NearerKept ==
  ASSUME NEW q \in Seq(Message), NEW k \in 0 .. Len(q), BlocksNear(q)
  PROVE  BlocksNear(SubSeq(q, k + 1, Len(q)))
<1> DEFINE left == SubSeq(q, k + 1, Len(q))
<1>1. Len(q) \in Nat /\ Len(left) = Len(q) - k /\ \A i \in 1 .. Len(q) - k : left[i] = q[k + i]
  BY Split
<1> HIDE DEF left
<1>2. ASSUME NEW i \in 1 .. Len(left), left[i] = "item" PROVE i <= SendMax + 1
  <2>1. k + i \in 1 .. Len(q) /\ q[k + i] = "item"
    BY <1>1, <1>2
  <2> QED BY <1>2, <2>1, Constants DEF BlocksNear
<1> QED BY <1>2 DEF BlocksNear, left

(* A block pushed within the limit, and anything else, keeps the blocks near.       *)
LEMMA PushedNear ==
  ASSUME NEW q \in Seq(Message), NEW msg \in Message, BlocksNear(q),
         msg = "item" => Len(q) <= SendMax
  PROVE  BlocksNear(Append(q, msg))
<1>1. /\ Len(q) \in Nat /\ Len(Append(q, msg)) = Len(q) + 1
      /\ \A i \in 1 .. Len(q) : Append(q, msg)[i] = q[i]
      /\ Append(q, msg)[Len(q) + 1] = msg
  BY AppendProperties
<1>2. ASSUME NEW i \in 1 .. Len(q) + 1, Append(q, msg)[i] = "item" PROVE i <= SendMax + 1
  <2>1. CASE i \in 1 .. Len(q)
    BY <1>1, <1>2, <2>1 DEF BlocksNear
  <2>2. CASE i = Len(q) + 1
    BY <1>1, <1>2, <2>2, Constants
  <2> QED BY <1>1, <2>1, <2>2
<1> QED BY <1>1, <1>2 DEF BlocksNear

-------------------------------------------------------------------------------
(* The operators on one node.                                                      *)

(* What SocketSendData keeps.                                                       *)
LEMMA DrainedKeeps ==
  ASSUME NEW c \in Conn, NEW w \in Seq(Message), Len(w) <= LinkSize, SendBounded(c),
         NEW d, d = Drained(c, w), NEW v, v = Written(c, w)
  PROVE  /\ d \in Conn /\ SendBounded(d)
         /\ v \in Seq(Message) /\ Len(v) <= LinkSize
         /\ d.list = c.list /\ d.nRefCount = c.nRefCount
         /\ d.vProcessMsg = c.vProcessMsg /\ d.fPauseRecv = c.fPauseRecv /\ d.selectErrors = c.selectErrors
<1> DEFINE k == Sendable(c, w)
           left == SubSeq(c.vSendMsg, k + 1, Len(c.vSendMsg))
<1>1. c.vSendMsg \in Seq(Message) /\ Len(c.vSendMsg) \in Nat /\ Len(w) \in Nat
      /\ c.fPauseSend \in BOOLEAN
  BY DEF Conn
<1>2. k \in 0 .. Len(c.vSendMsg) /\ k <= LinkSize - Len(w)
  BY <1>1, Constants DEF Sendable
<1>3. /\ left \in Seq(Message) /\ Len(left) = Len(c.vSendMsg) - k
      /\ SubSeq(c.vSendMsg, 1, k) \in Seq(Message) /\ Len(SubSeq(c.vSendMsg, 1, k)) = k
  BY <1>1, <1>2, Split, Zenon
<1>4. v \in Seq(Message) /\ Len(v) <= LinkSize
  <2>1. v = w \o SubSeq(c.vSendMsg, 1, k)
    BY DEF Written
  <2>2. v \in Seq(Message) /\ Len(v) = Len(w) + k
    BY <1>3, <2>1
  <2> QED BY <1>1, <1>2, <2>2, Constants
<1> DEFINE p == IF k > 0 THEN Len(left) > SendMax ELSE c.fPauseSend
<1>5. p \in BOOLEAN /\ (p <=> Len(left) > SendMax)
  <2>1. CASE k > 0
    <3>1. p = (Len(left) > SendMax)
      BY <2>1, Zenon
    <3>2. Len(left) \in Int /\ SendMax \in Int
      BY <1>1, <1>2, <1>3, Constants
    <3> HIDE DEF p
    <3> QED BY <3>1, <3>2, Compared, Zenon
  <2>2. CASE ~ (k > 0)
    BY <1>1, <1>2, <1>3, <2>2 DEF SendBounded
  <2> QED BY <2>1, <2>2, Zenon
<1>6. d = [c EXCEPT !.vSendMsg = left, !.fPauseSend = p]
  BY DEF Drained
<1> HIDE DEF k, left, p
<1>7. /\ d \in Conn /\ d.list = c.list /\ d.nRefCount = c.nRefCount
      /\ d.vProcessMsg = c.vProcessMsg /\ d.fPauseRecv = c.fPauseRecv /\ d.selectErrors = c.selectErrors
      /\ d.vSendMsg = left /\ d.fPauseSend = p
  BY <1>3, <1>5, <1>6, Zenon DEF Conn
<1>8. SendBounded(d)
  <2>1. d.fPauseSend <=> Len(d.vSendMsg) > SendMax
    BY <1>5, <1>7
  <2>2. BlocksNear(left)
    BY <1>1, <1>2, NearerKept, Zenon DEF SendBounded, left
  <2> QED BY <1>7, <2>1, <2>2 DEF SendBounded
<1> QED BY <1>4, <1>7, <1>8
(* What sending leaves alone.                                                       *)
Kept(c, d) ==
  /\ d.list = c.list /\ d.nRefCount = c.nRefCount
  /\ d.vProcessMsg = c.vProcessMsg /\ d.fPauseRecv = c.fPauseRecv /\ d.selectErrors = c.selectErrors

(* A node to which a message may be pushed: a block only while sending is not paused. *)
Pushable(c, msg) == SendBounded(c) /\ (msg = "item" => ~c.fPauseSend)

LEMMA QueuedKeeps ==
  ASSUME NEW c \in Conn, NEW msg \in Message, Pushable(c, msg), NEW d, d = Queued(c, msg)
  PROVE  d \in Conn /\ SendBounded(d) /\ Kept(c, d)
<1> DEFINE q == Append(c.vSendMsg, msg)
           p == c.fPauseSend \/ Len(q) > SendMax
<1>1. /\ c.vSendMsg \in Seq(Message) /\ Len(c.vSendMsg) \in Nat
      /\ c.fPauseSend \in BOOLEAN
  BY DEF Conn
<1>2. q \in Seq(Message) /\ Len(q) = Len(c.vSendMsg) + 1
  BY <1>1
<1>3. p \in BOOLEAN /\ (p <=> Len(q) > SendMax)
  BY <1>1, <1>2, Constants DEF Pushable, SendBounded
<1>7. BlocksNear(q)
  <2>1. msg = "item" => Len(c.vSendMsg) <= SendMax
    BY <1>1, Constants DEF Pushable, SendBounded
  <2> QED BY <1>1, <2>1, PushedNear DEF Pushable, SendBounded
<1>4. d = [c EXCEPT !.vSendMsg = q, !.fPauseSend = p]
  BY DEF Queued
<1> HIDE DEF q, p
<1>5. /\ d \in Conn /\ Kept(c, d)
      /\ d.vSendMsg = q /\ d.fPauseSend = p
  BY <1>2, <1>3, <1>4, Zenon DEF Conn, Kept
<1> QED BY <1>3, <1>5, <1>7 DEF SendBounded

LEMMA CloseKeeps ==
  ASSUME NEW c \in Conn, NEW d, d = CloseSocketDisconnect(c)
  PROVE  /\ d \in Conn /\ Kept(c, d)
         /\ d.vSendMsg = c.vSendMsg /\ d.fPauseSend = c.fPauseSend
  BY Zenon DEF CloseSocketDisconnect, Conn, Kept

(* What a step of node n's threads makes of the connection: n's own CNode becomes   *)
(* one that is Kept from c, and the links stay within their bounds.                 *)
Pushed(n, c) ==
  /\ node' \in [Node -> Conn]
  /\ \A m \in Node \ {n} : node'[m] = node[m]
  /\ Kept(c, node'[n]) /\ SendBounded(node'[n])
  /\ wire' \in [Node -> Seq(Message)] /\ \A m \in Node : Len(wire'[m]) <= LinkSize

(* PushMessage, in its three ways to end.                                           *)
LEMMA PushKeeps ==
  ASSUME Types, Bounded, NEW n \in Node, NEW c \in Conn, NEW msg \in Message, Pushable(c, msg),
         PushMessage(n, c, msg)
  PROVE  Pushed(n, c)
<1> DEFINE q == Queued(c, msg)
<1>1. q \in Conn /\ SendBounded(q) /\ Kept(c, q)
  BY QueuedKeeps
<1>2. /\ node \in [Node -> Conn] /\ wire \in [Node -> Seq(Message)]
      /\ \A m \in Node : Len(wire[m]) <= LinkSize
  BY DEF Types, Bounded
<1> HIDE DEF q
<1>3. CASE node' = [node EXCEPT ![n] = CloseSocketDisconnect(q)] /\ wire' = wire
  <2> DEFINE d == CloseSocketDisconnect(q)
  <2>1. d \in Conn /\ Kept(q, d) /\ SendBounded(d)
    BY <1>1, CloseKeeps DEF SendBounded
  <2> HIDE DEF d
  <2>2. node' = [node EXCEPT ![n] = d] /\ wire' = wire
    BY <1>3 DEF d
  <2> QED BY <1>1, <1>2, <2>1, <2>2 DEF Pushed, Kept
<1>4. CASE /\ node' = [node EXCEPT ![n] = Drained(q, wire[n])]
           /\ wire' = [wire EXCEPT ![n] = Written(q, wire[n])]
  <2> DEFINE d == Drained(q, wire[n])
             v == Written(q, wire[n])
  <2>1. /\ d \in Conn /\ SendBounded(d) /\ Kept(q, d)
        /\ v \in Seq(Message) /\ Len(v) <= LinkSize
    BY <1>1, <1>2, DrainedKeeps DEF Kept
  <2>2. node' = [node EXCEPT ![n] = d] /\ wire' = [wire EXCEPT ![n] = v]
    BY <1>4
  <2> HIDE DEF d, v
  <2> QED BY <1>1, <1>2, <2>1, <2>2 DEF Pushed, Kept
<1>5. CASE node' = [node EXCEPT ![n] = q] /\ wire' = wire
  BY <1>1, <1>2, <1>5 DEF Pushed, Kept
<1> QED BY <1>3, <1>4, <1>5 DEF PushMessage, q

(* ProcessGetData's part: one block, if sending is not paused.                       *)
LEMMA ServeOneKeeps ==
  ASSUME Types, Bounded, NEW n \in Node, NEW c \in Conn, SendBounded(c), ServeOne(n, c)
  PROVE  Pushed(n, c)
<1>1. CASE c.vRecvGetData > 0 /\ ~c.fPauseSend
  <2> DEFINE d == [c EXCEPT !.vRecvGetData = @ - 1]
  <2>1. /\ d \in Conn /\ Kept(c, d) /\ d.vSendMsg = c.vSendMsg /\ d.fPauseSend = c.fPauseSend
       
    <3>1. c.vRecvGetData - 1 \in Nat
      BY <1>1 DEF Conn
    <3> QED BY <3>1, Zenon DEF Conn, Kept
  <2>3. Pushable(d, "item")
    BY <1>1, <2>1, Zenon DEF Pushable, SendBounded
  <2>4. PushMessage(n, d, "item")
    BY <1>1 DEF ServeOne
  <2> HIDE DEF d
  <2>5. Pushed(n, d)
    BY <2>1, <2>3, <2>4, PushKeeps DEF Message
  <2> QED BY <2>1, <2>5 DEF Pushed, Kept
<1>2. CASE ~ (c.vRecvGetData > 0 /\ ~c.fPauseSend)
  <2>1. node' = [node EXCEPT ![n] = c] /\ wire' = wire
    BY <1>2 DEF ServeOne
  <2>2. /\ node \in [Node -> Conn] /\ wire \in [Node -> Seq(Message)]
        /\ \A m \in Node : Len(wire[m]) <= LinkSize
    BY DEF Types, Bounded
  <2> QED BY <2>1, <2>2 DEF Pushed, Kept
<1> QED BY <1>1, <1>2
-------------------------------------------------------------------------------
(* The actions.                                                                     *)

(* What RefsProtect says of one node.                                               *)
Referenced(c, m, s) ==
  /\ c.nRefCount = One(c.list = "vNodes") + One(m # "wait") + One(s # "idle")
  /\ c.list = "deleted" => m = "wait" /\ s = "idle"

(* A step that changes one node only, and keeps that node's facts.                   *)
LEMMA OneNode ==
  ASSUME IInv, NEW n \in Node,
         node' \in [Node -> Conn], \A m \in Node \ {n} : node'[m] = node[m],
         mh' \in [Node -> {"wait", "getdata", "message", "send", "release"}],
         \A m \in Node \ {n} : mh'[m] = mh[m],
         sh' \in [Node -> SocketPlaces],
         \A m \in Node \ {n} : sh'[m] = sh[m],
         wire' \in [Node -> Seq(Message)], \A m \in Node : Len(wire'[m]) <= LinkSize,
         SendBounded(node'[n]), RecvBounded(node'[n], sh'[n]),
         Referenced(node'[n], mh'[n], sh'[n])
  PROVE  IInv'
<1>1. Types'
  BY DEF Types
<1>2. Bounded'
  BY Zenon DEF IInv, Bounded
<1>3. ASSUME NEW m \in Node PROVE Referenced(node'[m], mh'[m], sh'[m])
  <2>1. Referenced(node[m], mh[m], sh[m])
    BY DEF IInv, RefsProtect, Referenced
  <2> QED BY <2>1, Zenon
<1> QED BY <1>1, <1>2, <1>3 DEF IInv, RefsProtect, Referenced

(* What is known of node n before a step.                                            *)
LEMMA Before ==
  ASSUME IInv, NEW n \in Node
  PROVE  /\ Types /\ Bounded
         /\ node \in [Node -> Conn] /\ node[n] \in Conn
         /\ mh \in [Node -> {"wait", "getdata", "message", "send", "release"}]
         /\ sh \in [Node -> SocketPlaces]
         /\ wire \in [Node -> Seq(Message)] /\ \A m \in Node : Len(wire[m]) <= LinkSize
         /\ SendBounded(node[n]) /\ RecvBounded(node[n], sh[n])
         /\ Referenced(node[n], mh[n], sh[n])
  BY DEF IInv, Types, Bounded, RefsProtect, Referenced

(* A change of the reference count alone.                                            *)
LEMMA CountKeeps ==
  ASSUME NEW c \in Conn, NEW k \in Int, NEW d, d = [c EXCEPT !.nRefCount = k], SendBounded(c)
  PROVE  /\ d \in Conn /\ d.nRefCount = k /\ d.list = c.list /\ SendBounded(d)
         /\ d.vProcessMsg = c.vProcessMsg /\ d.fPauseRecv = c.fPauseRecv /\ d.selectErrors = c.selectErrors
         /\ d.open = c.open /\ d.fDisconnect = c.fDisconnect
<1>1. /\ d \in Conn /\ d.nRefCount = k /\ d.list = c.list
      /\ d.vProcessMsg = c.vProcessMsg /\ d.fPauseRecv = c.fPauseRecv /\ d.selectErrors = c.selectErrors
      /\ d.open = c.open /\ d.fDisconnect = c.fDisconnect
      /\ d.vSendMsg = c.vSendMsg /\ d.fPauseSend = c.fPauseSend
  BY Zenon DEF Conn
<1> QED BY <1>1 DEF SendBounded

LEMMA CopyNodesIInv ==
  ASSUME IInv, NEW n \in Node, CopyNodes(n)
  PROVE  IInv'
<1> DEFINE d == [node[n] EXCEPT !.nRefCount = @ + 1]
<1>1. node[n].nRefCount + 1 \in Int
  BY Before DEF Conn
<1>2. /\ d \in Conn /\ d.nRefCount = node[n].nRefCount + 1 /\ d.list = node[n].list
      /\ SendBounded(d) /\ d.vProcessMsg = node[n].vProcessMsg
      /\ d.fPauseRecv = node[n].fPauseRecv /\ d.selectErrors = node[n].selectErrors
  BY <1>1, CountKeeps, Before
<1>3. node' = [node EXCEPT ![n] = d] /\ sh' = sh /\ wire' = wire
      /\ mh[n] = "wait" /\ node[n].list = "vNodes"
  BY DEF CopyNodes
<1>4. mh' = [mh EXCEPT ![n] = "release"] \/ mh' = [mh EXCEPT ![n] = "getdata"]
  BY Zenon DEF CopyNodes
<1> HIDE DEF d
<1>5. node' \in [Node -> Conn] /\ node'[n] = d /\ \A m \in Node \ {n} : node'[m] = node[m]
  BY <1>2, <1>3, Before
<1>6. /\ mh' \in [Node -> {"wait", "getdata", "message", "send", "release"}]
      /\ mh'[n] # "wait" /\ \A m \in Node \ {n} : mh'[m] = mh[m]
  BY <1>4, Before, Zenon
<1>7. Referenced(node'[n], mh'[n], sh'[n])
  <2>1. Referenced(node[n], mh[n], sh[n]) /\ node[n].nRefCount \in Int
    BY Before DEF Conn
  <2>2. /\ node'[n].nRefCount = node[n].nRefCount + 1 /\ node'[n].list = "vNodes"
        /\ sh'[n] = sh[n]
    BY <1>2, <1>3, <1>5
  <2>3. node[n].nRefCount = 1 + One(sh[n] # "idle")
    BY <1>3, <2>1 DEF Referenced, One
  <2>4. One(sh[n] # "idle") \in Int
    BY DEF One
  <2>5. One("vNodes" = "vNodes") = 1 /\ One(mh'[n] # "wait") = 1
    BY <1>6 DEF One
  <2> QED BY <2>2, <2>3, <2>4, <2>5 DEF Referenced
<1>8. RecvBounded(node'[n], sh'[n])
  BY <1>2, <1>3, <1>5, Before DEF RecvBounded
<1> QED BY <1>2, <1>3, <1>5, <1>6, <1>7, <1>8, OneNode, Before, Zenon
LEMMA ReleaseNodesIInv ==
  ASSUME IInv, NEW n \in Node, ReleaseNodes(n)
  PROVE  IInv'
<1> DEFINE d == [node[n] EXCEPT !.nRefCount = @ - 1]
<1>1. node[n].nRefCount - 1 \in Int
  BY Before DEF Conn
<1>2. /\ d \in Conn /\ d.nRefCount = node[n].nRefCount - 1 /\ d.list = node[n].list
      /\ SendBounded(d) /\ d.vProcessMsg = node[n].vProcessMsg
      /\ d.fPauseRecv = node[n].fPauseRecv /\ d.selectErrors = node[n].selectErrors
  BY <1>1, CountKeeps, Before
<1>3. node' = [node EXCEPT ![n] = d] /\ sh' = sh /\ wire' = wire /\ mh[n] = "release"
      /\ mh' = [mh EXCEPT ![n] = "wait"]
  BY DEF ReleaseNodes
<1> HIDE DEF d
<1>5. node' \in [Node -> Conn] /\ node'[n] = d /\ \A m \in Node \ {n} : node'[m] = node[m]
  BY <1>2, <1>3, Before
<1>6. /\ mh' \in [Node -> {"wait", "getdata", "message", "send", "release"}]
      /\ mh'[n] = "wait" /\ \A m \in Node \ {n} : mh'[m] = mh[m]
  BY <1>3, Before
<1>7. Referenced(node'[n], mh'[n], sh'[n])
  <2>1. Referenced(node[n], mh[n], sh[n]) /\ node[n].nRefCount \in Int
    BY Before DEF Conn
  <2>2. /\ node'[n].nRefCount = node[n].nRefCount - 1 /\ node'[n].list = node[n].list
        /\ sh'[n] = sh[n]
    BY <1>2, <1>3, <1>5
  <2>3. One(mh[n] # "wait") = 1 /\ One(mh'[n] # "wait") = 0
    BY <1>3, <1>6 DEF One
  <2>4. One(node[n].list = "vNodes") \in Int /\ One(sh[n] # "idle") \in Int
    BY DEF One
  <2>5. node[n].list # "deleted"
    BY <1>3, <2>1 DEF Referenced
  <2> QED BY <2>1, <2>2, <2>3, <2>4, <2>5 DEF Referenced
<1>8. RecvBounded(node'[n], sh'[n])
  BY <1>2, <1>3, <1>5, Before DEF RecvBounded
<1> QED BY <1>2, <1>3, <1>5, <1>6, <1>7, <1>8, OneNode, Before, Zenon

(* A step of the message handler between two of its places, with the reference held. *)
LEMMA Handles ==
  ASSUME IInv, NEW n \in Node, mh[n] # "wait",
         NEW c \in Conn, Pushed(n, c), RecvBounded(c, sh[n]),
         c.list = node[n].list, c.nRefCount = node[n].nRefCount,
         NEW next \in {"getdata", "message", "send", "release"},
         mh' = [mh EXCEPT ![n] = next], sh' = sh
  PROVE  IInv'
<1>1. /\ mh' \in [Node -> {"wait", "getdata", "message", "send", "release"}]
      /\ mh'[n] # "wait" /\ \A m \in Node \ {n} : mh'[m] = mh[m]
  BY Before
<1>2. /\ node' \in [Node -> Conn] /\ \A m \in Node \ {n} : node'[m] = node[m]
      /\ Kept(c, node'[n]) /\ SendBounded(node'[n])
      /\ wire' \in [Node -> Seq(Message)] /\ \A m \in Node : Len(wire'[m]) <= LinkSize
  BY DEF Pushed
<1>3. RecvBounded(node'[n], sh'[n])
  BY <1>2 DEF Kept, RecvBounded
<1>4. Referenced(node'[n], mh'[n], sh'[n])
  <2>1. node'[n].list = node[n].list /\ node'[n].nRefCount = node[n].nRefCount
    BY <1>2 DEF Kept
  <2>2. Referenced(node[n], mh[n], sh[n])
    BY Before
  <2> QED BY <1>1, <2>1, <2>2 DEF Referenced, One
<1> QED BY <1>1, <1>2, <1>3, <1>4, OneNode, Before, Zenon

LEMMA ProcessGetDataIInv ==
  ASSUME IInv, NEW n \in Node, ProcessGetData(n)
  PROVE  IInv'
<1>1. Pushed(n, node[n])
  BY ServeOneKeeps, Before DEF ProcessGetData
<1> QED BY <1>1, Handles, Before, Zenon DEF ProcessGetData

(* A step of the message handler that leaves the connection as it was.               *)
LEMMA NothingPushed ==
  ASSUME IInv, NEW n \in Node, node' = node, wire' = wire
  PROVE  Pushed(n, node[n])
  BY Before DEF Pushed, Kept

LEMMA ProcessMessageIInv ==
  ASSUME IInv, NEW n \in Node, ProcessMessage(n)
  PROVE  IInv'
<1> DEFINE c == node[n]
           rest == Tail(c.vProcessMsg)
           taken == [c EXCEPT !.vProcessMsg = rest, !.fPauseRecv = Len(rest) > Flood]
<1>1. mh[n] # "wait" /\ mh' = [mh EXCEPT ![n] = "send"] /\ sh' = sh
  BY DEF ProcessMessage
<1>2. CASE c.fDisconnect \/ c.vRecvGetData > 0 \/ c.fPauseSend \/ c.vProcessMsg = <<>>
  <2>1. Pushed(n, c)
    BY <1>2, NothingPushed DEF ProcessMessage
  <2> QED BY <1>1, <2>1, Handles, Before, Zenon
<1>3. CASE ~ (c.fDisconnect \/ c.vRecvGetData > 0 \/ c.fPauseSend \/ c.vProcessMsg = <<>>)
  <2>1. c \in Conn /\ c.vProcessMsg \in Seq(Message) /\ c.vProcessMsg # <<>>
        /\ Len(c.vProcessMsg) \in Nat
    BY <1>3, Before DEF Conn
  <2>2. rest \in Seq(Message) /\ Len(rest) = Len(c.vProcessMsg) - 1 /\ Len(rest) \in Nat
    BY <2>1
  <2> DEFINE p == Len(rest) > Flood
  <2>3. p \in BOOLEAN /\ (p <=> Len(rest) > Flood)
    BY <2>2, Constants
  <2>4. taken = [c EXCEPT !.vProcessMsg = rest, !.fPauseRecv = p]
    OBVIOUS
  <2> HIDE DEF p
  <2>5. /\ taken \in Conn /\ taken.list = c.list /\ taken.nRefCount = c.nRefCount
        /\ taken.vProcessMsg = rest /\ taken.fPauseRecv = p /\ taken.vSendMsg = c.vSendMsg
        /\ taken.fPauseSend = c.fPauseSend /\ taken.selectErrors = c.selectErrors
        /\ taken.vRecvGetData \in Nat
    BY <2>1, <2>2, <2>3, <2>4, Zenon DEF Conn
  <2>6. SendBounded(taken) /\ RecvBounded(taken, sh[n])
    <3>1. SendBounded(taken)
      BY <2>5, Before DEF SendBounded
    <3>2. RecvBounded(c, sh[n])
      BY Before
    <3>3. RecvBounded(taken, sh[n])
      <4> DEFINE near == Flood + LinkSize * c.selectErrors
                 far == Flood + LinkSize * (1 + c.selectErrors)
      <4>1. near \in Int /\ far \in Int
        BY <2>1, OneMoreRead, Constants DEF Conn
      <4>2. Len(c.vProcessMsg) <= far /\ (sh[n] \in {"recv", "both"} => Len(c.vProcessMsg) <= near)
        BY <3>2 DEF RecvBounded
      <4> HIDE DEF near, far
      <4>3. Len(rest) <= far /\ (sh[n] \in {"recv", "both"} => Len(rest) <= near)
        BY <2>1, <2>2, <4>1, <4>2
      <4> QED BY <2>3, <2>5, <4>3, Zenon DEF RecvBounded, near, far
    <3> QED BY <3>1, <3>3
  <2> HIDE DEF taken
  <2>7. CASE Head(c.vProcessMsg) = "get"
    <3> DEFINE d == [taken EXCEPT !.vRecvGetData = @ + Batch]
    <3>1. taken.vRecvGetData + Batch \in Nat
      BY <2>5, Constants
    <3>2. /\ d \in Conn /\ Kept(taken, d) /\ d.vSendMsg = taken.vSendMsg
          /\ d.fPauseSend = taken.fPauseSend
      BY <2>5, <3>1, Zenon DEF Conn, Kept
    <3>3. ServeOne(n, d)
      BY <1>3, <2>7 DEF ProcessMessage, taken
    <3> HIDE DEF d
    <3>4. SendBounded(d) /\ RecvBounded(d, sh[n])
      BY <2>6, <3>2 DEF SendBounded, RecvBounded, Kept
    <3>5. Pushed(n, d)
      BY <3>2, <3>3, <3>4, ServeOneKeeps, Before
    <3>6. d.list = node[n].list /\ d.nRefCount = node[n].nRefCount
      BY <2>5, <3>2 DEF Kept
    <3> QED BY <1>1, <3>2, <3>4, <3>5, <3>6, Handles, Zenon
  <2>8. CASE Head(c.vProcessMsg) # "get"
    <3>1. node' = [node EXCEPT ![n] = taken] /\ wire' = wire
      BY <1>3, <2>8 DEF ProcessMessage, taken
    <3>2. Pushed(n, taken)
      BY <2>5, <2>6, <3>1, Before DEF Pushed, Kept
    <3> QED BY <1>1, <2>5, <2>6, <3>2, Handles, Zenon
  <2> QED BY <2>7, <2>8
<1> QED BY <1>2, <1>3

LEMMA SendMessagesIInv ==
  ASSUME IInv, NEW n \in Node, SendMessages(n)
  PROVE  IInv'
<1> DEFINE c == node[n]
<1>1. mh[n] # "wait" /\ mh' = [mh EXCEPT ![n] = "release"] /\ sh' = sh
  BY DEF SendMessages
<1>2. CASE c.requests > 0 /\ ~c.fDisconnect
  <2> DEFINE d == [c EXCEPT !.requests = @ - 1]
  <2>1. c.requests - 1 \in Nat /\ c.requests \in Nat /\ Len(c.vSendMsg) \in Nat
    BY <1>2, Before DEF Conn
  <2>2. /\ d \in Conn /\ Kept(c, d) /\ d.vSendMsg = c.vSendMsg /\ d.fPauseSend = c.fPauseSend
        /\ d.requests = c.requests - 1
    BY <2>1, Before, Zenon DEF Conn, Kept
  <2>3. PushMessage(n, d, "get")
    BY <1>2 DEF SendMessages
  <2> HIDE DEF d
  <2>4. Pushable(d, "get")
    <3>1. SendBounded(d)
      BY <2>2, Before, Zenon DEF SendBounded
    <3> QED BY <3>1 DEF Pushable
  <2>5. Pushed(n, d)
    BY <2>2, <2>3, <2>4, PushKeeps, Before DEF Message
  <2>6. RecvBounded(d, sh[n]) /\ d.list = node[n].list /\ d.nRefCount = node[n].nRefCount
    BY <2>2, Before DEF Kept, RecvBounded
  <2> QED BY <1>1, <2>2, <2>5, <2>6, Handles, Zenon
<1>3. CASE ~ (c.requests > 0 /\ ~c.fDisconnect)
  <2>1. Pushed(n, c)
    BY <1>3, NothingPushed DEF SendMessages
  <2> QED BY <1>1, <2>1, Handles, Before, Zenon
<1> QED BY <1>2, <1>3

LEMMA DisconnectNodesIInv ==
  ASSUME IInv, NEW n \in Node, DisconnectNodes(n)
  PROVE  IInv'
<1> DEFINE c == node[n]
           d == [c EXCEPT !.list = "vNodesDisconnected", !.open = FALSE, !.nRefCount = @ - 1]
<1>1. c.nRefCount - 1 \in Int /\ c \in Conn
  BY Before DEF Conn
<1>2. /\ d \in Conn /\ d.list = "vNodesDisconnected" /\ d.nRefCount = c.nRefCount - 1
      /\ d.vSendMsg = c.vSendMsg /\ d.fPauseSend = c.fPauseSend
      /\ d.vProcessMsg = c.vProcessMsg /\ d.fPauseRecv = c.fPauseRecv /\ d.selectErrors = c.selectErrors
  BY <1>1, Zenon DEF Conn
<1>3. node' = [node EXCEPT ![n] = d] /\ mh' = mh /\ sh' = sh /\ wire' = wire
      /\ sh[n] = "idle" /\ c.list = "vNodes"
  BY Before, Zenon DEF DisconnectNodes, Conn
<1> HIDE DEF d
<1>4. node' \in [Node -> Conn] /\ node'[n] = d /\ \A m \in Node \ {n} : node'[m] = node[m]
  BY <1>2, <1>3, Before
<1>5. SendBounded(d) /\ RecvBounded(d, sh[n])
  BY <1>2, Before DEF SendBounded, RecvBounded
<1>6. Referenced(d, mh[n], sh[n])
  <2>1. Referenced(c, mh[n], sh[n])
    BY Before
  <2>2. One(c.list = "vNodes") = 1 /\ One(d.list = "vNodes") = 0
    BY <1>2, <1>3 DEF One
  <2>3. One(mh[n] # "wait") \in Int /\ One(sh[n] # "idle") \in Int
    BY DEF One
  <2> QED BY <1>1, <1>2, <2>1, <2>2, <2>3 DEF Referenced
<1> QED BY <1>3, <1>4, <1>5, <1>6, OneNode, Before

LEMMA DeleteNodeIInv ==
  ASSUME IInv, NEW n \in Node, DeleteNode(n)
  PROVE  IInv'
<1> DEFINE c == node[n]
           d == [c EXCEPT !.list = "deleted"]
<1>1. c \in Conn /\ c.nRefCount \in Int
  BY Before DEF Conn
<1>2. /\ d \in Conn /\ d.list = "deleted" /\ d.nRefCount = c.nRefCount
      /\ d.vSendMsg = c.vSendMsg /\ d.fPauseSend = c.fPauseSend
      /\ d.vProcessMsg = c.vProcessMsg /\ d.fPauseRecv = c.fPauseRecv /\ d.selectErrors = c.selectErrors
  BY <1>1, Zenon DEF Conn
<1>3. node' = [node EXCEPT ![n] = d] /\ mh' = mh /\ sh' = sh /\ wire' = wire
      /\ sh[n] = "idle" /\ c.list = "vNodesDisconnected" /\ c.nRefCount <= 0
  BY DEF DeleteNode, MayDelete
<1> HIDE DEF d
<1>4. node' \in [Node -> Conn] /\ node'[n] = d /\ \A m \in Node \ {n} : node'[m] = node[m]
  BY <1>2, <1>3, Before
<1>5. SendBounded(d) /\ RecvBounded(d, sh[n])
  BY <1>2, Before DEF SendBounded, RecvBounded
<1>6. mh[n] = "wait" /\ Referenced(d, mh[n], sh[n])
  <2>1. Referenced(c, mh[n], sh[n])
    BY Before
  <2> QED BY <1>1, <1>2, <1>3, <2>1 DEF Referenced, One
<1> QED BY <1>3, <1>4, <1>5, <1>6, OneNode, Before, Zenon
LEMMA SelectSocketsIInv ==
  ASSUME IInv, NEW n \in Node, SelectSockets(n)
  PROVE  IInv'
<1> DEFINE c == node[n]
<1>1. /\ c \in Conn /\ c.nRefCount \in Int /\ c.nRefCount + 1 \in Int
      /\ c.selectErrors \in Nat /\ c.selectErrors + 1 \in Nat /\ Len(c.vProcessMsg) \in Nat
      /\ RecvBounded(c, sh[n]) /\ SendBounded(c)
  BY Before DEF Conn
<1>2. sh[n] = "idle" /\ c.list = "vNodes" /\ mh' = mh /\ wire' = wire
  BY DEF SelectSockets
(* Both ways to select take a reference; only the second counts an error.           *)
<1>3. ASSUME NEW e \in Nat, NEW s \in SocketPlaces \ {"idle"},
             node' = [node EXCEPT ![n] = [c EXCEPT !.nRefCount = @ + 1, !.selectErrors = e]],
             sh' = [sh EXCEPT ![n] = s],
             Len(c.vProcessMsg) <= Flood + LinkSize * (1 + e),
             s \in {"recv", "both"} => Len(c.vProcessMsg) <= Flood + LinkSize * e
      PROVE  IInv'
  <2> DEFINE d == [c EXCEPT !.nRefCount = @ + 1, !.selectErrors = e]
  <2>1. /\ d \in Conn /\ d.nRefCount = c.nRefCount + 1 /\ d.list = c.list
        /\ d.vProcessMsg = c.vProcessMsg /\ d.fPauseRecv = c.fPauseRecv /\ d.selectErrors = e
        /\ d.vSendMsg = c.vSendMsg /\ d.fPauseSend = c.fPauseSend
    BY <1>1, <1>3, Zenon DEF Conn
  <2>2. node' = [node EXCEPT ![n] = d]
    BY <1>3
  <2> HIDE DEF d, c
  <2>3. node' \in [Node -> Conn] /\ node'[n] = d /\ \A m \in Node \ {n} : node'[m] = node[m]
    BY <2>1, <2>2, Before
  <2>4. /\ sh' \in [Node -> SocketPlaces]
        /\ sh'[n] = s /\ \A m \in Node \ {n} : sh'[m] = sh[m]
    BY <1>3, Before
  <2>5. SendBounded(d) /\ RecvBounded(d, s)
    BY <1>1, <1>3, <2>1, Zenon DEF SendBounded, RecvBounded
  <2>6. Referenced(d, mh[n], s)
    <3>1. Referenced(c, mh[n], "idle")
      BY <1>2, Before DEF c
    <3>2. One("idle" # "idle") = 0 /\ One(s # "idle") = 1 /\ One(mh[n] # "wait") \in Int
      BY <1>3 DEF One
    <3>3. One("vNodes" = "vNodes") = 1
      BY DEF One
    <3> QED BY <1>1, <1>2, <2>1, <3>1, <3>2, <3>3 DEF Referenced
  <2> QED BY <1>2, <2>1, <2>3, <2>4, <2>5, <2>6, OneNode, Before, Zenon
<1>4. CASE /\ node' = [node EXCEPT ![n].nRefCount = @ + 1]
           /\ sh' = [sh EXCEPT ![n] = Selected(c)]
  <2>1. Selected(c) \in {"nothing", "send", "recv"} /\ (Selected(c) = "recv" => ~c.fPauseRecv)
    BY DEF Selected
  <2>2. node' = [node EXCEPT ![n] = [c EXCEPT !.nRefCount = @ + 1, !.selectErrors = c.selectErrors]]
    <3>1. [c EXCEPT !.nRefCount = @ + 1] = [c EXCEPT !.nRefCount = @ + 1, !.selectErrors = c.selectErrors]
      BY <1>1, Zenon DEF Conn
    <3> QED BY <1>4, <3>1, Zenon
  <2>3. Len(c.vProcessMsg) <= Flood + LinkSize * (1 + c.selectErrors)
    BY <1>1 DEF RecvBounded
  <2>4. Selected(c) \in {"recv", "both"} => Len(c.vProcessMsg) <= Flood + LinkSize * c.selectErrors
    <3>1. ~c.fPauseRecv => Len(c.vProcessMsg) <= Flood
      BY <1>1, Constants DEF RecvBounded
    <3>2. PICK x \in Nat : x = LinkSize * c.selectErrors
      BY <1>1, OneMoreRead
    <3>3. ~c.fPauseRecv => Len(c.vProcessMsg) <= Flood + x
      BY <1>1, <3>1, Constants
    <3> QED BY <2>1, <3>2, <3>3, Zenon
  <2>5. Selected(c) \in SocketPlaces \ {"idle"}
    BY <2>1 DEF SocketPlaces
  <2> QED BY <1>1, <1>3, <1>4, <2>2, <2>3, <2>4, <2>5, Zenon
<1>5. CASE /\ node' = [node EXCEPT ![n].nRefCount = @ + 1, ![n].selectErrors = @ + 1]
           /\ \E s \in SelectedInError(c) : sh' = [sh EXCEPT ![n] = s]
  <2>1. PICK s \in SelectedInError(c) : sh' = [sh EXCEPT ![n] = s]
    BY <1>5
  <2>2. s \in SocketPlaces \ {"idle"}
    BY DEF SelectedInError, SocketPlaces
  <2>3. node' = [node EXCEPT ![n] = [c EXCEPT !.nRefCount = @ + 1, !.selectErrors = c.selectErrors + 1]]
    BY <1>5, Before, Zenon DEF Conn
  <2>4. /\ Len(c.vProcessMsg) <= Flood + LinkSize * (c.selectErrors + 1)
        /\ Len(c.vProcessMsg) <= Flood + LinkSize * (1 + (c.selectErrors + 1))
    <3>1. PICK x \in Nat : x = LinkSize * (c.selectErrors + 1)
      BY <1>1, OneMoreRead
    <3>2. PICK y \in Nat : y = LinkSize * (1 + (c.selectErrors + 1))
      BY <1>1, OneMoreRead
    <3>3. y = x + LinkSize
      BY <1>1, <3>1, <3>2, OneMoreRead, Zenon
    <3>4. Len(c.vProcessMsg) <= Flood + x
      BY <1>1, <3>1, OneMoreRead, Zenon DEF RecvBounded
    <3>5. Len(c.vProcessMsg) <= Flood + y
      BY <1>1, <3>3, <3>4, Constants
    <3> QED BY <3>1, <3>2, <3>4, <3>5, Zenon
  <2> QED BY <1>1, <1>3, <2>1, <2>2, <2>3, <2>4, Zenon
<1> QED BY <1>4, <1>5, Zenon DEF SelectSockets

(* The end of a round of the socket handler: the reference is given back.            *)
LEMMA ServeIInv ==
  ASSUME IInv, NEW n \in Node, sh[n] # "idle", NEW c \in Conn, NEW served,
         Serve(n, c, served), SendBounded(c), RecvBounded(c, "idle"),
         c.list = node[n].list, c.nRefCount = node[n].nRefCount,
         served \in [Node -> Seq(Message)], \A m \in Node : Len(served[m]) <= LinkSize
  PROVE  IInv'
<1> DEFINE d == [c EXCEPT !.nRefCount = @ - 1]
<1>1. c.nRefCount - 1 \in Int /\ c.nRefCount \in Int
  BY DEF Conn
<1>2. /\ d \in Conn /\ d.nRefCount = c.nRefCount - 1 /\ d.list = c.list
      /\ SendBounded(d) /\ d.vProcessMsg = c.vProcessMsg /\ d.fPauseRecv = c.fPauseRecv /\ d.selectErrors = c.selectErrors
  BY <1>1, CountKeeps
<1>3. node' = [node EXCEPT ![n] = d] /\ mh' = mh /\ wire' = served
      /\ sh' = [sh EXCEPT ![n] = "idle"]
  BY DEF Serve
<1> HIDE DEF d
<1>4. node' \in [Node -> Conn] /\ node'[n] = d /\ \A m \in Node \ {n} : node'[m] = node[m]
  BY <1>2, <1>3, Before
<1>5. /\ sh' \in [Node -> SocketPlaces]
      /\ sh'[n] = "idle" /\ \A m \in Node \ {n} : sh'[m] = sh[m]
  BY <1>3, Before DEF SocketPlaces
<1>6. RecvBounded(d, sh'[n])
  BY <1>2, <1>5 DEF RecvBounded
<1>7. Referenced(d, mh[n], sh'[n])
  <2>1. Referenced(node[n], mh[n], sh[n])
    BY Before
  <2> QED BY <1>1, <1>2, <1>5, <2>1 DEF Referenced, One
<1> QED BY <1>2, <1>3, <1>4, <1>5, <1>6, <1>7, OneNode, Before, Zenon

(* recv() of what the link holds, which is at most LinkSize messages.                *)
LEMMA ReceivedKeeps ==
  ASSUME NEW c \in Conn, NEW msgs \in Seq(Message), Len(msgs) <= LinkSize,
         SendBounded(c), NEW s \in {"recv", "both"}, RecvBounded(c, s),
         NEW d, d = Received(c, msgs)
  PROVE  /\ d \in Conn /\ SendBounded(d) /\ RecvBounded(d, "idle") /\ RecvBounded(d, "send")
         /\ d.list = c.list /\ d.nRefCount = c.nRefCount
<1> DEFINE q == c.vProcessMsg \o msgs
           p == Len(q) > Flood
<1>1. c.vProcessMsg \in Seq(Message) /\ Len(c.vProcessMsg) \in Nat /\ Len(msgs) \in Nat
      /\ c.selectErrors \in Nat
  BY DEF Conn
<1>2. q \in Seq(Message) /\ Len(q) = Len(c.vProcessMsg) + Len(msgs)
  BY <1>1
<1>3. p \in BOOLEAN /\ (p <=> Len(q) > Flood)
  BY <1>1, <1>2, Constants
<1>4. d = [c EXCEPT !.vProcessMsg = q, !.fPauseRecv = p]
  BY DEF Received
<1> HIDE DEF q, p
<1>5. /\ d \in Conn /\ d.list = c.list /\ d.nRefCount = c.nRefCount
      /\ d.vProcessMsg = q /\ d.fPauseRecv = p /\ d.vSendMsg = c.vSendMsg
      /\ d.fPauseSend = c.fPauseSend /\ d.selectErrors = c.selectErrors
  BY <1>2, <1>3, <1>4, Zenon DEF Conn
<1>6. SendBounded(d)
  BY <1>5 DEF SendBounded
<1>7. Len(d.vProcessMsg) <= Flood + LinkSize * (1 + d.selectErrors)
  <2>1. PICK x \in Nat : x = LinkSize * c.selectErrors
    BY <1>1, OneMoreRead
  <2>2. PICK y \in Nat : y = LinkSize * (1 + c.selectErrors)
    BY <1>1, OneMoreRead
  <2>3. y = x + LinkSize
    BY <1>1, <2>1, <2>2, OneMoreRead, Zenon
  <2>4. Len(c.vProcessMsg) <= Flood + x
    BY <2>1, Zenon DEF RecvBounded
  <2>5. Len(q) <= Flood + y
    BY <1>1, <1>2, <2>3, <2>4, Constants
  <2> QED BY <1>5, <2>2, <2>5, Zenon
<1> QED BY <1>3, <1>5, <1>6, <1>7 DEF RecvBounded

(* What follows a read: the end of the round, or the write.                           *)
LEMMA ReadIInv ==
  ASSUME IInv, NEW n \in Node, NEW c \in Conn, NEW served,
         Read(n, c, served), SendBounded(c), RecvBounded(c, "idle"), RecvBounded(c, "send"),
         c.list = node[n].list, c.nRefCount = node[n].nRefCount,
         served \in [Node -> Seq(Message)], \A m \in Node : Len(served[m]) <= LinkSize
  PROVE  IInv'
<1>1. CASE sh[n] = "recv" /\ Serve(n, c, served)
  BY <1>1, ServeIInv, Zenon
<1>2. CASE /\ sh[n] = "both" /\ node' = [node EXCEPT ![n] = c]
           /\ sh' = [sh EXCEPT ![n] = "send"] /\ wire' = served /\ mh' = mh
  <2>1. node' \in [Node -> Conn] /\ node'[n] = c /\ \A m \in Node \ {n} : node'[m] = node[m]
    BY <1>2, Before
  <2>2. /\ sh' \in [Node -> SocketPlaces]
        /\ sh'[n] = "send" /\ \A m \in Node \ {n} : sh'[m] = sh[m]
    BY <1>2, Before DEF SocketPlaces
  <2>3. Referenced(c, mh[n], "send")
    <3>1. Referenced(node[n], mh[n], "both")
      BY <1>2, Before
    <3>2. One("both" # "idle") = One("send" # "idle")
      BY DEF One
    <3> QED BY <3>1, <3>2 DEF Referenced
  <2> QED BY <1>2, <2>1, <2>2, <2>3, OneNode, Before, Zenon
<1> QED BY <1>1, <1>2, Zenon DEF Read

LEMMA ServiceSocketIInv ==
  ASSUME IInv, NEW n \in Node, ServiceSocket(n)
  PROVE  IInv'
<1> DEFINE c == node[n]
           o == Other(n)
           closed == CloseSocketDisconnect(c)
<1>1. /\ c \in Conn /\ o \in Node /\ o # n /\ SendBounded(c) /\ RecvBounded(c, sh[n])
      /\ wire \in [Node -> Seq(Message)] /\ \A m \in Node : Len(wire[m]) <= LinkSize
  BY Before, OtherType
<1>2. RecvBounded(c, "idle") /\ RecvBounded(c, "send")
  BY <1>1 DEF RecvBounded
<1>3. /\ closed \in Conn /\ SendBounded(closed)
      /\ RecvBounded(closed, "idle") /\ RecvBounded(closed, "send")
      /\ closed.list = c.list /\ closed.nRefCount = c.nRefCount
  <2>1. /\ closed \in Conn /\ Kept(c, closed) /\ closed.vSendMsg = c.vSendMsg
        /\ closed.fPauseSend = c.fPauseSend
    BY <1>1, CloseKeeps
  <2> HIDE DEF closed, c
  <2>2. SendBounded(closed)
    BY <1>1, <2>1 DEF SendBounded
  <2>3. RecvBounded(closed, "idle") /\ RecvBounded(closed, "send")
    BY <1>2, <2>1 DEF RecvBounded, Kept
  <2> QED BY <2>1, <2>2, <2>3 DEF Kept
<1> HIDE DEF closed
<1>4. CASE /\ sh[n] \in {"recv", "both"} /\ c.open /\ wire[o] # <<>>
           /\ Read(n, Received(c, wire[o]), [wire EXCEPT ![o] = <<>>])
  <2>1. /\ [wire EXCEPT ![o] = <<>>] \in [Node -> Seq(Message)]
        /\ \A m \in Node : Len([wire EXCEPT ![o] = <<>>][m]) <= LinkSize
    BY <1>1, Constants
  <2>2. /\ Received(c, wire[o]) \in Conn /\ SendBounded(Received(c, wire[o]))
        /\ RecvBounded(Received(c, wire[o]), "idle") /\ RecvBounded(Received(c, wire[o]), "send")
        /\ Received(c, wire[o]).list = c.list /\ Received(c, wire[o]).nRefCount = c.nRefCount
    <3>1. wire[o] \in Seq(Message) /\ Len(wire[o]) <= LinkSize
      BY <1>1
    <3>2. sh[n] \in {"recv", "both"}
      BY <1>4
    <3> HIDE DEF c, o
    <3> QED BY <1>1, <3>1, <3>2, ReceivedKeeps, Zenon
  <2> QED BY <1>4, <2>1, <2>2, ReadIInv, Zenon
<1>5. CASE /\ sh[n] \in {"recv", "both"} /\ c.open /\ wire[o] = <<>>
           /\ Read(n, IF node[o].open THEN c ELSE closed, wire)
  <2>1. CASE node[o].open
    BY <1>1, <1>2, <1>5, <2>1, ReadIInv, Zenon
  <2>2. CASE ~node[o].open
    BY <1>1, <1>3, <1>5, <2>2, ReadIInv, Zenon
  <2> QED BY <2>1, <2>2
<1>6. CASE /\ sh[n] = "send" /\ c.open /\ node[o].open
           /\ Serve(n, Drained(c, wire[n]), [wire EXCEPT ![n] = Written(c, wire[n])])
  <2> DEFINE d == Drained(c, wire[n])
             v == Written(c, wire[n])
  <2>1. /\ d \in Conn /\ SendBounded(d) /\ v \in Seq(Message) /\ Len(v) <= LinkSize
        /\ d.list = c.list /\ d.nRefCount = c.nRefCount
        /\ d.vProcessMsg = c.vProcessMsg /\ d.fPauseRecv = c.fPauseRecv /\ d.selectErrors = c.selectErrors
    <3>1. wire[n] \in Seq(Message) /\ Len(wire[n]) <= LinkSize
      BY <1>1
    <3> HIDE DEF c
    <3> QED BY <1>1, <3>1, DrainedKeeps
  <2>2. Serve(n, d, [wire EXCEPT ![n] = v])
    BY <1>6
  <2> HIDE DEF d, v
  <2>3. /\ [wire EXCEPT ![n] = v] \in [Node -> Seq(Message)]
        /\ \A m \in Node : Len([wire EXCEPT ![n] = v][m]) <= LinkSize
    BY <1>1, <2>1
  <2>4. RecvBounded(d, "idle")
    BY <1>2, <2>1 DEF RecvBounded
  <2> QED BY <1>6, <2>1, <2>2, <2>3, <2>4, ServeIInv, Zenon
<1>7. CASE /\ sh[n] = "send" /\ c.open /\ ~node[o].open
           /\ Serve(n, closed, wire)
  BY <1>1, <1>3, <1>7, ServeIInv, Zenon
<1>8. CASE /\ sh[n] = "nothing" \/ (sh[n] \in {"recv", "send", "both"} /\ ~c.open)
           /\ Serve(n, c, wire)
  BY <1>1, <1>2, <1>8, ServeIInv, Zenon
<1> QED BY <1>4, <1>5, <1>6, <1>7, <1>8 DEF ServiceSocket, closed

(* Setting fDisconnect changes nothing that the invariant speaks of.                 *)
LEMMA MarkKeeps ==
  ASSUME NEW c \in Conn, NEW d, d = [c EXCEPT !.fDisconnect = TRUE]
  PROVE  /\ d \in Conn /\ Kept(c, d)
         /\ d.vSendMsg = c.vSendMsg /\ d.fPauseSend = c.fPauseSend
  BY Zenon DEF Conn, Kept

LEMMA InactivityTimeoutIInv ==
  ASSUME IInv, NEW n \in Node, InactivityTimeout(n)
  PROVE  IInv'
<1> DEFINE d == [node[n] EXCEPT !.fDisconnect = TRUE]
<1>1. /\ d \in Conn /\ Kept(node[n], d) /\ d.vSendMsg = node[n].vSendMsg
      /\ d.fPauseSend = node[n].fPauseSend
  BY Before, MarkKeeps
<1>2. Serve(n, d, wire) /\ sh[n] # "idle"
  BY DEF InactivityTimeout
<1> HIDE DEF d
<1>3. SendBounded(d) /\ RecvBounded(d, "idle") /\ d.list = node[n].list
      /\ d.nRefCount = node[n].nRefCount
  BY <1>1, Before DEF SendBounded, RecvBounded, Kept
<1> QED BY <1>1, <1>2, <1>3, ServeIInv, Before, Zenon

LEMMA DisconnectNodeIInv ==
  ASSUME IInv, NEW n \in Node, DisconnectNode(n)
  PROVE  IInv'
<1> DEFINE d == [node[n] EXCEPT !.fDisconnect = TRUE]
<1>1. /\ d \in Conn /\ Kept(node[n], d) /\ d.vSendMsg = node[n].vSendMsg
      /\ d.fPauseSend = node[n].fPauseSend
  BY Before, MarkKeeps
<1>2. node' = [node EXCEPT ![n] = d] /\ mh' = mh /\ sh' = sh /\ wire' = wire
  BY DEF DisconnectNode
<1> HIDE DEF d
<1>3. node' \in [Node -> Conn] /\ node'[n] = d /\ \A m \in Node \ {n} : node'[m] = node[m]
  BY <1>1, <1>2, Before
<1>4. SendBounded(d) /\ RecvBounded(d, sh[n]) /\ Referenced(d, mh[n], sh[n])
  BY <1>1, Before DEF SendBounded, RecvBounded, Kept, Referenced
<1> QED BY <1>2, <1>3, <1>4, OneNode, Before

-------------------------------------------------------------------------------
(* The theorems.                                                                    *)

LEMMA InitIInv == Init => IInv
<1> SUFFICES ASSUME Init PROVE IInv
  OBVIOUS
<1> DEFINE new == [list |-> "vNodes", nRefCount |-> 1, open |-> TRUE, fDisconnect |-> FALSE,
                   vSendMsg |-> <<>>, fPauseSend |-> FALSE, vProcessMsg |-> <<>>,
                   fPauseRecv |-> FALSE, vRecvGetData |-> 0, requests |-> Requests,
                   selectErrors |-> 0]
<1>1. /\ node = [n \in Node |-> new] /\ mh = [n \in Node |-> "wait"]
      /\ sh = [n \in Node |-> "idle"] /\ wire = [n \in Node |-> <<>>]
  BY DEF Init
<1>2. new \in Conn
  <2>1. <<>> \in Seq(Message)
    OBVIOUS
  <2> QED BY <2>1, Constants DEF Conn
<1>3. SendBounded(new) /\ RecvBounded(new, "idle") /\ Referenced(new, "wait", "idle")
  <2>1. Len(<<>>) = 0
    OBVIOUS
  <2>2. SendBounded(new) /\ Referenced(new, "wait", "idle")
    BY <2>1, Constants DEF SendBounded, BlocksNear, Referenced, One
  <2>3. 0 <= Flood + LinkSize * (1 + 0) /\ ~(0 > Flood)
    BY Constants
  <2>4. RecvBounded(new, "idle")
    BY <2>1, <2>3 DEF RecvBounded
  <2> QED BY <2>2, <2>4
<1> HIDE DEF new
<1>4. Types
  BY <1>1, <1>2 DEF Types, SocketPlaces
<1>5. Bounded
  BY <1>1, <1>3, Constants DEF Bounded
<1>6. RefsProtect
  BY <1>1, <1>3 DEF RefsProtect, Referenced
<1> QED BY <1>4, <1>5, <1>6 DEF IInv

LEMMA NextIInv == IInv /\ [Next]_vars => IInv'
<1> SUFFICES ASSUME IInv, [Next]_vars PROVE IInv'
  OBVIOUS
<1>1. ASSUME NEW n \in Node, MessageHandler(n) PROVE IInv'
  BY <1>1, CopyNodesIInv, ProcessGetDataIInv, ProcessMessageIInv, SendMessagesIInv,
     ReleaseNodesIInv DEF MessageHandler
<1>2. ASSUME NEW n \in Node, SocketHandler(n) PROVE IInv'
  BY <1>2, DisconnectNodesIInv, DeleteNodeIInv, SelectSocketsIInv, ServiceSocketIInv
     DEF SocketHandler
<1>3. ASSUME NEW n \in Node, InactivityTimeout(n) PROVE IInv'
  BY <1>3, InactivityTimeoutIInv
<1>4. ASSUME NEW n \in Node, DisconnectNode(n) PROVE IInv'
  BY <1>4, DisconnectNodeIInv
<1>5. CASE UNCHANGED vars
  BY <1>5 DEF vars, IInv, Types, Bounded, RefsProtect
<1> QED BY <1>1, <1>2, <1>3, <1>4, <1>5 DEF Next

(* The inductive invariant holds in every reachable state.                          *)
THEOREM Inductive == Spec => []IInv
  BY InitIInv, NextIInv, PTL DEF Spec

(* A CNode is deleted only when neither the message handler nor the socket handler   *)
(* has it in its hands, whatever either of them is doing.                            *)
THEOREM NeverDeletedInUse == Spec => []RefsProtect
<1>1. IInv => RefsProtect
  BY DEF IInv
<1> QED BY <1>1, Inductive, PTL

(* The pause flags are right and the queues bounded, for all sizes of the buffers,    *)
(* any number of requests and of failures of select().                               *)
THEOREM QueuesStayBounded == Spec => []QueuesBounded
<1>1. ASSUME IInv, NEW n \in Node
      PROVE  /\ node[n].fPauseSend = (Len(node[n].vSendMsg) > SendMax)
             /\ node[n].fPauseRecv = (Len(node[n].vProcessMsg) > Flood)
             /\ Len(node[n].vProcessMsg) <= Flood + LinkSize * (1 + node[n].selectErrors)
             /\ \A i \in DOMAIN node[n].vSendMsg :
                    node[n].vSendMsg[i] = "item" => i <= SendMax + 1
  <2> DEFINE c == node[n]
  <2>1. /\ c \in Conn /\ SendBounded(c) /\ RecvBounded(c, sh[n])
    BY <1>1, Before
  <2>2. /\ c.vSendMsg \in Seq(Message) /\ Len(c.vSendMsg) \in Nat
        /\ c.fPauseSend \in BOOLEAN /\ c.fPauseRecv \in BOOLEAN
    BY <2>1 DEF Conn
  <2>3. /\ Len(c.vProcessMsg) <= Flood + LinkSize * (1 + c.selectErrors)
        /\ \A i \in DOMAIN c.vSendMsg : c.vSendMsg[i] = "item" => i <= SendMax + 1
    <3>1. DOMAIN c.vSendMsg = 1 .. Len(c.vSendMsg)
      BY <2>2
    <3> QED BY <2>1, <3>1, Zenon DEF SendBounded, BlocksNear, RecvBounded
  <2>4. c.fPauseSend = (Len(c.vSendMsg) > SendMax)
    BY <2>1, <2>2 DEF SendBounded
  <2>5. c.fPauseRecv = (Len(c.vProcessMsg) > Flood)
    BY <2>1, <2>2 DEF RecvBounded
  <2> QED BY <2>3, <2>4, <2>5
<1>2. IInv => QueuesBounded
  BY <1>1 DEF QueuesBounded
<1> QED BY <1>2, Inductive, PTL
==============================================================================
