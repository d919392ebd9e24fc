--------------------------- MODULE BlockDownloadProofs ---------------------------
(* The records of blocks in flight agree for every tree of blocks, every number of *)
(* peers and every window: InFlightConsistent, RecordsNeverFail and StallersOweBlocks.  *)
(* Each operation of BlockDownload on the record net is shown to keep Fine(net).   *)
EXTENDS BlockDownload, FiniteSetTheorems, TLAPS

-----------------------------------------------------------------------------------
(* Induction over the natural numbers, on sets of them.                            *)

Less == {ss \in Nat \X Nat : ss[1] < ss[2]}

\* A set of numbers with 0 and with the successor of each of its members is Nat.
LEMMA AllNumbers ==
    ASSUME NEW S \in SUBSET Nat, 0 \in S, \A n \in S : n + 1 \in S
    PROVE  \A n \in Nat : n \in S
<1>1. IsWellFoundedOn(Less, Nat)
  BY NatLessThanWellFounded DEF OpToRel, Less
<1>2. SUFFICES ASSUME Nat \ S # {} PROVE FALSE
  OBVIOUS
<1>3. PICK n \in Nat \ S : \A m \in Nat \ S : ~ (<<m, n>> \in Less)
  BY <1>1, <1>2, WFMin, Zenon
<1>4. n - 1 \in Nat /\ n - 1 < n /\ (n - 1) + 1 = n
  BY <1>3
<1>5. <<n - 1, n>> \in Less
  BY <1>3, <1>4 DEF Less
<1>6. n - 1 \in S
  BY <1>3, <1>4, <1>5
<1> QED BY <1>3, <1>4, <1>6

-----------------------------------------------------------------------------------
(* The block tree.                                                                 *)

IsWalk(f, b, k) == f = [h \in 0 .. k |-> IF h = 0 THEN b ELSE Prev[f[h - 1]]]

\* A chain is a finite set of blocks with one block at each height from 0 up.
LEMMA ChainRight ==
    \A b \in Tree :
        /\ Chain[b] \subseteq Tree /\ IsFiniteSet(Chain[b])
        /\ Genesis \in Chain[b]
        /\ \A c, d \in Chain[b] : Height[c] = Height[d] => c = d
        /\ \A c \in Chain[b] : Height[c] <= Height[b]
        /\ \A h \in 0 .. Height[b] : \E c \in Chain[b] : Height[c] = h

\* The walk back from a block is defined, whatever its length.
<1>WalkDefined.
    ASSUME NEW b, NEW k \in Nat
    PROVE  \E f : IsWalk(f, b, k)
  <2> USE <1>WalkDefined
  <2> DEFINE S == {i \in Nat : \E f : IsWalk(f, b, i)}
  <2>1. 0 \in S
    <3> DEFINE f == [h \in 0 .. 0 |-> b]
    <3>1. IsWalk(f, b, 0)
      BY DEF IsWalk
    <3> QED BY <3>1
  <2>2. ASSUME NEW i \in S PROVE i + 1 \in S
    <3>1. PICK f : IsWalk(f, b, i)
      OBVIOUS
    <3> DEFINE g == [h \in 0 .. i + 1 |-> IF h <= i THEN f[h] ELSE Prev[f[i]]]
    <3>2. \A h \in 0 .. i : f[h] = IF h = 0 THEN b ELSE Prev[f[h - 1]]
      BY <3>1 DEF IsWalk
    <3>3. ASSUME NEW h \in 0 .. i + 1 PROVE g[h] = IF h = 0 THEN b ELSE Prev[g[h - 1]]
      <4>1. CASE h <= i
        BY <3>2, <4>1
      <4>2. CASE h = i + 1
        BY <3>2, <4>2
      <4> QED BY <4>1, <4>2
    <3>4. g = [h \in 0 .. i + 1 |-> IF h = 0 THEN b ELSE Prev[g[h - 1]]]
      <4> HIDE DEF g
      <4>1. g = [h \in 0 .. i + 1 |-> g[h]]
        BY DEF g
      <4> QED BY <3>3, <4>1, Zenon
    <3>5. IsWalk(g, b, i + 1)
      <4> HIDE DEF g
      <4> QED BY <3>4 DEF IsWalk
    <3> HIDE DEF g
    <3> QED BY <3>5
  <2> HIDE DEF S
  <2>3. S \in SUBSET Nat
    BY DEF S
  <2>4. k \in S
    BY <2>1, <2>2, <2>3, AllNumbers
  <2> QED BY <2>4 DEF S

\* A block's chain is what the walk back from it visits, one block at each height,
\* down to the genesis block.
<1>WalkRight.
    ASSUME NEW b \in Tree
    PROVE  \E f \in [0 .. Height[b] -> Tree] :
             /\ Chain[b] = {f[h] : h \in 0 .. Height[b]}
             /\ f[0] = b
             /\ \A h \in 0 .. Height[b] : Height[f[h]] = Height[b] - h
  <2> USE <1>WalkRight
  <2> DEFINE f == CHOOSE f : IsWalk(f, b, Height[b])
  <2>1. Height[b] \in Nat
    BY TreeAssumption
  <2>2. IsWalk(f, b, Height[b])
    BY <2>1, <1>WalkDefined
  <2>3. Chain[b] = {f[h] : h \in 0 .. Height[b]}
    BY DEF Chain, IsWalk
  <2> HIDE DEF f
  <2>4. f = [h \in 0 .. Height[b] |-> IF h = 0 THEN b ELSE Prev[f[h - 1]]]
    BY <2>2, Zenon DEF IsWalk
  <2> DEFINE S == {h \in Nat : h <= Height[b] => f[h] \in Tree /\ Height[f[h]] = Height[b] - h}
  <2>5. 0 \in S
    BY <2>1, <2>4
  <2>6. ASSUME NEW h \in S PROVE h + 1 \in S
    <3>1. SUFFICES ASSUME h + 1 <= Height[b]
                   PROVE  f[h + 1] \in Tree /\ Height[f[h + 1]] = Height[b] - (h + 1)
      OBVIOUS
    <3>2. f[h] \in Tree /\ Height[f[h]] = Height[b] - h
      BY <2>1, <3>1
    <3>3. f[h] # Genesis
      BY <2>1, <3>1, <3>2, TreeAssumption
    <3>4. f[h] \in Block
      BY <3>2, <3>3 DEF Tree
    <3>5. f[h + 1] = Prev[f[h]]
      BY <2>1, <2>4, <3>1
    <3>6. Height[f[h]] = Height[Prev[f[h]]] + 1 /\ Prev[f[h]] \in Tree
      BY <3>4, TreeAssumption
    <3>7. Height[Prev[f[h]]] \in Nat
      BY <3>6, TreeAssumption
    <3> QED BY <2>1, <3>2, <3>5, <3>6, <3>7
  <2>7. \A h \in Nat : h \in S
    <3> HIDE DEF S
    <3>1. S \in SUBSET Nat
      BY DEF S
    <3> QED BY <2>5, <2>6, <3>1, AllNumbers
  <2>8. \A h \in 0 .. Height[b] : f[h] \in Tree /\ Height[f[h]] = Height[b] - h
    BY <2>1, <2>7
  <2>9. f \in [0 .. Height[b] -> Tree]
    BY <2>4, <2>8
  <2>10. f[0] = b
    BY <2>1, <2>4
  <2> QED BY <2>3, <2>8, <2>9, <2>10, Zenon

<1> SUFFICES ASSUME NEW b \in Tree
             PROVE  /\ Chain[b] \subseteq Tree /\ IsFiniteSet(Chain[b])
                    /\ Genesis \in Chain[b]
                    /\ \A c, d \in Chain[b] : Height[c] = Height[d] => c = d
                    /\ \A c \in Chain[b] : Height[c] <= Height[b]
                    /\ \A h \in 0 .. Height[b] : \E c \in Chain[b] : Height[c] = h
  OBVIOUS
<1>1. PICK f \in [0 .. Height[b] -> Tree] :
             /\ Chain[b] = {f[h] : h \in 0 .. Height[b]}
             /\ f[0] = b
             /\ \A h \in 0 .. Height[b] : Height[f[h]] = Height[b] - h
  BY <1>WalkRight
<1>2. Height[b] \in Nat
  BY TreeAssumption
<1>3. Chain[b] \subseteq Tree
  BY <1>1
<1>4. IsFiniteSet(Chain[b])
  <2>1. f \in Surjection(0 .. Height[b], Chain[b])
    BY <1>1 DEF Surjection
  <2>2. IsFiniteSet(0 .. Height[b])
    BY <1>2, FS_Interval
  <2> QED BY <2>1, <2>2, FS_Surjection
<1>5. \A c, d \in Chain[b] : Height[c] = Height[d] => c = d
  <2>1. SUFFICES ASSUME NEW c \in Chain[b], NEW d \in Chain[b], Height[c] = Height[d]
                 PROVE  c = d
    OBVIOUS
  <2>2. PICK i \in 0 .. Height[b] : c = f[i]
    BY <1>1
  <2>3. PICK j \in 0 .. Height[b] : d = f[j]
    BY <1>1
  <2>4. i = j
    BY <1>1, <1>2, <2>1, <2>2, <2>3
  <2> QED BY <2>2, <2>3, <2>4
<1>6. \A c \in Chain[b] : Height[c] <= Height[b]
  <2>1. SUFFICES ASSUME NEW c \in Chain[b] PROVE Height[c] <= Height[b]
    OBVIOUS
  <2>2. PICK i \in 0 .. Height[b] : c = f[i]
    BY <1>1
  <2> QED BY <1>1, <1>2, <2>2
<1>7. ASSUME NEW h \in 0 .. Height[b] PROVE \E c \in Chain[b] : Height[c] = h
  <2>1. Height[b] - h \in 0 .. Height[b]
    BY <1>2
  <2>2. Height[f[Height[b] - h]] = h
    BY <1>1, <1>2, <2>1
  <2> QED BY <1>1, <2>1, <2>2
<1>8. Genesis \in Chain[b]
  <2>1. PICK c \in Chain[b] : Height[c] = 0
    BY <1>2, <1>7
  <2>2. c \notin Block
    <3>1. SUFFICES ASSUME c \in Block PROVE FALSE
      OBVIOUS
    <3>2. Height[c] = Height[Prev[c]] + 1 /\ Height[Prev[c]] \in Nat
      BY <3>1, TreeAssumption
    <3> QED BY <2>1, <3>2
  <2>3. c \in Block \cup {Genesis}
    BY <1>3 DEF Tree
  <2> QED BY <2>2, <2>3
<1> QED BY <1>3, <1>4, <1>5, <1>6, <1>7, <1>8

-----------------------------------------------------------------------------------
(* Lists without repetition.                                                       *)

\* What the length of a list is.
LEMMA ListFacts ==
    ASSUME NEW T, NEW q \in Seq(T)
    PROVE  /\ Len(q) \in Nat /\ DOMAIN q = 1 .. Len(q) /\ \A i \in 1 .. Len(q) : q[i] \in T
           /\ Len(q) = 0 <=> q = <<>>
  OBVIOUS

\* The empty list.
LEMMA EmptyList ==
    ASSUME NEW T
    PROVE  <<>> \in Seq(T)
  OBVIOUS

\* An array of elements of T is a list.
LEMMA ArrayFacts ==
    ASSUME NEW T, NEW k \in Nat, NEW q \in [1 .. k -> T]
    PROVE  q \in Seq(T) /\ Len(q) = k
  OBVIOUS

\* Lists grow with what they may hold.
LEMMA WiderList ==
    ASSUME NEW T, NEW U, T \subseteq U, NEW q \in Seq(T)
    PROVE  q \in Seq(U)
<1>1. Len(q) \in Nat /\ q \in [1 .. Len(q) -> T]
  OBVIOUS
<1>2. q \in [1 .. Len(q) -> U]
  BY <1>1
<1> QED BY <1>1, <1>2, ArrayFacts

\* What a part of a list holds.
LEMMA PartFacts ==
    ASSUME NEW T, NEW q, NEW i \in Int, NEW j \in Int, \A k \in i .. j : q[k] \in T
    PROVE  /\ SubSeq(q, i, j) \in Seq(T)
           /\ Len(SubSeq(q, i, j)) = IF i <= j THEN j - i + 1 ELSE 0
           /\ \A k \in 1 .. j - i + 1 : SubSeq(q, i, j)[k] = q[i + k - 1]
           /\ j < i => SubSeq(q, i, j) = <<>>
  OBVIOUS

Distinct(q) == \A i, j \in DOMAIN q : q[i] = q[j] => i = j
On(q, b) == \E i \in DOMAIN q : q[i] = b

\* ByHeight lists a finite set of blocks of one chain, each once.
LEMMA ByHeightRight ==
    ASSUME NEW S \in SUBSET Tree, IsFiniteSet(S),
           \A b, c \in S : Height[b] = Height[c] => b = c
    PROVE  /\ ByHeight[S] \in Seq(S) /\ Len(ByHeight[S]) = Cardinality(S)
           /\ Distinct(ByHeight[S])
<1> DEFINE Low(b) == {c \in S : Height[c] <= Height[b]}
           rank == [b \in S |-> Cardinality(Low(b))]
           size == Cardinality(S)
<1>0. ByHeight[S] = [k \in 1 .. size |-> CHOOSE b \in S : Cardinality(Low(b)) = k]
  BY Zenon DEF ByHeight
<1>1. size \in Nat
  BY FS_CardinalityType
<1>2. \A b \in S : Height[b] \in Nat
  BY TreeAssumption
<1>3. ASSUME NEW b \in S PROVE IsFiniteSet(Low(b)) /\ Cardinality(Low(b)) \in 1 .. size
  <2>1. IsFiniteSet(Low(b)) /\ Cardinality(Low(b)) <= size
    BY FS_Subset
  <2>2. b \in Low(b)
    BY <1>2
  <2>3. Cardinality(Low(b)) # 0
    BY <2>1, <2>2, FS_EmptySet
  <2>4. Cardinality(Low(b)) \in Nat
    BY <2>1, FS_CardinalityType
  <2> QED BY <1>1, <2>1, <2>3, <2>4
<1>a. \A b \in S : IsFiniteSet(Low(b)) /\ Cardinality(Low(b)) \in Nat
  <2> HIDE DEF Low
  <2> QED BY <1>1, <1>3
<1>4. ASSUME NEW b \in S, NEW c \in S, Height[b] < Height[c]
      PROVE  Cardinality(Low(b)) < Cardinality(Low(c))
  <2>1. Low(b) \subseteq Low(c) \ {c}
    BY <1>2, <1>4
  <2>2. c \in Low(c)
    BY <1>2
  <2>3. IsFiniteSet(Low(c)) /\ Cardinality(Low(c)) \in Nat /\ Cardinality(Low(b)) \in Nat
    BY <1>a
  <2> HIDE DEF Low
  <2>4. IsFiniteSet(Low(c) \ {c}) /\ Cardinality(Low(c) \ {c}) = Cardinality(Low(c)) - 1
    BY <2>2, <2>3, FS_RemoveElement
  <2>5. Cardinality(Low(b)) <= Cardinality(Low(c) \ {c})
    BY <2>1, <2>4, FS_Subset
  <2> QED BY <2>3, <2>4, <2>5
<1>5. rank \in Injection(S, 1 .. size)
  <2>1. rank \in [S -> 1 .. size]
    BY <1>3
  <2>2. ASSUME NEW b \in S, NEW c \in S, rank[b] = rank[c] PROVE b = c
    <3>1. Cardinality(Low(b)) = Cardinality(Low(c))
      BY <2>2
    <3>2. Cardinality(Low(b)) \in Nat /\ Cardinality(Low(c)) \in Nat
      BY <1>a
    <3> HIDE DEF Low
    <3>3. ~(Height[b] < Height[c]) /\ ~(Height[c] < Height[b])
      BY <1>4, <3>1, <3>2
    <3> QED BY <1>2, <3>3
  <2> HIDE DEF rank
  <2> QED BY <2>1, <2>2 DEF Injection, IsInjective
<1>6. rank \in Surjection(S, 1 .. size)
  <2>1. IsFiniteSet(1 .. size) /\ Cardinality(1 .. size) = size
    BY <1>1, FS_Interval
  <2> HIDE DEF rank
  <2> QED BY <1>5, <2>1, FS_Injection
<1>7. ASSUME NEW k \in 1 .. size
      PROVE  ByHeight[S][k] \in S /\ Cardinality(Low(ByHeight[S][k])) = k
  <2>1. PICK b \in S : rank[b] = k
    BY <1>6, Zenon DEF Surjection
  <2>2. Cardinality(Low(b)) = k
    BY <2>1
  <2>3. ByHeight[S][k] = CHOOSE c \in S : Cardinality(Low(c)) = k
    BY <1>0, Zenon
  <2> HIDE DEF Low
  <2> QED BY <2>2, <2>3
<1>8. DOMAIN ByHeight[S] = 1 .. size /\ ByHeight[S] \in [1 .. size -> S]
  BY <1>0, <1>7, Zenon
<1>9. ByHeight[S] \in Seq(S) /\ Len(ByHeight[S]) = size
  <2>1. PICK q : q = ByHeight[S]
    OBVIOUS
  <2>2. q \in [1 .. size -> S]
    BY <1>8, <2>1
  <2>3. q \in Seq(S)
    BY <1>1, <2>2, ArrayFacts
  <2>4. Len(q) = size
    BY <1>1, <2>2, <2>3, ListFacts
  <2> QED BY <2>1, <2>3, <2>4
<1>10. Distinct(ByHeight[S])
  <2> HIDE DEF Low
  <2> QED BY <1>7, <1>8 DEF Distinct
<1> QED BY <1>9, <1>10

-----------------------------------------------------------------------------------
(* The invariant of the record net.                                                *)

Node == [conn : {"none", "init", "up", "closing", "gone"}, preferred : BOOLEAN,
         sync : BOOLEAN, best : Tree \cup {NoBlock}, unknown : Block \cup {NoBlock},
         common : Tree \cup {NoBlock}, queue : Seq(Block), count : Nat, stalling : BOOLEAN]
Entry == [peer : Peer \cup {NoPeer}, partial : {"none", "open", "filled"},
          asked : {"nothing", "block", "cmpct", "txn"}]
Net == [node : [Peer -> Node], inFlight : [Block -> Entry], downloading : Int,
        nPreferredDownload : Int, nSyncStarted : Int, broken : BOOLEAN]

\* p's list is what mapBlocksInFlight says of p; only a known peer has one or is counted.
PeerFine(n, p) ==
  /\ Distinct(n.node[p].queue) /\ n.node[p].count = Len(n.node[p].queue)
  /\ \A b \in Block : On(n.node[p].queue, b) <=> n.inFlight[b].peer = p
  /\ n.node[p].count # 0 => HasState(n, p)
  /\ n.node[p].preferred => n.node[p].conn \in {"up", "closing"}
  /\ n.node[p].stalling => n.node[p].count # 0

Downloaders(n) == {p \in Peer : n.node[p].count # 0}
Preferred(n) == {p \in Peer : n.node[p].preferred}
Syncing(n) == {p \in Peer : n.node[p].sync}

Counted(n) ==
  /\ n.downloading = Cardinality(Downloaders(n))
  /\ n.nPreferredDownload = Cardinality(Preferred(n))
  /\ n.nSyncStarted = Cardinality(Syncing(n))

\* A peer before its connection, and a block nobody was asked for.
LEMMA NewTypes == NewNode \in Node /\ NotInFlight \in Entry
<1>1. PICK q \in Seq(Block) : q = <<>>
  BY EmptyList, Zenon
<1>2. NewNode = [conn |-> "none", preferred |-> FALSE, sync |-> FALSE, best |-> NoBlock,
                 unknown |-> NoBlock, common |-> NoBlock, queue |-> q, count |-> 0,
                 stalling |-> FALSE]
  BY <1>1 DEF NewNode
<1>3. NewNode \in Node
  <2> HIDE <1>1
  <2> QED BY <1>2 DEF Node
<1>4. NotInFlight \in Entry
  BY DEF NotInFlight, Entry
<1> QED BY <1>3, <1>4

\* What holds of net after every handler: the lists, the map and the counters agree.
Fine(n) == n \in Net /\ (\A p \in Peer : PeerFine(n, p)) /\ Counted(n) /\ ~n.broken

\* The counter of the peers in S follows a step after which they are those in T and
\* that changes at most what p is.
Follows(p, S, T, old, new) ==
  /\ (p \in S <=> p \in T) => new = old
  /\ p \notin S /\ p \in T => new = old + 1
  /\ p \in S /\ p \notin T => new = old - 1

\* From n to m only p's own state and blocks change, p's state is fine after it, and
\* the three counters follow.
OneStep(n, m, p) ==
  /\ m \in Net /\ ~m.broken /\ PeerFine(m, p)
  /\ \A q \in Peer \ {p} : m.node[q] = n.node[q]
  /\ \A b \in Block : \A q \in Peer \ {p} : m.inFlight[b].peer = q <=> n.inFlight[b].peer = q
  /\ Follows(p, Downloaders(n), Downloaders(m), n.downloading, m.downloading)
  /\ Follows(p, Preferred(n), Preferred(m), n.nPreferredDownload, m.nPreferredDownload)
  /\ Follows(p, Syncing(n), Syncing(m), n.nSyncStarted, m.nSyncStarted)

LEMMA OnePeer ==
    \A n : \A m : \A p \in Peer :
      Fine(n) /\ OneStep(n, m, p) =>
        Fine(m)

\* A counter that follows a set of peers is its size.
<1>CountStep.
    ASSUME NEW S \in SUBSET Peer, NEW T \in SUBSET Peer, NEW p \in Peer,
           \A q \in Peer \ {p} : q \in S <=> q \in T,
           NEW old, old = Cardinality(S), NEW new, Follows(p, S, T, old, new)
    PROVE  new = Cardinality(T)
  <2> USE <1>CountStep
  <2>1. IsFiniteSet(S) /\ IsFiniteSet(T)
    BY FS_Subset, PeerAssumption
  <2>2. Cardinality(S) \in Nat /\ Cardinality(T) \in Nat
    BY <2>1, FS_CardinalityType
  <2>3. CASE p \in S <=> p \in T
    <3>1. S = T
      BY <2>3
    <3> QED BY <2>3, <3>1 DEF Follows
  <2>4. CASE p \notin S /\ p \in T
    <3>1. T = S \cup {p}
      BY <2>4
    <3>2. Cardinality(T) = Cardinality(S) + 1
      BY <2>1, <2>4, <3>1, FS_AddElement
    <3> QED BY <2>4, <3>2 DEF Follows
  <2>5. CASE p \in S /\ p \notin T
    <3>1. T = S \ {p}
      BY <2>5
    <3>2. Cardinality(T) = Cardinality(S) - 1
      BY <2>1, <2>5, <3>1, FS_RemoveElement
    <3> QED BY <2>5, <3>2 DEF Follows
  <2> QED BY <2>3, <2>4, <2>5

<1> SUFFICES ASSUME NEW n, NEW m, Fine(n), NEW p \in Peer, OneStep(n, m, p)
             PROVE  Fine(m)
  OBVIOUS
<1>0. \A q \in Peer \ {p} : m.node[q] = n.node[q]
  BY DEF OneStep
<1>1. ASSUME NEW q \in Peer \ {p} PROVE PeerFine(m, q)
  <2>1. PeerFine(n, q)
    BY DEF Fine
  <2>2. m.node[q] = n.node[q]
    BY <1>0
  <2>3. \A b \in Block : m.inFlight[b].peer = q <=> n.inFlight[b].peer = q
    BY DEF OneStep
  <2> QED BY <2>1, <2>2, <2>3 DEF PeerFine, HasState
<1>2. Counted(n)
  BY DEF Fine
<1>3. m.downloading = Cardinality(Downloaders(m))
  <2>1. \A q \in Peer \ {p} : q \in Downloaders(n) <=> q \in Downloaders(m)
    BY <1>0 DEF Downloaders
  <2>2. Downloaders(n) \in SUBSET Peer /\ Downloaders(m) \in SUBSET Peer
    BY DEF Downloaders
  <2>3. n.downloading = Cardinality(Downloaders(n))
    BY <1>2 DEF Counted
  <2>4. Follows(p, Downloaders(n), Downloaders(m), n.downloading, m.downloading)
    BY DEF OneStep
  <2> QED BY <2>1, <2>2, <2>3, <2>4, <1>CountStep, Zenon
<1>4. m.nPreferredDownload = Cardinality(Preferred(m))
  <2>1. \A q \in Peer \ {p} : q \in Preferred(n) <=> q \in Preferred(m)
    BY <1>0 DEF Preferred
  <2>2. Preferred(n) \in SUBSET Peer /\ Preferred(m) \in SUBSET Peer
    BY DEF Preferred
  <2>3. n.nPreferredDownload = Cardinality(Preferred(n))
    BY <1>2 DEF Counted
  <2>4. Follows(p, Preferred(n), Preferred(m), n.nPreferredDownload, m.nPreferredDownload)
    BY DEF OneStep
  <2> QED BY <2>1, <2>2, <2>3, <2>4, <1>CountStep, Zenon
<1>5. m.nSyncStarted = Cardinality(Syncing(m))
  <2>1. \A q \in Peer \ {p} : q \in Syncing(n) <=> q \in Syncing(m)
    BY <1>0 DEF Syncing
  <2>2. Syncing(n) \in SUBSET Peer /\ Syncing(m) \in SUBSET Peer
    BY DEF Syncing
  <2>3. n.nSyncStarted = Cardinality(Syncing(n))
    BY <1>2 DEF Counted
  <2>4. Follows(p, Syncing(n), Syncing(m), n.nSyncStarted, m.nSyncStarted)
    BY DEF OneStep
  <2> QED BY <2>1, <2>2, <2>3, <2>4, <1>CountStep, Zenon
<1>6. Counted(m)
  BY <1>3, <1>4, <1>5 DEF Counted
<1>7. \A q \in Peer : PeerFine(m, q)
  BY <1>1 DEF OneStep
<1>8. m \in Net /\ ~m.broken
  BY DEF OneStep
<1> QED BY <1>6, <1>7, <1>8 DEF Fine

\* What an operation that touches neither lists nor counters leaves alone.
SameLists(n, m) ==
  /\ \A q \in Peer : /\ m.node[q].queue = n.node[q].queue
                     /\ m.node[q].count = n.node[q].count
                     /\ m.node[q].preferred = n.node[q].preferred
                     /\ m.node[q].sync = n.node[q].sync
                     /\ m.node[q].stalling = n.node[q].stalling
                     /\ HasState(n, q) => HasState(m, q)
                     /\ n.node[q].conn \in {"up", "closing"} => m.node[q].conn \in {"up", "closing"}
  /\ \A b \in Block : m.inFlight[b].peer = n.inFlight[b].peer
  /\ m.downloading = n.downloading
  /\ m.nPreferredDownload = n.nPreferredDownload
  /\ m.nSyncStarted = n.nSyncStarted
  /\ m.broken = n.broken

LEMMA SameFine ==
    ASSUME NEW n, NEW m \in Net, Fine(n), SameLists(n, m)
    PROVE  Fine(m)
<1>1. \A q \in Peer : PeerFine(n, q)
  BY DEF Fine
<1>2. ASSUME NEW q \in Peer PROVE PeerFine(m, q)
  <2>1. PeerFine(n, q)
    BY <1>1
  <2>2. /\ m.node[q].queue = n.node[q].queue /\ m.node[q].count = n.node[q].count
        /\ m.node[q].preferred = n.node[q].preferred
        /\ m.node[q].stalling = n.node[q].stalling
        /\ HasState(n, q) => HasState(m, q)
        /\ n.node[q].conn \in {"up", "closing"} => m.node[q].conn \in {"up", "closing"}
        /\ \A b \in Block : m.inFlight[b].peer = n.inFlight[b].peer
    BY DEF SameLists
  <2> QED BY <2>1, <2>2 DEF PeerFine
<1>3. Downloaders(m) = Downloaders(n) /\ Preferred(m) = Preferred(n) /\ Syncing(m) = Syncing(n)
  BY DEF SameLists, Downloaders, Preferred, Syncing
<1>4. Counted(m)
  <2>1. Counted(n)
    BY DEF Fine
  <2> QED BY <1>3, <2>1 DEF Counted, SameLists
<1>5. ~m.broken
  BY DEF Fine, SameLists
<1> QED BY <1>2, <1>4, <1>5 DEF Fine

-----------------------------------------------------------------------------------
(* The operations on net.                                                          *)

\* MarkBlockAsReceived: its peer is known, and b is on nobody's list afterwards.
LEMMA ReceivedFine ==
    \A n : \A b \in Block :
      Fine(n) =>
        /\ Fine(MarkBlockAsReceived(n, b))
        /\ MarkBlockAsReceived(n, b).inFlight[b].peer = NoPeer
        /\ \A c \in Block \ {b} : MarkBlockAsReceived(n, b).inFlight[c] = n.inFlight[c]
        /\ \A q \in Peer : MarkBlockAsReceived(n, b).node[q].conn = n.node[q].conn

\* What two lists hold, one behind the other.
<1>JoinFacts.
    ASSUME NEW T, NEW q \in Seq(T), NEW r \in Seq(T)
    PROVE  /\ q \o r \in Seq(T) /\ Len(q \o r) = Len(q) + Len(r)
           /\ \A i \in 1 .. Len(q) + Len(r) :
                (q \o r)[i] = IF i <= Len(q) THEN q[i] ELSE r[i - Len(q)]
  BY <1>JoinFacts

\* Erase takes one block off the list and leaves the others.
<1>EraseRight.
    ASSUME NEW T, NEW q \in Seq(T), Distinct(q), NEW b, On(q, b)
    PROVE  /\ Erase(q, b) \in Seq(T) /\ Len(Erase(q, b)) = Len(q) - 1
           /\ Distinct(Erase(q, b))
           /\ \A c : On(Erase(q, b), c) <=> c # b /\ On(q, c)
  <2> USE <1>EraseRight
  <2>1. Len(q) \in Nat /\ DOMAIN q = 1 .. Len(q) /\ \A i \in 1 .. Len(q) : q[i] \in T
    BY ListFacts
  <2> DEFINE k == CHOOSE i \in DOMAIN q : q[i] = b
             r == Erase(q, b)
             s1 == SubSeq(q, 1, k - 1)
             s2 == SubSeq(q, k + 1, Len(q))
  <2>2. k \in 1 .. Len(q) /\ q[k] = b
    BY <2>1 DEF On
  <2>3. r = s1 \o s2
    BY DEF Erase
  <2> HIDE DEF k
  <2>4. /\ s1 \in Seq(T) /\ Len(s1) = k - 1
        /\ \A i \in 1 .. k - 1 : s1[i] = q[i]
    <3>1. \A i \in 1 .. k - 1 : q[i] \in T
      BY <2>1, <2>2
    <3>2. k - 1 \in Int /\ 1 \in Int
      BY <2>2
    <3>3. /\ s1 \in Seq(T) /\ Len(s1) = IF 1 <= k - 1 THEN k - 1 - 1 + 1 ELSE 0
          /\ \A i \in 1 .. k - 1 - 1 + 1 : s1[i] = q[1 + i - 1]
      BY <3>1, <3>2, PartFacts
    <3> HIDE DEF s1
    <3> QED BY <2>2, <3>3
  <2>5. /\ s2 \in Seq(T) /\ Len(s2) = Len(q) - k
        /\ \A i \in 1 .. Len(q) - k : s2[i] = q[k + i]
    <3>1. \A i \in k + 1 .. Len(q) : q[i] \in T
      BY <2>1, <2>2
    <3>2. k + 1 \in Int /\ Len(q) \in Int
      BY <2>1, <2>2
    <3>3. /\ s2 \in Seq(T) /\ Len(s2) = IF k + 1 <= Len(q) THEN Len(q) - (k + 1) + 1 ELSE 0
          /\ \A i \in 1 .. Len(q) - (k + 1) + 1 : s2[i] = q[k + 1 + i - 1]
      BY <3>1, <3>2, PartFacts
    <3> HIDE DEF s2
    <3>4. Len(s2) = Len(q) - k
      <4>1. Len(s2) = IF k + 1 <= Len(q) THEN Len(q) - (k + 1) + 1 ELSE 0
        BY <3>3
      <4>2. Len(q) \in Nat /\ k \in Nat /\ k <= Len(q)
        BY <2>1, <2>2
      <4>3. CASE k = Len(q)
        BY <4>1, <4>2, <4>3
      <4>4. CASE k + 1 <= Len(q)
        BY <4>1, <4>2, <4>4
      <4> QED BY <4>2, <4>3, <4>4
    <3>5. ASSUME NEW i \in 1 .. Len(q) - k PROVE s2[i] = q[k + i]
      <4>1. i \in 1 .. Len(q) - (k + 1) + 1 /\ k + 1 + i - 1 = k + i
        BY <2>1, <2>2
      <4> QED BY <3>3, <4>1
    <3> QED BY <3>3, <3>4, <3>5
  <2> HIDE DEF r, s1, s2
  <2>6. /\ r \in Seq(T) /\ Len(r) = Len(q) - 1
        /\ \A i \in 1 .. Len(q) - 1 : r[i] = IF i < k THEN q[i] ELSE q[i + 1]
    <3>1. /\ s1 \o s2 \in Seq(T)
          /\ Len(s1 \o s2) = Len(s1) + Len(s2)
          /\ \A i \in 1 .. Len(s1) + Len(s2) : (s1 \o s2)[i] =
                       IF i <= Len(s1) THEN s1[i] ELSE s2[i - Len(s1)]
      BY <2>4, <2>5, <1>JoinFacts, Zenon
    <3>2. Len(s1) + Len(s2) = Len(q) - 1
      BY <2>1, <2>2, <2>4, <2>5
    <3>3. ASSUME NEW i \in 1 .. Len(q) - 1 PROVE r[i] = IF i < k THEN q[i] ELSE q[i + 1]
      <4>1. CASE i < k
        BY <2>1, <2>2, <2>3, <2>4, <3>1, <3>2, <4>1
      <4>2. CASE ~(i < k)
        <5>1. r[i] = s2[i - (k - 1)]
          BY <2>1, <2>2, <2>3, <2>4, <3>1, <3>2, <4>2, SMTT(20)
        <5>2. i - (k - 1) \in 1 .. Len(q) - k /\ k + (i - (k - 1)) = i + 1
          BY <2>1, <2>2, <4>2
        <5> QED BY <2>5, <4>2, <5>1, <5>2
      <4> QED BY <4>1, <4>2
    <3> QED BY <2>3, <3>1, <3>2, <3>3
  <2>7. DOMAIN r = 1 .. Len(q) - 1
    BY <2>6, ListFacts
  <2>8. Distinct(r)
    <3>1. SUFFICES ASSUME NEW i \in 1 .. Len(q) - 1, NEW j \in 1 .. Len(q) - 1, r[i] = r[j]
                   PROVE  i = j
      BY <2>7 DEF Distinct
    <3>2. \A x, y \in 1 .. Len(q) : q[x] = q[y] => x = y
      BY <2>1 DEF Distinct
    <3>3. i \in 1 .. Len(q) /\ j \in 1 .. Len(q) /\ i + 1 \in 1 .. Len(q) /\ j + 1 \in 1 .. Len(q)
      BY <2>1
    <3> QED BY <2>1, <2>2, <2>6, <3>1, <3>2, <3>3, SMTT(20)
  <2>9. ASSUME NEW c, On(r, c) PROVE c # b /\ On(q, c)
    <3>1. PICK i \in 1 .. Len(q) - 1 : r[i] = c
      BY <2>7, <2>9 DEF On
    <3>2. \A x, y \in 1 .. Len(q) : q[x] = q[y] => x = y
      BY <2>1 DEF Distinct
    <3>3. i \in 1 .. Len(q) /\ i + 1 \in 1 .. Len(q)
      BY <2>1
    <3>4. PICK j \in 1 .. Len(q) : q[j] = c /\ j # k
      BY <2>1, <2>2, <2>6, <3>1, <3>3
    <3> QED BY <2>1, <2>2, <3>2, <3>4 DEF On
  <2>10. ASSUME NEW c, c # b, On(q, c) PROVE On(r, c)
    <3>1. PICK i \in 1 .. Len(q) : q[i] = c
      BY <2>1, <2>10 DEF On
    <3>2. i # k
      BY <2>2, <2>10, <3>1
    <3>3. CASE i < k
      <4>1. i \in 1 .. Len(q) - 1 /\ r[i] = c
        BY <2>1, <2>2, <2>6, <3>1, <3>3
      <4> QED BY <2>7, <4>1 DEF On
    <3>4. CASE i > k
      <4>1. i - 1 \in 1 .. Len(q) - 1 /\ ~(i - 1 < k) /\ (i - 1) + 1 = i
        BY <2>1, <2>2, <3>1, <3>4
      <4>2. r[i - 1] = c
        BY <2>6, <3>1, <4>1
      <4> QED BY <2>7, <4>1, <4>2 DEF On
    <3> QED BY <2>1, <2>2, <3>1, <3>2, <3>3, <3>4
  <2> QED BY <2>6, <2>8, <2>9, <2>10 DEF r

<1> SUFFICES ASSUME NEW n, Fine(n), NEW b \in Block
             PROVE  /\ Fine(MarkBlockAsReceived(n, b))
                    /\ MarkBlockAsReceived(n, b).inFlight[b].peer = NoPeer
                    /\ \A c \in Block \ {b} : MarkBlockAsReceived(n, b).inFlight[c] = n.inFlight[c]
                    /\ \A q \in Peer : MarkBlockAsReceived(n, b).node[q].conn = n.node[q].conn
  OBVIOUS
<1>1. n \in Net /\ ~n.broken
  BY DEF Fine
<1>2. CASE n.inFlight[b].peer = NoPeer
  BY <1>2 DEF MarkBlockAsReceived
<1>3. CASE n.inFlight[b].peer # NoPeer
  <2>1. PICK p \in Peer : p = n.inFlight[b].peer
    BY <1>1, <1>3 DEF Net, Entry
  <2>2. PeerFine(n, p)
    BY DEF Fine
  <2>3. PICK q \in Seq(Block) : q = n.node[p].queue
    BY <1>1 DEF Net, Node
  <2>4. Distinct(q) /\ On(q, b) /\ n.node[p].count = Len(q)
    BY <2>1, <2>2, <2>3, Zenon DEF PeerFine
  <2>5. PICK r \in Seq(Block) : r = Erase(q, b)
    BY <2>4, <1>EraseRight
  <2>6. /\ Len(r) = Len(q) - 1 /\ Distinct(r)
        /\ \A c : On(r, c) <=> c # b /\ On(q, c)
    BY <2>4, <2>5, <1>EraseRight
  <2>7. Len(q) \in Nat /\ Len(r) \in Nat
    BY ListFacts
  <2>8. n.node[p].count # 0 /\ HasState(n, p)
    BY <2>2, <2>4, <2>6, <2>7 DEF PeerFine
  <2> DEFINE m == MarkBlockAsReceived(n, b)
             left == n.node[p].count - 1
  <2>9. m = [n EXCEPT !.node[p].queue = r, !.node[p].count = left,
                      !.node[p].stalling = FALSE, !.inFlight[b] = NotInFlight,
                      !.downloading = IF left = 0 THEN n.downloading - 1 ELSE n.downloading]
    BY <1>1, <2>1, <2>3, <2>5, <2>8, <1>3, Zenon DEF MarkBlockAsReceived, Net
  <2>10. left = Len(r) /\ left \in Nat
    BY <2>4, <2>6, <2>7
  <2> HIDE DEF m, left
  <2>11. NotInFlight \in Entry /\ NotInFlight.peer = NoPeer
    BY DEF Entry, NotInFlight
  <2>12. /\ m.node[p].queue = r /\ m.node[p].count = left /\ m.node[p].stalling = FALSE
         /\ m.node[p].conn = n.node[p].conn /\ m.node[p].preferred = n.node[p].preferred
         /\ m.node[p].sync = n.node[p].sync
         /\ \A x \in Peer \ {p} : m.node[x] = n.node[x]
    BY <1>1, <2>9 DEF Net, Node
  <2>13. /\ m.inFlight[b] = NotInFlight
         /\ \A c \in Block \ {b} : m.inFlight[c] = n.inFlight[c]
    BY <1>1, <2>9 DEF Net
  <2>14. /\ m.downloading = IF left = 0 THEN n.downloading - 1 ELSE n.downloading
         /\ m.nPreferredDownload = n.nPreferredDownload /\ m.nSyncStarted = n.nSyncStarted
         /\ m.broken = n.broken
    BY <1>1, <2>9 DEF Net
  <2>15. m \in Net
    <3>1. m.node \in [Peer -> Node]
      <4>0. n.node[p] \in Node
        BY <1>1 DEF Net
      <4>1. [n.node[p] EXCEPT !.queue = r, !.count = left, !.stalling = FALSE] \in Node
        BY <2>10, <4>0, Zenon DEF Node
      <4>2. m.node = [n.node EXCEPT ![p] = [n.node[p] EXCEPT !.queue = r, !.count = left,
                                                             !.stalling = FALSE]]
        BY <1>1, <2>9, Zenon DEF Net
      <4> QED BY <1>1, <4>1, <4>2 DEF Net
    <3>2. m.inFlight \in [Block -> Entry]
      BY <1>1, <2>9, <2>11 DEF Net
    <3>3. m.downloading \in Int
      BY <1>1, <2>14 DEF Net
    <3>4. m = [node |-> m.node, inFlight |-> m.inFlight, downloading |-> m.downloading,
               nPreferredDownload |-> m.nPreferredDownload, nSyncStarted |-> m.nSyncStarted,
               broken |-> m.broken]
      BY <1>1, <2>9, Zenon DEF Net
    <3> QED BY <1>1, <2>14, <3>1, <3>2, <3>3, <3>4 DEF Net
  <2>16. \A c \in Block : On(r, c) <=> m.inFlight[c].peer = p
    <3>1. \A c \in Block : On(q, c) <=> n.inFlight[c].peer = p
      BY <2>2, <2>3 DEF PeerFine
    <3> QED BY <2>1, <2>6, <2>11, <2>13, <3>1, TreeAssumption, Zenon
  <2>17. PeerFine(m, p)
    <3>1. HasState(m, p)
      BY <2>8, <2>12 DEF HasState
    <3> QED BY <2>2, <2>6, <2>10, <2>12, <2>16, <3>1 DEF PeerFine
  <2>18. \A c \in Block : \A x \in Peer \ {p} : m.inFlight[c].peer = x <=> n.inFlight[c].peer = x
    BY <2>1, <2>11, <2>13, TreeAssumption, Zenon
  <2>19. Follows(p, Downloaders(n), Downloaders(m), n.downloading, m.downloading)
    BY <2>8, <2>12, <2>14 DEF Follows, Downloaders
  <2>20. /\ Follows(p, Preferred(n), Preferred(m), n.nPreferredDownload, m.nPreferredDownload)
         /\ Follows(p, Syncing(n), Syncing(m), n.nSyncStarted, m.nSyncStarted)
    BY <2>12, <2>14, Zenon DEF Follows, Preferred, Syncing
  <2>21. OneStep(n, m, p)
    BY <1>1, <2>12, <2>14, <2>15, <2>17, <2>18, <2>19, <2>20 DEF OneStep
  <2>22. Fine(m)
    BY <2>21, OnePeer
  <2> QED BY <2>11, <2>12, <2>13, <2>22 DEF m
<1> QED BY <1>2, <1>3

\* MarkBlockAsInFlight for a peer that is known.
LEMMA InFlightFine ==
    \A n : \A p \in Peer : \A b \in Block : \A e \in Entry :
      Fine(n) /\ HasState(n, p) /\ e.peer = p =>
        /\ Fine(MarkBlockAsInFlight(n, p, b, e))
        /\ MarkBlockAsInFlight(n, p, b, e).inFlight[b] = e
        /\ \A c \in Block \ {b} : MarkBlockAsInFlight(n, p, b, e).inFlight[c] = n.inFlight[c]
        /\ \A q \in Peer : MarkBlockAsInFlight(n, p, b, e).node[q].conn = n.node[q].conn

\* What a list holds with one element more.
<1>AppendFacts.
    ASSUME NEW T, NEW q \in Seq(T), NEW b \in T
    PROVE  /\ Append(q, b) \in Seq(T) /\ Len(Append(q, b)) = Len(q) + 1
           /\ Append(q, b)[Len(q) + 1] = b /\ \A i \in 1 .. Len(q) : Append(q, b)[i] = q[i]
  BY <1>AppendFacts

\* Append puts one block on the list.
<1>AppendRight.
    ASSUME NEW T, NEW q \in Seq(T), Distinct(q), NEW b \in T, ~On(q, b)
    PROVE  /\ Append(q, b) \in Seq(T) /\ Len(Append(q, b)) = Len(q) + 1
           /\ Distinct(Append(q, b))
           /\ \A c : On(Append(q, b), c) <=> c = b \/ On(q, c)
  <2> USE <1>AppendRight
  <2>1. Len(q) \in Nat /\ DOMAIN q = 1 .. Len(q)
    BY ListFacts
  <2>2. PICK r \in Seq(T) : r = Append(q, b)
    BY <1>AppendFacts, Zenon
  <2>3. /\ Len(r) = Len(q) + 1 /\ \A i \in 1 .. Len(q) : r[i] = q[i]
        /\ r[Len(q) + 1] = b
    BY <2>2, <1>AppendFacts
  <2>4. DOMAIN r = 1 .. Len(q) + 1
    BY <2>3, ListFacts
  <2>5. Distinct(r)
    BY <2>1, <2>3, <2>4 DEF Distinct, On
  <2>6. \A c : On(r, c) => c = b \/ On(q, c)
    BY <2>1, <2>3, <2>4 DEF On
  <2>7. \A c : On(q, c) => On(r, c)
    BY <2>1, <2>3, <2>4 DEF On
  <2>8. On(r, b)
    BY <2>1, <2>3, <2>4 DEF On
  <2> QED BY <2>2, <2>3, <2>5, <2>6, <2>7, <2>8

<1> SUFFICES ASSUME NEW n, Fine(n), NEW p \in Peer, NEW b \in Block, HasState(n, p),
           NEW e \in Entry, e.peer = p
             PROVE  /\ Fine(MarkBlockAsInFlight(n, p, b, e))
                    /\ MarkBlockAsInFlight(n, p, b, e).inFlight[b] = e
                    /\ \A c \in Block \ {b} : MarkBlockAsInFlight(n, p, b, e).inFlight[c] = n.inFlight[c]
                    /\ \A q \in Peer : MarkBlockAsInFlight(n, p, b, e).node[q].conn = n.node[q].conn
  OBVIOUS
<1>1. PICK m : m = MarkBlockAsReceived(n, b)
  OBVIOUS
<1>2. /\ Fine(m) /\ m.inFlight[b].peer = NoPeer
      /\ \A c \in Block \ {b} : m.inFlight[c] = n.inFlight[c]
      /\ \A q \in Peer : m.node[q].conn = n.node[q].conn
  BY <1>1, ReceivedFine
<1>3. m \in Net /\ ~m.broken /\ PeerFine(m, p) /\ m.node[p] \in Node
  BY <1>2 DEF Fine, Net
<1>4. PICK q \in Seq(Block) : q = m.node[p].queue
  BY <1>3 DEF Node
<1>5. Distinct(q) /\ ~On(q, b) /\ m.node[p].count = Len(q) /\ Len(q) \in Nat
  <2>1. p # NoPeer
    BY TreeAssumption
  <2> QED BY <1>2, <1>3, <1>4, <2>1, ListFacts DEF PeerFine
<1>6. PICK r \in Seq(Block) : r = Append(q, b)
  BY <1>AppendFacts, Zenon
<1>7. /\ Len(r) = Len(q) + 1 /\ Distinct(r)
      /\ \A c : On(r, c) <=> c = b \/ On(q, c)
  BY <1>5, <1>6, <1>AppendRight
<1> DEFINE k == MarkBlockAsInFlight(n, p, b, e)
           count == m.node[p].count + 1
<1>8. k = [m EXCEPT !.node[p].queue = r, !.node[p].count = count, !.inFlight[b] = e,
                    !.downloading = IF m.node[p].count = 0 THEN m.downloading + 1 ELSE m.downloading]
  BY <1>1, <1>3, <1>4, <1>6 DEF MarkBlockAsInFlight, Net
<1>9. count = Len(r) /\ count \in Nat /\ count # 0
  BY <1>5, <1>7
<1> HIDE DEF k, count
<1>10. /\ k.node[p].queue = r /\ k.node[p].count = count
       /\ k.node[p].stalling = m.node[p].stalling
       /\ k.node[p].conn = m.node[p].conn /\ k.node[p].preferred = m.node[p].preferred
       /\ k.node[p].sync = m.node[p].sync
       /\ \A x \in Peer \ {p} : k.node[x] = m.node[x]
  BY <1>3, <1>8 DEF Net, Node
<1>11. /\ k.inFlight[b] = e
       /\ \A c \in Block \ {b} : k.inFlight[c] = m.inFlight[c]
  BY <1>3, <1>8 DEF Net
<1>12. /\ k.downloading = IF m.node[p].count = 0 THEN m.downloading + 1 ELSE m.downloading
       /\ k.nPreferredDownload = m.nPreferredDownload /\ k.nSyncStarted = m.nSyncStarted
       /\ k.broken = m.broken
  BY <1>3, <1>8 DEF Net
<1>13. k \in Net
  <2>1. [m.node[p] EXCEPT !.queue = r, !.count = count] \in Node
    BY <1>3, <1>9, Zenon DEF Node
  <2>2. k.node = [m.node EXCEPT ![p] = [m.node[p] EXCEPT !.queue = r, !.count = count]]
    BY <1>3, <1>8, Zenon DEF Net
  <2>3. k.node \in [Peer -> Node]
    BY <1>3, <2>1, <2>2 DEF Net
  <2>4. k.inFlight \in [Block -> Entry]
    BY <1>3, <1>8 DEF Net
  <2>5. k.downloading \in Int
    BY <1>3, <1>12 DEF Net
  <2>6. k = [node |-> k.node, inFlight |-> k.inFlight, downloading |-> k.downloading,
             nPreferredDownload |-> k.nPreferredDownload, nSyncStarted |-> k.nSyncStarted,
             broken |-> k.broken]
    BY <1>3, <1>8, Zenon DEF Net
  <2> QED BY <1>3, <1>12, <2>3, <2>4, <2>5, <2>6 DEF Net
<1>14. \A c \in Block : On(r, c) <=> k.inFlight[c].peer = p
  <2>1. \A c \in Block : On(q, c) <=> m.inFlight[c].peer = p
    BY <1>3, <1>4 DEF PeerFine
  <2> QED BY <1>7, <1>11, <2>1
<1>15. PeerFine(k, p)
  <2>1. HasState(k, p)
    BY <1>2, <1>10 DEF HasState
  <2> QED BY <1>3, <1>7, <1>9, <1>10, <1>14, <2>1, Zenon DEF PeerFine
<1>16. \A c \in Block : \A x \in Peer \ {p} : k.inFlight[c].peer = x <=> m.inFlight[c].peer = x
  BY <1>2, <1>11, TreeAssumption, Zenon
<1>17. Follows(p, Downloaders(m), Downloaders(k), m.downloading, k.downloading)
  BY <1>9, <1>10, <1>12, Zenon DEF Follows, Downloaders
<1>18. /\ Follows(p, Preferred(m), Preferred(k), m.nPreferredDownload, k.nPreferredDownload)
       /\ Follows(p, Syncing(m), Syncing(k), m.nSyncStarted, k.nSyncStarted)
  BY <1>10, <1>12 DEF Follows, Preferred, Syncing
<1>19. Fine(k)
  <2>1. OneStep(m, k, p)
    BY <1>3, <1>10, <1>12, <1>13, <1>15, <1>16, <1>17, <1>18, Zenon DEF OneStep
  <2> QED BY <1>2, <2>1, OnePeer
<1>20. \A c \in Block \ {b} : k.inFlight[c] = n.inFlight[c]
  BY <1>2, <1>11
<1>21. \A x \in Peer : k.node[x].conn = n.node[x].conn
  BY <1>2, <1>10
<1> QED BY <1>11, <1>19, <1>20, <1>21 DEF k

IsRound(f, n, p, bs, k) ==
  f = [i \in 0 .. k |-> IF i = 0 THEN n ELSE RequestBlock(f[i - 1], p, bs[i], "block")]

\* The loop that asks p for several blocks, none of them in flight.
LEMMA RequestsFine ==
    \A n : \A p \in Peer : \A bs \in Seq(Block) :
      Fine(n) /\ HasState(n, p) /\ Distinct(bs) /\ (\A i \in DOMAIN bs : n.inFlight[bs[i]].peer = NoPeer) =>
        /\ Fine(RequestBlocks(n, p, bs, "block"))
        /\ bs = <<>> => RequestBlocks(n, p, bs, "block") = n

\* MarkBlockAsInFlight without pit, for a block that nobody has been asked for.
<1>RequestFine.
    ASSUME NEW n, Fine(n), NEW p \in Peer, NEW b \in Block, HasState(n, p),
           n.inFlight[b].peer = NoPeer
    PROVE  /\ Fine(RequestBlock(n, p, b, "block"))
           /\ \A c \in Block \ {b} : RequestBlock(n, p, b, "block").inFlight[c] = n.inFlight[c]
           /\ HasState(RequestBlock(n, p, b, "block"), p)
  <2> USE <1>RequestFine
  <2>0. PICK e : e = [peer |-> p, partial |-> "none", asked |-> "block"]
    BY Zenon
  <2>1. e \in Entry /\ e.peer = p
    BY <2>0 DEF Entry
  <2>2. RequestBlock(n, p, b, "block") = MarkBlockAsInFlight(n, p, b, e)
    BY <2>0, TreeAssumption DEF RequestBlock
  <2>3. /\ Fine(MarkBlockAsInFlight(n, p, b, e))
        /\ \A c \in Block \ {b} : MarkBlockAsInFlight(n, p, b, e).inFlight[c] = n.inFlight[c]
        /\ \A q \in Peer : MarkBlockAsInFlight(n, p, b, e).node[q].conn = n.node[q].conn
    BY <2>1, InFlightFine
  <2> QED BY <2>2, <2>3 DEF HasState

\* The loop over the blocks to ask for is defined.
<1>RoundDefined.
    ASSUME NEW n, NEW p, NEW bs, NEW k \in Nat
    PROVE  \E f : IsRound(f, n, p, bs, k)
  <2> USE <1>RoundDefined
  <2> DEFINE S == {i \in Nat : \E f : IsRound(f, n, p, bs, i)}
  <2>1. 0 \in S
    <3> DEFINE f == [i \in 0 .. 0 |-> n]
    <3>1. IsRound(f, n, p, bs, 0)
      BY DEF IsRound
    <3> QED BY <3>1
  <2>2. ASSUME NEW i \in S PROVE i + 1 \in S
    <3>1. PICK f : IsRound(f, n, p, bs, i)
      OBVIOUS
    <3> DEFINE g == [h \in 0 .. i + 1 |-> IF h <= i THEN f[h] ELSE RequestBlock(f[i], p, bs[i + 1], "block")]
    <3>2. \A h \in 0 .. i : f[h] = IF h = 0 THEN n ELSE RequestBlock(f[h - 1], p, bs[h], "block")
      BY <3>1 DEF IsRound
    <3>3. ASSUME NEW h \in 0 .. i + 1
          PROVE  g[h] = IF h = 0 THEN n ELSE RequestBlock(g[h - 1], p, bs[h], "block")
      <4>1. CASE h <= i
        BY <3>2, <4>1
      <4>2. CASE h = i + 1
        BY <3>2, <4>2
      <4> QED BY <4>1, <4>2
    <3>4. g = [h \in 0 .. i + 1 |-> IF h = 0 THEN n ELSE RequestBlock(g[h - 1], p, bs[h], "block")]
      <4> HIDE DEF g
      <4>1. g = [h \in 0 .. i + 1 |-> g[h]]
        BY DEF g
      <4> QED BY <3>3, <4>1, Zenon
    <3>5. IsRound(g, n, p, bs, i + 1)
      <4> HIDE DEF g
      <4> QED BY <3>4 DEF IsRound
    <3> HIDE DEF g
    <3> QED BY <3>5
  <2> HIDE DEF S
  <2>3. S \in SUBSET Nat
    BY DEF S
  <2>4. k \in S
    BY <2>1, <2>2, <2>3, AllNumbers
  <2> QED BY <2>4 DEF S

<1> SUFFICES ASSUME NEW n, Fine(n), NEW p \in Peer, HasState(n, p), NEW bs \in Seq(Block), Distinct(bs),
           \A i \in DOMAIN bs : n.inFlight[bs[i]].peer = NoPeer
             PROVE  /\ Fine(RequestBlocks(n, p, bs, "block"))
                    /\ bs = <<>> => RequestBlocks(n, p, bs, "block") = n
  OBVIOUS
<1> DEFINE f == CHOOSE f : IsRound(f, n, p, bs, Len(bs))
<1>1. Len(bs) \in Nat /\ DOMAIN bs = 1 .. Len(bs) /\ \A i \in 1 .. Len(bs) : bs[i] \in Block
  BY ListFacts
<1>2. IsRound(f, n, p, bs, Len(bs))
  BY <1>1, <1>RoundDefined, Zenon
<1>3. RequestBlocks(n, p, bs, "block") = f[Len(bs)]
  BY DEF RequestBlocks, IsRound
<1> HIDE DEF f
<1>4. \A i \in 0 .. Len(bs) : f[i] = IF i = 0 THEN n ELSE RequestBlock(f[i - 1], p, bs[i], "block")
  BY <1>2 DEF IsRound
<1> DEFINE Right(i) == /\ Fine(f[i]) /\ HasState(f[i], p)
                       /\ \A j \in 1 .. Len(bs) : i < j => f[i].inFlight[bs[j]].peer = NoPeer
           S == {i \in Nat : i <= Len(bs) => Right(i)}
<1>5. f[0] = n
  BY <1>1, <1>4
<1>6. 0 \in S
  BY <1>1, <1>5
<1>7. ASSUME NEW i \in S PROVE i + 1 \in S
  <2>0. i \in Nat /\ (i <= Len(bs) => Right(i))
    OBVIOUS
  <2>1. SUFFICES ASSUME i + 1 <= Len(bs) PROVE Right(i + 1)
    BY <2>0
  <2>2. i + 1 \in 0 .. Len(bs) /\ i + 1 \in 1 .. Len(bs) /\ i <= Len(bs) /\ i < i + 1
        /\ i + 1 # 0 /\ (i + 1) - 1 = i
    BY <1>1, <2>0, <2>1
  <2>3. Fine(f[i]) /\ HasState(f[i], p)
    BY <2>0, <2>2
  <2>4. \A j \in 1 .. Len(bs) : i < j => f[i].inFlight[bs[j]].peer = NoPeer
    BY <2>0, <2>2
  <2>5. f[i + 1] = RequestBlock(f[i], p, bs[i + 1], "block")
    <3> HIDE DEF S
    <3> QED BY <1>4, <2>2
  <2> DEFINE g == f[i]
             h == f[i + 1]
             b == bs[i + 1]
  <2>6. b \in Block /\ g.inFlight[b].peer = NoPeer
    <3> HIDE DEF S
    <3> QED BY <1>1, <2>2, <2>4
  <2>7. Fine(g) /\ HasState(g, p) /\ h = RequestBlock(g, p, b, "block")
    BY <2>3, <2>5
  <2>8. Fine(h) /\ HasState(h, p) /\ \A c \in Block \ {b} : h.inFlight[c] = g.inFlight[c]
    <3> HIDE DEF g, h, b, S
    <3> QED BY <2>6, <2>7, <1>RequestFine, Zenon
  <2>9. ASSUME NEW j \in 1 .. Len(bs), i + 1 < j PROVE h.inFlight[bs[j]].peer = NoPeer
    <3> HIDE DEF S, g, h
    <3>1. bs[j] # b /\ bs[j] \in Block
      BY <1>1, <2>2, <2>9 DEF Distinct
    <3>2. i < j
      BY <2>0, <2>9
    <3>3. g.inFlight[bs[j]].peer = NoPeer
      BY <2>4, <3>2 DEF g
    <3> QED BY <2>8, <3>1, <3>3
  <2> QED BY <2>8, <2>9
<1>8. Right(Len(bs))
  <2> HIDE DEF Right
  <2>1. S \in SUBSET Nat
    OBVIOUS
  <2>2. Len(bs) \in S
    <3> HIDE DEF S
    <3> QED BY <1>1, <1>6, <1>7, <2>1, AllNumbers
  <2> QED BY <1>1, <2>2
<1>9. bs = <<>> => Len(bs) = 0
  OBVIOUS
<1> QED BY <1>3, <1>5, <1>8, <1>9

\* A change of one peer's state that leaves its list and what is counted alone.
LEMMA NodeChange ==
    ASSUME NEW n, Fine(n), NEW p \in Peer, NEW s \in Node,
           s.queue = n.node[p].queue, s.count = n.node[p].count,
           s.preferred = n.node[p].preferred, s.sync = n.node[p].sync,
           s.stalling = n.node[p].stalling,
           \/ s.conn = n.node[p].conn \/ s.conn = "closing"
           \/ s.conn = "init" /\ n.node[p].conn = "none",
           NEW m, m = [n EXCEPT !.node[p] = s]
    PROVE  Fine(m)
<1>1. n \in Net
  BY DEF Fine
<1>2. /\ m.node = [n.node EXCEPT ![p] = s] /\ m.inFlight = n.inFlight
      /\ m.downloading = n.downloading /\ m.nPreferredDownload = n.nPreferredDownload
      /\ m.nSyncStarted = n.nSyncStarted /\ m.broken = n.broken
  BY <1>1 DEF Net
<1>3. m \in Net
  BY <1>1 DEF Net
<1>4. m.node[p] = s /\ \A q \in Peer \ {p} : m.node[q] = n.node[q]
  BY <1>1, <1>2 DEF Net
<1>5. SameLists(n, m)
  BY <1>2, <1>4 DEF SameLists, HasState
<1> QED BY <1>3, <1>5, SameFine

\* A change of what was asked of the peer a block is in flight from.
LEMMA EntryChange ==
    ASSUME NEW n, Fine(n), NEW b \in Block, NEW e \in Entry, e.peer = n.inFlight[b].peer,
           NEW m, m = [n EXCEPT !.inFlight[b] = e]
    PROVE  Fine(m)
<1>1. n \in Net
  BY DEF Fine
<1>2. /\ m.node = n.node /\ m.inFlight = [n.inFlight EXCEPT ![b] = e]
      /\ m.downloading = n.downloading /\ m.nPreferredDownload = n.nPreferredDownload
      /\ m.nSyncStarted = n.nSyncStarted /\ m.broken = n.broken
  BY <1>1 DEF Net
<1>3. m \in Net
  BY <1>1 DEF Net
<1>4. \A c \in Block : m.inFlight[c].peer = n.inFlight[c].peer
  BY <1>1, <1>2 DEF Net
<1>5. SameLists(n, m)
  BY <1>2, <1>4 DEF SameLists, HasState
<1> QED BY <1>3, <1>5, SameFine

\* ProcessBlockAvailability and UpdateBlockAvailability.
LEMMA AvailableFine ==
    ASSUME NEW n, Fine(n), NEW p \in Peer, NEW known \in SUBSET Tree
    PROVE  /\ Fine(ProcessBlockAvailability(n, p, known))
           /\ ProcessBlockAvailability(n, p, known).inFlight = n.inFlight
           /\ ProcessBlockAvailability(n, p, known).node[p].conn = n.node[p].conn
<1>1. n \in Net /\ n.node[p] \in Node
  BY DEF Fine, Net
<1>2. CASE n.node[p].unknown \in known
  <2>1. PICK x \in Tree : x = n.node[p].unknown
    BY <1>2
  <2>2. PICK y \in Tree \cup {NoBlock} : y = Better(n.node[p].best, x)
    BY <1>1, <2>1 DEF Better, Node
  <2> DEFINE s == [n.node[p] EXCEPT !.best = y, !.unknown = NoBlock]
             m == ProcessBlockAvailability(n, p, known)
  <2>3. s \in Node
    BY <1>1, Zenon DEF Node
  <2>4. m = [n EXCEPT !.node[p] = s]
    BY <1>1, <1>2, <2>1, <2>2, Zenon DEF ProcessBlockAvailability, Net, Node
  <2>5. /\ s.queue = n.node[p].queue /\ s.count = n.node[p].count
        /\ s.preferred = n.node[p].preferred /\ s.sync = n.node[p].sync
        /\ s.stalling = n.node[p].stalling /\ s.conn = n.node[p].conn
    BY <1>1 DEF Node
  <2> HIDE DEF s, m
  <2>6. Fine(m)
    BY <2>3, <2>4, <2>5, NodeChange
  <2>7. m.inFlight = n.inFlight /\ m.node[p] = s
    BY <1>1, <2>4 DEF Net
  <2> QED BY <2>5, <2>6, <2>7 DEF m
<1>3. CASE n.node[p].unknown \notin known
  BY <1>3 DEF ProcessBlockAvailability
<1> QED BY <1>2, <1>3

LEMMA UpdateFine ==
    ASSUME NEW n, Fine(n), NEW p \in Peer, NEW b \in Block, NEW known \in SUBSET Tree
    PROVE  /\ Fine(UpdateBlockAvailability(n, p, b, known))
           /\ UpdateBlockAvailability(n, p, b, known).inFlight = n.inFlight
           /\ UpdateBlockAvailability(n, p, b, known).node[p].conn = n.node[p].conn
<1>1. PICK m : m = ProcessBlockAvailability(n, p, known)
  OBVIOUS
<1>2. Fine(m) /\ m.inFlight = n.inFlight /\ m.node[p].conn = n.node[p].conn
  BY <1>1, AvailableFine
<1>3. m \in Net /\ m.node[p] \in Node
  BY <1>2 DEF Fine, Net
<1>4. PICK y \in Tree \cup {NoBlock} : y = Better(m.node[p].best, b)
  BY <1>3 DEF Better, Node, Tree
<1> DEFINE s1 == [m.node[p] EXCEPT !.best = y]
           s2 == [m.node[p] EXCEPT !.unknown = b]
           s == IF b \in known THEN s1 ELSE s2
           k == UpdateBlockAvailability(n, p, b, known)
<1>5. s1 \in Node /\ s2 \in Node
  BY <1>3 DEF Node
<1>6. k = [m EXCEPT !.node[p] = s]
  BY <1>1, <1>3, <1>4, Zenon DEF UpdateBlockAvailability, Net, Node
<1>7. /\ s.queue = m.node[p].queue /\ s.count = m.node[p].count
      /\ s.preferred = m.node[p].preferred /\ s.sync = m.node[p].sync
      /\ s.stalling = m.node[p].stalling /\ s.conn = m.node[p].conn
  BY <1>3 DEF Node
<1>8. s \in Node
  BY <1>5
<1> HIDE DEF s, k
<1>9. Fine(k)
  BY <1>2, <1>6, <1>7, <1>8, NodeChange
<1>10. k.inFlight = m.inFlight /\ k.node[p] = s
  BY <1>3, <1>6 DEF Net
<1> QED BY <1>2, <1>7, <1>9, <1>10 DEF k

\* A peer that is asked to go keeps its state until FinalizeNode.
LEMMA ClosingFine ==
    ASSUME NEW n, Fine(n), NEW p \in Peer
    PROVE  Fine([n EXCEPT !.node[p].conn = "closing"])
<1>1. n \in Net /\ n.node[p] \in Node
  BY DEF Fine, Net
<1> DEFINE s == [n.node[p] EXCEPT !.conn = "closing"]
           m == [n EXCEPT !.node[p].conn = "closing"]
<1>2. s \in Node
  BY <1>1 DEF Node
<1>3. m = [n EXCEPT !.node[p] = s]
  BY <1>1 DEF Net
<1>4. /\ s.queue = n.node[p].queue /\ s.count = n.node[p].count
      /\ s.preferred = n.node[p].preferred /\ s.sync = n.node[p].sync
      /\ s.stalling = n.node[p].stalling /\ s.conn = "closing"
  BY <1>1 DEF Node
<1> HIDE DEF s, m
<1>5. Fine(m)
  BY <1>2, <1>3, <1>4, NodeChange
<1> QED BY <1>5 DEF m

\* What was asked of a peer, and that a compact block is being put together, is not
\* part of the lists.
LEMMA AskedFine ==
    ASSUME NEW n, Fine(n), NEW b \in Block, NEW a \in {"nothing", "block", "cmpct", "txn"}
    PROVE  Fine([n EXCEPT !.inFlight[b].asked = a])
<1>1. n \in Net /\ n.inFlight[b] \in Entry
  BY DEF Fine, Net
<1> DEFINE e == [n.inFlight[b] EXCEPT !.asked = a]
           m == [n EXCEPT !.inFlight[b].asked = a]
<1>2. e \in Entry /\ e.peer = n.inFlight[b].peer
  BY <1>1 DEF Entry
<1>3. m = [n EXCEPT !.inFlight[b] = e]
  BY <1>1 DEF Net
<1> HIDE DEF e, m
<1>4. Fine(m)
  BY <1>2, <1>3, EntryChange
<1> QED BY <1>4 DEF m

-----------------------------------------------------------------------------------
(* Choosing the blocks to ask for.                                                 *)

\* What is known of the blocks the node has.
Stocked == have \in SUBSET Tree /\ Genesis \in have /\ tip \in Tree

\* Wanted blocks of one chain, listed by height: each once, and none in flight.
LEMMA WantedList ==
    ASSUME NEW n, Stocked, NEW b \in Tree, NEW S \in SUBSET Chain[b],
           \A c \in S : Wanted(n, c)
    PROVE  /\ ByHeight[S] \in Seq(Block) /\ Distinct(ByHeight[S])
           /\ Len(ByHeight[S]) = Cardinality(S) /\ Cardinality(S) \in Nat
           /\ \A i \in DOMAIN ByHeight[S] : n.inFlight[ByHeight[S][i]].peer = NoPeer
<1>1. /\ S \in SUBSET Tree /\ IsFiniteSet(S) /\ Cardinality(S) \in Nat
      /\ \A c, d \in S : Height[c] = Height[d] => c = d
  BY ChainRight, FS_Subset, FS_CardinalityType
<1>2. PICK q \in Seq(S) : q = ByHeight[S]
  BY <1>1, ByHeightRight, Zenon
<1>3. Len(q) = Cardinality(S) /\ Distinct(q)
  BY <1>1, <1>2, ByHeightRight
<1>4. S \subseteq Block
  BY <1>1 DEF Wanted, Stocked, Tree
<1>5. q \in Seq(Block)
  BY <1>4, WiderList
<1>6. \A i \in DOMAIN q : q[i] \in S
  BY <1>2, ListFacts
<1>7. \A i \in DOMAIN q : n.inFlight[q[i]].peer = NoPeer
  BY <1>6 DEF Wanted
<1> QED BY <1>1, <1>2, <1>3, <1>5, <1>7

\* A prefix of such a list.
LEMMA WantedPrefix ==
    \A n : \A q \in Seq(Block) : \A k \in Int :
      Distinct(q) /\ k <= Len(q) /\ (\A i \in DOMAIN q : n.inFlight[q[i]].peer = NoPeer) =>
        /\ SubSeq(q, 1, k) \in Seq(Block) /\ Distinct(SubSeq(q, 1, k))
        /\ \A i \in DOMAIN SubSeq(q, 1, k) : n.inFlight[SubSeq(q, 1, k)[i]].peer = NoPeer
        /\ k <= 0 => SubSeq(q, 1, k) = <<>>

\* So does a prefix of a list.
<1>PrefixRight.
    ASSUME NEW T, NEW q \in Seq(T), Distinct(q), NEW k \in Int, k <= Len(q)
    PROVE  /\ SubSeq(q, 1, k) \in Seq(T) /\ Distinct(SubSeq(q, 1, k))
           /\ Len(SubSeq(q, 1, k)) <= Len(q)
  <2> USE <1>PrefixRight
  <2>1. Len(q) \in Nat /\ DOMAIN q = 1 .. Len(q) /\ \A i \in 1 .. Len(q) : q[i] \in T
    BY ListFacts
  <2>2. \A i \in 1 .. k : q[i] \in T
    BY <2>1
  <2>3. /\ SubSeq(q, 1, k) \in Seq(T)
        /\ Len(SubSeq(q, 1, k)) = IF 1 <= k THEN k - 1 + 1 ELSE 0
        /\ \A i \in 1 .. k - 1 + 1 : SubSeq(q, 1, k)[i] = q[1 + i - 1]
    BY <2>2, PartFacts
  <2>4. PICK r \in Seq(T) : r = SubSeq(q, 1, k)
    BY <2>3, Zenon
  <2>5. Len(r) = (IF 1 <= k THEN k ELSE 0) /\ \A i \in 1 .. k : r[i] = q[i]
    BY <2>3, <2>4
  <2>6. DOMAIN r = 1 .. Len(r)
    BY ListFacts
  <2>7. Distinct(r)
    BY <2>1, <2>5, <2>6 DEF Distinct
  <2> QED BY <2>1, <2>4, <2>5, <2>7

<1> SUFFICES ASSUME NEW n, NEW q \in Seq(Block), Distinct(q), NEW k \in Int, k <= Len(q),
           \A i \in DOMAIN q : n.inFlight[q[i]].peer = NoPeer
             PROVE  /\ SubSeq(q, 1, k) \in Seq(Block) /\ Distinct(SubSeq(q, 1, k))
                    /\ \A i \in DOMAIN SubSeq(q, 1, k) : n.inFlight[SubSeq(q, 1, k)[i]].peer = NoPeer
                    /\ k <= 0 => SubSeq(q, 1, k) = <<>>
  OBVIOUS
<1>1. Len(q) \in Nat /\ DOMAIN q = 1 .. Len(q) /\ \A i \in 1 .. k : q[i] \in Block
  BY ListFacts
<1>2. PICK r \in Seq(Block) : r = SubSeq(q, 1, k)
  BY <1>PrefixRight, Zenon
<1>3. Distinct(r)
  BY <1>2, <1>PrefixRight
<1>4. /\ Len(r) = (IF 1 <= k THEN k - 1 + 1 ELSE 0)
      /\ \A i \in 1 .. k - 1 + 1 : r[i] = q[1 + i - 1]
  BY <1>1, <1>2, PartFacts
<1>5. DOMAIN r = 1 .. Len(r)
  BY ListFacts
<1>6. \A i \in DOMAIN r : i \in DOMAIN q /\ r[i] = q[i]
  BY <1>1, <1>4, <1>5
<1>7. \A i \in DOMAIN r : n.inFlight[r[i]].peer = NoPeer
  BY <1>6
<1>8. k <= 0 => r = <<>>
  BY <1>2, PartFacts
<1> QED BY <1>2, <1>3, <1>7, <1>8

LEMMA LeastRight ==
    ASSUME NEW i \in Int, NEW j \in Int
    PROVE  Least(i, j) \in Int /\ Least(i, j) <= i /\ Least(i, j) <= j
BY DEF Least

\* What FindNextBlocksToDownload may return.
Found(n, found) ==
  /\ found.common \in Tree \cup {NoBlock}
  /\ found.blocks \in Seq(Block) /\ Distinct(found.blocks)
  /\ \A i \in DOMAIN found.blocks : n.inFlight[found.blocks[i]].peer = NoPeer
  /\ found.staller \in Peer \cup {NoPeer}
  /\ found.staller # NoPeer => /\ found.blocks = <<>>
                              /\ \E b \in Block : n.inFlight[b].peer = found.staller

-----------------------------------------------------------------------------------
(* The inductive invariant, one lemma for each kind of step.                       *)

Handling == [at : {"accept", "activate", "clear"}, peer : Peer, block : Block,
             force : BOOLEAN, clear : BOOLEAN]
HandlerOK(h) == h \in {Idle, Aborted} \/ h \in Handling

DownloadInv ==
  /\ Fine(net) /\ Stocked
  /\ index \in SUBSET Tree
  /\ HandlerOK(handler)

\* A connection is made, answers, is closed or is forgotten.
LEMMA PeerSteps ==
    \A p \in Peer :
      DownloadInv /\ (Connect(p) \/ Version(p) \/ Close(p) \/ FinalizeNode(p)) =>
        Fine(net') /\ UNCHANGED <<index, have, tip, handler>>

\* The VERSION message makes a peer preferred at most once.
<1>VersionFine.
    ASSUME NEW n, Fine(n), NEW p \in Peer, n.node[p].conn = "init", NEW pref \in BOOLEAN
    PROVE  Fine([n EXCEPT !.node[p].conn = "up", !.node[p].preferred = pref,
                          !.nPreferredDownload = IF pref THEN n.nPreferredDownload + 1
                                                 ELSE n.nPreferredDownload])
  <2> USE <1>VersionFine
  <2> DEFINE m == [n EXCEPT !.node[p].conn = "up", !.node[p].preferred = pref,
                            !.nPreferredDownload = IF pref THEN n.nPreferredDownload + 1
                                                   ELSE n.nPreferredDownload]
  <2>1. n \in Net /\ n.node[p] \in Node /\ PeerFine(n, p) /\ ~n.broken
    BY DEF Fine, Net
  <2>2. n.nPreferredDownload \in Int /\ n.nSyncStarted \in Int /\ n.downloading \in Int
    BY <2>1 DEF Net
  <2>3. m \in Net
    <3>1. [n.node[p] EXCEPT !.conn = "up", !.preferred = pref] \in Node
      BY <2>1, Zenon DEF Node
    <3>2. (IF pref THEN n.nPreferredDownload + 1 ELSE n.nPreferredDownload) \in Int
      BY <2>2
    <3> QED BY <2>1, <3>1, <3>2, Zenon DEF Net
  <2>4. /\ m.node[p].queue = n.node[p].queue /\ m.node[p].count = n.node[p].count
        /\ m.node[p].preferred = pref /\ m.node[p].stalling = n.node[p].stalling
        /\ m.node[p].conn = "up" /\ m.node[p].sync = n.node[p].sync
        /\ \A q \in Peer \ {p} : m.node[q] = n.node[q]
    BY <2>1 DEF Net, Node
  <2>5. /\ m.inFlight = n.inFlight /\ m.downloading = n.downloading /\ m.broken = n.broken
        /\ m.nPreferredDownload = (IF pref THEN n.nPreferredDownload + 1 ELSE n.nPreferredDownload)
        /\ m.nSyncStarted = n.nSyncStarted
    BY <2>1 DEF Net
  <2> HIDE DEF m
  <2>6. PeerFine(m, p)
    BY <2>1, <2>4, <2>5, Zenon DEF PeerFine, HasState
  <2>7. n.node[p].preferred = FALSE
    BY <2>1, Zenon DEF PeerFine, Node
  <2>8. /\ Follows(p, Downloaders(n), Downloaders(m), n.downloading, m.downloading)
        /\ Follows(p, Syncing(n), Syncing(m), n.nSyncStarted, m.nSyncStarted)
    BY <2>4, <2>5, Zenon DEF Follows, Downloaders, Syncing
  <2>9. Follows(p, Preferred(n), Preferred(m), n.nPreferredDownload, m.nPreferredDownload)
    BY <2>4, <2>5, <2>7 DEF Follows, Preferred
  <2>10. OneStep(n, m, p)
    BY <2>1, <2>3, <2>4, <2>5, <2>6, <2>8, <2>9, Zenon DEF OneStep
  <2>11. Fine(m)
    BY <2>10, OnePeer
  <2> QED BY <2>11 DEF m

\* FinalizeNode: its assertions hold, and the peer's blocks can be asked for again.
<1>FinalizedFine.
    ASSUME NEW n, Fine(n), NEW p \in Peer
    PROVE  Fine(Finalized(n, p))
  <2> USE <1>FinalizedFine
  <2>1. n \in Net /\ n.node[p] \in Node /\ PeerFine(n, p) /\ ~n.broken
    BY DEF Fine, Net
  <2>2. n.downloading \in Int /\ n.nPreferredDownload \in Int /\ n.nSyncStarted \in Int
    BY <2>1 DEF Net
  <2> DEFINE s == n.node[p]
             gone == [NewNode EXCEPT !.conn = "gone"]
             entries == [b \in Block |-> IF \E i \in DOMAIN s.queue : s.queue[i] = b
                                         THEN NotInFlight ELSE n.inFlight[b]]
             m == [n EXCEPT !.node[p] = gone, !.inFlight = entries,
                            !.nSyncStarted = n.nSyncStarted - One(s.sync),
                            !.nPreferredDownload = n.nPreferredDownload - One(s.preferred),
                            !.downloading = n.downloading - One(s.count # 0)]
             asserted == /\ m.downloading >= 0
                         /\ {q \in Peer \ {p} : HasState(n, q)} = {} =>
                              /\ \A b \in Block : m.inFlight[b].peer = NoPeer
                              /\ m.nPreferredDownload = 0
                              /\ m.downloading = 0
  <2>3. Finalized(n, p) = [m EXCEPT !.broken = m.broken \/ ~asserted]
    BY <2>1 DEF Finalized, Net
  <2>4. /\ gone.conn = "gone" /\ gone.preferred = FALSE /\ gone.sync = FALSE
        /\ gone.queue = <<>> /\ gone.count = 0 /\ gone.stalling = FALSE
    BY DEF NewNode
  <2>5. gone \in Node
    <3>1. NewNode \in Node
      BY NewTypes
    <3> QED BY <3>1 DEF Node
  <2>6. entries \in [Block -> Entry]
    BY <2>1 DEF Net, Entry, NotInFlight
  <2>7. \A b \in Block : entries[b].peer = IF n.inFlight[b].peer = p THEN NoPeer ELSE n.inFlight[b].peer
    <3>1. SUFFICES ASSUME NEW b \in Block
                   PROVE  entries[b].peer = IF n.inFlight[b].peer = p THEN NoPeer ELSE n.inFlight[b].peer
      OBVIOUS
    <3>2. (\E i \in DOMAIN s.queue : s.queue[i] = b) <=> n.inFlight[b].peer = p
      BY <2>1 DEF PeerFine, On
    <3> QED BY <3>2 DEF NotInFlight
  <2> HIDE DEF gone, entries
  <2>8. /\ m.node = [n.node EXCEPT ![p] = gone] /\ m.inFlight = entries
        /\ m.nSyncStarted = n.nSyncStarted - One(s.sync)
        /\ m.nPreferredDownload = n.nPreferredDownload - One(s.preferred)
        /\ m.downloading = n.downloading - One(s.count # 0)
        /\ m.broken = n.broken
    BY <2>1 DEF Net
  <2>9. m \in Net
    <3>1. /\ n.nSyncStarted - One(s.sync) \in Int /\ n.nPreferredDownload - One(s.preferred) \in Int
          /\ n.downloading - One(s.count # 0) \in Int
      BY <2>2 DEF One
    <3>2. [n.node EXCEPT ![p] = gone] \in [Peer -> Node]
      BY <2>1, <2>5 DEF Net
    <3> QED BY <2>1, <2>6, <3>1, <3>2, Zenon DEF Net
  <2> HIDE DEF m
  <2>10. m.node[p] = gone /\ \A q \in Peer \ {p} : m.node[q] = n.node[q]
    BY <2>1, <2>8 DEF Net
  <2>11. PeerFine(m, p)
    <3>1. /\ m.node[p].queue = <<>> /\ m.node[p].count = 0 /\ m.node[p].preferred = FALSE
          /\ m.node[p].stalling = FALSE
      BY <2>4, <2>10
    <3>2. \A b \in Block : m.inFlight[b].peer # p
      BY <2>7, <2>8, TreeAssumption
    <3>3. Distinct(<<>>) /\ Len(<<>>) = 0 /\ \A b : ~On(<<>>, b)
      BY DEF Distinct, On
    <3> QED BY <3>1, <3>2, <3>3, Zenon DEF PeerFine
  <2>12. \A b \in Block : \A q \in Peer \ {p} : m.inFlight[b].peer = q <=> n.inFlight[b].peer = q
    BY <2>7, <2>8, TreeAssumption
  <2>13. Follows(p, Downloaders(n), Downloaders(m), n.downloading, m.downloading)
    BY <2>2, <2>4, <2>8, <2>10, SMTT(20) DEF Follows, Downloaders, One
  <2>14. Follows(p, Preferred(n), Preferred(m), n.nPreferredDownload, m.nPreferredDownload)
    BY <2>2, <2>4, <2>8, <2>10 DEF Follows, Preferred, One
  <2>15. Follows(p, Syncing(n), Syncing(m), n.nSyncStarted, m.nSyncStarted)
    <3>1. p \notin Syncing(m) /\ (p \in Syncing(n) <=> s.sync)
      BY <2>4, <2>10 DEF Syncing
    <3>2. m.nSyncStarted = IF s.sync THEN n.nSyncStarted - 1 ELSE n.nSyncStarted
      BY <2>2, <2>8 DEF One
    <3> QED BY <2>2, <3>1, <3>2 DEF Follows
  <2>16. Fine(m)
    <3>1. OneStep(n, m, p)
      BY <2>1, <2>8, <2>9, <2>10, <2>11, <2>12, <2>13, <2>14, <2>15, Zenon DEF OneStep
    <3> QED BY <3>1, OnePeer
  <2>17. asserted
    <3>1. Counted(m) /\ \A q \in Peer : PeerFine(m, q)
      BY <2>16 DEF Fine
    <3>2. m.downloading >= 0
      <4>1. IsFiniteSet(Downloaders(m))
        BY PeerAssumption, FS_Subset DEF Downloaders
      <4>2. Cardinality(Downloaders(m)) \in Nat
        BY <4>1, FS_CardinalityType
      <4> QED BY <3>1, <4>2 DEF Counted
    <3>3. ASSUME {q \in Peer \ {p} : HasState(n, q)} = {}
          PROVE  /\ \A b \in Block : m.inFlight[b].peer = NoPeer
                 /\ m.nPreferredDownload = 0 /\ m.downloading = 0
      <4>1. \A q \in Peer \ {p} : ~HasState(m, q)
        BY <2>10, <3>3 DEF HasState
      <4>2. ~HasState(m, p)
        BY <2>4, <2>10 DEF HasState
      <4>3. \A q \in Peer : ~HasState(m, q)
        BY <4>1, <4>2
      <4>4. \A q \in Peer : m.node[q].count = 0 /\ ~m.node[q].preferred
        BY <3>1, <4>3 DEF PeerFine, HasState
      <4>5. Downloaders(m) = {} /\ Preferred(m) = {}
        BY <4>4 DEF Downloaders, Preferred
      <4>6. m.nPreferredDownload = 0 /\ m.downloading = 0
        BY <3>1, <4>5, FS_EmptySet DEF Counted
      <4>7. ASSUME NEW b \in Block PROVE m.inFlight[b].peer = NoPeer
        <5>1. SUFFICES ASSUME m.inFlight[b].peer # NoPeer PROVE FALSE
          OBVIOUS
        <5>2. PICK q \in Peer : q = m.inFlight[b].peer
          BY <2>9, <5>1 DEF Net, Entry
        <5>3. On(m.node[q].queue, b) /\ m.node[q].count = Len(m.node[q].queue)
          BY <3>1, <5>2, Zenon DEF PeerFine
        <5>4. PICK l \in Seq(Block) : l = m.node[q].queue
          BY <2>9 DEF Net, Node
        <5>5. DOMAIN l = 1 .. Len(l) /\ Len(l) = 0
          BY <4>4, <5>3, <5>4, ListFacts
        <5> QED BY <5>3, <5>4, <5>5 DEF On
      <4> QED BY <4>6, <4>7
    <3> QED BY <3>2, <3>3
  <2>18. Finalized(n, p) = m
    <3> HIDE DEF asserted
    <3>1. m.broken \/ ~asserted <=> FALSE
      BY <2>1, <2>8, <2>17
    <3>2. m.broken = FALSE
      BY <2>1, <2>8 DEF Net
    <3>3. (m.broken \/ ~asserted) = m.broken
      BY <3>1, <3>2, Zenon
    <3>4. [m EXCEPT !.broken = m.broken] = m
      BY <2>9 DEF Net
    <3> QED BY <2>3, <3>3, <3>4
  <2> QED BY <2>16, <2>18

<1> SUFFICES ASSUME DownloadInv, NEW p \in Peer,
           Connect(p) \/ Version(p) \/ Close(p) \/ FinalizeNode(p)
             PROVE  Fine(net') /\ UNCHANGED <<index, have, tip, handler>>
  OBVIOUS
<1>1. Fine(net) /\ net \in Net /\ net.node[p] \in Node
  BY DEF DownloadInv, Fine, Net
<1>2. CASE Connect(p)
  <2> DEFINE s == [net.node[p] EXCEPT !.conn = "init"]
  <2>1. s \in Node
    BY <1>1 DEF Node
  <2>2. net' = [net EXCEPT !.node[p] = s] /\ net.node[p].conn = "none"
    BY <1>1, <1>2 DEF Connect, Net
  <2>3. /\ s.queue = net.node[p].queue /\ s.count = net.node[p].count
        /\ s.preferred = net.node[p].preferred /\ s.sync = net.node[p].sync
        /\ s.stalling = net.node[p].stalling /\ s.conn = "init"
    BY <1>1 DEF Node
  <2> HIDE DEF s
  <2>4. Fine(net')
    BY <1>1, <2>1, <2>2, <2>3, NodeChange
  <2> QED BY <1>2, <2>4 DEF Connect
<1>3. CASE Version(p)
  <2> DEFINE pref == p \in Outbound
  <2>1. pref \in BOOLEAN
    OBVIOUS
  <2>2. net.node[p].conn = "init"
        /\ net' = [net EXCEPT !.node[p].conn = "up", !.node[p].preferred = pref,
                              !.nPreferredDownload = IF pref THEN net.nPreferredDownload + 1
                                                     ELSE net.nPreferredDownload]
    BY <1>1, <1>3 DEF Version, Net
  <2> HIDE DEF pref
  <2>3. Fine(net')
    BY <1>1, <2>1, <2>2, <1>VersionFine, Zenon
  <2> QED BY <1>3, <2>3 DEF Version
<1>4. CASE Close(p)
  <2>1. Fine(net')
    BY <1>1, <1>4, ClosingFine, Zenon DEF Close
  <2> QED BY <1>4, <2>1 DEF Close
<1>5. CASE FinalizeNode(p)
  <2>1. Fine(net')
    BY <1>1, <1>5, <1>FinalizedFine DEF FinalizeNode
  <2> QED BY <1>5, <2>1 DEF FinalizeNode
<1> QED BY <1>2, <1>3, <1>4, <1>5

\* The end of the headers handler.
LEMMA HeadersFine ==
    \A p \in Peer : \A b \in Block : \A known \in SUBSET Tree :
      DownloadInv /\ HasState(net, p) /\ ProcessHeaders(p, b, known) =>
        Fine(net')

\* The direct fetch asks for blocks nobody has been asked for.
<1>DirectRight.
    ASSUME NEW n, Fine(n), Stocked, NEW b \in Block
    PROVE  /\ DirectFetchBlocks(n, b) \in Seq(Block) /\ Distinct(DirectFetchBlocks(n, b))
           /\ \A i \in DOMAIN DirectFetchBlocks(n, b) :
                n.inFlight[DirectFetchBlocks(n, b)[i]].peer = NoPeer
  <2> USE <1>DirectRight
  <2> DEFINE S == {c \in Chain[b] \ Chain[tip] : Wanted(n, c)}
  <2>1. b \in Tree
    BY DEF Tree
  <2>2. S \in SUBSET Chain[b] /\ \A c \in S : Wanted(n, c)
    OBVIOUS
  <2>3. DirectFetchBlocks(n, b) = <<>> \/ DirectFetchBlocks(n, b) = ByHeight[S]
    BY Zenon DEF DirectFetchBlocks
  <2>4. Distinct(<<>>) /\ <<>> \in Seq(Block) /\ DOMAIN <<>> = {}
    BY DEF Distinct
  <2> HIDE DEF S
  <2>5. /\ ByHeight[S] \in Seq(Block) /\ Distinct(ByHeight[S])
        /\ \A i \in DOMAIN ByHeight[S] : n.inFlight[ByHeight[S][i]].peer = NoPeer
    BY <2>1, <2>2, WantedList, Zenon
  <2> QED BY <2>3, <2>4, <2>5, Zenon

\* Every outcome of the direct fetch is fine.
<1>DirectFine.
    ASSUME NEW n, Fine(n), Stocked, NEW p \in Peer, HasState(n, p), NEW b \in Block,
           NEW r \in DirectFetch(n, p, b)
    PROVE  Fine(r)
  <2> USE <1>DirectFine
  <2>1. n \in Net /\ n.node[p] \in Node
    BY DEF Fine, Net
  <2>2. PICK wanted : wanted = DirectFetchBlocks(n, b)
    BY Zenon
  <2>3. /\ wanted \in Seq(Block) /\ Distinct(wanted) /\ Len(wanted) \in Nat
        /\ \A i \in DOMAIN wanted : n.inFlight[wanted[i]].peer = NoPeer
    BY <2>2, <1>DirectRight, ListFacts, Zenon
  <2>0. MaxInTransit - n.node[p].count \in Int
    BY <2>1, PeerAssumption DEF Node
  <2>a. /\ Least(Len(wanted), MaxInTransit - n.node[p].count) \in Int
        /\ Least(Len(wanted), MaxInTransit - n.node[p].count) <= Len(wanted)
    <3>1. Len(wanted) \in Int
      BY <2>3
    <3> QED BY <2>0, <3>1, LeastRight, Zenon
  <2>4. PICK k \in Int : k = Least(Len(wanted), MaxInTransit - n.node[p].count)
    BY <2>a, Zenon
  <2>5. k <= Len(wanted)
    BY <2>a, <2>4, Zenon
  <2>6. PICK bs : bs = SubSeq(wanted, 1, k)
    BY Zenon
  <2>7. /\ bs \in Seq(Block) /\ Distinct(bs)
        /\ \A i \in DOMAIN bs : n.inFlight[bs[i]].peer = NoPeer
    BY <2>3, <2>5, <2>6, WantedPrefix, Zenon
  <2>8. PICK m : m = RequestBlocks(n, p, bs, "block")
    OBVIOUS
  <2>9. Fine(m)
    BY <2>7, <2>8, RequestsFine
  <2>10. \/ r = n \/ r = m
         \/ Len(bs) = 1 /\ r = [m EXCEPT !.inFlight[bs[1]].asked = "cmpct"]
    BY <2>2, <2>4, <2>6, <2>8, Zenon DEF DirectFetch
  <2>11. CASE Len(bs) = 1 /\ r = [m EXCEPT !.inFlight[bs[1]].asked = "cmpct"]
    <3>1. bs[1] \in Block
      <4>1. 1 \in 1 .. Len(bs)
        BY <2>11
      <4> QED BY <2>7, <4>1, ListFacts
    <3> QED BY <2>9, <2>11, <3>1, AskedFine, Zenon
  <2> QED BY <2>9, <2>10, <2>11

<1> SUFFICES ASSUME DownloadInv, NEW p \in Peer, HasState(net, p), NEW b \in Block,
           NEW known \in SUBSET Tree, ProcessHeaders(p, b, known)
             PROVE  Fine(net')
  OBVIOUS
<1>1. PICK n : n = UpdateBlockAvailability(net, p, b, known) /\ net' \in DirectFetch(n, p, b)
  BY DEF ProcessHeaders
<1>2. Fine(n) /\ n.node[p].conn = net.node[p].conn
  BY <1>1, UpdateFine DEF DownloadInv
<1>3. HasState(n, p)
  BY <1>2 DEF HasState
<1> QED BY <1>1, <1>2, <1>3, <1>DirectFine DEF DownloadInv

\* SendMessages asks for blocks, accuses a staller, or drops a peer that is late.
LEMMA SendSteps ==
    \A p \in Peer :
      DownloadInv /\ (SendMessages(p) \/ Timeout(p)) =>
        Fine(net') /\ UNCHANGED <<index, have, tip, handler>>

\* A set of blocks of bounded height has a highest one.
<1>BestExists.
    ASSUME NEW S \in SUBSET Tree, S # {}, NEW top \in Nat, \A b \in S : Height[b] <= top
    PROVE  Best(S) # {} /\ Best(S) \subseteq S
  <2> USE <1>BestExists
  <2>1. SUFFICES ASSUME Best(S) = {} PROVE FALSE
    BY DEF Best
  <2>2. \A b \in S : \E c \in S : ~(Height[c] <= Height[b])
    BY <2>1 DEF Best
  <2>3. \A b \in S : Height[b] \in Nat
    BY TreeAssumption
  <2> DEFINE K == {k \in Nat : \E b \in S : k <= Height[b]}
  <2>4. 0 \in K
    BY <2>3
  <2>5. ASSUME NEW k \in K PROVE k + 1 \in K
    <3>1. PICK b \in S : k <= Height[b]
      OBVIOUS
    <3>2. PICK c \in S : ~(Height[c] <= Height[b])
      BY <2>2
    <3>3. k + 1 <= Height[c]
      BY <2>3, <3>1, <3>2
    <3> QED BY <3>3
  <2>6. top + 1 \in K
    <3> HIDE DEF K
    <3>1. K \in SUBSET Nat
      BY DEF K
    <3> QED BY <2>4, <2>5, <3>1, AllNumbers
  <2> QED BY <2>3, <2>6

\* Two blocks have a last common ancestor.
<1>AncestorRight.
    ASSUME NEW a \in Tree, NEW b \in Tree
    PROVE  LastCommonAncestor[a][b] \in Tree
  <2> USE <1>AncestorRight
  <2> DEFINE S == Chain[a] \cap Chain[b]
  <2>1. S \in SUBSET Tree /\ Genesis \in S /\ \A c \in S : Height[c] <= Height[a]
    BY ChainRight
  <2>2. Height[a] \in Nat
    BY TreeAssumption
  <2>3. Best(S) # {} /\ Best(S) \subseteq S
    <3> HIDE DEF S
    <3> QED BY <2>1, <2>2, <1>BestExists
  <2>4. LastCommonAncestor[a][b] = CHOOSE c \in Best(S) : TRUE
    BY Zenon DEF LastCommonAncestor
  <2> HIDE DEF S
  <2> QED BY <2>1, <2>3, <2>4

\* So does one whose last common block is set.
<1>CommonFine.
    ASSUME NEW n, Fine(n), NEW p \in Peer, NEW c \in Tree \cup {NoBlock}
    PROVE  /\ Fine([n EXCEPT !.node[p].common = c])
           /\ [n EXCEPT !.node[p].common = c].inFlight = n.inFlight
           /\ HasState(n, p) => HasState([n EXCEPT !.node[p].common = c], p)
  <2> USE <1>CommonFine
  <2>1. n \in Net /\ n.node[p] \in Node
    BY DEF Fine, Net
  <2> DEFINE s == [n.node[p] EXCEPT !.common = c]
             m == [n EXCEPT !.node[p].common = c]
  <2>2. s \in Node
    BY <2>1 DEF Node
  <2>3. m = [n EXCEPT !.node[p] = s]
    BY <2>1 DEF Net
  <2>4. /\ s.queue = n.node[p].queue /\ s.count = n.node[p].count
        /\ s.preferred = n.node[p].preferred /\ s.sync = n.node[p].sync
        /\ s.stalling = n.node[p].stalling /\ s.conn = n.node[p].conn
    BY <2>1 DEF Node
  <2> HIDE DEF s, m
  <2>5. Fine(m)
    BY <2>2, <2>3, <2>4, NodeChange
  <2>6. m.inFlight = n.inFlight /\ m.node[p] = s
    BY <2>1, <2>3 DEF Net
  <2>7. HasState(n, p) => HasState(m, p)
    BY <2>4, <2>6 DEF HasState
  <2> QED BY <2>5, <2>6, <2>7 DEF m

\* Starting the headers sync with p.
<1>SyncFine.
    ASSUME NEW n, Fine(n), NEW p \in Peer
    PROVE  /\ Fine(SyncStart(n, p)) /\ SyncStart(n, p).inFlight = n.inFlight
           /\ SyncStart(n, p).node[p].conn = n.node[p].conn
  <2> USE <1>SyncFine
  <2>1. n \in Net /\ n.node[p] \in Node /\ PeerFine(n, p) /\ ~n.broken
    BY DEF Fine, Net
  <2> DEFINE m == [n EXCEPT !.node[p].sync = TRUE, !.nSyncStarted = n.nSyncStarted + 1]
  <2>2. SyncStart(n, p) = n \/ (SyncStart(n, p) = m /\ ~n.node[p].sync)
    BY <2>1 DEF SyncStart, StartsSync, Net
  <2>3. m \in Net
    <3>1. [n.node[p] EXCEPT !.sync = TRUE] \in Node
      BY <2>1, Zenon DEF Node
    <3>2. n.nSyncStarted + 1 \in Int
      BY <2>1 DEF Net
    <3> QED BY <2>1, <3>1, <3>2, Zenon DEF Net
  <2>4. /\ m.node[p].queue = n.node[p].queue /\ m.node[p].count = n.node[p].count
        /\ m.node[p].preferred = n.node[p].preferred /\ m.node[p].stalling = n.node[p].stalling
        /\ m.node[p].conn = n.node[p].conn /\ m.node[p].sync = TRUE
        /\ \A q \in Peer \ {p} : m.node[q] = n.node[q]
    BY <2>1 DEF Net, Node
  <2>5. /\ m.inFlight = n.inFlight /\ m.downloading = n.downloading /\ m.broken = n.broken
        /\ m.nPreferredDownload = n.nPreferredDownload /\ m.nSyncStarted = n.nSyncStarted + 1
    BY <2>1 DEF Net
  <2> HIDE DEF m
  <2>6. PeerFine(m, p)
    BY <2>1, <2>4, <2>5, Zenon DEF PeerFine, HasState
  <2>7. ~n.node[p].sync => Fine(m)
    <3>1. SUFFICES ASSUME ~n.node[p].sync PROVE Fine(m)
      BY Zenon
    <3>2. /\ Follows(p, Downloaders(n), Downloaders(m), n.downloading, m.downloading)
          /\ Follows(p, Preferred(n), Preferred(m), n.nPreferredDownload, m.nPreferredDownload)
      BY <2>4, <2>5, Zenon DEF Follows, Downloaders, Preferred
    <3>3. Follows(p, Syncing(n), Syncing(m), n.nSyncStarted, m.nSyncStarted)
      BY <2>4, <2>5, <3>1 DEF Follows, Syncing
    <3>4. OneStep(n, m, p)
      BY <2>1, <2>3, <2>4, <2>5, <2>6, <3>2, <3>3, Zenon DEF OneStep
    <3> QED BY <3>4, OnePeer
  <2> QED BY <2>2, <2>4, <2>5, <2>7

\* SendMessages accuses a peer of stalling on behalf of another: it still owes a block.
<1>AccuseFine.
    ASSUME NEW n, Fine(n), NEW p \in Peer, NEW x \in Peer \cup {NoPeer},
           x # NoPeer => \E b \in Block : n.inFlight[b].peer = x
    PROVE  Fine(AccuseStaller(n, p, x))
  <2> USE <1>AccuseFine
  <2>1. n \in Net /\ ~n.broken
    BY DEF Fine, Net
  <2>2. CASE n.node[p].count # 0 \/ x = NoPeer
    BY <2>2 DEF AccuseStaller
  <2>3. CASE ~(n.node[p].count # 0 \/ x = NoPeer)
    <3>1. x \in Peer
      BY <2>3
    <3>2. PICK b \in Block : n.inFlight[b].peer = x
      BY <2>3
    <3>3. PeerFine(n, x) /\ n.node[x] \in Node
      BY <2>1, <3>1, Zenon DEF Fine, Net
    <3>4. On(n.node[x].queue, b)
      BY <3>2, <3>3, Zenon DEF PeerFine
    <3>5. n.node[x].count # 0
      <4>1. PICK q \in Seq(Block) : q = n.node[x].queue
        BY <3>3 DEF Node
      <4>2. DOMAIN q = 1 .. Len(q) /\ Len(q) \in Nat
        BY ListFacts
      <4>3. Len(q) # 0
        BY <3>4, <4>1, <4>2 DEF On
      <4> QED BY <3>3, <4>1, <4>3 DEF PeerFine
    <3> DEFINE m == [n EXCEPT !.node[x].stalling = TRUE]
    <3>6. AccuseStaller(n, p, x) = m
      BY <2>3, <3>3, <3>5 DEF AccuseStaller, PeerFine
    <3>7. m \in Net
      <4>1. [n.node[x] EXCEPT !.stalling = TRUE] \in Node
        BY <3>3, Zenon DEF Node
      <4> QED BY <2>1, <3>1, <4>1, Zenon DEF Net
    <3>8. /\ m.node[x].queue = n.node[x].queue /\ m.node[x].count = n.node[x].count
          /\ m.node[x].preferred = n.node[x].preferred
          /\ m.node[x].conn = n.node[x].conn /\ m.node[x].sync = n.node[x].sync
          /\ \A q \in Peer \ {x} : m.node[q] = n.node[q]
      BY <2>1, <3>1 DEF Net, Node
    <3>9. /\ m.inFlight = n.inFlight /\ m.downloading = n.downloading /\ m.broken = n.broken
          /\ m.nPreferredDownload = n.nPreferredDownload /\ m.nSyncStarted = n.nSyncStarted
      BY <2>1 DEF Net
    <3> HIDE DEF m
    <3>10. PeerFine(m, x)
      BY <3>3, <3>5, <3>8, <3>9, Zenon DEF PeerFine, HasState
    <3>11. /\ Follows(x, Downloaders(n), Downloaders(m), n.downloading, m.downloading)
           /\ Follows(x, Preferred(n), Preferred(m), n.nPreferredDownload, m.nPreferredDownload)
           /\ Follows(x, Syncing(n), Syncing(m), n.nSyncStarted, m.nSyncStarted)
      BY <3>1, <3>8, <3>9, Zenon DEF Follows, Downloaders, Preferred, Syncing
    <3>12. OneStep(n, m, x)
      BY <2>1, <3>7, <3>8, <3>9, <3>10, <3>11, Zenon DEF OneStep
    <3>13. Fine(m)
      BY <3>1, <3>12, OnePeer
    <3> QED BY <3>6, <3>13
  <2> QED BY <2>2, <2>3

\* FindNextBlocksToDownload returns blocks nobody has been asked for, each once, and
\* a staller, one with a block in flight, only when it returns no block.
<1>FoundRight.
    ASSUME NEW n, Fine(n), NEW p \in Peer, Stocked, NEW count \in Int,
           NEW found, found = FindNextBlocksToDownload(n, p, count)
    PROVE  Found(n, found)
  <2> USE <1>FoundRight
  <2>1. n \in Net /\ n.node[p] \in Node
    BY DEF Fine, Net
  <2> DEFINE best == n.node[p].best
             last == n.node[p].common
             guess == IF last = NoBlock
                      THEN CHOOSE b \in Chain[tip] : Height[b] = Least(Height[best], Height[tip])
                      ELSE last
             common == LastCommonAncestor[guess][best]
             windowEnd == Height[common] + Window
             walk == {b \in Chain[best] : Height[common] < Height[b] /\ Height[b] <= windowEnd + 1}
             wanted == {b \in walk : Wanted(n, b)}
             inWindow == {b \in wanted : Height[b] <= windowEnd}
             inFlight == {b \in walk : b \notin have /\ n.inFlight[b].peer # NoPeer}
             waitingfor == IF inFlight = {} THEN NoPeer ELSE n.inFlight[ByHeight[inFlight][1]].peer
             linked == {b \in walk : Linked(b, have)} \cup {common}
             nothing == [common |-> last, blocks |-> <<>>, staller |-> NoPeer]
             next == CHOOSE b \in Best(linked) : TRUE
             list == SubSeq(ByHeight[inWindow], 1, Least(count, Cardinality(inWindow)))
             staller == IF inWindow = {} /\ wanted # {} /\ waitingfor # p
                        THEN waitingfor ELSE NoPeer
             some == [common |-> next, blocks |-> list, staller |-> staller]
  <2>2. found = IF best = NoBlock THEN nothing
                ELSE IF Height[best] < Height[tip] THEN nothing ELSE some
    BY Zenon DEF FindNextBlocksToDownload
  <2>3. best \in Tree \cup {NoBlock} /\ last \in Tree \cup {NoBlock}
    BY <2>1 DEF Node
  <2>4. Distinct(<<>>) /\ <<>> \in Seq(Block) /\ DOMAIN <<>> = {}
    BY DEF Distinct
  <2>5. CASE best = NoBlock \/ Height[best] < Height[tip]
    <3> HIDE DEF some, best, last
    <3>1. found = nothing
      <4> HIDE DEF nothing
      <4> QED BY <2>2, <2>5
    <3>2. found.common = last /\ found.blocks = <<>> /\ found.staller = NoPeer
      BY <3>1
    <3> HIDE DEF nothing
    <3> QED BY <2>3, <2>4, <3>2 DEF Found
  <2>6. CASE ~(best = NoBlock \/ Height[best] < Height[tip])
    <3> HIDE DEF best, last
    <3>1. best \in Tree /\ tip \in Tree /\ Height[best] \in Nat /\ Height[tip] \in Nat
      BY <2>3, <2>6, TreeAssumption DEF Stocked
    <3>2. guess \in Tree
      <4>1. Least(Height[best], Height[tip]) \in 0 .. Height[tip]
        BY <3>1 DEF Least
      <4>2. \E b \in Chain[tip] : Height[b] = Least(Height[best], Height[tip])
        BY <3>1, <4>1, ChainRight
      <4>3. Chain[tip] \subseteq Tree
        BY <3>1, ChainRight
      <4>4. (CHOOSE b \in Chain[tip] : Height[b] = Least(Height[best], Height[tip])) \in Tree
        BY <4>2, <4>3
      <4> QED BY <2>3, <4>4, Zenon
    <3> HIDE DEF guess
    <3>3. common \in Tree
      BY <3>1, <3>2, <1>AncestorRight
    <3> HIDE DEF common, windowEnd
    <3>4. found.common = next /\ found.blocks = list /\ found.staller = staller
      <4>1. found = some
        <5> HIDE DEF some, nothing
        <5> QED BY <2>2, <2>6
      <4> HIDE DEF next, list, staller
      <4> QED BY <4>1
    <3>5. found.common \in Tree
      <4>1. linked \in SUBSET Tree /\ linked # {}
        BY <3>1, <3>3, ChainRight
      <4>2. PICK top \in Nat : top = Height[best] + Height[common]
        BY <3>1, <3>3, TreeAssumption
      <4>3. \A b \in linked : Height[b] <= top
        <5>1. \A b \in Chain[best] : Height[b] <= Height[best] /\ Height[b] \in Nat
          BY <3>1, ChainRight, TreeAssumption
        <5>2. Height[common] \in Nat
          BY <3>3, TreeAssumption
        <5> QED BY <3>1, <4>2, <5>1, <5>2
      <4> HIDE DEF linked
      <4>4. Best(linked) # {} /\ Best(linked) \subseteq linked
        BY <4>1, <4>3, <1>BestExists
      <4>5. found.common = CHOOSE b \in Best(linked) : TRUE
        BY <3>4, Zenon
      <4>6. found.common \in Best(linked)
        BY <4>4, <4>5
      <4> QED BY <4>1, <4>4, <4>6
    <3>6. walk \subseteq Chain[best] /\ inWindow \in SUBSET Chain[best] /\ \A b \in inWindow : Wanted(n, b)
      BY Zenon
    <3>7. PICK q : q = ByHeight[inWindow]
      OBVIOUS
    <3>8. PICK size : size = Cardinality(inWindow)
      OBVIOUS
    <3>9. /\ q \in Seq(Block) /\ Distinct(q) /\ Len(q) = size /\ size \in Nat
          /\ \A i \in DOMAIN q : n.inFlight[q[i]].peer = NoPeer
      <4> HIDE DEF inWindow
      <4> QED BY <3>1, <3>6, <3>7, <3>8, WantedList, Zenon
    <3>10. PICK k \in Int : k = Least(count, size)
      BY <3>9, LeastRight
    <3>11. k <= Len(q) /\ (size = 0 => k <= 0)
      BY <3>9, <3>10, LeastRight
    <3>12. found.blocks = SubSeq(q, 1, k)
      <4> HIDE DEF inWindow, wanted, waitingfor, linked
      <4> QED BY <3>4, <3>7, <3>8, <3>10, Zenon
    <3>13. /\ found.blocks \in Seq(Block) /\ Distinct(found.blocks)
           /\ \A i \in DOMAIN found.blocks : n.inFlight[found.blocks[i]].peer = NoPeer
           /\ k <= 0 => found.blocks = <<>>
      <4>1. /\ SubSeq(q, 1, k) \in Seq(Block) /\ Distinct(SubSeq(q, 1, k))
            /\ \A i \in DOMAIN SubSeq(q, 1, k) : n.inFlight[SubSeq(q, 1, k)[i]].peer = NoPeer
            /\ k <= 0 => SubSeq(q, 1, k) = <<>>
        BY <3>9, <3>11, WantedPrefix, Zenon
      <4> QED BY <3>12, <4>1
    <3>14. ASSUME found.staller # NoPeer
           PROVE  /\ found.blocks = <<>> /\ found.staller \in Peer
                  /\ \E b \in Block : n.inFlight[b].peer = found.staller
      <4>1. inWindow = {} /\ found.staller = waitingfor
        <5> HIDE DEF inWindow, wanted, waitingfor, linked
        <5> QED BY <3>4, <3>14
      <4>2. size = 0
        BY <3>8, <4>1, FS_EmptySet, Zenon
      <4>3. inFlight # {} /\ found.staller = n.inFlight[ByHeight[inFlight][1]].peer
        BY <3>14, <4>1, Zenon
      <4>4. /\ inFlight \in SUBSET Tree /\ IsFiniteSet(inFlight)
            /\ \A c, d \in inFlight : Height[c] = Height[d] => c = d
        <5>1. inFlight \in SUBSET Chain[best]
          OBVIOUS
        <5> HIDE DEF inFlight
        <5> QED BY <3>1, <5>1, ChainRight, FS_Subset
      <4>5. inFlight \subseteq Block
        BY <4>4, Zenon DEF Stocked, Tree
      <4> HIDE DEF inFlight
      <4>6. PICK l \in Seq(inFlight) : l = ByHeight[inFlight]
        BY <4>4, ByHeightRight
      <4>7. Len(l) = Cardinality(inFlight) /\ Cardinality(inFlight) \in Nat
        BY <4>4, <4>6, ByHeightRight, FS_CardinalityType, Zenon
      <4>8. Len(l) # 0
        BY <4>3, <4>4, <4>7, FS_EmptySet
      <4>9. l[1] \in inFlight
        BY <4>7, <4>8, ListFacts
      <4>10. l[1] \in Block /\ found.staller = n.inFlight[l[1]].peer
        BY <4>3, <4>5, <4>6, <4>9
      <4>11. found.staller \in Peer
        BY <2>1, <3>14, <4>10 DEF Net, Entry
      <4> QED BY <3>11, <3>13, <4>2, <4>10, <4>11
    <3> QED BY <3>5, <3>13, <3>14, Zenon DEF Found
  <2> QED BY <2>5, <2>6

<1> SUFFICES ASSUME DownloadInv, NEW p \in Peer, SendMessages(p) \/ Timeout(p)
             PROVE  Fine(net') /\ UNCHANGED <<index, have, tip, handler>>
  OBVIOUS
<1>1. Fine(net) /\ Stocked /\ index \in SUBSET Tree
  BY DEF DownloadInv
<1>2. net.node[p].conn = "up"
  BY DEF SendMessages, Timeout, CanHandle
<1>3. PICK n : n = SyncStart(net, p)
  OBVIOUS
<1>4. Fine(n) /\ n.node[p].conn = "up"
  BY <1>1, <1>2, <1>3, <1>SyncFine
<1>5. CASE Timeout(p)
  <2>1. net' = [n EXCEPT !.node[p].conn = "closing"]
    BY <1>3, <1>5 DEF Timeout
  <2>2. Fine(net')
    BY <1>4, <2>1, ClosingFine
  <2> QED BY <1>5, <2>2 DEF Timeout
<1>6. CASE SendMessages(p)
  <2>1. PICK m : m = ProcessBlockAvailability(n, p, index)
    OBVIOUS
  <2>2. PICK room : room = MaxInTransit - n.node[p].count
    OBVIOUS
  <2>3. PICK found : found = FindNextBlocksToDownload(m, p, room)
    OBVIOUS
  <2>4. net' = n \/ net' = RequestDownload(m, p, found)
    BY <1>3, <1>6, <2>1, <2>2, <2>3, Zenon DEF SendMessages
  <2>5. Fine(m) /\ m.node[p].conn = "up" /\ HasState(m, p)
    BY <1>1, <1>4, <2>1, AvailableFine, Zenon DEF HasState
  <2>6. room \in Int
    BY <1>4, <2>2, PeerAssumption DEF Fine, Net, Node
  <2>7. /\ found.common \in Tree \cup {NoBlock}
        /\ found.blocks \in Seq(Block) /\ Distinct(found.blocks)
        /\ \A i \in DOMAIN found.blocks : m.inFlight[found.blocks[i]].peer = NoPeer
        /\ found.staller \in Peer \cup {NoPeer}
        /\ found.staller # NoPeer => /\ found.blocks = <<>>
                                    /\ \E b \in Block : m.inFlight[b].peer = found.staller
    <3>1. Found(m, found)
      BY <1>1, <2>3, <2>5, <2>6, <1>FoundRight
    <3> QED BY <3>1, Zenon DEF Found
  <2>8. PICK l : l = [m EXCEPT !.node[p].common = found.common]
    BY Zenon
  <2>9. Fine(l) /\ l.inFlight = m.inFlight /\ HasState(l, p)
    BY <2>5, <2>7, <2>8, <1>CommonFine, Zenon
  <2>10. PICK k : k = RequestBlocks(l, p, found.blocks, "block")
    OBVIOUS
  <2>11. Fine(k) /\ (found.blocks = <<>> => k = l)
    <3>1. \A i \in DOMAIN found.blocks : l.inFlight[found.blocks[i]].peer = NoPeer
      BY <2>7, <2>9, Zenon
    <3> QED BY <2>7, <2>9, <2>10, <3>1, RequestsFine, Zenon
  <2>12. found.staller # NoPeer => \E b \in Block : k.inFlight[b].peer = found.staller
    BY <2>7, <2>9, <2>11
  <2>13. Fine(AccuseStaller(k, p, found.staller))
    BY <2>7, <2>11, <2>12, <1>AccuseFine, Zenon
  <2>14. RequestDownload(m, p, found) = AccuseStaller(k, p, found.staller)
    BY <2>8, <2>10, Zenon DEF RequestDownload
  <2>15. Fine(net')
    BY <1>4, <2>4, <2>13, <2>14
  <2> QED BY <1>6, <2>15, Zenon DEF SendMessages
<1> QED BY <1>5, <1>6

\* A partial block that was emptied stays with its entry.
LEMMA FilledFine ==
    ASSUME NEW n, Fine(n), NEW b \in Block
    PROVE  Fine([n EXCEPT !.inFlight[b].asked = "block", !.inFlight[b].partial = "filled"])
<1>1. n \in Net /\ n.inFlight[b] \in Entry
  BY DEF Fine, Net
<1> DEFINE e == [n.inFlight[b] EXCEPT !.asked = "block", !.partial = "filled"]
           m == [n EXCEPT !.inFlight[b].asked = "block", !.inFlight[b].partial = "filled"]
<1>2. e \in Entry /\ e.peer = n.inFlight[b].peer
  BY <1>1 DEF Entry
<1>3. m = [n EXCEPT !.inFlight[b] = e]
  BY <1>1 DEF Net
<1> HIDE DEF e, m
<1>4. Fine(m)
  BY <1>2, <1>3, EntryChange
<1> QED BY <1>4 DEF m

\* A compact block is invalid, cannot be put together, or is complete.
LEMMA FillFine ==
    ASSUME NEW n, Fine(n), NEW p \in Peer, NEW b \in Block, NEW status,
           HandlerOK(handler), FillBlock(n, p, b, status)
    PROVE  Fine(net') /\ HandlerOK(handler')
<1>1. Fine(MarkBlockAsReceived(n, b))
  BY ReceivedFine
<1>2. CASE net' = Misbehaving(MarkBlockAsReceived(n, b), p) /\ UNCHANGED handler
  BY <1>1, <1>2, ClosingFine DEF Misbehaving
<1>3. CASE /\ net' = [n EXCEPT !.inFlight[b].asked = "block", !.inFlight[b].partial = "filled"]
           /\ UNCHANGED handler
  BY <1>3, FilledFine, Zenon
<1>4. CASE net' = MarkBlockAsReceived(n, b) /\ Process(p, b, TRUE, FALSE)
  BY <1>1, <1>4 DEF Process, HandlerOK, Handling
<1> QED BY <1>2, <1>3, <1>4, Zenon DEF FillBlock

\* A compact block that was announced, or asked for, arrives.
LEMMA CompactStep ==
    \A p \in Peer : \A b \in Block : \A status :
      DownloadInv /\ CompactBlock(p, b, status) =>
        /\ Fine(net') /\ HandlerOK(handler')
        /\ index' \in SUBSET Tree /\ UNCHANGED <<have, tip>>

<1>PartialFine.
    ASSUME NEW n, Fine(n), NEW b \in Block
    PROVE  Fine([n EXCEPT !.inFlight[b].partial = "open"])
  <2> USE <1>PartialFine
  <2>1. n \in Net /\ n.inFlight[b] \in Entry
    BY DEF Fine, Net
  <2> DEFINE e == [n.inFlight[b] EXCEPT !.partial = "open"]
             m == [n EXCEPT !.inFlight[b].partial = "open"]
  <2>2. e \in Entry /\ e.peer = n.inFlight[b].peer
    BY <2>1, Zenon DEF Entry
  <2>3. m = [n EXCEPT !.inFlight[b] = e]
    BY <2>1 DEF Net
  <2> HIDE DEF e, m
  <2>4. Fine(m)
    BY <2>2, <2>3, EntryChange
  <2> QED BY <2>4 DEF m

<1> SUFFICES ASSUME DownloadInv, NEW p \in Peer, NEW b \in Block, NEW status, CompactBlock(p, b, status)
             PROVE  /\ Fine(net') /\ HandlerOK(handler')
                    /\ index' \in SUBSET Tree /\ UNCHANGED <<have, tip>>
  OBVIOUS
<1>1. Fine(net) /\ Stocked /\ index \in SUBSET Tree /\ HandlerOK(handler)
  BY DEF DownloadInv
<1>2. net.node[p].conn = "up" /\ HasState(net, p)
  BY Zenon DEF CompactBlock, CanHandle, HasState
<1>3. index' \in SUBSET Tree /\ UNCHANGED <<have, tip>>
  BY <1>1, Zenon DEF CompactBlock, Tree
<1>4. PICK n : n = UpdateBlockAvailability(net, p, b, index')
  OBVIOUS
<1>5. Fine(n) /\ n.node[p].conn = "up" /\ HasState(n, p)
  BY <1>1, <1>2, <1>3, <1>4, UpdateFine, Zenon DEF HasState
<1> DEFINE entry == [peer |-> p, partial |-> "open", asked |-> "nothing"]
           m1 == [n EXCEPT !.inFlight[b].partial = "open"]
           m2 == MarkBlockAsInFlight(n, p, b, entry)
           m == IF n.inFlight[b].peer = p THEN m1 ELSE m2
           asked == [n EXCEPT !.inFlight[b].asked = "nothing"]
           needed == [m EXCEPT !.inFlight[b].asked = "txn"]
           whole == [m EXCEPT !.inFlight[b].asked = "block"]
<1>6. \/ net' = n /\ UNCHANGED handler
      \/ net' = AskAgain(n, p, b) /\ UNCHANGED handler
      \/ net' = asked /\ UNCHANGED handler
      \/ ProcessHeaders(p, b, index') /\ UNCHANGED handler
      \/ FillBlock(m, p, b, status)
      \/ net' = needed /\ UNCHANGED handler
      \/ net' = whole /\ UNCHANGED handler
      \/ net' = n /\ Process(p, b, TRUE, TRUE)
  BY <1>4, Zenon DEF CompactBlock
<1>7. Fine(m1)
  BY <1>5, <1>PartialFine
<1>8. Fine(m2)
  <2>1. entry \in Entry /\ entry.peer = p
    BY DEF Entry
  <2> HIDE DEF entry
  <2> QED BY <1>5, <2>1, InFlightFine, Zenon
<1>9. Fine(m)
  <2> HIDE DEF m1, m2
  <2> QED BY <1>7, <1>8
<1> HIDE DEF m
<1>10. CASE net' = n /\ UNCHANGED handler
  BY <1>1, <1>3, <1>5, <1>10, Zenon
<1>11. CASE net' = AskAgain(n, p, b) /\ UNCHANGED handler
  <2>1. Fine([n EXCEPT !.inFlight[b].asked = "block"])
    BY <1>5, AskedFine, Zenon
  <2>2. Fine(AskAgain(n, p, b))
    BY <1>5, <2>1 DEF AskAgain
  <2> QED BY <1>1, <1>3, <1>11, <2>2
<1>12. CASE net' = asked /\ UNCHANGED handler
  <2>1. Fine(asked)
    BY <1>5, AskedFine, Zenon
  <2> QED BY <1>1, <1>3, <1>12, <2>1
<1>13. CASE ProcessHeaders(p, b, index') /\ UNCHANGED handler
  <2>1. Fine(net')
    BY <1>2, <1>3, <1>13, HeadersFine
  <2> QED BY <1>1, <1>3, <1>13, <2>1, Zenon
<1>14. CASE FillBlock(m, p, b, status)
  BY <1>1, <1>3, <1>9, <1>14, FillFine
<1>16. CASE net' = needed /\ UNCHANGED handler
  <2>1. Fine(needed)
    BY <1>9, AskedFine, Zenon
  <2> QED BY <1>1, <1>3, <1>16, <2>1
<1>17. CASE net' = whole /\ UNCHANGED handler
  <2>1. Fine(whole)
    BY <1>9, AskedFine, Zenon
  <2> QED BY <1>1, <1>3, <1>17, <2>1
<1>15. CASE net' = n /\ Process(p, b, TRUE, TRUE)
  <2>1. HandlerOK(handler')
    BY <1>15 DEF Process, HandlerOK, Handling
  <2> QED BY <1>3, <1>5, <1>15, <2>1
<1> QED BY <1>6, <1>10, <1>11, <1>12, <1>13, <1>14, <1>15, <1>16, <1>17, Zenon

\* The other messages of a peer.
LEMMA MessageSteps ==
    ASSUME DownloadInv, NEW p \in Peer, NEW b \in Block, NEW status,
           \/ Announce(p, b) \/ CompactUnconnected(p, b) \/ Headers(p, b)
           \/ ReceiveBlock(p, b) \/ BlockTxn(p, b, status)
    PROVE  /\ Fine(net') /\ HandlerOK(handler')
           /\ index' \in SUBSET Tree /\ UNCHANGED <<have, tip>>
<1>1. Fine(net) /\ Stocked /\ index \in SUBSET Tree /\ HandlerOK(handler)
  BY DEF DownloadInv
<1>2. CASE Announce(p, b)
  <2>1. Fine(net')
    BY <1>1, <1>2, UpdateFine, Zenon DEF Announce
  <2> QED BY <1>1, <1>2, <2>1, Zenon DEF Announce
<1>3. CASE Headers(p, b)
  <2>1. Chain[b] \subseteq Tree
    BY ChainRight DEF Tree
  <2>2. index' \in SUBSET Tree
    BY <1>1, <1>3, <2>1, Zenon DEF Headers
  <2>3. HasState(net, p)
    BY <1>3, Zenon DEF Headers, CanHandle, HasState
  <2>4. ProcessHeaders(p, b, index')
    BY <1>3, Zenon DEF Headers
  <2>5. Fine(net')
    BY <2>2, <2>3, <2>4, HeadersFine
  <2> QED BY <1>1, <1>3, <2>2, <2>5, Zenon DEF Headers
<1>4. CASE ReceiveBlock(p, b)
  <2>1. Fine(net')
    BY <1>1, <1>4, ReceivedFine, Zenon DEF ReceiveBlock
  <2>2. HandlerOK(handler')
    BY <1>4, Zenon DEF ReceiveBlock, Process, HandlerOK, Handling
  <2> QED BY <1>1, <1>4, <2>1, <2>2, Zenon DEF ReceiveBlock
<1>5. CASE BlockTxn(p, b, status)
  <2>1. FillBlock(net, p, b, status) \/ (handler' = Aborted /\ UNCHANGED net)
    BY <1>5, Zenon DEF BlockTxn
  <2>2. FillBlock(net, p, b, status) => Fine(net') /\ HandlerOK(handler')
    BY <1>1, FillFine
  <2>3. handler' = Aborted /\ UNCHANGED net => Fine(net') /\ HandlerOK(handler')
    BY <1>1 DEF HandlerOK
  <2>4. Fine(net') /\ HandlerOK(handler')
    BY <2>1, <2>2, <2>3
  <2> QED BY <1>1, <1>5, <2>4, Zenon DEF BlockTxn
<1>6. CASE CompactUnconnected(p, b)
  BY <1>1, <1>6 DEF CompactUnconnected
<1> QED BY <1>2, <1>3, <1>4, <1>5, <1>6

\* A block is stored, and the best chain of stored blocks is activated.
LEMMA AcceptRight ==
    ASSUME DownloadInv, NEW b \in Block, NEW force, AcceptBlock(b, force), UNCHANGED tip
    PROVE  Stocked' /\ index' \in SUBSET Tree
BY DEF DownloadInv, Stocked, AcceptBlock, Tree

LEMMA ActivateRight ==
    ASSUME DownloadInv, Activate, UNCHANGED have
    PROVE  Stocked'
BY DEF DownloadInv, Stocked, Activate, BestTips, Best

LEMMA HandlerSteps ==
    ASSUME DownloadInv, HandlerStep
    PROVE  DownloadInv'
<1>1. Fine(net) /\ Stocked /\ index \in SUBSET Tree /\ HandlerOK(handler)
  BY DEF DownloadInv
<1>2. handler.at \notin {"idle", "aborted"}
  BY DEF HandlerStep, HandlerAccept, HandlerActivate, HandlerClear
<1>3. handler \in Handling /\ handler.block \in Block
  BY <1>1, <1>2 DEF HandlerOK, Idle, Aborted, Handling
<1>4. HandlerOK(AfterProcess) /\ HandlerOK(Idle) /\ HandlerOK([handler EXCEPT !.at = "activate"])
  BY <1>3 DEF HandlerOK, AfterProcess, Handling
<1>5. CASE HandlerAccept
  <2>1. Stocked' /\ index' \in SUBSET Tree
    BY <1>3, <1>5, AcceptRight DEF HandlerAccept
  <2>2. HandlerOK(handler') /\ net' = net
    BY <1>4, <1>5 DEF HandlerAccept
  <2> QED BY <1>1, <2>1, <2>2 DEF DownloadInv
<1>6. CASE HandlerActivate
  <2>1. Stocked'
    BY <1>6, ActivateRight DEF HandlerActivate
  <2>2. HandlerOK(handler') /\ net' = net /\ index' = index
    BY <1>4, <1>6 DEF HandlerActivate
  <2> QED BY <1>1, <2>1, <2>2 DEF DownloadInv
<1>7. CASE HandlerClear
  <2>1. Fine(net')
    BY <1>1, <1>3, <1>7, ReceivedFine, Zenon DEF HandlerClear
  <2>2. HandlerOK(handler') /\ UNCHANGED <<index, have, tip>>
    BY <1>4, <1>7 DEF HandlerClear
  <2> QED BY <1>1, <2>1, <2>2 DEF DownloadInv, Stocked
<1> QED BY <1>5, <1>6, <1>7 DEF HandlerStep

\* Every step keeps the invariant.
LEMMA DownloadNext ==
    ASSUME DownloadInv, [Next]_vars
    PROVE  DownloadInv'
<1>1. Fine(net) /\ Stocked /\ index \in SUBSET Tree /\ HandlerOK(handler)
  BY DEF DownloadInv
<1>2. ASSUME NEW p \in Peer, Connect(p) \/ Version(p) \/ Close(p) \/ FinalizeNode(p)
                              \/ SendMessages(p) \/ Timeout(p)
      PROVE  DownloadInv'
  <2>1. Fine(net') /\ UNCHANGED <<index, have, tip, handler>>
    BY <1>2, PeerSteps, SendSteps
  <2> QED BY <1>1, <2>1 DEF DownloadInv, Stocked
<1>3. ASSUME NEW p \in Peer, NEW b \in Block, NEW status,
             \/ Announce(p, b) \/ CompactUnconnected(p, b) \/ Headers(p, b)
             \/ ReceiveBlock(p, b) \/ CompactBlock(p, b, status)
             \/ BlockTxn(p, b, status)
      PROVE  DownloadInv'
  <2>1. /\ Fine(net') /\ HandlerOK(handler')
        /\ index' \in SUBSET Tree /\ UNCHANGED <<have, tip>>
    BY <1>3, CompactStep, MessageSteps
  <2> QED BY <1>1, <2>1 DEF DownloadInv, Stocked
<1>4. CASE HandlerStep
  BY <1>4, HandlerSteps
<1>5. ASSUME NEW b \in Submitted, SubmitBlock(b) PROVE DownloadInv'
  <2>1. b \in Block
    BY PeerAssumption
  <2>2. Stocked' /\ index' \in SUBSET Tree
    BY <1>5, <2>1, AcceptRight, Zenon DEF SubmitBlock
  <2>3. net' = net /\ handler' = handler
    BY <1>5 DEF SubmitBlock
  <2> QED BY <1>1, <2>2, <2>3 DEF DownloadInv
<1>6. CASE SubmitActivate
  <2>1. Stocked'
    BY <1>6, ActivateRight DEF SubmitActivate
  <2>2. net' = net /\ handler' = handler /\ index' = index
    BY <1>6 DEF SubmitActivate
  <2> QED BY <1>1, <2>1, <2>2 DEF DownloadInv
<1>7. CASE UNCHANGED vars
  BY <1>1, <1>7 DEF DownloadInv, Stocked, vars
<1> QED BY <1>2, <1>3, <1>4, <1>5, <1>6, <1>7 DEF Next

LEMMA DownloadInit == Init => DownloadInv
<1>1. SUFFICES ASSUME Init PROVE DownloadInv
  OBVIOUS
<1>2. NewNode \in Node /\ NotInFlight \in Entry
  BY NewTypes
<1>3. net \in Net /\ ~net.broken
  <2>1. /\ [p \in Peer |-> NewNode] \in [Peer -> Node]
        /\ [b \in Block |-> NotInFlight] \in [Block -> Entry]
    BY <1>2
  <2> QED BY <1>1, <2>1 DEF Init, Net
<1>4. /\ \A p \in Peer : net.node[p] = NewNode
      /\ \A b \in Block : net.inFlight[b].peer = NoPeer
      /\ net.downloading = 0 /\ net.nPreferredDownload = 0 /\ net.nSyncStarted = 0
  BY <1>1 DEF Init, NotInFlight
<1>5. /\ NewNode.queue = <<>> /\ NewNode.count = 0 /\ NewNode.preferred = FALSE
      /\ NewNode.sync = FALSE /\ NewNode.stalling = FALSE
  BY DEF NewNode
<1>6. Distinct(<<>>) /\ Len(<<>>) = 0 /\ \A b : ~On(<<>>, b)
  BY DEF Distinct, On
<1>7. \A p \in Peer : PeerFine(net, p)
  BY <1>4, <1>5, <1>6, TreeAssumption, Zenon DEF PeerFine
<1>8. Downloaders(net) = {} /\ Preferred(net) = {} /\ Syncing(net) = {}
  BY <1>4, <1>5 DEF Downloaders, Preferred, Syncing
<1>9. Counted(net)
  BY <1>4, <1>8, FS_EmptySet, Zenon DEF Counted
<1>10. Stocked /\ index \in SUBSET Tree /\ HandlerOK(handler)
  BY <1>1 DEF Init, Stocked, Tree, HandlerOK
<1> QED BY <1>3, <1>7, <1>9, <1>10 DEF DownloadInv, Fine

\* What the invariant says of the lists is what the runs check.
LEMMA DownloadRight == DownloadInv => InFlightConsistent /\ RecordsNeverFail /\ StallersOweBlocks

\* A list without repetition is as long as the set of its elements is large.
<1>DistinctSize.
    ASSUME NEW T, NEW q \in Seq(T), Distinct(q)
    PROVE  Cardinality(Range(q)) = Len(q)
  <2> USE <1>DistinctSize
  <2>1. Len(q) \in Nat /\ DOMAIN q = 1 .. Len(q)
    BY ListFacts
  <2>2. q \in Bijection(1 .. Len(q), Range(q))
    BY <2>1 DEF Bijection, Injection, IsInjective, Surjection, Range, Distinct
  <2>3. ExistsBijection(1 .. Len(q), Range(q))
    BY <2>2 DEF ExistsBijection
  <2> QED BY <2>1, <2>3, FS_CountingElements

<1>1. SUFFICES ASSUME DownloadInv PROVE InFlightConsistent /\ RecordsNeverFail /\ StallersOweBlocks
  OBVIOUS
<1>2. net \in Net /\ Counted(net) /\ ~net.broken /\ \A p \in Peer : PeerFine(net, p)
  BY <1>1 DEF DownloadInv, Fine
<1>3. ASSUME NEW p \in Peer
      PROVE  /\ net.node[p].count = Len(net.node[p].queue)
             /\ Cardinality(Range(net.node[p].queue)) = Len(net.node[p].queue)
             /\ Range(net.node[p].queue) = {b \in Block : net.inFlight[b].peer = p}
             /\ net.node[p].queue # <<>> => HasState(net, p)
             /\ net.node[p].stalling => net.node[p].queue # <<>>
  <2>1. PeerFine(net, p)
    BY <1>2
  <2>2. PICK q \in Seq(Block) : q = net.node[p].queue
    BY <1>2, Zenon DEF Net, Node
  <2>3. Distinct(q) /\ net.node[p].count = Len(q)
    BY <2>1, <2>2 DEF PeerFine
  <2>4. Cardinality(Range(q)) = Len(q)
    BY <2>3, <1>DistinctSize
  <2>5. Range(q) \subseteq Block
    BY ListFacts, SMTT(20) DEF Range
  <2>6. \A b \in Block : b \in Range(q) <=> net.inFlight[b].peer = p
    BY <2>1, <2>2 DEF PeerFine, On, Range
  <2>7. Range(q) = {b \in Block : net.inFlight[b].peer = p}
    BY <2>5, <2>6
  <2>8. Len(q) = 0 <=> q = <<>>
    BY ListFacts
  <2>9. /\ net.node[p].queue # <<>> => HasState(net, p)
        /\ net.node[p].stalling => net.node[p].queue # <<>>
    BY <2>1, <2>2, <2>3, <2>8, Zenon DEF PeerFine
  <2> QED BY <2>2, <2>3, <2>4, <2>7, <2>9, Zenon
<1>4. InFlightConsistent
  BY <1>2, <1>3, Zenon DEF InFlightConsistent, Counted, Downloaders, Preferred, Syncing
<1>5. RecordsNeverFail /\ StallersOweBlocks
  BY <1>2, <1>3, Zenon DEF RecordsNeverFail, StallersOweBlocks
<1> QED BY <1>4, <1>5

-----------------------------------------------------------------------------------
(* The theorems.                                                                   *)

\* The invariant holds throughout.
THEOREM DownloadSafe == Spec => []DownloadInv
<1>1. DownloadInv /\ [Next]_vars => DownloadInv'
  BY DownloadNext
<1> QED BY <1>1, DownloadInit, PTL DEF Spec

\* mapBlocksInFlight, the peers' lists and the counters kept by hand agree, for every
\* number of peers, every tree of blocks and every window: whatever peers announce,
\* deliver, withhold or take with them, FinalizeNode and the timeouts find them right.
THEOREM RecordsAgree == Spec => []InFlightConsistent
BY DownloadSafe, DownloadRight, PTL

\* No assertion of FinalizeNode fails, no handler looks up a peer that is gone, and no
\* block is requested twice from one peer without a place for the entry.
THEOREM RecordsSuffice == Spec => []RecordsNeverFail
BY DownloadSafe, DownloadRight, PTL

\* A peer accused of stalling the download window still has a block in flight, so no
\* peer is disconnected for a block that has already come.
THEOREM StallersOwe == Spec => []StallersOweBlocks
BY DownloadSafe, DownloadRight, PTL
====
