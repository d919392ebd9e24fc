---------------------------- MODULE CoinsCacheProofs ----------------------------
(***************************************************************************)
(* Proofs about CoinsCache, for all outpoints, coins and blocks: the flags *)
(* keep their meaning, BatchWrite never throws, and the stack of caches    *)
(* implements the flat map of UtxoSet as long as no database write fails.  *)
(***************************************************************************)
EXTENDS CoinsCache, TLAPS

\* The inductive invariant.  NoLogicError follows from FreshMeansSpentBelow;
\* a closed view has no entries, which Begin and the merges rely on.
ClosedViewIsEmpty == ~viewOpen => viewCoins = EmptyCache

IInv ==
    /\ TypeOK
    /\ FreshMeansSpentBelow
    /\ CleanMatchesBelow
    /\ SpentIsPending
    /\ ClosedViewIsEmpty

Slot == Entry \cup {Absent}
CoinOrSpent == Coins \cup {Spent}

----------------------------------------------------------------------------
(* Lemmas about the operations on one entry.                               *)

\* An entry is a record with the three fields of CCoinsCacheEntry.
LEMMA EntryFields ==
    ASSUME NEW e \in Entry
    PROVE  /\ e.coin \in CoinOrSpent /\ e.dirty \in BOOLEAN /\ e.fresh \in BOOLEAN
           /\ e # Absent
  BY CoinsAssumption DEF Entry, CoinOrSpent

\* BatchWrite's loop body keeps entries well formed.
LEMMA MergeType ==
    ASSUME NEW child \in Slot, NEW parent \in Slot
    PROVE  MergeEntry(child, parent) \in Slot
  BY EntryFields DEF MergeEntry, Slot, Entry, CoinOrSpent

\* BatchWrite's loop body stores what the child sees and keeps the meaning of
\* the parent's flags, given that both entries' flags are right: "below" is the
\* coin of the grandparent.
LEMMA MergeCorrect ==
    ASSUME NEW child \in Slot, NEW parent \in Slot, NEW below \in CoinOrSpent,
           NEW seen, seen = IF parent # Absent THEN parent.coin ELSE below,
           parent # Absent /\ parent.fresh => below = Spent,
           parent # Absent /\ ~parent.dirty => parent.coin = below,
           parent # Absent /\ parent.coin = Spent => parent.dirty /\ ~parent.fresh,
           child # Absent /\ child.fresh => seen = Spent,
           child # Absent /\ ~child.dirty => child.coin = seen,
           NEW new, new = MergeEntry(child, parent)
    PROVE  /\ (IF new # Absent THEN new.coin ELSE below)
                = (IF child # Absent THEN child.coin ELSE seen)
           /\ new # Absent /\ new.fresh => below = Spent
           /\ new # Absent /\ ~new.dirty => new.coin = below
           /\ new # Absent /\ new.coin = Spent => new.dirty /\ ~new.fresh
  BY EntryFields, Zenon DEF MergeEntry, Slot, Entry, CoinOrSpent

----------------------------------------------------------------------------
(* Lemmas about lookups.                                                   *)

\* The entry that FetchCoin creates: clean, and FRESH when the base's is empty.
FetchedEntry(coin) == [coin |-> coin, dirty |-> FALSE, fresh |-> coin = Spent]

LEMMA FetchedEntryFields ==
    ASSUME NEW coin \in CoinOrSpent
    PROVE  /\ FetchedEntry(coin) \in Entry /\ FetchedEntry(coin) # Absent
           /\ FetchedEntry(coin).coin = coin /\ ~FetchedEntry(coin).dirty
           /\ FetchedEntry(coin).fresh <=> coin = Spent
  <1>1. FetchedEntry(coin) \in Entry /\ FetchedEntry(coin).coin = coin /\ ~FetchedEntry(coin).dirty
    BY DEF FetchedEntry, Entry, CoinOrSpent
  <1>2. FetchedEntry(coin).fresh <=> coin = Spent
    BY Zenon DEF FetchedEntry
  <1> QED BY <1>1, <1>2, CoinsAssumption

\* A lookup in pcoinsTip only adds a clean copy of what the database holds: no
\* reader can tell, and the flags stay right.
LEMMA TipFetchedCorrect ==
    ASSUME TypeOK, FreshMeansSpentBelow, CleanMatchesBelow, SpentIsPending, NEW o \in Outpoints
    PROVE  /\ TipFetched(o) \in Cache
           /\ \A p \in Outpoints :
                /\ Seen(TipFetched(o), dbCoins, p) = TipCoin(p)
                /\ TipFetched(o)[p] # Absent =>
                    /\ TipFetched(o)[p].fresh => dbCoins[p] = Spent
                    /\ ~TipFetched(o)[p].dirty => TipFetched(o)[p].coin = dbCoins[p]
                    /\ TipFetched(o)[p].coin = Spent
                            => TipFetched(o)[p].dirty /\ ~TipFetched(o)[p].fresh
  BY CoinsAssumption, Zenon DEF TypeOK, FreshMeansSpentBelow, CleanMatchesBelow, SpentIsPending,
        TipFetched, FetchCoin, Seen, TipCoin, Cache, CoinMap, Entry

\* A lookup in the local view only adds clean copies, to it and to pcoinsTip.
LEMMA ViewFetchedCorrect ==
    ASSUME IInv, NEW o \in Outpoints,
           NEW tip, tip = ViewFetched(o).tip, NEW view, view = ViewFetched(o).view
    PROVE  /\ tip \in Cache /\ view \in Cache
           /\ \A p \in Outpoints :
                /\ Seen(tip, dbCoins, p) = TipCoin(p)
                /\ tip[p] # Absent =>
                    /\ tip[p].fresh => dbCoins[p] = Spent
                    /\ ~tip[p].dirty => tip[p].coin = dbCoins[p]
                    /\ tip[p].coin = Spent => tip[p].dirty /\ ~tip[p].fresh
                /\ Seen(view, ViewOf(tip, dbCoins), p) = ViewCoin(p)
                /\ view[p] # Absent =>
                    /\ view[p].fresh => TipCoin(p) = Spent
                    /\ ~view[p].dirty => view[p].coin = TipCoin(p)
                /\ p = o /\ view[p] = Absent => ViewCoin(p) = Spent
  <1> DEFINE other == IF viewCoins[o] # Absent THEN tipCoins ELSE TipFetched(o)
  <1>1. /\ tip = other
        /\ view = FetchCoin(viewCoins, o, tip[o] # Absent,
                            IF tip[o] # Absent THEN tip[o].coin ELSE Spent)
    BY DEF ViewFetched
  <1>2. /\ tip \in Cache
        /\ \A p \in Outpoints :
                /\ Seen(tip, dbCoins, p) = TipCoin(p)
                /\ tip[p] # Absent =>
                    /\ tip[p].fresh => dbCoins[p] = Spent
                    /\ ~tip[p].dirty => tip[p].coin = dbCoins[p]
                    /\ tip[p].coin = Spent => tip[p].dirty /\ ~tip[p].fresh
    <2>1. CASE viewCoins[o] # Absent
      BY <1>1, <2>1 DEF IInv, TypeOK, FreshMeansSpentBelow, CleanMatchesBelow, SpentIsPending, TipCoin
    <2>2. CASE viewCoins[o] = Absent
      BY <1>1, <2>2, TipFetchedCorrect DEF IInv
    <2> QED BY <2>1, <2>2
  <1>3. PICK coin \in CoinOrSpent :
            /\ view = FetchCoin(viewCoins, o, tip[o] # Absent, coin)
            /\ tip[o] # Absent => coin = TipCoin(o)
    <2>1. (IF tip[o] # Absent THEN tip[o].coin ELSE Spent) \in CoinOrSpent
      BY <1>2, EntryFields DEF Cache, CoinOrSpent
    <2>2. tip[o] # Absent => tip[o].coin = TipCoin(o)
      BY <1>2 DEF Seen
    <2> QED BY <1>1, <2>1, <2>2
  <1>4. view \in Cache
    BY <1>3 DEF IInv, TypeOK, FetchCoin, Cache, Entry, CoinOrSpent
  <1>5. ASSUME NEW p \in Outpoints
        PROVE  /\ view[p] # Absent =>
                    /\ view[p].fresh => TipCoin(p) = Spent
                    /\ ~view[p].dirty => view[p].coin = TipCoin(p)
               /\ Seen(view, ViewOf(tip, dbCoins), p) = ViewCoin(p)
    <2>1. viewCoins \in Cache
      BY DEF IInv, TypeOK
    <2>2. /\ Seen(view, ViewOf(tip, dbCoins), p) = IF view[p] # Absent THEN view[p].coin ELSE TipCoin(p)
          /\ ViewCoin(p) = IF viewCoins[p] # Absent THEN viewCoins[p].coin ELSE TipCoin(p)
      BY <1>2 DEF Seen, ViewOf, ViewCoin
    <2>3. CASE p = o /\ viewCoins[p] = Absent /\ tip[o] # Absent
      <3>1. view[p] = FetchedEntry(coin)
        BY <1>3, <2>1, <2>3 DEF FetchCoin, Cache, FetchedEntry
      <3>2. view[p] # Absent /\ view[p].coin = coin /\ (view[p].fresh <=> coin = Spent) /\ ~view[p].dirty
        BY <3>1, FetchedEntryFields
      <3> QED BY <3>2, <1>3, <2>2, <2>3
    <2>4. CASE ~(p = o /\ viewCoins[p] = Absent /\ tip[o] # Absent)
      <3>1. view[p] = viewCoins[p]
        BY <1>3, <2>1, <2>4 DEF FetchCoin, Cache
      <3> QED BY <3>1, <2>2 DEF IInv, FreshMeansSpentBelow, CleanMatchesBelow
    <2> QED BY <2>3, <2>4
  <1>6. view[o] = Absent => ViewCoin(o) = Spent
    <2>1. SUFFICES ASSUME view[o] = Absent PROVE ViewCoin(o) = Spent
      OBVIOUS
    <2> USE DEF FetchCoin, FetchedEntry
    <2>2. viewCoins[o] = Absent /\ tip[o] = Absent
      <3>1. viewCoins \in Cache /\ FetchedEntry(coin) # Absent
        BY FetchedEntryFields DEF IInv, TypeOK
      <3>2. CASE viewCoins[o] = Absent /\ tip[o] # Absent
        <4>1. view[o] = FetchedEntry(coin)
          BY <1>3, <3>1, <3>2 DEF Cache
        <4> QED BY <4>1, <3>1, <2>1
      <3>3. CASE viewCoins[o] # Absent
        BY <1>3, <3>3, <2>1
      <3> QED BY <3>2, <3>3
    <2>3. dbCoins[o] = Spent
      <3>1. tipCoins \in Cache /\ dbCoins[o] \in CoinOrSpent /\ FetchedEntry(dbCoins[o]) # Absent
        BY FetchedEntryFields DEF IInv, TypeOK, CoinMap, CoinOrSpent
      <3>2. TipFetched(o)[o] = Absent
        BY <1>1, <2>2
      <3>3. CASE dbCoins[o] # Spent /\ tipCoins[o] = Absent
        <4>1. TipFetched(o)[o] = FetchedEntry(dbCoins[o])
          BY <3>1, <3>3 DEF TipFetched, Cache
        <4> QED BY <4>1, <3>1, <3>2
      <3>4. CASE tipCoins[o] # Absent
        BY <3>2, <3>4 DEF TipFetched
      <3> QED BY <3>3, <3>4
    <2>4. ViewCoin(o) = dbCoins[o]
      BY <2>2, <1>2 DEF ViewCoin, Seen
    <2> QED BY <2>3, <2>4
  <1> QED BY <1>2, <1>4, <1>5, <1>6

----------------------------------------------------------------------------
(* The invariant is inductive.                                             *)

LEMMA EmptyCacheType == EmptyCache \in Cache /\ \A o \in Outpoints : EmptyCache[o] = Absent
  BY DEF EmptyCache, Cache

LEMMA InitIInv == Init => IInv
  BY EmptyCacheType, Zenon DEF Init, IInv, TypeOK, FreshMeansSpentBelow, CleanMatchesBelow,
     SpentIsPending, ClosedViewIsEmpty, CoinMap

\* What the flags of one entry of each cache have to satisfy; IInv is TypeOK,
\* ClosedViewIsEmpty and this for every outpoint.
FlagsRight(view, tip, db) ==
    /\ tip # Absent =>
        /\ tip.fresh => db = Spent
        /\ ~tip.dirty => tip.coin = db
        /\ tip.coin = Spent => tip.dirty /\ ~tip.fresh
    /\ view # Absent =>
        /\ view.fresh => (IF tip # Absent THEN tip.coin ELSE db) = Spent
        /\ ~view.dirty => view.coin = IF tip # Absent THEN tip.coin ELSE db

LEMMA IInvPointwise ==
    IInv <=> /\ TypeOK /\ ClosedViewIsEmpty
             /\ \A o \in Outpoints : FlagsRight(viewCoins[o], tipCoins[o], dbCoins[o])
  BY DEF IInv, FreshMeansSpentBelow, CleanMatchesBelow, SpentIsPending, FlagsRight, TipCoin, Seen

\* The same in the next state.
LEMMA IInvPointwisePrimed ==
    IInv' <=> /\ TypeOK' /\ ClosedViewIsEmpty'
              /\ \A o \in Outpoints : FlagsRight(viewCoins'[o], tipCoins'[o], dbCoins'[o])
  BY DEF IInv, FreshMeansSpentBelow, CleanMatchesBelow, SpentIsPending, FlagsRight, TipCoin, Seen

\* After a lookup in the view the flags of both caches are right.
LEMMA ViewFetchedFlags ==
    ASSUME IInv, NEW o \in Outpoints, NEW p \in Outpoints
    PROVE  FlagsRight(ViewFetched(o).view[p], ViewFetched(o).tip[p], dbCoins[p])
  BY ViewFetchedCorrect DEF FlagsRight, Seen

\* SpendCoin keeps the flags right and leaves the other entries alone.
LEMMA SpendCoinFlags ==
    ASSUME NEW view \in Cache, NEW o \in Outpoints, NEW p \in Outpoints,
           NEW tip \in Slot, NEW db \in CoinOrSpent, FlagsRight(view[p], tip, db)
    PROVE  /\ SpendCoin(view, o) \in Cache
           /\ FlagsRight(SpendCoin(view, o)[p], tip, db)
  BY CoinsAssumption DEF SpendCoin, FlagsRight, Cache, Entry, Slot

\* AddCoin keeps the flags right when its caller keeps its promise.
LEMMA AddCoinFlags ==
    ASSUME NEW view \in Cache, NEW o \in Outpoints, NEW p \in Outpoints,
           NEW c \in Coins, NEW ow \in BOOLEAN,
           NEW tip \in Slot, NEW db \in CoinOrSpent, FlagsRight(view[p], tip, db),
           p = o => ow \/ (IF view[p] # Absent THEN view[p].coin
                           ELSE IF tip # Absent THEN tip.coin ELSE db) = Spent
    PROVE  /\ AddCoin(view, o, c, ow) \in Cache
           /\ FlagsRight(AddCoin(view, o, c, ow)[p], tip, db)
  <1> DEFINE old == IF view[o] # Absent THEN view[o]
                    ELSE [coin |-> Spent, dirty |-> FALSE, fresh |-> FALSE]
             new == [coin |-> c, dirty |-> TRUE, fresh |-> old.fresh \/ (~ow /\ ~old.dirty)]
  <1>1. AddCoin(view, o, c, ow) = [view EXCEPT ![o] = new]
    BY DEF AddCoin
  <1>2. old.fresh \in BOOLEAN /\ old.dirty \in BOOLEAN
    BY Zenon DEF Cache, Entry
  <1>3. new \in Entry /\ new.coin = c /\ new.dirty = TRUE
    BY <1>2 DEF Entry
  <1>4. new.fresh <=> old.fresh \/ (~ow /\ ~old.dirty)
    BY Zenon
  <1>5. AddCoin(view, o, c, ow) \in Cache
    BY <1>1, <1>3 DEF Cache
  <1>6. CASE p # o
    <2>1. AddCoin(view, o, c, ow)[p] = view[p]
      BY <1>1, <1>6 DEF Cache
    <2> QED BY <1>5, <2>1
  <1>7. CASE p = o
    <2>1. AddCoin(view, o, c, ow)[p] = new
      BY <1>1, <1>7 DEF Cache
    <2>2. new.fresh => (IF tip # Absent THEN tip.coin ELSE db) = Spent
      BY <1>4, <1>7 DEF FlagsRight
    <2> QED BY <1>5, <1>3, <2>1, <2>2 DEF FlagsRight
  <1> QED BY <1>5, <1>6, <1>7

LEMMA NextIInv == IInv /\ [Next]_vars => IInv'
  <1> SUFFICES ASSUME IInv, [Next]_vars PROVE IInv'
    OBVIOUS
  <1> USE IInvPointwise, IInvPointwisePrimed
  <1>type. /\ TypeOK
           /\ viewCoins \in Cache /\ tipCoins \in Cache /\ dbCoins \in CoinMap
           /\ \A p \in Outpoints : viewCoins[p] \in Slot /\ tipCoins[p] \in Slot
                                    /\ dbCoins[p] \in CoinOrSpent
    BY DEF TypeOK, Cache, CoinMap, Slot, CoinOrSpent
  <1>best. GetBestBlock(tipBest, dbBest) \in Blocks \cup {NullHash}
    BY DEF TypeOK, GetBestBlock
  <1>1. CASE BeginView
    BY <1>1, <1>best, EmptyCacheType DEF BeginView, TypeOK, FlagsRight, ClosedViewIsEmpty, dbVars
  <1>2. CASE DropView
    BY <1>2, EmptyCacheType, Zenon DEF DropView, TypeOK, FlagsRight, ClosedViewIsEmpty, tipVars, dbVars
  <1>3. ASSUME NEW o \in Outpoints, ViewAccess(o) PROVE IInv'
    BY <1>3, ViewFetchedCorrect, ViewFetchedFlags
       DEF ViewAccess, TypeOK, ClosedViewIsEmpty, dbVars
  <1>4. ASSUME NEW o \in Outpoints, ViewSpend(o) PROVE IInv'
    <2>1. ViewFetched(o).view \in Cache /\ ViewFetched(o).tip \in Cache
      BY ViewFetchedCorrect
    <2>2. SpendCoin(ViewFetched(o).view, o) \in Cache
      BY <2>1 DEF SpendCoin, Cache, Entry
    <2>3. ASSUME NEW p \in Outpoints
          PROVE  FlagsRight(SpendCoin(ViewFetched(o).view, o)[p], ViewFetched(o).tip[p], dbCoins[p])
      BY <2>1, <1>type, ViewFetchedFlags, SpendCoinFlags, Zenon DEF Cache, Slot
    <2> QED BY <1>4, <2>1, <2>2, <2>3 DEF ViewSpend, TypeOK, ClosedViewIsEmpty, dbVars
  <1>5. ASSUME NEW o \in Outpoints, NEW c \in Coins, NEW ow \in BOOLEAN, ViewAdd(o, c, ow)
        PROVE  IInv'
    <2>1. ow \/ (IF viewCoins[o] # Absent THEN viewCoins[o].coin
                 ELSE IF tipCoins[o] # Absent THEN tipCoins[o].coin ELSE dbCoins[o]) = Spent
      BY <1>5 DEF ViewAdd, ViewCoin, TipCoin, Seen
    <2>2. ASSUME NEW p \in Outpoints
          PROVE  /\ AddCoin(viewCoins, o, c, ow) \in Cache
                 /\ FlagsRight(AddCoin(viewCoins, o, c, ow)[p], tipCoins[p], dbCoins[p])
      BY <1>type, <2>1, AddCoinFlags
    <2> QED BY <1>5, <2>2 DEF ViewAdd, TypeOK, ClosedViewIsEmpty, tipVars, dbVars
  <1>6. ASSUME NEW b \in Blocks, CommitView(b) PROVE IInv'
    <2>1. BatchWrite(viewCoins, tipCoins) \in Cache
      BY <1>type, MergeType DEF BatchWrite, Cache, Slot
    <2>2. ASSUME NEW p \in Outpoints
          PROVE  FlagsRight(EmptyCache[p], BatchWrite(viewCoins, tipCoins)[p], dbCoins[p])
      <3> DEFINE view == viewCoins[p]
                 tip == tipCoins[p]
                 db == dbCoins[p]
                 new == MergeEntry(view, tip)
      <3>1. BatchWrite(viewCoins, tipCoins)[p] = new /\ EmptyCache[p] = Absent
        BY EmptyCacheType DEF BatchWrite
      <3>2. view \in Slot /\ tip \in Slot /\ db \in CoinOrSpent /\ FlagsRight(view, tip, db)
        BY <1>type
      <3> HIDE DEF view, tip, db, new
      <3>3. /\ new # Absent /\ new.fresh => db = Spent
            /\ new # Absent /\ ~new.dirty => new.coin = db
            /\ new # Absent /\ new.coin = Spent => new.dirty /\ ~new.fresh
        BY <3>2, MergeCorrect DEF FlagsRight, new
      <3>4. FlagsRight(Absent, new, db)
        BY <3>3 DEF FlagsRight
      <3> QED BY <3>1, <3>4 DEF db
    <2> QED BY <1>6, <2>1, <2>2, EmptyCacheType, Zenon DEF CommitView, TypeOK, ClosedViewIsEmpty, dbVars
  <1>7. ASSUME NEW o \in Outpoints, TipAccess(o) PROVE IInv'
    <2>1. ASSUME NEW p \in Outpoints
          PROVE  FlagsRight(viewCoins[p], TipFetched(o)[p], dbCoins[p])
      <3> DEFINE tip == TipFetched(o)[p]
      <3>1. /\ Seen(TipFetched(o), dbCoins, p) = TipCoin(p)
            /\ tip # Absent =>
                    /\ tip.fresh => dbCoins[p] = Spent
                    /\ ~tip.dirty => tip.coin = dbCoins[p]
                    /\ tip.coin = Spent => tip.dirty /\ ~tip.fresh
        BY TipFetchedCorrect DEF IInv
      <3>2. viewCoins[p] # Absent =>
                    /\ viewCoins[p].fresh => TipCoin(p) = Spent
                    /\ ~viewCoins[p].dirty => viewCoins[p].coin = TipCoin(p)
        BY DEF IInv, FreshMeansSpentBelow, CleanMatchesBelow
      <3>3. TipCoin(p) = IF tip # Absent THEN tip.coin ELSE dbCoins[p]
        BY <3>1 DEF Seen
      <3> HIDE DEF tip
      <3> QED BY <3>1, <3>2, <3>3 DEF FlagsRight, tip
    <2>2. TipFetched(o) \in Cache
      BY TipFetchedCorrect DEF IInv
    <2> QED BY <1>7, <2>1, <2>2, Zenon DEF TipAccess, TypeOK, ClosedViewIsEmpty, viewVars, dbVars
  <1>8. ASSUME NEW o \in Outpoints, TipUncache(o) PROVE IInv'
    <2>1. Uncache(tipCoins, o) \in Cache
      BY <1>type DEF Uncache, Cache
    <2>2. \A p \in Outpoints : FlagsRight(viewCoins[p], Uncache(tipCoins, o)[p], dbCoins[p])
      BY <1>type DEF Uncache, FlagsRight, Cache
    <2> QED BY <1>8, <2>1, <2>2 DEF TipUncache, TypeOK, ClosedViewIsEmpty, viewVars, dbVars
  <1>9. CASE FlushTip \/ Shutdown
    <2>1. /\ WriteTip /\ ~viewOpen /\ UNCHANGED viewVars
          /\ phase' \in {"running", "aborting", "down"} /\ tipBest' \in Blocks \cup {NullHash}
      BY <1>9 DEF FlushTip, Shutdown, TypeOK
    <2>2. dbCoins' \in CoinMap /\ dbBest' \in Blocks \cup {NullHash}
      BY <2>1, <1>type DEF WriteTip, BatchWriteDB, TypeOK, Cache, CoinMap, Entry
    <2>3. tipCoins' = EmptyCache /\ viewCoins' = EmptyCache
      BY <2>1 DEF WriteTip, viewVars, ClosedViewIsEmpty
    <2>4. TypeOK' /\ ClosedViewIsEmpty'
      BY <2>1, <2>2, <2>3, EmptyCacheType DEF TypeOK, viewVars, ClosedViewIsEmpty
    <2> QED BY <2>3, <2>4, EmptyCacheType DEF FlagsRight
  <1>10. CASE FlushTipFails
    BY <1>10, EmptyCacheType DEF FlushTipFails, TypeOK, FlagsRight, ClosedViewIsEmpty, viewVars, dbVars
  <1>11. CASE Crash
    BY <1>11, EmptyCacheType, Zenon DEF Crash, TypeOK, FlagsRight, ClosedViewIsEmpty, dbVars
  <1>12. CASE Restart
    BY <1>12, <1>best DEF Restart, TypeOK, ClosedViewIsEmpty, viewVars, dbVars
  <1>13. CASE UNCHANGED vars
    BY <1>13 DEF vars, viewVars, tipVars, dbVars, TypeOK, ClosedViewIsEmpty
  <1> QED BY <1>1, <1>2, <1>3, <1>4, <1>5, <1>6, <1>7, <1>8, <1>9, <1>10, <1>11, <1>12, <1>13 DEF Next

LEMMA Invariance == Spec => []IInv
  BY InitIInv, NextIInv, PTL DEF Spec

----------------------------------------------------------------------------
(* The theorems.                                                           *)

\* The caches and the database always hold values of their types.
THEOREM TypeCorrect == Spec => []TypeOK
  <1>1. IInv => TypeOK
    BY DEF IInv
  <1> QED BY <1>1, Invariance, PTL

\* FRESH and DIRTY mean what coins.h says, at both levels, for ever: a FRESH
\* entry is spent below, and an entry that is not DIRTY equals the one below.
THEOREM FlagsCorrect == Spec => []FlagsMatchBelow
  <1>1. IInv => FlagsMatchBelow
    BY DEF IInv, FlagsMatchBelow
  <1> QED BY <1>1, Invariance, PTL

\* CCoinsViewCache::BatchWrite never throws "FRESH flag misapplied".
THEOREM NeverMisapplied == Spec => []NoLogicError
  <1>1. IInv => NoLogicError
    BY Zenon DEF IInv, FreshMeansSpentBelow, NoLogicError, FreshMisapplied, TipCoin, Seen
  <1> QED BY <1>1, Invariance, PTL

\* A spent entry of pcoinsTip is DIRTY and not FRESH: the next flush tells the
\* database of every spend that the database does not know yet.
THEOREM SpendsReachDatabase == Spec => []SpentIsPending
  <1>1. IInv => SpentIsPending
    BY DEF IInv
  <1> QED BY <1>1, Invariance, PTL

\* The views of the caches as functions, for the refinement mapping.
LEMMA ViewOfAt ==
    /\ ViewOf(tipCoins, dbCoins) = [o \in Outpoints |-> TipCoin(o)]
    /\ ViewOf(viewCoins, ViewOf(tipCoins, dbCoins)) = [o \in Outpoints |-> ViewCoin(o)]
  BY DEF ViewOf, Seen, TipCoin, ViewCoin

LEMMA InitRefines == Init => Utxo!UtxoInit
  BY EmptyCacheType DEF Init, Utxo!UtxoInit, ViewOf, Seen, GetBestBlock

\* An empty cache shows its base.
LEMMA EmptyShowsBase == \A m \in CoinMap : ViewOf(EmptyCache, m) = m
  BY EmptyCacheType DEF ViewOf, Seen, CoinMap

\* After SpendCoin a reader finds the coin spent, and no other coin changed.
LEMMA SpendSeen ==
    ASSUME NEW v \in Cache, NEW base \in CoinMap, NEW o \in Outpoints, NEW p \in Outpoints,
           v[o] = Absent => base[o] = Spent,
           v[o] # Absent /\ v[o].fresh => base[o] = Spent
    PROVE  Seen(SpendCoin(v, o), base, p) = IF p = o THEN Spent ELSE Seen(v, base, p)
  <1> DEFINE gone == [coin |-> Spent, dirty |-> TRUE, fresh |-> FALSE]
  <1>0. gone \in Entry /\ gone.coin = Spent
    BY DEF Entry
  <1>1. gone # Absent /\ gone.coin = Spent
    BY <1>0, CoinsAssumption, Zenon
  <1>2. SpendCoin(v, o)[p] = IF p # o THEN v[p]
                             ELSE IF v[o] = Absent \/ v[o].fresh THEN Absent ELSE gone
    BY DEF SpendCoin, Cache
  <1> QED BY <1>1, <1>2 DEF Seen

\* After AddCoin a reader finds the coin, and no other coin changed.
LEMMA AddSeen ==
    ASSUME NEW v \in Cache, NEW base \in CoinMap, NEW o \in Outpoints, NEW p \in Outpoints,
           NEW c \in Coins, NEW ow \in BOOLEAN
    PROVE  Seen(AddCoin(v, o, c, ow), base, p) = IF p = o THEN c ELSE Seen(v, base, p)
  <1> DEFINE old == IF v[o] # Absent THEN v[o]
                    ELSE [coin |-> Spent, dirty |-> FALSE, fresh |-> FALSE]
             new == [coin |-> c, dirty |-> TRUE, fresh |-> old.fresh \/ (~ow /\ ~old.dirty)]
  <1>1. AddCoin(v, o, c, ow) = [v EXCEPT ![o] = new]
    BY DEF AddCoin
  <1>2. old.fresh \in BOOLEAN /\ old.dirty \in BOOLEAN
    BY Zenon DEF Cache, Entry
  <1>3. new \in Entry /\ new.coin = c
    BY <1>2 DEF Entry
  <1>4. new # Absent
    BY <1>3, CoinsAssumption, Zenon
  <1>5. AddCoin(v, o, c, ow)[p] = IF p = o THEN new ELSE v[p]
    BY <1>1 DEF Cache
  <1> HIDE DEF new
  <1> QED BY <1>3, <1>4, <1>5 DEF Seen

\* Every step of the caches is a step of the flat map or leaves it alone.
LEMMA StepRefines ==
    ASSUME IInv, [Next]_vars
    PROVE  [Utxo!UtxoNext]_(Utxo!utxoVars)
  <1> DEFINE tipMap  == ViewOf(tipCoins, dbCoins)
             viewMap == ViewOf(viewCoins, tipMap)
  <1>type. /\ viewCoins \in Cache /\ tipCoins \in Cache /\ dbCoins \in CoinMap
           /\ tipMap \in CoinMap /\ viewMap \in CoinMap
           /\ viewOpen \in BOOLEAN
    BY EntryFields DEF IInv, TypeOK, ViewOf, Seen, Cache, CoinMap, Slot, CoinOrSpent
  <1> USE DEF Utxo!UtxoNext
  <1>1. CASE BeginView
    <2>1. tipMap' = tipMap /\ viewMap' = tipMap /\ ~viewOpen /\ viewOpen'
      BY <1>1, <1>type, EmptyShowsBase DEF BeginView, dbVars
    <2>2. GetBestBlock(tipBest, dbBest)' = GetBestBlock(tipBest, dbBest)
      BY <1>1 DEF BeginView, GetBestBlock, dbVars
    <2>3. Utxo!Begin
      BY <1>1, <2>1, <2>2 DEF BeginView, Utxo!Begin, dbVars
    <2> QED BY <2>3
  <1>2. CASE DropView
    <2>1. Utxo!Drop
      BY <1>2 DEF DropView, Utxo!Drop, tipVars, dbVars
    <2> QED BY <2>1
  <1>3. ASSUME NEW o \in Outpoints, ViewAccess(o) PROVE UNCHANGED Utxo!utxoVars
    <2>1. tipMap' = tipMap
      BY <1>3, ViewFetchedCorrect, Zenon DEF ViewAccess, ViewOf, TipCoin, dbVars
    <2>2. viewMap' = viewMap
      BY <1>3, ViewFetchedCorrect, ViewOfAt DEF ViewAccess, ViewOf, dbVars
    <2> QED BY <1>3, <2>1, <2>2 DEF ViewAccess, Utxo!utxoVars, dbVars
  <1>4. ASSUME NEW o \in Outpoints, ViewSpend(o) PROVE Utxo!Write(o, Spent)
    <2> DEFINE v == ViewFetched(o).view
    <2>1. tipMap' = tipMap
      BY <1>4, ViewFetchedCorrect, Zenon DEF ViewSpend, ViewOf, TipCoin, dbVars
    <2>2. ViewOf(ViewFetched(o).tip, dbCoins) = tipMap
      BY <1>4, <2>1 DEF ViewSpend, dbVars
    <2>3. /\ v \in Cache
          /\ \A p \in Outpoints : Seen(v, tipMap, p) = viewMap[p]
          /\ v[o] = Absent => viewMap[o] = Spent
          /\ v[o] # Absent /\ v[o].fresh => tipMap[o] = Spent
      BY <2>2, ViewFetchedCorrect, ViewOfAt
    <2>4. v[o] = Absent => tipMap[o] = Spent
      BY <2>3 DEF Seen
    <2>5. viewMap' = [p \in Outpoints |-> Seen(SpendCoin(v, o), tipMap, p)]
      BY <1>4, <2>1 DEF ViewSpend, ViewOf
    <2>6. viewMap' = [viewMap EXCEPT ![o] = Spent]
      <3>1. \A p \in Outpoints : Seen(SpendCoin(v, o), tipMap, p) = IF p = o THEN Spent ELSE viewMap[p]
        BY <2>3, <2>4, <1>type, SpendSeen
      <3> HIDE DEF tipMap, viewMap
      <3> QED BY <3>1, <2>5, <1>type, Zenon DEF CoinMap
    <2> QED BY <1>4, <2>1, <2>6 DEF ViewSpend, Utxo!Write, dbVars
  <1>5. ASSUME NEW o \in Outpoints, NEW c \in Coins, NEW ow \in BOOLEAN, ViewAdd(o, c, ow)
        PROVE  Utxo!Write(o, c)
    <2>1. viewMap' = [p \in Outpoints |-> Seen(AddCoin(viewCoins, o, c, ow), tipMap, p)]
      BY <1>5 DEF ViewAdd, ViewOf, tipVars, dbVars
    <2>2. \A p \in Outpoints : viewMap[p] = Seen(viewCoins, tipMap, p)
      BY DEF ViewOf
    <2>3. viewMap' = [viewMap EXCEPT ![o] = c]
      <3>1. \A p \in Outpoints :
               Seen(AddCoin(viewCoins, o, c, ow), tipMap, p) = IF p = o THEN c ELSE viewMap[p]
        BY <2>2, <1>type, AddSeen
      <3> HIDE DEF tipMap, viewMap
      <3> QED BY <3>1, <2>1, <1>type, Zenon DEF CoinMap
    <2> QED BY <1>5, <2>3, Zenon DEF ViewAdd, Utxo!Write, tipVars, dbVars
  <1>6. ASSUME NEW b \in Blocks, CommitView(b) PROVE Utxo!Commit(b)
    <2>1. ASSUME NEW p \in Outpoints
          PROVE  Seen(BatchWrite(viewCoins, tipCoins), dbCoins, p) = viewMap[p]
      <3> DEFINE view == viewCoins[p]
                 tip == tipCoins[p]
                 db == dbCoins[p]
                 new == MergeEntry(view, tip)
                 seen == IF tip # Absent THEN tip.coin ELSE db
      <3>1. view \in Slot /\ tip \in Slot /\ db \in CoinOrSpent /\ FlagsRight(view, tip, db)
        BY <1>type, IInvPointwise DEF Cache, CoinMap, Slot, CoinOrSpent
      <3>2. /\ Seen(BatchWrite(viewCoins, tipCoins), dbCoins, p)
                 = IF new # Absent THEN new.coin ELSE db
            /\ viewMap[p] = IF view # Absent THEN view.coin ELSE seen
        BY DEF BatchWrite, Seen, ViewOf
      <3> HIDE DEF view, tip, db
      <3>3. (IF new # Absent THEN new.coin ELSE db) = (IF view # Absent THEN view.coin ELSE seen)
        BY <3>1, MergeCorrect DEF FlagsRight
      <3> HIDE DEF new, seen
      <3> QED BY <3>2, <3>3
    <2>2. tipMap' = viewMap
      BY <1>6, <2>1, <1>type DEF CommitView, ViewOf, CoinMap, dbVars
    <2>3. GetBestBlock(tipBest, dbBest)' = b
      BY <1>6, BlocksAssumption DEF CommitView, GetBestBlock
    <2> QED BY <1>6, <2>2, <2>3 DEF CommitView, Utxo!Commit, dbVars
  <1>7. ASSUME NEW o \in Outpoints, TipAccess(o) PROVE UNCHANGED Utxo!utxoVars
    <2>1. tipMap' = tipMap
      BY <1>7, TipFetchedCorrect DEF IInv, TipAccess, ViewOf, TipCoin, dbVars
    <2> QED BY <1>7, <2>1 DEF TipAccess, Utxo!utxoVars, viewVars, dbVars
  <1>8. ASSUME NEW o \in Outpoints, TipUncache(o) PROVE UNCHANGED Utxo!utxoVars
    <2>1. \A p \in Outpoints : Seen(Uncache(tipCoins, o), dbCoins, p) = Seen(tipCoins, dbCoins, p)
      BY <1>type DEF IInv, CleanMatchesBelow, Uncache, Seen, Cache
    <2>2. tipMap' = tipMap
      BY <1>8, <2>1 DEF TipUncache, ViewOf, dbVars
    <2> QED BY <1>8, <2>2 DEF TipUncache, Utxo!utxoVars, viewVars, dbVars
  <1>9. CASE FlushTip \/ Shutdown
    <2>1. /\ WriteTip /\ ~viewOpen /\ UNCHANGED viewOpen
          /\ tipBest' = tipBest \/ tipBest' = NullHash
      BY <1>9 DEF FlushTip, Shutdown, viewVars
    <2>2. dbCoins' = tipMap
      BY <2>1, <1>type DEF WriteTip, BatchWriteDB, IInv, CleanMatchesBelow, ViewOf, Seen, Cache, CoinMap
    <2>3. tipMap' = dbCoins'
      BY <2>1, <2>2, <1>type, EmptyShowsBase DEF WriteTip
    <2>4. dbBest' = GetBestBlock(tipBest, dbBest) /\ GetBestBlock(tipBest, dbBest)' = dbBest'
      BY <2>1 DEF WriteTip, GetBestBlock
    <2>5. Utxo!Persist
      BY <2>1, <2>2, <2>3, <2>4 DEF Utxo!Persist
    <2> QED BY <2>5
  <1>10. CASE FlushTipFails
    <2>1. tipMap' = dbCoins
      BY <1>10, <1>type, EmptyShowsBase DEF FlushTipFails, dbVars
    <2>2. Utxo!Forget
      BY <1>10, <2>1 DEF FlushTipFails, Utxo!Forget, GetBestBlock, viewVars, dbVars
    <2> QED BY <2>2
  <1>11. CASE Crash
    <2>1. tipMap' = dbCoins
      BY <1>11, <1>type, EmptyShowsBase DEF Crash, dbVars
    <2>2. GetBestBlock(tipBest, dbBest)' = dbBest
      BY <1>11 DEF Crash, GetBestBlock, dbVars
    <2>3. Utxo!Recover
      BY <1>11, <2>1, <2>2 DEF Crash, Utxo!Recover, dbVars
    <2> QED BY <2>3
  <1>12. CASE Restart
    BY <1>12 DEF Restart, GetBestBlock, Utxo!utxoVars, ViewOf, Seen, viewVars, dbVars
  <1>13. CASE UNCHANGED vars
    BY <1>13 DEF vars, viewVars, tipVars, dbVars, Utxo!utxoVars
  <1> QED BY <1>1, <1>2, <1>3, <1>4, <1>5, <1>6, <1>7, <1>8, <1>9, <1>10, <1>11, <1>12, <1>13 DEF Next

\* The caches are invisible.  Lookups, spends, additions, merges, evictions,
\* flushes and crashes of the cache stack are exactly the steps of one flat map
\* with a working and a durable copy, and a database write that fails (FlushTip's
\* BatchWrite has emptied the cache by then) is the one step that separates the
\* map from its block.
THEOREM CachesAreInvisible == Spec => RefinesUtxoSet
  <1>1. IInv /\ [Next]_vars => [Utxo!UtxoNext]_(Utxo!utxoVars)
    BY StepRefines
  <1> QED BY <1>1, InitRefines, Invariance, PTL DEF Spec, RefinesUtxoSet, Utxo!UtxoSpec
================================================================================
