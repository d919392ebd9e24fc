------------------------------- MODULE CoinsView -------------------------------
(***************************************************************************)
(* The value-level operations of CCoinsViewCache (src/coins.h, coins.cpp)  *)
(* and of CCoinsViewDB (src/txdb.cpp).                                     *)
(*                                                                         *)
(* A cache is a function from outpoints to entries.  An entry holds a coin *)
(* (or Spent, the coin for which IsSpent() holds) and the flags DIRTY and  *)
(* FRESH; an outpoint that the cacheCoins map lacks is mapped to Absent.   *)
(* The database maps every outpoint to its coin, Spent when it has none.   *)
(***************************************************************************)
CONSTANTS Outpoints,   \* the transaction outputs
          Coins,       \* the unspent values an output can have
          Spent,       \* a coin for which IsSpent() holds
          Absent       \* "cacheCoins has no entry"

Entry == [coin : Coins \cup {Spent}, dirty : BOOLEAN, fresh : BOOLEAN]

ASSUME CoinsAssumption == Spent \notin Coins /\ Absent \notin Entry

Cache == [Outpoints -> Entry \cup {Absent}]

CoinMap == [Outpoints -> Coins \cup {Spent}]

\* cacheCoins.clear(), and the state of a cache when it is constructed.
EmptyCache == [o \in Outpoints |-> Absent]

\* What a reader of a cache over the view "base" obtains for o.
Seen(cache, base, o) == IF cache[o] # Absent THEN cache[o].coin ELSE base[o]

\* The same for every outpoint: the view that the cache presents.
ViewOf(cache, base) == [o \in Outpoints |-> Seen(cache, base, o)]

\* FetchCoin: on a miss the entry is pulled from the base, when the base finds
\* one, and it is FRESH when the base only holds an empty entry.
FetchCoin(cache, o, found, coin) ==
    IF cache[o] # Absent \/ ~found
    THEN cache
    ELSE [cache EXCEPT ![o] = [coin |-> coin, dirty |-> FALSE, fresh |-> coin = Spent]]

\* Mutant: the fresh test forgets that a DIRTY entry may hide a deletion.
AddCoinFreshIfSpent(cache, o, coin, possible_overwrite) ==
    LET old == IF cache[o] # Absent
               THEN cache[o]
               ELSE [coin |-> Spent, dirty |-> FALSE, fresh |-> FALSE]
    IN  [cache EXCEPT ![o] = [coin  |-> coin,
                              dirty |-> TRUE,
                              fresh |-> old.fresh \/ ~possible_overwrite]]

\* Mutant: a coinbase that may overwrite is marked FRESH like any other coin.
AddCoinAlwaysFresh(cache, o, coin, possible_overwrite) ==
    [cache EXCEPT ![o] = [coin  |-> coin, dirty |-> TRUE,
                          fresh |-> cache[o] # Absent => cache[o].fresh \/ ~cache[o].dirty]]

\* AddCoin, for a spendable output and outside its logic_error.
AddCoin(cache, o, coin, possible_overwrite) ==
    LET old == IF cache[o] # Absent
               THEN cache[o]
               ELSE [coin |-> Spent, dirty |-> FALSE, fresh |-> FALSE]
    IN  [cache EXCEPT ![o] = [coin  |-> coin,
                              dirty |-> TRUE,
                              fresh |-> old.fresh \/ (~possible_overwrite /\ ~old.dirty)]]

\* Mutant: Clear() is left out and the coin's storage is what remains.
SpendCoinUncleared(cache, o) ==
    IF cache[o] = Absent THEN cache
    ELSE IF cache[o].fresh THEN [cache EXCEPT ![o] = Absent]
    ELSE [cache EXCEPT ![o] = [coin |-> Absent, dirty |-> TRUE, fresh |-> FALSE]]

\* SpendCoin on an entry that FetchCoin has just looked up.
SpendCoin(cache, o) ==
    IF cache[o] = Absent THEN cache
    ELSE IF cache[o].fresh THEN [cache EXCEPT ![o] = Absent]
    ELSE [cache EXCEPT ![o] = [coin |-> Spent, dirty |-> TRUE, fresh |-> FALSE]]

\* Mutant: DIRTY entries are dropped as well.
UncacheDirty(cache, o) ==
    IF cache[o] # Absent /\ ~cache[o].fresh THEN [cache EXCEPT ![o] = Absent] ELSE cache

\* Uncache: only an entry without flags may be dropped.
Uncache(cache, o) ==
    IF cache[o] # Absent /\ ~cache[o].dirty /\ ~cache[o].fresh
    THEN [cache EXCEPT ![o] = Absent]
    ELSE cache

\* Mutant: a FRESH parent entry is kept when the child spends it.
MergeEntryKeepFresh(child, parent) ==
    IF child = Absent \/ ~child.dirty THEN parent
    ELSE IF parent = Absent THEN child
    ELSE [coin |-> child.coin, dirty |-> TRUE, fresh |-> parent.fresh]

\* Mutant: the child's FRESH flag is copied to an entry the parent already has.
MergeEntryCopyFresh(child, parent) ==
    IF child = Absent \/ ~child.dirty THEN parent
    ELSE IF parent = Absent THEN IF child.fresh /\ child.coin = Spent THEN Absent ELSE child
    ELSE IF parent.fresh /\ child.coin = Spent THEN Absent
    ELSE [coin |-> child.coin, dirty |-> TRUE, fresh |-> parent.fresh \/ child.fresh]

\* One iteration of the loop of CCoinsViewCache::BatchWrite: the entry of the
\* parent after the child's entry has been merged into it.
MergeEntry(child, parent) ==
    IF child = Absent \/ ~child.dirty THEN parent
    ELSE IF parent = Absent THEN IF child.fresh /\ child.coin = Spent THEN Absent ELSE child
    ELSE IF parent.fresh /\ child.coin = Spent THEN Absent
    ELSE [coin |-> child.coin, dirty |-> TRUE, fresh |-> parent.fresh]

\* The "FRESH flag misapplied" test of the same loop.
FreshMisapplied(child, parent) ==
    /\ child # Absent /\ child.dirty /\ child.fresh
    /\ parent # Absent /\ parent.coin # Spent

\* CCoinsViewCache::BatchWrite.
BatchWrite(child, parent) == [o \in Outpoints |-> MergeEntry(child[o], parent[o])]

\* Mutant: spent entries are not erased from the database.
BatchWriteDBNoErase(cache, db) ==
    [o \in Outpoints |-> IF cache[o] # Absent /\ cache[o].dirty /\ cache[o].coin # Spent
                         THEN cache[o].coin ELSE db[o]]

\* CCoinsViewDB::BatchWrite: DIRTY entries are erased or written in one batch.
BatchWriteDB(cache, db) ==
    [o \in Outpoints |-> IF cache[o] # Absent /\ cache[o].dirty THEN cache[o].coin ELSE db[o]]
================================================================================
