-------------------------------- MODULE UtxoSet --------------------------------
(***************************************************************************)
(* What the coins database promises its users: a flat map from outpoints   *)
(* to coins, the block it stands for, a private working copy while a block *)
(* is connected or disconnected, and a copy that survives a crash.  There  *)
(* are no caches here; CoinsCache is shown to implement this module.       *)
(***************************************************************************)
CONSTANTS Outpoints, Coins, Spent, Blocks, NullHash, WritesMayFail

VARIABLES
    coins,      \* the unspent outputs of the active chain, Spent elsewhere
    best,       \* the block these outputs are the result of
    working,    \* << >>, or << the working copy >>
    durable     \* the map and the block that a restart finds

utxoVars == <<coins, best, working, durable>>

UtxoInit ==
    /\ coins = [o \in Outpoints |-> Spent]
    /\ best = NullHash
    /\ working = << >>
    /\ durable = [coins |-> coins, best |-> best]

Begin ==
    /\ working = << >>
    /\ working' = <<coins>>
    /\ UNCHANGED <<coins, best, durable>>

\* Write one output of the working copy: c = Spent spends it.
Write(o, c) ==
    /\ working # << >>
    /\ working' = <<[working[1] EXCEPT ![o] = c]>>
    /\ UNCHANGED <<coins, best, durable>>

Commit(b) ==
    /\ working # << >>
    /\ coins' = working[1]
    /\ best' = b
    /\ working' = << >>
    /\ UNCHANGED durable

Drop ==
    /\ working # << >>
    /\ working' = << >>
    /\ UNCHANGED <<coins, best, durable>>

\* All of the map and its block become durable together.
Persist ==
    /\ working = << >>
    /\ durable' = [coins |-> coins, best |-> best]
    /\ UNCHANGED <<coins, best, working>>

\* A crash and restart: the durable pair is the new state.
Recover ==
    /\ coins' = durable.coins
    /\ best' = durable.best
    /\ working' = << >>
    /\ UNCHANGED durable

\* A failed write: the outputs fall back to the durable ones, and the block does
\* not.  No other step separates the two.
Forget ==
    /\ WritesMayFail
    /\ working = << >>
    /\ coins' = durable.coins
    /\ UNCHANGED <<best, working, durable>>

UtxoNext ==
    \/ Begin \/ Drop \/ Persist \/ Recover \/ Forget
    \/ \E o \in Outpoints, c \in Coins \cup {Spent} : Write(o, c)
    \/ \E b \in Blocks : Commit(b)

UtxoSpec == UtxoInit /\ [][UtxoNext]_utxoVars
================================================================================
