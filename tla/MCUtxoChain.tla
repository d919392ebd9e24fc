------------------------------ MODULE MCUtxoChain ------------------------------
(***************************************************************************)
(* A tree with the cases that matter: A2 spends A1's coinbase through a    *)
(* transaction chain inside the block, A3 repeats the id of that coinbase  *)
(* once it is spent, A2x repeats it too early (BIP30), B1 forks off and B2 *)
(* spends an output that only exists on the other branch.                  *)
(*                                                                         *)
(*      G --- A1 --- A2 --- A3                                             *)
(*       \      \--- A2x                                                   *)
(*        \-- B1 --- B2                                                    *)
(***************************************************************************)
EXTENDS UtxoChain, Integers

MCBlocks == {"G", "A1", "A2", "A2x", "A3", "B1", "B2"}

MCPrev == [A1 |-> "G", A2 |-> "A1", A2x |-> "A1", A3 |-> "A2", B1 |-> "G", B2 |-> "B1"]

MCHeight == [G |-> 0, A1 |-> 1, A2 |-> 2, A2x |-> 2, A3 |-> 3, B1 |-> 1, B2 |-> 2]

Coinbase(id) == [id |-> id, vin |-> << >>, vout |-> <<id>>]
BurnCoinbase(id) == [id |-> id, vin |-> << >>, vout |-> <<Unspendable>>]
Payment(id, from) == [id |-> id, vin |-> <<from>>, vout |-> <<id, Unspendable>>]

MCVtx == [G   |-> <<Coinbase("g")>>,
          A1  |-> <<Coinbase("a")>>,
          A2  |-> <<BurnCoinbase("burn"), Payment("t", <<"a", 1>>), Payment("u", <<"t", 1>>)>>,
          A2x |-> <<Coinbase("a")>>,
          A3  |-> <<Coinbase("a")>>,
          B1  |-> <<Coinbase("b")>>,
          B2  |-> <<BurnCoinbase("burn2"), Payment("t", <<"a", 1>>)>>]

MCOutpoints == {<<"a", 1>>, <<"t", 1>>, <<"u", 1>>, <<"b", 1>>}

MCCoins == {[txout |-> id, height |-> h, coinbase |-> cb] :
                id \in {"a", "t", "u", "b"}, h \in 1..3, cb \in BOOLEAN}
================================================================================
