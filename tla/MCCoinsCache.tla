------------------------------ MODULE MCCoinsCache ------------------------------
(* CoinsCache for TLC: outpoints, coins and blocks are interchangeable.    *)
EXTENDS CoinsCache, TLC

Symmetry == Permutations(Outpoints) \cup Permutations(Coins) \cup Permutations(Blocks)
================================================================================
