------------------------------ MODULE MCConnMan ------------------------------
(* Two ends that each ask the other for a batch of blocks.  The ends are alike, so  *)
(* select() fails at n1.                                                        *)
EXTENDS ConnMan

CONSTANTS n1, n2

MCNode == {n1, n2}
MCMaxSelectErrors == [n \in MCNode |-> IF n = n1 THEN 1 ELSE 0]
==============================================================================
