---------------------------- MODULE MCBlockDownload ----------------------------
(* Two peers on two branches: the prompt one, which the node connected to, has    *)
(* the longer branch g-a1-a2-a3; the other, an inbound one, has g-a1-b2.          *)
EXTENDS BlockDownload

CONSTANTS p1, p2, g, a1, a2, a3, b2

MCPeer == {p1, p2}
MCBlock == {a1, a2, a3, b2}
MCPrev == [b \in MCBlock |-> CASE b = a1 -> g [] b = a2 -> a1 [] b = a3 -> a2 [] b = b2 -> a1]
MCHeight == [b \in MCBlock \cup {g} |->
               CASE b = g -> 0 [] b = a1 -> 1 [] b \in {a2, b2} -> 2 [] b = a3 -> 3]
MCTips == [p \in MCPeer |-> IF p = p1 THEN {a3} ELSE {b2}]
MCOutbound == {p1}
MCPrompt == {p1}
MCSubmitted == {a1}
================================================================================
