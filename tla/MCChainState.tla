------------------------------ MODULE MCChainState ------------------------------
(***************************************************************************)
(*      G --- A1 --- A2                                                    *)
(*       \                                                                 *)
(*        \-- B1 --- B2                                                    *)
(* Every block adds one unit of work, so A2 and B2 compete.                *)
(***************************************************************************)
EXTENDS ChainState

TreeParent == [A1 |-> "G", A2 |-> "A1", B1 |-> "G", B2 |-> "B1"]

ParentIn(S) == [b \in S \ {"G"} |-> TreeParent[b]]

TreeAncestors == [G  |-> {"G"}, A1 |-> {"G", "A1"}, A2 |-> {"G", "A1", "A2"},
                  B1 |-> {"G", "B1"}, B2 |-> {"G", "B1", "B2"}]

AncestorsIn(S) == [b \in S |-> TreeAncestors[b]]

HeightIn(S) == [b \in S |-> Cardinality(TreeAncestors[b]) - 1]

WorkIn(S) == [b \in S |-> Cardinality(TreeAncestors[b])]

AddressIn(S) == [b \in S |-> CASE b = "G" -> 0 [] b = "A1" -> 1 [] b = "A2" -> 2
                               [] b = "B1" -> 4 [] b = "B2" -> 5]

\* The fork G, A1, A2, B1, B2.
Fork == {"G", "A1", "A2", "B1", "B2"}
ForkParent == ParentIn(Fork)
ForkAncestors == AncestorsIn(Fork)
ForkHeight == HeightIn(Fork)
ForkWork == WorkIn(Fork)
ForkAddress == AddressIn(Fork)

\* Two branches of unequal length, G, A1, A2, B1.
Short == {"G", "A1", "A2", "B1"}
ShortParent == ParentIn(Short)
ShortAncestors == AncestorsIn(Short)
ShortHeight == HeightIn(Short)
ShortWork == WorkIn(Short)
ShortAddress == AddressIn(Short)

\* One chain, G, A1, A2.
Line == {"G", "A1", "A2"}
LineParent == ParentIn(Line)
LineAncestors == AncestorsIn(Line)
LineHeight == HeightIn(Line)
LineWork == WorkIn(Line)
LineAddress == AddressIn(Line)

NoFiles == {}
ShortFiles == {{"B1"}, {"A1"}, {"A2"}}
================================================================================
