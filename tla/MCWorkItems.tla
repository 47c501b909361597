---------------------------- MODULE MCWorkItems ----------------------------
(* Instances of WorkItems: every plan of five nodes with at most two       *)
(* children per node.                                                      *)
EXTENDS WorkItems

MaxChildren == 2

ChildLists(n) == UNION {[1 .. k -> 1 .. n-1] : k \in 0 .. MaxChildren}

FivePlans == {<<<<>>, b, c, d, e>> : b \in ChildLists(2), c \in ChildLists(3),
                                     d \in ChildLists(4), e \in ChildLists(5)}

\* Ids that differ, in the opposite order of the nodes.
DistinctIds == {[n \in Nodes |-> N + 7 - n]}

=============================================================================
