------------------------------ MODULE MCRouting ------------------------------
(* Instances of Routing. *)
EXTENDS Routing, TLC

CONSTANTS o1, o2, c1, c2, u1, u2, u3, u4, m1

OneEach == [o \in Optimizers |-> <<1>>]

\* The uuids, the optimizers and the compute units are interchangeable.
Symmetry == Permutations(Uuids) \cup Permutations(Optimizers) \cup Permutations(Computes)
====
