--------------------------- MODULE MCQueryManager ---------------------------
(* Instances of QueryManager for TLC.  s* are sequential queries, p* parallel *)
(* ones, n* queries that dispatch nothing.                                    *)
EXTENDS QueryManager, TLC

CONSTANTS s1, s2, p1, p2, p3, n1

\* Kinds and levels by query; an instance uses the part its Queries select.
MCKind == [q \in Queries |->
             CASE q \in {s1, s2} -> "sequential"
               [] q \in {p1, p2, p3} -> "parallel"
               [] OTHER          -> "nothing"]

\* p1 scans two columns and joins them; p2 and p3 reuse the item ids of p1.
MCBatches == [q \in Queries |->
                CASE q = p1 -> <<{1, 2}, {3}>>
                  [] q = p2 -> <<{1}, {2}>>
                  [] q = p3 -> <<{1}>>
                  [] OTHER  -> <<>>]

\* Plan ids are random numbers, workers are alike (safety runs only).
Symmetry == Permutations(PlanIds) \cup Permutations(Workers)
=============================================================================
