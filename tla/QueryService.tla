---------------------------- MODULE QueryService ----------------------------
(***************************************************************************)
(* What the QueryManager promises its caller: queries are taken up in the  *)
(* order they were added, never more of them at a time than the pool has   *)
(* threads, each once; the manager is gone only when it has finished with  *)
(* every query it accepted.                                                *)
(***************************************************************************)
EXTENDS Naturals, Sequences, FiniteSets

CONSTANTS Queries, Workers

VARIABLES queue, inWork, finished, phase

serviceVars == <<queue, inWork, finished, phase>>

Init == queue = <<>> /\ inWork = {} /\ finished = {} /\ phase = "open"

Accept(q) ==
    /\ phase = "open"
    /\ q \notin inWork \cup finished /\ \A n \in DOMAIN queue : queue[n] # q
    /\ queue' = Append(queue, q)
    /\ UNCHANGED <<inWork, finished, phase>>

TakeUp ==
    /\ phase # "closed"
    /\ queue # <<>>
    /\ Cardinality(inWork) < Cardinality(Workers)
    /\ Head(queue) \notin inWork \cup finished
    /\ queue' = Tail(queue)
    /\ inWork' = inWork \cup {Head(queue)}
    /\ UNCHANGED <<finished, phase>>

End(q) ==
    /\ phase # "closed"
    /\ q \in inWork
    /\ inWork' = inWork \ {q}
    /\ finished' = finished \cup {q}
    /\ UNCHANGED <<queue, phase>>

Close ==
    /\ phase = "open"
    /\ phase' = "closing"
    /\ UNCHANGED <<queue, inWork, finished>>

Gone ==
    /\ phase = "closing"
    /\ queue = <<>> /\ inWork = {}
    /\ phase' = "closed"
    /\ UNCHANGED <<queue, inWork, finished>>

Next ==
    \/ \E q \in Queries : Accept(q) \/ End(q)
    \/ TakeUp \/ Close \/ Gone

Spec == Init /\ [][Next]_serviceVars

=============================================================================
