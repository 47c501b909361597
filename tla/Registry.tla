------------------------------- MODULE Registry -------------------------------
(*****************************************************************************)
(* What the rest of the system may rely on in the server's table of clients,  *)
(* clientUuidMap: a uuid is given to one unit at a time, a unit has one uuid  *)
(* at a time, and an entry ends by being free, never by passing to another    *)
(* unit.  TCPServer reaches this with a test and an insertion in two critical *)
(* sections; Routing takes each of the two operations as one step.            *)
(*****************************************************************************)
CONSTANTS Units, Uuids, None

VARIABLE clients

Init == clients = [n \in Uuids |-> None]

(* Unit u is registered under uuid n, which nobody has.                      *)
Add(u, n) ==
  /\ clients[n] = None
  /\ \A m \in Uuids : clients[m] # u
  /\ clients' = [clients EXCEPT ![n] = u]

(* The clients with the uuids of N are removed.                              *)
Remove(N) == clients' = [n \in Uuids |-> IF n \in N THEN None ELSE clients[n]]

Next ==
  \/ \E u \in Units, n \in Uuids : Add(u, n)
  \/ \E N \in SUBSET Uuids : Remove(N)

Spec == Init /\ [][Next]_clients

=============================================================================
