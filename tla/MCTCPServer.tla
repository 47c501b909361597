----------------------------- MODULE MCTCPServer -----------------------------
(* Instances of TCPServer: two units, which are of the same type. *)
EXTENDS TCPServer, TLC

CONSTANTS u1, u2

OneType == u1 :> 1 @@ u2 :> 1
=============================================================================
