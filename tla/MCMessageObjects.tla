---------------------------- MODULE MCMessageObjects ----------------------------
(* Instances of MessageObjects: all generated classes, or some of them.       *)
EXTENDS MessageObjects

AllTypes == DOMAIN Classes

Requests == {"WorkRequest", "WorkResponse"}

=============================================================================
