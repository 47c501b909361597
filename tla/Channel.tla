------------------------------- MODULE Channel -------------------------------
(***************************************************************************)
(* What a connection promises while no send is cut short: it is a queue of *)
(* whole messages.  The sender appends the next of its messages, the       *)
(* receiver takes the oldest one and hands it to the callback of its type, *)
(* if there is one.  Framing implements it; Routing builds on it.          *)
(***************************************************************************)
EXTENDS Naturals, Sequences

CONSTANTS
    Count,       \* how many messages the sender has
    Handled      \* those whose type has a callback

VARIABLES
    sent,        \* the last message sent
    inFlight,    \* sent and not taken
    received     \* handed to callbacks

channelVars == <<sent, inFlight, received>>

Init == sent = 0 /\ inFlight = <<>> /\ received = <<>>

Send ==
    /\ sent < Count
    /\ sent' = sent + 1
    /\ inFlight' = Append(inFlight, sent + 1)
    /\ UNCHANGED received

Receive ==
    /\ inFlight # <<>>
    /\ inFlight' = Tail(inFlight)
    /\ received' = IF Head(inFlight) \in Handled
                   THEN Append(received, Head(inFlight)) ELSE received
    /\ UNCHANGED sent

Next == Send \/ Receive

Spec == Init /\ [][Next]_channelVars

=============================================================================
