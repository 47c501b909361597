------------------------------- MODULE Routing -------------------------------
(***************************************************************************)
(* The messages between optimizer units, the server and compute units: the *)
(* start and the handshake of a unit, the callbacks of the example server  *)
(* that forward messages by uuid or to any compute unit, the callbacks of  *)
(* the units, and units that are lost.                                     *)
(*                                                                         *)
(* A connection is two FIFO queues of whole messages; how they survive the *)
(* byte stream is the subject of Framing, how the registry is kept that of *)
(* TCPServer, whose operations are single steps here.                      *)
(***************************************************************************)
EXTENDS Naturals, Sequences, FiniteSets

CONSTANTS
    Optimizers, Computes, Monitors,
    Uuids,       \* the uuids that may be drawn
    NoUuid,      \* 0: no target
    Work,        \* the requests each optimizer sends, in order
    Requests,    \* the other package types that units send
    MaxRequests, \* how many of them
    Coalesce,    \* may one recv of the handshake take several messages?
    MayLose,     \* the units that may be lost
    None

Units == Optimizers \cup Computes \cup Monitors

Forwarded == {"TEXT", "CONNECT_ACTION", "CONNECT_ACTION_INFO",
              "CONFIGURATION_ACTION"}

\* TCPMetaInfo with its payload reduced to the request it is about: optimizer
\* and number.  Number 0 stands for a message that is about no request.
NoBody == <<None, 0>>
Numbers == UNION {{Work[o][i] : i \in DOMAIN Work[o]} : o \in Optimizers}
Bodies == Optimizers \X Numbers
Types == {"UPDATE_UNIT_TYPE", "UUID_COLLISION", "WORK", "TASK_FINISHED",
          "REROUTE_WORK", "UUID_FOR_UNIT_RESPONSE"} \cup Requests \cup Forwarded
Messages ==
    {m \in [type : Types, src : Uuids \cup {NoUuid}, tgt : Uuids \cup {NoUuid},
            body : Bodies \cup {NoBody} \cup (Units \X {0})] :
        m.type \in {"WORK", "TASK_FINISHED"} => m.body \in Bodies}

ASSUME RoutingAssumption ==
    /\ NoUuid \notin Uuids
    /\ Optimizers \cap Computes = {}
    /\ Monitors \cap (Optimizers \cup Computes) = {}
    /\ \A o \in Optimizers : Work[o] \in Seq(Nat \ {0})
    /\ Requests \subseteq Forwarded \cup
          {"REROUTE_WORK", "MONITOR_REQUEST", "UUID_FOR_UNIT_REQUEST"}
    /\ MaxRequests \in Nat
    /\ Coalesce \in BOOLEAN
    /\ MayLose \subseteq Optimizers \cup Computes
    /\ None \notin Units /\ None \notin Messages

VARIABLES
    state,      \* of a unit: "off", "started", "up" (its handshake answered) or "lost"
    uuid,       \* its session uuid
    inbox,      \* messages from the server
    outbox,     \* messages to the server
    acc,        \* the accept thread: with whom it is in which phase
    clients,    \* clientUuidMap
    next,       \* the next request of an optimizer's workers
    built,      \* the request a worker has built and not sent
    executed,   \* the requests each compute unit has executed
    finished,   \* the answers each optimizer has received, in order
    requests,
    dropped     \* requests given up or sent with an old uuid, and why

vars == <<state, uuid, inbox, outbox, acc, clients, next, built, executed,
          finished, requests, dropped>>

Message(type, src, tgt, body) ==
    [type |-> type, src |-> src, tgt |-> tgt, body |-> body]

ClientsOf(S) == {u \in S : \E n \in Uuids : clients[n] = u}

Reasons == {"astray", "stale", "lost", "protocol", "coalesced", "unknown", "nobody"}

TypeOK ==
    /\ state \in [Units -> {"off", "started", "up", "lost"}]
    /\ uuid \in [Units -> Uuids \cup {NoUuid}]
    /\ inbox \in [Units -> Seq(Messages)]
    /\ outbox \in [Units -> Seq(Messages)]
    /\ acc \in [pc : {"accept", "hello", "collide"}, who : Units \cup {None}]
    /\ acc.pc = "accept" <=> acc.who = None
    /\ clients \in [Uuids -> Units \cup {None}]
    /\ next \in [Optimizers -> Nat \ {0}]
    /\ built \in [Optimizers -> {m \in Messages : m.type = "WORK"} \cup {None}]
    /\ executed \in [Computes -> SUBSET Bodies]
    /\ finished \in [Optimizers -> Seq(Bodies)]
    /\ requests \in 0 .. MaxRequests
    /\ dropped \subseteq Bodies \X Reasons

Init ==
    /\ state = [u \in Units |-> "off"]
    /\ uuid = [u \in Units |-> NoUuid]
    /\ inbox = [u \in Units |-> <<>>]
    /\ outbox = [u \in Units |-> <<>>]
    /\ acc = [pc |-> "accept", who |-> None]
    /\ clients = [n \in Uuids |-> None]
    /\ next = [o \in Optimizers |-> 1]
    /\ built = [o \in Optimizers |-> None]
    /\ executed = [c \in Computes |-> {}]
    /\ finished = [o \in Optimizers |-> <<>>]
    /\ requests = 0
    /\ dropped = {}

work == <<next, built, executed, finished, requests, dropped>>

-----------------------------------------------------------------------------
(* A unit: TCPClient and the callbacks of OptimizerUnit and ComputeUnit. *)

\* TCPClient::start: connect, draw a session uuid, start to listen.
Start(u) ==
    /\ state[u] = "off"
    /\ state' = [state EXCEPT ![u] = "started"]
    /\ \E n \in Uuids : uuid' = [uuid EXCEPT ![u] = n]
    /\ UNCHANGED <<inbox, outbox, acc, clients, work>>

notifyHost(u, m) == outbox' = [outbox EXCEPT ![u] = Append(@, m)]

\* The next message for unit u, of the given type, is handed to its callback.
Receives(u, type) ==
    /\ state[u] \in {"started", "up"}
    /\ inbox[u] # <<>> /\ Head(inbox[u]).type = type
    /\ inbox' = [inbox EXCEPT ![u] = Tail(@)]

\* UPDATE_UNIT_TYPE is answered with the unit's definition; an optimizer then
\* starts its chores on a thread of their own: state "up".
updateUnitInfo_cb(u) ==
    /\ Receives(u, "UPDATE_UNIT_TYPE")
    /\ notifyHost(u, Message("UPDATE_UNIT_TYPE", uuid[u], NoUuid, NoBody))
    /\ state' = [state EXCEPT ![u] = "up"]
    /\ UNCHANGED <<uuid, acc, clients, work>>

\* UUID_COLLISION is answered with a new uuid.
update_uuid_on_collision(u) ==
    /\ Receives(u, "UUID_COLLISION")
    /\ \E n \in Uuids :
          /\ uuid' = [uuid EXCEPT ![u] = n]
          /\ notifyHost(u, Message("UUID_COLLISION", n, NoUuid, NoBody))
    /\ UNCHANGED <<state, acc, clients, work>>

\* ComputeUnit: a request is executed and answered to the unit it came from.
work_cb(c) ==
    /\ Receives(c, "WORK")
    /\ LET m == Head(inbox[c]) IN
          /\ executed' = [executed EXCEPT ![c] = @ \cup {m.body}]
          /\ notifyHost(c, Message("TASK_FINISHED", uuid[c], m.src, m.body))
    /\ UNCHANGED <<state, uuid, acc, clients, next, built, finished, requests, dropped>>

\* OptimizerUnit: an answer is reported to the completion tracker.
finished_cb(o) ==
    /\ Receives(o, "TASK_FINISHED")
    /\ finished' = [finished EXCEPT ![o] = Append(@, Head(inbox[o]).body)]
    /\ UNCHANGED <<state, uuid, outbox, acc, clients, next, built, executed,
                   requests, dropped>>

\* A message without a callback, and a text: nothing but output.  For monitors
\* every copy is one; for another unit it is a message gone astray.
Handled(u) ==
    {"UPDATE_UNIT_TYPE", "UUID_COLLISION"} \cup
    (IF u \in Computes THEN {"WORK"} ELSE IF u \in Optimizers THEN {"TASK_FINISHED"} ELSE {})
Unhandled(u) ==
    /\ inbox[u] # <<>> /\ Head(inbox[u]).type \notin Handled(u)
    /\ Receives(u, Head(inbox[u]).type)
    /\ dropped' = IF u \in Monitors THEN dropped
                  ELSE dropped \cup (({Head(inbox[u]).body} \cap Bodies) \X {"astray"})
    /\ UNCHANGED <<state, uuid, outbox, acc, clients, next, built, executed,
                   finished, requests>>

\* A worker of the QueryManager builds a request with the uuid of this moment
\* and sends it; the listener may redraw the uuid in between.
Build(o) ==
    /\ state[o] = "up" /\ built[o] = None /\ next[o] <= Len(Work[o])
    /\ built' = [built EXCEPT ![o] =
                   Message("WORK", uuid[o], NoUuid, <<o, Work[o][next[o]]>>)]
    /\ next' = [next EXCEPT ![o] = @ + 1]
    /\ UNCHANGED <<state, uuid, inbox, outbox, acc, clients, executed, finished,
                   requests, dropped>>
\* A request that carries a uuid its sender no longer has is noted in dropped.
SendWork(o) ==
    /\ state[o] = "up" /\ built[o] # None
    /\ notifyHost(o, built[o])
    /\ built' = [built EXCEPT ![o] = None]
    /\ dropped' = IF built[o].src = uuid[o] THEN dropped
                  ELSE dropped \cup {<<built[o].body, "stale">>}
    /\ UNCHANGED <<state, uuid, inbox, acc, clients, next, executed, finished,
                   requests>>

\* A unit asks for something; the body says who it was.
Ask(u, type, t) ==
    /\ u \in ClientsOf(Units) /\ state[u] = "up" /\ type \in Requests
    /\ requests < MaxRequests /\ requests' = requests + 1
    /\ notifyHost(u, Message(type, uuid[u], t, <<u, 0>>))
    /\ UNCHANGED <<state, uuid, inbox, acc, clients, next, built, executed,
                   finished, dropped>>

Bodied(q) == {q[i].body : i \in DOMAIN q} \cap Bodies

\* The process ends or its connection breaks: what was on the way to it is
\* lost, what it had sent still arrives in part.
Lose(u) ==
    /\ u \in MayLose /\ state[u] = "up"
    /\ state' = [state EXCEPT ![u] = "lost"]
    /\ inbox' = [inbox EXCEPT ![u] = <<>>]
    /\ \E k \in 0 .. Len(outbox[u]) :
          /\ outbox' = [outbox EXCEPT ![u] = SubSeq(@, 1, k)]
          /\ dropped' = dropped \cup
                ((Bodied(inbox[u]) \cup Bodied(SubSeq(outbox[u], k + 1, Len(outbox[u]))))
                 \X {"lost"})
    /\ UNCHANGED <<uuid, acc, clients, next, built, executed, finished, requests>>

-----------------------------------------------------------------------------
(* The server: handshake. *)

Push(u, m) == inbox' = [inbox EXCEPT ![u] = Append(@, m)]

Accept(u) ==
    /\ acc.pc = "accept"
    /\ state[u] = "started" /\ u \notin ClientsOf(Units)
    /\ acc' = [pc |-> "hello", who |-> u]
    /\ Push(u, Message("UPDATE_UNIT_TYPE", NoUuid, NoUuid, NoBody))
    /\ UNCHANGED <<state, uuid, outbox, clients, work>>

\* freeHandle: the unit sees the end of the channel and stops.
Drop(u, why) ==
    /\ state' = [state EXCEPT ![u] = "lost"]
    /\ inbox' = [inbox EXCEPT ![u] = <<>>]
    /\ outbox' = [outbox EXCEPT ![u] = <<>>]
    /\ dropped' = dropped \cup (Bodied(outbox[u]) \X {why})
    /\ acc' = [pc |-> "accept", who |-> None]
    /\ UNCHANGED <<uuid, clients, next, built, executed, finished, requests>>

\* One recv: the first message is the answer; whatever else the recv took is
\* thrown away with the buffer.  A taken uuid is reported back to the unit.
Answer ==
    LET u == acc.who IN
    /\ acc.pc # "accept"
    /\ \/ state[u] = "lost" /\ outbox[u] = <<>> /\ Drop(u, "lost")
       \/ /\ outbox[u] # <<>> /\ acc.pc = "collide"
          /\ Head(outbox[u]).type # "UUID_COLLISION"
          /\ Drop(u, "protocol")
       \/ /\ outbox[u] # <<>>
          /\ Head(outbox[u]).type =
                IF acc.pc = "hello" THEN "UPDATE_UNIT_TYPE" ELSE "UUID_COLLISION"
          /\ \E k \in 1 .. (IF Coalesce THEN Len(outbox[u]) ELSE 1) :
                /\ outbox' = [outbox EXCEPT ![u] = SubSeq(@, k + 1, Len(@))]
                /\ dropped' = dropped \cup
                     (Bodied(SubSeq(outbox[u], 1, k)) \X {"coalesced"})
          /\ LET n == Head(outbox[u]).src IN
             IF clients[n] # None
             THEN /\ acc' = [pc |-> "collide", who |-> u]
                  /\ Push(u, Message("UUID_COLLISION", NoUuid, NoUuid, NoBody))
                  /\ UNCHANGED clients
             ELSE /\ acc' = [pc |-> "accept", who |-> None]
                  /\ clients' = [clients EXCEPT ![n] = u]
                  /\ UNCHANGED inbox
          /\ UNCHANGED <<state, uuid, next, built, executed, finished, requests>>

-----------------------------------------------------------------------------
(* The server: one callback per package type, on the receiver of client u. *)

\* The next message of client u, of the given type, is taken.
Arrives(u, type) ==
    /\ u \in ClientsOf(Units)
    /\ outbox[u] # <<>> /\ Head(outbox[u]).type = type
    /\ outbox' = [outbox EXCEPT ![u] = Tail(@)]

\* Delivery to the units of D and, with sendToAllOfType(MONITOR_UNIT), a copy to
\* every monitor.  What is sent to a lost unit is swallowed or found out, and
\* then its client is removed.
Deliver(D, m) ==
    inbox' = [u \in Units |->
        IF state[u] = "lost" THEN <<>>
        ELSE inbox[u] \o (IF u \in D THEN <<m>> ELSE <<>>)
                      \o (IF u \in ClientsOf(Monitors) THEN <<m>> ELSE <<>>)]

\* removeClient: what a lost unit had sent and its receiver has not yet read is
\* gone with the handle.
Remove(R) ==
    clients' = [n \in Uuids |-> IF clients[n] \in R THEN None ELSE clients[n]]
Unread(R) == (UNION {Bodied(outbox[u]) : u \in R}) \X {"lost"}
Lost(D) == {u \in D : state[u] = "lost"}

getClientByUuid(n) == IF n \in Uuids THEN clients[n] ELSE None
Swallowed(D, m) ==
    IF \A u \in D : state[u] = "lost" THEN {m.body} \cap Bodies ELSE {}

\* Fault: a client is looked up by the sender of the message.
RelayBack(n, m) ==
    /\ Deliver({getClientByUuid(m.src)} \ {None}, m)
    /\ UNCHANGED <<clients, dropped>>

\* sendTo the client with uuid n, and a copy to every monitor; nothing at all
\* if there is no such client.
Relay(n, m) ==
    LET t == getClientByUuid(n) IN
    IF t = None
    THEN /\ dropped' = dropped \cup (({m.body} \cap Bodies) \X {"unknown"})
         /\ UNCHANGED <<inbox, clients>>
    ELSE \E R \in SUBSET Lost({t}) :
         /\ Deliver({t}, m)
         /\ Remove(R)
         /\ dropped' = dropped \cup (Swallowed({t}, m) \X {"lost"}) \cup Unread(R)

\* sendToAnyOfType(COMPUTE_UNIT) and the copies to the monitors: clients found
\* lost are removed until one takes the message or none is left.
RelayAny(C, m) ==
    \E R \in SUBSET Lost(C) :
       /\ Remove(R)
       /\ IF C \ R = {}
          THEN /\ Deliver({}, m)
               /\ dropped' = dropped \cup (({m.body} \cap Bodies) \X {"nobody"}) \cup Unread(R)
          ELSE \E c \in C \ R :
                  /\ Deliver({c}, m)
                  /\ dropped' = dropped \cup (Swallowed({c}, m) \X {"lost"}) \cup Unread(R)

Forwards == <<state, uuid, acc, next, built, executed, finished, requests>>

work_forward_cb(u) ==
    /\ Arrives(u, "WORK")
    /\ LET m == Head(outbox[u]) IN
       IF m.tgt = NoUuid THEN RelayAny(ClientsOf(Computes), m) ELSE Relay(m.tgt, m)
    /\ UNCHANGED Forwards

\* Fault: an answer goes to any optimizer.
finished_forward_any(u) ==
    /\ Arrives(u, "TASK_FINISHED")
    /\ \E n \in Uuids : clients[n] \in Optimizers /\ Relay(n, Head(outbox[u]))
    /\ UNCHANGED Forwards

finished_forward_cb(u) ==
    /\ Arrives(u, "TASK_FINISHED")
    /\ Relay(Head(outbox[u]).tgt, Head(outbox[u]))
    /\ UNCHANGED Forwards

\* Fault: the compute unit that cannot serve the request may get it again.
reroute_anywhere(u) ==
    /\ Arrives(u, "REROUTE_WORK")
    /\ LET m == Head(outbox[u]) IN
       RelayAny(ClientsOf(Computes), Message("REROUTE_WORK", m.tgt, NoUuid, m.body))
    /\ UNCHANGED Forwards

\* The request goes on with the target, its original sender, as the source.
reroute_work_cb(u) ==
    /\ Arrives(u, "REROUTE_WORK")
    /\ LET m == Head(outbox[u]) IN
       RelayAny(ClientsOf(Computes) \ {getClientByUuid(m.src)},
                Message("REROUTE_WORK", m.tgt, NoUuid, m.body))
    /\ UNCHANGED Forwards

\* A text without a target is printed.
text_cb(u) ==
    /\ Arrives(u, "TEXT")
    /\ LET m == Head(outbox[u]) IN
       IF m.tgt = NoUuid THEN UNCHANGED <<inbox, clients, dropped>> ELSE Relay(m.tgt, m)
    /\ UNCHANGED Forwards

connect_forward_cb(u) ==
    /\ Arrives(u, "CONNECT_ACTION")
    /\ Relay(Head(outbox[u]).tgt, Head(outbox[u]))
    /\ UNCHANGED Forwards

config_forward_cb(u) ==
    /\ Arrives(u, "CONFIGURATION_ACTION")
    /\ Relay(Head(outbox[u]).tgt, Head(outbox[u]))
    /\ UNCHANGED Forwards

connect_info_forward_cb(u) ==
    /\ Arrives(u, "CONNECT_ACTION_INFO")
    /\ Relay(Head(outbox[u]).tgt, Head(outbox[u]))
    /\ UNCHANGED Forwards

\* Both requests first remove the aborted clients and are answered to the
\* sender, whatever the target says.
clear_aborted ==
    /\ Remove(Lost(ClientsOf(Units)))
    /\ dropped' = dropped \cup Unread(Lost(ClientsOf(Units)))
monitor_cb(u) ==
    /\ Arrives(u, "MONITOR_REQUEST")
    /\ LET m == Head(outbox[u])
           t == getClientByUuid(m.src) IN
       IF t = None THEN UNCHANGED <<inbox, clients, dropped>>
       ELSE /\ clear_aborted
            /\ Deliver({t}, Message("TEXT", m.src, m.tgt, m.body))
    /\ UNCHANGED Forwards

uuid_per_client_cb(u) ==
    /\ Arrives(u, "UUID_FOR_UNIT_REQUEST")
    /\ LET m == Head(outbox[u])
           t == getClientByUuid(m.src) IN
       /\ clear_aborted
       /\ IF t = None THEN UNCHANGED inbox
          ELSE Deliver({t},
                       Message("UUID_FOR_UNIT_RESPONSE", m.src, m.tgt, m.body))
    /\ UNCHANGED Forwards

-----------------------------------------------------------------------------
Unit(u) ==
    \/ updateUnitInfo_cb(u) \/ update_uuid_on_collision(u) \/ Unhandled(u)
    \/ u \in Computes /\ work_cb(u)
    \/ u \in Optimizers /\ (finished_cb(u) \/ Build(u) \/ SendWork(u))

Callback(u) ==
    \/ work_forward_cb(u) \/ finished_forward_cb(u) \/ reroute_work_cb(u)
    \/ text_cb(u) \/ connect_forward_cb(u) \/ config_forward_cb(u)
    \/ connect_info_forward_cb(u) \/ monitor_cb(u) \/ uuid_per_client_cb(u)

Next ==
    \/ \E u \in Units : Start(u) \/ Lose(u) \/ Accept(u) \/ Unit(u) \/ Callback(u)
    \/ Answer
    \/ \E u \in Units, type \in Requests, t \in Uuids \cup {NoUuid} : Ask(u, type, t)

Spec == Init /\ [][Next]_vars

-----------------------------------------------------------------------------
\* An answer reaches the optimizer that sent the request, and reaches it once,
\* unless the request was built with a uuid that a collision then took away:
\* the answer to such a request goes to whoever has that uuid.
AnswersComeHome ==
    \A o \in Optimizers : \A i \in DOMAIN finished[o] :
       LET b == finished[o][i] IN
       /\ b[1] = o \/ <<b, "stale">> \in dropped
       /\ \A j \in DOMAIN finished[o] : b = finished[o][j] => i = j

\* A request that was sent is on its way where somebody will read it, answered,
\* or given up at one of the places where the code does so without telling
\* anybody: no compute unit, a lost unit, an unknown uuid, the handshake.
Sent(o, i) == next[o] > i /\ (next[o] = i + 1 => built[o] = None)
OnTheWay ==
    (UNION {Bodied(inbox[u]) : u \in Units}) \cup
    (UNION {Bodied(outbox[u]) : u \in ClientsOf(Units) \cup ({acc.who} \ {None})})
NoRequestVanishes ==
    \A o \in Optimizers : \A i \in DOMAIN Work[o] :
       Sent(o, i) => LET b == <<o, Work[o][i]>> IN
                     \/ b \in OnTheWay
                     \/ \E p \in Optimizers : \E k \in DOMAIN finished[p] : finished[p][k] = b
                     \/ \E d \in dropped : d[1] = b

\* What the forwarding callbacks promise: a message reaches the unit it is
\* addressed to, an answer the unit that asked, and rerouted work never the
\* unit that gave it back.  (Monitors get a copy of everything.)
RoutedRight ==
    \A u \in Units \ Monitors : \A i \in DOMAIN inbox[u] :
       LET m == inbox[u][i] IN
       /\ m.type = "REROUTE_WORK" => m.body[1] # u
       /\ m.type \in Forwarded => uuid[u] \in {m.tgt, m.src}
       /\ m.type = "UUID_FOR_UNIT_RESPONSE" => m.body[1] = u

-----------------------------------------------------------------------------
\* The table of clients that this module takes from TCPServer.
Registration == INSTANCE Registry

=============================================================================
