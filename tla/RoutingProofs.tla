---------------------------- MODULE RoutingProofs ----------------------------
(***************************************************************************)
(* Proofs about Routing, for any units, uuids and requests: types, the     *)
(* handshake, what a step does to the queues, and the three invariants     *)
(* RoutedRight, NoRequestVanishes and AnswersComeHome.                     *)
(***************************************************************************)
EXTENDS Routing, SequenceTheorems, TLAPS

-----------------------------------------------------------------------------
(* The invariants. *)

Hand == {"UPDATE_UNIT_TYPE", "UUID_COLLISION"}

\* A unit that the accept thread is not talking to has no message of the
\* handshake under way, and none at all before it is up or after it is lost.
Quiet(s, in, out) ==
    /\ \A i \in DOMAIN in : in[i].type \notin Hand
    /\ \A i \in DOMAIN out : out[i].type \notin Hand
    /\ s \in {"off", "started"} => in = <<>> /\ out = <<>>
    /\ s = "lost" => in = <<>>

Only(q, type) == Len(q) = 1 /\ q[1].type = type /\ q[1].body = NoBody

\* The unit that was sent UPDATE_UNIT_TYPE has not read it, or has answered it
\* with its uuid n before anything else.
Greeted(s, n, in, out) ==
    \/ s = "started" /\ out = <<>> /\ Only(in, "UPDATE_UNIT_TYPE")
    \/ /\ s \in {"up", "lost"} /\ in = <<>>
       /\ s = "up" => out # <<>>
       /\ \A i \in DOMAIN out :
             IF i = 1 THEN out[i].type = "UPDATE_UNIT_TYPE" /\ out[i].src = n
             ELSE out[i].type = "WORK"

\* The unit that was sent UUID_COLLISION has not read it, or has answered it
\* once, with its uuid n, among its requests.
Collided(s, n, in, out) ==
    /\ s \in {"up", "lost"}
    /\ \/ Only(in, "UUID_COLLISION") /\ \A i \in DOMAIN out : out[i].type = "WORK"
       \/ /\ in = <<>>
          /\ \A i \in DOMAIN out :
                \/ out[i].type = "WORK"
                \/ /\ out[i].type = "UUID_COLLISION" /\ out[i].src = n
                   /\ \A j \in DOMAIN out : j # i => out[j].type = "WORK"

\* The handshake: a client is known by the uuid it has; a unit that is up is a
\* client or the accept thread's.
ShakeInv ==
    /\ \A n \in Uuids : clients[n] # None =>
          /\ uuid[clients[n]] = n /\ state[clients[n]] \in {"up", "lost"}
          /\ clients[n] # acc.who
    /\ \A u \in Units : state[u] # "off" => uuid[u] \in Uuids
    /\ \A u \in Units : u # acc.who =>
          /\ Quiet(state[u], inbox[u], outbox[u])
          /\ state[u] = "up" => clients[uuid[u]] = u
    /\ acc.pc = "hello" =>
          Greeted(state[acc.who], uuid[acc.who], inbox[acc.who], outbox[acc.who])
    /\ acc.pc = "collide" =>
          Collided(state[acc.who], uuid[acc.who], inbox[acc.who], outbox[acc.who])

\* What a unit sends: a request of its own carries its uuid and its name.
Asked(u, n, m) ==
    /\ m.type \in Hand \cup {"WORK", "TASK_FINISHED"} \cup Requests
    /\ m.type \in Requests => m.src = n /\ m.body = <<u, 0>>
    /\ m.type \in Hand => m.body = NoBody
AskInv == \A u \in Units : \A i \in DOMAIN outbox[u] : Asked(u, uuid[u], outbox[u][i])

\* What RoutedRight says of a message in the inbox of unit u with uuid n.
Right(u, n, m) ==
    /\ m.type = "REROUTE_WORK" => m.body[1] # u
    /\ m.type \in Forwarded => n \in {m.tgt, m.src}
    /\ m.type = "UUID_FOR_UNIT_RESPONSE" => m.body[1] = u

\* An answer sent to uuid n comes home: n is the uuid of the optimizer.
Stale(b) == <<b, "stale">> \in dropped
AtHome(b, n) == Stale(b) \/ (n \in Uuids /\ clients[n] = b[1])

\* The optimizers that the server knows or is talking to are not lost.
OptimizersStay ==
    \A o \in Optimizers : state[o] = "lost" =>
        o # acc.who /\ \A n \in Uuids : clients[n] # o

HomeInbox ==
    \A u \in Units \ Monitors : \A i \in DOMAIN inbox[u] :
       LET m == inbox[u][i] IN
       /\ m.type = "WORK" => AtHome(m.body, m.src)
       /\ m.type = "TASK_FINISHED" => Stale(m.body) \/ m.body[1] = u

\* A request carries the uuid of its sender, is noted as stale, or is in front
\* of the answer to a collision, where the handshake will fail on it.
Ahead(u, i) ==
    /\ acc.who = u /\ acc.pc = "collide"
    /\ \A j \in 1 .. i : outbox[u][j].type # "UUID_COLLISION"
Fresh ==
    \A u \in Units : \A i \in DOMAIN outbox[u] :
       LET m == outbox[u][i] IN
       m.type = "WORK" => Stale(m.body) \/ m.src = uuid[u] \/ Ahead(u, i)

HomeOutbox ==
    \A u \in Units : \A i \in DOMAIN outbox[u] :
       LET m == outbox[u][i] IN
       /\ m.type = "TASK_FINISHED" => AtHome(m.body, m.tgt)
       /\ m.type = "WORK" => m.body[1] = u /\ m.tgt = NoUuid

HomeBuilt ==
    \A o \in Optimizers : built[o] # None =>
       /\ next[o] - 1 \in DOMAIN Work[o]
       /\ built[o].tgt = NoUuid /\ built[o].body = <<o, Work[o][next[o] - 1]>>

HomeFinished ==
    \A o \in Optimizers : \A i \in DOMAIN finished[o] :
       finished[o][i][1] = o \/ Stale(finished[o][i])

HomeInv ==
    OptimizersStay /\ HomeInbox /\ Fresh /\ HomeOutbox /\ HomeBuilt /\ HomeFinished

\* Each request is in one place: with its worker, in the outbox or inbox of one
\* unit that is no monitor, or among the answers of one optimizer.
Places == {"in", "out", "done", "built"} \X Units
Holds(p, b) ==
    \/ p[1] = "in" /\ p[2] \notin Monitors /\ b \in Bodied(inbox[p[2]])
    \/ p[1] = "out" /\ b \in Bodied(outbox[p[2]])
    \/ p[1] = "done" /\ p[2] \in Optimizers /\ \E i \in DOMAIN finished[p[2]] : finished[p[2]][i] = b
    \/ p[1] = "built" /\ p[2] \in Optimizers /\ built[p[2]] # None /\ built[p[2]].body = b
Once(q) == \A i, j \in DOMAIN q : q[i].body \in Bodies /\ q[i].body = q[j].body => i = j
OnceInv ==
    /\ \A b \in Bodies : \A p, q \in Places : Holds(p, b) /\ Holds(q, b) => p = q
    /\ \A u \in Units : Once(outbox[u]) /\ (u \notin Monitors => Once(inbox[u]))
    /\ \A o \in Optimizers : \A i, j \in DOMAIN finished[o] :
          finished[o][i] = finished[o][j] => i = j
    /\ \A b \in Bodies, p \in Places : Holds(p, b) =>
          \E k \in DOMAIN Work[b[1]] : k < next[b[1]] /\ b[2] = Work[b[1]][k]

\* A request that was sent is somewhere.
Kept(b) ==
    \/ \E u \in Units \ Monitors : b \in Bodied(inbox[u])
    \/ \E u \in Units : /\ b \in Bodied(outbox[u])
                        /\ u = acc.who \/ \E n \in Uuids : clients[n] = u
    \/ \E o \in Optimizers : \E i \in DOMAIN finished[o] : finished[o][i] = b
    \/ \E d \in dropped : d[1] = b
KeptInv == \A o \in Optimizers : \A i \in DOMAIN Work[o] :
    Sent(o, i) => Kept(<<o, Work[o][i]>>)

-----------------------------------------------------------------------------
(* Sequences and the requests in them. *)

\* What is left of a queue when its head is taken.
LEMMA Popped ==
    ASSUME NEW S, NEW q \in Seq(S), q # <<>>
    PROVE  /\ Head(q) \in S /\ Head(q) = q[1] /\ 1 \in DOMAIN q
           /\ Tail(q) \in Seq(S) /\ Len(Tail(q)) = Len(q) - 1
           /\ \A i \in DOMAIN Tail(q) : i + 1 \in DOMAIN q /\ Tail(q)[i] = q[i + 1]
           /\ Len(q) = 1 => Tail(q) = <<>>
<1>1. /\ Head(q) \in S /\ Head(q) = q[1] /\ 1 \in DOMAIN q
      /\ Tail(q) \in Seq(S) /\ Len(Tail(q)) = Len(q) - 1
      /\ \A i \in DOMAIN Tail(q) : i + 1 \in DOMAIN q /\ Tail(q)[i] = q[i + 1]
  OBVIOUS
<1>2. Len(q) = 1 => Tail(q) = <<>>
  <2>1. Len(q) = 1 => Len(Tail(q)) = 0
    BY <1>1
  <2> QED
    BY <1>1, <2>1, EmptySeq
<1> QED
  BY <1>1, <1>2

\* A queue to which a message was added.
LEMMA Pushed ==
    ASSUME NEW S, NEW q \in Seq(S), NEW m \in S
    PROVE  /\ Append(q, m) \in Seq(S) /\ Append(q, m) # <<>>
           /\ Len(Append(q, m)) = Len(q) + 1 /\ Append(q, m)[Len(q) + 1] = m
           /\ \A i \in DOMAIN q : i \in DOMAIN Append(q, m) /\ Append(q, m)[i] = q[i]
           /\ \A i \in DOMAIN Append(q, m) : i \in DOMAIN q \/ i = Len(q) + 1
           /\ Len(q) + 1 \in DOMAIN Append(q, m) /\ Len(q) + 1 \notin DOMAIN q
OBVIOUS

\* A queue cut after k messages.
LEMMA Cut ==
    ASSUME NEW S, NEW q \in Seq(S), NEW k \in 0 .. Len(q)
    PROVE  /\ SubSeq(q, 1, k) \in Seq(S) /\ Len(SubSeq(q, 1, k)) = k
           /\ \A i \in 1 .. k : SubSeq(q, 1, k)[i] = q[i] /\ i \in DOMAIN q
           /\ DOMAIN SubSeq(q, 1, k) = 1 .. k
           /\ SubSeq(q, k + 1, Len(q)) \in Seq(S)
           /\ Len(SubSeq(q, k + 1, Len(q))) = Len(q) - k
           /\ DOMAIN SubSeq(q, k + 1, Len(q)) = 1 .. Len(q) - k
           /\ \A i \in 1 .. Len(q) - k :
                 SubSeq(q, k + 1, Len(q))[i] = q[k + i] /\ k + i \in DOMAIN q
OBVIOUS

\* Requests are numbered from 1, and nothing else has a body like theirs.
LEMMA BodyFacts ==
    /\ \A b \in Bodies : b = <<b[1], b[2]>> /\ b[1] \in Optimizers
    /\ \A o \in Optimizers : \A i \in DOMAIN Work[o] : <<o, Work[o][i]>> \in Bodies
    /\ \A u : <<u, 0>> \notin Bodies
    /\ NoBody \notin Bodies
<1>1. \A o \in Optimizers : \A i \in DOMAIN Work[o] : Work[o][i] \in Nat \ {0}
  BY RoutingAssumption
<1>2. ASSUME NEW b \in Bodies
      PROVE  b = <<b[1], b[2]>> /\ b[1] \in Optimizers /\ b[2] # 0
  <2>1. b[1] \in Optimizers /\ b[2] \in Numbers /\ b = <<b[1], b[2]>>
    BY DEF Bodies
  <2>2. PICK p \in Optimizers : \E i \in DOMAIN Work[p] : b[2] = Work[p][i]
    BY <2>1 DEF Numbers
  <2> QED
    BY <1>1, <2>1, <2>2
<1>3. \A o \in Optimizers : \A i \in DOMAIN Work[o] : <<o, Work[o][i]>> \in Bodies
  BY DEF Bodies, Numbers
<1>4. \A u : <<u, 0>> \notin Bodies
  BY <1>2
<1> QED
  BY <1>2, <1>3, <1>4 DEF NoBody

\* The requests of a queue after each way to change it.
LEMMA BodiedFacts ==
    ASSUME NEW q \in Seq(Messages)
    PROVE  /\ \A b : b \in Bodied(q) <=> b \in Bodies /\ \E i \in DOMAIN q : q[i].body = b
           /\ Bodied(q) \subseteq Bodies
BY DEF Bodied

LEMMA BodiedPushed ==
    ASSUME NEW q \in Seq(Messages), NEW m \in Messages
    PROVE  Bodied(Append(q, m)) = Bodied(q) \cup ({m.body} \cap Bodies)
<1> DEFINE p == Append(q, m)
           e == Len(q) + 1
<1>1. /\ \A i \in DOMAIN q : i \in DOMAIN p /\ p[i] = q[i]
      /\ \A i \in DOMAIN p : i \in DOMAIN q \/ i = e
      /\ e \in DOMAIN p /\ p[e] = m
  BY Pushed
<1> HIDE DEF p, e
<1>2. ASSUME NEW b \in Bodies
      PROVE  (\E i \in DOMAIN p : p[i].body = b) <=> (\E i \in DOMAIN q : q[i].body = b) \/ m.body = b
  BY <1>1
<1>3. Bodied(p) = Bodied(q) \cup ({m.body} \cap Bodies)
  BY <1>2 DEF Bodied
<1> QED
  BY <1>3 DEF p

LEMMA BodiedPopped ==
    ASSUME NEW q \in Seq(Messages), q # <<>>
    PROVE  /\ Bodied(q) = Bodied(Tail(q)) \cup ({Head(q).body} \cap Bodies)
           /\ Once(q) => Once(Tail(q)) /\ Head(q).body \notin Bodied(Tail(q))
<1>1. /\ Tail(q) \in Seq(Messages) /\ Head(q) = q[1] /\ 1 \in DOMAIN q
      /\ \A i \in DOMAIN Tail(q) : i + 1 \in DOMAIN q /\ Tail(q)[i] = q[i + 1]
      /\ \A i \in DOMAIN q : i = 1 \/ (i - 1 \in DOMAIN Tail(q) /\ q[i] = Tail(q)[i - 1])
      /\ \A i \in DOMAIN Tail(q) : i \in Nat /\ i # 0
  OBVIOUS
<1>2. Bodied(q) = Bodied(Tail(q)) \cup ({Head(q).body} \cap Bodies)
  <2> DEFINE z == Tail(q)
             m == Head(q)
  <2>1. /\ \A i \in DOMAIN z : i + 1 \in DOMAIN q /\ z[i] = q[i + 1]
        /\ \A i \in DOMAIN q : i = 1 \/ (i - 1 \in DOMAIN z /\ q[i] = z[i - 1])
        /\ m = q[1] /\ 1 \in DOMAIN q
    BY <1>1
  <2> HIDE DEF z, m
  <2>2. ASSUME NEW b \in Bodies
        PROVE  (\E i \in DOMAIN q : q[i].body = b) <=> (\E i \in DOMAIN z : z[i].body = b) \/ m.body = b
    BY <2>1
  <2>3. Bodied(q) = Bodied(z) \cup ({m.body} \cap Bodies)
    BY <2>2 DEF Bodied
  <2> QED
    BY <2>3 DEF z, m
<1>3. ASSUME Once(q) PROVE Once(Tail(q)) /\ Head(q).body \notin Bodied(Tail(q))
  <2>1. ASSUME NEW i \in DOMAIN Tail(q), NEW j \in DOMAIN Tail(q),
               Tail(q)[i].body \in Bodies, Tail(q)[i].body = Tail(q)[j].body
        PROVE  i = j
    <3>1. i + 1 = j + 1
      BY <1>1, <1>3, <2>1 DEF Once
    <3> QED
      BY <1>1, <3>1
  <2>2. ASSUME Head(q).body \in Bodied(Tail(q)) PROVE FALSE
    <3>1. PICK i \in DOMAIN Tail(q) : Tail(q)[i].body = Head(q).body /\ Head(q).body \in Bodies
      BY <1>1, <2>2, BodiedFacts
    <3>2. i + 1 = 1
      BY <1>1, <1>3, <3>1 DEF Once
    <3> QED
      BY <1>1, <3>2
  <2> QED
    BY <2>1, <2>2 DEF Once
<1> QED
  BY <1>2, <1>3

LEMMA BodiedCut ==
    ASSUME NEW q \in Seq(Messages), NEW k \in 0 .. Len(q)
    PROVE  /\ Bodied(q) = Bodied(SubSeq(q, 1, k)) \cup Bodied(SubSeq(q, k + 1, Len(q)))
           /\ Once(q) => Once(SubSeq(q, 1, k)) /\ Once(SubSeq(q, k + 1, Len(q)))
<1> DEFINE a == SubSeq(q, 1, k)
           z == SubSeq(q, k + 1, Len(q))
<1>1. /\ a \in Seq(Messages) /\ z \in Seq(Messages)
      /\ DOMAIN a = 1 .. k /\ DOMAIN z = 1 .. Len(q) - k
      /\ \A i \in DOMAIN a : a[i] = q[i] /\ i \in DOMAIN q
      /\ \A i \in DOMAIN z : z[i] = q[k + i] /\ k + i \in DOMAIN q
  BY Cut
<1>2. DOMAIN q = 1 .. Len(q) /\ Len(q) \in Nat
  OBVIOUS
<1> HIDE DEF a, z
<1>3. \A i \in DOMAIN q : i \in DOMAIN a \/ (i - k \in DOMAIN z /\ k + (i - k) = i)
  BY <1>1, <1>2
<1>4. Bodied(q) = Bodied(a) \cup Bodied(z)
  <2>1. ASSUME NEW b \in Bodies
        PROVE  (\E i \in DOMAIN q : q[i].body = b)
                  <=> (\E i \in DOMAIN a : a[i].body = b) \/ (\E i \in DOMAIN z : z[i].body = b)
    <3>1. ASSUME NEW i \in DOMAIN q, q[i].body = b
          PROVE  (\E j \in DOMAIN a : a[j].body = b) \/ (\E j \in DOMAIN z : z[j].body = b)
      BY <1>1, <1>3, <3>1
    <3> QED
      BY <1>1, <3>1
  <2> QED
    BY <2>1 DEF Bodied
<1>5. ASSUME Once(q) PROVE Once(a) /\ Once(z)
  <2>1. ASSUME NEW i \in DOMAIN z, NEW j \in DOMAIN z, z[i].body \in Bodies,
               z[i].body = z[j].body
        PROVE  i = j
    <3>1. k + i = k + j
      BY <1>1, <1>5, <2>1 DEF Once
    <3> QED
      BY <1>1, <3>1
  <2> QED
    BY <1>1, <1>5, <2>1 DEF Once
<1> QED
  BY <1>4, <1>5 DEF a, z

-----------------------------------------------------------------------------
(* What the server's callbacks do. *)

\* The memory of a client is given up only if it is lost, and what it had sent
\* is then noted.
Gone(v) ==
    /\ v # None /\ state[v] = "lost"
    /\ \A b \in Bodied(outbox[v]) : \E d \in dropped' : d[1] = b

\* A message m is sent to the clients of D, at most one, and to the monitors.
Sends(D, m) ==
    /\ dropped \subseteq dropped' /\ dropped' \subseteq Bodies \X Reasons
    /\ clients' \in [Uuids -> Units \cup {None}]
    /\ \A n \in Uuids : clients'[n] = clients[n] \/ (clients'[n] = None /\ Gone(clients[n]))
    /\ (inbox' = inbox /\ D = {}) \/ Deliver(D, m)
    /\ \A v \in D : v \in Units /\ \E n \in Uuids : clients[n] = v
    /\ \A v, w \in D : v = w

\* A request is passed on or noted as given up.
Accounts(D, m) ==
    m.body \in Bodies =>
        (\E d \in dropped' : d[1] = m.body) \/ (\E v \in D : state[v] # "lost")

LEMMA RemoveEffect ==
    ASSUME TypeOK, NEW R \in SUBSET Lost(Units), Remove(R),
           Unread(R) \subseteq dropped'
    PROVE  /\ clients' \in [Uuids -> Units \cup {None}]
           /\ \A n \in Uuids : clients'[n] = clients[n] \/ (clients'[n] = None /\ Gone(clients[n]))
<1>1. clients \in [Uuids -> Units \cup {None}] /\ None \notin Units
  BY RoutingAssumption DEF TypeOK
<1>2. clients' \in [Uuids -> Units \cup {None}]
  BY <1>1 DEF Remove
<1>3. ASSUME NEW n \in Uuids, clients[n] \in R PROVE Gone(clients[n])
  <2>1. clients[n] # None /\ state[clients[n]] = "lost"
    BY <1>1, <1>3 DEF Lost
  <2>2. ASSUME NEW b \in Bodied(outbox[clients[n]]) PROVE \E d \in dropped' : d[1] = b
    <3>1. <<b, "lost">> \in Unread(R)
      BY <1>3 DEF Unread
    <3> QED
      BY <3>1
  <2> QED
    BY <2>1, <2>2 DEF Gone
<1> QED
  BY <1>2, <1>3 DEF Remove

LEMMA UnreadType == ASSUME NEW R PROVE Unread(R) \subseteq Bodies \X Reasons
BY DEF Unread, Bodied, Reasons

LEMMA RelayEffect ==
    ASSUME TypeOK, NEW n \in Uuids \cup {NoUuid}, NEW m \in Messages, Relay(n, m)
    PROVE  \E D \in SUBSET Units :
              /\ Sends(D, m) /\ Accounts(D, m)
              /\ D = {} \/ (n \in Uuids /\ D = {clients[n]})
<1>1. /\ clients \in [Uuids -> Units \cup {None}] /\ None \notin Units
      /\ dropped \subseteq Bodies \X Reasons /\ NoUuid \notin Uuids
  BY RoutingAssumption DEF TypeOK
<1>2. CASE getClientByUuid(n) = None
  <2>1. /\ dropped' = dropped \cup (({m.body} \cap Bodies) \X {"unknown"})
        /\ inbox' = inbox /\ clients' = clients
    BY <1>2 DEF Relay
  <2>2. ({m.body} \cap Bodies) \X {"unknown"} \subseteq Bodies \X Reasons
    BY DEF Reasons
  <2>3. Sends({}, m)
    BY <1>1, <2>1, <2>2 DEF Sends
  <2>4. ASSUME m.body \in Bodies PROVE \E d \in dropped' : d[1] = m.body
    <3>1. <<m.body, "unknown">> \in dropped'
      BY <2>1, <2>4
    <3> QED  BY <3>1
  <2> QED
    BY <2>3, <2>4 DEF Accounts
<1>3. CASE getClientByUuid(n) # None
  <2>1. n \in Uuids /\ clients[n] \in Units /\ getClientByUuid(n) = clients[n]
    BY <1>1, <1>3 DEF getClientByUuid
  <2> DEFINE t == clients[n]
  <2>2. PICK R \in SUBSET Lost({t}) :
           /\ Deliver({t}, m) /\ Remove(R)
           /\ dropped' = dropped \cup (Swallowed({t}, m) \X {"lost"}) \cup Unread(R)
    BY <1>3, <2>1 DEF Relay
  <2>3. R \in SUBSET Lost(Units)
    BY <2>1 DEF Lost
  <2>4. Swallowed({t}, m) \X {"lost"} \subseteq Bodies \X Reasons
    BY DEF Swallowed, Reasons
  <2>5. Sends({t}, m)
    BY <1>1, <2>1, <2>2, <2>3, <2>4, RemoveEffect, UnreadType DEF Sends
  <2>6. ASSUME m.body \in Bodies, state[t] = "lost" PROVE \E d \in dropped' : d[1] = m.body
    <3>1. m.body \in Swallowed({t}, m)
      BY <2>6 DEF Swallowed
    <3>2. <<m.body, "lost">> \in dropped'
      BY <2>2, <3>1
    <3> QED  BY <3>2
  <2> QED
    BY <2>1, <2>5, <2>6 DEF Accounts
<1> QED
  BY <1>2, <1>3

LEMMA RelayAnyEffect ==
    ASSUME TypeOK, NEW m \in Messages, NEW C \in SUBSET Units,
           \A c \in C : \E n \in Uuids : clients[n] = c, RelayAny(C, m)
    PROVE  \E D \in SUBSET C : Sends(D, m) /\ Accounts(D, m)
<1>1. /\ clients \in [Uuids -> Units \cup {None}] /\ None \notin Units
      /\ dropped \subseteq Bodies \X Reasons
  BY RoutingAssumption DEF TypeOK
<1>2. PICK R \in SUBSET Lost(C) :
       /\ Remove(R)
       /\ IF C \ R = {}
          THEN /\ Deliver({}, m)
               /\ dropped' = dropped \cup (({m.body} \cap Bodies) \X {"nobody"}) \cup Unread(R)
          ELSE \E c \in C \ R :
                  /\ Deliver({c}, m)
                  /\ dropped' = dropped \cup (Swallowed({c}, m) \X {"lost"}) \cup Unread(R)
  BY DEF RelayAny
<1>3. R \in SUBSET Lost(Units)
  BY DEF Lost
<1>4. CASE C \ R = {}
  <2>1. /\ Deliver({}, m)
        /\ dropped' = dropped \cup (({m.body} \cap Bodies) \X {"nobody"}) \cup Unread(R)
    BY <1>2, <1>4
  <2>2. ({m.body} \cap Bodies) \X {"nobody"} \subseteq Bodies \X Reasons
    BY DEF Reasons
  <2>3. Sends({}, m)
    BY <1>1, <1>2, <1>3, <2>1, <2>2, RemoveEffect, UnreadType DEF Sends
  <2>4. ASSUME m.body \in Bodies PROVE \E d \in dropped' : d[1] = m.body
    <3>1. <<m.body, "nobody">> \in dropped'
      BY <2>1, <2>4
    <3> QED  BY <3>1
  <2> QED
    BY <2>3, <2>4 DEF Accounts
<1>5. CASE C \ R # {}
  <2>1. PICK c \in C \ R :
           /\ Deliver({c}, m)
           /\ dropped' = dropped \cup (Swallowed({c}, m) \X {"lost"}) \cup Unread(R)
    BY <1>2, <1>5
  <2>2. Swallowed({c}, m) \X {"lost"} \subseteq Bodies \X Reasons
    BY DEF Swallowed, Reasons
  <2>3. Sends({c}, m)
    BY <1>1, <1>2, <1>3, <2>1, <2>2, RemoveEffect, UnreadType DEF Sends
  <2>4. ASSUME m.body \in Bodies, state[c] = "lost" PROVE \E d \in dropped' : d[1] = m.body
    <3>1. m.body \in Swallowed({c}, m)
      BY <2>4 DEF Swallowed
    <3>2. <<m.body, "lost">> \in dropped'
      BY <2>1, <3>1
    <3> QED  BY <3>2
  <2> QED
    BY <2>1, <2>3, <2>4 DEF Accounts
<1> QED
  BY <1>4, <1>5

\* The clients that the callback for the head h of an outbox sends m to.
Addressed(h, m, D) ==
    /\ m.type \notin Hand
    /\ h.type \in {"WORK", "TASK_FINISHED"} => m = h /\ Accounts(D, m)
    /\ \/ D = {}
       \/ h.type = "WORK" /\ h.tgt = NoUuid /\ m = h /\ D \subseteq Computes
       \/ /\ h.type \in Forwarded \cup {"WORK", "TASK_FINISHED"} /\ m = h
          /\ h.tgt \in Uuids /\ D = {clients[h.tgt]}
       \/ /\ h.type = "REROUTE_WORK" /\ m = Message("REROUTE_WORK", h.tgt, NoUuid, h.body)
          /\ D \subseteq Computes /\ getClientByUuid(h.src) \notin D
       \/ /\ h.type \in {"MONITOR_REQUEST", "UUID_FOR_UNIT_REQUEST"}
          /\ m.type \in {"TEXT", "UUID_FOR_UNIT_RESPONSE"}
          /\ m.src = h.src /\ m.body = h.body
          /\ h.src \in Uuids /\ D = {clients[h.src]}

LEMMA MessageFacts ==
    ASSUME NEW h \in Messages
    PROVE  /\ h.src \in Uuids \cup {NoUuid} /\ h.tgt \in Uuids \cup {NoUuid}
           /\ h.type \in Types
           /\ h.type \in {"WORK", "TASK_FINISHED"} => h.body \in Bodies
           /\ \A type \in {"REROUTE_WORK", "TEXT", "UUID_FOR_UNIT_RESPONSE"},
                 s, t \in Uuids \cup {NoUuid} : Message(type, s, t, h.body) \in Messages
BY DEF Messages, Types, Forwarded, Message

LEMMA ClientFacts ==
    ASSUME TypeOK, NEW S \in SUBSET Units
    PROVE  /\ ClientsOf(S) \in SUBSET S
           /\ \A c \in ClientsOf(S) : \E n \in Uuids : clients[n] = c
           /\ \A n \in Uuids : clients[n] \in S => clients[n] \in ClientsOf(S)
BY DEF ClientsOf

\* clear_aborted and an answer to the sender.
LEMMA ClearEffect ==
    ASSUME TypeOK, NEW m \in Messages, NEW D \in SUBSET Units, clear_aborted,
           \A v \in D : \E n \in Uuids : clients[n] = v, \A v, w \in D : v = w,
           (inbox' = inbox /\ D = {}) \/ Deliver(D, m)
    PROVE  Sends(D, m)
<1>1. Lost(ClientsOf(Units)) \in SUBSET Lost(Units)
  BY ClientFacts DEF Lost
<1>2. dropped \subseteq Bodies \X Reasons
  BY DEF TypeOK
<1> QED
  BY <1>1, <1>2, RemoveEffect, UnreadType DEF clear_aborted, Sends

LEMMA CallbackEffect ==
    ASSUME TypeOK, NEW u \in Units, Callback(u)
    PROVE  /\ \E n \in Uuids : clients[n] = u
           /\ outbox[u] # <<>> /\ outbox' = [outbox EXCEPT ![u] = Tail(@)]
           /\ UNCHANGED Forwards
           /\ \E m \in Messages, D \in SUBSET Units :
                 Sends(D, m) /\ Addressed(Head(outbox[u]), m, D)
<1> DEFINE h == Head(outbox[u])
<1>0. /\ clients \in [Uuids -> Units \cup {None}] /\ None \notin Units
      /\ dropped \subseteq Bodies \X Reasons /\ NoUuid \notin Uuids
      /\ outbox[u] \in Seq(Messages) /\ Computes \in SUBSET Units
  BY RoutingAssumption DEF TypeOK, Units
<1>1. \E type : Arrives(u, type)
  BY DEF Callback, work_forward_cb, finished_forward_cb, reroute_work_cb, text_cb,
         connect_forward_cb, config_forward_cb, connect_info_forward_cb, monitor_cb,
         uuid_per_client_cb
<1>2. /\ \E n \in Uuids : clients[n] = u
      /\ outbox[u] # <<>> /\ outbox' = [outbox EXCEPT ![u] = Tail(@)]
  BY <1>1 DEF Arrives, ClientsOf
<1>3. UNCHANGED Forwards
  BY DEF Callback, work_forward_cb, finished_forward_cb, reroute_work_cb, text_cb,
         connect_forward_cb, config_forward_cb, connect_info_forward_cb, monitor_cb,
         uuid_per_client_cb
<1>4. h \in Messages
  BY <1>0, <1>2, Popped
<1>5. h.src \in Uuids \cup {NoUuid} /\ h.tgt \in Uuids \cup {NoUuid}
  BY <1>4, MessageFacts
<1>6. ASSUME Relay(h.tgt, h), h.type \in Forwarded \cup {"WORK", "TASK_FINISHED"}
      PROVE  \E m \in Messages, D \in SUBSET Units : Sends(D, m) /\ Addressed(h, m, D)
  <2>1. PICK D \in SUBSET Units :
              /\ Sends(D, h) /\ Accounts(D, h)
              /\ D = {} \/ (h.tgt \in Uuids /\ D = {clients[h.tgt]})
    BY <1>4, <1>5, <1>6, RelayEffect
  <2>2. Addressed(h, h, D)
    BY <1>6, <2>1 DEF Addressed, Hand, Forwarded
  <2> QED
    BY <1>4, <2>1, <2>2
<1>7. ASSUME inbox' = inbox /\ clients' = clients /\ dropped' = dropped,
             h.type \notin Hand \cup {"WORK", "TASK_FINISHED"}
      PROVE  \E m \in Messages, D \in SUBSET Units : Sends(D, m) /\ Addressed(h, m, D)
  <2>1. Sends({}, h)
    BY <1>0, <1>7 DEF Sends
  <2>2. Addressed(h, h, {})
    BY <1>7 DEF Addressed
  <2> QED
    BY <1>4, <2>1, <2>2
<1> HIDE DEF h
<1>8. CASE work_forward_cb(u)
  <2>1. h.type = "WORK" /\ IF h.tgt = NoUuid THEN RelayAny(ClientsOf(Computes), h) ELSE Relay(h.tgt, h)
    BY <1>8 DEF work_forward_cb, Arrives, h
  <2>2. CASE h.tgt = NoUuid
    <3>1. PICK D \in SUBSET ClientsOf(Computes) : Sends(D, h) /\ Accounts(D, h)
      BY <1>0, <1>4, <2>1, <2>2, ClientFacts, RelayAnyEffect
    <3>2. D \in SUBSET Units /\ D \subseteq Computes
      BY <1>0, ClientFacts
    <3>3. Addressed(h, h, D)
      BY <2>1, <2>2, <3>1, <3>2 DEF Addressed, Hand
    <3> QED
      BY <1>2, <1>3, <1>4, <3>1, <3>2, <3>3 DEF h
  <2> QED
    BY <1>2, <1>3, <1>6, <2>1, <2>2 DEF h
<1>9. CASE finished_forward_cb(u)
  <2>1. h.type = "TASK_FINISHED" /\ Relay(h.tgt, h)
    BY <1>9 DEF finished_forward_cb, Arrives, h
  <2> QED
    BY <1>2, <1>3, <1>6, <2>1 DEF h
<1>10. CASE connect_forward_cb(u) \/ config_forward_cb(u) \/ connect_info_forward_cb(u)
  <2>1. h.type \in Forwarded /\ Relay(h.tgt, h)
    BY <1>10 DEF connect_forward_cb, config_forward_cb, connect_info_forward_cb,
                 Arrives, h, Forwarded
  <2> QED
    BY <1>2, <1>3, <1>6, <2>1 DEF h
<1>11. CASE text_cb(u)
  <2>1. /\ h.type = "TEXT"
        /\ IF h.tgt = NoUuid THEN UNCHANGED <<inbox, clients, dropped>> ELSE Relay(h.tgt, h)
    BY <1>11 DEF text_cb, Arrives, h
  <2>2. h.type \in Forwarded /\ h.type \notin Hand \cup {"WORK", "TASK_FINISHED"}
    BY <2>1 DEF Forwarded, Hand
  <2> QED
    BY <1>2, <1>3, <1>6, <1>7, <2>1, <2>2 DEF h
<1>12. CASE reroute_work_cb(u)
  <2> DEFINE m == Message("REROUTE_WORK", h.tgt, NoUuid, h.body)
             C == ClientsOf(Computes) \ {getClientByUuid(h.src)}
  <2>1. h.type = "REROUTE_WORK" /\ RelayAny(C, m)
    BY <1>12 DEF reroute_work_cb, Arrives, h
  <2>2. m \in Messages /\ m.type = "REROUTE_WORK"
    BY <1>4, <1>5, MessageFacts DEF Message
  <2>3. /\ C \in SUBSET Units /\ C \subseteq Computes /\ getClientByUuid(h.src) \notin C
        /\ \A c \in C : \E n \in Uuids : clients[n] = c
    BY <1>0, ClientFacts
  <2>4. m = Message("REROUTE_WORK", h.tgt, NoUuid, h.body)
    OBVIOUS
  <2> HIDE DEF m, C
  <2>5. PICK D \in SUBSET C : Sends(D, m) /\ Accounts(D, m)
    BY <2>1, <2>2, <2>3, RelayAnyEffect
  <2>6. Addressed(h, m, D)
    BY <2>1, <2>2, <2>3, <2>4, <2>5 DEF Addressed, Hand
  <2> QED
    BY <1>2, <1>3, <2>2, <2>3, <2>5, <2>6 DEF h
<1>13. CASE monitor_cb(u)
  <2> DEFINE m == Message("TEXT", h.src, h.tgt, h.body)
             t == getClientByUuid(h.src)
  <2>1. /\ h.type = "MONITOR_REQUEST"
        /\ IF t = None THEN UNCHANGED <<inbox, clients, dropped>>
           ELSE clear_aborted /\ Deliver({t}, m)
    BY <1>13 DEF monitor_cb, Arrives, h
  <2>2. m \in Messages /\ m.type = "TEXT" /\ m.src = h.src /\ m.body = h.body
    BY <1>4, <1>5, MessageFacts DEF Message
  <2>3. t # None => h.src \in Uuids /\ t = clients[h.src] /\ t \in Units
    BY <1>0, <1>5 DEF getClientByUuid
  <2> HIDE DEF m, t
  <2>4. CASE t # None
    <3>1. Sends({t}, m)
      BY <2>1, <2>2, <2>3, <2>4, ClearEffect
    <3>2. Addressed(h, m, {t})
      BY <2>1, <2>2, <2>3, <2>4 DEF Addressed, Hand
    <3> QED
      BY <1>2, <1>3, <2>2, <2>3, <2>4, <3>1, <3>2 DEF h
  <2> QED
    BY <1>2, <1>3, <1>7, <2>1, <2>4 DEF h, Hand
<1>14. CASE uuid_per_client_cb(u)
  <2> DEFINE m == Message("UUID_FOR_UNIT_RESPONSE", h.src, h.tgt, h.body)
             t == getClientByUuid(h.src)
  <2>1. /\ h.type = "UUID_FOR_UNIT_REQUEST" /\ clear_aborted
        /\ IF t = None THEN inbox' = inbox ELSE Deliver({t}, m)
    BY <1>14 DEF uuid_per_client_cb, Arrives, h
  <2>2. /\ m \in Messages /\ m.type = "UUID_FOR_UNIT_RESPONSE"
        /\ m.src = h.src /\ m.body = h.body
    BY <1>4, <1>5, MessageFacts DEF Message
  <2>3. t # None => h.src \in Uuids /\ t = clients[h.src] /\ t \in Units
    BY <1>0, <1>5 DEF getClientByUuid
  <2> HIDE DEF m, t
  <2>4. CASE t # None
    <3>1. Sends({t}, m)
      BY <2>1, <2>2, <2>3, <2>4, ClearEffect
    <3>2. Addressed(h, m, {t})
      BY <2>1, <2>2, <2>3, <2>4 DEF Addressed, Hand
    <3> QED
      BY <1>2, <1>3, <2>2, <2>3, <2>4, <3>1, <3>2 DEF h
  <2>5. CASE t = None
    <3>1. Sends({}, m)
      BY <2>1, <2>2, <2>5, ClearEffect
    <3>2. Addressed(h, m, {})
      BY <2>1, <2>2 DEF Addressed, Hand
    <3> QED
      BY <1>2, <1>3, <2>2, <3>1, <3>2 DEF h
  <2> QED
    BY <2>4, <2>5
<1> QED
  BY <1>8, <1>9, <1>10, <1>11, <1>12, <1>13, <1>14 DEF Callback

\* Where a message that is sent arrives.
LEMMA SendsEffect ==
    ASSUME TypeOK, NEW m \in Messages, NEW D \in SUBSET Units, Sends(D, m)
    PROVE  /\ inbox' \in [Units -> Seq(Messages)]
           /\ \A v \in Units : state[v] = "lost" => inbox'[v] \in {<<>>, inbox[v]}
           /\ \A v \in Units : state[v] # "lost" =>
                 \/ inbox'[v] = inbox[v] /\ v \notin D
                 \/ /\ \E n \in Uuids : clients[n] = v
                    /\ \A i \in DOMAIN inbox'[v] :
                          \/ i \in DOMAIN inbox[v] /\ inbox'[v][i] = inbox[v][i]
                          \/ inbox'[v][i] = m
           /\ \A v \in Units \ Monitors : state[v] # "lost" =>
                 \/ v \notin D /\ inbox'[v] = inbox[v]
                 \/ v \in D /\ inbox'[v] = Append(inbox[v], m)
<1>0. inbox \in [Units -> Seq(Messages)] /\ \A v \in Units : inbox[v] \in Seq(Messages)
  BY DEF TypeOK
<1>1. CASE inbox' = inbox /\ D = {}
  BY <1>0, <1>1
<1>2. CASE Deliver(D, m)
  <2> DEFINE x(v) == IF v \in D THEN <<m>> ELSE <<>>
             y(v) == IF v \in ClientsOf(Monitors) THEN <<m>> ELSE <<>>
  <2>1. inbox' = [v \in Units |-> IF state[v] = "lost" THEN <<>> ELSE inbox[v] \o x(v) \o y(v)]
    BY <1>2 DEF Deliver
  <2>2. \A v : x(v) \in Seq(Messages) /\ y(v) \in Seq(Messages)
    OBVIOUS
  <2>3. ASSUME NEW v \in Units PROVE inbox[v] \o x(v) \o y(v) \in Seq(Messages)
    BY <1>0, <2>2
  <2>4. ASSUME NEW v \in Units, state[v] # "lost", v \notin D, v \notin ClientsOf(Monitors)
        PROVE  inbox'[v] = inbox[v]
    BY <1>0, <2>1, <2>4
  <2>5. ASSUME NEW v \in Units, state[v] # "lost", v \in D \/ v \in ClientsOf(Monitors)
        PROVE  /\ \E n \in Uuids : clients[n] = v
               /\ \A i \in DOMAIN inbox'[v] :
                          \/ i \in DOMAIN inbox[v] /\ inbox'[v][i] = inbox[v][i]
                          \/ inbox'[v][i] = m
    <3>1. \E n \in Uuids : clients[n] = v
      BY <2>5 DEF Sends, ClientsOf
    <3>2. inbox'[v] \in {inbox[v] \o <<m>> \o <<>>, inbox[v] \o <<>> \o <<m>>, inbox[v] \o <<m>> \o <<m>>}
      BY <2>1, <2>5
    <3>3. CASE inbox'[v] \in {inbox[v] \o <<m>> \o <<>>, inbox[v] \o <<>> \o <<m>>}
      <4>1. inbox'[v] = Append(inbox[v], m)
        BY <1>0, <3>3
      <4> QED
        BY <1>0, <3>1, <4>1, Pushed
    <3>4. CASE inbox'[v] = inbox[v] \o <<m>> \o <<m>>
      <4> DEFINE q == Append(inbox[v], m)
      <4>1. inbox'[v] = Append(q, m)
        BY <1>0, <3>4
      <4>2. q \in Seq(Messages) /\ \A i \in DOMAIN q : q[i] = m \/ (i \in DOMAIN inbox[v] /\ q[i] = inbox[v][i])
        BY <1>0, Pushed
      <4> HIDE DEF q
      <4>3. \A i \in DOMAIN Append(q, m) : Append(q, m)[i] = m \/ (i \in DOMAIN q /\ Append(q, m)[i] = q[i])
        BY <4>2, Pushed
      <4> QED
        BY <3>1, <4>1, <4>2, <4>3
    <3> QED
      BY <3>2, <3>3, <3>4
  <2>6. ASSUME NEW v \in Units \ Monitors, state[v] # "lost", v \in D
        PROVE  inbox'[v] = Append(inbox[v], m)
    <3>1. v \notin ClientsOf(Monitors)
      BY DEF ClientsOf
    <3>2. inbox'[v] = inbox[v] \o <<m>> \o <<>>
      BY <2>1, <2>6, <3>1
    <3> QED
      BY <1>0, <3>2
  <2>7. \A v \in Units \ Monitors : v \notin ClientsOf(Monitors)
    BY DEF ClientsOf
  <2>8. inbox' \in [Units -> Seq(Messages)]
    BY <2>1, <2>3
  <2>9. \A v \in Units : state[v] = "lost" => inbox'[v] = <<>>
    BY <2>1
  <2> HIDE DEF x, y
  <2> QED
    BY <2>4, <2>5, <2>6, <2>7, <2>8, <2>9
<1> QED
  BY <1>1, <1>2 DEF Sends

-----------------------------------------------------------------------------
(* Types. *)

LEMMA RoutingTypeInit == Init => TypeOK
BY RoutingAssumption DEF Init, TypeOK

\* The messages that units and the server make are messages.
LEMMA MadeMessages ==
    /\ \A type \in Hand, n \in Uuids \cup {NoUuid} : Message(type, n, NoUuid, NoBody) \in Messages
    /\ \A n, t \in Uuids \cup {NoUuid}, b \in Bodies :
          /\ Message("WORK", n, t, b) \in Messages
          /\ Message("TASK_FINISHED", n, t, b) \in Messages
    /\ \A type \in Requests, n, t \in Uuids \cup {NoUuid}, u \in Units :
          Message(type, n, t, <<u, 0>>) \in Messages
<1>1. \A type \in Requests : type \in Types /\ type \notin {"WORK", "TASK_FINISHED"}
  BY RoutingAssumption DEF Types, Forwarded
<1>2. Hand \subseteq Types /\ "WORK" \in Types /\ "TASK_FINISHED" \in Types
  BY DEF Hand, Types
<1>3. "WORK" \notin Hand /\ "TASK_FINISHED" \notin Hand
  BY DEF Hand
<1> QED
  BY <1>1, <1>2, <1>3 DEF Messages, Message

LEMMA UnitTypeStep ==
    ASSUME TypeOK, NEW u \in Units, Unit(u)
    PROVE  TypeOK'
<1>0. /\ inbox \in [Units -> Seq(Messages)] /\ outbox \in [Units -> Seq(Messages)]
      /\ uuid \in [Units -> Uuids \cup {NoUuid}] /\ NoUuid \in Uuids \cup {NoUuid}
      /\ inbox[u] \in Seq(Messages) /\ outbox[u] \in Seq(Messages)
      /\ uuid[u] \in Uuids \cup {NoUuid}
  BY DEF TypeOK
<1>1. ASSUME NEW type, Receives(u, type)
      PROVE  /\ inbox' \in [Units -> Seq(Messages)] /\ Head(inbox[u]) \in Messages
             /\ Head(inbox[u]).type = type
  BY <1>0, <1>1, Popped DEF Receives
<1>2. ASSUME NEW m \in Messages, notifyHost(u, m) PROVE outbox' \in [Units -> Seq(Messages)]
  BY <1>0, <1>2, Pushed DEF notifyHost
<1>3. CASE updateUnitInfo_cb(u)
  <2> DEFINE m == Message("UPDATE_UNIT_TYPE", uuid[u], NoUuid, NoBody)
  <2>1. m \in Messages
    BY <1>0, MadeMessages DEF Hand
  <2>2. /\ Receives(u, "UPDATE_UNIT_TYPE") /\ notifyHost(u, m)
        /\ state' = [state EXCEPT ![u] = "up"] /\ UNCHANGED <<uuid, acc, clients, work>>
    BY <1>3 DEF updateUnitInfo_cb
  <2> HIDE DEF m
  <2>3. inbox' \in [Units -> Seq(Messages)] /\ outbox' \in [Units -> Seq(Messages)]
    BY <1>1, <1>2, <2>1, <2>2
  <2> QED
    BY <2>2, <2>3 DEF TypeOK, work
<1>4. CASE update_uuid_on_collision(u)
  <2>1. PICK n \in Uuids : /\ uuid' = [uuid EXCEPT ![u] = n]
                           /\ notifyHost(u, Message("UUID_COLLISION", n, NoUuid, NoBody))
    BY <1>4 DEF update_uuid_on_collision
  <2> DEFINE m == Message("UUID_COLLISION", n, NoUuid, NoBody)
  <2>2. m \in Messages
    BY <1>0, MadeMessages DEF Hand
  <2>3. /\ Receives(u, "UUID_COLLISION") /\ notifyHost(u, m)
        /\ UNCHANGED <<state, acc, clients, work>>
    BY <1>4, <2>1 DEF update_uuid_on_collision
  <2> HIDE DEF m
  <2>4. inbox' \in [Units -> Seq(Messages)] /\ outbox' \in [Units -> Seq(Messages)]
    BY <1>1, <1>2, <2>2, <2>3
  <2>5. uuid' \in [Units -> Uuids \cup {NoUuid}]
    BY <1>0, <2>1
  <2> QED
    BY <2>3, <2>4, <2>5 DEF TypeOK, work
<1>5. CASE Unhandled(u)
  <2> DEFINE h == Head(inbox[u])
  <2>1. Receives(u, h.type)
    BY <1>5 DEF Unhandled
  <2>2. /\ dropped' = IF u \in Monitors THEN dropped ELSE dropped \cup (({h.body} \cap Bodies) \X {"astray"})
        /\ UNCHANGED <<state, uuid, outbox, acc, clients, next, built, executed, finished, requests>>
    BY <1>5 DEF Unhandled
  <2> HIDE DEF h
  <2>3. inbox' \in [Units -> Seq(Messages)]
    BY <1>1, <2>1
  <2>4. dropped' \subseteq Bodies \X Reasons
    BY <2>2 DEF TypeOK, Reasons
  <2> QED
    BY <2>2, <2>3, <2>4 DEF TypeOK
<1>6. CASE u \in Computes /\ work_cb(u)
  <2> DEFINE h == Head(inbox[u])
             m == Message("TASK_FINISHED", uuid[u], h.src, h.body)
  <2>1. Receives(u, "WORK") /\ notifyHost(u, m)
    BY <1>6 DEF work_cb
  <2>2. h \in Messages /\ h.body \in Bodies /\ h.src \in Uuids \cup {NoUuid}
    BY <1>1, <2>1, MessageFacts
  <2>3. m \in Messages
    BY <1>0, <2>2, MadeMessages
  <2>4. /\ executed' = [executed EXCEPT ![u] = @ \cup {h.body}]
        /\ UNCHANGED <<state, uuid, acc, clients, next, built, finished, requests, dropped>>
    BY <1>6 DEF work_cb
  <2> HIDE DEF h, m
  <2>5. inbox' \in [Units -> Seq(Messages)] /\ outbox' \in [Units -> Seq(Messages)]
    BY <1>1, <1>2, <2>1, <2>3
  <2>6. executed' \in [Computes -> SUBSET Bodies]
    BY <1>6, <2>2, <2>4 DEF TypeOK
  <2> QED
    BY <2>4, <2>5, <2>6 DEF TypeOK
<1>7. CASE u \in Optimizers /\ finished_cb(u)
  <2> DEFINE h == Head(inbox[u])
  <2>1. /\ Receives(u, "TASK_FINISHED")
        /\ finished' = [finished EXCEPT ![u] = Append(@, h.body)]
        /\ UNCHANGED <<state, uuid, outbox, acc, clients, next, built, executed, requests, dropped>>
    BY <1>7 DEF finished_cb
  <2>2. h \in Messages /\ h.body \in Bodies
    BY <1>1, <2>1, MessageFacts
  <2> HIDE DEF h
  <2>3. inbox' \in [Units -> Seq(Messages)]
    BY <1>1, <2>1
  <2>4. finished' \in [Optimizers -> Seq(Bodies)]
    BY <1>7, <2>1, <2>2, Pushed DEF TypeOK
  <2> QED
    BY <2>1, <2>3, <2>4 DEF TypeOK
<1>8. CASE u \in Optimizers /\ Build(u)
  <2> DEFINE m == Message("WORK", uuid[u], NoUuid, <<u, Work[u][next[u]]>>)
  <2>1. /\ built' = [built EXCEPT ![u] = m] /\ next' = [next EXCEPT ![u] = @ + 1]
        /\ UNCHANGED <<state, uuid, inbox, outbox, acc, clients, executed, finished, requests, dropped>>
    BY <1>8 DEF Build
  <2>2. next[u] \in DOMAIN Work[u] /\ next[u] \in Nat \ {0}
    BY <1>8, RoutingAssumption DEF Build, TypeOK
  <2>3. m \in Messages /\ m.type = "WORK"
    BY <1>0, <1>8, <2>2, BodyFacts, MadeMessages DEF Message
  <2> HIDE DEF m
  <2>4. built' \in [Optimizers -> {x \in Messages : x.type = "WORK"} \cup {None}]
    BY <1>8, <2>1, <2>3 DEF TypeOK
  <2>5. next' \in [Optimizers -> Nat \ {0}]
    BY <1>8, <2>1, <2>2 DEF TypeOK
  <2> QED
    BY <2>1, <2>4, <2>5 DEF TypeOK
<1>9. CASE u \in Optimizers /\ SendWork(u)
  <2>1. /\ notifyHost(u, built[u]) /\ built' = [built EXCEPT ![u] = None]
        /\ dropped' = IF built[u].src = uuid[u] THEN dropped
                      ELSE dropped \cup {<<built[u].body, "stale">>}
        /\ UNCHANGED <<state, uuid, inbox, acc, clients, next, executed, finished, requests>>
        /\ built[u] # None
    BY <1>9 DEF SendWork
  <2>2. built[u] \in Messages /\ built[u].type = "WORK"
    BY <1>9, <2>1 DEF TypeOK
  <2>3. built[u].body \in Bodies
    BY <2>2, MessageFacts
  <2>4. outbox' \in [Units -> Seq(Messages)]
    BY <1>2, <2>1, <2>2
  <2>5. dropped' \subseteq Bodies \X Reasons
    BY <2>1, <2>3 DEF TypeOK, Reasons
  <2>6. built' \in [Optimizers -> {x \in Messages : x.type = "WORK"} \cup {None}]
    BY <1>9, <2>1 DEF TypeOK
  <2> QED
    BY <2>1, <2>4, <2>5, <2>6 DEF TypeOK
<1> QED
  BY <1>3, <1>4, <1>5, <1>6, <1>7, <1>8, <1>9 DEF Unit

LEMMA AnswerTypeStep ==
    ASSUME TypeOK, Answer
    PROVE  TypeOK'
<1> DEFINE u == acc.who
           q == outbox[u]
           h == Head(q)
           n == h.src
<1>0. /\ acc.pc # "accept" /\ u \in Units /\ q \in Seq(Messages)
      /\ inbox \in [Units -> Seq(Messages)] /\ outbox \in [Units -> Seq(Messages)]
      /\ inbox[u] \in Seq(Messages) /\ dropped \subseteq Bodies \X Reasons /\ u # None
      /\ clients \in [Uuids -> Units \cup {None}]
  BY RoutingAssumption DEF Answer, TypeOK
<1> HIDE DEF u
<1>1. ASSUME NEW why \in Reasons, Drop(u, why) PROVE TypeOK'
  <2>1. <<>> \in Seq(Messages) /\ \A x : Bodied(x) \X {why} \subseteq Bodies \X Reasons
    BY DEF Bodied
  <2> QED
    BY <1>0, <1>1, <2>1 DEF Drop, TypeOK
<1>2. ASSUME q # <<>>,
             \E k \in 1 .. (IF Coalesce THEN Len(q) ELSE 1) :
                /\ outbox' = [outbox EXCEPT ![u] = SubSeq(@, k + 1, Len(@))]
                /\ dropped' = dropped \cup (Bodied(SubSeq(q, 1, k)) \X {"coalesced"}),
             IF clients[n] # None
             THEN /\ acc' = [pc |-> "collide", who |-> u]
                  /\ Push(u, Message("UUID_COLLISION", NoUuid, NoUuid, NoBody))
                  /\ UNCHANGED clients
             ELSE /\ acc' = [pc |-> "accept", who |-> None]
                  /\ clients' = [clients EXCEPT ![n] = u]
                  /\ UNCHANGED inbox,
             UNCHANGED <<state, uuid, next, built, executed, finished, requests>>
      PROVE  TypeOK'
  <2> HIDE DEF h, n
  <2>1. PICK k \in 1 .. (IF Coalesce THEN Len(q) ELSE 1) :
                /\ outbox' = [outbox EXCEPT ![u] = SubSeq(@, k + 1, Len(@))]
                /\ dropped' = dropped \cup (Bodied(SubSeq(q, 1, k)) \X {"coalesced"})
    BY <1>2
  <2>2. k \in 0 .. Len(q)
    BY <1>0, <1>2
  <2>3. outbox' \in [Units -> Seq(Messages)]
    BY <1>0, <2>1, <2>2, Cut
  <2>4. dropped' \subseteq Bodies \X Reasons
    BY <1>0, <2>1 DEF Bodied, Reasons
  <2>5. inbox' \in [Units -> Seq(Messages)]
    <3>1. Message("UUID_COLLISION", NoUuid, NoUuid, NoBody) \in Messages
      BY MadeMessages DEF Hand
    <3>2. \/ inbox' = inbox
          \/ inbox' = [inbox EXCEPT ![u] = Append(@, Message("UUID_COLLISION", NoUuid, NoUuid, NoBody))]
      BY <1>2 DEF Push
    <3>3. Append(inbox[u], Message("UUID_COLLISION", NoUuid, NoUuid, NoBody)) \in Seq(Messages)
      BY <1>0, <3>1, Pushed
    <3> QED
      BY <1>0, <3>2, <3>3
  <2>6. clients' \in [Uuids -> Units \cup {None}]
    BY <1>0, <1>2
  <2>7. /\ acc' \in [pc : {"accept", "hello", "collide"}, who : Units \cup {None}]
        /\ acc'.pc = "accept" <=> acc'.who = None
    BY <1>0, <1>2
  <2> QED
    BY <1>2, <2>3, <2>4, <2>5, <2>6, <2>7 DEF TypeOK
<1>3. "lost" \in Reasons /\ "protocol" \in Reasons
  BY DEF Reasons
<1> QED
  BY <1>1, <1>2, <1>3 DEF Answer, u

LEMMA RoutingTypeStep == TypeOK /\ [Next]_vars => TypeOK'
<1> SUFFICES ASSUME TypeOK, [Next]_vars PROVE TypeOK'
  OBVIOUS
<1>0. /\ inbox \in [Units -> Seq(Messages)] /\ outbox \in [Units -> Seq(Messages)]
      /\ uuid \in [Units -> Uuids \cup {NoUuid}]
      /\ dropped \subseteq Bodies \X Reasons
  BY DEF TypeOK
<1>1. ASSUME NEW u \in Units, Start(u) PROVE TypeOK'
  BY <1>1 DEF Start, TypeOK, work
<1>2. ASSUME NEW u \in Units, Lose(u) PROVE TypeOK'
  <2>1. PICK k \in 0 .. Len(outbox[u]) :
          /\ outbox' = [outbox EXCEPT ![u] = SubSeq(@, 1, k)]
          /\ dropped' = dropped \cup
                ((Bodied(inbox[u]) \cup Bodied(SubSeq(outbox[u], k + 1, Len(outbox[u]))))
                 \X {"lost"})
    BY <1>2 DEF Lose
  <2>2. outbox' \in [Units -> Seq(Messages)]
    BY <1>0, <2>1, Cut
  <2>3. dropped' \subseteq Bodies \X Reasons
    BY <1>0, <2>1 DEF Bodied, Reasons
  <2>4. inbox' \in [Units -> Seq(Messages)]
    BY <1>0, <1>2 DEF Lose
  <2> QED
    BY <1>2, <2>2, <2>3, <2>4 DEF Lose, TypeOK
<1>3. ASSUME NEW u \in Units, Accept(u) PROVE TypeOK'
  <2>1. Message("UPDATE_UNIT_TYPE", NoUuid, NoUuid, NoBody) \in Messages
    BY MadeMessages DEF Hand
  <2>2. inbox' \in [Units -> Seq(Messages)]
    BY <1>0, <1>3, <2>1, Pushed DEF Accept, Push
  <2> QED
    BY <1>3, <2>2, RoutingAssumption DEF Accept, TypeOK, work
<1>4. ASSUME NEW u \in Units, Unit(u) PROVE TypeOK'
  BY <1>4, UnitTypeStep
<1>5. ASSUME NEW u \in Units, Callback(u) PROVE TypeOK'
  <2>1. /\ outbox[u] # <<>> /\ outbox' = [outbox EXCEPT ![u] = Tail(@)]
        /\ UNCHANGED Forwards
    BY <1>5, CallbackEffect
  <2>2. PICK m \in Messages, D \in SUBSET Units : Sends(D, m)
    BY <1>5, CallbackEffect
  <2>3. outbox' \in [Units -> Seq(Messages)]
    BY <1>0, <2>1, Popped
  <2>4. inbox' \in [Units -> Seq(Messages)]
    BY <2>2, SendsEffect
  <2> QED
    BY <2>1, <2>2, <2>3, <2>4 DEF Sends, TypeOK, Forwards
<1>6. CASE Answer
  BY <1>6, AnswerTypeStep
<1>7. ASSUME NEW u \in Units, NEW type \in Requests, NEW t \in Uuids \cup {NoUuid}, Ask(u, type, t)
      PROVE  TypeOK'
  <2> DEFINE m == Message(type, uuid[u], t, <<u, 0>>)
  <2>1. m \in Messages
    BY <1>0, MadeMessages
  <2>2. /\ notifyHost(u, m) /\ requests < MaxRequests /\ requests' = requests + 1
        /\ UNCHANGED <<state, uuid, inbox, acc, clients, next, built, executed, finished, dropped>>
    BY <1>7 DEF Ask
  <2> HIDE DEF m
  <2>3. outbox' \in [Units -> Seq(Messages)]
    BY <1>0, <2>1, <2>2, Pushed DEF notifyHost
  <2>4. requests' \in 0 .. MaxRequests
    BY <2>2, RoutingAssumption DEF TypeOK
  <2> QED
    BY <2>2, <2>3, <2>4 DEF TypeOK
<1>8. CASE UNCHANGED vars
  BY <1>8 DEF vars, TypeOK
<1> QED
  BY <1>1, <1>2, <1>3, <1>4, <1>5, <1>6, <1>7, <1>8 DEF Next

\* Every behaviour is well typed, for any units, uuids and requests: in
\* particular WORK and TASK_FINISHED messages are always about a request.
THEOREM RoutingTypeCorrect == Spec => []TypeOK
BY RoutingTypeInit, RoutingTypeStep, PTL DEF Spec

-----------------------------------------------------------------------------
(* The handshake. *)

\* The first message a unit has to read: one of the handshake only if the
\* accept thread is talking to the unit.
LEMMA HeadFacts ==
    ASSUME TypeOK, ShakeInv, NEW u \in Units, state[u] \in {"started", "up"},
           inbox[u] # <<>>
    PROVE  \/ u # acc.who /\ state[u] = "up" /\ Head(inbox[u]).type \notin Hand
           \/ /\ u = acc.who /\ acc.pc = "hello" /\ Head(inbox[u]).type = "UPDATE_UNIT_TYPE"
              /\ state[u] = "started" /\ outbox[u] = <<>>
              /\ Tail(inbox[u]) = <<>> /\ Head(inbox[u]).body = NoBody
           \/ /\ u = acc.who /\ acc.pc = "collide" /\ Head(inbox[u]).type = "UUID_COLLISION"
              /\ state[u] = "up" /\ \A i \in DOMAIN outbox[u] : outbox[u][i].type = "WORK"
              /\ Tail(inbox[u]) = <<>> /\ Head(inbox[u]).body = NoBody
<1>0. /\ inbox[u] \in Seq(Messages) /\ 1 \in DOMAIN inbox[u] /\ Head(inbox[u]) = inbox[u][1]
      /\ Len(inbox[u]) = 1 => Tail(inbox[u]) = <<>>
  <2>1. inbox[u] \in Seq(Messages)
    BY DEF TypeOK
  <2> QED
    BY <2>1, Popped
<1>1. CASE u # acc.who
  <2>1. Quiet(state[u], inbox[u], outbox[u])
    BY <1>1 DEF ShakeInv
  <2> QED
    BY <1>0, <1>1, <2>1 DEF Quiet
<1>2. CASE u = acc.who
  <2>1. acc.pc \in {"hello", "collide"}
    BY <1>2, RoutingAssumption DEF TypeOK
  <2>2. CASE acc.pc = "hello"
    BY <1>0, <1>2, <2>2 DEF ShakeInv, Greeted, Only
  <2>3. CASE acc.pc = "collide"
    BY <1>0, <1>2, <2>3 DEF ShakeInv, Collided, Only
  <2> QED
    BY <2>1, <2>2, <2>3
<1> QED
  BY <1>1, <1>2

\* A unit outside the handshake reads or sends something else.
LEMMA ShakeElsewhere ==
    ASSUME TypeOK, ShakeInv, NEW u \in Units, u # acc.who,
           UNCHANGED <<state, uuid, acc, clients>>,
           \A v \in Units : v # u => inbox'[v] = inbox[v] /\ outbox'[v] = outbox[v],
           Quiet(state[u], inbox'[u], outbox'[u])
    PROVE  ShakeInv'
<1>1. acc.pc # "accept" => acc.who \in Units /\ acc.who # u
  BY DEF TypeOK
<1>2. ASSUME NEW v \in Units, v # acc.who
      PROVE  /\ Quiet(state[v], inbox'[v], outbox'[v])
             /\ state[v] = "up" => clients[uuid[v]] = v
  BY <1>2 DEF ShakeInv
<1> QED
  BY <1>1, <1>2 DEF ShakeInv

\* Queues of a quiet unit stay quiet.
LEMMA QuietQueues ==
    ASSUME NEW s, NEW in \in Seq(Messages), NEW out \in Seq(Messages), Quiet(s, in, out)
    PROVE  /\ in # <<>> => Quiet(s, Tail(in), out)
           /\ out # <<>> => Quiet(s, in, Tail(out))
           /\ \A m \in Messages : m.type \notin Hand /\ s = "up" =>
                 Quiet(s, Append(in, m), out) /\ Quiet(s, in, Append(out, m))
           /\ \A k \in 0 .. Len(out) : Quiet("lost", <<>>, SubSeq(out, 1, k))
<1>1. ASSUME in # <<>> PROVE Quiet(s, Tail(in), out)
  <2>1. \A i \in DOMAIN Tail(in) : i + 1 \in DOMAIN in /\ Tail(in)[i] = in[i + 1]
    BY <1>1, Popped
  <2> QED
    BY <1>1, <2>1 DEF Quiet
<1>2. ASSUME out # <<>> PROVE Quiet(s, in, Tail(out))
  <2>1. \A i \in DOMAIN Tail(out) : i + 1 \in DOMAIN out /\ Tail(out)[i] = out[i + 1]
    BY <1>2, Popped
  <2> QED
    BY <1>2, <2>1 DEF Quiet
<1>3. ASSUME NEW m \in Messages, m.type \notin Hand, s = "up"
      PROVE  Quiet(s, Append(in, m), out) /\ Quiet(s, in, Append(out, m))
  <2>1. \A i \in DOMAIN Append(in, m) : Append(in, m)[i] = m \/ (i \in DOMAIN in /\ Append(in, m)[i] = in[i])
    BY Pushed
  <2>2. \A i \in DOMAIN Append(out, m) : Append(out, m)[i] = m \/ (i \in DOMAIN out /\ Append(out, m)[i] = out[i])
    BY Pushed
  <2>3. Quiet(s, Append(in, m), out)
    BY <1>3, <2>1 DEF Quiet
  <2>4. Quiet(s, in, Append(out, m))
    BY <1>3, <2>2 DEF Quiet
  <2> QED
    BY <2>3, <2>4
<1>4. ASSUME NEW k \in 0 .. Len(out) PROVE Quiet("lost", <<>>, SubSeq(out, 1, k))
  <2>1. DOMAIN SubSeq(out, 1, k) = 1 .. k /\ \A i \in 1 .. k : SubSeq(out, 1, k)[i] = out[i] /\ i \in DOMAIN out
    BY Cut
  <2>2. DOMAIN <<>> = {}
    OBVIOUS
  <2> QED
    BY <2>1, <2>2 DEF Quiet
<1> QED
  BY <1>1, <1>2, <1>3, <1>4

\* A request behind the answers of the handshake.
LEMMA ShakeRequest ==
    ASSUME NEW s, NEW n, NEW in, NEW out \in Seq(Messages), NEW m \in Messages,
           m.type = "WORK", s = "up"
    PROVE  /\ Greeted(s, n, in, out) => Greeted(s, n, in, Append(out, m))
           /\ Collided(s, n, in, out) => Collided(s, n, in, Append(out, m))
<1> DEFINE q == Append(out, m)
           e == Len(out) + 1
<1>1. /\ \A i \in DOMAIN q : i = e \/ (i \in DOMAIN out /\ q[i] = out[i])
      /\ q[e] = m /\ q # <<>> /\ (out # <<>> => e # 1)
      /\ \A i \in DOMAIN out : q[i] = out[i]
  BY Pushed
<1>2. "up" # "started" /\ "UUID_COLLISION" # "WORK"
  OBVIOUS
<1> HIDE DEF q, e
<1>3. Greeted(s, n, in, out) => Greeted(s, n, in, q)
  BY <1>1, <1>2 DEF Greeted
<1>4. ASSUME Collided(s, n, in, out) PROVE Collided(s, n, in, q)
  <2>1. CASE Only(in, "UUID_COLLISION") /\ \A i \in DOMAIN out : out[i].type = "WORK"
    BY <1>1, <1>4, <2>1 DEF Collided
  <2>2. CASE /\ in = <<>>
             /\ \A i \in DOMAIN out :
                \/ out[i].type = "WORK"
                \/ /\ out[i].type = "UUID_COLLISION" /\ out[i].src = n
                   /\ \A j \in DOMAIN out : j # i => out[j].type = "WORK"
    BY <1>1, <1>4, <2>2 DEF Collided
  <2> QED
    BY <1>4, <2>1, <2>2 DEF Collided
<1> QED
  BY <1>3, <1>4 DEF q

\* A unit is lost in the middle of the handshake.
LEMMA ShakeLost ==
    ASSUME NEW n, NEW in, NEW out \in Seq(Messages), NEW k \in 0 .. Len(out)
    PROVE  /\ Greeted("up", n, in, out) => Greeted("lost", n, <<>>, SubSeq(out, 1, k))
           /\ Collided("up", n, in, out) => Collided("lost", n, <<>>, SubSeq(out, 1, k))
<1> DEFINE q == SubSeq(out, 1, k)
<1>1. \A i \in DOMAIN q : i \in DOMAIN out /\ q[i] = out[i]
  BY Cut
<1>2. "up" # "started" /\ "lost" # "up"
  OBVIOUS
<1> HIDE DEF q
<1>3. Greeted("up", n, in, out) => Greeted("lost", n, <<>>, q)
  BY <1>1, <1>2 DEF Greeted
<1>4. Collided("up", n, in, out) => Collided("lost", n, <<>>, q)
  BY <1>1 DEF Collided
<1> QED
  BY <1>3, <1>4 DEF q

\* The accept thread's unit goes on with the handshake; nothing else changes.
LEMMA ShakeWho ==
    ASSUME TypeOK, ShakeInv, NEW u \in Units, u = acc.who,
           UNCHANGED <<acc, clients>>, state'[u] # "off" => uuid'[u] \in Uuids,
           \A v \in Units : v # u =>
              /\ inbox'[v] = inbox[v] /\ outbox'[v] = outbox[v]
              /\ state'[v] = state[v] /\ uuid'[v] = uuid[v],
           acc.pc = "hello" => Greeted(state'[u], uuid'[u], inbox'[u], outbox'[u]),
           acc.pc = "collide" => Collided(state'[u], uuid'[u], inbox'[u], outbox'[u])
    PROVE  ShakeInv'
<1>1. \A n \in Uuids : clients[n] # None => clients[n] \in Units /\ clients[n] # u
  BY DEF TypeOK, ShakeInv
<1>2. ASSUME NEW v \in Units, v # u
      PROVE  /\ Quiet(state'[v], inbox'[v], outbox'[v])
             /\ state'[v] = "up" => clients[uuid'[v]] = v
             /\ state'[v] # "off" => uuid'[v] \in Uuids
  BY <1>2 DEF ShakeInv
<1>3. ASSUME NEW n \in Uuids, clients[n] # None
      PROVE  uuid'[clients[n]] = n /\ state'[clients[n]] \in {"up", "lost"} /\ clients[n] # acc.who
  BY <1>1, <1>3 DEF ShakeInv
<1> QED
  BY <1>2, <1>3 DEF ShakeInv

LEMMA UnitShakes ==
    ASSUME TypeOK, ShakeInv, NEW u \in Units, Unit(u)
    PROVE  ShakeInv'
<1>0. /\ inbox[u] \in Seq(Messages) /\ outbox[u] \in Seq(Messages)
      /\ inbox \in [Units -> Seq(Messages)] /\ outbox \in [Units -> Seq(Messages)]
      /\ state \in [Units -> {"off", "started", "up", "lost"}]
      /\ uuid \in [Units -> Uuids \cup {NoUuid}]
      /\ uuid[u] \in Uuids \cup {NoUuid}
      /\ acc.pc \in {"accept", "hello", "collide"}
  BY DEF TypeOK
<1>1. ASSUME NEW type, Receives(u, type)
      PROVE  /\ state[u] \in {"started", "up"} /\ inbox[u] # <<>> /\ Head(inbox[u]).type = type
             /\ inbox'[u] = Tail(inbox[u]) /\ \A v \in Units : v # u => inbox'[v] = inbox[v]
             /\ Head(inbox[u]) \in Messages
  BY <1>0, <1>1, Popped DEF Receives
<1>2. ASSUME NEW m, notifyHost(u, m)
      PROVE  /\ outbox'[u] = Append(outbox[u], m)
             /\ \A v \in Units : v # u => outbox'[v] = outbox[v]
  BY <1>0, <1>2 DEF notifyHost
<1>3. CASE updateUnitInfo_cb(u)
  <2> DEFINE m == Message("UPDATE_UNIT_TYPE", uuid[u], NoUuid, NoBody)
  <2>1. /\ Receives(u, "UPDATE_UNIT_TYPE") /\ notifyHost(u, m)
        /\ state' = [state EXCEPT ![u] = "up"] /\ UNCHANGED <<uuid, acc, clients>>
    BY <1>3 DEF updateUnitInfo_cb
  <2>2. m.type = "UPDATE_UNIT_TYPE" /\ m.src = uuid[u]
    BY DEF Message
  <2>3. "UPDATE_UNIT_TYPE" \in Hand /\ "UPDATE_UNIT_TYPE" # "UUID_COLLISION"
    BY DEF Hand
  <2>4. /\ u = acc.who /\ acc.pc = "hello" /\ state[u] = "started" /\ outbox[u] = <<>>
        /\ Tail(inbox[u]) = <<>>
    BY <1>1, <2>1, <2>3, HeadFacts
  <2> HIDE DEF m
  <2>5. outbox'[u] = <<m>> /\ inbox'[u] = <<>>
    <3>1. outbox'[u] = Append(<<>>, m) /\ inbox'[u] = <<>>
      BY <1>1, <1>2, <2>1, <2>4
    <3> QED
      BY <3>1
  <2>6. Greeted("up", uuid[u], <<>>, <<m>>)
    BY <2>2 DEF Greeted
  <2>7. state'[u] = "up" /\ \A v \in Units : v # u => state'[v] = state[v]
    BY <1>0, <2>1
  <2>8. uuid[u] \in Uuids
    BY <2>4 DEF ShakeInv
  <2>9. Greeted(state'[u], uuid'[u], inbox'[u], outbox'[u])
    BY <2>1, <2>5, <2>6, <2>7
  <2>10. \A v \in Units : v # u =>
              /\ inbox'[v] = inbox[v] /\ outbox'[v] = outbox[v]
              /\ state'[v] = state[v] /\ uuid'[v] = uuid[v]
    BY <1>1, <1>2, <2>1, <2>7
  <2> QED
    BY <2>1, <2>4, <2>8, <2>9, <2>10, ShakeWho
<1>4. CASE update_uuid_on_collision(u)
  <2>1. PICK n \in Uuids : /\ uuid' = [uuid EXCEPT ![u] = n]
                           /\ notifyHost(u, Message("UUID_COLLISION", n, NoUuid, NoBody))
    BY <1>4 DEF update_uuid_on_collision
  <2> DEFINE m == Message("UUID_COLLISION", n, NoUuid, NoBody)
  <2>2. m.type = "UUID_COLLISION" /\ m.src = n /\ m \in Messages
    BY MadeMessages DEF Message, Hand
  <2>3. /\ Receives(u, "UUID_COLLISION") /\ notifyHost(u, m)
        /\ UNCHANGED <<state, acc, clients>>
    BY <1>4, <2>1 DEF update_uuid_on_collision
  <2>4. "UUID_COLLISION" \in Hand /\ "UPDATE_UNIT_TYPE" # "UUID_COLLISION"
    BY DEF Hand
  <2>5. /\ u = acc.who /\ acc.pc = "collide" /\ state[u] = "up"
        /\ \A i \in DOMAIN outbox[u] : outbox[u][i].type = "WORK"
        /\ Tail(inbox[u]) = <<>>
    BY <1>1, <2>3, <2>4, HeadFacts
  <2> HIDE DEF m
  <2>6. outbox'[u] = Append(outbox[u], m) /\ inbox'[u] = <<>>
    BY <1>1, <1>2, <2>3, <2>5
  <2>7. Collided("up", n, <<>>, Append(outbox[u], m))
    <3> DEFINE q == Append(outbox[u], m)
               e == Len(outbox[u]) + 1
    <3>1. /\ q[e] = m
          /\ \A i \in DOMAIN q : i = e \/ (i \in DOMAIN outbox[u] /\ q[i] = outbox[u][i])
      BY <1>0, <2>2, Pushed
    <3> HIDE DEF q, e
    <3>2. Collided("up", n, <<>>, q)
      BY <2>2, <2>5, <3>1 DEF Collided
    <3> QED
      BY <3>2 DEF q
  <2>8. uuid'[u] = n /\ \A v \in Units : v # u => uuid'[v] = uuid[v]
    BY <1>0, <2>1
  <2>9. Collided(state'[u], uuid'[u], inbox'[u], outbox'[u])
    BY <2>3, <2>5, <2>6, <2>7, <2>8
  <2>10. \A v \in Units : v # u =>
              /\ inbox'[v] = inbox[v] /\ outbox'[v] = outbox[v]
              /\ state'[v] = state[v] /\ uuid'[v] = uuid[v]
    BY <1>1, <1>2, <2>3, <2>8
  <2> QED
    BY <2>3, <2>5, <2>8, <2>9, <2>10, ShakeWho
<1>5. ASSUME NEW type, Receives(u, type), type \notin Hand
      PROVE  /\ u # acc.who /\ state[u] = "up" /\ Quiet(state[u], inbox[u], outbox[u])
             /\ Quiet(state[u], inbox'[u], outbox[u])
  <2>1. u # acc.who /\ state[u] = "up"
    BY <1>1, <1>5, HeadFacts DEF Hand
  <2>2. Quiet(state[u], inbox[u], outbox[u])
    BY <2>1 DEF ShakeInv
  <2>3. Quiet(state[u], Tail(inbox[u]), outbox[u])
    BY <1>0, <1>1, <1>5, <2>2, QuietQueues
  <2> QED
    BY <1>1, <1>5, <2>1, <2>2, <2>3
<1>6. CASE Unhandled(u)
  <2>1. /\ Receives(u, Head(inbox[u]).type) /\ Head(inbox[u]).type \notin Hand
        /\ UNCHANGED <<state, uuid, outbox, acc, clients>>
    BY <1>6 DEF Unhandled, Handled, Hand
  <2> QED
    BY <1>1, <1>5, <2>1, ShakeElsewhere
<1>7. CASE u \in Computes /\ work_cb(u)
  <2> DEFINE h == Head(inbox[u])
             m == Message("TASK_FINISHED", uuid[u], h.src, h.body)
  <2>1. Receives(u, "WORK") /\ notifyHost(u, m) /\ UNCHANGED <<state, uuid, acc, clients>>
    BY <1>7 DEF work_cb
  <2>2. "WORK" \notin Hand /\ "TASK_FINISHED" \notin Hand /\ m.type = "TASK_FINISHED"
    BY DEF Hand, Message
  <2>3. m \in Messages
    BY <1>0, <1>1, <2>1, MessageFacts, MadeMessages
  <2> HIDE DEF m, h
  <2>4. inbox' \in [Units -> Seq(Messages)] /\ inbox'[u] \in Seq(Messages)
    BY <1>0, <1>1, <2>1, Popped DEF Receives
  <2>5. Quiet(state[u], inbox'[u], outbox'[u])
    <3>1. state[u] = "up" /\ Quiet(state[u], inbox'[u], outbox[u])
      BY <1>5, <2>1, <2>2
    <3>2. Quiet(state[u], inbox'[u], Append(outbox[u], m))
      BY <1>0, <2>2, <2>3, <2>4, <3>1, QuietQueues
    <3> QED
      BY <1>2, <2>1, <3>2
  <2> QED
    BY <1>1, <1>2, <1>5, <2>1, <2>2, <2>5, ShakeElsewhere
<1>8. CASE u \in Optimizers /\ finished_cb(u)
  <2>1. Receives(u, "TASK_FINISHED") /\ UNCHANGED <<state, uuid, outbox, acc, clients>>
    BY <1>8 DEF finished_cb
  <2>2. "TASK_FINISHED" \notin Hand
    BY DEF Hand
  <2> QED
    BY <1>1, <1>5, <2>1, <2>2, ShakeElsewhere
<1>9. CASE u \in Optimizers /\ Build(u)
  BY <1>9 DEF Build, ShakeInv
<1>10. CASE u \in Optimizers /\ SendWork(u)
  <2>1. /\ notifyHost(u, built[u]) /\ state[u] = "up" /\ built[u] # None
        /\ UNCHANGED <<state, uuid, inbox, acc, clients>>
    BY <1>10 DEF SendWork
  <2>2. built[u] \in Messages /\ built[u].type = "WORK" /\ built[u].type \notin Hand
    BY <1>10, <2>1 DEF TypeOK, Hand
  <2>3. CASE u # acc.who
    <3>1. Quiet(state[u], inbox[u], outbox[u])
      BY <2>3 DEF ShakeInv
    <3>2. Quiet(state[u], inbox[u], Append(outbox[u], built[u]))
      BY <1>0, <2>1, <2>2, <3>1, QuietQueues
    <3>3. Quiet(state[u], inbox'[u], outbox'[u])
      BY <1>2, <2>1, <3>2
    <3> QED
      BY <1>2, <2>1, <2>3, <3>3, ShakeElsewhere
  <2>4. CASE u = acc.who
    <3>1. acc.pc = "hello" => Greeted(state'[u], uuid'[u], inbox'[u], outbox'[u])
      <4>1. acc.pc = "hello" => Greeted(state[u], uuid[u], inbox[u], outbox[u])
        BY <2>4 DEF ShakeInv
      <4>2. acc.pc = "hello" => Greeted(state[u], uuid[u], inbox[u], Append(outbox[u], built[u]))
        BY <1>0, <2>1, <2>2, <4>1, ShakeRequest
      <4> QED
        BY <1>2, <2>1, <4>2
    <3>2. acc.pc = "collide" => Collided(state'[u], uuid'[u], inbox'[u], outbox'[u])
      <4>1. acc.pc = "collide" => Collided(state[u], uuid[u], inbox[u], outbox[u])
        BY <2>4 DEF ShakeInv
      <4>2. acc.pc = "collide" => Collided(state[u], uuid[u], inbox[u], Append(outbox[u], built[u]))
        BY <1>0, <2>1, <2>2, <4>1, ShakeRequest
      <4> QED
        BY <1>2, <2>1, <4>2
    <3>3. state'[u] # "off" => uuid'[u] \in Uuids
      BY <2>1 DEF ShakeInv
    <3> QED
      BY <1>2, <2>1, <2>4, <3>1, <3>2, <3>3, ShakeWho
  <2> QED
    BY <2>3, <2>4
<1> QED
  BY <1>3, <1>4, <1>6, <1>7, <1>8, <1>9, <1>10 DEF Unit

\* The accept thread reads an answer: it gives the unit up, or takes the answer
\* and k - 1 requests behind it.
Taken(u, k) ==
    /\ k \in 1 .. Len(outbox[u])
    /\ outbox' = [outbox EXCEPT ![u] = SubSeq(@, k + 1, Len(@))]
    /\ dropped' = dropped \cup (Bodied(SubSeq(outbox[u], 1, k)) \X {"coalesced"})
    /\ UNCHANGED <<state, uuid, next, built, executed, finished, requests>>
Collides(u) ==
    /\ acc' = [pc |-> "collide", who |-> u] /\ clients' = clients
    /\ inbox' = [inbox EXCEPT ![u] = <<Message("UUID_COLLISION", NoUuid, NoUuid, NoBody)>>]
Registers(u) ==
    /\ clients[uuid[u]] = None /\ clients' = [clients EXCEPT ![uuid[u]] = u]
    /\ acc' = [pc |-> "accept", who |-> None] /\ inbox' = inbox

LEMMA AnswerFacts ==
    ASSUME TypeOK, ShakeInv, Answer
    PROVE  \E u \in Units :
              /\ u = acc.who /\ acc.pc \in {"hello", "collide"}
              /\ \/ \E why \in {"lost", "protocol"} : Drop(u, why)
                 \/ /\ \E k \in 1 .. Len(outbox[u]) : Taken(u, k)
                    /\ Collides(u) \/ Registers(u)
                    /\ state[u] \in {"up", "lost"} /\ uuid[u] \in Uuids /\ inbox[u] = <<>>
                    /\ outbox[u] # <<>> /\ outbox[u][1].type \in Hand
                    /\ acc.pc = "collide" => outbox[u][1].type = "UUID_COLLISION"
                    /\ \A i \in DOMAIN outbox[u] : i # 1 => outbox[u][i].type = "WORK"
<1> DEFINE u == acc.who
           q == outbox[u]
<1>0. /\ acc.pc \in {"hello", "collide"} /\ u \in Units /\ q \in Seq(Messages)
      /\ inbox \in [Units -> Seq(Messages)]
  BY DEF Answer, TypeOK
<1> HIDE DEF u
<1>1. CASE \E why \in {"lost", "protocol"} : Drop(u, why)
  BY <1>0, <1>1 DEF u
<1>2. CASE /\ q # <<>>
           /\ Head(q).type = IF acc.pc = "hello" THEN "UPDATE_UNIT_TYPE" ELSE "UUID_COLLISION"
           /\ \E k \in 1 .. (IF Coalesce THEN Len(q) ELSE 1) :
                /\ outbox' = [outbox EXCEPT ![u] = SubSeq(@, k + 1, Len(@))]
                /\ dropped' = dropped \cup (Bodied(SubSeq(q, 1, k)) \X {"coalesced"})
           /\ LET n == Head(q).src IN
             IF clients[n] # None
             THEN /\ acc' = [pc |-> "collide", who |-> u]
                  /\ Push(u, Message("UUID_COLLISION", NoUuid, NoUuid, NoBody))
                  /\ UNCHANGED clients
             ELSE /\ acc' = [pc |-> "accept", who |-> None]
                  /\ clients' = [clients EXCEPT ![n] = u]
                  /\ UNCHANGED inbox
           /\ UNCHANGED <<state, uuid, next, built, executed, finished, requests>>
  <2>1. Head(q) = q[1] /\ 1 \in DOMAIN q /\ Len(q) \in Nat \ {0}
    BY <1>0, <1>2, Popped, EmptySeq
  <2>2. /\ state[u] \in {"up", "lost"} /\ inbox[u] = <<>> /\ q[1].type \in Hand
        /\ q[1].src = uuid[u] /\ \A i \in DOMAIN q : i # 1 => q[i].type = "WORK"
        /\ acc.pc = "collide" => q[1].type = "UUID_COLLISION"
    <3>1. CASE acc.pc = "hello"
      <4>1. Greeted(state[u], uuid[u], inbox[u], q)
        BY <3>1 DEF ShakeInv, u
      <4>2. q[1].type = "UPDATE_UNIT_TYPE"
        BY <1>2, <2>1, <3>1
      <4> QED
        BY <1>2, <2>1, <3>1, <4>1, <4>2 DEF Greeted, Hand
    <3>2. CASE acc.pc = "collide"
      <4>1. Collided(state[u], uuid[u], inbox[u], q)
        BY <3>2 DEF ShakeInv, u
      <4>2. q[1].type = "UUID_COLLISION" /\ "UUID_COLLISION" # "WORK"
        BY <1>2, <2>1, <3>2
      <4> QED
        BY <1>2, <2>1, <3>2, <4>1, <4>2 DEF Collided, Hand
    <3> QED
      BY <1>0, <3>1, <3>2
  <2>3. uuid[u] \in Uuids
    BY <1>0, <2>2 DEF ShakeInv
  <2>4. \E k \in 1 .. Len(q) : Taken(u, k)
    <3>1. PICK k \in 1 .. (IF Coalesce THEN Len(q) ELSE 1) :
                /\ outbox' = [outbox EXCEPT ![u] = SubSeq(@, k + 1, Len(@))]
                /\ dropped' = dropped \cup (Bodied(SubSeq(q, 1, k)) \X {"coalesced"})
      BY <1>2
    <3>2. k \in 1 .. Len(q)
      BY <2>1
    <3> QED
      BY <1>2, <3>1, <3>2 DEF Taken
  <2>5. Head(q).src = uuid[u]
    BY <2>1, <2>2
  <2>6. CASE clients[uuid[u]] # None
    <3>1. /\ acc' = [pc |-> "collide", who |-> u]
          /\ Push(u, Message("UUID_COLLISION", NoUuid, NoUuid, NoBody))
          /\ UNCHANGED clients
      BY <1>2, <2>5, <2>6
    <3>2. Append(<<>>, Message("UUID_COLLISION", NoUuid, NoUuid, NoBody)) =
             <<Message("UUID_COLLISION", NoUuid, NoUuid, NoBody)>>
      OBVIOUS
    <3>3. Collides(u)
      BY <1>0, <2>2, <3>1, <3>2 DEF Push, Collides
    <3> QED
      BY <1>0, <1>2, <2>2, <2>3, <2>4, <3>3 DEF u
  <2>7. CASE clients[uuid[u]] = None
    <3>1. Registers(u)
      BY <1>2, <2>5, <2>7 DEF Registers
    <3> QED
      BY <1>0, <1>2, <2>2, <2>3, <2>4, <3>1 DEF u
  <2> QED
    BY <2>6, <2>7
<1> QED
  BY <1>1, <1>2 DEF Answer, u

LEMMA AnswerShakes ==
    ASSUME TypeOK, ShakeInv, Answer
    PROVE  ShakeInv'
<1>1. PICK u \in Units :
              /\ u = acc.who /\ acc.pc \in {"hello", "collide"}
              /\ \/ \E why \in {"lost", "protocol"} : Drop(u, why)
                 \/ /\ \E k \in 1 .. Len(outbox[u]) : Taken(u, k)
                    /\ Collides(u) \/ Registers(u)
                    /\ state[u] \in {"up", "lost"} /\ uuid[u] \in Uuids /\ inbox[u] = <<>>
                    /\ outbox[u] # <<>> /\ outbox[u][1].type \in Hand
                    /\ acc.pc = "collide" => outbox[u][1].type = "UUID_COLLISION"
                    /\ \A i \in DOMAIN outbox[u] : i # 1 => outbox[u][i].type = "WORK"
  BY AnswerFacts
<1>2. /\ inbox \in [Units -> Seq(Messages)] /\ outbox \in [Units -> Seq(Messages)]
      /\ state \in [Units -> {"off", "started", "up", "lost"}]
      /\ uuid \in [Units -> Uuids \cup {NoUuid}] /\ None \notin Units
      /\ clients \in [Uuids -> Units \cup {None}] /\ outbox[u] \in Seq(Messages)
  BY RoutingAssumption DEF TypeOK
<1>3. \A n \in Uuids : clients[n] # None =>
          /\ clients[n] \in Units /\ clients[n] # u
          /\ uuid[clients[n]] = n /\ state[clients[n]] \in {"up", "lost"}
  BY <1>1, <1>2 DEF ShakeInv
<1>4. \A v \in Units : v # u => Quiet(state[v], inbox[v], outbox[v])
                                /\ (state[v] = "up" => clients[uuid[v]] = v)
  BY <1>1 DEF ShakeInv
<1>5. \A v \in Units : state[v] # "off" => uuid[v] \in Uuids
  BY DEF ShakeInv
<1>6. DOMAIN <<>> = {}
  OBVIOUS
<1>7. ASSUME NEW why, Drop(u, why) PROVE ShakeInv'
  <2>1. /\ state' = [state EXCEPT ![u] = "lost"] /\ inbox' = [inbox EXCEPT ![u] = <<>>]
        /\ outbox' = [outbox EXCEPT ![u] = <<>>] /\ acc' = [pc |-> "accept", who |-> None]
        /\ uuid' = uuid /\ clients' = clients
    BY <1>7 DEF Drop
  <2>2. Quiet("lost", <<>>, <<>>)
    BY <1>6 DEF Quiet
  <2>3. ASSUME NEW v \in Units
        PROVE  /\ Quiet(state'[v], inbox'[v], outbox'[v])
               /\ state'[v] = "up" => clients[uuid[v]] = v
               /\ state'[v] # "off" => uuid[v] \in Uuids
    <3>1. CASE v = u
      <4>1. state[u] # "off"
        <5>1. acc.pc = "hello" => Greeted(state[u], uuid[u], inbox[u], outbox[u])
          BY <1>1 DEF ShakeInv
        <5>2. acc.pc = "collide" => Collided(state[u], uuid[u], inbox[u], outbox[u])
          BY <1>1 DEF ShakeInv
        <5> QED
          BY <1>1, <5>1, <5>2 DEF Greeted, Collided
      <4> QED
        BY <1>2, <1>5, <2>1, <2>2, <3>1, <4>1
    <3>2. CASE v # u
      <4>1. state'[v] = state[v] /\ inbox'[v] = inbox[v] /\ outbox'[v] = outbox[v]
        BY <1>2, <2>1, <3>2
      <4> QED
        BY <1>4, <1>5, <3>2, <4>1
    <3> QED
      BY <3>1, <3>2
  <2>4. \A n \in Uuids : clients[n] # None => state'[clients[n]] \in {"up", "lost"}
    BY <1>2, <1>3, <2>1
  <2> QED
    BY <1>2, <1>3, <2>1, <2>3, <2>4 DEF ShakeInv
<1>8. ASSUME \E k \in 1 .. Len(outbox[u]) : Taken(u, k), Collides(u) \/ Registers(u),
             state[u] \in {"up", "lost"}, uuid[u] \in Uuids, inbox[u] = <<>>,
             \A i \in DOMAIN outbox[u] : i # 1 => outbox[u][i].type = "WORK"
      PROVE  ShakeInv'
  <2>1. PICK k \in 1 .. Len(outbox[u]) : Taken(u, k)
    BY <1>8
  <2> DEFINE z == SubSeq(outbox[u], k + 1, Len(outbox[u]))
  <2>2. /\ outbox' = [outbox EXCEPT ![u] = z] /\ UNCHANGED <<state, uuid>>
    BY <2>1 DEF Taken
  <2>3. z \in Seq(Messages) /\ \A i \in DOMAIN z : z[i].type = "WORK"
    <3>1. k \in 0 .. Len(outbox[u]) /\ Len(outbox[u]) \in Nat
      BY <1>2
    <3>2. /\ z \in Seq(Messages) /\ DOMAIN z = 1 .. Len(outbox[u]) - k
          /\ \A i \in 1 .. Len(outbox[u]) - k : z[i] = outbox[u][k + i] /\ k + i \in DOMAIN outbox[u]
      BY <1>2, <3>1, Cut
    <3> HIDE DEF z
    <3>3. \A i \in DOMAIN z : k + i # 1
      BY <3>1, <3>2
    <3> QED
      BY <1>8, <3>2, <3>3
  <2> HIDE DEF z
  <2>4. outbox'[u] = z /\ \A v \in Units : v # u => outbox'[v] = outbox[v]
    BY <1>2, <2>2
  <2>5. "WORK" \notin Hand
    BY DEF Hand
  <2>6. CASE Collides(u)
    <3> DEFINE m == Message("UUID_COLLISION", NoUuid, NoUuid, NoBody)
    <3>1. /\ acc' = [pc |-> "collide", who |-> u] /\ clients' = clients
          /\ inbox' = [inbox EXCEPT ![u] = <<m>>]
      BY <2>6 DEF Collides
    <3>2. m.type = "UUID_COLLISION" /\ m.body = NoBody
      BY DEF Message
    <3> HIDE DEF m
    <3>3. inbox'[u] = <<m>> /\ \A v \in Units : v # u => inbox'[v] = inbox[v]
      BY <1>2, <3>1
    <3>4. Only(<<m>>, "UUID_COLLISION")
      BY <3>2 DEF Only
    <3>5. Collided(state[u], uuid[u], <<m>>, z)
      BY <1>8, <2>3, <3>4 DEF Collided
    <3>6. ASSUME NEW v \in Units, v # u
          PROVE  Quiet(state[v], inbox'[v], outbox'[v]) /\ (state[v] = "up" => clients[uuid[v]] = v)
      BY <1>4, <2>4, <3>3, <3>6
    <3>7. Collided(state[u], uuid[u], inbox'[u], outbox'[u])
      BY <2>4, <3>3, <3>5
    <3> QED
      BY <1>3, <1>5, <2>2, <3>1, <3>6, <3>7 DEF ShakeInv
  <2>7. CASE Registers(u)
    <3>1. /\ clients[uuid[u]] = None /\ clients' = [clients EXCEPT ![uuid[u]] = u]
          /\ acc' = [pc |-> "accept", who |-> None] /\ inbox' = inbox
      BY <2>7 DEF Registers
    <3>2. ASSUME NEW v \in Units
          PROVE  Quiet(state[v], inbox'[v], outbox'[v]) /\ (state[v] = "up" => clients'[uuid[v]] = v)
      <4>1. CASE v = u
        <5>1. Quiet(state[u], <<>>, z)
          BY <1>6, <1>8, <2>3, <2>5 DEF Quiet
        <5> QED
          BY <1>2, <1>8, <2>4, <3>1, <4>1, <5>1
      <4>2. CASE v # u
        <5>1. Quiet(state[v], inbox[v], outbox[v]) /\ (state[v] = "up" => clients[uuid[v]] = v)
          BY <1>4, <4>2
        <5>2. state[v] = "up" => uuid[v] \in Uuids /\ uuid[v] # uuid[u]
          BY <1>2, <1>5, <3>1, <5>1
        <5> QED
          BY <1>2, <2>4, <3>1, <4>2, <5>1, <5>2
      <4> QED
        BY <4>1, <4>2
    <3>3. ASSUME NEW n \in Uuids, clients'[n] # None
          PROVE  /\ clients'[n] \in Units
                 /\ uuid[clients'[n]] = n /\ state[clients'[n]] \in {"up", "lost"}
      BY <1>2, <1>3, <1>8, <3>1, <3>3
    <3> QED
      BY <1>2, <1>5, <2>2, <3>1, <3>2, <3>3 DEF ShakeInv
  <2> QED
    BY <1>8, <2>6, <2>7
<1> QED
  BY <1>1, <1>7, <1>8

LEMMA CallbackShakes ==
    ASSUME TypeOK, ShakeInv, NEW u \in Units, Callback(u)
    PROVE  ShakeInv'
<1>1. /\ \E n \in Uuids : clients[n] = u
      /\ outbox[u] # <<>> /\ outbox' = [outbox EXCEPT ![u] = Tail(@)]
      /\ UNCHANGED <<state, uuid, acc>>
  BY CallbackEffect DEF Forwards
<1>2. PICK m \in Messages, D \in SUBSET Units : Sends(D, m) /\ m.type \notin Hand
  BY CallbackEffect DEF Addressed
<1>3. /\ inbox \in [Units -> Seq(Messages)] /\ outbox \in [Units -> Seq(Messages)]
      /\ clients \in [Uuids -> Units \cup {None}] /\ outbox[u] \in Seq(Messages)
      /\ None \notin Units /\ \A v \in Units : inbox[v] \in Seq(Messages) /\ outbox[v] \in Seq(Messages)
  BY RoutingAssumption DEF TypeOK
<1>4. \A n \in Uuids : clients[n] # None =>
          /\ clients[n] \in Units /\ clients[n] # acc.who
          /\ uuid[clients[n]] = n /\ state[clients[n]] \in {"up", "lost"}
  BY <1>3 DEF ShakeInv
<1>5. u # acc.who
  BY <1>1, <1>3, <1>4
<1>6. outbox'[u] = Tail(outbox[u]) /\ \A v \in Units : v # u => outbox'[v] = outbox[v]
  BY <1>1, <1>3
<1>7. /\ inbox' \in [Units -> Seq(Messages)]
      /\ \A v \in Units : state[v] = "lost" => inbox'[v] \in {<<>>, inbox[v]}
      /\ \A v \in Units : state[v] # "lost" =>
                 \/ inbox'[v] = inbox[v]
                 \/ /\ \E n \in Uuids : clients[n] = v
                    /\ \A i \in DOMAIN inbox'[v] :
                          \/ i \in DOMAIN inbox[v] /\ inbox'[v][i] = inbox[v][i]
                          \/ inbox'[v][i] = m
  BY <1>2, SendsEffect
<1>8. DOMAIN <<>> = {}
  OBVIOUS
<1>9. ASSUME NEW v \in Units, v # acc.who PROVE Quiet(state[v], inbox'[v], outbox'[v])
  <2>1. Quiet(state[v], inbox[v], outbox[v])
    BY <1>9 DEF ShakeInv
  <2>2. Quiet(state[v], inbox[v], outbox'[v])
    BY <1>1, <1>3, <1>6, <2>1, QuietQueues
  <2>3. CASE state[v] = "lost"
    BY <1>7, <1>8, <2>2, <2>3 DEF Quiet
  <2>4. CASE state[v] # "lost" /\ inbox'[v] # inbox[v]
    <3>1. state[v] \in {"up", "lost"}
      BY <1>3, <1>4, <1>7, <2>4
    <3>2. \A i \in DOMAIN inbox'[v] : inbox'[v][i].type \notin Hand
      BY <1>2, <1>7, <2>1, <2>4 DEF Quiet
    <3> QED
      BY <2>2, <2>4, <3>1, <3>2 DEF Quiet
  <2> QED
    BY <2>2, <2>3, <2>4
<1>10. ASSUME NEW n \in Uuids PROVE clients'[n] = clients[n] \/ (clients'[n] = None /\ clients[n] \in Units /\ state[clients[n]] = "lost")
  BY <1>2, <1>3 DEF Sends, Gone
<1>11. ASSUME NEW v \in Units, v # acc.who, state[v] = "up" PROVE clients'[uuid[v]] = v
  <2>1. clients[uuid[v]] = v /\ uuid[v] \in Uuids
    BY <1>11 DEF ShakeInv
  <2> QED
    BY <1>10, <1>11, <2>1
<1>12. ASSUME NEW v \in Units, v = acc.who
       PROVE  /\ outbox'[v] = outbox[v]
              /\ inbox'[v] = inbox[v] \/ (inbox'[v] = <<>> /\ state[v] = "lost")
  <2>1. \A n \in Uuids : clients[n] # v
    BY <1>3, <1>4, <1>12
  <2> QED
    BY <1>5, <1>6, <1>7, <1>12, <2>1
<1>13. ASSUME acc.pc = "hello" PROVE Greeted(state[acc.who], uuid[acc.who], inbox'[acc.who], outbox'[acc.who])
  <2>1. acc.who \in Units /\ Greeted(state[acc.who], uuid[acc.who], inbox[acc.who], outbox[acc.who])
    BY <1>13 DEF ShakeInv, TypeOK
  <2>2. state[acc.who] = "lost" => inbox[acc.who] = <<>>
    BY <2>1 DEF Greeted
  <2> QED
    BY <1>12, <2>1, <2>2
<1>14. ASSUME acc.pc = "collide" PROVE Collided(state[acc.who], uuid[acc.who], inbox'[acc.who], outbox'[acc.who])
  <2>1. acc.who \in Units /\ Collided(state[acc.who], uuid[acc.who], inbox[acc.who], outbox[acc.who])
    BY <1>14 DEF ShakeInv, TypeOK
  <2>2. Collided(state[acc.who], uuid[acc.who], <<>>, outbox[acc.who])
    BY <2>1 DEF Collided
  <2> QED
    BY <1>12, <2>1, <2>2
<1>15. ASSUME NEW n \in Uuids, clients'[n] # None PROVE clients'[n] = clients[n]
  BY <1>10, <1>15
<1> QED
  BY <1>1, <1>4, <1>9, <1>11, <1>13, <1>14, <1>15 DEF ShakeInv

LEMMA ShakeInit == Init => ShakeInv
<1> SUFFICES ASSUME Init PROVE ShakeInv
  OBVIOUS
<1>1. DOMAIN <<>> = {}
  OBVIOUS
<1>2. Quiet("off", <<>>, <<>>)
  BY <1>1 DEF Quiet
<1> QED
  BY <1>2 DEF Init, ShakeInv

LEMMA ShakeStep == TypeOK /\ ShakeInv /\ [Next]_vars => ShakeInv'
<1> SUFFICES ASSUME TypeOK, ShakeInv, [Next]_vars PROVE ShakeInv'
  OBVIOUS
<1>0. /\ inbox \in [Units -> Seq(Messages)] /\ outbox \in [Units -> Seq(Messages)]
      /\ uuid \in [Units -> Uuids \cup {NoUuid}] /\ None \notin Units
      /\ state \in [Units -> {"off", "started", "up", "lost"}]
      /\ clients \in [Uuids -> Units \cup {None}]
      /\ acc.pc = "accept" <=> acc.who = None
      /\ acc.pc \in {"accept", "hello", "collide"}
      /\ \A v \in Units : inbox[v] \in Seq(Messages) /\ outbox[v] \in Seq(Messages)
  BY RoutingAssumption DEF TypeOK
<1>a. \A n \in Uuids : clients[n] # None =>
          /\ clients[n] \in Units /\ clients[n] # acc.who
          /\ uuid[clients[n]] = n /\ state[clients[n]] \in {"up", "lost"}
  BY <1>0 DEF ShakeInv
<1>1. ASSUME NEW u \in Units, Start(u) PROVE ShakeInv'
  <2>1. PICK n \in Uuids : uuid' = [uuid EXCEPT ![u] = n]
    BY <1>1 DEF Start
  <2>2. /\ state[u] = "off" /\ state' = [state EXCEPT ![u] = "started"]
        /\ UNCHANGED <<inbox, outbox, acc, clients>>
    BY <1>1 DEF Start
  <2>3. u # acc.who
    BY <1>0, <2>2 DEF ShakeInv, Greeted, Collided
  <2>4. Quiet("off", inbox[u], outbox[u])
    BY <2>2, <2>3 DEF ShakeInv
  <2>5. Quiet("started", inbox[u], outbox[u])
    BY <2>4 DEF Quiet
  <2>6. /\ state'[u] = "started" /\ uuid'[u] = n
        /\ \A v \in Units : v # u => state'[v] = state[v] /\ uuid'[v] = uuid[v]
    BY <1>0, <2>1, <2>2
  <2>7. \A m \in Uuids : clients[m] # u
    BY <1>0, <1>a, <2>2
  <2>8. ASSUME NEW m \in Uuids, clients[m] # None
        PROVE  uuid'[clients[m]] = m /\ state'[clients[m]] \in {"up", "lost"} /\ clients[m] # acc.who
    BY <1>a, <2>6, <2>7, <2>8
  <2>9. ASSUME NEW v \in Units, v # acc.who
        PROVE  /\ Quiet(state'[v], inbox[v], outbox[v])
               /\ state'[v] = "up" => clients[uuid'[v]] = v
    BY <2>5, <2>6, <2>9 DEF ShakeInv
  <2>10. ASSUME NEW v \in Units, state'[v] # "off" PROVE uuid'[v] \in Uuids
    BY <2>6, <2>10 DEF ShakeInv
  <2>11. acc.pc # "accept" => acc.who \in Units
    BY DEF TypeOK
  <2>12. acc.pc # "accept" => state'[acc.who] = state[acc.who] /\ uuid'[acc.who] = uuid[acc.who]
    BY <2>3, <2>6, <2>11
  <2> QED
    BY <2>2, <2>8, <2>9, <2>10, <2>12 DEF ShakeInv
<1>2. ASSUME NEW u \in Units, Lose(u) PROVE ShakeInv'
  <2>1. PICK k \in 0 .. Len(outbox[u]) : outbox' = [outbox EXCEPT ![u] = SubSeq(@, 1, k)]
    BY <1>2 DEF Lose
  <2> DEFINE z == SubSeq(outbox[u], 1, k)
  <2>2. /\ state[u] = "up" /\ state' = [state EXCEPT ![u] = "lost"]
        /\ inbox' = [inbox EXCEPT ![u] = <<>>] /\ UNCHANGED <<uuid, acc, clients>>
    BY <1>2 DEF Lose
  <2>3. /\ state'[u] = "lost" /\ inbox'[u] = <<>> /\ outbox'[u] = z
        /\ \A v \in Units : v # u => /\ inbox'[v] = inbox[v] /\ outbox'[v] = outbox[v]
                                     /\ state'[v] = state[v] /\ uuid'[v] = uuid[v]
    BY <1>0, <2>1, <2>2
  <2>4. CASE u = acc.who
    <3>1. acc.pc = "hello" => Greeted("lost", uuid[u], <<>>, z)
      <4>1. acc.pc = "hello" => Greeted("up", uuid[u], inbox[u], outbox[u])
        BY <2>2, <2>4 DEF ShakeInv
      <4> QED
        BY <1>0, <4>1, ShakeLost
    <3>2. acc.pc = "collide" => Collided("lost", uuid[u], <<>>, z)
      <4>1. acc.pc = "collide" => Collided("up", uuid[u], inbox[u], outbox[u])
        BY <2>2, <2>4 DEF ShakeInv
      <4> QED
        BY <1>0, <4>1, ShakeLost
    <3>3. uuid[u] \in Uuids
      BY <2>2 DEF ShakeInv
    <3> HIDE DEF z
    <3> QED
      BY <2>2, <2>3, <2>4, <3>1, <3>2, <3>3, ShakeWho
  <2>5. CASE u # acc.who
    <3>1. Quiet("up", inbox[u], outbox[u])
      BY <2>2, <2>5 DEF ShakeInv
    <3>2. Quiet("lost", <<>>, z)
      BY <1>0, <3>1, QuietQueues
    <3> HIDE DEF z
    <3>3. ASSUME NEW v \in Units, v # acc.who
          PROVE  /\ Quiet(state'[v], inbox'[v], outbox'[v])
                 /\ state'[v] = "up" => clients[uuid[v]] = v
      BY <2>3, <3>2, <3>3 DEF ShakeInv
    <3>4. \A v \in Units : state'[v] # "off" => uuid[v] \in Uuids
      BY <2>2, <2>3 DEF ShakeInv
    <3>5. \A m \in Uuids : clients[m] # None => state'[clients[m]] \in {"up", "lost"}
      BY <1>a, <2>3
    <3>6. acc.pc # "accept" => acc.who \in Units /\ acc.who # u
      BY <2>5 DEF TypeOK
    <3>7. acc.pc # "accept" => /\ state'[acc.who] = state[acc.who] /\ inbox'[acc.who] = inbox[acc.who]
                               /\ outbox'[acc.who] = outbox[acc.who]
      BY <2>3, <3>6
    <3> QED
      BY <1>a, <2>2, <3>3, <3>4, <3>5, <3>7 DEF ShakeInv
  <2> QED
    BY <2>4, <2>5
<1>3. ASSUME NEW u \in Units, Accept(u) PROVE ShakeInv'
  <2> DEFINE m == Message("UPDATE_UNIT_TYPE", NoUuid, NoUuid, NoBody)
  <2>1. /\ acc.pc = "accept" /\ state[u] = "started" /\ acc' = [pc |-> "hello", who |-> u]
        /\ u \notin ClientsOf(Units)
        /\ inbox' = [inbox EXCEPT ![u] = Append(@, m)] /\ UNCHANGED <<state, uuid, outbox, clients>>
    BY <1>3 DEF Accept, Push
  <2>2. m.type = "UPDATE_UNIT_TYPE" /\ m.body = NoBody
    BY DEF Message
  <2> HIDE DEF m
  <2>3. u # acc.who
    BY <1>0, <2>1
  <2>4. inbox[u] = <<>> /\ outbox[u] = <<>>
    BY <2>1, <2>3 DEF ShakeInv, Quiet
  <2>5. inbox'[u] = Append(<<>>, m) /\ \A v \in Units : v # u => inbox'[v] = inbox[v]
    BY <1>0, <2>1, <2>4
  <2>6. inbox'[u] = <<m>>
    BY <2>5
  <2>7. Only(<<m>>, "UPDATE_UNIT_TYPE")
    BY <2>2 DEF Only
  <2>8. Greeted(state[u], uuid[u], inbox'[u], outbox[u])
    BY <2>1, <2>4, <2>6, <2>7 DEF Greeted
  <2>9. \A n \in Uuids : clients[n] # u
    BY <2>1, ClientFacts
  <2>10. ASSUME NEW v \in Units, v # u
         PROVE  Quiet(state[v], inbox'[v], outbox[v]) /\ (state[v] = "up" => clients[uuid[v]] = v)
    <3>1. v # acc.who
      BY <1>0, <2>1
    <3> QED
      BY <2>5, <2>10, <3>1 DEF ShakeInv
  <2>11. \A v \in Units : state[v] # "off" => uuid[v] \in Uuids
    BY DEF ShakeInv
  <2> QED
    BY <1>a, <2>1, <2>8, <2>9, <2>10, <2>11 DEF ShakeInv
<1>4. ASSUME NEW u \in Units, Unit(u) PROVE ShakeInv'
  BY <1>4, UnitShakes
<1>5. ASSUME NEW u \in Units, Callback(u) PROVE ShakeInv'
  BY <1>5, CallbackShakes
<1>6. CASE Answer
  BY <1>6, AnswerShakes
<1>7. ASSUME NEW u \in Units, NEW type \in Requests, NEW t \in Uuids \cup {NoUuid}, Ask(u, type, t)
      PROVE  ShakeInv'
  <2> DEFINE m == Message(type, uuid[u], t, <<u, 0>>)
  <2>1. /\ outbox' = [outbox EXCEPT ![u] = Append(@, m)] /\ state[u] = "up"
        /\ u \in ClientsOf(Units)
        /\ UNCHANGED <<state, uuid, inbox, acc, clients>>
    BY <1>7 DEF Ask, notifyHost
  <2>2. m \in Messages
    BY <1>0, MadeMessages
  <2>3. m.type \notin Hand
    BY RoutingAssumption DEF Message, Hand, Forwarded
  <2> HIDE DEF m
  <2>4. u # acc.who
    BY <1>0, <1>a, <2>1, ClientFacts
  <2>5. Quiet(state[u], inbox[u], outbox[u])
    BY <2>4 DEF ShakeInv
  <2>6. Quiet(state[u], inbox[u], Append(outbox[u], m))
    BY <1>0, <2>1, <2>2, <2>3, <2>5, QuietQueues
  <2>7. outbox'[u] = Append(outbox[u], m) /\ \A v \in Units : v # u => outbox'[v] = outbox[v]
    BY <1>0, <2>1
  <2> QED
    BY <2>1, <2>4, <2>6, <2>7, ShakeElsewhere
<1>8. CASE UNCHANGED vars
  BY <1>8 DEF vars, ShakeInv
<1> QED
  BY <1>1, <1>2, <1>3, <1>4, <1>5, <1>6, <1>7, <1>8 DEF Next

-----------------------------------------------------------------------------
(* The messages of a step. *)

\* A uuid changes only where no message depends on it.
LEMMA UuidStep ==
    ASSUME TypeOK, ShakeInv, Next, NEW v \in Units, uuid'[v] # uuid[v]
    PROVE  /\ v \in Units /\ inbox'[v] = <<>>
           /\ \A i \in DOMAIN outbox[v] : outbox[v][i].type = "WORK"
           /\ \A n \in Uuids : clients[n] # v
<1>0. /\ inbox \in [Units -> Seq(Messages)] /\ uuid \in [Units -> Uuids \cup {NoUuid}]
      /\ None \notin Units /\ DOMAIN <<>> = {}
  BY RoutingAssumption DEF TypeOK
<1>a. \A n \in Uuids : clients[n] # None =>
          clients[n] # acc.who /\ state[clients[n]] \in {"up", "lost"}
  BY DEF ShakeInv
<1>1. ASSUME NEW u \in Units, Start(u) PROVE v = u /\ state[u] = "off" /\ inbox' = inbox
  BY <1>0, <1>1 DEF Start
<1>2. ASSUME NEW u \in Units, Start(u)
      PROVE  /\ inbox'[v] = <<>> /\ \A i \in DOMAIN outbox[v] : outbox[v][i].type = "WORK"
             /\ \A n \in Uuids : clients[n] # v
  <2>1. u # acc.who
    <3>1. acc.pc = "accept" <=> acc.who = None
      BY DEF TypeOK
    <3>2. acc.pc \in {"accept", "hello", "collide"}
      BY DEF TypeOK
    <3> QED
      BY <1>0, <1>1, <1>2, <3>1, <3>2 DEF ShakeInv, Greeted, Collided
  <2>2. inbox[u] = <<>> /\ outbox[u] = <<>>
    BY <1>1, <1>2, <2>1 DEF ShakeInv, Quiet
  <2> QED
    BY <1>0, <1>a, <1>1, <1>2, <2>2
<1>3. ASSUME NEW u \in Units, update_uuid_on_collision(u)
      PROVE  /\ inbox'[v] = <<>> /\ \A i \in DOMAIN outbox[v] : outbox[v][i].type = "WORK"
             /\ \A n \in Uuids : clients[n] # v
  <2>1. /\ v = u /\ Receives(u, "UUID_COLLISION")
    BY <1>0, <1>3 DEF update_uuid_on_collision
  <2>2. /\ state[u] \in {"started", "up"} /\ inbox[u] # <<>>
        /\ Head(inbox[u]).type = "UUID_COLLISION" /\ inbox'[u] = Tail(inbox[u])
        /\ "UUID_COLLISION" \in Hand /\ "UUID_COLLISION" # "UPDATE_UNIT_TYPE"
    BY <1>0, <2>1 DEF Receives, Hand
  <2>3. /\ u = acc.who /\ Tail(inbox[u]) = <<>>
        /\ \A i \in DOMAIN outbox[u] : outbox[u][i].type = "WORK"
    BY <2>2, HeadFacts
  <2> QED
    BY <1>0, <1>a, <2>1, <2>2, <2>3
<1>4. \A u \in Units : Callback(u) => uuid' = uuid
  BY CallbackEffect DEF Forwards
<1>5. \/ \E u \in Units : Start(u) \/ update_uuid_on_collision(u) \/ Callback(u)
      \/ uuid' = uuid
  BY DEF Next, Lose, Accept, Unit, updateUnitInfo_cb, Unhandled, work_cb, finished_cb,
         Build, SendWork, Answer, Drop, Ask
<1> QED
  BY <1>2, <1>3, <1>4, <1>5

\* What a unit sends in a step.
LEMMA OutboxStep ==
    ASSUME TypeOK, ShakeInv, Next, NEW v \in Units, NEW i \in DOMAIN outbox'[v]
    PROVE  \/ \E j \in DOMAIN outbox[v] : outbox'[v][i] = outbox[v][j]
           \/ outbox'[v][i].type \in Hand /\ outbox'[v][i].body = NoBody
           \/ v \in Optimizers /\ SendWork(v) /\ outbox'[v][i] = built[v]
           \/ /\ v \in Computes /\ work_cb(v)
              /\ outbox'[v][i] = Message("TASK_FINISHED", uuid[v], Head(inbox[v]).src,
                                         Head(inbox[v]).body)
           \/ /\ outbox'[v][i].type \in Requests /\ outbox'[v][i].src = uuid[v]
              /\ outbox'[v][i].body = <<v, 0>> /\ uuid' = uuid
<1> DEFINE Old == \E j \in DOMAIN outbox[v] : outbox'[v][i] = outbox[v][j]
<1>0. /\ outbox \in [Units -> Seq(Messages)] /\ uuid \in [Units -> Uuids \cup {NoUuid}]
      /\ \A u \in Units : outbox[u] \in Seq(Messages) /\ uuid[u] \in Uuids \cup {NoUuid}
      /\ outbox[v] \in Seq(Messages) /\ DOMAIN <<>> = {}
  BY DEF TypeOK
<1>1. CASE outbox'[v] = outbox[v]
  BY <1>1
<1>2. ASSUME NEW u \in Units, NEW m \in Messages, notifyHost(u, m)
      PROVE  Old \/ (u = v /\ outbox'[v][i] = m)
  <2>1. CASE u = v
    <3>1. outbox'[v] = Append(outbox[v], m)
      BY <1>0, <1>2, <2>1 DEF notifyHost
    <3> QED
      BY <1>0, <2>1, <3>1, Pushed
  <2>2. CASE u # v
    BY <1>0, <1>2, <2>2 DEF notifyHost
  <2> QED
    BY <2>1, <2>2
<1>3. ASSUME NEW u \in Units, NEW k \in 0 .. Len(outbox[u]),
             \/ outbox' = [outbox EXCEPT ![u] = SubSeq(@, 1, k)]
             \/ outbox' = [outbox EXCEPT ![u] = SubSeq(@, k + 1, Len(@))]
      PROVE  Old
  <2>1. CASE u = v
    <3>1. outbox'[v] \in {SubSeq(outbox[v], 1, k), SubSeq(outbox[v], k + 1, Len(outbox[v]))}
      BY <1>0, <1>3, <2>1
    <3>2. k \in 0 .. Len(outbox[v])
      BY <2>1
    <3>3. CASE outbox'[v] = SubSeq(outbox[v], 1, k)
      <4>1. i \in 1 .. k
        BY <1>0, <3>2, <3>3, Cut
      <4> QED
        BY <1>0, <3>2, <3>3, <4>1, Cut
    <3>4. CASE outbox'[v] = SubSeq(outbox[v], k + 1, Len(outbox[v]))
      <4>1. i \in 1 .. Len(outbox[v]) - k
        BY <1>0, <3>2, <3>4, Cut
      <4> QED
        BY <1>0, <3>2, <3>4, <4>1, Cut
    <3> QED
      BY <3>1, <3>3, <3>4
  <2>2. CASE u # v
    BY <1>0, <1>3, <2>2
  <2> QED
    BY <2>1, <2>2
<1>4. ASSUME NEW u \in Units, Unit(u), ~ Old
      PROVE  \/ outbox'[v][i].type \in Hand /\ outbox'[v][i].body = NoBody
             \/ v \in Optimizers /\ SendWork(v) /\ outbox'[v][i] = built[v]
             \/ /\ v \in Computes /\ work_cb(v)
                /\ outbox'[v][i] = Message("TASK_FINISHED", uuid[v], Head(inbox[v]).src,
                                           Head(inbox[v]).body)
  <2>1. CASE updateUnitInfo_cb(u)
    <3> DEFINE m == Message("UPDATE_UNIT_TYPE", uuid[u], NoUuid, NoBody)
    <3>1. notifyHost(u, m) /\ m \in Messages /\ m.type \in Hand /\ m.body = NoBody
      BY <1>0, <2>1, MadeMessages DEF updateUnitInfo_cb, Hand, Message
    <3> HIDE DEF m
    <3> QED
      BY <1>2, <1>4, <3>1
  <2>2. CASE update_uuid_on_collision(u)
    <3>1. PICK n \in Uuids : notifyHost(u, Message("UUID_COLLISION", n, NoUuid, NoBody))
      BY <2>2 DEF update_uuid_on_collision
    <3> DEFINE m == Message("UUID_COLLISION", n, NoUuid, NoBody)
    <3>2. notifyHost(u, m) /\ m \in Messages /\ m.type \in Hand /\ m.body = NoBody
      BY <3>1, MadeMessages DEF Hand, Message
    <3> HIDE DEF m
    <3> QED
      BY <1>2, <1>4, <3>2
  <2>3. CASE u \in Computes /\ work_cb(u)
    <3> DEFINE h == Head(inbox[u])
               m == Message("TASK_FINISHED", uuid[u], h.src, h.body)
    <3>1. notifyHost(u, m) /\ Receives(u, "WORK")
      BY <2>3 DEF work_cb
    <3>2. h \in Messages /\ h.type = "WORK"
      BY <3>1, Popped DEF Receives, TypeOK
    <3>3. m \in Messages
      BY <1>0, <3>2, MessageFacts, MadeMessages
    <3>4. u = v /\ outbox'[v][i] = m
      BY <1>2, <1>4, <3>1, <3>3
    <3> QED
      BY <2>3, <3>4
  <2>4. CASE u \in Optimizers /\ SendWork(u)
    <3>1. notifyHost(u, built[u]) /\ built[u] \in Messages
      BY <2>4 DEF SendWork, TypeOK
    <3> QED
      BY <1>2, <1>4, <2>4, <3>1
  <2>5. CASE outbox' = outbox
    BY <1>4, <2>5
  <2> QED
    BY <1>4, <2>1, <2>2, <2>3, <2>4, <2>5 DEF Unit, Unhandled, finished_cb, Build
<1>5. ASSUME NEW u \in Units, Callback(u) PROVE Old
  <2>1. outbox[u] # <<>> /\ outbox' = [outbox EXCEPT ![u] = Tail(@)]
    BY <1>5, CallbackEffect
  <2>2. CASE u = v
    <3>1. outbox'[v] = Tail(outbox[v]) /\ outbox[v] # <<>>
      BY <1>0, <2>1, <2>2
    <3> QED
      BY <1>0, <3>1, Popped
  <2>3. CASE u # v
    BY <1>0, <2>1, <2>3
  <2> QED
    BY <2>2, <2>3
<1>6. ASSUME Answer PROVE Old
  <2>1. PICK u \in Units : (\E why : Drop(u, why)) \/ \E k \in 1 .. Len(outbox[u]) : Taken(u, k)
    BY <1>6, AnswerFacts
  <2>2. CASE \E why : Drop(u, why)
    <3>1. outbox' = [outbox EXCEPT ![u] = <<>>]
      BY <2>2 DEF Drop
    <3> QED
      BY <1>0, <3>1
  <2>3. ASSUME NEW k \in 1 .. Len(outbox[u]), Taken(u, k) PROVE Old
    <3>1. outbox' = [outbox EXCEPT ![u] = SubSeq(@, k + 1, Len(@))]
      BY <2>3 DEF Taken
    <3>2. k \in 0 .. Len(outbox[u])
      BY <1>0
    <3> QED
      BY <1>3, <3>1, <3>2
  <2> QED
    BY <2>1, <2>2, <2>3
<1>7. ASSUME NEW u \in Units, NEW type \in Requests, NEW t \in Uuids \cup {NoUuid}, Ask(u, type, t)
      PROVE  \/ Old
             \/ /\ outbox'[v][i].type \in Requests /\ outbox'[v][i].src = uuid[v]
                /\ outbox'[v][i].body = <<v, 0>> /\ uuid' = uuid
  <2> DEFINE m == Message(type, uuid[u], t, <<u, 0>>)
  <2>1. notifyHost(u, m) /\ uuid' = uuid
    BY <1>7 DEF Ask
  <2>2. m \in Messages /\ m.type = type /\ m.src = uuid[u] /\ m.body = <<u, 0>>
    BY <1>0, MadeMessages DEF Message
  <2> HIDE DEF m
  <2> QED
    BY <1>2, <2>1, <2>2
<1>8. ASSUME NEW u \in Units, Lose(u) PROVE Old
  <2>1. PICK k \in 0 .. Len(outbox[u]) : outbox' = [outbox EXCEPT ![u] = SubSeq(@, 1, k)]
    BY <1>8 DEF Lose
  <2> QED
    BY <1>3, <2>1
<1>9. ASSUME NEW u \in Units, Start(u) \/ Accept(u) PROVE Old
  BY <1>9 DEF Start, Accept
<1> QED
  BY <1>4, <1>5, <1>6, <1>7, <1>8, <1>9 DEF Next

\* What a unit is sent in a step.
LEMMA InboxStep ==
    ASSUME TypeOK, ShakeInv, Next, NEW v \in Units \ Monitors, NEW i \in DOMAIN inbox'[v]
    PROVE  \/ \E j \in DOMAIN inbox[v] : inbox'[v][i] = inbox[v][j]
           \/ inbox'[v][i].type \in Hand
           \/ \E u \in Units, m \in Messages, D \in SUBSET Units :
                 /\ Callback(u) /\ Sends(D, m) /\ Addressed(Head(outbox[u]), m, D)
                 /\ v \in D /\ state[v] # "lost" /\ inbox'[v][i] = m
<1> DEFINE Old == \E j \in DOMAIN inbox[v] : inbox'[v][i] = inbox[v][j]
<1>0. /\ inbox \in [Units -> Seq(Messages)] /\ inbox[v] \in Seq(Messages) /\ DOMAIN <<>> = {}
      /\ \A u \in Units : inbox[u] \in Seq(Messages)
  BY DEF TypeOK
<1>1. ASSUME NEW u \in Units, NEW type, Receives(u, type) PROVE Old
  <2>1. inbox[u] # <<>> /\ inbox' = [inbox EXCEPT ![u] = Tail(@)]
    BY <1>1 DEF Receives
  <2>2. CASE u = v
    <3>1. inbox'[v] = Tail(inbox[v]) /\ inbox[v] # <<>>
      BY <1>0, <2>1, <2>2
    <3> QED
      BY <1>0, <3>1, Popped
  <2>3. CASE u # v
    BY <1>0, <2>1, <2>3
  <2> QED
    BY <2>2, <2>3
<1>2. ASSUME NEW u \in Units, Unit(u) PROVE Old
  <2>1. CASE inbox' = inbox
    BY <2>1
  <2>2. (\E type : Receives(u, type)) \/ inbox' = inbox
    BY <1>2 DEF Unit, updateUnitInfo_cb, update_uuid_on_collision, Unhandled, work_cb,
                finished_cb, Build, SendWork
  <2> QED
    BY <1>1, <2>1, <2>2
<1>3. ASSUME NEW u \in Units, Start(u) \/ Lose(u) PROVE Old
  BY <1>0, <1>3 DEF Start, Lose
<1>4. ASSUME NEW u \in Units, Accept(u) PROVE Old \/ inbox'[v][i].type \in Hand
  <2> DEFINE m == Message("UPDATE_UNIT_TYPE", NoUuid, NoUuid, NoBody)
  <2>1. inbox' = [inbox EXCEPT ![u] = Append(@, m)]
    BY <1>4 DEF Accept, Push
  <2>2. m \in Messages /\ m.type \in Hand
    BY MadeMessages DEF Hand, Message
  <2> HIDE DEF m
  <2>3. CASE u = v
    <3>1. inbox'[v] = Append(inbox[v], m)
      BY <1>0, <2>1, <2>3
    <3> QED
      BY <1>0, <2>2, <3>1, Pushed
  <2>4. CASE u # v
    BY <1>0, <2>1, <2>4
  <2> QED
    BY <2>3, <2>4
<1>5. ASSUME NEW u \in Units, Callback(u)
      PROVE  \/ Old
             \/ \E m \in Messages, D \in SUBSET Units :
                 /\ Sends(D, m) /\ Addressed(Head(outbox[u]), m, D)
                 /\ v \in D /\ state[v] # "lost" /\ inbox'[v][i] = m
  <2>1. PICK m \in Messages, D \in SUBSET Units :
           Sends(D, m) /\ Addressed(Head(outbox[u]), m, D)
    BY <1>5, CallbackEffect
  <2>2. \/ inbox'[v] = <<>> \/ inbox'[v] = inbox[v]
        \/ state[v] # "lost" /\ v \in D /\ inbox'[v] = Append(inbox[v], m)
    BY <2>1, SendsEffect
  <2>3. CASE state[v] # "lost" /\ v \in D /\ inbox'[v] = Append(inbox[v], m)
    <3>1. Old \/ inbox'[v][i] = m
      BY <1>0, <2>3, Pushed
    <3> QED
      BY <2>1, <2>3, <3>1
  <2> QED
    BY <1>0, <2>2, <2>3
<1>6. ASSUME Answer PROVE Old \/ inbox'[v][i].type \in Hand
  <2>1. PICK u \in Units : (\E why : Drop(u, why)) \/ Collides(u) \/ Registers(u)
    BY <1>6, AnswerFacts
  <2>2. CASE \E why : Drop(u, why)
    <3>1. inbox' = [inbox EXCEPT ![u] = <<>>]
      BY <2>2 DEF Drop
    <3> QED
      BY <1>0, <3>1
  <2>3. CASE Collides(u)
    <3> DEFINE m == Message("UUID_COLLISION", NoUuid, NoUuid, NoBody)
    <3>1. inbox' = [inbox EXCEPT ![u] = <<m>>]
      BY <2>3 DEF Collides
    <3>2. m.type \in Hand
      BY DEF Hand, Message
    <3> HIDE DEF m
    <3>3. inbox'[v] = inbox[v] \/ inbox'[v] = <<m>>
      BY <1>0, <3>1
    <3>4. inbox'[v] = <<m>> => inbox'[v][i] = m
      OBVIOUS
    <3> QED
      BY <3>2, <3>3, <3>4
  <2>4. CASE Registers(u)
    BY <2>4 DEF Registers
  <2> QED
    BY <2>1, <2>2, <2>3, <2>4
<1>7. ASSUME NEW u \in Units, NEW type, NEW t, Ask(u, type, t) PROVE Old
  BY <1>7 DEF Ask
<1> QED
  BY <1>2, <1>3, <1>4, <1>5, <1>6, <1>7 DEF Next

-----------------------------------------------------------------------------
(* Messages reach the unit they are meant for. *)

\* The types of messages do not overlap.
LEMMA TypesApart ==
    /\ Requests \cap (Hand \cup {"WORK", "TASK_FINISHED", "UUID_FOR_UNIT_RESPONSE"}) = {}
    /\ Forwarded \cap (Hand \cup {"WORK", "TASK_FINISHED", "UUID_FOR_UNIT_RESPONSE", "REROUTE_WORK",
                                  "MONITOR_REQUEST", "UUID_FOR_UNIT_REQUEST"}) = {}
    /\ "WORK" \notin Hand /\ "TASK_FINISHED" \notin Hand
    /\ "REROUTE_WORK" \notin Hand /\ "UUID_FOR_UNIT_RESPONSE" \notin Hand
    /\ "MONITOR_REQUEST" \notin Hand /\ "UUID_FOR_UNIT_REQUEST" \notin Hand
BY RoutingAssumption DEF Hand, Forwarded

LEMMA AskStep ==
    ASSUME TypeOK, ShakeInv, AskInv, Next
    PROVE  AskInv'
<1> SUFFICES ASSUME NEW v \in Units, NEW i \in DOMAIN outbox'[v]
             PROVE  Asked(v, uuid'[v], outbox'[v][i])
  BY DEF AskInv
<1>1. ASSUME NEW j \in DOMAIN outbox[v], outbox'[v][i] = outbox[v][j]
      PROVE  Asked(v, uuid'[v], outbox'[v][i])
  <2>1. Asked(v, uuid[v], outbox[v][j])
    BY DEF AskInv
  <2>2. uuid'[v] = uuid[v] \/ outbox[v][j].type = "WORK"
    BY UuidStep
  <2> QED
    BY <1>1, <2>1, <2>2, TypesApart DEF Asked
<1>2. ASSUME outbox'[v][i].type \in Hand, outbox'[v][i].body = NoBody
      PROVE  Asked(v, uuid'[v], outbox'[v][i])
  BY <1>2, TypesApart DEF Asked
<1>3. ASSUME v \in Optimizers, SendWork(v), outbox'[v][i] = built[v]
      PROVE  Asked(v, uuid'[v], outbox'[v][i])
  <2>1. outbox'[v][i].type = "WORK"
    BY <1>3 DEF SendWork, TypeOK
  <2> QED
    BY <2>1, TypesApart DEF Asked
<1>4. ASSUME outbox'[v][i] = Message("TASK_FINISHED", uuid[v], Head(inbox[v]).src, Head(inbox[v]).body)
      PROVE  Asked(v, uuid'[v], outbox'[v][i])
  <2>1. outbox'[v][i].type = "TASK_FINISHED"
    BY <1>4 DEF Message
  <2> QED
    BY <2>1, TypesApart DEF Asked
<1>5. ASSUME outbox'[v][i].type \in Requests, outbox'[v][i].src = uuid[v],
             outbox'[v][i].body = <<v, 0>>, uuid' = uuid
      PROVE  Asked(v, uuid'[v], outbox'[v][i])
  BY <1>5, TypesApart DEF Asked
<1> QED
  BY <1>1, <1>2, <1>3, <1>4, <1>5, OutboxStep

\* A message is sent to the right clients.
LEMMA SentRight ==
    ASSUME TypeOK, ShakeInv, AskInv, NEW u \in Units, Callback(u),
           NEW m \in Messages, NEW D \in SUBSET Units, NEW v \in D,
           Addressed(Head(outbox[u]), m, D)
    PROVE  Right(v, uuid[v], m)
<1> DEFINE h == Head(outbox[u])
<1>0. /\ clients \in [Uuids -> Units \cup {None}] /\ None \notin Units
      /\ outbox[u] \in Seq(Messages) /\ outbox[u] # <<>> /\ NoUuid \notin Uuids
  BY CallbackEffect, RoutingAssumption DEF TypeOK
<1>1. h \in Messages /\ Asked(u, uuid[u], h)
  BY <1>0, Popped DEF AskInv
<1>2. \A n \in Uuids : clients[n] \in Units => uuid[clients[n]] = n
  BY <1>0 DEF ShakeInv
<1>3. \E n \in Uuids : clients[n] = u /\ n = uuid[u]
  BY <1>2, CallbackEffect
<1>4. Addressed(h, m, D) /\ v \in Units
  OBVIOUS
<1> HIDE DEF h
<1>5. CASE h.type = "WORK" /\ m = h
  BY <1>5, TypesApart DEF Right
<1>6. CASE /\ h.type \in Forwarded \cup {"WORK", "TASK_FINISHED"} /\ m = h
           /\ h.tgt \in Uuids /\ D = {clients[h.tgt]}
  <2>1. uuid[v] = m.tgt
    BY <1>2, <1>4, <1>6
  <2> QED
    BY <1>6, <2>1, TypesApart DEF Right
<1>7. CASE /\ h.type = "REROUTE_WORK" /\ m = Message("REROUTE_WORK", h.tgt, NoUuid, h.body)
           /\ getClientByUuid(h.src) \notin D
  <2>1. h.type \in Requests
    BY <1>1, <1>7, TypesApart DEF Asked
  <2>2. h.src = uuid[u] /\ h.body = <<u, 0>>
    BY <1>1, <2>1 DEF Asked
  <2>3. getClientByUuid(h.src) = u
    BY <1>3, <2>2 DEF getClientByUuid
  <2>4. m.type = "REROUTE_WORK" /\ m.body = <<u, 0>> /\ v # u
    BY <1>7, <2>2, <2>3 DEF Message
  <2> QED
    BY <2>4, TypesApart DEF Right
<1>8. CASE /\ h.type \in {"MONITOR_REQUEST", "UUID_FOR_UNIT_REQUEST"}
           /\ m.type \in {"TEXT", "UUID_FOR_UNIT_RESPONSE"}
           /\ m.src = h.src /\ m.body = h.body
           /\ h.src \in Uuids /\ D = {clients[h.src]}
  <2>1. h.type \in Requests
    BY <1>1, <1>8, TypesApart DEF Asked
  <2>2. h.src = uuid[u] /\ h.body = <<u, 0>>
    BY <1>1, <2>1 DEF Asked
  <2>3. v = u
    BY <1>3, <1>8, <2>2
  <2> QED
    BY <1>8, <2>2, <2>3 DEF Right
<1> QED
  BY <1>4, <1>5, <1>6, <1>7, <1>8 DEF Addressed

LEMMA RightStep ==
    ASSUME TypeOK, ShakeInv, AskInv, RoutedRight, Next
    PROVE  RoutedRight'
<1> SUFFICES ASSUME NEW v \in Units \ Monitors, NEW i \in DOMAIN inbox'[v]
             PROVE  Right(v, uuid'[v], inbox'[v][i])
  BY DEF RoutedRight, Right
<1>1. uuid'[v] = uuid[v]
  <2>1. inbox'[v] # <<>>
    OBVIOUS
  <2> QED
    BY <2>1, UuidStep
<1>2. ASSUME NEW j \in DOMAIN inbox[v], inbox'[v][i] = inbox[v][j]
      PROVE  Right(v, uuid'[v], inbox'[v][i])
  BY <1>1, <1>2 DEF RoutedRight, Right
<1>3. ASSUME inbox'[v][i].type \in Hand
      PROVE  Right(v, uuid'[v], inbox'[v][i])
  BY <1>3, TypesApart DEF Right
<1>4. ASSUME NEW u \in Units, NEW m \in Messages, NEW D \in SUBSET Units,
             Callback(u), Addressed(Head(outbox[u]), m, D), v \in D, inbox'[v][i] = m
      PROVE  Right(v, uuid'[v], inbox'[v][i])
  BY <1>1, <1>4, SentRight
<1> QED
  BY <1>2, <1>3, <1>4, InboxStep

RightInv == TypeOK /\ ShakeInv /\ AskInv /\ RoutedRight

LEMMA RightHolds == Spec => []RightInv
<1>1. Init => RightInv
  <2> SUFFICES ASSUME Init PROVE RightInv
    OBVIOUS
  <2>1. DOMAIN <<>> = {}
    OBVIOUS
  <2>2. AskInv /\ RoutedRight
    BY <2>1 DEF Init, AskInv, RoutedRight
  <2> QED
    BY <2>2, RoutingTypeInit, ShakeInit DEF RightInv
<1>2. RightInv /\ [Next]_vars => RightInv'
  <2> SUFFICES ASSUME RightInv, [Next]_vars PROVE RightInv'
    OBVIOUS
  <2>1. TypeOK' /\ ShakeInv'
    BY RoutingTypeStep, ShakeStep DEF RightInv
  <2>2. CASE Next
    BY <2>1, <2>2, AskStep, RightStep DEF RightInv
  <2>3. CASE UNCHANGED vars
    BY <2>1, <2>3 DEF RightInv, vars, AskInv, RoutedRight
  <2> QED
    BY <2>2, <2>3
<1> QED
  BY <1>1, <1>2, PTL DEF Spec

\* For any units, losses, collisions and requests: a forwarded message is in
\* the inbox of the unit that has the uuid it is addressed to (or, for the answer
\* to a request, comes from), rerouted work never reaches the unit that gave it
\* back, and the answer to a question about units reaches the unit that asked.
THEOREM RoutedRightHolds == Spec => []RoutedRight
BY RightHolds, PTL DEF RightInv

-----------------------------------------------------------------------------
(* Answers come home. *)

\* What was noted stays noted, and a client that is not lost stays a client.
LEMMA ClientsStep ==
    ASSUME TypeOK, ShakeInv, Next
    PROVE  /\ dropped \subseteq dropped'
           /\ \A n \in Uuids : \/ clients'[n] = clients[n]
                               \/ clients'[n] = None /\ clients[n] # None /\ state[clients[n]] = "lost"
                               \/ /\ clients[n] = None /\ clients'[n] = acc.who
                                  /\ acc' = [pc |-> "accept", who |-> None] /\ state' = state
<1>0. clients \in [Uuids -> Units \cup {None}]
  BY DEF TypeOK
<1>1. ASSUME NEW u \in Units, Start(u) \/ Lose(u) \/ Accept(u) \/ Unit(u)
      PROVE  dropped \subseteq dropped' /\ clients' = clients
  BY <1>1 DEF Start, Lose, Accept, Unit, updateUnitInfo_cb, update_uuid_on_collision,
              Unhandled, work_cb, finished_cb, Build, SendWork, work
<1>2. ASSUME NEW u, NEW type, NEW t, Ask(u, type, t)
      PROVE  dropped \subseteq dropped' /\ clients' = clients
  BY <1>2 DEF Ask
<1>3. ASSUME NEW u \in Units, Callback(u)
      PROVE  /\ dropped \subseteq dropped'
             /\ \A n \in Uuids : \/ clients'[n] = clients[n]
                                 \/ clients'[n] = None /\ clients[n] # None /\ state[clients[n]] = "lost"
  BY <1>3, CallbackEffect DEF Sends, Gone
<1>4. CASE Answer
  <2>1. PICK u \in Units :
              /\ u = acc.who
              /\ \/ \E why \in {"lost", "protocol"} : Drop(u, why)
                 \/ /\ \E k \in 1 .. Len(outbox[u]) : Taken(u, k)
                    /\ Collides(u) \/ Registers(u)
                    /\ uuid[u] \in Uuids
    BY <1>4, AnswerFacts
  <2>2. CASE \E why \in {"lost", "protocol"} : Drop(u, why)
    BY <2>2 DEF Drop
  <2>3. CASE (\E k \in 1 .. Len(outbox[u]) : Taken(u, k)) /\ Collides(u)
    BY <2>3 DEF Taken, Collides
  <2>4. CASE (\E k \in 1 .. Len(outbox[u]) : Taken(u, k)) /\ Registers(u) /\ uuid[u] \in Uuids
    BY <1>0, <2>1, <2>4 DEF Taken, Registers
  <2> QED
    BY <2>1, <2>2, <2>3, <2>4
<1> QED
  BY <1>1, <1>2, <1>3, <1>4 DEF Next

\* Every step leaves the table alone, adds the unit of the handshake to it, or
\* removes clients from it.
LEMMA RegistrationStep ==
    ASSUME TypeOK, ShakeInv, Next
    PROVE  Registration!Next \/ clients' = clients
<1>0. clients \in [Uuids -> Units \cup {None}]
  BY DEF TypeOK
<1>1. ASSUME NEW u \in Units, Start(u) \/ Lose(u) \/ Accept(u) \/ Unit(u)
      PROVE  clients' = clients
  BY <1>1 DEF Start, Lose, Accept, Unit, updateUnitInfo_cb, update_uuid_on_collision,
              Unhandled, work_cb, finished_cb, Build, SendWork, work
<1>2. ASSUME NEW u, NEW type, NEW t, Ask(u, type, t) PROVE clients' = clients
  BY <1>2 DEF Ask
<1>3. ASSUME NEW u \in Units, Callback(u) PROVE Registration!Next
  <2> DEFINE N == {n \in Uuids : clients'[n] = None}
  <2>1. /\ clients' \in [Uuids -> Units \cup {None}]
        /\ \A n \in Uuids : clients'[n] = clients[n] \/ clients'[n] = None
    BY <1>3, CallbackEffect DEF Sends
  <2>2. clients' = [n \in Uuids |-> IF n \in N THEN None ELSE clients[n]]
    BY <2>1
  <2> QED
    BY <2>2 DEF Registration!Next, Registration!Remove
<1>4. CASE Answer
  <2>1. PICK u \in Units :
              /\ u = acc.who
              /\ \/ \E why \in {"lost", "protocol"} : Drop(u, why)
                 \/ Collides(u)
                 \/ Registers(u) /\ uuid[u] \in Uuids
    BY <1>4, AnswerFacts
  <2>2. CASE (\E why \in {"lost", "protocol"} : Drop(u, why)) \/ Collides(u)
    BY <2>2 DEF Drop, Collides
  <2>3. CASE Registers(u) /\ uuid[u] \in Uuids
    <3>1. clients[uuid[u]] = None /\ clients' = [clients EXCEPT ![uuid[u]] = u]
      BY <2>3 DEF Registers
    <3>2. \A m \in Uuids : clients[m] # u
      BY <2>1, RoutingAssumption DEF ShakeInv
    <3> QED
      BY <2>3, <3>1, <3>2 DEF Registration!Next, Registration!Add
  <2> QED
    BY <2>1, <2>2, <2>3
<1> QED
  BY <1>1, <1>2, <1>3, <1>4 DEF Next

\* The table of clients this module works with is the one TCPServer implements:
\* whatever units come, collide and are lost, no uuid passes from one unit to
\* another without having been free, and no unit has two.
THEOREM RoutingImplementsRegistry == Spec => Registration!Spec
<1>1. Init => Registration!Init
  BY DEF Init, Registration!Init
<1>2. RightInv /\ [Next]_vars => [Registration!Next]_clients
  BY RegistrationStep DEF RightInv, vars
<1> QED
  BY <1>1, <1>2, RightHolds, PTL DEF Spec, Registration!Spec

LEMMA OptimizersStayStep ==
    ASSUME TypeOK, ShakeInv, OptimizersStay, MayLose \cap Optimizers = {}, Next
    PROVE  OptimizersStay'
<1>0. /\ clients \in [Uuids -> Units \cup {None}] /\ None \notin Units
      /\ state \in [Units -> {"off", "started", "up", "lost"}] /\ Optimizers \subseteq Units
      /\ \A n \in Uuids : clients[n] # None => clients[n] # acc.who
  BY RoutingAssumption DEF TypeOK, Units, ShakeInv
<1> SUFFICES ASSUME NEW o \in Optimizers, state'[o] = "lost"
             PROVE  o # acc'.who /\ \A n \in Uuids : clients'[n] # o
  BY DEF OptimizersStay
<1>1. ASSUME state[o] = "lost", acc'.who \in {acc.who, None} \/ state[acc'.who] = "started"
      PROVE  o # acc'.who /\ \A n \in Uuids : clients'[n] # o
  <2>1. o # acc.who /\ \A n \in Uuids : clients[n] # o
    BY <1>1 DEF OptimizersStay
  <2>2. o \in Units /\ o # None
    BY <1>0
  <2>3. \A n \in Uuids : clients'[n] \in {clients[n], None, acc.who}
    BY ClientsStep
  <2> QED
    BY <1>1, <2>1, <2>2, <2>3
<1>2. ASSUME NEW u \in Units, Lose(u) PROVE state[o] = "lost" /\ acc' = acc
  BY <1>0, <1>2 DEF Lose
<1>3. ASSUME NEW u \in Units, Start(u) PROVE state[o] = "lost" /\ acc' = acc
  BY <1>0, <1>3 DEF Start
<1>4. ASSUME NEW u \in Units, Accept(u) PROVE state[o] = "lost" /\ state[acc'.who] = "started"
  BY <1>4 DEF Accept
<1>5. ASSUME NEW u \in Units, Unit(u) PROVE state[o] = "lost" /\ acc' = acc
  BY <1>0, <1>5 DEF Unit, updateUnitInfo_cb, update_uuid_on_collision,
              Unhandled, work_cb, finished_cb, Build, SendWork
<1>6. ASSUME NEW u \in Units, Callback(u) PROVE state[o] = "lost" /\ acc' = acc
  BY <1>6, CallbackEffect DEF Forwards
<1>7. ASSUME NEW u, NEW type, NEW t, Ask(u, type, t) PROVE state[o] = "lost" /\ acc' = acc
  BY <1>7 DEF Ask
<1>8. CASE Answer
  <2>1. PICK u \in Units :
              /\ u = acc.who
              /\ \/ \E why \in {"lost", "protocol"} : Drop(u, why)
                 \/ /\ \E k \in 1 .. Len(outbox[u]) : Taken(u, k)
                    /\ Collides(u) \/ Registers(u)
    BY <1>8, AnswerFacts
  <2>2. CASE \E why \in {"lost", "protocol"} : Drop(u, why)
    <3>1. state' = [state EXCEPT ![u] = "lost"] /\ clients' = clients /\ acc'.who = None
      BY <2>2 DEF Drop
    <3>2. CASE o = u
      BY <1>0, <2>1, <3>1, <3>2
    <3>3. CASE o # u
      <4>1. state[o] = "lost"
        BY <1>0, <3>1, <3>3
      <4> QED
        BY <1>1, <3>1, <4>1
    <3> QED
      BY <3>2, <3>3
  <2>3. CASE (\E k \in 1 .. Len(outbox[u]) : Taken(u, k)) /\ (Collides(u) \/ Registers(u))
    <3>1. state' = state /\ acc'.who \in {acc.who, None}
      BY <2>1, <2>3 DEF Taken, Collides, Registers
    <3> QED
      BY <1>1, <3>1
  <2> QED
    BY <2>1, <2>2, <2>3
<1> QED
  BY <1>1, <1>2, <1>3, <1>4, <1>5, <1>6, <1>7, <1>8 DEF Next

\* A uuid under which an optimizer was found stays with it.
LEMMA AtHomeStep ==
    ASSUME TypeOK, ShakeInv, OptimizersStay, Next, NEW b \in Bodies, NEW n, AtHome(b, n)
    PROVE  AtHome(b, n)'
<1>1. CASE Stale(b)
  BY <1>1, ClientsStep DEF AtHome, Stale
<1>2. CASE n \in Uuids /\ clients[n] = b[1]
  <2>1. b[1] \in Optimizers /\ b[1] # None
    BY BodyFacts, RoutingAssumption DEF Units
  <2>2. state[b[1]] # "lost"
    BY <1>2, <2>1 DEF OptimizersStay
  <2>3. clients'[n] = clients[n]
    BY <1>2, <2>1, <2>2, ClientsStep
  <2> QED
    BY <1>2, <2>3 DEF AtHome
<1> QED
  BY <1>1, <1>2 DEF AtHome

\* The head of a client's outbox.
LEMMA ClientHead ==
    ASSUME TypeOK, ShakeInv, Fresh, HomeOutbox, NEW u \in Units, Callback(u)
    PROVE  LET h == Head(outbox[u]) IN
           /\ h \in Messages /\ h = outbox[u][1] /\ 1 \in DOMAIN outbox[u]
           /\ h.type = "WORK" => /\ h.body \in Bodies /\ h.body[1] = u /\ h.tgt = NoUuid
                                 /\ AtHome(h.body, h.src)
           /\ h.type = "TASK_FINISHED" => h.body \in Bodies /\ AtHome(h.body, h.tgt)
<1> DEFINE h == Head(outbox[u])
<1>0. /\ clients \in [Uuids -> Units \cup {None}] /\ None \notin Units
      /\ outbox[u] \in Seq(Messages) /\ outbox[u] # <<>>
  BY CallbackEffect, RoutingAssumption DEF TypeOK
<1>1. h \in Messages /\ h = outbox[u][1] /\ 1 \in DOMAIN outbox[u]
  BY <1>0, Popped
<1>2. PICK n \in Uuids : clients[n] = u
  BY CallbackEffect
<1>3. n = uuid[u] /\ u # acc.who
  BY <1>0, <1>2 DEF ShakeInv
<1>4. h.type \in {"WORK", "TASK_FINISHED"} => h.body \in Bodies
  BY <1>1, MessageFacts
<1>5. ASSUME h.type = "WORK"
      PROVE  h.body[1] = u /\ h.tgt = NoUuid /\ AtHome(h.body, h.src)
  <2>1. h.body[1] = u /\ h.tgt = NoUuid
    BY <1>1, <1>5 DEF HomeOutbox
  <2>2. Stale(h.body) \/ h.src = uuid[u] \/ Ahead(u, 1)
    BY <1>1, <1>5 DEF Fresh
  <2> QED
    BY <1>2, <1>3, <2>1, <2>2 DEF Ahead, AtHome
<1>6. ASSUME h.type = "TASK_FINISHED" PROVE AtHome(h.body, h.tgt)
  BY <1>1, <1>6 DEF HomeOutbox
<1> QED
  BY <1>1, <1>4, <1>5, <1>6

LEMMA HomeInboxStep ==
    ASSUME TypeOK, ShakeInv, HomeInv, Next
    PROVE  HomeInbox'
<1> SUFFICES ASSUME NEW v \in Units \ Monitors, NEW i \in DOMAIN inbox'[v]
             PROVE  /\ inbox'[v][i].type = "WORK" => AtHome(inbox[v][i].body, inbox[v][i].src)'
                    /\ inbox'[v][i].type = "TASK_FINISHED" =>
                          Stale(inbox[v][i].body)' \/ inbox'[v][i].body[1] = v
  BY DEF HomeInbox
<1>1. ASSUME NEW m \in Messages, inbox'[v][i] = m,
             m.type = "WORK" => AtHome(m.body, m.src),
             m.type = "TASK_FINISHED" => Stale(m.body) \/ m.body[1] = v
      PROVE  /\ inbox'[v][i].type = "WORK" => AtHome(inbox[v][i].body, inbox[v][i].src)'
             /\ inbox'[v][i].type = "TASK_FINISHED" =>
                   Stale(inbox[v][i].body)' \/ inbox'[v][i].body[1] = v
  <2>1. m.type = "WORK" => m.body \in Bodies
    BY MessageFacts
  <2>2. m.type = "WORK" => AtHome(m.body, m.src)'
    BY <1>1, <2>1, AtHomeStep DEF HomeInv
  <2>3. Stale(m.body) => Stale(m.body)'
    BY ClientsStep DEF Stale
  <2> QED
    BY <1>1, <2>2, <2>3 DEF AtHome, Stale
<1>2. ASSUME NEW j \in DOMAIN inbox[v], inbox'[v][i] = inbox[v][j]
      PROVE  \E m \in Messages : /\ inbox'[v][i] = m
                                 /\ m.type = "WORK" => AtHome(m.body, m.src)
                                 /\ m.type = "TASK_FINISHED" => Stale(m.body) \/ m.body[1] = v
  BY <1>2 DEF TypeOK, HomeInv, HomeInbox
<1>3. ASSUME inbox'[v][i].type \in Hand
      PROVE  inbox'[v][i].type \notin {"WORK", "TASK_FINISHED"}
  BY <1>3, TypesApart
<1>4. ASSUME NEW u \in Units, NEW m \in Messages, NEW D \in SUBSET Units,
             Callback(u), Addressed(Head(outbox[u]), m, D), v \in D
      PROVE  /\ m.type = "WORK" => AtHome(m.body, m.src)
             /\ m.type = "TASK_FINISHED" => Stale(m.body) \/ m.body[1] = v
  <2> DEFINE h == Head(outbox[u])
  <2>1. /\ h.type = "WORK" => AtHome(h.body, h.src)
        /\ h.type = "TASK_FINISHED" => AtHome(h.body, h.tgt)
    BY <1>4, ClientHead DEF HomeInv
  <2>2. Addressed(h, m, D)
    BY <1>4
  <2> HIDE DEF h
  <2>3. m.type \in {"WORK", "TASK_FINISHED"} => m = h
    BY <1>4, <2>2 DEF Addressed, Message
  <2>4. m.type = "TASK_FINISHED" => v = clients[h.tgt]
    BY <1>4, <2>2, <2>3 DEF Addressed
  <2> QED
    BY <2>1, <2>3, <2>4 DEF AtHome
<1> QED
  BY <1>1, <1>2, <1>3, <1>4, InboxStep

LEMMA HomeOutboxStep ==
    ASSUME TypeOK, ShakeInv, HomeInv, Next
    PROVE  HomeOutbox'
<1> DEFINE Fine(u, m) ==
        /\ m.type = "TASK_FINISHED" => AtHome(m.body, m.tgt)
        /\ m.type = "WORK" => m.body[1] = u /\ m.tgt = NoUuid
<1> SUFFICES ASSUME NEW v \in Units, NEW i \in DOMAIN outbox'[v]
             PROVE  Fine(v, outbox[v][i])'
  BY DEF HomeOutbox
<1>1. ASSUME NEW m \in Messages, outbox'[v][i] = m, Fine(v, m)
      PROVE  Fine(v, outbox[v][i])'
  <2>1. m.type = "TASK_FINISHED" => m.body \in Bodies
    BY MessageFacts
  <2>2. m.type = "TASK_FINISHED" => AtHome(m.body, m.tgt)'
    BY <1>1, <2>1, AtHomeStep DEF HomeInv
  <2> QED
    BY <1>1, <2>2 DEF AtHome, Stale
<1>2. ASSUME NEW j \in DOMAIN outbox[v], outbox'[v][i] = outbox[v][j]
      PROVE  outbox[v][j] \in Messages /\ Fine(v, outbox[v][j])
  BY <1>2 DEF TypeOK, HomeInv, HomeOutbox
<1>3. ASSUME outbox'[v][i].type \in Hand \cup Requests
      PROVE  Fine(v, outbox[v][i])'
  BY <1>3, TypesApart
<1>4. ASSUME v \in Optimizers, SendWork(v)
      PROVE  built[v] \in Messages /\ Fine(v, built[v])
  <2>1. built[v] \in Messages /\ built[v].type = "WORK" /\ built[v] # None
    BY <1>4 DEF TypeOK, SendWork
  <2>2. built[v].tgt = NoUuid /\ built[v].body[1] = v
    BY <1>4, <2>1 DEF HomeInv, HomeBuilt
  <2> QED
    BY <2>1, <2>2
<1>5. ASSUME v \in Computes, work_cb(v)
      PROVE  LET m == Message("TASK_FINISHED", uuid[v], Head(inbox[v]).src, Head(inbox[v]).body)
             IN  m \in Messages /\ Fine(v, m)
  <2> DEFINE h == Head(inbox[v])
             m == Message("TASK_FINISHED", uuid[v], h.src, h.body)
  <2>1. inbox[v] \in Seq(Messages) /\ inbox[v] # <<>> /\ h.type = "WORK"
    BY <1>5 DEF TypeOK, work_cb, Receives
  <2>2. h \in Messages /\ h = inbox[v][1] /\ 1 \in DOMAIN inbox[v]
    BY <2>1, Popped
  <2>3. v \in Units \ Monitors
    BY <1>5, RoutingAssumption DEF Units
  <2>4. AtHome(h.body, h.src)
    BY <2>1, <2>2, <2>3 DEF HomeInv, HomeInbox
  <2>5. uuid[v] \in Uuids \cup {NoUuid}
    BY DEF TypeOK
  <2>6. m \in Messages
    BY <2>1, <2>2, <2>5, MessageFacts, MadeMessages
  <2>7. m.type = "TASK_FINISHED" /\ m.body = h.body /\ m.tgt = h.src
    BY DEF Message
  <2> QED
    BY <2>4, <2>6, <2>7
<1> HIDE DEF Fine
<1> QED
  BY <1>1, <1>2, <1>3, <1>4, <1>5, OutboxStep

LEMMA FreshStep ==
    ASSUME TypeOK, ShakeInv, HomeInv, Next
    PROVE  Fresh'
<1> DEFINE Fine(v, i) ==
        outbox[v][i].type = "WORK" =>
            Stale(outbox[v][i].body) \/ outbox[v][i].src = uuid[v] \/ Ahead(v, i)
<1> SUFFICES ASSUME NEW v \in Units, NEW i \in DOMAIN outbox'[v]
             PROVE  Fine(v, i)'
  BY DEF Fresh
<1>0. /\ outbox \in [Units -> Seq(Messages)] /\ uuid \in [Units -> Uuids \cup {NoUuid}]
      /\ \A u \in Units : outbox[u] \in Seq(Messages) /\ uuid[u] \in Uuids \cup {NoUuid}
      /\ inbox \in [Units -> Seq(Messages)] /\ acc.pc \in {"accept", "hello", "collide"}
      /\ acc.pc = "accept" <=> acc.who = None
      /\ outbox[v] \in Seq(Messages) /\ DOMAIN <<>> = {} /\ None \notin Units
  BY RoutingAssumption DEF TypeOK
<1>1. /\ dropped \subseteq dropped' /\ outbox'[v] \in Seq(Messages)
      /\ i \in Nat \ {0} /\ 1 .. i \subseteq DOMAIN outbox'[v]
  <2>1. outbox'[v] \in Seq(Messages)
    BY RoutingTypeStep DEF TypeOK
  <2> QED
    BY <2>1, ClientsStep
<1>2. \A j \in DOMAIN outbox[v] : Fine(v, j)
  BY DEF HomeInv, Fresh
<1>3. ASSUME NEW j \in DOMAIN outbox[v], outbox'[v][i] = outbox[v][j],
             uuid'[v] = uuid[v], acc.who # v
      PROVE  Fine(v, i)'
  BY <1>1, <1>2, <1>3 DEF Stale, Ahead
<1>4. ASSUME i \in DOMAIN outbox[v], \A j \in 1 .. i : outbox'[v][j] = outbox[v][j],
             uuid'[v] = uuid[v], acc' = acc
      PROVE  Fine(v, i)'
  <2>1. i \in 1 .. i
    BY <1>1
  <2> QED
    BY <1>1, <1>2, <1>4, <2>1 DEF Stale, Ahead
<1> HIDE DEF Fine
<1>5. ASSUME NEW u \in Units, NEW m \in Messages, notifyHost(u, m), uuid' = uuid, acc' = acc,
             m.type = "WORK" => <<m.body, "stale">> \in dropped' \/ m.src = uuid[u]
      PROVE  Fine(v, i)'
  <2>1. CASE u = v
    <3>1. outbox'[v] = Append(outbox[v], m)
      BY <1>0, <1>5, <2>1 DEF notifyHost
    <3>2. CASE i \in DOMAIN outbox[v]
      <4>1. \A j \in 1 .. i : j \in DOMAIN outbox[v]
        BY <1>0, <3>2
      <4>2. \A j \in 1 .. i : outbox'[v][j] = outbox[v][j]
        BY <1>0, <3>1, <4>1, Pushed
      <4> QED
        BY <1>4, <1>5, <3>2, <4>2
    <3>3. CASE outbox'[v][i] = m
      BY <1>5, <2>1, <3>3 DEF Fine, Stale
    <3> QED
      BY <1>0, <3>1, <3>2, <3>3, Pushed
  <2>2. CASE u # v
    <3>1. outbox'[v] = outbox[v]
      BY <1>0, <1>5, <2>2 DEF notifyHost
    <3> QED
      BY <1>4, <1>5, <3>1
  <2> QED
    BY <2>1, <2>2
<1>6. CASE outbox' = outbox /\ uuid' = uuid /\ acc' = acc
  BY <1>4, <1>6
<1>7. ASSUME NEW u \in Units, Start(u) PROVE Fine(v, i)'
  <2>1. state[u] = "off" /\ outbox' = outbox /\ acc' = acc
    BY <1>7 DEF Start
  <2>2. u # acc.who
    BY <1>0, <2>1 DEF ShakeInv, Greeted, Collided
  <2>3. outbox[u] = <<>>
    BY <2>1, <2>2 DEF ShakeInv, Quiet
  <2>4. u # v
    BY <1>0, <2>1, <2>3
  <2>5. uuid'[v] = uuid[v]
    BY <1>0, <1>7, <2>4 DEF Start
  <2> QED
    BY <1>4, <2>1, <2>5
<1>8. ASSUME NEW u \in Units, Lose(u) PROVE Fine(v, i)'
  <2>1. PICK k \in 0 .. Len(outbox[u]) : outbox' = [outbox EXCEPT ![u] = SubSeq(@, 1, k)]
    BY <1>8 DEF Lose
  <2>2. uuid' = uuid /\ acc' = acc
    BY <1>8 DEF Lose
  <2>3. CASE u = v
    <3>1. outbox'[v] = SubSeq(outbox[v], 1, k) /\ k \in 0 .. Len(outbox[v])
      BY <1>0, <2>1, <2>3
    <3>2. i \in 1 .. k
      BY <1>0, <3>1, Cut
    <3>3. \A j \in 1 .. i : j \in 1 .. k
      BY <3>1, <3>2
    <3>4. i \in DOMAIN outbox[v] /\ \A j \in 1 .. i : outbox'[v][j] = outbox[v][j]
      BY <1>0, <3>1, <3>2, <3>3, Cut
    <3> QED
      BY <1>4, <2>2, <3>4
  <2>4. CASE u # v
    BY <1>0, <1>4, <2>1, <2>2, <2>4
  <2> QED
    BY <2>3, <2>4
<1>9. ASSUME NEW u \in Units, Accept(u) PROVE Fine(v, i)'
  <2>1. acc.who # v /\ outbox' = outbox /\ uuid' = uuid
    BY <1>0, <1>9 DEF Accept
  <2> QED
    BY <1>3, <2>1
<1>10. ASSUME NEW u \in Units, updateUnitInfo_cb(u) PROVE Fine(v, i)'
  <2> DEFINE m == Message("UPDATE_UNIT_TYPE", uuid[u], NoUuid, NoBody)
  <2>1. notifyHost(u, m) /\ uuid' = uuid /\ acc' = acc
    BY <1>10 DEF updateUnitInfo_cb
  <2>2. m \in Messages /\ m.type # "WORK"
    BY <1>0, MadeMessages DEF Hand, Message
  <2> HIDE DEF m
  <2> QED
    BY <1>5, <2>1, <2>2
<1>11. ASSUME NEW u \in Units, update_uuid_on_collision(u) PROVE Fine(v, i)'
  <2>1. PICK n \in Uuids :
           /\ uuid' = [uuid EXCEPT ![u] = n]
           /\ notifyHost(u, Message("UUID_COLLISION", n, NoUuid, NoBody))
    BY <1>11 DEF update_uuid_on_collision
  <2> DEFINE m == Message("UUID_COLLISION", n, NoUuid, NoBody)
  <2>2. m \in Messages /\ m.type = "UUID_COLLISION"
    BY MadeMessages DEF Hand, Message
  <2>3. outbox' = [outbox EXCEPT ![u] = Append(@, m)] /\ acc' = acc
    BY <1>11, <2>1 DEF notifyHost, update_uuid_on_collision
  <2>4. /\ state[u] \in {"started", "up"} /\ inbox[u] # <<>>
        /\ Head(inbox[u]).type = "UUID_COLLISION"
        /\ "UUID_COLLISION" \in Hand /\ "UUID_COLLISION" # "UPDATE_UNIT_TYPE"
    BY <1>11 DEF Receives, Hand, update_uuid_on_collision
  <2>5. /\ u = acc.who /\ acc.pc = "collide"
        /\ \A j \in DOMAIN outbox[u] : outbox[u][j].type = "WORK"
    BY <2>4, HeadFacts
  <2> HIDE DEF m
  <2>6. CASE u = v
    <3>1. outbox'[v] = Append(outbox[v], m)
      BY <1>0, <2>3, <2>6
    <3>2. CASE i \in DOMAIN outbox[v]
      <4>1. \A j \in 1 .. i : j \in DOMAIN outbox[v]
        BY <1>0, <3>2
      <4>2. \A j \in 1 .. i : outbox'[v][j] = outbox[v][j]
        BY <1>0, <2>2, <3>1, <4>1, Pushed
      <4>3. Ahead(v, i)'
        BY <2>3, <2>5, <2>6, <4>1, <4>2 DEF Ahead
      <4> QED
        BY <4>3 DEF Fine
    <3>3. CASE outbox'[v][i] = m
      BY <2>2, <3>3 DEF Fine
    <3> QED
      BY <1>0, <2>2, <3>1, <3>2, <3>3, Pushed
  <2>7. CASE u # v
    BY <1>0, <1>4, <2>1, <2>3, <2>7
  <2> QED
    BY <2>6, <2>7
<1>12. ASSUME NEW u \in Computes, work_cb(u) PROVE Fine(v, i)'
  <2> DEFINE h == Head(inbox[u])
             m == Message("TASK_FINISHED", uuid[u], h.src, h.body)
  <2>1. notifyHost(u, m) /\ Receives(u, "WORK") /\ uuid' = uuid /\ acc' = acc /\ u \in Units
    BY <1>12 DEF work_cb, Units
  <2>2. h \in Messages /\ h.type = "WORK"
    BY <2>1, Popped DEF Receives, TypeOK
  <2>3. m \in Messages /\ m.type # "WORK"
    BY <1>0, <2>1, <2>2, MessageFacts, MadeMessages DEF Message
  <2> HIDE DEF m
  <2> QED
    BY <1>5, <2>1, <2>3
<1>13. ASSUME NEW u \in Optimizers, SendWork(u) PROVE Fine(v, i)'
  <2>1. notifyHost(u, built[u]) /\ built[u] \in Messages /\ uuid' = uuid /\ acc' = acc
    BY <1>13 DEF SendWork, TypeOK
  <2>2. <<built[u].body, "stale">> \in dropped' \/ built[u].src = uuid[u]
    BY <1>13 DEF SendWork
  <2>3. PICK m \in Messages : m = built[u]
    BY <2>1
  <2>4. notifyHost(u, m) /\ (<<m.body, "stale">> \in dropped' \/ m.src = uuid[u]) /\ u \in Units
    BY <2>1, <2>2, <2>3 DEF Units
  <2> QED
    BY <1>5, <2>1, <2>4
<1>14. ASSUME NEW u \in Units, Unit(u) PROVE Fine(v, i)'
  BY <1>6, <1>10, <1>11, <1>12, <1>13, <1>14 DEF Unit, Unhandled, finished_cb, Build
<1>15. ASSUME NEW u \in Units, Callback(u) PROVE Fine(v, i)'
  <2>1. /\ outbox[u] # <<>> /\ outbox' = [outbox EXCEPT ![u] = Tail(@)]
        /\ uuid' = uuid /\ acc' = acc /\ \E n \in Uuids : clients[n] = u
    BY <1>15, CallbackEffect DEF Forwards
  <2>2. CASE u = v
    <3>1. outbox'[v] = Tail(outbox[v]) /\ outbox[v] # <<>>
      BY <1>0, <2>1, <2>2
    <3>2. \E j \in DOMAIN outbox[v] : outbox'[v][i] = outbox[v][j]
      BY <1>0, <3>1, Popped
    <3>3. acc.who # v
      BY <1>0, <2>1, <2>2 DEF ShakeInv
    <3> QED
      BY <1>3, <2>1, <3>2, <3>3
  <2>3. CASE u # v
    BY <1>0, <1>4, <2>1, <2>3
  <2> QED
    BY <2>2, <2>3
<1>16. ASSUME Answer PROVE Fine(v, i)'
  <2>1. PICK u \in Units :
              /\ u = acc.who /\ acc.pc \in {"hello", "collide"}
              /\ \/ \E why \in {"lost", "protocol"} : Drop(u, why)
                 \/ /\ \E k \in 1 .. Len(outbox[u]) : Taken(u, k)
                    /\ acc.pc = "collide" => outbox[u][1].type = "UUID_COLLISION"
    BY <1>16, AnswerFacts
  <2>2. ASSUME v # u, outbox'[v] = outbox[v], uuid' = uuid PROVE Fine(v, i)'
    BY <1>3, <2>1, <2>2
  <2>3. CASE \E why \in {"lost", "protocol"} : Drop(u, why)
    <3>1. outbox' = [outbox EXCEPT ![u] = <<>>] /\ uuid' = uuid
      BY <2>3 DEF Drop
    <3>2. v # u
      BY <1>0, <3>1
    <3> QED
      BY <1>0, <2>2, <3>1, <3>2
  <2>4. ASSUME NEW k \in 1 .. Len(outbox[u]), Taken(u, k),
               acc.pc = "collide" => outbox[u][1].type = "UUID_COLLISION"
        PROVE  Fine(v, i)'
    <3>1. outbox' = [outbox EXCEPT ![u] = SubSeq(@, k + 1, Len(@))] /\ uuid' = uuid
      BY <2>4 DEF Taken
    <3>2. CASE v = u
      <4>1. k \in 0 .. Len(outbox[v]) /\ k \in Nat /\ outbox'[v] = SubSeq(outbox[v], k + 1, Len(outbox[v]))
        BY <1>0, <3>1, <3>2
      <4>2. i \in 1 .. Len(outbox[v]) - k
        BY <1>0, <4>1, Cut
      <4>3. outbox'[v][i] = outbox[v][k + i] /\ k + i \in DOMAIN outbox[v]
        <5>1. \A j \in 1 .. Len(outbox[v]) - k :
                 /\ SubSeq(outbox[v], k + 1, Len(outbox[v]))[j] = outbox[v][k + j]
                 /\ k + j \in DOMAIN outbox[v]
          BY <1>0, <4>1, Cut
        <5> QED
          BY <4>1, <4>2, <5>1
      <4>4. 1 \in 1 .. k + i
        BY <1>1, <4>1
      <4>5. ~ Ahead(v, k + i)
        BY <2>4, <3>2, <4>4 DEF Ahead
      <4>6. Fine(v, k + i)
        BY <1>2, <4>3
      <4>7. outbox[v][k + i].type = "WORK" =>
               Stale(outbox[v][k + i].body) \/ outbox[v][k + i].src = uuid[v]
        BY <4>5, <4>6 DEF Fine
      <4>8. outbox'[v][i].type = "WORK" =>
               <<outbox'[v][i].body, "stale">> \in dropped' \/ outbox'[v][i].src = uuid'[v]
        BY <1>1, <3>1, <4>3, <4>7 DEF Stale
      <4> QED
        BY <4>8 DEF Fine, Stale
    <3>3. CASE v # u
      BY <1>0, <2>2, <3>1, <3>3
    <3> QED
      BY <3>2, <3>3
  <2> QED
    BY <2>1, <2>3, <2>4
<1>17. ASSUME NEW u \in Units, NEW type \in Requests, NEW t \in Uuids \cup {NoUuid}, Ask(u, type, t)
       PROVE  Fine(v, i)'
  <2> DEFINE m == Message(type, uuid[u], t, <<u, 0>>)
  <2>1. notifyHost(u, m) /\ uuid' = uuid /\ acc' = acc
    BY <1>17 DEF Ask
  <2>2. m \in Messages /\ m.type # "WORK"
    BY <1>0, MadeMessages, TypesApart DEF Message
  <2> HIDE DEF m
  <2> QED
    BY <1>5, <2>1, <2>2
<1> QED
  BY <1>7, <1>8, <1>9, <1>14, <1>15, <1>16, <1>17 DEF Next

\* Who changes what the workers have built and the answers that came.
LEMMA WorkStep ==
    ASSUME TypeOK, Next
    PROVE  \/ \E o \in Optimizers : (Build(o) \/ SendWork(o)) /\ finished' = finished
           \/ \E o \in Optimizers : finished_cb(o) /\ UNCHANGED <<next, built>>
           \/ UNCHANGED <<next, built, finished>>
<1>1. ASSUME NEW u \in Units, Callback(u) PROVE UNCHANGED <<next, built, finished>>
  BY <1>1, CallbackEffect DEF Forwards
<1>2. ASSUME NEW u \in Units, Start(u) \/ Lose(u) \/ Accept(u)
      PROVE  UNCHANGED <<next, built, finished>>
  BY <1>2 DEF Start, Lose, Accept, work
<1>3. ASSUME NEW u \in Units, Unit(u)
      PROVE  \/ \E o \in Optimizers : (Build(o) \/ SendWork(o)) /\ finished' = finished
             \/ \E o \in Optimizers : finished_cb(o) /\ UNCHANGED <<next, built>>
             \/ UNCHANGED <<next, built, finished>>
  BY <1>3 DEF Unit, updateUnitInfo_cb, update_uuid_on_collision, Unhandled, work_cb,
              finished_cb, Build, SendWork, work
<1>4. ASSUME NEW u, NEW type, NEW t, Ask(u, type, t) PROVE UNCHANGED <<next, built, finished>>
  BY <1>4 DEF Ask
<1>5. Answer => UNCHANGED <<next, built, finished>>
  BY DEF Answer, Drop
<1> QED
  BY <1>1, <1>2, <1>3, <1>4, <1>5 DEF Next

LEMMA HomeBuiltStep ==
    ASSUME TypeOK, HomeBuilt, Next
    PROVE  HomeBuilt'
<1>0. /\ built \in [Optimizers -> {m \in Messages : m.type = "WORK"} \cup {None}]
      /\ next \in [Optimizers -> Nat \ {0}]
  BY DEF TypeOK
<1>1. CASE UNCHANGED <<next, built>>
  BY <1>1 DEF HomeBuilt
<1>2. ASSUME NEW o \in Optimizers, SendWork(o) PROVE HomeBuilt'
  BY <1>0, <1>2 DEF SendWork, HomeBuilt
<1>3. ASSUME NEW o \in Optimizers, Build(o) PROVE HomeBuilt'
  <2> DEFINE m == Message("WORK", uuid[o], NoUuid, <<o, Work[o][next[o]]>>)
  <2>1. /\ built' = [built EXCEPT ![o] = m] /\ next' = [next EXCEPT ![o] = @ + 1]
        /\ next[o] <= Len(Work[o]) /\ next[o] \in Nat \ {0}
    BY <1>0, <1>3 DEF Build
  <2>2. m.tgt = NoUuid /\ m.body = <<o, Work[o][next[o]]>>
    BY DEF Message
  <2> HIDE DEF m
  <2>3. ASSUME NEW p \in Optimizers, p # o PROVE built'[p] = built[p] /\ next'[p] = next[p]
    BY <1>0, <2>1, <2>3
  <2>4. built'[o] = m /\ next'[o] - 1 = next[o]
    BY <1>0, <2>1
  <2>5. next[o] \in DOMAIN Work[o]
    BY <2>1, RoutingAssumption
  <2> QED
    BY <2>2, <2>3, <2>4, <2>5 DEF HomeBuilt
<1> QED
  BY <1>1, <1>2, <1>3, WorkStep

\* An optimizer reads an answer.
LEMMA FinishedFacts ==
    ASSUME TypeOK, NEW o \in Optimizers, finished_cb(o)
    PROVE  LET h == Head(inbox[o]) IN
           /\ h = inbox[o][1] /\ 1 \in DOMAIN inbox[o] /\ h \in Messages
           /\ h.type = "TASK_FINISHED" /\ h.body \in Bodies /\ o \in Units \ Monitors
           /\ inbox[o] # <<>> /\ inbox' = [inbox EXCEPT ![o] = Tail(@)]
           /\ finished'[o] = Append(finished[o], h.body)
           /\ \A p \in Optimizers : p # o => finished'[p] = finished[p]
<1>0. inbox[o] \in Seq(Messages) /\ o \in Units \ Monitors /\ finished \in [Optimizers -> Seq(Bodies)]
  BY RoutingAssumption DEF TypeOK, Units
<1>1. /\ inbox[o] # <<>> /\ Head(inbox[o]).type = "TASK_FINISHED"
      /\ inbox' = [inbox EXCEPT ![o] = Tail(@)]
      /\ finished' = [finished EXCEPT ![o] = Append(@, Head(inbox[o]).body)]
  BY DEF finished_cb, Receives
<1>2. /\ Head(inbox[o]) = inbox[o][1] /\ 1 \in DOMAIN inbox[o] /\ Head(inbox[o]) \in Messages
  BY <1>0, <1>1, Popped
<1>3. Head(inbox[o]).body \in Bodies
  BY <1>1, <1>2, MessageFacts
<1>4. /\ finished'[o] = Append(finished[o], Head(inbox[o]).body)
      /\ \A p \in Optimizers : p # o => finished'[p] = finished[p]
  BY <1>0, <1>1
<1> QED
  BY <1>0, <1>1, <1>2, <1>3, <1>4

LEMMA HomeFinishedStep ==
    ASSUME TypeOK, ShakeInv, HomeInbox, HomeFinished, Next
    PROVE  HomeFinished'
<1>0. /\ finished \in [Optimizers -> Seq(Bodies)] /\ dropped \subseteq dropped'
  BY ClientsStep DEF TypeOK
<1> SUFFICES ASSUME NEW p \in Optimizers, NEW i \in DOMAIN finished'[p]
             PROVE  finished'[p][i][1] = p \/ <<finished'[p][i], "stale">> \in dropped'
  BY DEF HomeFinished, Stale
<1>1. ASSUME NEW j \in DOMAIN finished[p], finished'[p][i] = finished[p][j]
      PROVE  finished'[p][i][1] = p \/ <<finished'[p][i], "stale">> \in dropped'
  BY <1>0, <1>1 DEF HomeFinished, Stale
<1>2. ASSUME NEW o \in Optimizers, finished_cb(o)
      PROVE  finished'[p][i][1] = p \/ <<finished'[p][i], "stale">> \in dropped'
  <2> DEFINE b == Head(inbox[o]).body
  <2>1. b \in Bodies /\ (b[1] = o \/ Stale(b))
    BY <1>2, FinishedFacts DEF HomeInbox
  <2>2. /\ finished'[o] = Append(finished[o], b)
        /\ \A q \in Optimizers : q # o => finished'[q] = finished[q]
    BY <1>2, FinishedFacts
  <2> HIDE DEF b
  <2>3. CASE p = o
    <3>1. (i \in DOMAIN finished[o] /\ finished'[p][i] = finished[o][i]) \/ finished'[p][i] = b
      BY <1>0, <2>1, <2>2, <2>3, Pushed
    <3> QED
      BY <1>0, <1>1, <2>1, <2>3, <3>1 DEF Stale
  <2>4. CASE p # o
    BY <1>1, <2>2, <2>4
  <2> QED
    BY <2>3, <2>4
<1> QED
  BY <1>1, <1>2, WorkStep

LEMMA HomeHolds ==
    ASSUME MayLose \cap Optimizers = {}
    PROVE  Spec => [](RightInv /\ HomeInv)
<1>1. Init => HomeInv
  <2> SUFFICES ASSUME Init PROVE HomeInv
    OBVIOUS
  <2>1. DOMAIN <<>> = {} /\ Optimizers \subseteq Units
    BY DEF Units
  <2>2. OptimizersStay /\ HomeBuilt
    BY <2>1 DEF Init, OptimizersStay, HomeBuilt
  <2>3. HomeInbox /\ Fresh /\ HomeOutbox /\ HomeFinished
    BY <2>1 DEF Init, HomeInbox, Fresh, HomeOutbox, HomeFinished
  <2> QED
    BY <2>2, <2>3 DEF HomeInv
<1>2. RightInv /\ HomeInv /\ [Next]_vars => HomeInv'
  <2> SUFFICES ASSUME RightInv, HomeInv, [Next]_vars PROVE HomeInv'
    OBVIOUS
  <2>1. CASE Next
    <3>1. TypeOK /\ ShakeInv
      BY DEF RightInv
    <3>2. HomeInbox' /\ HomeOutbox' /\ Fresh'
      BY <2>1, <3>1, HomeInboxStep, HomeOutboxStep, FreshStep
    <3>3. OptimizersStay' /\ HomeBuilt' /\ HomeFinished'
      BY <2>1, <3>1, OptimizersStayStep, HomeBuiltStep, HomeFinishedStep DEF HomeInv
    <3> QED
      BY <3>2, <3>3 DEF HomeInv
  <2>2. CASE UNCHANGED vars
    BY <2>2 DEF vars, HomeInv, OptimizersStay, HomeInbox, Fresh, HomeOutbox, HomeBuilt,
                HomeFinished, AtHome, Stale, Ahead
  <2> QED
    BY <2>1, <2>2
<1> QED
  BY <1>1, <1>2, RightHolds, PTL DEF Spec

-----------------------------------------------------------------------------
(* No request vanishes. *)

Noted(b) == \E d \in dropped : d[1] = b

\* Only a client that is up has a request to read.
LEMMA InboxFacts ==
    ASSUME TypeOK, ShakeInv, NEW b, NEW v \in Units, b \in Bodied(inbox[v])
    PROVE  /\ v # acc.who /\ state[v] = "up" /\ inbox[v] # <<>>
           /\ uuid[v] \in Uuids /\ clients[uuid[v]] = v
<1>0. /\ inbox[v] \in Seq(Messages) /\ DOMAIN <<>> = {}
      /\ acc.pc \in {"accept", "hello", "collide"} /\ None \notin Units
      /\ acc.pc = "accept" <=> acc.who = None
      /\ state[v] \in {"off", "started", "up", "lost"}
  BY RoutingAssumption DEF TypeOK
<1>1. PICK i \in DOMAIN inbox[v] : inbox[v][i].body = b /\ b \in Bodies
  BY DEF Bodied
<1>2. inbox[v] # <<>>
  BY <1>0, <1>1
<1>3. v # acc.who
  <2> SUFFICES ASSUME v = acc.who PROVE FALSE
    OBVIOUS
  <2>1. Only(inbox[v], "UPDATE_UNIT_TYPE") \/ Only(inbox[v], "UUID_COLLISION")
    BY <1>0, <1>2 DEF ShakeInv, Greeted, Collided
  <2>2. Len(inbox[v]) = 1 /\ inbox[v][1].body = NoBody
    BY <2>1 DEF Only
  <2>3. i = 1
    BY <1>0, <1>1, <2>2
  <2> QED
    BY <1>1, <2>2, <2>3, BodyFacts
<1>4. state[v] = "up"
  BY <1>0, <1>2, <1>3 DEF ShakeInv, Quiet
<1> QED
  BY <1>2, <1>3, <1>4 DEF ShakeInv

\* The queues of the other units do not change when a unit reads or sends.
LEMMA OtherQueues ==
    ASSUME TypeOK, NEW u \in Units, NEW v \in Units, u # v
    PROVE  /\ \A m : notifyHost(u, m) => outbox'[v] = outbox[v]
           /\ \A type : Receives(u, type) => inbox'[v] = inbox[v]
           /\ Lose(u) => inbox'[v] = inbox[v] /\ outbox'[v] = outbox[v]
BY DEF TypeOK, notifyHost, Receives, Lose

\* What becomes of a request to be read: it stays, is executed and answered, is
\* an answer that is reported, or is noted as given up.
LEMMA KeptInbox ==
    ASSUME TypeOK, ShakeInv, Next, NEW v \in Units \ Monitors, NEW b \in Bodied(inbox[v])
    PROVE  \/ b \in Bodied(inbox'[v])
           \/ v \in Computes /\ work_cb(v) /\ b = Head(inbox[v]).body
           \/ v \in Optimizers /\ finished_cb(v) /\ b = Head(inbox[v]).body
           \/ Noted(b)'
<1>0. /\ inbox \in [Units -> Seq(Messages)] /\ inbox[v] \in Seq(Messages) /\ b \in Bodies
      /\ v \in Units
  BY BodiedFacts DEF TypeOK
<1>1. /\ v # acc.who /\ state[v] = "up" /\ inbox[v] # <<>>
  BY InboxFacts
<1>2. CASE inbox'[v] = inbox[v]
  BY <1>2
<1>3. ASSUME NEW type, Receives(v, type)
      PROVE  \/ b \in Bodied(inbox'[v])
             \/ b = Head(inbox[v]).body /\ Head(inbox[v]).type = type /\ type \notin Hand
  <2>1. inbox'[v] = Tail(inbox[v]) /\ Head(inbox[v]).type = type
    BY <1>0, <1>3 DEF Receives
  <2>2. Bodied(inbox[v]) = Bodied(Tail(inbox[v])) \cup ({Head(inbox[v]).body} \cap Bodies)
    BY <1>0, <1>1, BodiedPopped
  <2>3. type \notin Hand
    BY <1>1, <2>1, HeadFacts
  <2> QED
    BY <2>1, <2>2, <2>3
<1>4. ASSUME NEW u \in Units, Start(u) PROVE inbox' = inbox
  BY <1>4 DEF Start
<1>5. ASSUME Lose(v) PROVE Noted(b)'
  <2>1. <<b, "lost">> \in dropped'
    BY <1>5 DEF Lose
  <2> QED
    BY <2>1 DEF Noted
<1>6. ASSUME NEW u \in Units, Accept(u) PROVE inbox'[v] = inbox[v]
  <2>1. state[u] = "started" /\ inbox' = [inbox EXCEPT ![u] = Append(@, Message("UPDATE_UNIT_TYPE", NoUuid, NoUuid, NoBody))]
    BY <1>6 DEF Accept, Push
  <2> QED
    BY <1>0, <1>1, <2>1
<1>7. ASSUME NEW u \in Units, Callback(u) PROVE b \in Bodied(inbox'[v])
  <2>1. PICK m \in Messages, D \in SUBSET Units : Sends(D, m)
    BY <1>7, CallbackEffect
  <2>2. inbox'[v] = inbox[v] \/ inbox'[v] = Append(inbox[v], m)
    BY <1>1, <2>1, SendsEffect
  <2> QED
    BY <1>0, <2>2, BodiedPushed
<1>8. ASSUME Answer PROVE inbox'[v] = inbox[v]
  <2>1. PICK u \in Units : u = acc.who /\ ((\E why : Drop(u, why)) \/ Collides(u) \/ Registers(u))
    BY <1>8, AnswerFacts
  <2> QED
    BY <1>0, <1>1, <2>1 DEF Drop, Collides, Registers
<1>9. ASSUME NEW u, NEW type, NEW t, Ask(u, type, t) PROVE inbox' = inbox
  BY <1>9 DEF Ask
<1>10. ASSUME Unit(v)
       PROVE  \/ b \in Bodied(inbox'[v])
              \/ v \in Computes /\ work_cb(v) /\ b = Head(inbox[v]).body
              \/ v \in Optimizers /\ finished_cb(v) /\ b = Head(inbox[v]).body
              \/ Noted(b)'
  <2>1. CASE updateUnitInfo_cb(v) \/ update_uuid_on_collision(v)
    <3>1. Receives(v, "UPDATE_UNIT_TYPE") \/ Receives(v, "UUID_COLLISION")
      BY <2>1 DEF updateUnitInfo_cb, update_uuid_on_collision
    <3>2. "UPDATE_UNIT_TYPE" \in Hand /\ "UUID_COLLISION" \in Hand
      BY DEF Hand
    <3> QED
      BY <1>3, <3>1, <3>2
  <2>2. CASE Unhandled(v)
    <3>1. Receives(v, Head(inbox[v]).type)
      BY <2>2 DEF Unhandled
    <3>2. CASE b = Head(inbox[v]).body
      <4>1. <<b, "astray">> \in dropped'
        BY <1>0, <2>2, <3>2 DEF Unhandled
      <4> QED
        BY <4>1 DEF Noted
    <3> QED
      BY <1>3, <3>1, <3>2
  <2>3. CASE v \in Computes /\ work_cb(v)
    <3>1. Receives(v, "WORK")
      BY <2>3 DEF work_cb
    <3> QED
      BY <1>3, <2>3, <3>1
  <2>4. CASE v \in Optimizers /\ finished_cb(v)
    <3>1. Receives(v, "TASK_FINISHED")
      BY <2>4 DEF finished_cb
    <3> QED
      BY <1>3, <2>4, <3>1
  <2>5. CASE Build(v) \/ SendWork(v)
    BY <2>5 DEF Build, SendWork
  <2> QED
    BY <1>10, <2>1, <2>2, <2>3, <2>4, <2>5 DEF Unit
<1>11. ASSUME NEW u \in Units, u # v, Unit(u) PROVE inbox'[v] = inbox[v]
  <2>1. (\E type : Receives(u, type)) \/ inbox' = inbox
    BY <1>11 DEF Unit, updateUnitInfo_cb, update_uuid_on_collision, Unhandled, work_cb,
                finished_cb, Build, SendWork
  <2> QED
    BY <1>11, <2>1, OtherQueues
<1>12. ASSUME NEW u \in Units, u # v, Lose(u) PROVE inbox'[v] = inbox[v]
  BY <1>12, OtherQueues
<1> QED
  BY <1>2, <1>4, <1>5, <1>6, <1>7, <1>8, <1>9, <1>10, <1>11, <1>12 DEF Next

\* What becomes of a request on the way to the server: it stays, is passed on to
\* a unit that will read it, or is noted as given up.
LEMMA KeptOutbox ==
    ASSUME TypeOK, ShakeInv, AskInv, HomeInv, Next,
           NEW v \in Units, NEW b \in Bodied(outbox[v])
    PROVE  \/ b \in Bodied(outbox'[v])
           \/ \E u \in Units \ Monitors : b \in Bodied(inbox'[u])
           \/ Noted(b)'
<1>0. /\ outbox \in [Units -> Seq(Messages)] /\ outbox[v] \in Seq(Messages) /\ b \in Bodies
      /\ uuid[v] \in Uuids \cup {NoUuid} /\ inbox \in [Units -> Seq(Messages)]
  BY BodiedFacts DEF TypeOK
<1>1. CASE outbox'[v] = outbox[v]
  BY <1>1
<1>2. ASSUME NEW u \in Units, NEW m \in Messages, notifyHost(u, m) PROVE b \in Bodied(outbox'[v])
  <2>1. CASE u = v
    <3>1. outbox'[v] = Append(outbox[v], m)
      BY <1>0, <1>2, <2>1 DEF notifyHost
    <3> QED
      BY <1>0, <3>1, BodiedPushed
  <2>2. CASE u # v
    BY <1>2, <2>2, OtherQueues
  <2> QED
    BY <2>1, <2>2
<1>3. ASSUME NEW u \in Units, Unit(u) PROVE b \in Bodied(outbox'[v])
  <2>1. CASE updateUnitInfo_cb(u)
    <3>1. notifyHost(u, Message("UPDATE_UNIT_TYPE", uuid[u], NoUuid, NoBody))
      BY <2>1 DEF updateUnitInfo_cb
    <3>2. Message("UPDATE_UNIT_TYPE", uuid[u], NoUuid, NoBody) \in Messages
      BY MadeMessages DEF Hand, TypeOK
    <3> QED
      BY <1>2, <3>1, <3>2
  <2>2. CASE update_uuid_on_collision(u)
    <3>1. PICK n \in Uuids : notifyHost(u, Message("UUID_COLLISION", n, NoUuid, NoBody))
      BY <2>2 DEF update_uuid_on_collision
    <3>2. Message("UUID_COLLISION", n, NoUuid, NoBody) \in Messages
      BY MadeMessages DEF Hand
    <3> QED
      BY <1>2, <3>1, <3>2
  <2>3. CASE u \in Computes /\ work_cb(u)
    <3> DEFINE h == Head(inbox[u])
               m == Message("TASK_FINISHED", uuid[u], h.src, h.body)
    <3>1. notifyHost(u, m) /\ Receives(u, "WORK")
      BY <2>3 DEF work_cb
    <3>2. h \in Messages /\ h.type = "WORK"
      BY <3>1, Popped DEF Receives, TypeOK
    <3>3. uuid[u] \in Uuids \cup {NoUuid}
      BY DEF TypeOK
    <3>4. m \in Messages
      BY <3>2, <3>3, MessageFacts, MadeMessages
    <3> HIDE DEF m
    <3> QED
      BY <1>2, <3>1, <3>4
  <2>4. CASE u \in Optimizers /\ SendWork(u)
    <3>1. notifyHost(u, built[u]) /\ built[u] \in Messages
      BY <2>4 DEF SendWork, TypeOK
    <3> QED
      BY <1>2, <3>1
  <2>5. CASE outbox' = outbox
    BY <2>5
  <2> QED
    BY <1>3, <2>1, <2>2, <2>3, <2>4, <2>5 DEF Unit, Unhandled, finished_cb, Build
<1>4. ASSUME NEW u \in Units, NEW type \in Requests, NEW t \in Uuids \cup {NoUuid}, Ask(u, type, t)
      PROVE  b \in Bodied(outbox'[v])
  <2>1. notifyHost(u, Message(type, uuid[u], t, <<u, 0>>))
    BY <1>4 DEF Ask
  <2>2. Message(type, uuid[u], t, <<u, 0>>) \in Messages
    BY MadeMessages DEF TypeOK
  <2> QED
    BY <1>2, <2>1, <2>2
<1>5. ASSUME Lose(v) PROVE b \in Bodied(outbox'[v]) \/ Noted(b)'
  <2>1. PICK k \in 0 .. Len(outbox[v]) :
          /\ outbox' = [outbox EXCEPT ![v] = SubSeq(@, 1, k)]
          /\ dropped' = dropped \cup
                ((Bodied(inbox[v]) \cup Bodied(SubSeq(outbox[v], k + 1, Len(outbox[v]))))
                 \X {"lost"})
    BY <1>5 DEF Lose
  <2>2. outbox'[v] = SubSeq(outbox[v], 1, k)
    BY <1>0, <2>1
  <2>3. b \in Bodied(SubSeq(outbox[v], 1, k)) \/ b \in Bodied(SubSeq(outbox[v], k + 1, Len(outbox[v])))
    BY <1>0, BodiedCut
  <2>4. b \in Bodied(SubSeq(outbox[v], k + 1, Len(outbox[v]))) => <<b, "lost">> \in dropped'
    BY <2>1
  <2> QED
    BY <2>2, <2>3, <2>4 DEF Noted
<1>6. ASSUME Answer PROVE b \in Bodied(outbox'[v]) \/ Noted(b)'
  <2>1. PICK u \in Units : (\E why : Drop(u, why)) \/ \E k \in 1 .. Len(outbox[u]) : Taken(u, k)
    BY <1>6, AnswerFacts
  <2>2. ASSUME NEW why, Drop(u, why) PROVE b \in Bodied(outbox'[v]) \/ Noted(b)'
    <3>1. /\ outbox' = [outbox EXCEPT ![u] = <<>>]
          /\ dropped' = dropped \cup (Bodied(outbox[u]) \X {why})
      BY <2>2 DEF Drop
    <3>2. CASE u = v
      <4>1. <<b, why>> \in dropped'
        BY <3>1, <3>2
      <4> QED
        BY <4>1 DEF Noted
    <3>3. CASE u # v
      BY <1>0, <3>1, <3>3
    <3> QED
      BY <3>2, <3>3
  <2>3. ASSUME NEW k \in 1 .. Len(outbox[u]), Taken(u, k)
        PROVE  b \in Bodied(outbox'[v]) \/ Noted(b)'
    <3>1. /\ outbox' = [outbox EXCEPT ![u] = SubSeq(@, k + 1, Len(@))]
          /\ dropped' = dropped \cup (Bodied(SubSeq(outbox[u], 1, k)) \X {"coalesced"})
      BY <2>3 DEF Taken
    <3>2. CASE u = v
      <4>1. outbox'[v] = SubSeq(outbox[v], k + 1, Len(outbox[v])) /\ k \in 0 .. Len(outbox[v])
        BY <1>0, <3>1, <3>2
      <4>2. b \in Bodied(SubSeq(outbox[v], 1, k)) \/ b \in Bodied(SubSeq(outbox[v], k + 1, Len(outbox[v])))
        BY <1>0, <4>1, BodiedCut
      <4>3. b \in Bodied(SubSeq(outbox[v], 1, k)) => <<b, "coalesced">> \in dropped'
        BY <3>1, <3>2
      <4> QED
        BY <4>1, <4>2, <4>3 DEF Noted
    <3>3. CASE u # v
      BY <1>0, <3>1, <3>3
    <3> QED
      BY <3>2, <3>3
  <2> QED
    BY <2>1, <2>2, <2>3
<1>7. ASSUME Callback(v)
      PROVE  \/ b \in Bodied(outbox'[v])
             \/ \E u \in Units \ Monitors : b \in Bodied(inbox'[u])
             \/ Noted(b)'
  <2> DEFINE h == Head(outbox[v])
  <2>1. outbox[v] # <<>> /\ outbox'[v] = Tail(outbox[v])
    BY <1>0, <1>7, CallbackEffect
  <2>2. CASE b \in Bodied(Tail(outbox[v]))
    BY <2>1, <2>2
  <2>3. CASE b = h.body
    <3>1. PICK m \in Messages, D \in SUBSET Units : Sends(D, m) /\ Addressed(h, m, D)
      BY <1>7, CallbackEffect
    <3>2. /\ h \in Messages /\ h = outbox[v][1] /\ 1 \in DOMAIN outbox[v]
          /\ h.type = "WORK" => h.tgt = NoUuid
          /\ h.type = "TASK_FINISHED" => AtHome(h.body, h.tgt)
      BY <1>7, ClientHead DEF HomeInv
    <3>3. h.type \in {"WORK", "TASK_FINISHED"}
      BY <1>0, <2>3, <3>2, BodyFacts DEF AskInv, Asked
    <3>4. m = h /\ Accounts(D, m)
      BY <3>1, <3>3 DEF Addressed
    <3>5. CASE Stale(b)
      BY <3>5, ClientsStep DEF Stale, Noted
    <3>6. ASSUME NEW u \in D, state[u] # "lost", ~ Stale(b)
          PROVE  \E w \in Units \ Monitors : b \in Bodied(inbox'[w])
      <4>1. u \in Units \ Monitors
        <5>1. CASE h.type = "WORK"
          <6>1. D \subseteq Computes
            BY <3>1, <3>2, <3>6, <5>1, RoutingAssumption DEF Addressed
          <6> QED
            BY <6>1, RoutingAssumption DEF Units
        <5>2. CASE h.type = "TASK_FINISHED"
          <6>1. u = clients[h.tgt] /\ clients[h.tgt] = b[1]
            BY <2>3, <3>1, <3>2, <3>6, <5>2 DEF Addressed, AtHome
          <6>2. u \in Optimizers
            BY <1>0, <6>1, BodyFacts
          <6> QED
            BY <6>2, RoutingAssumption DEF Units
        <5> QED
          BY <3>3, <5>1, <5>2
      <4>2. inbox'[u] = Append(inbox[u], m)
        BY <3>1, <3>6, <4>1, SendsEffect
      <4>3. b \in Bodied(inbox'[u])
        BY <1>0, <2>3, <3>4, <4>1, <4>2, BodiedPushed
      <4> QED
        BY <4>1, <4>3
    <3> QED
      BY <1>0, <2>3, <3>4, <3>5, <3>6 DEF Accounts, Noted
  <2> QED
    BY <1>0, <2>1, <2>2, <2>3, BodiedPopped
<1>8. ASSUME NEW u \in Units, u # v, Callback(u) \/ Lose(u) PROVE outbox'[v] = outbox[v]
  <2>1. Callback(u) => outbox' = [outbox EXCEPT ![u] = Tail(@)]
    BY CallbackEffect
  <2> QED
    BY <1>0, <1>8, <2>1, OtherQueues
<1>9. ASSUME NEW u \in Units, Start(u) \/ Accept(u) PROVE outbox' = outbox
  BY <1>9 DEF Start, Accept
<1> QED
  BY <1>1, <1>3, <1>4, <1>5, <1>6, <1>7, <1>8, <1>9 DEF Next

\* The accept thread or a receiver of the server will read what v has sent.
Read(v) == v = acc.who \/ \E n \in Uuids : clients[n] = v

LEMMA ReadStep ==
    ASSUME TypeOK, ShakeInv, Next, NEW v \in Units, Read(v), NEW b \in Bodied(outbox[v])
    PROVE  Read(v)' \/ Noted(b)'
<1>0. /\ clients \in [Uuids -> Units \cup {None}] /\ None \notin Units
      /\ acc.pc = "accept" <=> acc.who = None
  BY RoutingAssumption DEF TypeOK
<1>1. CASE acc' = acc /\ clients' = clients
  BY <1>1 DEF Read
<1>2. ASSUME NEW u \in Units, Start(u) \/ Lose(u) \/ Unit(u) PROVE acc' = acc /\ clients' = clients
  BY <1>2 DEF Start, Lose, Unit, updateUnitInfo_cb, update_uuid_on_collision,
              Unhandled, work_cb, finished_cb, Build, SendWork
<1>3. ASSUME NEW u, NEW type, NEW t, Ask(u, type, t) PROVE acc' = acc /\ clients' = clients
  BY <1>3 DEF Ask
<1>4. ASSUME NEW u \in Units, Accept(u) PROVE Read(v)'
  BY <1>0, <1>4 DEF Accept, Read
<1>5. ASSUME NEW u \in Units, Callback(u) PROVE Read(v)' \/ Noted(b)'
  <2>1. acc' = acc /\ \A n \in Uuids : clients'[n] = clients[n] \/ Gone(clients[n])
    BY <1>5, CallbackEffect DEF Forwards, Sends
  <2>2. Gone(v) => Noted(b)'
    BY DEF Gone, Noted
  <2> QED
    BY <2>1, <2>2 DEF Read
<1>6. ASSUME Answer PROVE Read(v)' \/ Noted(b)'
  <2>1. PICK u \in Units :
              /\ u = acc.who
              /\ \/ \E why \in {"lost", "protocol"} : Drop(u, why)
                 \/ /\ Collides(u) \/ Registers(u)
                    /\ uuid[u] \in Uuids
    BY <1>6, AnswerFacts
  <2>2. ASSUME NEW why, Drop(u, why) PROVE Read(v)' \/ Noted(b)'
    <3>1. dropped' = dropped \cup (Bodied(outbox[u]) \X {why}) /\ clients' = clients
      BY <2>2 DEF Drop
    <3>2. v = u => <<b, why>> \in dropped'
      BY <3>1
    <3> QED
      BY <2>1, <3>1, <3>2 DEF Read, Noted
  <2>3. CASE Collides(u)
    BY <2>1, <2>3 DEF Collides, Read
  <2>4. CASE Registers(u) /\ uuid[u] \in Uuids
    <3>1. clients'[uuid[u]] = u /\ \A n \in Uuids : clients[n] # None => clients'[n] = clients[n]
      BY <1>0, <2>4 DEF Registers
    <3> QED
      BY <1>0, <2>1, <2>4, <3>1 DEF Read
  <2> QED
    BY <2>1, <2>2, <2>3, <2>4
<1> QED
  BY <1>1, <1>2, <1>3, <1>4, <1>5, <1>6 DEF Next

LEMMA KeptStep ==
    ASSUME TypeOK, ShakeInv, AskInv, HomeInv, Next, NEW b \in Bodies, Kept(b)
    PROVE  Kept(b)'
<1>0. inbox \in [Units -> Seq(Messages)] /\ outbox \in [Units -> Seq(Messages)]
      /\ finished \in [Optimizers -> Seq(Bodies)]
  BY DEF TypeOK
<1>1. /\ \A u \in Units \ Monitors : b \in Bodied(inbox'[u]) => Kept(b)'
      /\ \A u \in Units : b \in Bodied(outbox'[u]) /\ Read(u)' => Kept(b)'
      /\ \A p \in Optimizers : \A i \in DOMAIN finished'[p] : finished'[p][i] = b => Kept(b)'
      /\ Noted(b)' => Kept(b)'
  BY DEF Kept, Read, Noted
<1>2. ASSUME NEW v \in Units \ Monitors, b \in Bodied(inbox[v]) PROVE Kept(b)'
  <2>1. v \in Units /\ inbox[v] # <<>> /\ uuid[v] \in Uuids /\ clients[uuid[v]] = v
    BY <1>2, InboxFacts
  <2>2. ASSUME v \in Computes, work_cb(v), b = Head(inbox[v]).body PROVE Kept(b)'
    <3> DEFINE h == Head(inbox[v])
               m == Message("TASK_FINISHED", uuid[v], h.src, h.body)
    <3>1. notifyHost(v, m) /\ h.type = "WORK" /\ clients' = clients
      BY <2>2 DEF work_cb, Receives
    <3>2. h \in Messages
      BY <1>0, <2>1, Popped
    <3>3. m \in Messages /\ m.body = b
      BY <2>1, <2>2, <3>1, <3>2, MessageFacts, MadeMessages DEF Message
    <3> HIDE DEF m
    <3>4. outbox'[v] = Append(outbox[v], m)
      BY <1>0, <3>1 DEF notifyHost
    <3>5. b \in Bodied(outbox'[v])
      BY <1>0, <3>3, <3>4, BodiedPushed
    <3>6. Read(v)'
      BY <2>1, <3>1 DEF Read
    <3> QED
      BY <1>1, <3>5, <3>6
  <2>3. ASSUME v \in Optimizers, finished_cb(v), b = Head(inbox[v]).body PROVE Kept(b)'
    <3>1. finished'[v] = Append(finished[v], b)
      BY <2>3, FinishedFacts
    <3>2. finished[v] \in Seq(Bodies)
      BY <1>0, <2>3
    <3>3. Len(finished[v]) + 1 \in DOMAIN finished'[v] /\ finished'[v][Len(finished[v]) + 1] = b
      BY <3>1, <3>2, Pushed
    <3> QED
      BY <1>1, <2>3, <3>3
  <2> QED
    BY <1>1, <1>2, <2>2, <2>3, KeptInbox
<1>3. ASSUME NEW v \in Units, b \in Bodied(outbox[v]), Read(v) PROVE Kept(b)'
  BY <1>1, <1>3, KeptOutbox, ReadStep
<1>4. ASSUME NEW p \in Optimizers, NEW i \in DOMAIN finished[p], finished[p][i] = b
      PROVE  Kept(b)'
  <2>1. i \in DOMAIN finished'[p] /\ finished'[p][i] = b
    <3>1. ASSUME NEW o \in Optimizers, finished_cb(o)
          PROVE  i \in DOMAIN finished'[p] /\ finished'[p][i] = b
      <4> DEFINE c == Head(inbox[o]).body
      <4>1. /\ c \in Bodies /\ finished'[o] = Append(finished[o], c)
            /\ p # o => finished'[p] = finished[p]
        BY <3>1, FinishedFacts
      <4> HIDE DEF c
      <4>2. CASE p = o
        BY <1>0, <1>4, <4>1, <4>2, Pushed
      <4> QED
        BY <1>4, <4>1, <4>2
    <3> QED
      BY <1>4, <3>1, WorkStep
  <2> QED
    BY <1>1, <2>1
<1>5. ASSUME Noted(b) PROVE Kept(b)'
  BY <1>1, <1>5, ClientsStep DEF Noted
<1> QED
  BY <1>2, <1>3, <1>4, <1>5 DEF Kept, Read, Noted

\* A request is sent by SendWork and never before.
LEMMA SentStep ==
    ASSUME TypeOK, ShakeInv, HomeInv, Next, NEW o \in Optimizers, NEW i \in DOMAIN Work[o],
           Sent(o, i)', ~ Sent(o, i)
    PROVE  SendWork(o) /\ built[o].body = <<o, Work[o][i]>>
<1>0. /\ next \in [Optimizers -> Nat \ {0}] /\ i \in Nat
      /\ built \in [Optimizers -> {m \in Messages : m.type = "WORK"} \cup {None}]
  BY RoutingAssumption DEF TypeOK
<1>1. ~ UNCHANGED <<next, built>>
  BY DEF Sent
<1>2. ASSUME NEW p \in Optimizers, Build(p) PROVE FALSE
  <2> DEFINE m == Message("WORK", uuid[p], NoUuid, <<p, Work[p][next[p]]>>)
  <2>1. /\ built' = [built EXCEPT ![p] = m] /\ next' = [next EXCEPT ![p] = @ + 1]
        /\ built[p] = None /\ next[p] <= Len(Work[p]) /\ next[p] \in Nat \ {0}
    BY <1>0, <1>2 DEF Build
  <2>2. m \in Messages
    <3>1. next[p] \in DOMAIN Work[p]
      BY <2>1, RoutingAssumption
    <3>2. <<p, Work[p][next[p]]>> \in Bodies
      BY <3>1, BodyFacts
    <3>3. uuid[p] \in Uuids \cup {NoUuid}
      BY DEF TypeOK, Units
    <3> QED
      BY <3>2, <3>3, MadeMessages
  <2>3. m # None
    BY <2>2, RoutingAssumption
  <2> HIDE DEF m
  <2>4. p = o
    BY <1>0, <2>1 DEF Sent
  <2>5. built'[o] = m /\ next'[o] = next[o] + 1
    BY <1>0, <2>1, <2>4
  <2>6. next[o] + 1 > i /\ (next[o] + 1 = i + 1 => m = None)
    BY <2>5 DEF Sent
  <2>7. next[o] \in Nat
    BY <2>1, <2>4
  <2>8. next[o] > i
    BY <1>0, <2>3, <2>6, <2>7
  <2> QED
    BY <2>1, <2>4, <2>8 DEF Sent
<1>3. PICK p \in Optimizers : SendWork(p)
  BY <1>1, <1>2, WorkStep
<1>4. p = o /\ next[o] = i + 1 /\ built[o] # None
  <2>1. next' = next /\ built' = [built EXCEPT ![p] = None] /\ built[p] # None
    BY <1>3 DEF SendWork
  <2> QED
    BY <1>0, <2>1 DEF Sent
<1>5. next[o] - 1 = i
  BY <1>0, <1>4
<1> QED
  BY <1>3, <1>4, <1>5 DEF HomeInv, HomeBuilt

LEMMA KeptInvStep ==
    ASSUME TypeOK, ShakeInv, AskInv, HomeInv, KeptInv, Next
    PROVE  KeptInv'
<1> SUFFICES ASSUME NEW o \in Optimizers, NEW i \in DOMAIN Work[o], Sent(o, i)'
             PROVE  Kept(<<o, Work[o][i]>>)'
  BY DEF KeptInv
<1> DEFINE b == <<o, Work[o][i]>>
<1>1. b \in Bodies
  BY BodyFacts
<1>2. CASE Sent(o, i)
  <2>1. Kept(b)
    BY <1>2 DEF KeptInv
  <2> HIDE DEF b
  <2>2. Kept(b)'
    BY <1>1, <2>1, KeptStep
  <2> QED
    BY <2>2 DEF b
<1>3. CASE ~ Sent(o, i)
  <2>1. SendWork(o) /\ built[o].body = b
    BY <1>3, SentStep
  <2>2. /\ state[o] = "up" /\ outbox' = [outbox EXCEPT ![o] = Append(@, built[o])]
        /\ acc' = acc /\ clients' = clients /\ built[o] \in Messages /\ o \in Units
    BY <2>1 DEF SendWork, notifyHost, TypeOK, Units
  <2>3. outbox'[o] = Append(outbox[o], built[o]) /\ outbox[o] \in Seq(Messages)
    BY <2>2 DEF TypeOK
  <2>4. b \in Bodied(outbox'[o])
    BY <1>1, <2>1, <2>2, <2>3, BodiedPushed
  <2>5. o = acc.who \/ (uuid[o] \in Uuids /\ clients[uuid[o]] = o)
    BY <2>2 DEF ShakeInv
  <2> HIDE DEF b
  <2>6. Kept(b)'
    BY <2>2, <2>4, <2>5 DEF Kept
  <2> QED
    BY <2>6 DEF b
<1> QED
  BY <1>2, <1>3

\* If no optimizer is lost, every request that was sent is on its way to
\* somebody who will read it, answered, or noted as given up at one of the
\* places where the code gives it up; for any losses of compute units.
THEOREM NoRequestVanishesHolds ==
    ASSUME MayLose \cap Optimizers = {}
    PROVE  Spec => []NoRequestVanishes
<1>1. Init => KeptInv
  <2> SUFFICES ASSUME Init, NEW o \in Optimizers, NEW i \in DOMAIN Work[o] PROVE ~ Sent(o, i)
    BY DEF KeptInv
  <2>1. next[o] = 1 /\ i \in Nat \ {0}
    BY RoutingAssumption DEF Init
  <2> QED
    BY <2>1 DEF Sent
<1>2. RightInv /\ HomeInv /\ KeptInv /\ [Next]_vars => KeptInv'
  <2> SUFFICES ASSUME RightInv, HomeInv, KeptInv, [Next]_vars PROVE KeptInv'
    OBVIOUS
  <2>1. CASE Next
    BY <2>1, KeptInvStep DEF RightInv
  <2>2. CASE UNCHANGED vars
    BY <2>2 DEF vars, KeptInv, Kept, Sent
  <2> QED
    BY <2>1, <2>2
<1>3. RightInv /\ KeptInv => NoRequestVanishes
  <2> SUFFICES ASSUME TypeOK, KeptInv, NEW o \in Optimizers, NEW i \in DOMAIN Work[o], Sent(o, i)
               PROVE  LET b == <<o, Work[o][i]>> IN
                      \/ b \in OnTheWay
                      \/ \E p \in Optimizers : \E k \in DOMAIN finished[p] : finished[p][k] = b
                      \/ \E d \in dropped : d[1] = b
    BY DEF NoRequestVanishes, RightInv
  <2> DEFINE b == <<o, Work[o][i]>>
  <2>1. Kept(b)
    BY DEF KeptInv
  <2> HIDE DEF b
  <2>2. ASSUME NEW u \in Units, b \in Bodied(inbox[u]) PROVE b \in OnTheWay
    BY <2>2 DEF OnTheWay
  <2>3. ASSUME NEW u \in Units, b \in Bodied(outbox[u]), u = acc.who \/ \E n \in Uuids : clients[n] = u
        PROVE  b \in OnTheWay
    <3>1. u \in ClientsOf(Units) \cup ({acc.who} \ {None})
      BY <2>3, RoutingAssumption DEF ClientsOf
    <3> QED
      BY <2>3, <3>1 DEF OnTheWay
  <2>4. \/ b \in OnTheWay
        \/ \E p \in Optimizers : \E k \in DOMAIN finished[p] : finished[p][k] = b
        \/ \E d \in dropped : d[1] = b
    BY <2>1, <2>2, <2>3 DEF Kept
  <2> QED
    BY <2>4 DEF b
<1> QED
  BY <1>1, <1>2, <1>3, HomeHolds, PTL DEF Spec

-----------------------------------------------------------------------------
(* Each request is in one place. *)

\* A queue r that is what is left of q.
Part(q, r) ==
    \/ r = q \/ r = <<>> \/ (q # <<>> /\ r = Tail(q))
    \/ \E k \in 0 .. Len(q) : r = SubSeq(q, 1, k) \/ r = SubSeq(q, k + 1, Len(q))

LEMMA PartFacts ==
    ASSUME NEW q \in Seq(Messages), NEW r, Part(q, r)
    PROVE  Bodied(r) \subseteq Bodied(q) /\ (Once(q) => Once(r))
<1>1. CASE r = <<>>
  <2>1. DOMAIN <<>> = {}
    OBVIOUS
  <2> QED
    BY <1>1, <2>1 DEF Bodied, Once
<1>2. CASE q # <<>> /\ r = Tail(q)
  BY <1>2, BodiedPopped
<1>3. ASSUME NEW k \in 0 .. Len(q), r = SubSeq(q, 1, k) \/ r = SubSeq(q, k + 1, Len(q))
      PROVE  Bodied(r) \subseteq Bodied(q) /\ (Once(q) => Once(r))
  <2>1. /\ Bodied(q) = Bodied(SubSeq(q, 1, k)) \cup Bodied(SubSeq(q, k + 1, Len(q)))
        /\ Once(q) => Once(SubSeq(q, 1, k)) /\ Once(SubSeq(q, k + 1, Len(q)))
    BY BodiedCut
  <2> QED
    BY <1>3, <2>1
<1> QED
  BY <1>1, <1>2, <1>3 DEF Part

LEMMA OncePushed ==
    ASSUME NEW q \in Seq(Messages), NEW m \in Messages, Once(q), m.body \notin Bodied(q)
    PROVE  Once(Append(q, m))
<1> DEFINE p == Append(q, m)
           e == Len(q) + 1
<1>1. /\ \A i \in DOMAIN q : i \in DOMAIN p /\ p[i] = q[i]
      /\ \A i \in DOMAIN p : i \in DOMAIN q \/ i = e
      /\ e \in DOMAIN p /\ p[e] = m
  BY Pushed
<1>2. m.body \in Bodies => \A i \in DOMAIN q : q[i].body # m.body
  BY DEF Bodied
<1> HIDE DEF p, e
<1>3. Once(p)
  BY <1>1, <1>2 DEF Once
<1> QED
  BY <1>3 DEF p

\* What a step makes of the queue from a unit to the server.
LEMMA OutboxForms ==
    ASSUME TypeOK, ShakeInv, Next, NEW v \in Units
    PROVE  \/ Part(outbox[v], outbox'[v])
           \/ \E m \in Messages :
                 /\ outbox'[v] = Append(outbox[v], m)
                 /\ \/ m.body \notin Bodies
                    \/ v \in Optimizers /\ SendWork(v) /\ m = built[v]
                    \/ v \in Computes /\ work_cb(v) /\ m.body = Head(inbox[v]).body
<1>0. /\ outbox \in [Units -> Seq(Messages)] /\ outbox[v] \in Seq(Messages)
      /\ \A u \in Units : uuid[u] \in Uuids \cup {NoUuid} /\ inbox[u] \in Seq(Messages)
  BY DEF TypeOK
<1>1. CASE outbox'[v] = outbox[v]
  BY <1>1 DEF Part
<1>2. ASSUME NEW u \in Units, NEW m \in Messages, notifyHost(u, m)
      PROVE  IF u = v THEN outbox'[v] = Append(outbox[v], m) ELSE outbox'[v] = outbox[v]
  BY <1>0, <1>2 DEF notifyHost
<1>3. ASSUME NEW u \in Units, NEW m \in Messages, notifyHost(u, m), m.body \notin Bodies
      PROVE  \/ outbox'[v] = outbox[v]
             \/ \E n \in Messages : outbox'[v] = Append(outbox[v], n) /\ n.body \notin Bodies
  BY <1>2, <1>3
<1>4. ASSUME NEW u \in Units, updateUnitInfo_cb(u)
      PROVE  \/ outbox'[v] = outbox[v]
             \/ \E n \in Messages : outbox'[v] = Append(outbox[v], n) /\ n.body \notin Bodies
  <2> DEFINE m == Message("UPDATE_UNIT_TYPE", uuid[u], NoUuid, NoBody)
  <2>1. notifyHost(u, m) /\ m \in Messages /\ m.body \notin Bodies
    BY <1>0, <1>4, MadeMessages, BodyFacts DEF updateUnitInfo_cb, Hand, Message
  <2> HIDE DEF m
  <2> QED
    BY <1>3, <2>1
<1>5. ASSUME NEW u \in Units, update_uuid_on_collision(u)
      PROVE  \/ outbox'[v] = outbox[v]
             \/ \E n \in Messages : outbox'[v] = Append(outbox[v], n) /\ n.body \notin Bodies
  <2>1. PICK n \in Uuids : notifyHost(u, Message("UUID_COLLISION", n, NoUuid, NoBody))
    BY <1>5 DEF update_uuid_on_collision
  <2> DEFINE m == Message("UUID_COLLISION", n, NoUuid, NoBody)
  <2>2. notifyHost(u, m) /\ m \in Messages /\ m.body \notin Bodies
    BY <2>1, MadeMessages, BodyFacts DEF Hand, Message
  <2> HIDE DEF m
  <2> QED
    BY <1>3, <2>2
<1>6. ASSUME NEW u \in Units, NEW type \in Requests, NEW t \in Uuids \cup {NoUuid}, Ask(u, type, t)
      PROVE  \/ outbox'[v] = outbox[v]
             \/ \E n \in Messages : outbox'[v] = Append(outbox[v], n) /\ n.body \notin Bodies
  <2> DEFINE m == Message(type, uuid[u], t, <<u, 0>>)
  <2>1. notifyHost(u, m)
    BY <1>6 DEF Ask
  <2>2. m \in Messages /\ m.body \notin Bodies
    BY <1>0, MadeMessages, BodyFacts DEF Message
  <2> HIDE DEF m
  <2> QED
    BY <1>3, <2>1, <2>2
<1>7. ASSUME NEW u \in Computes, work_cb(u)
      PROVE  \/ outbox'[v] = outbox[v]
             \/ \E m \in Messages : /\ outbox'[v] = Append(outbox[v], m)
                                    /\ u = v /\ m.body = Head(inbox[v]).body
  <2> DEFINE h == Head(inbox[u])
             m == Message("TASK_FINISHED", uuid[u], h.src, h.body)
  <2>1. notifyHost(u, m) /\ Receives(u, "WORK") /\ u \in Units
    BY <1>7 DEF work_cb, Units
  <2>2. h \in Messages /\ h.type = "WORK"
    BY <1>0, <2>1, Popped DEF Receives
  <2>3. m \in Messages /\ m.body = h.body
    BY <1>0, <2>1, <2>2, MessageFacts, MadeMessages DEF Message
  <2> HIDE DEF m
  <2> QED
    BY <1>2, <2>1, <2>3
<1>8. ASSUME NEW u \in Optimizers, SendWork(u)
      PROVE  \/ outbox'[v] = outbox[v]
             \/ \E m \in Messages : /\ outbox'[v] = Append(outbox[v], m)
                                    /\ u = v /\ m = built[v]
  <2>1. notifyHost(u, built[u]) /\ built[u] \in Messages /\ u \in Units
    BY <1>8 DEF SendWork, TypeOK, Units
  <2> QED
    BY <1>2, <2>1
<1>9. ASSUME NEW u \in Units, Callback(u) PROVE Part(outbox[v], outbox'[v])
  <2>1. outbox[u] # <<>> /\ outbox' = [outbox EXCEPT ![u] = Tail(@)]
    BY <1>9, CallbackEffect
  <2> QED
    BY <1>0, <2>1 DEF Part
<1>10. ASSUME Answer PROVE Part(outbox[v], outbox'[v])
  <2>1. PICK u \in Units : (\E why : Drop(u, why)) \/ \E k \in 1 .. Len(outbox[u]) : Taken(u, k)
    BY <1>10, AnswerFacts
  <2>2. CASE \E why : Drop(u, why)
    <3>1. outbox' = [outbox EXCEPT ![u] = <<>>]
      BY <2>2 DEF Drop
    <3> QED
      BY <1>0, <3>1 DEF Part
  <2>3. ASSUME NEW k \in 1 .. Len(outbox[u]), Taken(u, k) PROVE Part(outbox[v], outbox'[v])
    <3>1. outbox' = [outbox EXCEPT ![u] = SubSeq(@, k + 1, Len(@))]
      BY <2>3 DEF Taken
    <3>2. CASE u = v
      <4>1. outbox'[v] = SubSeq(outbox[v], k + 1, Len(outbox[v])) /\ k \in 0 .. Len(outbox[v])
        BY <1>0, <3>1, <3>2
      <4> QED
        BY <4>1 DEF Part
    <3>3. CASE u # v
      BY <1>0, <1>1, <3>1, <3>3 DEF Part
    <3> QED
      BY <3>2, <3>3
  <2> QED
    BY <2>1, <2>2, <2>3
<1>11. ASSUME NEW u \in Units, Lose(u) PROVE Part(outbox[v], outbox'[v])
  <2>1. PICK k \in 0 .. Len(outbox[u]) : outbox' = [outbox EXCEPT ![u] = SubSeq(@, 1, k)]
    BY <1>11 DEF Lose
  <2>2. CASE u = v
    <3>1. outbox'[v] = SubSeq(outbox[v], 1, k) /\ k \in 0 .. Len(outbox[v])
      BY <1>0, <2>1, <2>2
    <3> QED
      BY <3>1 DEF Part
  <2>3. CASE u # v
    BY <1>0, <2>1, <2>3 DEF Part
  <2> QED
    BY <2>2, <2>3
<1>12. ASSUME NEW u \in Units, Start(u) \/ Accept(u) \/ Unhandled(u) \/ finished_cb(u) \/ Build(u)
       PROVE  outbox' = outbox
  BY <1>12 DEF Start, Accept, Unhandled, finished_cb, Build
<1> QED
  BY <1>1, <1>4, <1>5, <1>6, <1>7, <1>8, <1>9, <1>10, <1>11, <1>12 DEF Next, Unit

\* What a step makes of the queue from the server to a unit.
LEMMA InboxForms ==
    ASSUME TypeOK, ShakeInv, Next, NEW v \in Units \ Monitors
    PROVE  \/ Part(inbox[v], inbox'[v])
           \/ \E m \in Messages :
                 /\ inbox'[v] = Append(inbox[v], m)
                 /\ \/ m.body \notin Bodies
                    \/ \E u \in Units :
                          /\ Callback(u) /\ m.body = Head(outbox[u]).body
                          /\ \A w \in Units \ Monitors : w # v => Part(inbox[w], inbox'[w])
<1>0. /\ inbox \in [Units -> Seq(Messages)] /\ inbox[v] \in Seq(Messages) /\ v \in Units
  BY DEF TypeOK
<1>1. CASE inbox'[v] = inbox[v]
  BY <1>1 DEF Part
<1>2. ASSUME NEW u \in Units, NEW type, Receives(u, type) PROVE Part(inbox[v], inbox'[v])
  BY <1>0, <1>2 DEF Receives, Part
<1>3. ASSUME NEW u \in Units, Unit(u) PROVE Part(inbox[v], inbox'[v])
  <2>1. (\E type : Receives(u, type)) \/ inbox' = inbox
    BY <1>3 DEF Unit, updateUnitInfo_cb, update_uuid_on_collision, Unhandled, work_cb,
                finished_cb, Build, SendWork
  <2>2. inbox' = inbox => Part(inbox[v], inbox'[v])
    BY DEF Part
  <2> QED
    BY <1>2, <2>1, <2>2
<1>4. ASSUME NEW u \in Units, Start(u) \/ Lose(u) PROVE Part(inbox[v], inbox'[v])
  BY <1>0, <1>4 DEF Start, Lose, Part
<1>5. ASSUME NEW u \in Units, Accept(u)
      PROVE  \/ inbox'[v] = inbox[v]
             \/ \E m \in Messages : inbox'[v] = Append(inbox[v], m) /\ m.body \notin Bodies
  <2> DEFINE m == Message("UPDATE_UNIT_TYPE", NoUuid, NoUuid, NoBody)
  <2>1. inbox' = [inbox EXCEPT ![u] = Append(@, m)]
    BY <1>5 DEF Accept, Push
  <2>2. m \in Messages /\ m.body \notin Bodies
    BY MadeMessages, BodyFacts DEF Hand, Message
  <2> HIDE DEF m
  <2> QED
    BY <1>0, <2>1, <2>2
<1>6. ASSUME Answer
      PROVE  \/ Part(inbox[v], inbox'[v])
             \/ \E m \in Messages : inbox'[v] = Append(inbox[v], m) /\ m.body \notin Bodies
  <2>1. PICK u \in Units : \/ \E why : Drop(u, why)
                           \/ inbox[u] = <<>> /\ (Collides(u) \/ Registers(u))
    BY <1>6, AnswerFacts
  <2>2. CASE \E why : Drop(u, why)
    <3>1. inbox' = [inbox EXCEPT ![u] = <<>>]
      BY <2>2 DEF Drop
    <3> QED
      BY <1>0, <3>1 DEF Part
  <2>3. CASE inbox[u] = <<>> /\ Collides(u)
    <3> DEFINE m == Message("UUID_COLLISION", NoUuid, NoUuid, NoBody)
    <3>1. inbox' = [inbox EXCEPT ![u] = <<m>>]
      BY <2>3 DEF Collides
    <3>2. m \in Messages /\ m.body \notin Bodies
      BY MadeMessages, BodyFacts DEF Hand, Message
    <3> HIDE DEF m
    <3>3. <<m>> = Append(<<>>, m)
      OBVIOUS
    <3>4. CASE u = v
      <4>1. inbox'[v] = Append(inbox[v], m)
        BY <1>0, <2>3, <3>1, <3>3, <3>4
      <4> QED
        BY <3>2, <4>1
    <3>5. CASE u # v
      BY <1>0, <3>1, <3>5 DEF Part
    <3> QED
      BY <3>4, <3>5
  <2>4. CASE Registers(u)
    BY <2>4 DEF Registers, Part
  <2> QED
    BY <2>1, <2>2, <2>3, <2>4
<1>7. ASSUME NEW u, NEW type, NEW t, Ask(u, type, t) PROVE inbox' = inbox
  BY <1>7 DEF Ask
<1>8. ASSUME NEW u \in Units, Callback(u)
      PROVE  \/ Part(inbox[v], inbox'[v])
             \/ \E m \in Messages :
                 /\ inbox'[v] = Append(inbox[v], m) /\ m.body = Head(outbox[u]).body
                 /\ \A w \in Units \ Monitors : w # v => Part(inbox[w], inbox'[w])
  <2> DEFINE h == Head(outbox[u])
  <2>1. PICK m \in Messages, D \in SUBSET Units : Sends(D, m) /\ Addressed(h, m, D)
    BY <1>8, CallbackEffect
  <2>2. ASSUME NEW w \in Units \ Monitors
        PROVE  \/ Part(inbox[w], inbox'[w])
               \/ w \in D /\ inbox'[w] = Append(inbox[w], m)
    BY <2>1, SendsEffect DEF Part
  <2>3. D # {} => m.body = h.body
    <3> HIDE DEF h
    <3> QED
      BY <2>1 DEF Addressed, Message
  <2>4. \A w, x \in D : w = x
    BY <2>1 DEF Sends
  <2> HIDE DEF h
  <2>5. CASE v \in D /\ inbox'[v] = Append(inbox[v], m)
    <3>1. \A w \in Units \ Monitors : w # v => Part(inbox[w], inbox'[w])
      BY <2>2, <2>4, <2>5
    <3> QED
      BY <2>1, <2>3, <2>5, <3>1 DEF h
  <2> QED
    BY <2>2, <2>5
<1> QED
  BY <1>1, <1>3, <1>4, <1>5, <1>6, <1>7, <1>8 DEF Next

\* How a request comes to place p: from place s, which gives it up.
Came(s, p) ==
    \/ p[1] = "out" /\ p[2] \in Optimizers /\ s = <<"built", p[2]>>
    \/ p[1] = "out" /\ p[2] \in Computes /\ s = <<"in", p[2]>>
    \/ p[1] = "done" /\ p[2] \in Optimizers /\ s = <<"in", p[2]>>
    \/ /\ p[1] = "in" /\ s[1] = "out"
       /\ \A w \in Units \ Monitors : w # p[2] => Part(inbox[w], inbox'[w])

\* The head of a queue is held by it until it is taken.
LEMMA HeadHeld ==
    ASSUME TypeOK, NEW v \in Units, NEW b \in Bodies
    PROVE  /\ inbox[v] # <<>> /\ b = Head(inbox[v]).body /\ inbox'[v] = Tail(inbox[v]) =>
                b \in Bodied(inbox[v]) /\ (Once(inbox[v]) => b \notin Bodied(inbox'[v]))
           /\ outbox[v] # <<>> /\ b = Head(outbox[v]).body /\ outbox'[v] = Tail(outbox[v]) =>
                b \in Bodied(outbox[v]) /\ (Once(outbox[v]) => b \notin Bodied(outbox'[v]))
<1>0. inbox[v] \in Seq(Messages) /\ outbox[v] \in Seq(Messages)
  BY DEF TypeOK
<1>1. inbox[v] # <<>> =>
        /\ Bodied(inbox[v]) = Bodied(Tail(inbox[v])) \cup ({Head(inbox[v]).body} \cap Bodies)
        /\ Once(inbox[v]) => Head(inbox[v]).body \notin Bodied(Tail(inbox[v]))
  BY <1>0, BodiedPopped
<1>2. outbox[v] # <<>> =>
        /\ Bodied(outbox[v]) = Bodied(Tail(outbox[v])) \cup ({Head(outbox[v]).body} \cap Bodies)
        /\ Once(outbox[v]) => Head(outbox[v]).body \notin Bodied(Tail(outbox[v]))
  BY <1>0, BodiedPopped
<1> QED
  BY <1>1, <1>2

\* The places by their kind.
LEMMA HoldsFacts ==
    ASSUME NEW v, NEW b
    PROVE  /\ Holds(<<"in", v>>, b) <=> v \notin Monitors /\ b \in Bodied(inbox[v])
           /\ Holds(<<"out", v>>, b) <=> b \in Bodied(outbox[v])
           /\ Holds(<<"done", v>>, b) <=>
                 v \in Optimizers /\ \E i \in DOMAIN finished[v] : finished[v][i] = b
           /\ Holds(<<"built", v>>, b) <=>
                 v \in Optimizers /\ built[v] # None /\ built[v].body = b
           /\ Holds(<<"in", v>>, b)' <=> v \notin Monitors /\ b \in Bodied(inbox'[v])
           /\ Holds(<<"out", v>>, b)' <=> b \in Bodied(outbox'[v])
           /\ Holds(<<"done", v>>, b)' <=>
                 v \in Optimizers /\ \E i \in DOMAIN finished'[v] : finished'[v][i] = b
           /\ Holds(<<"built", v>>, b)' <=>
                 v \in Optimizers /\ built'[v] # None /\ built'[v].body = b
<1>1. /\ <<"in", v>>[1] = "in" /\ <<"out", v>>[1] = "out" /\ <<"done", v>>[1] = "done"
      /\ <<"built", v>>[1] = "built" /\ <<"in", v>>[2] = v /\ <<"out", v>>[2] = v
      /\ <<"done", v>>[2] = v /\ <<"built", v>>[2] = v
  OBVIOUS
<1> QED
  BY <1>1 DEF Holds

\* A place that gives a request up.
Leaves(s, b) == s \in Places /\ Holds(s, b) /\ ~ Holds(s, b)'

\* A request comes to a place from one that gives it up, unless it is built.
LEMMA HoldsStep ==
    ASSUME TypeOK, ShakeInv, OnceInv, Next, NEW v \in Units, NEW b \in Bodies
    PROVE  /\ Holds(<<"out", v>>, b)' => Holds(<<"out", v>>, b) \/
                \E s : Leaves(s, b) /\ Came(s, <<"out", v>>)
           /\ Holds(<<"in", v>>, b)' => Holds(<<"in", v>>, b) \/
                \E s : Leaves(s, b) /\ Came(s, <<"in", v>>)
           /\ Holds(<<"done", v>>, b)' => Holds(<<"done", v>>, b) \/
                \E s : Leaves(s, b) /\ Came(s, <<"done", v>>)
           /\ Holds(<<"built", v>>, b)' => Holds(<<"built", v>>, b) \/
                (v \in Optimizers /\ Build(v) /\ b = <<v, Work[v][next[v]]>>)
<1>0. /\ inbox \in [Units -> Seq(Messages)] /\ outbox \in [Units -> Seq(Messages)]
      /\ finished \in [Optimizers -> Seq(Bodies)]
      /\ built \in [Optimizers -> {m \in Messages : m.type = "WORK"} \cup {None}]
      /\ \A u \in Units : inbox[u] \in Seq(Messages) /\ outbox[u] \in Seq(Messages)
      /\ \A u \in Units : Once(outbox[u]) /\ (u \notin Monitors => Once(inbox[u]))
      /\ (Optimizers \cup Computes) \cap Monitors = {}
      /\ \A u \in Units : <<"in", u>> \in Places /\ <<"out", u>> \in Places /\ <<"built", u>> \in Places
  BY RoutingAssumption DEF TypeOK, OnceInv, Places
<1>1. ASSUME NEW c \in Units \ Monitors, NEW type, Receives(c, type), b = Head(inbox[c]).body
      PROVE  Leaves(<<"in", c>>, b)
  <2>1. inbox[c] # <<>> /\ inbox'[c] = Tail(inbox[c]) /\ c \in Units
    BY <1>0, <1>1 DEF Receives
  <2>2. b \in Bodied(inbox[c]) /\ b \notin Bodied(inbox'[c])
    BY <1>0, <1>1, <2>1, HeadHeld
  <2> QED
    BY <1>0, <1>1, <2>2, HoldsFacts DEF Leaves
<1>2. ASSUME Holds(<<"out", v>>, b)', ~ Holds(<<"out", v>>, b)
      PROVE  \E s : Leaves(s, b) /\ Came(s, <<"out", v>>)
  <2>1. b \in Bodied(outbox'[v]) /\ b \notin Bodied(outbox[v])
    BY <1>2, HoldsFacts
  <2>2. ~ Part(outbox[v], outbox'[v])
    BY <1>0, <2>1, PartFacts
  <2>3. PICK m \in Messages :
                 /\ outbox'[v] = Append(outbox[v], m)
                 /\ \/ m.body \notin Bodies
                    \/ v \in Optimizers /\ SendWork(v) /\ m = built[v]
                    \/ v \in Computes /\ work_cb(v) /\ m.body = Head(inbox[v]).body
    BY <2>2, OutboxForms
  <2>4. m.body = b
    BY <1>0, <2>1, <2>3, BodiedPushed
  <2>5. <<"out", v>>[1] = "out" /\ <<"out", v>>[2] = v
    OBVIOUS
  <2>6. CASE v \in Optimizers /\ SendWork(v) /\ m = built[v]
    <3>1. built[v] # None /\ built' = [built EXCEPT ![v] = None]
      BY <2>6 DEF SendWork
    <3>2. built'[v] = None
      BY <1>0, <2>6, <3>1
    <3>3. Leaves(<<"built", v>>, b)
      BY <1>0, <2>4, <2>6, <3>1, <3>2, HoldsFacts DEF Leaves
    <3>4. Came(<<"built", v>>, <<"out", v>>)
      BY <2>5, <2>6 DEF Came
    <3> QED
      BY <3>3, <3>4
  <2>7. CASE v \in Computes /\ work_cb(v) /\ m.body = Head(inbox[v]).body
    <3>1. Receives(v, "WORK") /\ v \in Units \ Monitors
      BY <1>0, <2>7 DEF work_cb
    <3>2. Leaves(<<"in", v>>, b)
      BY <1>1, <2>4, <2>7, <3>1
    <3>3. Came(<<"in", v>>, <<"out", v>>)
      BY <2>5, <2>7 DEF Came
    <3> QED
      BY <3>2, <3>3
  <2> QED
    BY <2>3, <2>4, <2>6, <2>7
<1>3. ASSUME Holds(<<"in", v>>, b)', ~ Holds(<<"in", v>>, b)
      PROVE  \E s : Leaves(s, b) /\ Came(s, <<"in", v>>)
  <2>1. b \in Bodied(inbox'[v]) /\ b \notin Bodied(inbox[v]) /\ v \in Units \ Monitors
    BY <1>3, HoldsFacts
  <2>2. ~ Part(inbox[v], inbox'[v])
    BY <1>0, <2>1, PartFacts
  <2>3. PICK m \in Messages :
                 /\ inbox'[v] = Append(inbox[v], m)
                 /\ \/ m.body \notin Bodies
                    \/ \E u \in Units :
                          /\ Callback(u) /\ m.body = Head(outbox[u]).body
                          /\ \A w \in Units \ Monitors : w # v => Part(inbox[w], inbox'[w])
    BY <2>1, <2>2, InboxForms
  <2>4. m.body = b
    BY <1>0, <2>1, <2>3, BodiedPushed
  <2>5. PICK u \in Units :
                          /\ Callback(u) /\ m.body = Head(outbox[u]).body
                          /\ \A w \in Units \ Monitors : w # v => Part(inbox[w], inbox'[w])
    BY <2>3, <2>4
  <2>6. outbox[u] # <<>> /\ outbox'[u] = Tail(outbox[u])
    BY <1>0, <2>5, CallbackEffect
  <2>7. b \in Bodied(outbox[u]) /\ b \notin Bodied(outbox'[u])
    BY <1>0, <2>4, <2>5, <2>6, HeadHeld
  <2>8. Leaves(<<"out", u>>, b)
    BY <1>0, <2>7, HoldsFacts DEF Leaves
  <2>9. /\ <<"in", v>>[1] = "in" /\ <<"in", v>>[2] = v /\ <<"out", u>>[1] = "out"
    OBVIOUS
  <2>10. Came(<<"out", u>>, <<"in", v>>)
    BY <2>5, <2>9 DEF Came
  <2> QED
    BY <2>8, <2>10
<1>4. ASSUME Holds(<<"done", v>>, b)', ~ Holds(<<"done", v>>, b)
      PROVE  \E s : Leaves(s, b) /\ Came(s, <<"done", v>>)
  <2>1. /\ v \in Optimizers /\ ~ \E i \in DOMAIN finished[v] : finished[v][i] = b
        /\ \E i \in DOMAIN finished'[v] : finished'[v][i] = b
    BY <1>4, HoldsFacts
  <2>2. PICK o \in Optimizers : finished_cb(o)
    BY <2>1, WorkStep
  <2> DEFINE c == Head(inbox[o]).body
  <2>3. /\ c \in Bodies /\ o \in Units \ Monitors
        /\ finished'[o] = Append(finished[o], c)
        /\ \A p \in Optimizers : p # o => finished'[p] = finished[p]
    BY <2>2, FinishedFacts
  <2> HIDE DEF c
  <2>4. o = v
    BY <2>1, <2>3
  <2>5. b = c
    <3>1. PICK i \in DOMAIN finished'[v] : finished'[v][i] = b
      BY <2>1
    <3>2. finished'[v] = Append(finished[v], c) /\ finished[v] \in Seq(Bodies)
      BY <1>0, <2>1, <2>3, <2>4
    <3>3. (i \in DOMAIN finished[v] /\ finished'[v][i] = finished[v][i]) \/ finished'[v][i] = c
      BY <2>3, <3>1, <3>2, Pushed
    <3> QED
      BY <2>1, <3>1, <3>3
  <2>6. Receives(v, "TASK_FINISHED")
    BY <2>2, <2>4 DEF finished_cb
  <2>7. Leaves(<<"in", v>>, b)
    BY <1>1, <2>3, <2>4, <2>5, <2>6 DEF c
  <2>8. <<"done", v>>[1] = "done" /\ <<"done", v>>[2] = v
    OBVIOUS
  <2>9. Came(<<"in", v>>, <<"done", v>>)
    BY <2>1, <2>8 DEF Came
  <2> QED
    BY <2>7, <2>9
<1>5. ASSUME Holds(<<"built", v>>, b)', ~ Holds(<<"built", v>>, b)
      PROVE  v \in Optimizers /\ Build(v) /\ b = <<v, Work[v][next[v]]>>
  <2>1. /\ v \in Optimizers /\ built'[v] # None /\ built'[v].body = b
        /\ built'[v] # built[v]
    BY <1>5, HoldsFacts
  <2>2. PICK o \in Optimizers : Build(o) \/ SendWork(o)
    BY <2>1, WorkStep
  <2>3. ~ SendWork(o)
    BY <1>0, <2>1 DEF SendWork
  <2> DEFINE m == Message("WORK", uuid[o], NoUuid, <<o, Work[o][next[o]]>>)
  <2>4. built' = [built EXCEPT ![o] = m]
    BY <2>2, <2>3 DEF Build
  <2>5. m.body = <<o, Work[o][next[o]]>>
    BY DEF Message
  <2> HIDE DEF m
  <2>6. o = v
    BY <1>0, <2>1, <2>4
  <2>7. built'[v] = m
    BY <1>0, <2>4, <2>6
  <2> QED
    BY <2>1, <2>2, <2>3, <2>5, <2>6, <2>7
<1> QED
  BY <1>2, <1>3, <1>4, <1>5

LEMMA PlaceStep ==
    ASSUME TypeOK, ShakeInv, OnceInv, Next, NEW p \in Places, NEW b \in Bodies, Holds(p, b)'
    PROVE  \/ Holds(p, b)
           \/ \E s : Leaves(s, b) /\ Came(s, p)
           \/ /\ p[2] \in Optimizers /\ p = <<"built", p[2]>> /\ Build(p[2])
              /\ b = <<p[2], Work[p[2]][next[p[2]]]>>
<1>1. PICK v \in Units : p = <<"in", v>> \/ p = <<"out", v>> \/ p = <<"done", v>> \/ p = <<"built", v>>
  BY DEF Places
<1>2. p[2] = v
  BY <1>1
<1>3. CASE p = <<"in", v>>
  BY <1>3, HoldsStep
<1>4. CASE p = <<"out", v>>
  BY <1>4, HoldsStep
<1>5. CASE p = <<"done", v>>
  BY <1>5, HoldsStep
<1>6. CASE p = <<"built", v>>
  BY <1>2, <1>6, HoldsStep
<1> QED
  BY <1>1, <1>3, <1>4, <1>5, <1>6

\* No optimizer gives two of its requests the same number.
DistinctWork ==
    \A o \in Optimizers : \A i, j \in DOMAIN Work[o] : Work[o][i] = Work[o][j] => i = j

\* A request that is being built is nowhere yet.
LEMMA BuildFresh ==
    ASSUME TypeOK, OnceInv, DistinctWork, NEW o \in Optimizers, Build(o), NEW p \in Places
    PROVE  ~ Holds(p, <<o, Work[o][next[o]]>>)
<1>0. next[o] \in Nat \ {0} /\ next[o] <= Len(Work[o])
  BY DEF TypeOK, Build
<1>1. next[o] \in DOMAIN Work[o]
  BY <1>0, RoutingAssumption
<1> DEFINE b == <<o, Work[o][next[o]]>>
<1>2. b \in Bodies /\ b[1] = o /\ b[2] = Work[o][next[o]]
  BY <1>1, BodyFacts
<1> HIDE DEF b
<1>3. ASSUME Holds(p, b) PROVE FALSE
  <2>1. PICK k \in DOMAIN Work[o] : k < next[o] /\ b[2] = Work[o][k]
    BY <1>2, <1>3 DEF OnceInv
  <2>2. k = next[o]
    BY <1>1, <1>2, <2>1 DEF DistinctWork
  <2> QED
    BY <1>0, <2>1, <2>2
<1> QED
  BY <1>3 DEF b

LEMMA UniqueStep ==
    ASSUME TypeOK, ShakeInv, OnceInv, DistinctWork, Next,
           NEW b \in Bodies, NEW p \in Places, NEW q \in Places, Holds(p, b)', Holds(q, b)'
    PROVE  p = q
<1>0. \A s, t \in Places : Holds(s, b) /\ Holds(t, b) => s = t
  BY DEF OnceInv
<1>1. ASSUME NEW r \in Places, Holds(r, b)', NEW s, Leaves(s, b) PROVE ~ Holds(r, b)
  BY <1>0, <1>1 DEF Leaves
<1>2. CASE Holds(p, b) /\ Holds(q, b)
  BY <1>0, <1>2
<1>3. ASSUME NEW o \in Optimizers, Build(o), b = <<o, Work[o][next[o]]>>
      PROVE  p = <<"built", o>> /\ q = <<"built", o>>
  <2>1. \A s \in Places : ~ Holds(s, b)
    BY <1>3, BuildFresh
  <2>2. \A s : ~ Leaves(s, b)
    BY <2>1 DEF Leaves
  <2>3. /\ p[2] \in Optimizers /\ p = <<"built", p[2]>> /\ b = <<p[2], Work[p[2]][next[p[2]]]>>
        /\ q[2] \in Optimizers /\ q = <<"built", q[2]>> /\ b = <<q[2], Work[q[2]][next[q[2]]]>>
    BY <2>1, <2>2, PlaceStep
  <2>4. p[2] = o /\ q[2] = o
    BY <1>3, <2>3
  <2> QED
    BY <2>3, <2>4
<1>4. ASSUME NEW s, NEW t, Leaves(s, b), Leaves(t, b), Came(s, p), Came(t, q),
             ~ Holds(p, b), ~ Holds(q, b)
      PROVE  p = q
  <2>1. s = t /\ s \in Places
    BY <1>0, <1>4 DEF Leaves
  <2>2. PICK v \in Units, w \in Units :
           /\ p \in {<<"in", v>>, <<"out", v>>, <<"done", v>>, <<"built", v>>}
           /\ q \in {<<"in", w>>, <<"out", w>>, <<"done", w>>, <<"built", w>>}
    BY DEF Places
  <2>3. p[2] = v /\ q[2] = w
    BY <2>2
  <2>4. CASE p[1] = "in" /\ q[1] = "in"
    <3>1. p = <<"in", v>> /\ q = <<"in", w>>
      BY <2>2, <2>4
    <3>2. /\ w \in Units \ Monitors /\ b \in Bodied(inbox'[w]) /\ b \notin Bodied(inbox[w])
      BY <1>4, <3>1, HoldsFacts
    <3>3. ~ Part(inbox[w], inbox'[w])
      <4>1. inbox[w] \in Seq(Messages)
        BY DEF TypeOK
      <4> QED
        BY <3>2, <4>1, PartFacts
    <3>4. \A x \in Units \ Monitors : x # v => Part(inbox[x], inbox'[x])
      BY <1>4, <2>3, <2>4 DEF Came
    <3>5. v = w
      BY <3>2, <3>3, <3>4
    <3> QED
      BY <3>1, <3>5
  <2>5. CASE ~ (p[1] = "in" /\ q[1] = "in")
    <3>1. Optimizers \cap Computes = {}
      BY RoutingAssumption
    <3>2. s[1] = "out" \/ s = <<"built", p[2]>> \/ s = <<"in", p[2]>>
      BY <1>4 DEF Came
    <3>3. p[1] = q[1] /\ p[2] = q[2]
      <4>1. CASE s[1] = "out"
        <5>1. p[1] = "in" /\ q[1] = "in"
          BY <1>4, <2>1, <4>1 DEF Came
        <5> QED
          BY <2>5, <5>1
      <4>2. CASE s[1] = "built"
        <5>1. p[1] = "out" /\ q[1] = "out" /\ s = <<"built", p[2]>> /\ s = <<"built", q[2]>>
          BY <1>4, <2>1, <4>2 DEF Came
        <5> QED
          BY <5>1
      <4>3. CASE s[1] = "in"
        <5>1. s = <<"in", p[2]>> /\ s = <<"in", q[2]>>
          BY <1>4, <2>1, <4>3 DEF Came
        <5>2. p[2] = q[2]
          BY <5>1
        <5>3. /\ (p[1] = "out" /\ p[2] \in Computes) \/ (p[1] = "done" /\ p[2] \in Optimizers)
              /\ (q[1] = "out" /\ q[2] \in Computes) \/ (q[1] = "done" /\ q[2] \in Optimizers)
          BY <1>4, <2>1, <4>3 DEF Came
        <5> QED
          BY <3>1, <5>2, <5>3
      <4> QED
        BY <3>2, <4>1, <4>2, <4>3
    <3> QED
      BY <2>2, <2>3, <3>3
  <2> QED
    BY <2>4, <2>5
<1>5. CASE \E o \in Optimizers : Build(o) /\ b = <<o, Work[o][next[o]]>>
  BY <1>3, <1>5
<1>6. CASE ~ \E o \in Optimizers : Build(o) /\ b = <<o, Work[o][next[o]]>>
  <2>1. \/ Holds(p, b)
        \/ \E s : Leaves(s, b) /\ Came(s, p)
    BY <1>6, PlaceStep
  <2>2. \/ Holds(q, b)
        \/ \E s : Leaves(s, b) /\ Came(s, q)
    BY <1>6, PlaceStep
  <2> QED
    BY <1>1, <1>2, <1>4, <2>1, <2>2
<1> QED
  BY <1>5, <1>6

LEMMA OnceQueuesStep ==
    ASSUME TypeOK, ShakeInv, OnceInv, Next, NEW v \in Units
    PROVE  Once(outbox'[v]) /\ (v \notin Monitors => Once(inbox'[v]))
<1>0. /\ inbox[v] \in Seq(Messages) /\ outbox[v] \in Seq(Messages)
      /\ Once(outbox[v]) /\ (v \notin Monitors => Once(inbox[v]))
      /\ \A u \in Units : outbox[u] \in Seq(Messages)
      /\ \A u \in Units : <<"in", u>> \in Places /\ <<"out", u>> \in Places /\ <<"built", u>> \in Places
      /\ (Optimizers \cup Computes) \cap Monitors = {}
  BY RoutingAssumption DEF TypeOK, OnceInv, Places
<1>1. \A b \in Bodies : \A p, q \in Places : Holds(p, b) /\ Holds(q, b) => p = q
  BY DEF OnceInv
<1>2. Once(outbox'[v])
  <2>1. CASE Part(outbox[v], outbox'[v])
    BY <1>0, <2>1, PartFacts
  <2>2. ASSUME NEW m \in Messages, outbox'[v] = Append(outbox[v], m), m.body \in Bodies,
               \/ v \in Optimizers /\ SendWork(v) /\ m = built[v]
               \/ v \in Computes /\ work_cb(v) /\ m.body = Head(inbox[v]).body
        PROVE  m.body \notin Bodied(outbox[v])
    <3> SUFFICES ASSUME m.body \in Bodied(outbox[v]) PROVE FALSE
      OBVIOUS
    <3>1. Holds(<<"out", v>>, m.body)
      BY HoldsFacts
    <3>2. <<"out", v>> # <<"built", v>> /\ <<"out", v>> # <<"in", v>>
      OBVIOUS
    <3>3. CASE v \in Optimizers /\ SendWork(v) /\ m = built[v]
      <4>1. Holds(<<"built", v>>, m.body)
        BY <3>3, HoldsFacts DEF SendWork
      <4> QED
        BY <1>0, <1>1, <2>2, <3>1, <3>2, <4>1
    <3>4. CASE v \in Computes /\ work_cb(v) /\ m.body = Head(inbox[v]).body
      <4>1. inbox[v] # <<>> /\ v \notin Monitors
        BY <1>0, <3>4 DEF work_cb, Receives
      <4>2. m.body \in Bodied(inbox[v])
        BY <1>0, <2>2, <3>4, <4>1, BodiedPopped
      <4>3. Holds(<<"in", v>>, m.body)
        BY <4>1, <4>2, HoldsFacts
      <4> QED
        BY <1>0, <1>1, <2>2, <3>1, <3>2, <4>3
    <3> QED
      BY <2>2, <3>3, <3>4
  <2>3. ASSUME NEW m \in Messages, m.body \notin Bodies PROVE m.body \notin Bodied(outbox[v])
    BY <1>0, <2>3, BodiedFacts
  <2> QED
    BY <1>0, <2>1, <2>2, <2>3, OutboxForms, OncePushed
<1>3. ASSUME v \notin Monitors PROVE Once(inbox'[v])
  <2>1. CASE Part(inbox[v], inbox'[v])
    BY <1>0, <1>3, <2>1, PartFacts
  <2>2. ASSUME NEW m \in Messages, m.body \in Bodies, NEW u \in Units,
               Callback(u), m.body = Head(outbox[u]).body
        PROVE  m.body \notin Bodied(inbox[v])
    <3> SUFFICES ASSUME m.body \in Bodied(inbox[v]) PROVE FALSE
      OBVIOUS
    <3>1. Holds(<<"in", v>>, m.body)
      BY <1>3, HoldsFacts
    <3>2. outbox[u] # <<>> /\ outbox[u] \in Seq(Messages)
      BY <1>0, <2>2, CallbackEffect
    <3>3. m.body \in Bodied(outbox[u])
      BY <2>2, <3>2, BodiedPopped
    <3>4. Holds(<<"out", u>>, m.body) /\ <<"in", v>> # <<"out", u>>
      BY <3>3, HoldsFacts
    <3> QED
      BY <1>0, <1>1, <2>2, <3>1, <3>4
  <2>3. ASSUME NEW m \in Messages, m.body \notin Bodies PROVE m.body \notin Bodied(inbox[v])
    BY <1>0, <2>3, BodiedFacts
  <2>4. \/ Part(inbox[v], inbox'[v])
        \/ \E m \in Messages : inbox'[v] = Append(inbox[v], m) /\ m.body \notin Bodied(inbox[v])
    BY <1>3, <2>2, <2>3, InboxForms
  <2> QED
    BY <1>0, <1>3, <2>1, <2>4, OncePushed
<1> QED
  BY <1>2, <1>3

LEMMA FinishedOnceStep ==
    ASSUME TypeOK, ShakeInv, OnceInv, Next, NEW p \in Optimizers,
           NEW i \in DOMAIN finished'[p], NEW j \in DOMAIN finished'[p],
           finished'[p][i] = finished'[p][j]
    PROVE  i = j
<1>0. /\ finished[p] \in Seq(Bodies)
      /\ \A k, l \in DOMAIN finished[p] : finished[p][k] = finished[p][l] => k = l
      /\ inbox \in [Units -> Seq(Messages)] /\ Optimizers \subseteq Units
  BY DEF TypeOK, OnceInv, Units
<1>1. CASE finished'[p] = finished[p]
  BY <1>0, <1>1
<1>2. ASSUME finished_cb(p) PROVE i = j
  <2> DEFINE b == Head(inbox[p]).body
             e == Len(finished[p]) + 1
  <2>1. /\ b \in Bodies /\ p \in Units \ Monitors /\ inbox[p] # <<>>
        /\ finished'[p] = Append(finished[p], b)
    BY <1>2, FinishedFacts
  <2>2. b \in Bodied(inbox[p])
    BY <1>0, <2>1, BodiedPopped
  <2>3. ASSUME NEW k \in DOMAIN finished[p], finished[p][k] = b PROVE FALSE
    <3>1. Holds(<<"in", p>>, b) /\ Holds(<<"done", p>>, b)
      BY <2>1, <2>2, <2>3, HoldsFacts
    <3>2. <<"in", p>> \in Places /\ <<"done", p>> \in Places /\ <<"in", p>> # <<"done", p>>
      BY <1>0 DEF Places
    <3> QED
      BY <2>1, <3>1, <3>2 DEF OnceInv
  <2> HIDE DEF b
  <2>4. /\ \A k \in DOMAIN finished'[p] : k \in DOMAIN finished[p] \/ k = e
        /\ \A k \in DOMAIN finished[p] : finished'[p][k] = finished[p][k]
        /\ finished'[p][e] = b
    BY <1>0, <2>1, Pushed
  <2> HIDE DEF e
  <2> QED
    BY <1>0, <2>3, <2>4
<1>3. ASSUME NEW o \in Optimizers, finished_cb(o), o # p PROVE finished'[p] = finished[p]
  BY <1>3, FinishedFacts
<1> QED
  BY <1>1, <1>2, <1>3, WorkStep

LEMMA NextStep ==
    ASSUME TypeOK, Next, NEW o \in Optimizers
    PROVE  /\ next[o] \in Nat /\ next'[o] \in Nat /\ next'[o] >= next[o]
           /\ Build(o) => next[o] \in DOMAIN Work[o] /\ next[o] < next'[o]
<1>0. next \in [Optimizers -> Nat \ {0}] /\ \A p \in Optimizers : next[p] \in Nat \ {0}
  BY DEF TypeOK
<1>1. ASSUME NEW p \in Optimizers, Build(p)
      PROVE  next'[o] \in {next[o], next[o] + 1}
  BY <1>0, <1>1 DEF Build
<1>2. next'[o] \in {next[o], next[o] + 1}
  BY <1>1, WorkStep DEF SendWork
<1>3. Build(o) => next'[o] = next[o] + 1 /\ next[o] <= Len(Work[o])
  BY <1>0 DEF Build
<1>4. next[o] <= Len(Work[o]) => next[o] \in DOMAIN Work[o]
  BY <1>0, RoutingAssumption
<1> QED
  BY <1>0, <1>2, <1>3, <1>4

LEMMA OnceStep ==
    ASSUME TypeOK, ShakeInv, OnceInv, DistinctWork, Next
    PROVE  OnceInv'
<1>1. ASSUME NEW b \in Bodies, NEW p \in Places, NEW q \in Places, Holds(p, b)', Holds(q, b)'
      PROVE  p = q
  BY <1>1, UniqueStep
<1>2. ASSUME NEW u \in Units PROVE Once(outbox[u])' /\ (u \notin Monitors => Once(inbox[u])')
  <2>1. Once(outbox'[u]) /\ (u \notin Monitors => Once(inbox'[u]))
    BY OnceQueuesStep
  <2> QED
    BY <2>1
<1>3. ASSUME NEW o \in Optimizers, NEW i \in DOMAIN finished'[o], NEW j \in DOMAIN finished'[o],
             finished'[o][i] = finished'[o][j]
      PROVE  i = j
  BY <1>3, FinishedOnceStep
<1>4. ASSUME NEW b \in Bodies, NEW p \in Places, Holds(p, b)'
      PROVE  \E k \in DOMAIN Work[b[1]] : k < next'[b[1]] /\ b[2] = Work[b[1]][k]
  <2> DEFINE o == b[1]
  <2>0. o \in Optimizers
    BY BodyFacts
  <2>1. ASSUME NEW s \in Places, Holds(s, b)
        PROVE  \E k \in DOMAIN Work[o] : k < next'[o] /\ b[2] = Work[o][k]
    <3>1. PICK k \in DOMAIN Work[o] : k < next[o] /\ b[2] = Work[o][k]
      BY <2>1 DEF OnceInv
    <3>2. k \in Nat
      BY <2>0, RoutingAssumption
    <3>3. k < next'[o]
      BY <2>0, <3>1, <3>2, NextStep
    <3> QED
      BY <3>1, <3>3
  <2>2. ASSUME NEW q \in Optimizers, Build(q), b = <<q, Work[q][next[q]]>>
        PROVE  \E k \in DOMAIN Work[o] : k < next'[o] /\ b[2] = Work[o][k]
    <3>1. q = o /\ b[2] = Work[o][next[o]]
      BY <2>2
    <3>2. next[o] \in DOMAIN Work[o] /\ next[o] < next'[o]
      BY <2>0, <2>2, <3>1, NextStep
    <3> QED
      BY <3>1, <3>2
  <2> QED
    BY <1>4, <2>1, <2>2, PlaceStep DEF Leaves
<1> QED
  BY <1>1, <1>2, <1>3, <1>4 DEF OnceInv

LEMMA OnceHolds == ASSUME DistinctWork PROVE Spec => [](RightInv /\ OnceInv)
<1>1. Init => OnceInv
  <2> SUFFICES ASSUME Init PROVE OnceInv
    OBVIOUS
  <2>1. DOMAIN <<>> = {} /\ Optimizers \subseteq Units /\ Bodied(<<>>) = {} /\ Once(<<>>)
    BY DEF Units, Bodied, Once
  <2>2. \A u \in Units : inbox[u] = <<>> /\ outbox[u] = <<>>
    BY DEF Init
  <2>3. \A o \in Optimizers : finished[o] = <<>> /\ built[o] = None
    BY DEF Init
  <2>4. ASSUME NEW p \in Places, NEW b PROVE ~ Holds(p, b)
    BY <2>1, <2>2, <2>3 DEF Holds, Places
  <2> QED
    BY <2>1, <2>2, <2>3, <2>4 DEF OnceInv
<1>2. RightInv /\ OnceInv /\ [Next]_vars => OnceInv'
  <2> SUFFICES ASSUME RightInv, OnceInv, [Next]_vars PROVE OnceInv'
    OBVIOUS
  <2>1. CASE Next
    BY <2>1, OnceStep DEF RightInv
  <2>2. CASE UNCHANGED vars
    BY <2>2 DEF vars, OnceInv, Holds
  <2> QED
    BY <2>1, <2>2
<1> QED
  BY <1>1, <1>2, RightHolds, PTL DEF Spec

\* If no optimizer is lost and an optimizer numbers its requests differently,
\* an answer reaches the optimizer that sent the request, unless a collision
\* took away the uuid the request was built with, and it reaches it once.
THEOREM AnswersComeHomeHolds ==
    ASSUME MayLose \cap Optimizers = {}, DistinctWork
    PROVE  Spec => []AnswersComeHome
<1>1. HomeInv /\ OnceInv => AnswersComeHome
  BY DEF HomeInv, HomeFinished, Stale, OnceInv, AnswersComeHome
<1> QED
  BY <1>1, HomeHolds, OnceHolds, PTL
=============================================================================
