------------------------------ MODULE TCPServer ------------------------------
(***************************************************************************)
(* The registry of connected units in TCPServer: the accept thread with    *)
(* its handshake, one receiver thread per client, the console thread, and  *)
(* the operations that send to clients and remove them.                    *)
(*                                                                         *)
(* A unit connects once, so a unit also names its ClientInfo object and    *)
(* its receiver thread.  Only the registration and removeClient hold       *)
(* cl_mutex; every other walk over clientMap is unlocked, and is modelled  *)
(* with one step per client.  Objects are freed, not forgotten: a use of   *)
(* a freed ClientInfo finds its old contents and is recorded in fault,     *)
(* after which the process may also crash at any time.                     *)
(***************************************************************************)
EXTENDS Naturals, Sequences

CONSTANTS
    Units,        \* the units that may connect
    Handles,      \* file descriptors, reused once closed
    UnitTypes,    \* the keys of clientMap, in their order: numbers
    TypeOf,       \* the unit type each unit reports
    Uuids,
    Answers,      \* how a unit may answer UPDATE_UNIT_TYPE
    ConsoleOps,   \* the operations main calls for the console
    CallbackOps,  \* the operations callbacks call on receiver threads
    MayBlock,     \* may a send to a connected unit fail (socket full)?
    MaxCalls,     \* bound on the calls of all threads together
    None

Ops == {"sendToAll", "sendToAllOfType", "sendToAnyOfType",
        "rerouteToAnyOfType", "sendTo", "clear_aborted",
        "getUuidForUnitType", "closeConnection"}

ASSUME ServerAssumption ==
    /\ Handles \subseteq Nat /\ UnitTypes \subseteq Nat
    /\ \E ty \in UnitTypes : \A u \in UnitTypes : u <= ty
    /\ TypeOf \in [Units -> UnitTypes]
    /\ Answers \subseteq {"unit", "other", "garbage", "short", "silent"}
    /\ ConsoleOps \subseteq Ops
    /\ CallbackOps \subseteq Ops \ {"closeConnection"}
    /\ MayBlock \in BOOLEAN /\ MaxCalls \in Nat
    /\ None \notin Units \cup Uuids \cup Handles
    /\ {"main", "accept"} \cap (Units \cup {None}) = {}

\* The menu of main, and globalExit.
ASSUME ConsoleAssumption ==
    ConsoleOps \subseteq {"sendToAll", "sendToAllOfType", "clear_aborted",
                          "closeConnection"}

Threads == Units \cup {"main"}

VARIABLES
    unit,           \* the far end: "away", "here" or "left"
    fd,             \* the connection an open descriptor names
    info,           \* the ClientInfo objects
    clientMap,
    clientUuidMap,
    cl_mutex,       \* its owner
    acc,            \* the accept thread: where it is and with whom
    th,             \* main and the receivers: the call each is executing
    calls,          \* how many calls came from the console, and from callbacks
    fault,          \* where freed memory was used
    server          \* "up", "closed", "exited" or "crashed"

vars == <<unit, fd, info, clientMap, clientUuidMap, cl_mutex, acc, th, calls,
          fault, server>>
maps == <<clientMap, clientUuidMap>>

First == CHOOSE ty \in UnitTypes : \A u \in UnitTypes : ty <= u
Last  == CHOOSE ty \in UnitTypes : \A u \in UnitTypes : ty >= u
After(ty) == CHOOSE n \in UnitTypes :
                n > ty /\ \A u \in UnitTypes : u > ty => n <= u

Members(ty) == {clientMap[ty][i] : i \in DOMAIN clientMap[ty]}
Registered  == UNION {Members(ty) : ty \in UnitTypes}

NoInfo == [mem |-> "none", handle |-> None, uuid |-> None, abort |-> FALSE,
           receiver |-> FALSE]

\* A thread's frame: the operation, its cursor in clientMap (type, index, end
\* of the scan), the client in hand, the one being removed, the clients it was
\* called for and those it has sent to.
NoFrame == [op |-> "none", ty |-> First, i |-> 1, end |-> 0, start |-> 1,
            vec |-> <<>>, cur |-> None, tgt |-> None, want |-> {}, sent |-> {}]
At(pc, f) == [pc |-> pc, f |-> f]
Home(t) == At(IF t = "main" THEN "idle" ELSE "loop", NoFrame)

Places == {"spawn", "recv", "walk", "copy", "reroute", "send", "remove", "join"}
Frames == [op : Ops \cup {"none"}, ty : UnitTypes, i : Nat \ {0}, end : Nat,
           start : Nat \ {0}, vec : Seq(Units), cur : Units \cup {None},
           tgt : Units \cup {None}, want : SUBSET Units, sent : SUBSET Units]

TypeOK ==
    /\ unit \in [Units -> {"away", "here", "left"}]
    /\ fd \in [Handles -> Units \cup {None}]
    /\ info \in [Units -> [mem : {"none", "alive", "freed"},
                           handle : Handles \cup {None},
                           uuid : Uuids \cup {None},
                           abort : BOOLEAN, receiver : BOOLEAN]]
    /\ clientMap \in [UnitTypes -> Seq(Units)]
    /\ clientUuidMap \in [Uuids -> Units \cup {None}]
    /\ cl_mutex \in Threads \cup {None}
    /\ acc \in [pc : {"accept", "hello", "check", "collide", "register",
                      "spawn", "stopped"},
                who : Units \cup {None}, handle : Handles \cup {None},
                uuid : Uuids \cup {None}]
    /\ acc.pc \notin {"accept", "stopped"} =>
          acc.who \in Units /\ acc.handle \in Handles
    /\ acc.pc \in {"check", "collide", "register"} => acc.uuid \in Uuids
    /\ th \in [Threads -> [pc : {"none", "idle", "loop", "next", "send",
                                "remove", "release", "join", "erase", "stop",
                                "ret", "ended"},
                           f : Frames]]
    /\ \A t \in Threads :
          /\ th[t].pc \in {"send", "remove", "release"} => th[t].f.cur \in Units
          /\ th[t].pc \in {"join", "erase"} => th[t].f.tgt \in Units
    /\ calls \in [console : 0 .. MaxCalls, callbacks : 0 .. MaxCalls]
    /\ fault \subseteq Places
    /\ server \in {"up", "closed", "exited", "crashed"}

Init ==
    /\ unit = [u \in Units |-> "away"]
    /\ fd = [h \in Handles |-> None]
    /\ info = [u \in Units |-> NoInfo]
    /\ clientMap = [ty \in UnitTypes |-> <<>>]
    /\ clientUuidMap = [n \in Uuids |-> None]
    /\ cl_mutex = None
    /\ acc = [pc |-> "accept", who |-> None, handle |-> None, uuid |-> None]
    /\ th = [t \in Threads |-> IF t = "main" THEN Home(t) ELSE At("none", NoFrame)]
    /\ calls = [console |-> 0, callbacks |-> 0]
    /\ fault = {}
    /\ server = "up"

\* A ClientInfo is dereferenced; place says by which code.
Deref(c, place) ==
    fault' = IF info[c].mem = "freed" THEN fault \cup {place} ELSE fault

\* closeConnection has begun: globalAbort.
globalAbort == th["main"].f.op = "closeConnection"

-----------------------------------------------------------------------------
(* The accept thread: acceptLoop and the connect callback. *)

\* accept() returns the lowest free descriptor; the request for the unit
\* definition is sent, whether or not that works.
Accept(u) ==
    /\ acc.pc = "accept" /\ ~globalAbort
    /\ unit[u] = "away"
    /\ \E h \in Handles :
          /\ fd[h] = None
          /\ \A g \in Handles : g < h => fd[g] # None
          /\ fd' = [fd EXCEPT ![h] = u]
          /\ acc' = [pc |-> "hello", who |-> u, handle |-> h, uuid |-> None]
    /\ unit' = [unit EXCEPT ![u] = "here"]
    /\ UNCHANGED <<info, maps, cl_mutex, th, calls, fault, server>>

freeHandle(h) == fd' = [fd EXCEPT ![h] = None]

Backlog == acc' = [pc |-> "accept", who |-> None, handle |-> None, uuid |-> None]

\* Fault: bytes without a delimiter close the descriptor, and the handshake
\* goes on with what they hold.
HelloGoesOn(a, n) ==
    /\ acc.pc = "hello" /\ a \in Answers
    /\ freeHandle(acc.handle)
    /\ info' = [info EXCEPT ![acc.who].mem = "alive",
                            ![acc.who].handle = acc.handle]
    /\ acc' = [acc EXCEPT !.pc = "check", !.uuid = n]
    /\ UNCHANGED <<unit, maps, cl_mutex, th, calls, fault, server>>

\* The one recv of the handshake: nothing within two seconds, no delimiter, a
\* truncated message (the process exits), or a message with a source uuid.  A
\* wrong package type closes the descriptor and goes on all the same.
Hello(a, n) ==
    /\ acc.pc = "hello" /\ a \in Answers
    /\ unit[acc.who] = "left" => a = "silent"
    /\ CASE a \in {"silent", "garbage"} ->
              /\ freeHandle(acc.handle) /\ Backlog /\ UNCHANGED <<info, server>>
         [] a = "short" ->
              /\ server' = "exited" /\ UNCHANGED <<fd, info, acc>>
         [] OTHER ->
              /\ IF a = "other" THEN freeHandle(acc.handle) ELSE UNCHANGED fd
              /\ info' = [info EXCEPT ![acc.who] =
                            [@ EXCEPT !.mem = "alive", !.handle = acc.handle]]
              /\ acc' = [acc EXCEPT !.pc = "check", !.uuid = n]
              /\ UNCHANGED server
    /\ UNCHANGED <<unit, maps, cl_mutex, th, calls, fault>>

\* Is the uuid taken?  Asked under the lock, which is then released.
ProbeUuid ==
    /\ acc.pc = "check" /\ cl_mutex = None
    /\ acc' = [acc EXCEPT !.pc = IF clientUuidMap[acc.uuid] # None
                                 THEN "collide" ELSE "register"]
    /\ UNCHANGED <<unit, fd, info, maps, cl_mutex, th, calls, fault, server>>

\* UUID_COLLISION is sent and answered with another uuid, or the client is
\* dropped (the destructor closes the descriptor a second time).
Collide(n) ==
    /\ acc.pc = "collide"
    /\ \/ /\ unit[acc.who] = "here" /\ fd[acc.handle] = acc.who
          /\ acc' = [acc EXCEPT !.pc = "check", !.uuid = n]
          /\ UNCHANGED <<fd, info>>
       \/ /\ freeHandle(acc.handle)
          /\ info' = [info EXCEPT ![acc.who].mem = "freed",
                                  ![acc.who].abort = TRUE]
          /\ Backlog
    /\ UNCHANGED <<unit, maps, cl_mutex, th, calls, fault, server>>

Register ==
    /\ acc.pc = "register" /\ cl_mutex = None
    /\ info' = [info EXCEPT ![acc.who].uuid = acc.uuid]
    /\ clientMap' = [clientMap EXCEPT ![TypeOf[acc.who]] = Append(@, acc.who)]
    /\ clientUuidMap' = [clientUuidMap EXCEPT ![acc.uuid] = acc.who]
    /\ acc' = [acc EXCEPT !.pc = "spawn"]
    /\ UNCHANGED <<unit, fd, cl_mutex, th, calls, fault, server>>

\* Only now the receiver thread is created and stored in the object.
Spawn ==
    /\ acc.pc = "spawn"
    /\ Deref(acc.who, "spawn")
    /\ info' = [info EXCEPT ![acc.who].receiver = TRUE]
    /\ th' = [th EXCEPT ![acc.who] = Home(acc.who)]
    /\ Backlog
    /\ UNCHANGED <<unit, fd, maps, cl_mutex, calls, server>>

\* closeConnection shut the listening socket down: accept() returns.
StopAccepting ==
    /\ acc.pc = "accept" /\ globalAbort /\ th["main"].pc = "stop"
    /\ acc' = [acc EXCEPT !.pc = "stopped"]
    /\ UNCHANGED <<unit, fd, info, maps, cl_mutex, th, calls, fault, server>>

Disconnect(u) ==
    /\ unit[u] = "here"
    /\ unit' = [unit EXCEPT ![u] = "left"]
    /\ UNCHANGED <<fd, info, maps, cl_mutex, acc, th, calls, fault, server>>

-----------------------------------------------------------------------------
(* Calls.  Main takes them from the console, a receiver from its callbacks. *)

Vec(f)  == IF f.op = "sendToAllOfType" THEN f.vec ELSE clientMap[f.ty]
Goto(t, pc, f) == th' = [th EXCEPT ![t] = At(pc, f)]

hasClients == Registered # {}

\* The operation's entry: its early returns change nothing and are no steps.
\* sendToAllOfType copies the list; rerouteToAnyOfType fixes a random start
\* and the end of its scan; getClientByUuid looks up the addressee.
Enter(t, op) ==
    LET f == [NoFrame EXCEPT !.op = op] IN
    \/ /\ op = "sendToAll" /\ hasClients
       /\ Goto(t, "next", [f EXCEPT !.want = Registered])
    \/ /\ op \in {"clear_aborted", "closeConnection"}
       /\ Goto(t, "next", f)
    \/ /\ op = "getUuidForUnitType" /\ hasClients
       /\ Goto(t, "next", f)
    \/ /\ op \in {"sendToAllOfType", "sendToAnyOfType"} /\ hasClients
       /\ \E ty \in UnitTypes :
             Goto(t, "next", [f EXCEPT !.ty = ty, !.vec = clientMap[ty],
                                       !.want = Members(ty)])
    \/ /\ op = "rerouteToAnyOfType" /\ hasClients
       /\ \E ty \in UnitTypes : \E k \in DOMAIN clientMap[ty] :
             Goto(t, "next", [f EXCEPT !.ty = ty, !.i = k, !.start = k,
                                       !.end = Len(clientMap[ty]),
                                       !.want = Members(ty) \ {t}])
    \/ /\ op = "sendTo"
       /\ \E n \in Uuids :
             /\ clientUuidMap[n] # None
             /\ Goto(t, "send", [f EXCEPT !.cur = clientUuidMap[n],
                                          !.want = {clientUuidMap[n]}])

MayCall == calls.console + calls.callbacks < MaxCalls

Call(op) ==
    /\ th["main"].pc = "idle" /\ op \in ConsoleOps
    /\ MayCall /\ calls' = [calls EXCEPT !.console = @ + 1]
    /\ Enter("main", op)
    /\ UNCHANGED <<unit, fd, info, maps, cl_mutex, acc, fault, server>>

\* The end of a call; closeConnection ends in exit(0) of the example server.
Return(t) ==
    /\ th[t].pc = "ret"
    /\ IF globalAbort /\ t = "main"
       THEN server' = "closed" /\ UNCHANGED th
       ELSE th' = [th EXCEPT ![t] = Home(t)] /\ UNCHANGED server
    /\ UNCHANGED <<unit, fd, info, maps, cl_mutex, acc, calls, fault>>

-----------------------------------------------------------------------------
(* The loops: the next client of a walk. *)

\* The walk over every type, by reference: sendToAll sends, clear_aborted
\* removes the aborted, closeConnection releases without the lock.
VisitAll(t) ==
    LET f == th[t].f
        v == clientMap[f.ty]
        c == v[f.i]
        aborting == f.op \in {"clear_aborted", "getUuidForUnitType"} IN
    /\ th[t].pc = "next"
    /\ f.op \in {"sendToAll", "clear_aborted", "getUuidForUnitType",
                 "closeConnection"}
    /\ f.i <= Len(v)
    /\ Deref(c, "walk")
    /\ IF aborting /\ ~info[c].abort
       THEN Goto(t, "next", [f EXCEPT !.i = @ + 1])
       ELSE Goto(t, IF aborting THEN "remove"
                    ELSE IF f.op = "sendToAll" THEN "send" ELSE "release",
                 [f EXCEPT !.cur = c])
    /\ UNCHANGED <<unit, fd, info, maps, cl_mutex, acc, calls, server>>

\* The end of one type's list, or of all of them.  getUuidForUnitType then
\* reads the uuid of every client it lists.
EndOfType(t) ==
    LET f == th[t].f IN
    /\ th[t].pc = "next"
    /\ f.op \in {"sendToAll", "clear_aborted", "getUuidForUnitType",
                 "closeConnection"}
    /\ f.i > Len(clientMap[f.ty])
    /\ clientMap' = IF f.op = "closeConnection"
                    THEN [clientMap EXCEPT ![f.ty] = <<>>] ELSE clientMap
    /\ IF f.ty # Last
       THEN Goto(t, "next", [f EXCEPT !.ty = After(f.ty), !.i = 1])
       ELSE Goto(t, IF f.op = "closeConnection" THEN "stop" ELSE "ret", f)
    /\ fault' = IF /\ f.op = "getUuidForUnitType" /\ f.ty = Last
                   /\ \E c \in Registered : info[c].mem = "freed"
                THEN fault \cup {"walk"} ELSE fault
    /\ UNCHANGED <<unit, fd, info, clientUuidMap, cl_mutex, acc, calls, server>>

\* The walk over the copy of one type's list.
VisitCopy(t) ==
    LET f == th[t].f IN
    /\ th[t].pc = "next" /\ f.op = "sendToAllOfType"
    /\ IF f.i > Len(f.vec)
       THEN Goto(t, "ret", f) /\ UNCHANGED fault
       ELSE /\ Deref(f.vec[f.i], "copy")
            /\ Goto(t, "send", [f EXCEPT !.cur = f.vec[f.i]])
    /\ UNCHANGED <<unit, fd, info, maps, cl_mutex, acc, calls, server>>

\* A random client of the type, until one takes the message.
VisitAny(t) ==
    LET f == th[t].f IN
    /\ th[t].pc = "next" /\ f.op = "sendToAnyOfType"
    /\ IF clientMap[f.ty] = <<>>
       THEN Goto(t, "ret", f)
       ELSE \E c \in Members(f.ty) : Goto(t, "send", [f EXCEPT !.cur = c])
    /\ UNCHANGED <<unit, fd, info, maps, cl_mutex, acc, calls, fault, server>>

\* find_and_send from start to the old size, then from 0 to start.  The list
\* shrinks under the scan: an index behind its end reads what an erase left
\* there.  The original recipient, the unit of this thread, is passed over.
VisitReroute(t) ==
    LET f == th[t].f
        v == clientMap[f.ty] IN
    /\ th[t].pc = "next" /\ f.op = "rerouteToAnyOfType"
    /\ IF f.i > f.end
       THEN /\ IF f.end < f.start
               THEN Goto(t, "ret", f)
               ELSE Goto(t, "next", [f EXCEPT !.i = 1, !.end = f.start - 1])
            /\ UNCHANGED fault
       ELSE \E c \in IF f.i <= Len(v) THEN {v[f.i]}
                     ELSE {u \in Units : info[u].mem # "none"} :
               /\ fault' = IF f.i > Len(v) \/ info[c].mem = "freed"
                           THEN fault \cup {"reroute"} ELSE fault
               /\ IF c = t THEN Goto(t, "next", [f EXCEPT !.i = @ + 1])
                  ELSE Goto(t, "send", [f EXCEPT !.cur = c])
    /\ UNCHANGED <<unit, fd, info, maps, cl_mutex, acc, calls, server>>

\* Faults: the walk does not advance after a send; it advances after an erase;
\* a failed send ends the search for a client.
ContinueStuck(t, f) == Goto(t, "next", f)
RetryNext(t, f) == Goto(t, "next", [f EXCEPT !.i = @ + 1])
RetryNever(t, f) == Goto(t, "ret", f)

\* What a loop does after a send, and after a failed one.
Continue(t, f) ==
    CASE f.op \in {"sendToAll", "sendToAllOfType"} ->
           Goto(t, "next", [f EXCEPT !.i = @ + 1, !.sent = @ \cup {f.cur}])
      [] OTHER -> Goto(t, "ret", [f EXCEPT !.sent = {f.cur}])
Retry(t, f) ==
    CASE f.op = "sendTo" -> Goto(t, "ret", f)
      [] f.op = "rerouteToAnyOfType" -> Goto(t, "next", [f EXCEPT !.i = @ + 1])
      [] OTHER -> Goto(t, "next", f)

\* send() on the client's descriptor; sendTo looks at abort first.  It fails
\* on a closed descriptor, may fail when the unit left or its socket is full.
Send(t) ==
    LET f == th[t].f
        c == f.cur
        q == fd[info[c].handle]
        checked == f.op \in {"sendTo", "sendToAnyOfType", "rerouteToAnyOfType"}
    IN
    /\ th[t].pc = "send"
    /\ Deref(c, "send")
    /\ \/ /\ ~(checked /\ info[c].abort) /\ q # None
          /\ Continue(t, f)
       \/ /\ (checked /\ info[c].abort) \/ (q # None => MayBlock \/ unit[q] = "left")
          /\ Goto(t, "remove", f)
    /\ UNCHANGED <<unit, fd, info, maps, cl_mutex, acc, calls, server>>

-----------------------------------------------------------------------------
(* removeClient and ClientInfo::release. *)

\* The client to remove: the one in hand if the list of the type holds it, or,
\* for removeClient(info), the first with the same descriptor.
ByHandle(f) == f.op \in {"sendTo", "sendToAnyOfType", "rerouteToAnyOfType"}
Before(a, b) ==
    \/ TypeOf[a] < TypeOf[b]
    \/ /\ TypeOf[a] = TypeOf[b]
       /\ \E i, j \in DOMAIN clientMap[TypeOf[a]] :
             i < j /\ clientMap[TypeOf[a]][i] = a /\ clientMap[TypeOf[a]][j] = b
Targets(f) ==
    LET same == {c \in Registered : info[c].handle = info[f.cur].handle} IN
    IF ByHandle(f) THEN {c \in same : \A d \in same \ {c} : Before(c, d)}
    ELSE Members(f.ty) \cap {f.cur}

\* Fault: the alias of a removed client stays in clientUuidMap.
RemoveKeepsUuid(t) ==
    LET f == th[t].f IN
    /\ th[t].pc = "remove" /\ cl_mutex = None
    /\ \E c \in Targets(f) :
          /\ cl_mutex' = t
          /\ info' = [info EXCEPT ![c].abort = TRUE]
          /\ freeHandle(info[c].handle)
          /\ Goto(t, "join", [f EXCEPT !.tgt = c])
    /\ UNCHANGED <<unit, maps, acc, calls, fault, server>>

\* Fault: release joins the receiver without waking it from recv.
RemoveKeepsOpen(t) ==
    LET f == th[t].f IN
    /\ th[t].pc = "remove" /\ cl_mutex = None
    /\ \E c \in Targets(f) :
          /\ cl_mutex' = t
          /\ clientUuidMap' = [clientUuidMap EXCEPT ![info[c].uuid] = None]
          /\ Goto(t, "join", [f EXCEPT !.tgt = c])
    /\ UNCHANGED <<unit, fd, info, clientMap, acc, calls, fault, server>>

\* Under the lock the uuid is erased, then release sets abort and closes the
\* descriptor.
RemoveClient(t) ==
    LET f == th[t].f IN
    /\ th[t].pc = "remove" /\ cl_mutex = None
    /\ Deref(f.cur, "remove")
    /\ \/ /\ Targets(f) = {} /\ Retry(t, f)
          /\ UNCHANGED <<fd, info, clientUuidMap, cl_mutex>>
       \/ \E c \in Targets(f) :
             /\ cl_mutex' = t
             /\ clientUuidMap' = [clientUuidMap EXCEPT ![info[c].uuid] = None]
             /\ info' = [info EXCEPT ![c].abort = TRUE]
             /\ freeHandle(info[c].handle)
             /\ Goto(t, "join", [f EXCEPT !.tgt = c])
    /\ UNCHANGED <<unit, clientMap, acc, calls, server>>

\* closeConnection releases each client without the lock.
Release(t) ==
    LET f == th[t].f IN
    /\ th[t].pc = "release"
    /\ info' = [info EXCEPT ![f.cur].abort = TRUE]
    /\ freeHandle(info[f.cur].handle)
    /\ Goto(t, "join", [f EXCEPT !.tgt = f.cur])
    /\ UNCHANGED <<unit, maps, cl_mutex, acc, calls, fault, server>>

\* Fault: the receiver is not joined.
JoinNobody(t) ==
    LET f == th[t].f IN
    /\ th[t].pc = "join"
    /\ info' = [info EXCEPT ![f.tgt].mem = "freed"]
    /\ Goto(t, "erase", f)
    /\ UNCHANGED <<unit, fd, maps, cl_mutex, acc, calls, fault, server>>

\* The receiver is joined and the object deleted.  A thread that joins itself
\* gets an exception that nothing catches.
Join(t) ==
    LET f == th[t].f IN
    /\ th[t].pc = "join"
    /\ IF info[f.tgt].receiver /\ f.tgt = t
       THEN server' = "crashed" /\ UNCHANGED <<info, th>>
       ELSE /\ info[f.tgt].receiver => th[f.tgt].pc = "ended"
            /\ info' = [info EXCEPT ![f.tgt].mem = "freed"]
            /\ IF f.op = "closeConnection"
               THEN Goto(t, "next", [f EXCEPT !.i = @ + 1])
               ELSE Goto(t, "erase", f)
            /\ UNCHANGED server
    /\ fault' = IF info[f.tgt].mem = "freed" THEN fault \cup {"join"} ELSE fault
    /\ UNCHANGED <<unit, fd, maps, cl_mutex, acc, calls>>

\* vector::erase of the client that std::find found: the ones behind it move up.
Without(s, c) ==
    IF \E k \in DOMAIN s : s[k] = c
    THEN LET k == CHOOSE k \in DOMAIN s : s[k] = c IN
         [i \in 1 .. Len(s) - 1 |-> IF i < k THEN s[i] ELSE s[i + 1]]
    ELSE s

\* cl_vec.erase and the unlock.
Erase(t) ==
    LET f == th[t].f
        ty == TypeOf[f.tgt] IN
    /\ th[t].pc = "erase"
    /\ clientMap' = [clientMap EXCEPT ![ty] = Without(@, f.tgt)]
    /\ cl_mutex' = None
    /\ Retry(t, [f EXCEPT !.tgt = None])
    /\ UNCHANGED <<unit, fd, info, clientUuidMap, acc, calls, fault, server>>

\* The end of closeConnection: the accept thread is joined.
JoinAccept ==
    /\ th["main"].pc = "stop" /\ acc.pc = "stopped"
    /\ Goto("main", "ret", th["main"].f)
    /\ UNCHANGED <<unit, fd, info, maps, cl_mutex, acc, calls, fault, server>>

-----------------------------------------------------------------------------
(* The receiver thread of a client. *)

\* The loop ends on abort, on the end of the connection (which sets abort) and
\* on an error of recv (which does not).
StopReceiving(c) ==
    LET q == fd[info[c].handle] IN
    /\ th[c].pc = "loop"
    /\ Deref(c, "recv")
    /\ \/ info[c].abort /\ UNCHANGED info
       \/ ~info[c].abort /\ q = None /\ UNCHANGED info
       \/ /\ ~info[c].abort /\ (q # None => unit[q] = "left")
          /\ info' = [info EXCEPT ![c].abort = TRUE]
    /\ Goto(c, "ended", NoFrame)
    /\ UNCHANGED <<unit, fd, maps, cl_mutex, acc, calls, server>>

\* A message arrives and its callback calls the server.
Receive(c, op) ==
    /\ th[c].pc = "loop" /\ op \in CallbackOps
    /\ Deref(c, "recv")
    /\ ~info[c].abort /\ fd[info[c].handle] # None
    /\ unit[fd[info[c].handle]] = "here"
    /\ MayCall /\ calls' = [calls EXCEPT !.callbacks = @ + 1]
    /\ Enter(c, op)
    /\ UNCHANGED <<unit, fd, info, maps, cl_mutex, acc, server>>

\* Freed memory was used: anything may follow, a crash at the latest.
Crash ==
    /\ fault # {}
    /\ server' = "crashed"
    /\ UNCHANGED <<unit, fd, info, maps, cl_mutex, acc, th, calls, fault>>

Step(t) ==
    \/ VisitAll(t) \/ EndOfType(t) \/ VisitCopy(t) \/ VisitAny(t)
    \/ VisitReroute(t) \/ Send(t) \/ RemoveClient(t) \/ Release(t) \/ Join(t)
    \/ Erase(t) \/ Return(t)

Handshake ==
    \/ \E a \in Answers, n \in Uuids : Hello(a, n)
    \/ ProbeUuid
    \/ \E n \in Uuids : Collide(n)
    \/ Register \/ Spawn \/ StopAccepting

Next ==
    /\ server = "up"
    /\ \/ \E u \in Units : Accept(u) \/ Disconnect(u) \/ StopReceiving(u)
       \/ Handshake
       \/ \E op \in ConsoleOps : Call(op)
       \/ \E c \in Units, op \in CallbackOps : Receive(c, op)
       \/ \E t \in Threads : Step(t)
       \/ JoinAccept
       \/ Crash

Spec == Init /\ [][Next]_vars

\* Every thread that can go on does, and uuids drawn at random do not collide
\* for ever; units, the console and crashes are free.
Running(A) == server = "up" /\ A
Redraw == \E n \in Uuids : clientUuidMap[n] = None /\ Collide(n)
FairSpec ==
    /\ Spec
    /\ \A t \in Threads : WF_vars(Running(Step(t)))
    /\ \A c \in Units : WF_vars(Running(StopReceiving(c)))
    /\ WF_vars(Running(Handshake)) /\ SF_vars(Running(Redraw))
    /\ WF_vars(Running(JoinAccept))

-----------------------------------------------------------------------------
\* While nobody is inside removeClient or closeConnection, clientMap and
\* clientUuidMap hold the same clients, each once, none of them freed, and a
\* client is found under its own uuid.
Removing == {th[t].f.tgt : t \in {x \in Threads : th[x].pc \in {"join", "erase"}}}
MapsAgree ==
    ~globalAbort =>
    /\ \A c \in Registered \ Removing :
          /\ info[c].mem = "alive"
          /\ clientUuidMap[info[c].uuid] = c
    /\ \A n \in Uuids : clientUuidMap[n] # None =>
          /\ clientUuidMap[n] \in Registered \ Removing
          /\ info[clientUuidMap[n]].uuid = n
    /\ \A ty \in UnitTypes : \A i, j \in DOMAIN clientMap[ty] :
          clientMap[ty][i] = clientMap[ty][j] => i = j

\* A client that is registered and not being removed owns its descriptor: no
\* other step has closed it or let another connection have it.
HandleOwned ==
    ~globalAbort =>
    \A c \in Registered \ Removing : fd[info[c].handle] = c

\* As long as the console thread alone makes calls, freed memory is used in two
\* ways only: a client was removed between its registration and the start of its
\* receiver, which then runs on it; or sendToAllOfType, which walks over a copy of
\* the list and does not advance after a failed send, turns again to the client
\* it has just removed (to read its descriptor, to send and to remove it again).
\* No other walk, and no join, meets a freed client.
FreedAtSpawnOrRetry ==
    calls.callbacks = 0 =>
    /\ fault \subseteq {"spawn", "recv", "copy", "send", "remove"}
    /\ "recv" \in fault => "spawn" \in fault
    /\ "send" \in fault \/ "remove" \in fault => "copy" \in fault

\* What a send promises when it returns.  sendToAll: every client it was called
\* for is no longer registered or was sent the data, unless a callback removed
\* clients during the walk, which is not locked.  sendToAnyOfType gives up only
\* when no client of the type is left.
SendsArrive ==
    \A t \in Threads :
       LET f == th[t].f
           left == f.want \cap (Registered \ Removing) IN
       th[t].pc = "ret" =>
          /\ f.op = "sendToAll" /\ calls.callbacks = 0 => left \subseteq f.sent
          /\ f.op = "sendToAnyOfType" /\ f.sent = {} => left = {}

\* Every call ends, the removals inside it included, unless the process ended,
\* freed memory was used, or removeClient joins, under cl_mutex, a receiver
\* that waits for cl_mutex itself: that is the only deadlock.
JoinsWaiter ==
    \E t \in Threads, c \in Units :
       cl_mutex = t /\ th[t].pc = "join" /\ th[t].f.tgt = c /\ th[c].pc = "remove"
CallsReturn ==
    \A t \in Threads :
       th[t].f.op # "none" ~>
          th[t].pc \in {"ret", "stop"} \/ server # "up" \/ fault # {} \/ JoinsWaiter

-----------------------------------------------------------------------------
\* clientUuidMap is a table in which each entry is made and removed at once,
\* although its uuid is looked up and inserted in two critical sections.
Registration == INSTANCE Registry WITH clients <- clientUuidMap

=============================================================================
