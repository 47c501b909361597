--------------------------- MODULE TCPServerProofs ---------------------------
(***************************************************************************)
(* Proofs about TCPServer, for any units, descriptors and unit types, any  *)
(* uuids and any number of calls of any threads.                           *)
(***************************************************************************)
EXTENDS TCPServer, SequenceTheorems, WellFoundedInduction, TLAPS

-----------------------------------------------------------------------------
(* The order of the keys of clientMap. *)

\* A set of numbers that is not empty has a least element.
LEMMA LeastKey ==
    ASSUME NEW S \in SUBSET Nat, S # {}
    PROVE  \E n \in S : \A m \in S : n <= m
<1> DEFINE less == {ss \in Nat \X Nat : ss[1] < ss[2]}
<1>1. IsWellFoundedOn(less, Nat)
  BY NatLessThanWellFounded DEF OpToRel
<1>2. \E n \in S : \A m \in S : ~ (<<m, n>> \in less)
  BY <1>1, WFMin
<1>3. PICK n \in S : \A m \in S : ~ (<<m, n>> \in less)
  BY <1>2
<1>4. ASSUME NEW m \in S PROVE n <= m
  <2>1. <<m, n>> \notin less /\ n \in Nat /\ m \in Nat
    BY <1>3
  <2> QED
    BY <2>1
<1> QED
  BY <1>4

\* The walks start with the first key, go on with the next greater one, and
\* end with the last.
LEMMA Keys ==
    /\ First \in UnitTypes /\ \A u \in UnitTypes : First <= u
    /\ Last \in UnitTypes /\ \A u \in UnitTypes : u <= Last
    /\ \A ty \in UnitTypes : ty # Last =>
          /\ After(ty) \in UnitTypes /\ After(ty) > ty
          /\ \A u \in UnitTypes : u > ty => After(ty) <= u
<1>1. First \in UnitTypes /\ \A u \in UnitTypes : First <= u
  <2>1. \E ty \in UnitTypes : \A u \in UnitTypes : ty <= u
    BY LeastKey, ServerAssumption
  <2> QED
    BY <2>1 DEF First
<1>2. Last \in UnitTypes /\ \A u \in UnitTypes : u <= Last
  <2>1. \E ty \in UnitTypes : \A u \in UnitTypes : ty >= u
    BY ServerAssumption
  <2> QED
    BY <2>1, ServerAssumption DEF Last
<1>3. ASSUME NEW ty \in UnitTypes, ty # Last
      PROVE  /\ After(ty) \in UnitTypes /\ After(ty) > ty
             /\ \A u \in UnitTypes : u > ty => After(ty) <= u
  <2>1. {u \in UnitTypes : u > ty} # {}
    BY <1>2, <1>3, ServerAssumption
  <2>2. \E n \in {u \in UnitTypes : u > ty} :
           \A m \in {u \in UnitTypes : u > ty} : n <= m
    BY <2>1, LeastKey, ServerAssumption
  <2>3. \E n \in UnitTypes : n > ty /\ \A u \in UnitTypes : u > ty => n <= u
    BY <2>2
  <2> QED
    BY <2>3 DEF After
<1> QED
  BY <1>1, <1>2, <1>3

-----------------------------------------------------------------------------
(* Types. *)

PCs == {"none", "idle", "loop", "next", "send", "remove", "release", "join",
        "erase", "stop", "ret", "ended"}

\* What TypeOK says of the threads.
ThreadsOK ==
    /\ th \in [Threads -> [pc : PCs, f : Frames]]
    /\ \A t \in Threads :
          /\ th[t].pc \in {"send", "remove", "release"} => th[t].f.cur \in Units
          /\ th[t].pc \in {"join", "erase"} => th[t].f.tgt \in Units

\* A thread goes on with a frame that is in order.
LEMMA GotoType ==
    ASSUME ThreadsOK, NEW t \in Threads, NEW pc \in PCs, NEW f \in Frames,
           Goto(t, pc, f),
           pc \in {"send", "remove", "release"} => f.cur \in Units,
           pc \in {"join", "erase"} => f.tgt \in Units
    PROVE  ThreadsOK'
BY DEF ThreadsOK, Goto, At

\* The frame of a thread outside a call.
LEMMA NoFrameType == NoFrame \in Frames /\ NoFrame.cur = None /\ NoFrame.op = "none"
BY Keys DEF NoFrame, Frames

\* The entry of an operation: the frame it starts with.
EnterFrame(p, g, op) ==
    /\ g.op = op /\ g.sent = {}
    /\ p = IF op = "sendTo" THEN "send" ELSE "next"
    /\ op = "sendTo" => g.cur \in Units /\ \E n \in Uuids : clientUuidMap[n] = g.cur
    /\ op \in {"sendToAll", "clear_aborted", "getUuidForUnitType",
               "closeConnection"} => g.ty = First /\ g.i = 1
    /\ op = "sendToAll" => g.want = Registered
    /\ op = "sendToAnyOfType" => g.want = Members(g.ty)
    /\ op = "sendToAllOfType" => g.ty \in UnitTypes /\ g.vec = clientMap[g.ty]

\* An operation begins with a frame in order.
LEMMA EnterFacts ==
    ASSUME TypeOK, NEW t \in Threads, NEW op \in Ops, Enter(t, op)
    PROVE  \E p \in {"next", "send"}, g \in Frames :
              Goto(t, p, g) /\ EnterFrame(p, g, op)
<1> DEFINE g == [NoFrame EXCEPT !.op = op]
<1>0. /\ g \in Frames /\ clientMap \in [UnitTypes -> Seq(Units)]
      /\ g.op = op /\ g.sent = {} /\ g.ty = First /\ g.i = 1
  BY NoFrameType DEF Frames, TypeOK, NoFrame
<1>1. \A ty \in UnitTypes : Members(ty) \in SUBSET Units
  BY <1>0 DEF Members
<1>2. Registered \in SUBSET Units
  BY <1>1 DEF Registered
<1>3. \/ op = "sendToAll" /\ Goto(t, "next", [g EXCEPT !.want = Registered])
      \/ op \in {"clear_aborted", "closeConnection", "getUuidForUnitType"} /\ Goto(t, "next", g)
      \/ /\ op \in {"sendToAllOfType", "sendToAnyOfType"}
         /\ \E ty \in UnitTypes :
              Goto(t, "next", [g EXCEPT !.ty = ty, !.vec = clientMap[ty],
                                        !.want = Members(ty)])
      \/ /\ op = "rerouteToAnyOfType"
         /\ \E ty \in UnitTypes : \E k \in DOMAIN clientMap[ty] :
              Goto(t, "next", [g EXCEPT !.ty = ty, !.i = k, !.start = k,
                                        !.end = Len(clientMap[ty]),
                                        !.want = Members(ty) \ {t}])
      \/ /\ op = "sendTo"
         /\ \E n \in Uuids :
              /\ clientUuidMap[n] # None
              /\ Goto(t, "send", [g EXCEPT !.cur = clientUuidMap[n],
                                           !.want = {clientUuidMap[n]}])
  BY DEF Enter
<1> HIDE DEF g
<1>4. CASE op = "sendToAll" /\ Goto(t, "next", [g EXCEPT !.want = Registered])
  <2> DEFINE e == [g EXCEPT !.want = Registered]
  <2>1. e \in Frames /\ EnterFrame("next", e, op)
    BY <1>0, <1>2, <1>4 DEF Frames, EnterFrame
  <2> HIDE DEF e
  <2>2. Goto(t, "next", e)
    BY <1>4 DEF e
  <2> QED  BY <2>1, <2>2
<1>5. CASE op \in {"clear_aborted", "closeConnection", "getUuidForUnitType"} /\ Goto(t, "next", g)
  <2>1. EnterFrame("next", g, op)
    BY <1>0, <1>5 DEF EnterFrame
  <2> QED  BY <1>5, <1>0, <2>1
<1>6. ASSUME op \in {"sendToAllOfType", "sendToAnyOfType"}, NEW ty \in UnitTypes,
             Goto(t, "next", [g EXCEPT !.ty = ty, !.vec = clientMap[ty],
                                       !.want = Members(ty)])
      PROVE  \E p \in {"next", "send"}, e \in Frames :
                Goto(t, p, e) /\ EnterFrame(p, e, op)
  <2> DEFINE e == [g EXCEPT !.ty = ty, !.vec = clientMap[ty], !.want = Members(ty)]
  <2>1. e \in Frames /\ EnterFrame("next", e, op)
    BY <1>0, <1>1, <1>6 DEF Frames, EnterFrame
  <2> HIDE DEF e
  <2>2. Goto(t, "next", e)
    BY <1>6 DEF e
  <2> QED  BY <2>1, <2>2
<1>7. ASSUME op = "rerouteToAnyOfType",
             NEW ty \in UnitTypes, NEW k \in DOMAIN clientMap[ty],
             Goto(t, "next", [g EXCEPT !.ty = ty, !.i = k, !.start = k,
                                       !.end = Len(clientMap[ty]),
                                       !.want = Members(ty) \ {t}])
      PROVE  \E p \in {"next", "send"}, e \in Frames :
                Goto(t, p, e) /\ EnterFrame(p, e, op)
  <2> DEFINE e == [g EXCEPT !.ty = ty, !.i = k, !.start = k,
                            !.end = Len(clientMap[ty]), !.want = Members(ty) \ {t}]
  <2>0. k \in Nat \ {0} /\ Len(clientMap[ty]) \in Nat
    BY <1>0
  <2>1. e \in Frames /\ EnterFrame("next", e, op)
    BY <2>0, <1>0, <1>1, <1>7 DEF Frames, EnterFrame
  <2> HIDE DEF e
  <2>2. Goto(t, "next", e)
    BY <1>7 DEF e
  <2> QED  BY <2>1, <2>2
<1>8. ASSUME op = "sendTo", NEW n \in Uuids, clientUuidMap[n] # None,
             Goto(t, "send", [g EXCEPT !.cur = clientUuidMap[n],
                                       !.want = {clientUuidMap[n]}])
      PROVE  \E p \in {"next", "send"}, e \in Frames :
                Goto(t, p, e) /\ EnterFrame(p, e, op)
  <2> DEFINE e == [g EXCEPT !.cur = clientUuidMap[n], !.want = {clientUuidMap[n]}]
  <2>0. clientUuidMap[n] \in Units
    BY <1>8 DEF TypeOK
  <2>1. e \in Frames /\ e.cur = clientUuidMap[n] /\ e.op = op /\ e.sent = {}
    BY <2>0, <1>0 DEF Frames
  <2> HIDE DEF e
  <2>2. Goto(t, "send", e)
    BY <1>8 DEF e
  <2>3. EnterFrame("send", e, op)
    BY <1>8, <2>0, <2>1 DEF EnterFrame
  <2> QED  BY <2>1, <2>2, <2>3
<1> QED
  BY <1>3, <1>4, <1>5, <1>6, <1>7, <1>8

\* The threads stay well typed when an operation begins,
LEMMA EnterType ==
    ASSUME TypeOK, NEW t \in Threads, NEW op \in Ops, Enter(t, op)
    PROVE  ThreadsOK'
<1>1. PICK p \in {"next", "send"}, g \in Frames : Goto(t, p, g) /\ EnterFrame(p, g, op)
  BY EnterFacts
<1>2. ThreadsOK /\ p \in PCs
  BY DEF TypeOK, ThreadsOK, PCs
<1> QED
  BY <1>1, <1>2, GotoType DEF EnterFrame

\* when a loop goes on after a send,
LEMMA ContinueType ==
    ASSUME ThreadsOK, NEW t \in Threads, NEW f \in Frames, f.cur \in Units,
           Continue(t, f)
    PROVE  ThreadsOK'
<1>1. /\ [f EXCEPT !.i = @ + 1, !.sent = @ \cup {f.cur}] \in Frames
      /\ [f EXCEPT !.sent = {f.cur}] \in Frames
  <2>1. f.i + 1 \in Nat \ {0} /\ f.sent \cup {f.cur} \in SUBSET Units
    BY DEF Frames
  <2> QED
    BY <2>1 DEF Frames
<1>2. {"next", "ret"} \subseteq PCs
  BY DEF PCs
<1> QED
  BY <1>1, <1>2, GotoType DEF Continue

\* and when it goes on after a removal.
LEMMA RetryType ==
    ASSUME ThreadsOK, NEW t \in Threads, NEW f \in Frames, Retry(t, f)
    PROVE  ThreadsOK'
<1>1. [f EXCEPT !.i = @ + 1] \in Frames
  BY DEF Frames
<1>2. {"next", "ret"} \subseteq PCs
  BY DEF PCs
<1> QED
  BY <1>1, <1>2, GotoType DEF Retry

-----------------------------------------------------------------------------

Infos == [mem : {"none", "alive", "freed"}, handle : Handles \cup {None},
          uuid : Uuids \cup {None}, abort : BOOLEAN, receiver : BOOLEAN]

\* What TypeOK says of the accept thread, and of the rest.
AcceptOK ==
    /\ acc \in [pc : {"accept", "hello", "check", "collide", "register",
                      "spawn", "stopped"},
                who : Units \cup {None}, handle : Handles \cup {None},
                uuid : Uuids \cup {None}]
    /\ acc.pc \notin {"accept", "stopped"} =>
          acc.who \in Units /\ acc.handle \in Handles
    /\ acc.pc \in {"check", "collide", "register"} => acc.uuid \in Uuids

RegistryOK ==
    /\ fd \in [Handles -> Units \cup {None}]
    /\ info \in [Units -> Infos]
    /\ clientMap \in [UnitTypes -> Seq(Units)]
    /\ clientUuidMap \in [Uuids -> Units \cup {None}]
    /\ cl_mutex \in Threads \cup {None}

OutsideOK ==
    /\ unit \in [Units -> {"away", "here", "left"}]
    /\ calls \in [console : 0 .. MaxCalls, callbacks : 0 .. MaxCalls]
    /\ fault \subseteq Places
    /\ server \in {"up", "closed", "exited", "crashed"}

\* TypeOK is the conjunction of its four parts.
LEMMA TypeParts ==
    /\ TypeOK <=> AcceptOK /\ RegistryOK /\ OutsideOK /\ ThreadsOK
    /\ TypeOK' <=> AcceptOK' /\ RegistryOK' /\ OutsideOK' /\ ThreadsOK'
BY DEF TypeOK, AcceptOK, RegistryOK, OutsideOK, ThreadsOK, Infos, PCs

\* The parts that a step leaves alone.
LEMMA Unchanged ==
    /\ AcceptOK /\ acc' = acc => AcceptOK'
    /\ /\ RegistryOK /\ fd' = fd /\ info' = info /\ clientMap' = clientMap
       /\ clientUuidMap' = clientUuidMap /\ cl_mutex' = cl_mutex
       => RegistryOK'
    /\ /\ OutsideOK /\ unit' = unit /\ calls' = calls /\ server' = server
       /\ fault' \subseteq Places
       => OutsideOK'
    /\ ThreadsOK /\ th' = th => ThreadsOK'
BY DEF AcceptOK, RegistryOK, OutsideOK, ThreadsOK

\* What the steps do to a ClientInfo and to a descriptor.
LEMMA InfoType ==
    ASSUME info \in [Units -> Infos], NEW c \in Units
    PROVE  /\ [info EXCEPT ![c].abort = TRUE] \in [Units -> Infos]
           /\ [info EXCEPT ![c].mem = "freed"] \in [Units -> Infos]
           /\ [info EXCEPT ![c].mem = "freed", ![c].abort = TRUE]
                 \in [Units -> Infos]
           /\ [info EXCEPT ![c].receiver = TRUE] \in [Units -> Infos]
           /\ \A n \in Uuids : [info EXCEPT ![c].uuid = n] \in [Units -> Infos]
           /\ \A h \in Handles :
                [info EXCEPT ![c] = [@ EXCEPT !.mem = "alive", !.handle = h]]
                   \in [Units -> Infos]
<1>1. /\ [info[c] EXCEPT !.abort = TRUE] \in Infos
      /\ [info[c] EXCEPT !.mem = "freed"] \in Infos
      /\ [[info[c] EXCEPT !.mem = "freed"] EXCEPT !.abort = TRUE] \in Infos
      /\ [info[c] EXCEPT !.receiver = TRUE] \in Infos
      /\ \A n \in Uuids : [info[c] EXCEPT !.uuid = n] \in Infos
      /\ \A h \in Handles :
            [info[c] EXCEPT !.mem = "alive", !.handle = h] \in Infos
  BY DEF Infos
<1>2. [info EXCEPT ![c].mem = "freed", ![c].abort = TRUE]
      = [info EXCEPT ![c] = [[info[c] EXCEPT !.mem = "freed"] EXCEPT !.abort = TRUE]]
  OBVIOUS
<1>3. ASSUME NEW h \in Handles
      PROVE  [info EXCEPT ![c] = [@ EXCEPT !.mem = "alive", !.handle = h]]
             = [info EXCEPT ![c] = [info[c] EXCEPT !.mem = "alive", !.handle = h]]
  OBVIOUS
<1>4. /\ [info EXCEPT ![c].abort = TRUE]
         = [info EXCEPT ![c] = [info[c] EXCEPT !.abort = TRUE]]
      /\ [info EXCEPT ![c].mem = "freed"]
         = [info EXCEPT ![c] = [info[c] EXCEPT !.mem = "freed"]]
      /\ [info EXCEPT ![c].receiver = TRUE]
         = [info EXCEPT ![c] = [info[c] EXCEPT !.receiver = TRUE]]
      /\ \A n \in Uuids : [info EXCEPT ![c].uuid = n]
                          = [info EXCEPT ![c] = [info[c] EXCEPT !.uuid = n]]
  OBVIOUS
<1>5. \A r \in Infos : [info EXCEPT ![c] = r] \in [Units -> Infos]
  OBVIOUS
<1> HIDE DEF Infos
<1> QED
  BY <1>1, <1>2, <1>3, <1>4, <1>5

\* Closing a descriptor.
LEMMA HandleType ==
    ASSUME fd \in [Handles -> Units \cup {None}], NEW h
    PROVE  [fd EXCEPT ![h] = None] \in [Handles -> Units \cup {None}]
OBVIOUS

\* Erasing a client from a list.
LEMMA WithoutType ==
    ASSUME NEW S, NEW s \in Seq(S), NEW c
    PROVE  /\ Without(s, c) \in Seq(S)
           /\ (\A k \in DOMAIN s : s[k] # c) => Without(s, c) = s
<1>1. CASE \A k \in DOMAIN s : s[k] # c
  BY <1>1 DEF Without
<1>2. CASE \E k \in DOMAIN s : s[k] = c
  <2> DEFINE k == CHOOSE k \in DOMAIN s : s[k] = c
             w == [i \in 1 .. Len(s) - 1 |-> IF i < k THEN s[i] ELSE s[i + 1]]
  <2>1. k \in DOMAIN s /\ s[k] = c
    BY <1>2
  <2>2. Without(s, c) = w
    BY <1>2 DEF Without
  <2> HIDE DEF k
  <2>3. Len(s) - 1 \in Nat /\ DOMAIN s = 1 .. Len(s)
    BY <2>1
  <2>4. ASSUME NEW i \in 1 .. Len(s) - 1
        PROVE  (IF i < k THEN s[i] ELSE s[i + 1]) \in S
    BY <2>1, <2>3
  <2>5. w \in [1 .. Len(s) - 1 -> S]
    BY <2>4
  <2> HIDE DEF w
  <2> QED
    BY <1>2, <2>2, <2>3, <2>5, SeqDef
<1> QED
  BY <1>1, <1>2

-----------------------------------------------------------------------------

\* Every step preserves the types.
LEMMA TypeStep ==
    ASSUME TypeOK, Next PROVE TypeOK'
<1> USE ServerAssumption
<1>0. /\ AcceptOK /\ RegistryOK /\ OutsideOK /\ ThreadsOK
      /\ {"next", "ret", "send", "remove", "release", "join", "erase", "ended",
          "stop", "loop", "idle"} \subseteq PCs
  BY TypeParts DEF PCs
<1>a. \A c, p : p \in Places /\ Deref(c, p) => fault' \subseteq Places
  BY <1>0 DEF Deref, OutsideOK
<1>b. \A t \in Threads : th[t].f \in Frames
  BY <1>0 DEF ThreadsOK
<1>c. /\ Places = {"spawn", "recv", "walk", "copy", "reroute", "send", "remove", "join"}
      /\ fault \subseteq Places
  BY <1>0 DEF Places, OutsideOK
<1>d. \A t \in Threads : Home(t) \in [pc : PCs, f : Frames] /\ Home(t).pc \in {"idle", "loop"}
  BY <1>0, NoFrameType DEF Home, At
<1>e. Units \subseteq Threads /\ "main" \in Threads
  BY DEF Threads
<1>f. ASSUME Backlog PROVE AcceptOK'
  BY <1>f DEF Backlog, AcceptOK
<1>1. ASSUME NEW u \in Units, Accept(u) PROVE TypeOK'
  BY <1>1 DEF TypeOK, Accept, maps
<1>2. ASSUME NEW u \in Units, Disconnect(u) PROVE TypeOK'
  BY <1>2 DEF TypeOK, Disconnect, maps
<1>3. ASSUME NEW u \in Units, StopReceiving(u) PROVE TypeOK'
  <2>1. ThreadsOK'
    BY <1>3, <1>0, <1>e, NoFrameType, GotoType DEF StopReceiving
  <2>2. fault' \subseteq Places
    BY <1>3, <1>a, <1>c DEF StopReceiving
  <2>3. info' = info \/ info' = [info EXCEPT ![u].abort = TRUE]
    BY <1>3 DEF StopReceiving
  <2>4. info' \in [Units -> Infos]
    <3>1. info \in [Units -> Infos]
      BY <1>0 DEF RegistryOK
    <3>2. CASE info' = [info EXCEPT ![u].abort = TRUE]
      BY <3>1, <3>2, InfoType
    <3> QED
      BY <3>1, <3>2, <2>3
  <2>5. RegistryOK'
    BY <1>3, <1>0, <2>4 DEF RegistryOK, StopReceiving, maps
  <2> QED
    BY <1>3, <1>0, <2>1, <2>2, <2>5, TypeParts, Unchanged DEF StopReceiving
<1>4. ASSUME NEW a \in Answers, NEW n \in Uuids, Hello(a, n) PROVE TypeOK'
  <2>1. acc.who \in Units /\ acc.handle \in Handles
    BY <1>4, <1>0 DEF Hello, AcceptOK
  <2>2. ThreadsOK' /\ (a # "short" => OutsideOK')
    BY <1>4, <1>0, <1>c, Unchanged DEF Hello
  <2>3. CASE a \in {"silent", "garbage"}
    <3>1. RegistryOK'
      BY <1>4, <2>3, <1>0, HandleType DEF RegistryOK, Hello, maps, freeHandle
    <3> QED
      BY <1>4, <2>2, <2>3, <3>1, <1>f, TypeParts DEF Hello
  <2>4. CASE a = "short"
    <3>1. OutsideOK'
      BY <1>4, <2>4, <1>0 DEF Hello, OutsideOK
    <3> QED
      BY <1>4, <1>0, <2>2, <2>4, <3>1, TypeParts, Unchanged DEF Hello, maps
  <2>5. CASE a \notin {"silent", "garbage", "short"}
    <3>1. /\ fd' = fd \/ fd' = [fd EXCEPT ![acc.handle] = None]
          /\ info' = [info EXCEPT ![acc.who] =
                        [@ EXCEPT !.mem = "alive", !.handle = acc.handle]]
          /\ acc' = [acc EXCEPT !.pc = "check", !.uuid = n]
          /\ clientMap' = clientMap /\ clientUuidMap' = clientUuidMap
          /\ cl_mutex' = cl_mutex
      BY <1>4, <2>5 DEF Hello, freeHandle, maps
    <3>2. RegistryOK'
      BY <3>1, <2>1, <1>0, HandleType, InfoType DEF RegistryOK
    <3>3. AcceptOK'
      BY <3>1, <2>1, <1>0 DEF AcceptOK
    <3> QED
      BY <2>2, <2>5, <3>2, <3>3, TypeParts
  <2> QED
    BY <2>3, <2>4, <2>5
<1>5. ASSUME ProbeUuid PROVE TypeOK'
  BY <1>5 DEF TypeOK, ProbeUuid, maps
<1>6. ASSUME NEW n \in Uuids, Collide(n) PROVE TypeOK'
  <2>1. acc.who \in Units /\ acc.handle \in Handles
    BY <1>6, <1>0 DEF Collide, AcceptOK
  <2>2. ThreadsOK' /\ OutsideOK'
    BY <1>6, <1>0, <1>c, Unchanged DEF Collide
  <2>3. CASE acc' = [acc EXCEPT !.pc = "check", !.uuid = n] /\ UNCHANGED <<fd, info>>
    <3>1. AcceptOK'
      BY <2>1, <2>3, <1>0 DEF AcceptOK
    <3> QED
      BY <1>6, <1>0, <2>2, <2>3, <3>1, Unchanged, TypeParts DEF Collide, maps
  <2>4. CASE /\ freeHandle(acc.handle)
             /\ info' = [info EXCEPT ![acc.who].mem = "freed",
                                     ![acc.who].abort = TRUE]
             /\ Backlog
    <3>1. RegistryOK'
      BY <1>6, <2>1, <2>4, <1>0, HandleType, InfoType DEF RegistryOK, Collide, maps, freeHandle
    <3> QED
      BY <2>2, <2>4, <3>1, <1>f, TypeParts
  <2> QED
    BY <1>6, <2>3, <2>4 DEF Collide
<1>7. ASSUME Register PROVE TypeOK'
  <2>1. acc.who \in Units /\ acc.uuid \in Uuids /\ TypeOf[acc.who] \in UnitTypes
    BY <1>7, <1>0 DEF Register, AcceptOK
  <2>2. info' \in [Units -> Infos]
    BY <1>7, <2>1, <1>0, InfoType DEF Register, RegistryOK
  <2>3. clientMap' \in [UnitTypes -> Seq(Units)]
    BY <1>7, <2>1, <1>0 DEF Register, RegistryOK
  <2>4. clientUuidMap' \in [Uuids -> Units \cup {None}]
    BY <1>7, <2>1, <1>0 DEF Register, RegistryOK
  <2>5. RegistryOK'
    BY <1>7, <2>2, <2>3, <2>4, <1>0 DEF Register, RegistryOK
  <2>6. AcceptOK'
    BY <1>7, <1>0 DEF Register, AcceptOK
  <2> QED
    BY <1>7, <1>0, <1>c, <2>5, <2>6, Unchanged, TypeParts DEF Register
<1>8. ASSUME Spawn PROVE TypeOK'
  <2>1. acc.who \in Threads /\ acc.who \in Units
    BY <1>8, <1>0, <1>e DEF Spawn, AcceptOK
  <2>2. ThreadsOK'
    BY <1>8, <1>0, <1>d, <2>1 DEF Spawn, ThreadsOK
  <2>3. fault' \subseteq Places
    BY <1>8, <1>a, <1>c DEF Spawn
  <2>4. RegistryOK'
    BY <1>8, <2>1, <1>0, InfoType DEF Spawn, RegistryOK, maps
  <2> QED
    BY <1>8, <1>0, <2>2, <2>3, <2>4, <1>f, Unchanged, TypeParts DEF Spawn
<1>9. ASSUME StopAccepting PROVE TypeOK'
  BY <1>9 DEF TypeOK, StopAccepting, maps
<1>g. ASSUME MayCall,
             \/ calls' = [calls EXCEPT !.console = @ + 1]
             \/ calls' = [calls EXCEPT !.callbacks = @ + 1],
             unit' = unit, server' = server, fault' \subseteq Places
      PROVE  OutsideOK'
  <2>1. calls \in [console : 0 .. MaxCalls, callbacks : 0 .. MaxCalls]
    BY <1>0 DEF OutsideOK
  <2>2. /\ calls.console \in Nat /\ calls.callbacks \in Nat
        /\ calls.console + 1 \in 0 .. MaxCalls /\ calls.callbacks + 1 \in 0 .. MaxCalls
    BY <2>1, <1>g DEF MayCall
  <2>3. calls' \in [console : 0 .. MaxCalls, callbacks : 0 .. MaxCalls]
    BY <2>1, <2>2, <1>g
  <2> QED
    BY <2>3, <1>g, <1>0 DEF OutsideOK
<1>10. ASSUME NEW op \in ConsoleOps, Call(op) PROVE TypeOK'
  <2>1. ThreadsOK'
    BY <1>10, <1>e, EnterType DEF Call
  <2> QED
    BY <1>10, <2>1, <1>0, <1>c, <1>g, Unchanged, TypeParts DEF Call, maps
<1>11. ASSUME NEW c \in Units, NEW op \in CallbackOps, Receive(c, op) PROVE TypeOK'
  <2>1. ThreadsOK'
    BY <1>11, <1>e, EnterType DEF Receive
  <2>2. fault' \subseteq Places
    BY <1>11, <1>a, <1>c DEF Receive
  <2> QED
    BY <1>11, <2>1, <2>2, <1>0, <1>g, Unchanged, TypeParts DEF Receive, maps
<1>12. ASSUME NEW t \in Threads, Step(t) PROVE TypeOK'
  <2> DEFINE f == th[t].f
  <2>0. /\ f \in Frames /\ f.ty \in UnitTypes /\ f.i \in Nat \ {0}
        /\ f.vec \in Seq(Units) /\ clientMap[f.ty] \in Seq(Units)
        /\ f.end \in Nat /\ f.start \in Nat \ {0}
    BY <1>0, <1>b DEF Frames, RegistryOK
  <2> HIDE DEF f
  <2>a. [f EXCEPT !.i = @ + 1] \in Frames
    <3>1. f.i + 1 \in Nat \ {0}
      BY <2>0
    <3> QED
      BY <3>1, <2>0 DEF Frames
  <2>b. \A c \in Units : [f EXCEPT !.cur = c] \in Frames /\ [f EXCEPT !.cur = c].cur = c
    BY <2>0 DEF Frames
  <2>c. \A c \in Units : [f EXCEPT !.tgt = c] \in Frames /\ [f EXCEPT !.tgt = c].tgt = c
    BY <2>0 DEF Frames
  <2>1. CASE VisitAll(t)
    <3>1. clientMap[f.ty][f.i] \in Units
      BY <2>1, <2>0 DEF VisitAll, f
    <3>2. ThreadsOK'
      BY <2>1, <3>1, <1>0, <2>a, <2>b, GotoType DEF VisitAll, f
    <3>3. fault' \subseteq Places
      BY <2>1, <1>a, <1>c DEF VisitAll
    <3> QED
      BY <2>1, <3>2, <3>3, <1>0, Unchanged, TypeParts DEF VisitAll, maps
  <2>2. CASE EndOfType(t)
    <3> DEFINE g(ty, n) == [f EXCEPT !.ty = ty, !.i = n]
    <3>0. \A ty \in UnitTypes, n \in Nat \ {0} : g(ty, n) \in Frames
      BY <2>0 DEF Frames
    <3>1. \/ f.ty # Last /\ Goto(t, "next", g(After(f.ty), 1))
          \/ Goto(t, "stop", f) \/ Goto(t, "ret", f)
      BY <2>2 DEF EndOfType, f
    <3> HIDE DEF g
    <3>2. ThreadsOK'
      <4>1. f.ty # Last => After(f.ty) \in UnitTypes
        BY <2>0, Keys
      <4>2. f.ty # Last => g(After(f.ty), 1) \in Frames
        <5>1. 1 \in Nat \ {0}
          OBVIOUS
        <5> QED
          BY <4>1, <3>0, <5>1, Zenon
      <4> QED
        BY <3>1, <4>2, <1>0, <2>0, GotoType
    <3>3. fault' \subseteq Places
      BY <2>2, <1>c DEF EndOfType
    <3>4. clientMap' \in [UnitTypes -> Seq(Units)]
      <4>1. <<>> \in Seq(Units)
        OBVIOUS
      <4> QED
        BY <4>1, <2>2, <1>0 DEF EndOfType, RegistryOK
    <3>5. RegistryOK'
      BY <2>2, <3>4, <1>0 DEF EndOfType, RegistryOK
    <3> QED
      BY <2>2, <3>2, <3>3, <3>5, <1>0, Unchanged, TypeParts DEF EndOfType
  <2>3. CASE VisitCopy(t)
    <3>1. ~(f.i > Len(f.vec)) => f.vec[f.i] \in Units
      BY <2>0
    <3>2. ThreadsOK'
      BY <2>3, <3>1, <1>0, <2>0, <2>b, GotoType DEF VisitCopy, f
    <3>3. fault' \subseteq Places
      BY <2>3, <1>a, <1>c DEF VisitCopy
    <3> QED
      BY <2>3, <3>2, <3>3, <1>0, Unchanged, TypeParts DEF VisitCopy, maps
  <2>4. CASE VisitAny(t)
    <3>1. \A c \in Members(f.ty) : c \in Units
      BY <2>0 DEF Members
    <3>2. ThreadsOK'
      BY <2>4, <3>1, <1>0, <2>0, <2>b, GotoType DEF VisitAny, f
    <3> QED
      BY <2>4, <3>2, <1>0, <1>c, Unchanged, TypeParts DEF VisitAny, maps
  <2>5. CASE VisitReroute(t)
    <3>0. th[t].f = f
      BY DEF f
    <3>1. ASSUME f.i > f.end PROVE ThreadsOK' /\ fault' = fault
      <4>1. \/ Goto(t, "ret", f) /\ fault' = fault
            \/ ~(f.end < f.start) /\ fault' = fault
               /\ Goto(t, "next", [f EXCEPT !.i = 1, !.end = f.start - 1])
        BY <2>5, <3>0, <3>1 DEF VisitReroute
      <4>2. f.start - 1 \in Nat
        BY <2>0
      <4> DEFINE g(m, n) == [f EXCEPT !.i = m, !.end = n]
      <4>3. \A m \in Nat \ {0}, n \in Nat : g(m, n) \in Frames
        BY <2>0 DEF Frames
      <4>4. \/ Goto(t, "ret", f) /\ fault' = fault
            \/ fault' = fault /\ Goto(t, "next", g(1, f.start - 1))
        BY <4>1
      <4> HIDE DEF g
      <4>5. g(1, f.start - 1) \in Frames
        BY <4>2, <4>3
      <4> QED
        BY <4>4, <4>5, <1>0, <2>0, GotoType
    <3>2. ASSUME ~(f.i > f.end) PROVE ThreadsOK' /\ fault' \subseteq Places
      <4>1. PICK c \in Units :
               /\ fault' = fault \/ fault' = fault \cup {"reroute"}
               /\ \/ Goto(t, "next", [f EXCEPT !.i = @ + 1])
                  \/ Goto(t, "send", [f EXCEPT !.cur = c])
        <5>1. f.i <= Len(clientMap[f.ty]) => clientMap[f.ty][f.i] \in Units
          BY <2>0
        <5> QED
          BY <2>5, <3>0, <3>2, <5>1 DEF VisitReroute
      <4> QED
        BY <4>1, <1>0, <1>c, <2>a, <2>b, GotoType
    <3> QED
      BY <2>5, <3>1, <3>2, <1>0, <1>c, Unchanged, TypeParts DEF VisitReroute, maps
  <2>6. CASE Send(t)
    <3>1. f.cur \in Units
      BY <2>6, <1>0 DEF ThreadsOK, Send, f
    <3>2. ThreadsOK'
      BY <2>6, <3>1, <1>0, <2>0, ContinueType, GotoType DEF Send, f
    <3>3. fault' \subseteq Places
      BY <2>6, <1>a, <1>c DEF Send
    <3> QED
      BY <2>6, <3>2, <3>3, <1>0, Unchanged, TypeParts DEF Send, maps
  <2>7. CASE RemoveClient(t)
    <3>0. th[t].f = f
      BY DEF f
    <3>1. fault' \subseteq Places
      BY <2>7, <1>a, <1>c DEF RemoveClient
    <3>2. CASE Retry(t, f) /\ UNCHANGED <<fd, info, clientUuidMap, cl_mutex>>
      <4>1. ThreadsOK'
        BY <3>2, <1>0, <2>0, RetryType
      <4> QED
        BY <2>7, <3>1, <3>2, <4>1, <1>0, Unchanged, TypeParts DEF RemoveClient
    <3>3. ASSUME NEW c \in Targets(f),
                 cl_mutex' = t,
                 clientUuidMap' = [clientUuidMap EXCEPT ![info[c].uuid] = None],
                 info' = [info EXCEPT ![c].abort = TRUE],
                 freeHandle(info[c].handle),
                 Goto(t, "join", [f EXCEPT !.tgt = c])
          PROVE  TypeOK'
      <4>1. c \in Units
        BY <2>0, <1>0 DEF Targets, Registered, Members, RegistryOK
      <4>2. ThreadsOK'
        BY <3>3, <4>1, <1>0, <2>c, GotoType
      <4>3. RegistryOK'
        <5>1. clientUuidMap' \in [Uuids -> Units \cup {None}]
          BY <3>3, <1>0 DEF RegistryOK
        <5> QED
          BY <2>7, <3>3, <4>1, <5>1, <1>0, InfoType, HandleType DEF RegistryOK, RemoveClient, freeHandle
      <4> QED
        BY <2>7, <3>1, <4>2, <4>3, <1>0, Unchanged, TypeParts DEF RemoveClient
    <3> QED
      BY <2>7, <3>0, <3>2, <3>3 DEF RemoveClient
  <2>8. CASE Release(t)
    <3>1. f.cur \in Units
      BY <2>8, <1>0 DEF ThreadsOK, Release, f
    <3>2. ThreadsOK'
      BY <2>8, <3>1, <1>0, <2>0, <2>c, GotoType DEF Release, f
    <3>3. RegistryOK'
      BY <2>8, <3>1, <1>0, InfoType, HandleType DEF RegistryOK, Release, freeHandle, maps, f
    <3> QED
      BY <2>8, <3>2, <3>3, <1>0, <1>c, Unchanged, TypeParts DEF Release
  <2>9. CASE Join(t)
    <3>1. f.tgt \in Units
      BY <2>9, <1>0 DEF ThreadsOK, Join, f
    <3>2. ThreadsOK'
      <4>1. CASE UNCHANGED th
        BY <4>1, <1>0, Unchanged
      <4>2. CASE Goto(t, "next", [f EXCEPT !.i = @ + 1])
        BY <4>2, <1>0, <2>a, GotoType
      <4>3. CASE Goto(t, "erase", f)
        BY <4>3, <3>1, <1>0, <2>0, GotoType
      <4> QED
        BY <2>9, <4>1, <4>2, <4>3 DEF Join, f
    <3>3. RegistryOK'
      <4>1. info' = info \/ info' = [info EXCEPT ![f.tgt].mem = "freed"]
        BY <2>9 DEF Join, f
      <4>2. info' \in [Units -> Infos]
        <5>1. info \in [Units -> Infos]
          BY <1>0 DEF RegistryOK
        <5>2. CASE info' = [info EXCEPT ![f.tgt].mem = "freed"]
          BY <5>1, <5>2, <3>1, InfoType
        <5> QED
          BY <5>1, <5>2, <4>1
      <4> QED
        BY <2>9, <4>2, <1>0 DEF RegistryOK, Join, maps
    <3>4. OutsideOK'
      BY <2>9, <1>0, <1>c DEF OutsideOK, Join
    <3> QED
      BY <2>9, <3>2, <3>3, <3>4, <1>0, Unchanged, TypeParts DEF Join
  <2>10. CASE Erase(t)
    <3>1. [f EXCEPT !.tgt = None] \in Frames
      BY <2>0 DEF Frames
    <3>2. ThreadsOK'
      BY <2>10, <3>1, <1>0, RetryType DEF Erase, f
    <3>3. clientMap' \in [UnitTypes -> Seq(Units)]
      <4>1. \A ty \in UnitTypes : Without(clientMap[ty], f.tgt) \in Seq(Units)
        BY <1>0, WithoutType DEF RegistryOK
      <4> QED
        BY <2>10, <4>1, <1>0 DEF Erase, RegistryOK, f
    <3>4. RegistryOK'
      BY <2>10, <3>3, <1>0 DEF Erase, RegistryOK
    <3> QED
      BY <2>10, <3>2, <3>4, <1>0, <1>c, Unchanged, TypeParts DEF Erase
  <2>11. CASE Return(t)
    <3>1. ThreadsOK'
      BY <2>11, <1>0, <1>d DEF Return, ThreadsOK
    <3>2. OutsideOK'
      BY <2>11, <1>0 DEF Return, OutsideOK
    <3> QED
      BY <2>11, <3>1, <3>2, <1>0, Unchanged, TypeParts DEF Return, maps
  <2> QED
    BY <1>12, <2>1, <2>2, <2>3, <2>4, <2>5, <2>6, <2>7, <2>8, <2>9, <2>10, <2>11 DEF Step
<1>13. ASSUME JoinAccept PROVE TypeOK'
  <2>1. ThreadsOK'
    BY <1>13, <1>0, <1>b, <1>e, GotoType DEF JoinAccept
  <2> QED
    BY <1>13, <2>1, <1>0, <1>c, Unchanged, TypeParts DEF JoinAccept, maps
<1>14. ASSUME Crash PROVE TypeOK'
  BY <1>14 DEF TypeOK, Crash, maps
<1> QED
  BY <1>1, <1>2, <1>3, <1>4, <1>5, <1>6, <1>7, <1>8, <1>9, <1>10, <1>11, <1>12,
     <1>13, <1>14 DEF Next, Handshake

\* The server starts well typed.
LEMMA InitType == Init => TypeOK
<1> SUFFICES ASSUME Init PROVE TypeOK
  OBVIOUS
<1>1. ThreadsOK
  <2>1. \A t \in Threads : th[t] \in [pc : PCs, f : Frames] /\ th[t].pc \in {"idle", "loop", "none"}
    BY NoFrameType DEF Init, Home, At, PCs
  <2> QED
    BY <2>1 DEF Init, ThreadsOK
<1>2. RegistryOK
  BY ServerAssumption DEF Init, RegistryOK, Infos, NoInfo
<1>3. AcceptOK
  BY DEF Init, AcceptOK
<1>4. OutsideOK
  BY ServerAssumption DEF Init, OutsideOK
<1> QED
  BY <1>1, <1>2, <1>3, <1>4, TypeParts

\* The registry, the frames of all threads and the accept thread's handshake
\* keep their types: a thread that sends or removes has a client in hand, one
\* that joins or erases has one it removes.
THEOREM ServerTypeCorrect == Spec => []TypeOK
<1>1. Init => TypeOK
  BY InitType
<1>2. TypeOK /\ [Next]_vars => TypeOK'
  <2>1. TypeOK /\ UNCHANGED vars => TypeOK'
    BY DEF TypeOK, vars, maps
  <2> QED
    BY <2>1, TypeStep
<1> QED
  BY <1>1, <1>2, PTL DEF Spec

-----------------------------------------------------------------------------
(* The steps, by what they do to the registry. *)

\* How the threads are bound together: closeConnection is main's and goes its
\* own way, and who removes a client holds cl_mutex.
ControlInv ==
    /\ th["main"].pc = "idle" => ~globalAbort
    /\ \A u \in Units : th[u].f.op # "closeConnection"
    /\ \A t \in Threads :
          /\ th[t].pc = "release" => th[t].f.op = "closeConnection"
          /\ th[t].f.op = "closeConnection" =>
                th[t].pc \in {"next", "release", "join", "stop", "ret"}
          /\ th[t].pc \in {"join", "erase"} /\ th[t].f.op # "closeConnection" =>
                cl_mutex = t

registry == <<unit, fd, info, clientMap, clientUuidMap, cl_mutex, acc>>

\* Thread t moves on inside its call, enters one or leaves it, without touching
\* the registry and outside removeClient.
Moves(t, p, g) ==
    /\ Goto(t, p, g)
    /\ th[t].pc \notin {"none", "join", "erase"}
    /\ p \notin {"none", "join", "erase"}
    /\ th[t].f.op = "closeConnection" => g.op = "closeConnection"
    /\ g.op = "closeConnection" =>
          t = "main" /\ p \in {"next", "release", "stop", "ret"}
    /\ p = "release" => g.op = "closeConnection"

Quiet ==
    /\ UNCHANGED registry
    /\ \E t \in Threads, p \in PCs, g \in Frames : Moves(t, p, g)

Still == UNCHANGED registry /\ th' = th

\* closeConnection empties the list of one type.
Empties ==
    /\ th["main"].pc = "next" /\ globalAbort
    /\ th["main"].f.i > Len(clientMap[th["main"].f.ty])
    /\ clientMap' = [clientMap EXCEPT ![th["main"].f.ty] = <<>>]
    /\ UNCHANGED <<unit, fd, info, clientUuidMap, cl_mutex, acc>>
    /\ \E p \in PCs, g \in Frames : Moves("main", p, g)

\* removeClient takes client c out of clientUuidMap.
Removes(t, c) ==
    /\ th[t].pc = "remove" /\ cl_mutex = None /\ c \in Registered
    /\ cl_mutex' = t
    /\ clientUuidMap' = [clientUuidMap EXCEPT ![info[c].uuid] = None]
    /\ info' = [info EXCEPT ![c].abort = TRUE]
    /\ fd' = [fd EXCEPT ![info[c].handle] = None]
    /\ UNCHANGED <<unit, clientMap, acc>>
    /\ th[t].f.op # "closeConnection"
    /\ \E g \in Frames : Goto(t, "join", g) /\ g.tgt = c /\ g.op # "closeConnection"

\* What a thread that goes on looks like, and that the others stay.
LEMMA ThreadFacts ==
    ASSUME ThreadsOK, NEW t \in Threads, NEW p, NEW g, Goto(t, p, g)
    PROVE  /\ th'[t].pc = p /\ th'[t].f = g
           /\ \A x \in Threads : x # t => th'[x] = th[x]
           /\ th' = [th EXCEPT ![t] = [pc |-> p, f |-> g]]
BY DEF Goto, At, ThreadsOK

\* The entry of an operation.
LEMMA EnterMoves ==
    ASSUME TypeOK, ControlInv, NEW t \in Threads, NEW op \in Ops, Enter(t, op),
           th[t].pc \in {"idle", "loop"}, t # "main" => op # "closeConnection"
    PROVE  \E p \in PCs, g \in Frames : Moves(t, p, g)
<1>0. PICK p \in {"next", "send"}, g \in Frames : Goto(t, p, g) /\ EnterFrame(p, g, op)
  BY EnterFacts
<1>1. th[t].f.op # "closeConnection" /\ p \in PCs
  BY DEF ControlInv, PCs
<1> QED
  BY <1>0, <1>1 DEF Moves, EnterFrame

\* Every step is one of these.
LEMMA Steps ==
    ASSUME TypeOK, ControlInv, Next
    PROVE  \/ Quiet \/ Still \/ Empties
           \/ \E u \in Units : Accept(u) \/ Disconnect(u) \/ StopReceiving(u)
           \/ \E a \in Answers, n \in Uuids : Hello(a, n)
           \/ ProbeUuid \/ \E n \in Uuids : Collide(n)
           \/ Register \/ Spawn \/ StopAccepting
           \/ \E t \in Threads : \E c \in Registered : Removes(t, c)
           \/ \E t \in Threads : Release(t) \/ Join(t) \/ Erase(t)
<1> USE ServerAssumption
<1>0. /\ RegistryOK /\ ThreadsOK /\ Units \subseteq Threads /\ "main" \in Threads
      /\ {"next", "ret", "send", "remove", "release", "stop", "idle", "loop"} \subseteq PCs
  BY TypeParts DEF PCs, Threads
<1>1. ASSUME NEW op \in ConsoleOps, Call(op) PROVE Quiet
  <2>1. \E p \in PCs, g \in Frames : Moves("main", p, g)
    BY <1>1, <1>0, EnterMoves DEF Call
  <2> QED
    BY <1>1, <2>1, <1>0 DEF Call, Quiet, registry, maps
<1>2. ASSUME NEW c \in Units, NEW op \in CallbackOps, Receive(c, op) PROVE Quiet
  <2>1. \E p \in PCs, g \in Frames : Moves(c, p, g)
    BY <1>2, <1>0, EnterMoves DEF Receive
  <2> QED
    BY <1>2, <2>1, <1>0 DEF Receive, Quiet, registry, maps
<1>3. ASSUME JoinAccept PROVE Quiet
  <2> DEFINE g == th["main"].f
  <2>1. g \in Frames
    BY <1>0 DEF ThreadsOK
  <2>2. Moves("main", "ret", g)
    BY <1>3, <1>0 DEF JoinAccept, Moves, ControlInv
  <2> QED
    BY <1>0, <1>3, <2>1, <2>2 DEF JoinAccept, Quiet, registry, maps
<1>4. ASSUME NEW t \in Threads, Step(t)
      PROVE  \/ Quiet \/ Still \/ Empties
             \/ \E c \in Registered : Removes(t, c)
             \/ Release(t) \/ Join(t) \/ Erase(t)
  <2> DEFINE f == th[t].f
  <2>f. th[t].f = f
    OBVIOUS
  <2>0. f \in Frames /\ f.i \in Nat \ {0} /\ clientMap[f.ty] \in Seq(Units)
    BY <1>0 DEF ThreadsOK, Frames, RegistryOK
  <2>a. f.op = "closeConnection" => t = "main"
    BY DEF ControlInv, Threads
  <2> HIDE DEF f
  <2>b. [f EXCEPT !.i = @ + 1] \in Frames /\ [f EXCEPT !.i = @ + 1].op = f.op
    <3>1. f.i + 1 \in Nat \ {0}
      BY <2>0
    <3> QED
      BY <3>1, <2>0 DEF Frames
  <2>c. \A c \in Units : [f EXCEPT !.cur = c] \in Frames /\ [f EXCEPT !.cur = c].op = f.op
    BY <2>0 DEF Frames
  <2>d. \A c \in Units : /\ [f EXCEPT !.tgt = c] \in Frames
                         /\ [f EXCEPT !.tgt = c].op = f.op
                         /\ [f EXCEPT !.tgt = c].tgt = c
    BY <2>0 DEF Frames
  \* A move to a place of the same call.
  <2>e. ASSUME NEW p \in PCs, NEW g \in Frames, Goto(t, p, g), g.op = f.op,
               th[t].pc \in {"next", "send", "remove"},
               p \in {"next", "send", "remove", "release", "ret", "stop"},
               p \in {"send", "remove"} => f.op # "closeConnection",
               p = "release" => f.op = "closeConnection"
        PROVE  Moves(t, p, g)
    BY <2>e, <2>a, <2>f DEF Moves
  <2>g. ASSUME NEW p \in PCs, NEW g \in Frames, Goto(t, p, g), g.op = f.op,
               th[t].pc \in {"next", "send", "remove"},
               p \in {"next", "send", "remove", "release", "ret", "stop"},
               p \in {"send", "remove"} => f.op # "closeConnection",
               p = "release" => f.op = "closeConnection",
               UNCHANGED registry
        PROVE  Quiet
    BY <2>e, <2>g DEF Quiet
  <2>h. th[t].pc \in {"send", "remove"} => f.op # "closeConnection"
    BY <2>f DEF ControlInv
  <2>1. CASE VisitAll(t)
    <3>1. clientMap[f.ty][f.i] \in Units
      BY <2>1, <2>0, <2>f DEF VisitAll
    <3> DEFINE g == [f EXCEPT !.cur = clientMap[f.ty][f.i]]
               h == [f EXCEPT !.i = @ + 1]
    <3>2. g \in Frames /\ g.op = f.op
      BY <3>1, <2>c
    <3>3. /\ th[t].pc = "next" /\ UNCHANGED registry
          /\ \/ Goto(t, "next", h)
             \/ Goto(t, "remove", g) /\ f.op \in {"clear_aborted", "getUuidForUnitType"}
             \/ Goto(t, "send", g) /\ f.op = "sendToAll"
             \/ Goto(t, "release", g) /\ f.op = "closeConnection"
      BY <2>1, <2>f DEF VisitAll, registry, maps
    <3>4. h \in Frames /\ h.op = f.op
      BY <2>b
    <3> HIDE DEF g, h
    <3> QED
      BY <3>2, <3>3, <3>4, <1>0, <2>g
  <2>2. CASE EndOfType(t)
    <3> DEFINE g(ty, n) == [f EXCEPT !.ty = ty, !.i = n]
    <3>1. \A ty \in UnitTypes, n \in Nat \ {0} : g(ty, n) \in Frames /\ g(ty, n).op = f.op
      BY <2>0 DEF Frames
    <3>2. /\ th[t].pc = "next"
          /\ \/ f.ty # Last /\ Goto(t, "next", g(After(f.ty), 1))
             \/ Goto(t, "stop", f) \/ Goto(t, "ret", f)
      BY <2>2, <2>f DEF EndOfType
    <3> HIDE DEF g
    <3>3. f.ty # Last => g(After(f.ty), 1) \in Frames /\ g(After(f.ty), 1).op = f.op
      <4>1. f.ty # Last => After(f.ty) \in UnitTypes
        BY <2>0, Keys DEF Frames
      <4>2. 1 \in Nat \ {0}
        OBVIOUS
      <4> QED
        BY <4>1, <3>1, <4>2, Zenon
    <3>4. \E p \in PCs, h \in Frames : Moves(t, p, h)
      BY <3>2, <3>3, <1>0, <2>0, <2>e
    <3>5. CASE f.op # "closeConnection"
      BY <2>2, <2>f, <3>4, <3>5 DEF EndOfType, Quiet, registry
    <3>6. CASE f.op = "closeConnection"
      <4>1. t = "main"
        BY <2>a, <3>6
      <4>2. /\ th[t].pc = "next" /\ f.i > Len(clientMap[f.ty])
            /\ clientMap' = [clientMap EXCEPT ![f.ty] = <<>>]
            /\ UNCHANGED <<unit, fd, info, clientUuidMap, cl_mutex, acc>>
        BY <2>2, <2>f, <3>6 DEF EndOfType
      <4> QED
        BY <4>1, <4>2, <3>4, <3>6, <2>f DEF Empties, globalAbort
    <3> QED  BY <3>5, <3>6
  <2>3. CASE VisitCopy(t)
    <3>1. f.vec \in Seq(Units) /\ (~(f.i > Len(f.vec)) => f.vec[f.i] \in Units)
      BY <2>0 DEF Frames
    <3> DEFINE g == [f EXCEPT !.cur = f.vec[f.i]]
    <3>2. ~(f.i > Len(f.vec)) => g \in Frames /\ g.op = f.op
      BY <3>1, <2>c
    <3>3. /\ th[t].pc = "next" /\ UNCHANGED registry /\ f.op = "sendToAllOfType"
          /\ \/ Goto(t, "ret", f)
             \/ ~(f.i > Len(f.vec)) /\ Goto(t, "send", g)
      BY <2>3, <2>f DEF VisitCopy, registry, maps
    <3> HIDE DEF g
    <3> QED
      BY <3>2, <3>3, <1>0, <2>0, <2>g
  <2>4. CASE VisitAny(t)
    <3>1. /\ th[t].pc = "next" /\ UNCHANGED registry /\ f.op = "sendToAnyOfType"
          /\ \/ Goto(t, "ret", f)
             \/ \E c \in Units : Goto(t, "send", [f EXCEPT !.cur = c])
      <4>1. \A c \in Members(f.ty) : c \in Units
        BY <2>0 DEF Members
      <4> QED
        BY <2>4, <2>f, <4>1 DEF VisitAny, registry, maps
    <3>2. CASE Goto(t, "ret", f)
      BY <3>1, <3>2, <1>0, <2>0, <2>g
    <3>3. ASSUME NEW c \in Units, Goto(t, "send", [f EXCEPT !.cur = c]) PROVE Quiet
      <4> DEFINE g == [f EXCEPT !.cur = c]
      <4>1. g \in Frames /\ g.op = f.op /\ Goto(t, "send", g)
        BY <3>3, <2>c
      <4> HIDE DEF g
      <4> QED
        BY <4>1, <3>1, <1>0, <2>g
    <3> QED
      BY <3>1, <3>2, <3>3
  <2>5. CASE VisitReroute(t)
    <3>1. th[t].pc = "next" /\ UNCHANGED registry /\ f.op = "rerouteToAnyOfType"
      BY <2>5, <2>f DEF VisitReroute, registry, maps
    <3>2. f.i <= Len(clientMap[f.ty]) => clientMap[f.ty][f.i] \in Units
      BY <2>0
    <3>3. \/ Goto(t, "ret", f)
          \/ Goto(t, "next", [f EXCEPT !.i = 1, !.end = f.start - 1])
          \/ Goto(t, "next", [f EXCEPT !.i = @ + 1])
          \/ \E c \in Units : Goto(t, "send", [f EXCEPT !.cur = c])
      BY <2>5, <2>f, <3>2 DEF VisitReroute
    <3>4. CASE Goto(t, "ret", f)
      BY <3>1, <3>4, <1>0, <2>0, <2>g
    <3>5. ASSUME NEW c \in Units, Goto(t, "send", [f EXCEPT !.cur = c]) PROVE Quiet
      <4> DEFINE g == [f EXCEPT !.cur = c]
      <4>1. g \in Frames /\ g.op = f.op /\ Goto(t, "send", g)
        BY <3>5, <2>c
      <4> HIDE DEF g
      <4> QED
        BY <4>1, <3>1, <1>0, <2>g
    <3>6. CASE Goto(t, "next", [f EXCEPT !.i = @ + 1])
      BY <3>1, <3>6, <1>0, <2>b, <2>g
    <3>7. CASE Goto(t, "next", [f EXCEPT !.i = 1, !.end = f.start - 1])
      <4> DEFINE g(m, n) == [f EXCEPT !.i = m, !.end = n]
      <4>1. \A m \in Nat \ {0}, n \in Nat : g(m, n) \in Frames /\ g(m, n).op = f.op
        BY <2>0 DEF Frames
      <4>2. Goto(t, "next", g(1, f.start - 1))
        BY <3>7
      <4> HIDE DEF g
      <4>3. f.start - 1 \in Nat /\ 1 \in Nat \ {0}
        BY <2>0 DEF Frames
      <4>4. g(1, f.start - 1) \in Frames /\ g(1, f.start - 1).op = f.op
        BY <4>1, <4>3, Zenon
      <4> QED
        BY <4>2, <4>4, <3>1, <1>0, <2>g
    <3> QED
      BY <3>3, <3>4, <3>5, <3>6, <3>7
  <2>6. CASE Send(t)
    <3>1. th[t].pc = "send" /\ UNCHANGED registry
      BY <2>6 DEF Send, registry, maps
    <3>2. f.cur \in Units
      BY <3>1, <2>f, <1>0 DEF ThreadsOK
    <3> DEFINE g == [f EXCEPT !.i = @ + 1, !.sent = @ \cup {f.cur}]
               h == [f EXCEPT !.sent = {f.cur}]
    <3>3. g \in Frames /\ g.op = f.op /\ h \in Frames /\ h.op = f.op
      <4>1. f.i + 1 \in Nat \ {0} /\ f.sent \cup {f.cur} \in SUBSET Units
        BY <2>0, <3>2 DEF Frames
      <4> QED
        BY <4>1, <2>0, <3>2 DEF Frames
    <3>4. Goto(t, "next", g) \/ Goto(t, "ret", h) \/ Goto(t, "remove", f)
      BY <2>6, <2>f DEF Send, Continue
    <3> HIDE DEF g, h
    <3> QED
      BY <3>1, <3>3, <3>4, <1>0, <2>0, <2>g, <2>h
  <2>7. CASE RemoveClient(t)
    <3>0. th[t].pc = "remove" /\ cl_mutex = None
      BY <2>7 DEF RemoveClient
    <3>1. CASE Retry(t, f) /\ UNCHANGED <<fd, info, clientUuidMap, cl_mutex>>
      <4>1. UNCHANGED registry
        BY <2>7, <3>1 DEF RemoveClient, registry
      <4>2. Goto(t, "ret", f) \/ Goto(t, "next", [f EXCEPT !.i = @ + 1]) \/ Goto(t, "next", f)
        BY <3>1 DEF Retry
      <4> QED
        BY <3>0, <4>1, <4>2, <1>0, <2>0, <2>b, <2>g
    <3>2. ASSUME NEW c \in Targets(f),
                 cl_mutex' = t,
                 clientUuidMap' = [clientUuidMap EXCEPT ![info[c].uuid] = None],
                 info' = [info EXCEPT ![c].abort = TRUE],
                 freeHandle(info[c].handle),
                 Goto(t, "join", [f EXCEPT !.tgt = c])
          PROVE  \E d \in Registered : Removes(t, d)
      <4>1. c \in Registered /\ c \in Units
        <5>1. f.ty \in UnitTypes
          BY <2>0 DEF Frames
        <5>2. c \in Registered
          BY <5>1 DEF Targets, Registered
        <5> QED
          BY <5>2, <1>0 DEF Registered, Members, RegistryOK
      <4> DEFINE g == [f EXCEPT !.tgt = c]
      <4>2. g \in Frames /\ g.op = f.op /\ g.tgt = c /\ Goto(t, "join", g)
        BY <4>1, <3>2, <2>d
      <4> HIDE DEF g
      <4>3. Removes(t, c)
        BY <2>7, <3>0, <3>2, <4>1, <4>2, <2>h, <2>f DEF Removes, RemoveClient, freeHandle
      <4> QED
        BY <4>1, <4>3
    <3> QED
      BY <2>7, <2>f, <3>1, <3>2 DEF RemoveClient
  <2>8. CASE Return(t)
    <3>1. th[t].pc = "ret" /\ UNCHANGED registry
      BY <2>8 DEF Return, registry, maps
    <3>2. CASE th' = th
      BY <3>1, <3>2 DEF Still
    <3>3. CASE th' = [th EXCEPT ![t] = Home(t)] /\ ~(globalAbort /\ t = "main")
      <4> DEFINE p == IF t = "main" THEN "idle" ELSE "loop"
      <4>1. p \in PCs /\ Goto(t, p, NoFrame) /\ f.op # "closeConnection"
        BY <1>0, <3>3, <2>a, <2>f DEF Goto, Home, globalAbort
      <4>2. Moves(t, p, NoFrame)
        BY <3>1, <4>1, <2>f, NoFrameType DEF Moves
      <4> QED
        BY <3>1, <4>1, <4>2, NoFrameType DEF Quiet
    <3> QED
      BY <2>8, <3>2, <3>3 DEF Return
  <2> QED
    BY <1>4, <2>1, <2>2, <2>3, <2>4, <2>5, <2>6, <2>7, <2>8 DEF Step
<1>5. ASSUME Crash PROVE Still
  BY <1>5 DEF Crash, Still, registry, maps
<1> QED
  BY <1>1, <1>2, <1>3, <1>4, <1>5 DEF Next, Handshake

\* A thread goes on: what ControlInv asks of the place it goes to.
LEMMA GotoControl ==
    ASSUME ControlInv, ThreadsOK, NEW t \in Threads, NEW p, NEW g, Goto(t, p, g),
           p = "idle" => g.op # "closeConnection",
           g.op = "closeConnection" =>
              t = "main" /\ p \in {"next", "release", "join", "stop", "ret"},
           p = "release" => g.op = "closeConnection",
           p \in {"join", "erase"} /\ g.op # "closeConnection" => cl_mutex' = t,
           \A x \in Threads : x # t /\ cl_mutex = x => cl_mutex' = x
    PROVE  ControlInv'
<1>1. th'[t].pc = p /\ th'[t].f = g /\ \A x \in Threads : x # t => th'[x] = th[x]
  BY ThreadFacts
<1>2. "main" \in Threads /\ Units \subseteq Threads /\ "main" \notin Units
  BY ServerAssumption DEF Threads
<1> QED
  BY <1>1, <1>2 DEF ControlInv, globalAbort

\* A move preserves ControlInv,
LEMMA MovesControl ==
    ASSUME ControlInv, ThreadsOK, NEW t \in Threads, NEW p, NEW g, Moves(t, p, g),
           cl_mutex' = cl_mutex
    PROVE  ControlInv'
BY GotoControl DEF Moves

\* and so does a step that leaves the threads and the mutex alone.
LEMMA StillControl ==
    ASSUME ControlInv, th' = th, cl_mutex' = cl_mutex PROVE ControlInv'
BY DEF ControlInv, globalAbort

\* Where a loop goes on after a removal.
LEMMA RetryMoves ==
    ASSUME NEW t \in Threads, NEW f \in Frames, Retry(t, f)
    PROVE  \E p \in {"next", "ret"}, g \in Frames :
              /\ Goto(t, p, g) /\ g.op = f.op /\ g.tgt = f.tgt
              /\ g.want = f.want /\ g.sent = f.sent /\ g.ty = f.ty
              /\ p = "ret" <=> f.op = "sendTo"
              /\ f.op # "rerouteToAnyOfType" => g = f
<1> DEFINE e == [f EXCEPT !.i = @ + 1]
<1>1. /\ e \in Frames /\ e.op = f.op /\ e.tgt = f.tgt
      /\ e.want = f.want /\ e.sent = f.sent /\ e.ty = f.ty
  <2>1. f.i + 1 \in Nat \ {0}
    BY DEF Frames
  <2> QED
    BY <2>1 DEF Frames
<1>2. CASE f.op = "sendTo"
  BY <1>2 DEF Retry
<1>3. CASE f.op = "rerouteToAnyOfType"
  <2>1. Goto(t, "next", e)
    BY <1>3 DEF Retry
  <2> HIDE DEF e
  <2> QED
    BY <2>1, <1>1, <1>3
<1>4. CASE f.op \notin {"sendTo", "rerouteToAnyOfType"}
  BY <1>4 DEF Retry
<1> QED
  BY <1>2, <1>3, <1>4

\* Every step preserves ControlInv.
LEMMA ControlStep ==
    ASSUME TypeOK, ControlInv, Next PROVE ControlInv'
<1> USE ServerAssumption
<1>0. /\ ThreadsOK /\ AcceptOK /\ Units \subseteq Threads /\ "main" \in Threads
      /\ "main" \notin Units /\ None \notin Threads
  BY TypeParts DEF Threads
<1>1. CASE Quiet
  BY <1>1, <1>0, MovesControl DEF Quiet, registry
<1>2. CASE Still
  BY <1>2, StillControl DEF Still, registry
<1>3. CASE Empties
  BY <1>3, <1>0, MovesControl DEF Empties
<1>4. ASSUME NEW u \in Units, StopReceiving(u) PROVE ControlInv'
  <2>1. NoFrame.op = "none" /\ cl_mutex' = cl_mutex /\ Goto(u, "ended", NoFrame)
    BY <1>4, NoFrameType DEF StopReceiving
  <2> QED
    BY <2>1, <1>0, GotoControl
<1>5. ASSUME Spawn PROVE ControlInv'
  <2>1. acc.who \in Units
    BY <1>5, <1>0 DEF Spawn, AcceptOK
  <2>2. Goto(acc.who, "loop", NoFrame) /\ NoFrame.op = "none" /\ cl_mutex' = cl_mutex
    BY <1>5, <2>1, <1>0, NoFrameType DEF Spawn, Goto, Home
  <2> QED
    BY <2>1, <2>2, <1>0, GotoControl
<1>6. ASSUME NEW t \in Threads, NEW c \in Registered, Removes(t, c) PROVE ControlInv'
  <2>1. PICK g \in Frames : Goto(t, "join", g) /\ g.op # "closeConnection"
    BY <1>6 DEF Removes
  <2>2. cl_mutex = None /\ cl_mutex' = t
    BY <1>6 DEF Removes
  <2> QED
    BY <2>1, <2>2, <1>0, GotoControl
<1>7. ASSUME NEW t \in Threads, Release(t) PROVE ControlInv'
  <2> DEFINE f == th[t].f
             g == [f EXCEPT !.tgt = f.cur]
  <2>1. f \in Frames /\ f.op = "closeConnection" /\ t = "main"
    BY <1>7, <1>0 DEF Release, ControlInv, ThreadsOK, Threads
  <2>2. g.op = f.op
    BY <2>1 DEF Frames
  <2>3. Goto(t, "join", g) /\ cl_mutex' = cl_mutex
    BY <1>7 DEF Release
  <2> HIDE DEF g
  <2> QED
    BY <2>1, <2>2, <2>3, <1>0, GotoControl
<1>8. ASSUME NEW t \in Threads, Join(t) PROVE ControlInv'
  <2> DEFINE f == th[t].f
             g == [f EXCEPT !.i = @ + 1]
  <2>1. f \in Frames /\ th[t].pc = "join" /\ cl_mutex' = cl_mutex
    BY <1>8, <1>0 DEF Join, ThreadsOK
  <2>2. g.op = f.op
    BY <2>1 DEF Frames
  <2>3. \/ th' = th
        \/ f.op = "closeConnection" /\ Goto(t, "next", g)
        \/ f.op # "closeConnection" /\ Goto(t, "erase", f)
    BY <1>8 DEF Join
  <2>4. /\ f.op # "closeConnection" => cl_mutex = t
        /\ f.op = "closeConnection" => t = "main"
    BY <2>1 DEF ControlInv, Threads
  <2> HIDE DEF g, f
  <2>5. CASE th' = th
    BY <2>1, <2>5, StillControl
  <2>6. CASE f.op = "closeConnection" /\ Goto(t, "next", g)
    BY <2>1, <2>2, <2>4, <2>6, <1>0, GotoControl
  <2>7. CASE f.op # "closeConnection" /\ Goto(t, "erase", f)
    BY <2>1, <2>4, <2>7, <1>0, GotoControl
  <2> QED
    BY <2>3, <2>5, <2>6, <2>7
<1>9. ASSUME NEW t \in Threads, Erase(t) PROVE ControlInv'
  <2> DEFINE f == th[t].f
             e == [f EXCEPT !.tgt = None]
  <2>1. f \in Frames /\ th[t].pc = "erase" /\ cl_mutex' = None /\ Retry(t, e)
    BY <1>9, <1>0 DEF Erase, ThreadsOK
  <2>2. e \in Frames /\ e.op = f.op
    BY <2>1 DEF Frames
  <2>3. f.op # "closeConnection" /\ cl_mutex = t
    BY <2>1 DEF ControlInv
  <2> HIDE DEF e
  <2>4. PICK p \in {"next", "ret"}, g \in Frames : Goto(t, p, g) /\ g.op = e.op
    BY <2>1, <2>2, RetryMoves
  <2> QED
    BY <2>1, <2>2, <2>3, <2>4, <1>0, GotoControl
<1>10. ASSUME NEW u \in Units, Accept(u) \/ Disconnect(u) PROVE ControlInv'
  BY <1>10, StillControl DEF Accept, Disconnect
<1>11. ASSUME \/ ProbeUuid \/ Register \/ StopAccepting
              \/ \E a \in Answers, n \in Uuids : Hello(a, n)
              \/ \E n \in Uuids : Collide(n)
       PROVE  ControlInv'
  <2>1. th' = th /\ cl_mutex' = cl_mutex
    BY <1>11 DEF ProbeUuid, Register, StopAccepting, Hello, Collide
  <2> QED
    BY <2>1, StillControl
<1> QED
  BY <1>1, <1>2, <1>3, <1>4, <1>5, <1>6, <1>7, <1>8, <1>9, <1>10, <1>11, Steps

-----------------------------------------------------------------------------
(* The lists of clientMap. *)

Distinct(s) == \A i, j \in DOMAIN s : s[i] = s[j] => i = j

\* Erasing the client at k: the ones behind it move up.
LEMMA WithoutAt ==
    ASSUME NEW S, NEW s \in Seq(S), Distinct(s), NEW k \in DOMAIN s
    PROVE  /\ Without(s, s[k]) \in Seq(S)
           /\ Len(Without(s, s[k])) = Len(s) - 1
           /\ DOMAIN Without(s, s[k]) = 1 .. Len(s) - 1
           /\ \A i \in 1 .. Len(s) - 1 :
                 Without(s, s[k])[i] = IF i < k THEN s[i] ELSE s[i + 1]
<1> DEFINE w == [i \in 1 .. Len(s) - 1 |-> IF i < k THEN s[i] ELSE s[i + 1]]
<1>1. (CHOOSE j \in DOMAIN s : s[j] = s[k]) = k
  BY DEF Distinct
<1>2. Without(s, s[k]) = w
  BY <1>1 DEF Without
<1>3. Len(s) - 1 \in Nat /\ w \in Seq(S)
  BY <1>2, WithoutType
<1>4. DOMAIN w = 1 .. Len(s) - 1 /\ Len(w) = Len(s) - 1
  BY <1>3
<1> QED
  BY <1>2, <1>3, <1>4

\* Erasing a client leaves the others, each once.
LEMMA WithoutFacts ==
    ASSUME NEW S, NEW s \in Seq(S), Distinct(s), NEW c
    PROVE  /\ Distinct(Without(s, c))
           /\ \A i \in DOMAIN Without(s, c) :
                 Without(s, c)[i] # c /\ \E j \in DOMAIN s : Without(s, c)[i] = s[j]
           /\ \A j \in DOMAIN s : s[j] # c =>
                 \E i \in DOMAIN Without(s, c) : Without(s, c)[i] = s[j]
<1>1. CASE \A k \in DOMAIN s : s[k] # c
  BY <1>1, WithoutType
<1>2. ASSUME NEW k \in DOMAIN s, s[k] = c
      PROVE  /\ Distinct(Without(s, c))
             /\ \A i \in DOMAIN Without(s, c) :
                   Without(s, c)[i] # c /\ \E j \in DOMAIN s : Without(s, c)[i] = s[j]
             /\ \A j \in DOMAIN s : s[j] # c =>
                   \E i \in DOMAIN Without(s, c) : Without(s, c)[i] = s[j]
  <2> DEFINE w == Without(s, c)
             at(i) == IF i < k THEN i ELSE i + 1
  <2>1. /\ DOMAIN s = 1 .. Len(s) /\ Len(s) \in Nat /\ k \in 1 .. Len(s)
        /\ DOMAIN w = 1 .. Len(s) - 1
        /\ \A i \in 1 .. Len(s) - 1 : w[i] = IF i < k THEN s[i] ELSE s[i + 1]
    BY <1>2, WithoutAt
  <2>2. \A i \in DOMAIN w : w[i] = s[at(i)] /\ at(i) \in DOMAIN s /\ at(i) # k
    BY <2>1
  <2>3. \A i, j \in DOMAIN w : at(i) = at(j) => i = j
    BY <2>1
  <2>4. ASSUME NEW j \in DOMAIN s, j # k PROVE \E i \in DOMAIN w : at(i) = j
    <3>1. CASE j < k
      BY <2>1, <3>1
    <3>2. CASE j > k
      <4>1. j - 1 \in DOMAIN w /\ at(j - 1) = j
        BY <2>1, <3>2
      <4> QED
        BY <4>1
    <3> QED
      BY <2>1, <2>4, <3>1, <3>2
  <2> HIDE DEF w, at
  <2>5. Distinct(w)
    BY <2>2, <2>3 DEF Distinct
  <2>6. \A i \in DOMAIN w : w[i] # c /\ \E j \in DOMAIN s : w[i] = s[j]
    BY <1>2, <2>2 DEF Distinct
  <2>7. \A j \in DOMAIN s : s[j] # c => \E i \in DOMAIN w : w[i] = s[j]
    BY <1>2, <2>2, <2>4
  <2> QED
    BY <2>5, <2>6, <2>7 DEF w
<1> QED
  BY <1>1, <1>2

\* A client is registered when some list has it.
LEMMA RegisteredFacts ==
    /\ \A c : c \in Registered <=>
          \E ty \in UnitTypes : \E i \in DOMAIN clientMap[ty] : clientMap[ty][i] = c
    /\ \A c : c \in Registered' <=>
          \E ty \in UnitTypes : \E i \in DOMAIN clientMap'[ty] : clientMap'[ty][i] = c
    /\ clientMap' = clientMap => Registered' = Registered
<1>1. \A c : c \in Registered <=>
         \E ty \in UnitTypes : \E i \in DOMAIN clientMap[ty] : clientMap[ty][i] = c
  BY DEF Registered, Members
<1>2. \A c : c \in Registered' <=>
         \E ty \in UnitTypes : \E i \in DOMAIN clientMap'[ty] : clientMap'[ty][i] = c
  BY DEF Registered, Members
<1>3. clientMap' = clientMap => Registered' = Registered
  BY DEF Registered, Members
<1> QED
  BY <1>1, <1>2, <1>3

\* Only units are registered.
LEMMA RegisteredUnits == TypeOK => Registered \subseteq Units
BY RegisteredFacts DEF TypeOK

\* The lists are in order.
Ordered ==
    \A ty \in UnitTypes :
       /\ \A i \in DOMAIN clientMap[ty] : TypeOf[clientMap[ty][i]] = ty
       /\ Distinct(clientMap[ty])

\* Registration adds a client at the end of the list of its type.
LEMMA RegisterLists ==
    ASSUME TypeOK, Ordered, Register, acc.who \notin Registered
    PROVE  Ordered' /\ Registered' = Registered \cup {acc.who}
<1> DEFINE ty == TypeOf[acc.who]
           s == clientMap[ty]
<1>1. acc.who \in Units /\ ty \in UnitTypes /\ clientMap \in [UnitTypes -> Seq(Units)]
  BY ServerAssumption DEF Register, TypeOK
<1>2. /\ \A x \in UnitTypes : x # ty => clientMap'[x] = clientMap[x]
      /\ clientMap'[ty] = Append(s, acc.who)
  BY <1>1 DEF Register
<1>3. /\ s \in Seq(Units) /\ Len(s) \in Nat /\ DOMAIN s = 1 .. Len(s)
      /\ DOMAIN clientMap'[ty] = 1 .. Len(s) + 1
      /\ \A i \in 1 .. Len(s) : clientMap'[ty][i] = s[i]
      /\ clientMap'[ty][Len(s) + 1] = acc.who
  BY <1>1, <1>2
<1>4. \A i \in 1 .. Len(s) : s[i] # acc.who /\ TypeOf[s[i]] = ty
  BY <1>1, <1>3, RegisteredFacts DEF Ordered
<1>5. Distinct(clientMap'[ty])
  <2>1. ASSUME NEW i \in 1 .. Len(s) + 1, NEW j \in 1 .. Len(s) + 1,
               clientMap'[ty][i] = clientMap'[ty][j]
        PROVE  i = j
    <3>1. \A n \in 1 .. Len(s) + 1 : n \in 1 .. Len(s) \/ n = Len(s) + 1
      BY <1>3
    <3>2. Distinct(s)
      BY <1>1 DEF Ordered
    <3> QED
      BY <2>1, <3>1, <3>2, <1>3, <1>4 DEF Distinct
  <2> QED
    BY <2>1, <1>3 DEF Distinct
<1>6. \A i \in DOMAIN clientMap'[ty] : TypeOf[clientMap'[ty][i]] = ty
  <2>1. \A n \in 1 .. Len(s) + 1 : n \in 1 .. Len(s) \/ n = Len(s) + 1
    BY <1>3
  <2> QED
    BY <2>1, <1>3, <1>4
<1>7. Ordered'
  BY <1>2, <1>5, <1>6 DEF Ordered
<1>8. ASSUME NEW c PROVE c \in Registered' <=> c \in Registered \cup {acc.who}
  <2>1. \A n \in 1 .. Len(s) + 1 : n \in 1 .. Len(s) \/ n = Len(s) + 1
    BY <1>3
  <2>2. \A n \in 1 .. Len(s) : n \in 1 .. Len(s) + 1
    BY <1>3
  <2>3. Len(s) + 1 \in 1 .. Len(s) + 1
    BY <1>3
  <2> HIDE DEF s, ty
  <2>4. (\E i \in DOMAIN clientMap'[ty] : clientMap'[ty][i] = c)
        <=> (\E i \in DOMAIN s : s[i] = c) \/ c = acc.who
    BY <2>1, <2>2, <2>3, <1>3
  <2>5. (\E i \in DOMAIN s : s[i] = c) <=> \E i \in DOMAIN clientMap[ty] : clientMap[ty][i] = c
    BY DEF s
  <2> QED
    BY <2>4, <2>5, <1>1, <1>2, RegisteredFacts
<1> QED
  BY <1>7, <1>8

\* erase takes one client out of the list of its type.
LEMMA EraseLists ==
    ASSUME TypeOK, Ordered, NEW c \in Units,
           clientMap' = [clientMap EXCEPT ![TypeOf[c]] = Without(@, c)]
    PROVE  Ordered' /\ Registered' = Registered \ {c}
<1> DEFINE ty == TypeOf[c]
           s == clientMap[ty]
           w == Without(s, c)
<1>1. ty \in UnitTypes /\ clientMap \in [UnitTypes -> Seq(Units)] /\ s \in Seq(Units)
  BY ServerAssumption DEF TypeOK
<1>2. /\ \A x \in UnitTypes : x # ty => clientMap'[x] = clientMap[x]
      /\ clientMap'[ty] = w
  BY <1>1
<1>3. Distinct(s) /\ \A i \in DOMAIN s : TypeOf[s[i]] = ty
  BY <1>1 DEF Ordered
<1>4. /\ Distinct(w)
      /\ \A i \in DOMAIN w : w[i] # c /\ \E j \in DOMAIN s : w[i] = s[j]
      /\ \A j \in DOMAIN s : s[j] # c => \E i \in DOMAIN w : w[i] = s[j]
  BY <1>1, <1>3, WithoutFacts
<1> HIDE DEF w
<1>5. Ordered'
  BY <1>2, <1>3, <1>4 DEF Ordered
<1>6. ASSUME NEW d PROVE d \in Registered' <=> d \in Registered \ {c}
  <2>1. ASSUME d \in Registered' PROVE d \in Registered \ {c}
    <3>1. PICK x \in UnitTypes : \E i \in DOMAIN clientMap'[x] : clientMap'[x][i] = d
      BY <2>1, RegisteredFacts
    <3>2. CASE x = ty
      BY <3>1, <3>2, <1>1, <1>2, <1>4, RegisteredFacts
    <3>3. CASE x # ty
      <4>1. \E i \in DOMAIN clientMap[x] : clientMap[x][i] = d
        BY <3>1, <3>3, <1>2
      <4>2. TypeOf[d] = x
        BY <4>1 DEF Ordered
      <4> QED
        BY <4>1, <4>2, <3>3, RegisteredFacts
    <3> QED
      BY <3>2, <3>3
  <2>2. ASSUME d \in Registered, d # c PROVE d \in Registered'
    <3>1. PICK x \in UnitTypes : \E i \in DOMAIN clientMap[x] : clientMap[x][i] = d
      BY <2>2, RegisteredFacts
    <3>2. CASE x = ty
      BY <3>1, <3>2, <2>2, <1>1, <1>2, <1>4, RegisteredFacts
    <3>3. CASE x # ty
      BY <3>1, <3>3, <1>2, RegisteredFacts
    <3> QED
      BY <3>2, <3>3
  <2> QED
    BY <2>1, <2>2
<1> QED
  BY <1>5, <1>6

\* closeConnection empties a list: nobody is added.
LEMMA EmptiesLists ==
    ASSUME TypeOK, Ordered, Empties
    PROVE  Ordered' /\ Registered' \subseteq Registered
<1>1. PICK ty : clientMap' = [clientMap EXCEPT ![ty] = <<>>]
  BY DEF Empties
<1>2. \A x \in UnitTypes : clientMap'[x] = clientMap[x] \/ clientMap'[x] = <<>>
  BY <1>1 DEF TypeOK
<1>3. Distinct(<<>>)
  BY DEF Distinct
<1>4. Ordered'
  BY <1>2, <1>3 DEF Ordered
<1>5. Registered' \subseteq Registered
  BY <1>2, RegisteredFacts
<1> QED
  BY <1>4, <1>5

-----------------------------------------------------------------------------
(* Who is registered. *)

Shaking == {"hello", "check", "collide", "register"}

\* Unit c has been past the handshake.
Past(c) == unit[c] # "away" /\ (acc.pc \in Shaking => acc.who # c)

\* A unit is listed once, under its type, and only after its handshake; until
\* then it has no receiver thread, and nobody removes it.
ListsInv ==
    /\ Ordered
    /\ \A c \in Registered :
          info[c].handle \in Handles /\ info[c].uuid \in Uuids /\ Past(c)
    /\ acc.pc \in {"check", "collide", "register"} => info[acc.who].handle \in Handles
    /\ \A u \in Units : unit[u] = "away" => th[u].pc = "none" /\ ~info[u].receiver
    /\ acc.pc \notin {"accept", "stopped"} =>
          /\ unit[acc.who] # "away"
          /\ th[acc.who].pc = "none" /\ ~info[acc.who].receiver
    /\ \A t \in Threads :
          th[t].pc \in {"join", "erase"} /\ th[t].f.op # "closeConnection" =>
             Past(th[t].f.tgt)
    /\ ~globalAbort /\ acc.pc \in {"check", "collide", "register"} =>
          info[acc.who].mem = "alive"

\* Setting abort leaves the rest of a ClientInfo alone.
LEMMA InfoAbort ==
    ASSUME info \in [Units -> Infos], NEW c \in Units,
           info' = [info EXCEPT ![c].abort = TRUE]
    PROVE  \A x \in Units :
              /\ info'[x].mem = info[x].mem /\ info'[x].handle = info[x].handle
              /\ info'[x].uuid = info[x].uuid /\ info'[x].receiver = info[x].receiver
BY DEF Infos

\* Deleting a ClientInfo leaves its contents alone.
LEMMA InfoFreed ==
    ASSUME info \in [Units -> Infos], NEW c \in Units,
           info' = [info EXCEPT ![c].mem = "freed"]
    PROVE  \A x \in Units :
              /\ info'[x].mem = IF x = c THEN "freed" ELSE info[x].mem
              /\ info'[x].handle = info[x].handle
              /\ info'[x].uuid = info[x].uuid /\ info'[x].receiver = info[x].receiver
BY DEF Infos

\* closeConnection never ends its call.
LEMMA AbortStays ==
    ASSUME ThreadsOK, NEW t \in Threads, NEW p, NEW g, Moves(t, p, g)
    PROVE  globalAbort => globalAbort'
<1>1. th'[t].f = g /\ \A x \in Threads : x # t => th'[x] = th[x]
  BY ThreadFacts DEF Moves
<1> QED
  BY <1>1 DEF Moves, globalAbort, Threads

\* What a move leaves alone.
LEMMA MovesLists ==
    ASSUME TypeOK, ListsInv, NEW t \in Threads, NEW p, NEW g, Moves(t, p, g),
           unit' = unit, acc' = acc,
           \A x \in Units : /\ info'[x].mem = info[x].mem
                            /\ info'[x].handle = info[x].handle
                            /\ info'[x].uuid = info[x].uuid
                            /\ info'[x].receiver = info[x].receiver,
           Ordered', Registered' \subseteq Registered
    PROVE  ListsInv'
<1>0. ThreadsOK /\ AcceptOK /\ RegistryOK /\ Units \subseteq Threads /\ Registered \subseteq Units
  BY TypeParts, RegisteredUnits DEF Threads
<1>1. /\ th'[t].pc = p /\ \A x \in Threads : x # t => th'[x] = th[x]
      /\ th[t].pc # "none" /\ p \notin {"join", "erase"}
  BY <1>0, ThreadFacts DEF Moves
<1>2. \A c : Past(c)' <=> Past(c)
  BY DEF Past
<1>3. globalAbort => globalAbort'
  BY <1>0, AbortStays
<1>4. \A x \in Threads : th[x].pc = "none" => th'[x] = th[x]
  BY <1>1
<1>5. \A x \in Threads : th'[x].pc \in {"join", "erase"} => th'[x] = th[x]
  BY <1>1
<1>6. acc.pc \notin {"accept", "stopped"} => acc.who \in Units
  BY <1>0 DEF AcceptOK
<1> QED
  BY <1>0, <1>2, <1>3, <1>4, <1>5, <1>6 DEF ListsInv

\* Every step preserves ListsInv.
LEMMA ListsStep ==
    ASSUME TypeOK, ControlInv, ListsInv, Next PROVE ListsInv'
<1> USE ServerAssumption
<1>0. /\ ThreadsOK /\ AcceptOK /\ RegistryOK /\ Units \subseteq Threads
      /\ Registered \subseteq Units /\ "main" \in Threads
      /\ "main" \notin Units /\ None \notin Threads
  BY TypeParts, RegisteredUnits DEF Threads
<1>a. info \in [Units -> Infos]
  BY <1>0 DEF RegistryOK
<1>b. acc.pc \notin {"accept", "stopped"} => acc.who \in Units /\ acc.handle \in Handles
  BY <1>0 DEF AcceptOK
<1>c. clientMap' = clientMap => Ordered' /\ Registered' = Registered
  BY RegisteredFacts DEF ListsInv, Ordered
<1>d. \A t \in Threads : th[t].pc \in {"join", "erase"} => th[t].f.tgt \in Units
  BY <1>0 DEF ThreadsOK
<1>e. unit \in [Units -> {"away", "here", "left"}]
  BY DEF TypeOK
<1>1. CASE Quiet
  <2>1. PICK t \in Threads, p \in PCs, g \in Frames : Moves(t, p, g)
    BY <1>1 DEF Quiet
  <2> QED
    BY <1>1, <2>1, <1>c, MovesLists DEF Quiet, registry
<1>2. CASE Still
  BY <1>2, <1>c DEF Still, registry, ListsInv, Past, globalAbort
<1>3. CASE Empties
  <2>1. PICK p \in PCs, g \in Frames : Moves("main", p, g)
    BY <1>3 DEF Empties
  <2>2. Ordered' /\ Registered' \subseteq Registered
    BY <1>3, EmptiesLists DEF ListsInv
  <2> QED
    BY <1>3, <2>1, <2>2, <1>0, MovesLists DEF Empties
<1>4. ASSUME NEW u \in Units, Accept(u) PROVE ListsInv'
  <2>1. /\ acc.pc = "accept" /\ unit[u] = "away" /\ unit' = [unit EXCEPT ![u] = "here"]
        /\ acc'.pc = "hello" /\ acc'.who = u
        /\ info' = info /\ clientMap' = clientMap /\ th' = th
    BY <1>4 DEF Accept, maps
  <2>2. \A x \in Units : unit'[x] = IF x = u THEN "here" ELSE unit[x]
    BY <2>1, <1>e
  <2>3. \A c \in Units : Past(c) => Past(c)'
    BY <2>1, <2>2 DEF Past
  <2>4. th[u].pc = "none" /\ ~info[u].receiver
    BY <2>1 DEF ListsInv
  <2> QED
    BY <2>1, <2>2, <2>3, <2>4, <1>0, <1>c, <1>d DEF ListsInv, globalAbort
<1>5. ASSUME NEW u \in Units, Disconnect(u) PROVE ListsInv'
  <2>1. /\ unit[u] = "here" /\ unit' = [unit EXCEPT ![u] = "left"] /\ acc' = acc
        /\ info' = info /\ clientMap' = clientMap /\ th' = th
    BY <1>5 DEF Disconnect, maps
  <2>2. \A x \in Units : unit'[x] = IF x = u THEN "left" ELSE unit[x]
    BY <2>1, <1>e
  <2>3. \A c \in Units : Past(c) => Past(c)'
    BY <2>1, <2>2 DEF Past
  <2> QED
    BY <2>1, <2>2, <2>3, <1>0, <1>b, <1>c, <1>d DEF ListsInv, globalAbort
<1>6. ASSUME NEW u \in Units, StopReceiving(u) PROVE ListsInv'
  <2>1. /\ th[u].pc = "loop" /\ Goto(u, "ended", NoFrame)
        /\ info' = info \/ info' = [info EXCEPT ![u].abort = TRUE]
        /\ clientMap' = clientMap /\ unit' = unit /\ acc' = acc
    BY <1>6 DEF StopReceiving, maps
  <2>2. \A x \in Units :
           /\ info'[x].mem = info[x].mem /\ info'[x].handle = info[x].handle
           /\ info'[x].uuid = info[x].uuid /\ info'[x].receiver = info[x].receiver
    <3>1. CASE info' = info
      BY <3>1
    <3>2. CASE info' = [info EXCEPT ![u].abort = TRUE]
      BY <3>2, <1>a, InfoAbort
    <3> QED
      BY <2>1, <3>1, <3>2
  <2>3. Moves(u, "ended", NoFrame)
    BY <2>1, <1>0, NoFrameType DEF Moves, ControlInv
  <2> QED
    BY <2>1, <2>2, <2>3, <1>0, <1>c, MovesLists
<1>7. ASSUME NEW a \in Answers, NEW n \in Uuids, Hello(a, n) PROVE ListsInv'
  <2>1. acc.pc = "hello" /\ clientMap' = clientMap /\ th' = th /\ unit' = unit
    BY <1>7 DEF Hello, maps
  <2>2. acc.who \in Units /\ acc.who \notin Registered
    BY <2>1, <1>b DEF ListsInv, Past, Shaking
  <2>3. CASE a \in {"silent", "garbage"}
    <3>1. acc'.pc = "accept" /\ info' = info
      BY <1>7, <2>3 DEF Hello, Backlog
    <3>2. \A c : Past(c) => Past(c)'
      BY <2>1, <3>1 DEF Past, Shaking
    <3> QED
      BY <2>1, <3>1, <3>2, <1>c DEF ListsInv, globalAbort
  <2>4. CASE a = "short"
    <3>1. acc' = acc /\ info' = info
      BY <1>7, <2>4 DEF Hello
    <3> QED
      BY <2>1, <3>1, <1>c DEF ListsInv, Past, globalAbort
  <2>5. CASE a \notin {"silent", "garbage", "short"}
    <3>1. /\ info' = [info EXCEPT ![acc.who] =
                        [@ EXCEPT !.mem = "alive", !.handle = acc.handle]]
          /\ acc' = [acc EXCEPT !.pc = "check", !.uuid = n]
      BY <1>7, <2>5 DEF Hello
    <3>2. acc'.pc = "check" /\ acc'.who = acc.who
      BY <3>1, <1>0 DEF AcceptOK
    <3>3. \A x \in Units :
             /\ info'[x].mem = IF x = acc.who THEN "alive" ELSE info[x].mem
             /\ info'[x].handle = IF x = acc.who THEN acc.handle ELSE info[x].handle
             /\ info'[x].uuid = info[x].uuid /\ info'[x].receiver = info[x].receiver
      BY <3>1, <2>2, <1>a DEF Infos
    <3>4. \A c : Past(c) => Past(c)'
      BY <2>1, <3>2 DEF Past, Shaking
    <3> QED
      BY <2>1, <2>2, <3>2, <3>3, <3>4, <1>0, <1>b, <1>c DEF ListsInv, globalAbort
  <2> QED
    BY <2>3, <2>4, <2>5
<1>8. ASSUME ProbeUuid PROVE ListsInv'
  <2>1. /\ acc.pc = "check" /\ acc'.pc \in {"collide", "register"} /\ acc'.who = acc.who
        /\ clientMap' = clientMap /\ th' = th /\ unit' = unit /\ info' = info
    BY <1>8, <1>0 DEF ProbeUuid, maps, AcceptOK
  <2>2. \A c : Past(c) => Past(c)'
    BY <2>1 DEF Past, Shaking
  <2> QED
    BY <2>1, <2>2, <1>c DEF ListsInv, globalAbort
<1>9. ASSUME NEW n \in Uuids, Collide(n) PROVE ListsInv'
  <2>1. acc.pc = "collide" /\ clientMap' = clientMap /\ th' = th /\ unit' = unit
    BY <1>9 DEF Collide, maps
  <2>2. CASE acc' = [acc EXCEPT !.pc = "check", !.uuid = n] /\ UNCHANGED <<fd, info>>
    <3>1. acc'.pc = "check" /\ acc'.who = acc.who /\ info' = info
      BY <2>2, <1>0 DEF AcceptOK
    <3>2. \A c : Past(c) => Past(c)'
      BY <2>1, <3>1 DEF Past, Shaking
    <3> QED
      BY <2>1, <3>1, <3>2, <1>c DEF ListsInv, globalAbort
  <2>3. CASE /\ info' = [info EXCEPT ![acc.who].mem = "freed", ![acc.who].abort = TRUE]
             /\ Backlog
    <3>1. acc'.pc = "accept" /\ acc.who \in Units
      BY <2>1, <2>3, <1>b DEF Backlog
    <3>2. \A x \in Units :
             /\ info'[x].mem = IF x = acc.who THEN "freed" ELSE info[x].mem
             /\ info'[x].handle = info[x].handle
             /\ info'[x].uuid = info[x].uuid /\ info'[x].receiver = info[x].receiver
      BY <2>3, <3>1, <1>a DEF Infos
    <3>3. acc.who \notin Registered
      BY <2>1 DEF ListsInv, Past, Shaking
    <3>4. \A c : Past(c) => Past(c)'
      BY <2>1, <3>1 DEF Past, Shaking
    <3> QED
      BY <2>1, <3>1, <3>2, <3>3, <3>4, <1>0, <1>c DEF ListsInv, globalAbort
  <2> QED
    BY <1>9, <2>2, <2>3 DEF Collide
<1>10. ASSUME Register PROVE ListsInv'
  <2>1. /\ acc.pc = "register" /\ acc.who \in Units /\ acc.uuid \in Uuids
        /\ acc' = [acc EXCEPT !.pc = "spawn"] /\ unit' = unit /\ th' = th
        /\ info' = [info EXCEPT ![acc.who].uuid = acc.uuid]
    BY <1>10, <1>0 DEF Register, AcceptOK
  <2>2. acc'.pc = "spawn" /\ acc'.who = acc.who /\ acc.who \notin Registered
    BY <2>1, <1>0 DEF AcceptOK, ListsInv, Past, Shaking
  <2>3. Ordered' /\ Registered' = Registered \cup {acc.who}
    BY <1>10, <2>2, RegisterLists DEF ListsInv
  <2>4. \A x \in Units :
           /\ info'[x].mem = info[x].mem /\ info'[x].handle = info[x].handle
           /\ info'[x].uuid = IF x = acc.who THEN acc.uuid ELSE info[x].uuid
           /\ info'[x].receiver = info[x].receiver
    BY <2>1, <1>a DEF Infos
  <2>5. \A c : Past(c) => Past(c)'
    BY <2>1, <2>2 DEF Past, Shaking
  <2>6. Past(acc.who)' /\ info[acc.who].handle \in Handles
    BY <2>1, <2>2 DEF Past, Shaking, ListsInv
  <2> QED
    BY <2>1, <2>2, <2>3, <2>4, <2>5, <2>6, <1>0 DEF ListsInv, globalAbort
<1>11. ASSUME Spawn PROVE ListsInv'
  <2>1. /\ acc.pc = "spawn" /\ acc.who \in Units /\ acc'.pc = "accept"
        /\ unit' = unit /\ clientMap' = clientMap
        /\ info' = [info EXCEPT ![acc.who].receiver = TRUE]
        /\ th' = [th EXCEPT ![acc.who] = Home(acc.who)]
    BY <1>11, <1>b DEF Spawn, maps, Backlog
  <2>2. \A x \in Units :
           /\ info'[x].mem = info[x].mem /\ info'[x].handle = info[x].handle
           /\ info'[x].uuid = info[x].uuid
           /\ x # acc.who => info'[x].receiver = info[x].receiver
    <3>1. /\ \A x \in Units : x # acc.who => info'[x] = info[x]
          /\ info'[acc.who] = [info[acc.who] EXCEPT !.receiver = TRUE]
      BY <2>1, <1>a
    <3>2. info[acc.who] \in Infos
      BY <2>1, <1>a
    <3>3. /\ info'[acc.who].mem = info[acc.who].mem
          /\ info'[acc.who].handle = info[acc.who].handle
          /\ info'[acc.who].uuid = info[acc.who].uuid
      BY <3>1, <3>2 DEF Infos
    <3> QED
      BY <3>1, <3>3
  <2>3. /\ \A x \in Threads : x # acc.who => th'[x] = th[x]
        /\ th'[acc.who].pc = "loop"
    <3>1. Goto(acc.who, "loop", NoFrame) /\ acc.who \in Threads
      BY <2>1, <1>0 DEF Home, Goto
    <3> QED
      BY <3>1, <1>0, ThreadFacts
  <2>4. \A c : Past(c) => Past(c)'
    BY <2>1 DEF Past, Shaking
  <2>5. unit[acc.who] # "away"
    BY <2>1 DEF ListsInv
  <2>6. th'["main"] = th["main"]
    BY <2>1, <2>3, <1>0
  <2> QED
    BY <2>1, <2>2, <2>3, <2>4, <2>5, <2>6, <1>0, <1>c DEF ListsInv, globalAbort
<1>12. ASSUME StopAccepting PROVE ListsInv'
  <2>1. /\ acc.pc = "accept" /\ acc'.pc = "stopped"
        /\ clientMap' = clientMap /\ th' = th /\ unit' = unit /\ info' = info
    BY <1>12, <1>0 DEF StopAccepting, maps, AcceptOK
  <2>2. \A c : Past(c) => Past(c)'
    BY <2>1 DEF Past, Shaking
  <2> QED
    BY <2>1, <2>2, <1>c DEF ListsInv, globalAbort
<1>13. ASSUME NEW t \in Threads, NEW c \in Registered, Removes(t, c) PROVE ListsInv'
  <2>1. PICK g \in Frames : Goto(t, "join", g) /\ g.tgt = c /\ g.op # "closeConnection"
    BY <1>13 DEF Removes
  <2>2. /\ th[t].pc = "remove" /\ th[t].f.op # "closeConnection"
        /\ unit' = unit /\ clientMap' = clientMap /\ acc' = acc
        /\ info' = [info EXCEPT ![c].abort = TRUE]
    BY <1>13 DEF Removes
  <2>3. /\ th'[t].pc = "join" /\ th'[t].f = g
        /\ \A x \in Threads : x # t => th'[x] = th[x]
    BY <2>1, <1>0, ThreadFacts
  <2>4. \A x \in Units :
           /\ info'[x].mem = info[x].mem /\ info'[x].handle = info[x].handle
           /\ info'[x].uuid = info[x].uuid /\ info'[x].receiver = info[x].receiver
    BY <2>2, <1>0, <1>a, InfoAbort
  <2>5. \A x : Past(x)' <=> Past(x)
    BY <2>2 DEF Past
  <2>6. globalAbort' = globalAbort
    BY <2>1, <2>2, <2>3 DEF globalAbort, Threads
  <2>7. Past(c)
    BY DEF ListsInv
  <2> QED
    BY <2>1, <2>2, <2>3, <2>4, <2>5, <2>6, <2>7, <1>0, <1>b, <1>c DEF ListsInv
<1>14. ASSUME NEW t \in Threads, Release(t) PROVE ListsInv'
  <2> DEFINE f == th[t].f
             g == [f EXCEPT !.tgt = f.cur]
  <2>1. /\ f \in Frames /\ f.op = "closeConnection" /\ t = "main" /\ f.cur \in Units
        /\ th[t].pc = "release"
    BY <1>14, <1>0 DEF Release, ControlInv, ThreadsOK, Threads
  <2>2. g.op = "closeConnection"
    BY <2>1 DEF Frames
  <2>3. /\ Goto(t, "join", g) /\ unit' = unit /\ clientMap' = clientMap /\ acc' = acc
        /\ info' = [info EXCEPT ![f.cur].abort = TRUE]
    BY <1>14 DEF Release, maps
  <2> HIDE DEF g
  <2>4. /\ th'[t].pc = "join" /\ th'[t].f = g
        /\ \A x \in Threads : x # t => th'[x] = th[x]
    BY <2>3, <1>0, ThreadFacts
  <2>5. \A x \in Units :
           /\ info'[x].mem = info[x].mem /\ info'[x].handle = info[x].handle
           /\ info'[x].uuid = info[x].uuid /\ info'[x].receiver = info[x].receiver
    BY <2>1, <2>3, <1>a, InfoAbort
  <2>6. \A x : Past(x)' <=> Past(x)
    BY <2>3 DEF Past
  <2>7. globalAbort'
    BY <2>1, <2>2, <2>4 DEF globalAbort
  <2> QED
    BY <2>1, <2>2, <2>3, <2>4, <2>5, <2>6, <2>7, <1>0, <1>b, <1>c DEF ListsInv
<1>15. ASSUME NEW t \in Threads, Join(t) PROVE ListsInv'
  <2> DEFINE f == th[t].f
             g == [f EXCEPT !.i = @ + 1]
  <2>1. /\ f \in Frames /\ th[t].pc = "join" /\ unit' = unit /\ clientMap' = clientMap
        /\ acc' = acc /\ f.tgt \in Units
    BY <1>15, <1>0 DEF Join, ThreadsOK, maps
  <2>2. g.op = f.op
    BY <2>1 DEF Frames
  <2>3. \/ th' = th /\ info' = info
        \/ f.op = "closeConnection" /\ Goto(t, "next", g)
           /\ info' = [info EXCEPT ![f.tgt].mem = "freed"]
        \/ f.op # "closeConnection" /\ Goto(t, "erase", f)
           /\ info' = [info EXCEPT ![f.tgt].mem = "freed"]
    BY <1>15 DEF Join
  <2>4. f.op = "closeConnection" => t = "main"
    BY <2>1 DEF ControlInv, Threads
  <2>5. \A x : Past(x)' <=> Past(x)
    BY <2>1 DEF Past
  <2> HIDE DEF g
  <2>7. CASE th' = th /\ info' = info
    BY <2>1, <2>5, <2>7, <1>c DEF ListsInv, globalAbort
  <2>8. ASSUME info' = [info EXCEPT ![f.tgt].mem = "freed"]
        PROVE  \A x \in Units :
              /\ info'[x].mem = IF x = f.tgt THEN "freed" ELSE info[x].mem
              /\ info'[x].handle = info[x].handle
              /\ info'[x].uuid = info[x].uuid /\ info'[x].receiver = info[x].receiver
    BY <2>1, <2>8, <1>a, InfoFreed
  <2>9. CASE f.op = "closeConnection" /\ Goto(t, "next", g)
             /\ info' = [info EXCEPT ![f.tgt].mem = "freed"]
    <3>1. /\ th'[t].pc = "next" /\ th'[t].f = g
          /\ \A x \in Threads : x # t => th'[x] = th[x]
      BY <2>9, <1>0, ThreadFacts
    <3>2. globalAbort'
      BY <2>2, <2>4, <2>9, <3>1 DEF globalAbort
    <3> QED
      BY <2>1, <2>4, <2>5, <2>8, <2>9, <3>1, <3>2, <1>0, <1>b, <1>c DEF ListsInv
  <2>10. CASE f.op # "closeConnection" /\ Goto(t, "erase", f)
              /\ info' = [info EXCEPT ![f.tgt].mem = "freed"]
    <3>1. /\ th'[t].pc = "erase" /\ th'[t].f = f
          /\ \A x \in Threads : x # t => th'[x] = th[x]
      BY <2>10, <1>0, ThreadFacts
    <3>2. globalAbort' = globalAbort
      BY <3>1 DEF globalAbort, Threads
    <3>3. Past(f.tgt)
      BY <2>1, <2>10 DEF ListsInv
    <3>4. acc.pc \in Shaking => f.tgt # acc.who
      BY <3>3 DEF Past
    <3>5. {"check", "collide", "register"} \subseteq Shaking
      BY DEF Shaking
    <3> QED
      BY <2>1, <2>5, <2>8, <2>10, <3>1, <3>2, <3>3, <3>4, <3>5, <1>0, <1>b, <1>c DEF ListsInv
  <2> QED
    BY <2>3, <2>7, <2>9, <2>10
<1>16. ASSUME NEW t \in Threads, Erase(t) PROVE ListsInv'
  <2> DEFINE f == th[t].f
             e == [f EXCEPT !.tgt = None]
  <2>1. /\ f \in Frames /\ th[t].pc = "erase" /\ Retry(t, e) /\ f.tgt \in Units
        /\ clientMap' = [clientMap EXCEPT ![TypeOf[f.tgt]] = Without(@, f.tgt)]
        /\ unit' = unit /\ info' = info /\ acc' = acc
    BY <1>16, <1>0 DEF Erase, ThreadsOK
  <2>2. e \in Frames /\ e.op = f.op /\ f.op # "closeConnection"
    BY <2>1 DEF Frames, ControlInv
  <2> HIDE DEF e
  <2>3. PICK p \in {"next", "ret"}, g \in Frames : Goto(t, p, g) /\ g.op = e.op
    BY <2>1, <2>2, RetryMoves
  <2>4. /\ th'[t].pc = p /\ th'[t].f = g
        /\ \A x \in Threads : x # t => th'[x] = th[x]
    BY <2>3, <1>0, ThreadFacts
  <2>5. Ordered' /\ Registered' = Registered \ {f.tgt}
    BY <2>1, EraseLists DEF ListsInv
  <2>6. \A x : Past(x)' <=> Past(x)
    BY <2>1 DEF Past
  <2>7. globalAbort' = globalAbort
    BY <2>2, <2>3, <2>4 DEF globalAbort, Threads
  <2> QED
    BY <2>1, <2>3, <2>4, <2>5, <2>6, <2>7, <1>0, <1>b DEF ListsInv
<1> QED
  BY <1>1, <1>2, <1>3, <1>4, <1>5, <1>6, <1>7, <1>8, <1>9, <1>10, <1>11, <1>12,
     <1>13, <1>14, <1>15, <1>16, Steps

-----------------------------------------------------------------------------
(* clientMap and clientUuidMap. *)

\* closeConnection, once begun, is never over.
LEMMA AbortStep ==
    ASSUME TypeOK, ControlInv, Next, globalAbort PROVE globalAbort'
<1> USE ServerAssumption
<1>0. /\ ThreadsOK /\ AcceptOK /\ Units \subseteq Threads /\ "main" \in Threads
      /\ "main" \notin Units
  BY TypeParts DEF Threads
<1>1. CASE Quiet \/ Empties
  BY <1>1, <1>0, AbortStays DEF Quiet, Empties
<1>2. CASE th' = th
  BY <1>2 DEF globalAbort
<1>3. ASSUME NEW t \in Threads, t # "main", NEW p, NEW g, Goto(t, p, g)
      PROVE  globalAbort'
  BY <1>3, <1>0, ThreadFacts DEF globalAbort
<1>4. ASSUME NEW p, NEW g, Goto("main", p, g), g.op = "closeConnection"
      PROVE  globalAbort'
  BY <1>4, <1>0, ThreadFacts DEF globalAbort
<1>5. ASSUME NEW u \in Units, StopReceiving(u) PROVE globalAbort'
  BY <1>5, <1>0, <1>3 DEF StopReceiving
<1>6. ASSUME Spawn PROVE globalAbort'
  <2>1. acc.who \in Units /\ Goto(acc.who, "loop", NoFrame)
    BY <1>6, <1>0 DEF Spawn, AcceptOK, Goto, Home
  <2> QED
    BY <2>1, <1>0, <1>3
<1>7. ASSUME NEW t \in Threads, NEW c \in Registered, Removes(t, c) PROVE globalAbort'
  <2>1. t # "main"
    BY <1>7 DEF Removes, globalAbort
  <2> QED
    BY <1>7, <2>1, <1>3 DEF Removes
<1>8. ASSUME NEW t \in Threads, Release(t) \/ Join(t) \/ Erase(t) PROVE globalAbort'
  <2> DEFINE f == th[t].f
             g == [f EXCEPT !.tgt = f.cur]
             h == [f EXCEPT !.i = @ + 1]
             e == [f EXCEPT !.tgt = None]
  <2>1. f \in Frames
    BY <1>0 DEF ThreadsOK
  <2>2. g.op = f.op /\ h.op = f.op /\ e.op = f.op /\ e \in Frames
    BY <2>1 DEF Frames
  <2>3. /\ Release(t) => Goto(t, "join", g)
        /\ Join(t) => th' = th \/ Goto(t, "next", h) \/ Goto(t, "erase", f)
        /\ Erase(t) => Retry(t, e)
    BY DEF Release, Join, Erase
  <2>4. t = "main" => f.op = "closeConnection"
    BY DEF globalAbort
  <2> HIDE DEF f, g, h, e
  <2>5. \E p, d : (Goto(t, p, d) /\ d.op = f.op) \/ th' = th
    BY <1>8, <2>2, <2>3, RetryMoves
  <2> QED
    BY <2>4, <2>5, <1>2, <1>3, <1>4
<1>9. CASE Still
  BY <1>9, <1>2 DEF Still
<1>10. ASSUME NEW u \in Units, Accept(u) \/ Disconnect(u) PROVE globalAbort'
  BY <1>10, <1>2 DEF Accept, Disconnect
<1>11. ASSUME \/ ProbeUuid \/ Register \/ StopAccepting
              \/ \E a \in Answers, n \in Uuids : Hello(a, n)
              \/ \E n \in Uuids : Collide(n)
       PROVE  globalAbort'
  <2>1. th' = th
    BY <1>11 DEF ProbeUuid, Register, StopAccepting, Hello, Collide
  <2> QED
    BY <2>1, <1>2
<1> QED
  BY <1>1, <1>5, <1>6, <1>7, <1>8, <1>9, <1>10, <1>11, Steps

\* What MapsAgree says, with the facts about the handshake it needs.
Agree ==
    /\ \A c \in Registered : c \notin Removing =>
          info[c].mem = "alive" /\ clientUuidMap[info[c].uuid] = c
    /\ \A n \in Uuids : clientUuidMap[n] # None =>
          /\ clientUuidMap[n] \in Registered /\ clientUuidMap[n] \notin Removing
          /\ info[clientUuidMap[n]].uuid = n
    /\ acc.pc = "register" => clientUuidMap[acc.uuid] = None

MapInv == ~globalAbort => Agree

\* The invariant says that the maps agree.
LEMMA MapInvImplies == ListsInv /\ MapInv => MapsAgree
BY DEF ListsInv, MapInv, Agree, MapsAgree, Ordered, Distinct

\* The clients being removed, before and after a step.
LEMMA RemovingFacts ==
    /\ \A c : c \in Removing <=>
          \E t \in Threads : th[t].pc \in {"join", "erase"} /\ th[t].f.tgt = c
    /\ \A c : c \in Removing' <=>
          \E t \in Threads : th'[t].pc \in {"join", "erase"} /\ th'[t].f.tgt = c
    /\ th' = th => Removing' = Removing
<1>1. \A c : c \in Removing <=>
         \E t \in Threads : th[t].pc \in {"join", "erase"} /\ th[t].f.tgt = c
  BY DEF Removing
<1>2. \A c : c \in Removing' <=>
         \E t \in Threads : th'[t].pc \in {"join", "erase"} /\ th'[t].f.tgt = c
  BY DEF Removing
<1>3. th' = th => Removing' = Removing
  BY DEF Removing
<1> QED
  BY <1>1, <1>2, <1>3

\* A move outside removeClient.
LEMMA MovesRemoving ==
    ASSUME ThreadsOK, NEW t \in Threads, NEW p, NEW g, Moves(t, p, g)
    PROVE  Removing' = Removing
<1>1. /\ th'[t].pc = p /\ \A x \in Threads : x # t => th'[x] = th[x]
      /\ th[t].pc \notin {"join", "erase"} /\ p \notin {"join", "erase"}
  BY ThreadFacts DEF Moves
<1>2. \A c : c \in Removing' <=> c \in Removing
  BY <1>1, RemovingFacts
<1> QED
  BY <1>2

\* Nothing Agree speaks of changes.
LEMMA SameAgree ==
    ASSUME TypeOK, Agree, clientMap' = clientMap, clientUuidMap' = clientUuidMap,
           Removing' = Removing, acc' = acc,
           \A x \in Units : info'[x].mem = info[x].mem /\ info'[x].uuid = info[x].uuid
    PROVE  Agree'
<1>1. Registered' = Registered /\ Registered \subseteq Units
  BY RegisteredFacts, RegisteredUnits
<1> QED
  BY <1>1 DEF Agree

\* Every step preserves MapInv.
LEMMA MapStep ==
    ASSUME TypeOK, ControlInv, ListsInv, MapInv, Next PROVE MapInv'
<1> SUFFICES ASSUME ~globalAbort' PROVE Agree'
  BY DEF MapInv
<1> USE ServerAssumption
<1>0. /\ ThreadsOK /\ AcceptOK /\ RegistryOK /\ Units \subseteq Threads
      /\ Registered \subseteq Units /\ "main" \in Threads
      /\ "main" \notin Units /\ None \notin Threads /\ None \notin Units
  BY TypeParts, RegisteredUnits DEF Threads
<1>a. ~globalAbort /\ Agree
  BY AbortStep DEF MapInv
<1>b. /\ info \in [Units -> Infos]
      /\ clientUuidMap \in [Uuids -> Units \cup {None}]
  BY <1>0 DEF RegistryOK
<1>c. acc.pc \notin {"accept", "stopped"} => acc.who \in Units
  BY <1>0 DEF AcceptOK
<1>d. \A t \in Threads : /\ th[t].f.op # "closeConnection"
                         /\ th[t].pc \in {"join", "erase"} => cl_mutex = t /\ th[t].f.tgt \in Units
  BY <1>a, <1>0 DEF ControlInv, globalAbort, Threads, ThreadsOK
<1>e. cl_mutex = None => Removing = {}
  BY <1>d, <1>0, RemovingFacts
<1>1. CASE Quiet
  BY <1>1, <1>0, <1>a, MovesRemoving, SameAgree DEF Quiet, registry
<1>2. CASE Still
  BY <1>2, <1>0, <1>a, RemovingFacts, SameAgree DEF Still, registry
<1>3. CASE Empties
  BY <1>3, <1>a DEF Empties
<1>4. ASSUME NEW u \in Units, Accept(u) PROVE Agree'
  <2>1. /\ acc'.pc = "hello" /\ info' = info /\ clientMap' = clientMap
        /\ clientUuidMap' = clientUuidMap /\ Removing' = Removing /\ Registered' = Registered
    BY <1>4, RemovingFacts, RegisteredFacts DEF Accept, maps
  <2> QED
    BY <2>1, <1>a DEF Agree
<1>5. ASSUME NEW u \in Units, Disconnect(u) PROVE Agree'
  BY <1>5, <1>a, RemovingFacts, SameAgree DEF Disconnect, maps
<1>6. ASSUME NEW u \in Units, StopReceiving(u) PROVE Agree'
  <2>1. /\ th[u].pc = "loop" /\ Goto(u, "ended", NoFrame)
        /\ info' = info \/ info' = [info EXCEPT ![u].abort = TRUE]
        /\ clientMap' = clientMap /\ clientUuidMap' = clientUuidMap /\ acc' = acc
    BY <1>6 DEF StopReceiving, maps
  <2>2. \A x \in Units : info'[x].mem = info[x].mem /\ info'[x].uuid = info[x].uuid
    <3>1. CASE info' = info
      BY <3>1
    <3>2. CASE info' = [info EXCEPT ![u].abort = TRUE]
      BY <3>2, <1>b, InfoAbort
    <3> QED
      BY <2>1, <3>1, <3>2
  <2>3. Moves(u, "ended", NoFrame)
    BY <2>1, <1>0, NoFrameType DEF Moves, ControlInv
  <2>4. Removing' = Removing
    BY <2>3, <1>0, MovesRemoving
  <2> QED
    BY <2>1, <2>2, <2>4, <1>a, SameAgree
<1>7. ASSUME NEW a \in Answers, NEW n \in Uuids, Hello(a, n) PROVE Agree'
  <2>1. /\ acc.pc = "hello" /\ clientMap' = clientMap /\ clientUuidMap' = clientUuidMap
        /\ Removing' = Removing /\ Registered' = Registered
    BY <1>7, RemovingFacts, RegisteredFacts DEF Hello, maps
  <2>2. acc.who \in Units /\ acc.who \notin Registered
    BY <2>1, <1>c DEF ListsInv, Past, Shaking
  <2>3. acc'.pc # "register"
    <3>1. acc' = acc \/ acc'.pc = "accept" \/ acc' = [acc EXCEPT !.pc = "check", !.uuid = n]
      BY <1>7 DEF Hello, Backlog
    <3>2. [acc EXCEPT !.pc = "check", !.uuid = n].pc = "check"
      BY <1>0 DEF AcceptOK
    <3> QED
      BY <2>1, <3>1, <3>2
  <2>4. \A x \in Units : x # acc.who => info'[x] = info[x]
    BY <1>7, <1>b, <2>2 DEF Hello
  <2> QED
    BY <2>1, <2>2, <2>3, <2>4, <1>a, <1>0 DEF Agree
<1>8. ASSUME ProbeUuid PROVE Agree'
  <2>1. /\ clientMap' = clientMap /\ clientUuidMap' = clientUuidMap /\ info' = info
        /\ Removing' = Removing /\ Registered' = Registered
        /\ acc' = [acc EXCEPT !.pc = IF clientUuidMap[acc.uuid] # None
                                     THEN "collide" ELSE "register"]
    BY <1>8, RemovingFacts, RegisteredFacts DEF ProbeUuid, maps
  <2>2. acc'.uuid = acc.uuid /\ (acc'.pc = "register" => clientUuidMap[acc.uuid] = None)
    BY <2>1, <1>0 DEF AcceptOK
  <2> QED
    BY <2>1, <2>2, <1>a DEF Agree
<1>9. ASSUME NEW n \in Uuids, Collide(n) PROVE Agree'
  <2>1. /\ acc.pc = "collide" /\ clientMap' = clientMap /\ clientUuidMap' = clientUuidMap
        /\ Removing' = Removing /\ Registered' = Registered
    BY <1>9, RemovingFacts, RegisteredFacts DEF Collide, maps
  <2>2. acc.who \in Units /\ acc.who \notin Registered
    BY <2>1, <1>c DEF ListsInv, Past, Shaking
  <2>3. acc'.pc # "register"
    <3>1. acc'.pc = "accept" \/ acc' = [acc EXCEPT !.pc = "check", !.uuid = n]
      BY <1>9 DEF Collide, Backlog
    <3>2. [acc EXCEPT !.pc = "check", !.uuid = n].pc = "check"
      BY <1>0 DEF AcceptOK
    <3> QED
      BY <3>1, <3>2
  <2>4. \A x \in Units : x # acc.who => info'[x] = info[x]
    <3>1. CASE info' = info
      BY <3>1
    <3>2. CASE info' = [info EXCEPT ![acc.who].mem = "freed", ![acc.who].abort = TRUE]
      BY <3>2, <1>b, <2>2
    <3> QED
      BY <1>9, <3>1, <3>2 DEF Collide
  <2> QED
    BY <2>1, <2>2, <2>3, <2>4, <1>a, <1>0 DEF Agree
<1>10. ASSUME Register PROVE Agree'
  <2>1. /\ acc.pc = "register" /\ acc.who \in Units /\ acc.uuid \in Uuids
        /\ cl_mutex = None
        /\ acc' = [acc EXCEPT !.pc = "spawn"] /\ th' = th
        /\ info' = [info EXCEPT ![acc.who].uuid = acc.uuid]
        /\ clientUuidMap' = [clientUuidMap EXCEPT ![acc.uuid] = acc.who]
    BY <1>10, <1>0 DEF Register, AcceptOK
  <2>2. acc'.pc = "spawn" /\ acc.who \notin Registered /\ info[acc.who].mem = "alive"
    BY <2>1, <1>0, <1>a DEF AcceptOK, ListsInv, Past, Shaking
  <2>3. Registered' = Registered \cup {acc.who}
    BY <1>10, <2>2, RegisterLists DEF ListsInv
  <2>4. \A x \in Units :
           /\ info'[x].mem = info[x].mem
           /\ info'[x].uuid = IF x = acc.who THEN acc.uuid ELSE info[x].uuid
    BY <2>1, <1>b DEF Infos
  <2>5. Removing = {} /\ Removing' = {}
    BY <2>1, <1>e, RemovingFacts
  <2>6. \A n \in Uuids :
           clientUuidMap'[n] = IF n = acc.uuid THEN acc.who ELSE clientUuidMap[n]
    BY <2>1, <1>b
  <2>7. \A c \in Registered : info[c].uuid \in Uuids /\ info[c].uuid # acc.uuid
    BY <2>1, <2>5, <1>0, <1>a DEF Agree, ListsInv
  <2> QED
    BY <2>1, <2>2, <2>3, <2>4, <2>5, <2>6, <2>7, <1>a, <1>0 DEF Agree
<1>11. ASSUME Spawn PROVE Agree'
  <2>1. /\ acc.pc = "spawn" /\ acc.who \in Units /\ acc'.pc = "accept"
        /\ clientMap' = clientMap /\ clientUuidMap' = clientUuidMap
        /\ info' = [info EXCEPT ![acc.who].receiver = TRUE]
        /\ Goto(acc.who, "loop", NoFrame) /\ th[acc.who].pc = "none"
    BY <1>11, <1>c, <1>0 DEF Spawn, maps, Backlog, Goto, Home, ListsInv
  <2>2. \A x \in Units : info'[x].mem = info[x].mem /\ info'[x].uuid = info[x].uuid
    <3>1. /\ \A x \in Units : x # acc.who => info'[x] = info[x]
          /\ info'[acc.who] = [info[acc.who] EXCEPT !.receiver = TRUE]
      BY <2>1, <1>b
    <3>2. info[acc.who] \in Infos
      BY <2>1, <1>b
    <3>3. /\ info'[acc.who].mem = info[acc.who].mem
          /\ info'[acc.who].uuid = info[acc.who].uuid
      BY <3>1, <3>2 DEF Infos
    <3> QED
      BY <3>1, <3>3
  <2>3. /\ \A x \in Threads : x # acc.who => th'[x] = th[x]
        /\ th'[acc.who].pc = "loop"
    BY <2>1, <1>0, ThreadFacts
  <2>4. \A c : c \in Removing' <=> c \in Removing
    BY <2>1, <2>3, RemovingFacts
  <2>5. Registered' = Registered
    BY <2>1, RegisteredFacts
  <2> QED
    BY <2>1, <2>2, <2>4, <2>5, <1>a, <1>0 DEF Agree
<1>12. ASSUME StopAccepting PROVE Agree'
  BY <1>12, <1>a DEF StopAccepting
<1>13. ASSUME NEW t \in Threads, NEW c \in Registered, Removes(t, c) PROVE Agree'
  <2>1. PICK g \in Frames : Goto(t, "join", g) /\ g.tgt = c
    BY <1>13 DEF Removes
  <2>2. /\ th[t].pc = "remove" /\ cl_mutex = None
        /\ clientMap' = clientMap /\ acc' = acc /\ c \in Units
        /\ info' = [info EXCEPT ![c].abort = TRUE]
        /\ clientUuidMap' = [clientUuidMap EXCEPT ![info[c].uuid] = None]
    BY <1>13, <1>0 DEF Removes
  <2>3. /\ th'[t].pc = "join" /\ th'[t].f = g
        /\ \A x \in Threads : x # t => th'[x] = th[x]
    BY <2>1, <1>0, ThreadFacts
  <2>4. \A x \in Units : info'[x].mem = info[x].mem /\ info'[x].uuid = info[x].uuid
    BY <2>2, <1>b, InfoAbort
  <2>5. Removing = {}
    BY <2>2, <1>e
  <2>6. \A x : x \in Removing' <=> x = c
    BY <2>1, <2>3, <2>5, RemovingFacts
  <2>7. Registered' = Registered
    BY <2>2, RegisteredFacts
  <2>8. \A n \in Uuids :
           clientUuidMap'[n] = IF n = info[c].uuid THEN None ELSE clientUuidMap[n]
    BY <2>2, <1>b
  <2>9. \A d \in Registered : d # c => info[d].uuid # info[c].uuid /\ info[d].uuid \in Uuids
    BY <2>5, <1>a DEF Agree, ListsInv
  <2>10. acc.pc = "register" => acc.uuid \in Uuids
    BY <1>0 DEF AcceptOK
  <2> QED
    BY <2>2, <2>4, <2>5, <2>6, <2>7, <2>8, <2>9, <2>10, <1>a, <1>0 DEF Agree, ListsInv
<1>14. ASSUME NEW t \in Threads, Release(t) PROVE Agree'
  BY <1>14, <1>d DEF Release, ControlInv
<1>15. ASSUME NEW t \in Threads, Join(t) PROVE Agree'
  <2> DEFINE f == th[t].f
  <2>1. /\ th[t].pc = "join" /\ clientMap' = clientMap /\ clientUuidMap' = clientUuidMap
        /\ acc' = acc /\ f.tgt \in Units /\ f.op # "closeConnection"
    BY <1>15, <1>d DEF Join, maps
  <2>2. \/ th' = th /\ info' = info
        \/ Goto(t, "erase", f) /\ info' = [info EXCEPT ![f.tgt].mem = "freed"]
    BY <1>15, <2>1 DEF Join
  <2>3. Registered' = Registered
    BY <2>1, RegisteredFacts
  <2>4. CASE th' = th /\ info' = info
    BY <2>1, <2>3, <2>4, <1>a, RemovingFacts, SameAgree
  <2>5. CASE Goto(t, "erase", f) /\ info' = [info EXCEPT ![f.tgt].mem = "freed"]
    <3>1. /\ th'[t].pc = "erase" /\ th'[t].f = f
          /\ \A x \in Threads : x # t => th'[x] = th[x]
      BY <2>5, <1>0, ThreadFacts
    <3>2. \A x : x \in Removing' <=> x \in Removing
      BY <2>1, <3>1, RemovingFacts
    <3>3. f.tgt \in Removing
      BY <2>1, RemovingFacts
    <3>4. \A x \in Units :
             /\ info'[x].mem = IF x = f.tgt THEN "freed" ELSE info[x].mem
             /\ info'[x].uuid = info[x].uuid
      BY <2>1, <2>5, <1>b, InfoFreed
    <3> QED
      BY <2>1, <2>3, <3>2, <3>3, <3>4, <1>a, <1>0 DEF Agree
  <2> QED
    BY <2>2, <2>4, <2>5
<1>16. ASSUME NEW t \in Threads, Erase(t) PROVE Agree'
  <2> DEFINE f == th[t].f
             e == [f EXCEPT !.tgt = None]
  <2>1. /\ f \in Frames /\ th[t].pc = "erase" /\ Retry(t, e) /\ f.tgt \in Units
        /\ clientMap' = [clientMap EXCEPT ![TypeOf[f.tgt]] = Without(@, f.tgt)]
        /\ clientUuidMap' = clientUuidMap /\ info' = info /\ acc' = acc
    BY <1>16, <1>0 DEF Erase, ThreadsOK
  <2>2. e \in Frames
    BY <2>1 DEF Frames
  <2> HIDE DEF e
  <2>3. PICK p \in {"next", "ret"}, g \in Frames : Goto(t, p, g)
    BY <2>1, <2>2, RetryMoves
  <2>4. /\ th'[t].pc = p
        /\ \A x \in Threads : x # t => th'[x] = th[x]
    BY <2>3, <1>0, ThreadFacts
  <2>5. Registered' = Registered \ {f.tgt}
    BY <2>1, EraseLists DEF ListsInv
  <2>6. \A x \in Threads : th[x].pc \in {"join", "erase"} => x = t
    BY <2>1, <1>d
  <2>7. Removing' = {} /\ \A c : c \in Removing <=> c = f.tgt
    BY <2>1, <2>3, <2>4, <2>6, RemovingFacts
  <2> QED
    BY <2>1, <2>5, <2>7, <1>a, <1>0 DEF Agree
<1> QED
  BY <1>1, <1>2, <1>3, <1>4, <1>5, <1>6, <1>7, <1>8, <1>9, <1>10, <1>11, <1>12,
     <1>13, <1>14, <1>15, <1>16, Steps

RegistryInv == TypeOK /\ ControlInv /\ ListsInv /\ MapInv

\* RegistryInv is inductive.
LEMMA RegistryInductive ==
    /\ Init => RegistryInv
    /\ RegistryInv /\ [Next]_vars => RegistryInv'
<1>1. Init => RegistryInv
  <2> SUFFICES ASSUME Init PROVE RegistryInv
    OBVIOUS
  <2>1. TypeOK
    BY InitType
  <2>2. \A t \in Threads : th[t].pc \in {"idle", "none"} /\ th[t].f.op = "none"
                           /\ (t # "main" => th[t].pc = "none")
    BY NoFrameType DEF Init, Home, At
  <2>3. \A ty \in UnitTypes : clientMap[ty] = <<>>
    BY DEF Init
  <2>4. Registered = {} /\ Removing = {}
    BY <2>2, <2>3, RegisteredFacts, RemovingFacts
  <2>5. ControlInv
    BY <2>2, ServerAssumption DEF ControlInv, globalAbort, Threads
  <2>6. ListsInv
    <3>1. Ordered
      BY <2>3 DEF Ordered, Distinct
    <3>2. \A u \in Units : th[u].pc = "none" /\ ~info[u].receiver
      BY <2>2, ServerAssumption DEF Init, NoInfo, Threads
    <3>3. acc.pc = "accept"
      BY DEF Init
    <3> QED
      BY <2>2, <2>4, <3>1, <3>2, <3>3 DEF ListsInv
  <2>7. MapInv
    BY <2>4, ServerAssumption DEF MapInv, Agree, Init
  <2> QED
    BY <2>1, <2>5, <2>6, <2>7 DEF RegistryInv
<1>2. RegistryInv /\ Next => RegistryInv'
  BY TypeStep, ControlStep, ListsStep, MapStep DEF RegistryInv
<1>3. RegistryInv /\ UNCHANGED vars => RegistryInv'
  <2> SUFFICES ASSUME RegistryInv, UNCHANGED vars PROVE RegistryInv'
    OBVIOUS
  <2>1. /\ unit' = unit /\ fd' = fd /\ info' = info /\ clientMap' = clientMap
        /\ clientUuidMap' = clientUuidMap /\ cl_mutex' = cl_mutex /\ acc' = acc
        /\ th' = th /\ calls' = calls /\ fault' = fault /\ server' = server
    BY DEF vars
  <2>2. TypeOK'
    BY <2>1 DEF TypeOK, RegistryInv
  <2>3. ControlInv'
    BY <2>1, StillControl DEF RegistryInv
  <2>4. Registered' = Registered /\ Removing' = Removing
    BY <2>1, RegisteredFacts, RemovingFacts
  <2>5. ListsInv'
    BY <2>1, <2>4 DEF ListsInv, RegistryInv, Ordered, Past, globalAbort
  <2>6. MapInv'
    BY <2>1, <2>4 DEF MapInv, Agree, RegistryInv, globalAbort
  <2> QED
    BY <2>2, <2>3, <2>5, <2>6 DEF RegistryInv
<1> QED
  BY <1>1, <1>2, <1>3

\* RegistryInv holds in every state.
LEMMA RegistryHolds == Spec => []RegistryInv
BY RegistryInductive, PTL DEF Spec

\* Until the server shuts down, clientMap and clientUuidMap name the same
\* clients, each once, alive, and each under its own uuid, but for the one that
\* removeClient has in hand; whatever threads register, send and remove at the
\* same time.
THEOREM MapsAgreeHolds == Spec => []MapsAgree
<1>1. RegistryInv => MapsAgree
  BY MapInvImplies DEF RegistryInv
<1> QED
  BY <1>1, RegistryHolds, PTL

-----------------------------------------------------------------------------
(* The table of uuids. *)

\* Also during shutdown: between the look-up of a uuid and its insertion nobody
\* else gets it, since only the accept thread inserts; and who has a uuid is past
\* its handshake.
NamesInv ==
    /\ acc.pc = "register" => clientUuidMap[acc.uuid] = None
    /\ \A n \in Uuids : clientUuidMap[n] # None => Past(clientUuidMap[n])

\* A step that adds no entry and takes no unit into the handshake.
LEMMA NamesKept ==
    ASSUME TypeOK, NamesInv, unit' = unit,
           \A n \in Uuids : clientUuidMap'[n] \in {clientUuidMap[n], None},
           \/ acc' = acc
           \/ acc'.pc \notin Shaking
           \/ acc'.who = acc.who /\ acc.pc \in Shaking /\ acc'.pc # "register"
    PROVE  NamesInv'
<1>1. acc'.pc = "register" => acc' = acc /\ acc.uuid \in Uuids
  BY DEF TypeOK, Shaking
<1>2. acc'.pc = "register" => clientUuidMap'[acc'.uuid] = None
  BY <1>1 DEF NamesInv
<1>3. ASSUME NEW n \in Uuids, clientUuidMap'[n] # None PROVE Past(clientUuidMap[n])'
  <2>1. clientUuidMap'[n] = clientUuidMap[n] /\ Past(clientUuidMap[n])
    BY <1>3 DEF NamesInv
  <2> QED
    BY <2>1 DEF Past
<1> QED
  BY <1>2, <1>3 DEF NamesInv

\* Every step preserves NamesInv.
LEMMA NamesStep ==
    ASSUME TypeOK, ControlInv, ListsInv, NamesInv, Next PROVE NamesInv'
<1> USE ServerAssumption
<1>0. /\ clientUuidMap \in [Uuids -> Units \cup {None}] /\ None \notin Units
      /\ unit \in [Units -> {"away", "here", "left"}]
      /\ AcceptOK
  BY TypeParts DEF TypeOK, Threads
<1>1. ASSUME UNCHANGED <<unit, clientUuidMap, acc>> PROVE NamesInv'
  BY <1>1, NamesKept
<1>2. CASE Quiet \/ Still \/ Empties
  BY <1>2, <1>1 DEF Quiet, Still, Empties, registry
<1>3. ASSUME NEW t \in Threads, Release(t) \/ Join(t) \/ Erase(t) PROVE NamesInv'
  BY <1>3, <1>1 DEF Release, Join, Erase, maps
<1>4. ASSUME NEW u \in Units, StopReceiving(u) PROVE NamesInv'
  BY <1>4, <1>1 DEF StopReceiving, maps
<1>5. ASSUME NEW t \in Threads, NEW c \in Registered, Removes(t, c) PROVE NamesInv'
  <2>1. /\ unit' = unit /\ acc' = acc
        /\ clientUuidMap' = [clientUuidMap EXCEPT ![info[c].uuid] = None]
    BY <1>5 DEF Removes
  <2>2. \A n \in Uuids : clientUuidMap'[n] \in {clientUuidMap[n], None}
    BY <2>1, <1>0
  <2> QED
    BY <2>1, <2>2, NamesKept
<1>6. ASSUME NEW u \in Units, Accept(u) PROVE NamesInv'
  <2>1. /\ unit[u] = "away" /\ unit' = [unit EXCEPT ![u] = "here"]
        /\ clientUuidMap' = clientUuidMap
        /\ acc'.pc = "hello" /\ acc'.who = u
    BY <1>6 DEF Accept, maps
  <2>2. ASSUME NEW n \in Uuids, clientUuidMap[n] # None PROVE Past(clientUuidMap[n])'
    <3>1. clientUuidMap[n] \in Units /\ unit[clientUuidMap[n]] # "away"
      BY <1>0, <2>2 DEF NamesInv, Past
    <3>2. clientUuidMap[n] # u /\ unit'[clientUuidMap[n]] # "away"
      BY <2>1, <3>1, <1>0
    <3> QED
      BY <2>1, <3>2 DEF Past
  <2> QED
    BY <2>1, <2>2 DEF NamesInv
<1>7. ASSUME NEW u \in Units, Disconnect(u) PROVE NamesInv'
  <2>1. /\ unit' = [unit EXCEPT ![u] = "left"]
        /\ clientUuidMap' = clientUuidMap /\ acc' = acc
    BY <1>7 DEF Disconnect, maps
  <2>2. ASSUME NEW n \in Uuids, clientUuidMap[n] # None PROVE Past(clientUuidMap[n])'
    <3>1. clientUuidMap[n] \in Units /\ Past(clientUuidMap[n])
      BY <1>0, <2>2 DEF NamesInv
    <3>2. unit'[clientUuidMap[n]] # "away"
      BY <2>1, <3>1, <1>0 DEF Past
    <3> QED
      BY <2>1, <3>1, <3>2 DEF Past
  <2> QED
    BY <2>1, <2>2 DEF NamesInv
<1>8. ASSUME NEW a \in Answers, NEW n \in Uuids, Hello(a, n) PROVE NamesInv'
  <2>1. /\ acc.pc = "hello" /\ unit' = unit /\ clientUuidMap' = clientUuidMap
        /\ acc' = acc \/ acc'.pc = "accept" \/ acc' = [acc EXCEPT !.pc = "check", !.uuid = n]
    BY <1>8 DEF Hello, Backlog, maps
  <2>2. acc' = acc \/ acc'.pc = "accept" \/ (acc'.who = acc.who /\ acc'.pc = "check")
    BY <2>1, <1>0 DEF AcceptOK
  <2> QED
    BY <2>1, <2>2, NamesKept DEF Shaking
<1>9. ASSUME NEW n \in Uuids, Collide(n) PROVE NamesInv'
  <2>1. /\ acc.pc = "collide" /\ unit' = unit /\ clientUuidMap' = clientUuidMap
        /\ acc'.pc = "accept" \/ acc' = [acc EXCEPT !.pc = "check", !.uuid = n]
    BY <1>9 DEF Collide, Backlog, maps
  <2>2. acc'.pc = "accept" \/ (acc'.who = acc.who /\ acc'.pc = "check")
    BY <2>1, <1>0 DEF AcceptOK
  <2> QED
    BY <2>1, <2>2, NamesKept DEF Shaking
<1>10. CASE ProbeUuid
  <2>1. /\ acc.pc = "check" /\ unit' = unit /\ clientUuidMap' = clientUuidMap
        /\ acc' = [acc EXCEPT !.pc = IF clientUuidMap[acc.uuid] # None
                                     THEN "collide" ELSE "register"]
    BY <1>10 DEF ProbeUuid, maps
  <2>2. /\ acc'.uuid = acc.uuid /\ acc'.who = acc.who
        /\ acc'.pc = "register" => clientUuidMap[acc.uuid] = None
    BY <2>1, <1>0 DEF AcceptOK
  <2>3. ASSUME NEW n \in Uuids, clientUuidMap[n] # None PROVE Past(clientUuidMap[n])'
    BY <2>1, <2>2, <2>3 DEF NamesInv, Past, Shaking
  <2> QED
    BY <2>1, <2>2, <2>3 DEF NamesInv
<1>11. CASE Register
  <2>1. /\ acc.pc = "register" /\ unit' = unit /\ acc'.pc = "spawn"
        /\ clientUuidMap' = [clientUuidMap EXCEPT ![acc.uuid] = acc.who]
    BY <1>11, <1>0 DEF Register, AcceptOK
  <2>2. unit[acc.who] # "away"
    BY <2>1 DEF ListsInv
  <2> QED
    BY <2>1, <2>2, <1>0 DEF NamesInv, Past, Shaking
<1>12. CASE Spawn \/ StopAccepting
  <2>1. unit' = unit /\ clientUuidMap' = clientUuidMap /\ acc'.pc \in {"accept", "stopped"}
    BY <1>12, <1>0 DEF Spawn, StopAccepting, Backlog, maps, AcceptOK
  <2> QED
    BY <2>1, NamesKept DEF Shaking
<1> QED
  BY <1>2, <1>3, <1>4, <1>5, <1>6, <1>7, <1>8, <1>9, <1>10, <1>11, <1>12, Steps

\* Every step leaves the table alone, adds a unit that has no uuid under one that
\* nobody has, or removes an entry.
LEMMA RegistrationStep ==
    ASSUME TypeOK, ControlInv, NamesInv, Next
    PROVE  Registration!Next \/ clientUuidMap' = clientUuidMap
<1>0. clientUuidMap \in [Uuids -> Units \cup {None}] /\ AcceptOK
  BY TypeParts DEF TypeOK
<1>1. ASSUME NEW t \in Threads, NEW c \in Registered, Removes(t, c) PROVE Registration!Next
  <2>1. clientUuidMap' = [clientUuidMap EXCEPT ![info[c].uuid] = None]
    BY <1>1 DEF Removes
  <2>2. clientUuidMap' = [n \in Uuids |-> IF n \in {info[c].uuid} \cap Uuids THEN None
                                          ELSE clientUuidMap[n]]
    BY <2>1, <1>0
  <2> QED
    BY <2>2 DEF Registration!Next, Registration!Remove
<1>2. CASE Register
  <2>1. /\ acc.pc = "register" /\ acc.who \in Units /\ acc.uuid \in Uuids
        /\ clientUuidMap' = [clientUuidMap EXCEPT ![acc.uuid] = acc.who]
    BY <1>2, <1>0 DEF Register, AcceptOK
  <2>2. clientUuidMap[acc.uuid] = None
    BY <2>1 DEF NamesInv
  <2>3. \A m \in Uuids : clientUuidMap[m] # acc.who
    BY <2>1, ServerAssumption DEF NamesInv, Past, Shaking, Threads
  <2> QED
    BY <2>1, <2>2, <2>3 DEF Registration!Next, Registration!Add
<1>3. ASSUME NEW t \in Threads, Release(t) \/ Join(t) \/ Erase(t)
      PROVE  clientUuidMap' = clientUuidMap
  BY <1>3 DEF Release, Join, Erase, maps
<1>4. ASSUME NEW u \in Units, Accept(u) \/ Disconnect(u) \/ StopReceiving(u)
      PROVE  clientUuidMap' = clientUuidMap
  BY <1>4 DEF Accept, Disconnect, StopReceiving, maps
<1>5. ASSUME \/ Quiet \/ Still \/ Empties \/ ProbeUuid \/ Spawn \/ StopAccepting
             \/ \E a \in Answers, n \in Uuids : Hello(a, n)
             \/ \E n \in Uuids : Collide(n)
      PROVE  clientUuidMap' = clientUuidMap
  BY <1>5 DEF Quiet, Still, Empties, registry, ProbeUuid, Spawn, StopAccepting, Hello,
              Collide, maps
<1> QED
  BY <1>1, <1>2, <1>3, <1>4, <1>5, Steps

\* Whatever threads register, send, remove and shut down at the same time, and
\* although a uuid is looked up in one critical section and inserted in another,
\* clientUuidMap behaves as a table whose entries are made and removed at once:
\* no client is replaced by another, and none has two uuids.
THEOREM ServerImplementsRegistry == Spec => Registration!Spec
<1>1. Init => NamesInv /\ Registration!Init
  BY DEF Init, NamesInv, Registration!Init
<1>2. RegistryInv /\ NamesInv /\ [Next]_vars =>
         NamesInv' /\ [Registration!Next]_clientUuidMap
  <2> SUFFICES ASSUME RegistryInv, NamesInv, [Next]_vars
               PROVE  NamesInv' /\ [Registration!Next]_clientUuidMap
    OBVIOUS
  <2>1. CASE Next
    BY <2>1, NamesStep, RegistrationStep DEF RegistryInv
  <2>2. CASE UNCHANGED vars
    BY <2>2, NamesKept DEF vars, RegistryInv
  <2> QED
    BY <2>1, <2>2
<1> QED
  BY <1>1, <1>2, RegistryHolds, PTL DEF Spec, Registration!Spec

-----------------------------------------------------------------------------
(* Descriptors. *)

Owned ==
    /\ \A c \in Registered : c \notin Removing => fd[info[c].handle] = c
    /\ acc.pc \in Shaking => fd[acc.handle] = acc.who
    /\ acc.pc \in {"check", "collide", "register"} => info[acc.who].handle = acc.handle

HandleInv == ~globalAbort => Owned

\* Nothing Owned speaks of changes.
LEMMA SameOwned ==
    ASSUME TypeOK, Owned, clientMap' = clientMap, fd' = fd,
           Removing' = Removing, acc' = acc,
           \A x \in Units : info'[x].handle = info[x].handle
    PROVE  Owned'
<1>1. Registered' = Registered /\ Registered \subseteq Units
  BY RegisteredFacts, RegisteredUnits
<1>2. acc.pc \in {"check", "collide", "register"} => acc.who \in Units
  BY DEF TypeOK
<1> QED
  BY <1>1, <1>2 DEF Owned

\* Every step preserves HandleInv when no unit answers with another type.
LEMMA HandleStep ==
    ASSUME "other" \notin Answers, RegistryInv, HandleInv, Next PROVE HandleInv'
<1> SUFFICES ASSUME ~globalAbort' PROVE Owned'
  BY DEF HandleInv
<1> USE ServerAssumption
<1>t. TypeOK /\ ControlInv /\ ListsInv
  BY DEF RegistryInv
<1>0. /\ ThreadsOK /\ AcceptOK /\ RegistryOK /\ Units \subseteq Threads
      /\ Registered \subseteq Units /\ "main" \in Threads
      /\ "main" \notin Units /\ None \notin Threads /\ None \notin Units
  BY <1>t, TypeParts, RegisteredUnits DEF Threads
<1>a. ~globalAbort /\ Owned
  BY <1>t, AbortStep DEF HandleInv
<1>b. info \in [Units -> Infos] /\ fd \in [Handles -> Units \cup {None}]
  BY <1>0 DEF RegistryOK
<1>c. acc.pc \notin {"accept", "stopped"} => acc.who \in Units /\ acc.handle \in Handles
  BY <1>0 DEF AcceptOK
<1>d. \A t \in Threads : /\ th[t].f.op # "closeConnection"
                         /\ th[t].pc \in {"join", "erase"} => cl_mutex = t /\ th[t].f.tgt \in Units
  BY <1>t, <1>a, <1>0 DEF ControlInv, globalAbort, Threads, ThreadsOK
<1>e. cl_mutex = None => Removing = {}
  BY <1>d, <1>0, RemovingFacts
<1>f. /\ \A c \in Registered : info[c].handle \in Handles /\ (acc.pc \in Shaking => c # acc.who)
      /\ {"check", "collide", "register"} \subseteq Shaking
  BY <1>t DEF ListsInv, Past, Shaking
<1>1. CASE Quiet
  BY <1>1, <1>0, <1>a, <1>t, MovesRemoving, SameOwned DEF Quiet, registry
<1>2. CASE Still
  BY <1>2, <1>0, <1>a, <1>t, RemovingFacts, SameOwned DEF Still, registry
<1>3. CASE Empties
  BY <1>3, <1>a DEF Empties
<1>4. ASSUME NEW u \in Units, Accept(u) PROVE Owned'
  <2>1. PICK h \in Handles :
           /\ fd[h] = None /\ fd' = [fd EXCEPT ![h] = u]
           /\ acc' = [pc |-> "hello", who |-> u, handle |-> h, uuid |-> None]
    BY <1>4 DEF Accept
  <2>2. /\ info' = info /\ Removing' = Removing /\ Registered' = Registered
        /\ acc'.pc = "hello" /\ acc'.who = u /\ acc'.handle = h
    BY <1>4, <2>1, RemovingFacts, RegisteredFacts DEF Accept, maps
  <2>3. \A g \in Handles : fd'[g] = IF g = h THEN u ELSE fd[g]
    BY <2>1, <1>b
  <2> QED
    <3>1. \A c \in Registered : c \notin Removing => fd'[info[c].handle] = c
      BY <2>1, <2>3, <1>a, <1>f, <1>0 DEF Owned
    <3> QED
      BY <2>2, <2>3, <3>1 DEF Owned
<1>5. ASSUME NEW u \in Units, Disconnect(u) PROVE Owned'
  BY <1>5, <1>a, <1>t, RemovingFacts, SameOwned DEF Disconnect, maps
<1>6. ASSUME NEW u \in Units, StopReceiving(u) PROVE Owned'
  <2>1. /\ th[u].pc = "loop" /\ Goto(u, "ended", NoFrame)
        /\ info' = info \/ info' = [info EXCEPT ![u].abort = TRUE]
        /\ clientMap' = clientMap /\ fd' = fd /\ acc' = acc
    BY <1>6 DEF StopReceiving, maps
  <2>2. \A x \in Units : info'[x].handle = info[x].handle
    <3>1. CASE info' = info
      BY <3>1
    <3>2. CASE info' = [info EXCEPT ![u].abort = TRUE]
      BY <3>2, <1>b, InfoAbort
    <3> QED
      BY <2>1, <3>1, <3>2
  <2>3. Moves(u, "ended", NoFrame)
    BY <2>1, <1>0, <1>t, NoFrameType DEF Moves, ControlInv
  <2>4. Removing' = Removing
    BY <2>3, <1>0, MovesRemoving
  <2> QED
    BY <2>1, <2>2, <2>4, <1>a, <1>t, SameOwned
<1>g. ASSUME NEW h \in Handles, fd' = [fd EXCEPT ![h] = None]
      PROVE  \A g \in Handles : fd'[g] = IF g = h THEN None ELSE fd[g]
  BY <1>g, <1>b
<1>7. ASSUME NEW a \in Answers, NEW n \in Uuids, Hello(a, n) PROVE Owned'
  <2>1. /\ acc.pc = "hello" /\ Removing' = Removing /\ Registered' = Registered
        /\ acc.who \in Units /\ acc.handle \in Handles /\ acc.pc \in Shaking
    BY <1>7, <1>c, RemovingFacts, RegisteredFacts DEF Hello, maps, Shaking
  <2>2. fd[acc.handle] = acc.who
    BY <2>1, <1>a DEF Owned
  <2>3. CASE a \in {"silent", "garbage"}
    <3>1. acc'.pc = "accept" /\ info' = info /\ fd' = [fd EXCEPT ![acc.handle] = None]
      BY <1>7, <2>3 DEF Hello, Backlog, freeHandle
    <3> QED
      BY <2>1, <2>2, <3>1, <1>a, <1>f, <1>g DEF Owned, Shaking
  <2>4. CASE a = "short"
    <3>1. acc' = acc /\ info' = info /\ fd' = fd
      BY <1>7, <2>4 DEF Hello
    <3> QED
      BY <2>1, <3>1, <1>a DEF Owned
  <2>5. CASE a \notin {"silent", "garbage", "short"}
    <3>1. /\ info' = [info EXCEPT ![acc.who] =
                        [@ EXCEPT !.mem = "alive", !.handle = acc.handle]]
          /\ acc' = [acc EXCEPT !.pc = "check", !.uuid = n]
          /\ fd' = fd
      BY <1>7, <2>5 DEF Hello
    <3>2. acc'.pc = "check" /\ acc'.who = acc.who /\ acc'.handle = acc.handle
      BY <3>1, <1>0 DEF AcceptOK
    <3>3. \A x \in Units :
             info'[x].handle = IF x = acc.who THEN acc.handle ELSE info[x].handle
      BY <3>1, <2>1, <1>b DEF Infos
    <3> QED
      <4>1. \A c \in Registered : c \notin Removing => fd[info'[c].handle] = c
        BY <2>1, <3>3, <1>a, <1>f, <1>0 DEF Owned
      <4>2. info'[acc.who].handle = acc.handle
        BY <2>1, <3>3
      <4> QED
        BY <2>1, <2>2, <3>1, <3>2, <4>1, <4>2 DEF Owned
  <2> QED
    BY <2>3, <2>4, <2>5
<1>8. ASSUME ProbeUuid PROVE Owned'
  <2>1. /\ fd' = fd /\ info' = info /\ Removing' = Removing /\ Registered' = Registered
        /\ acc.pc = "check" /\ acc'.who = acc.who /\ acc'.handle = acc.handle
    BY <1>8, <1>0, RemovingFacts, RegisteredFacts DEF ProbeUuid, maps, AcceptOK
  <2> QED
    BY <2>1, <1>a, <1>f DEF Owned
<1>9. ASSUME NEW n \in Uuids, Collide(n) PROVE Owned'
  <2>1. /\ acc.pc = "collide" /\ Removing' = Removing /\ Registered' = Registered
        /\ acc.who \in Units /\ acc.handle \in Handles /\ acc.pc \in Shaking
    BY <1>9, <1>c, RemovingFacts, RegisteredFacts DEF Collide, maps, Shaking
  <2>2. fd[acc.handle] = acc.who /\ info[acc.who].handle = acc.handle
    BY <2>1, <1>a DEF Owned
  <2>3. CASE acc' = [acc EXCEPT !.pc = "check", !.uuid = n] /\ UNCHANGED <<fd, info>>
    <3>1. /\ acc'.pc = "check" /\ acc'.who = acc.who /\ acc'.handle = acc.handle
          /\ info' = info /\ fd' = fd
      BY <2>3, <1>0 DEF AcceptOK
    <3> QED
      BY <2>1, <2>2, <3>1, <1>a DEF Owned
  <2>4. CASE /\ info' = [info EXCEPT ![acc.who].mem = "freed", ![acc.who].abort = TRUE]
             /\ Backlog /\ fd' = [fd EXCEPT ![acc.handle] = None]
    <3>1. acc'.pc = "accept" /\ \A x \in Units : x # acc.who => info'[x] = info[x]
      BY <2>1, <2>4, <1>b DEF Backlog
    <3> QED
      <4>1. \A g \in Handles : fd'[g] = IF g = acc.handle THEN None ELSE fd[g]
        BY <2>1, <2>4, <1>g
      <4>2. ASSUME NEW c \in Registered, c \notin Removing
            PROVE  fd'[info'[c].handle] = c
        <5>1. info'[c] = info[c] /\ c # acc.who
          BY <2>1, <3>1, <1>f, <1>0
        <5>2. fd[info[c].handle] = c /\ info[c].handle \in Handles
          BY <4>2, <1>a, <1>f DEF Owned
        <5> QED
          BY <2>2, <4>1, <5>1, <5>2
      <4> QED
        BY <2>1, <3>1, <4>2 DEF Owned, Shaking
  <2> QED
    BY <1>9, <2>3, <2>4 DEF Collide, freeHandle
<1>10. ASSUME Register PROVE Owned'
  <2>1. /\ acc.pc = "register" /\ acc.who \in Units /\ cl_mutex = None
        /\ acc' = [acc EXCEPT !.pc = "spawn"] /\ th' = th /\ fd' = fd
        /\ info' = [info EXCEPT ![acc.who].uuid = acc.uuid]
    BY <1>10, <1>0 DEF Register, AcceptOK
  <2>2. acc'.pc = "spawn" /\ acc.who \notin Registered /\ acc.pc \in Shaking
    BY <2>1, <1>0, <1>f DEF AcceptOK
  <2>3. Registered' = Registered \cup {acc.who}
    BY <1>10, <1>t, <2>2, RegisterLists DEF ListsInv
  <2>4. \A x \in Units : info'[x].handle = info[x].handle
    BY <2>1, <1>b DEF Infos
  <2>5. Removing' = Removing
    BY <2>1, RemovingFacts
  <2> QED
    BY <2>1, <2>2, <2>3, <2>4, <2>5, <1>a, <1>0 DEF Owned, Shaking
<1>11. ASSUME Spawn PROVE Owned'
  <2>1. /\ acc.who \in Units /\ acc'.pc = "accept" /\ clientMap' = clientMap /\ fd' = fd
        /\ info' = [info EXCEPT ![acc.who].receiver = TRUE]
        /\ Goto(acc.who, "loop", NoFrame) /\ th[acc.who].pc = "none"
    BY <1>11, <1>c, <1>0, <1>t DEF Spawn, maps, Backlog, Goto, Home, ListsInv
  <2>2. \A x \in Units : info'[x].handle = info[x].handle
    <3>1. /\ \A x \in Units : x # acc.who => info'[x] = info[x]
          /\ info'[acc.who] = [info[acc.who] EXCEPT !.receiver = TRUE]
      BY <2>1, <1>b
    <3>2. info[acc.who] \in Infos
      BY <2>1, <1>b
    <3>3. info'[acc.who].handle = info[acc.who].handle
      BY <3>1, <3>2 DEF Infos
    <3> QED
      BY <3>1, <3>3
  <2>3. /\ \A x \in Threads : x # acc.who => th'[x] = th[x]
        /\ th'[acc.who].pc = "loop"
    BY <2>1, <1>0, ThreadFacts
  <2>4. \A c : c \in Removing' <=> c \in Removing
    BY <2>1, <2>3, RemovingFacts
  <2>5. Registered' = Registered
    BY <2>1, RegisteredFacts
  <2> QED
    BY <2>1, <2>2, <2>4, <2>5, <1>a, <1>0 DEF Owned, Shaking
<1>12. ASSUME StopAccepting PROVE Owned'
  BY <1>12, <1>a DEF StopAccepting
<1>13. ASSUME NEW t \in Threads, NEW c \in Registered, Removes(t, c) PROVE Owned'
  <2>1. PICK g \in Frames : Goto(t, "join", g) /\ g.tgt = c
    BY <1>13 DEF Removes
  <2>2. /\ cl_mutex = None /\ clientMap' = clientMap /\ acc' = acc /\ c \in Units
        /\ info' = [info EXCEPT ![c].abort = TRUE]
        /\ fd' = [fd EXCEPT ![info[c].handle] = None]
    BY <1>13, <1>0 DEF Removes
  <2>3. /\ th'[t].pc = "join" /\ th'[t].f = g
        /\ \A x \in Threads : x # t => th'[x] = th[x]
    BY <2>1, <1>0, ThreadFacts
  <2>4. \A x \in Units : info'[x].handle = info[x].handle
    BY <2>2, <1>b, InfoAbort
  <2>5. Removing = {}
    BY <2>2, <1>e
  <2>6. \A x : x \in Removing' <=> x = c
    BY <2>1, <2>3, <2>5, RemovingFacts
  <2>7. Registered' = Registered
    BY <2>2, RegisteredFacts
  <2>8. fd[info[c].handle] = c /\ info[c].handle \in Handles
    BY <2>5, <1>a, <1>f DEF Owned
  <2>9. \A h \in Handles : fd'[h] = IF h = info[c].handle THEN None ELSE fd[h]
    BY <2>2, <2>8, <1>g
  <2>10. acc.pc \in Shaking => acc.handle \in Handles /\ acc.who \in Units
    BY <1>c DEF Shaking
  <2> QED
    BY <2>2, <2>4, <2>5, <2>6, <2>7, <2>8, <2>9, <2>10, <1>a, <1>0, <1>f DEF Owned
<1>14. ASSUME NEW t \in Threads, Release(t) PROVE Owned'
  BY <1>14, <1>d, <1>t DEF Release, ControlInv
<1>15. ASSUME NEW t \in Threads, Join(t) PROVE Owned'
  <2> DEFINE f == th[t].f
  <2>1. /\ th[t].pc = "join" /\ clientMap' = clientMap /\ fd' = fd
        /\ acc' = acc /\ f.tgt \in Units /\ f.op # "closeConnection"
    BY <1>15, <1>d DEF Join, maps
  <2>2. \/ th' = th /\ info' = info
        \/ Goto(t, "erase", f) /\ info' = [info EXCEPT ![f.tgt].mem = "freed"]
    BY <1>15, <2>1 DEF Join
  <2>3. CASE th' = th /\ info' = info
    BY <2>1, <2>3, <1>a, <1>t, RemovingFacts, SameOwned
  <2>4. CASE Goto(t, "erase", f) /\ info' = [info EXCEPT ![f.tgt].mem = "freed"]
    <3>1. /\ th'[t].pc = "erase" /\ th'[t].f = f
          /\ \A x \in Threads : x # t => th'[x] = th[x]
      BY <2>4, <1>0, ThreadFacts
    <3>2. \A x : x \in Removing' <=> x \in Removing
      BY <2>1, <3>1, RemovingFacts
    <3>3. Removing' = Removing
      BY <3>2
    <3>4. \A x \in Units : info'[x].handle = info[x].handle
      BY <2>1, <2>4, <1>b, InfoFreed
    <3> QED
      BY <2>1, <3>3, <3>4, <1>a, <1>t, SameOwned
  <2> QED
    BY <2>2, <2>3, <2>4
<1>16. ASSUME NEW t \in Threads, Erase(t) PROVE Owned'
  <2> DEFINE f == th[t].f
             e == [f EXCEPT !.tgt = None]
  <2>1. /\ f \in Frames /\ th[t].pc = "erase" /\ Retry(t, e) /\ f.tgt \in Units
        /\ clientMap' = [clientMap EXCEPT ![TypeOf[f.tgt]] = Without(@, f.tgt)]
        /\ fd' = fd /\ info' = info /\ acc' = acc
    BY <1>16, <1>0 DEF Erase, ThreadsOK
  <2>2. e \in Frames
    BY <2>1 DEF Frames
  <2> HIDE DEF e
  <2>3. PICK p \in {"next", "ret"}, g \in Frames : Goto(t, p, g)
    BY <2>1, <2>2, RetryMoves
  <2>4. /\ th'[t].pc = p
        /\ \A x \in Threads : x # t => th'[x] = th[x]
    BY <2>3, <1>0, ThreadFacts
  <2>5. Registered' = Registered \ {f.tgt}
    BY <2>1, <1>t, EraseLists DEF ListsInv
  <2>6. \A x \in Threads : th[x].pc \in {"join", "erase"} => x = t
    BY <2>1, <1>d
  <2>7. Removing' = {} /\ \A c : c \in Removing <=> c = f.tgt
    BY <2>1, <2>3, <2>4, <2>6, RemovingFacts
  <2> QED
    BY <2>1, <2>5, <2>7, <1>a DEF Owned
<1> QED
  BY <1>1, <1>2, <1>3, <1>4, <1>5, <1>6, <1>7, <1>8, <1>9, <1>10, <1>11, <1>12,
     <1>13, <1>14, <1>15, <1>16, <1>t, Steps

\* If every unit that answers the handshake answers it with its unit type, a
\* registered client owns its descriptor until removeClient takes the client
\* in hand: no handshake that fails, no removal and no new connection closes it
\* or gets the same one.  (An answer of another type closes the descriptor and
\* registers the client all the same.)
THEOREM HandleOwnedHolds ==
    ASSUME "other" \notin Answers
    PROVE  Spec => []HandleOwned
<1>1. Init => HandleInv
  <2> SUFFICES ASSUME Init PROVE HandleInv
    OBVIOUS
  <2>1. Registered = {}
    BY RegisteredFacts DEF Init
  <2> QED
    BY <2>1 DEF HandleInv, Owned, Init, Shaking
<1>2. RegistryInv /\ HandleInv /\ [Next]_vars => HandleInv'
  <2>1. RegistryInv /\ HandleInv /\ UNCHANGED vars => HandleInv'
    <3> SUFFICES ASSUME RegistryInv, HandleInv, UNCHANGED vars PROVE HandleInv'
      OBVIOUS
    <3>1. fd' = fd /\ info' = info /\ clientMap' = clientMap /\ acc' = acc /\ th' = th
      BY DEF vars
    <3>2. Registered' = Registered /\ Removing' = Removing
      BY <3>1, RegisteredFacts, RemovingFacts
    <3> QED
      BY <3>1, <3>2 DEF HandleInv, Owned, globalAbort
  <2> QED
    BY <2>1, HandleStep
<1>3. HandleInv => HandleOwned
  BY DEF HandleInv, HandleOwned, Owned
<1> QED
  BY <1>1, <1>2, <1>3, RegistryHolds, PTL DEF Spec

-----------------------------------------------------------------------------
(* The frame of a call. *)

\* Frame g continues frame f of the same call at place p.
Continues(f, p, g) ==
    /\ g.op = f.op /\ g.want = f.want
    /\ f.op = "sendToAnyOfType" => g.ty = f.ty
    /\ p = "ret" /\ f.op = "sendToAnyOfType" /\ g.sent = {} => clientMap[f.ty] = <<>>
    /\ p = "stop" => f.op = "closeConnection"

\* A step of a thread inside a call: only the thread itself goes on, with the
\* same call, or it leaves the call.
LEMMA StepFrame ==
    ASSUME TypeOK, NEW t \in Threads, Step(t)
    PROVE  /\ th[t].pc \notin {"none", "loop", "idle", "ended"} /\ calls' = calls
           /\ acc' = acc /\ unit' = unit
           /\ \/ th' = th
              \/ \E p \in PCs, g \in Frames :
                    /\ Goto(t, p, g) /\ p # "ended"
                    /\ \/ p \in {"idle", "loop"} /\ g = NoFrame
                       \/ p \notin {"idle", "loop", "none"} /\ Continues(th[t].f, p, g)
<1> USE ServerAssumption
<1>0. /\ RegistryOK /\ ThreadsOK /\ Units \subseteq Threads /\ "main" \in Threads
      /\ {"next", "ret", "send", "remove", "release", "stop", "idle", "loop",
          "join", "erase"} \subseteq PCs
  BY TypeParts DEF PCs, Threads
<1> DEFINE f == th[t].f
           Goes == \/ th' = th
                   \/ \E p \in PCs, g \in Frames :
                        /\ Goto(t, p, g) /\ p # "ended"
                        /\ \/ p \in {"idle", "loop"} /\ g = NoFrame
                           \/ p \notin {"idle", "loop", "none"} /\ Continues(f, p, g)
<1>f. th[t].f = f
  OBVIOUS
<1>1. f \in Frames /\ f.i \in Nat \ {0} /\ f.ty \in UnitTypes /\ clientMap[f.ty] \in Seq(Units)
  BY <1>0 DEF ThreadsOK, Frames, RegistryOK
<1> HIDE DEF f
<1>2. /\ th[t].pc \notin {"none", "loop", "idle", "ended"} /\ calls' = calls
      /\ acc' = acc /\ unit' = unit
  BY DEF Step, VisitAll, EndOfType, VisitCopy, VisitAny, VisitReroute, Send,
         RemoveClient, Release, Join, Erase, Return
\* It is enough to look at the place and the frame.
<1>3. ASSUME NEW p \in PCs, NEW g \in Frames, Goto(t, p, g), g.op = f.op,
             g.want = f.want, g.ty = f.ty,
             p \in {"next", "send", "remove", "release", "stop", "ret", "join", "erase"},
             p = "stop" => f.op = "closeConnection",
             p = "ret" /\ f.op = "sendToAnyOfType" /\ g.sent = {} => clientMap[f.ty] = <<>>
      PROVE  Goes
  BY <1>3 DEF Continues
<1>4. /\ [f EXCEPT !.i = @ + 1] \in Frames /\ [f EXCEPT !.i = @ + 1].op = f.op
      /\ [f EXCEPT !.i = @ + 1].want = f.want /\ [f EXCEPT !.i = @ + 1].ty = f.ty
  <2>1. f.i + 1 \in Nat \ {0}
    BY <1>1
  <2> QED
    BY <2>1, <1>1 DEF Frames
<1>5. \A c \in Units :
         /\ [f EXCEPT !.cur = c] \in Frames /\ [f EXCEPT !.cur = c].op = f.op
         /\ [f EXCEPT !.cur = c].want = f.want /\ [f EXCEPT !.cur = c].ty = f.ty
  BY <1>1 DEF Frames
<1>6. \A c \in Units \cup {None} :
         /\ [f EXCEPT !.tgt = c] \in Frames /\ [f EXCEPT !.tgt = c].op = f.op
         /\ [f EXCEPT !.tgt = c].want = f.want /\ [f EXCEPT !.tgt = c].ty = f.ty
  BY <1>1 DEF Frames
<1>7. ASSUME NEW c \in Units, NEW p \in {"send", "remove", "release"},
             Goto(t, p, [f EXCEPT !.cur = c])
      PROVE  Goes
  <2> DEFINE g == [f EXCEPT !.cur = c]
  <2>1. /\ g \in Frames /\ g.op = f.op /\ g.want = f.want /\ g.ty = f.ty
        /\ Goto(t, p, g) /\ p \in PCs
    BY <1>5, <1>7, <1>0
  <2> HIDE DEF g, Goes
  <2> QED
    BY <2>1, <1>3
<1>8. ASSUME Goto(t, "next", [f EXCEPT !.i = @ + 1]) PROVE Goes
  <2> DEFINE g == [f EXCEPT !.i = @ + 1]
  <2>1. /\ g \in Frames /\ g.op = f.op /\ g.want = f.want /\ g.ty = f.ty
        /\ Goto(t, "next", g)
    BY <1>4, <1>8
  <2> HIDE DEF g, Goes
  <2> QED
    BY <2>1, <1>3, <1>0
<1>9. ASSUME NEW c \in Units \cup {None}, Goto(t, "join", [f EXCEPT !.tgt = c]) PROVE Goes
  <2> DEFINE g == [f EXCEPT !.tgt = c]
  <2>1. /\ g \in Frames /\ g.op = f.op /\ g.want = f.want /\ g.ty = f.ty
        /\ Goto(t, "join", g)
    BY <1>6, <1>9
  <2> HIDE DEF g, Goes
  <2> QED
    BY <2>1, <1>3, <1>0
<1>10. ASSUME NEW e \in Frames, e.op = f.op, e.want = f.want, e.ty = f.ty, Retry(t, e)
       PROVE  Goes
  <2>1. PICK p \in {"next", "ret"}, g \in Frames :
           /\ Goto(t, p, g) /\ g.op = e.op
           /\ g.want = e.want /\ g.ty = e.ty
           /\ p = "ret" <=> e.op = "sendTo"
    BY <1>10, RetryMoves
  <2> HIDE DEF Goes
  <2> QED
    BY <2>1, <1>10, <1>3, <1>0
<1>11. ASSUME NEW p \in {"ret", "stop", "erase", "remove", "next"}, Goto(t, p, f),
              p = "ret" => f.op # "sendToAnyOfType" \/ clientMap[f.ty] = <<>>,
              p = "stop" => f.op = "closeConnection"
       PROVE  Goes
  <2> HIDE DEF Goes
  <2> QED
    BY <1>11, <1>3, <1>1, <1>0
<1>12. CASE VisitAll(t)
  <2>1. clientMap[f.ty][f.i] \in Units
    BY <1>12, <1>1, <1>f DEF VisitAll
  <2> DEFINE c == clientMap[f.ty][f.i]
  <2>2. \/ Goto(t, "next", [f EXCEPT !.i = @ + 1])
        \/ \E p \in {"send", "remove", "release"} : Goto(t, p, [f EXCEPT !.cur = c])
    BY <1>12, <1>f DEF VisitAll
  <2> HIDE DEF Goes, c
  <2>3. Goes
    BY <2>1, <2>2, <1>7, <1>8 DEF c
  <2> QED
    BY <2>3, <1>2 DEF Goes, f
<1>13. CASE EndOfType(t)
  <2> DEFINE g(ty, n) == [f EXCEPT !.ty = ty, !.i = n]
  <2>1. \A ty \in UnitTypes, n \in Nat \ {0} :
           g(ty, n) \in Frames /\ g(ty, n).op = f.op /\ g(ty, n).want = f.want
    BY <1>1 DEF Frames
  <2>2. \/ f.ty # Last /\ Goto(t, "next", g(After(f.ty), 1))
        \/ f.op = "closeConnection" /\ Goto(t, "stop", f)
        \/ Goto(t, "ret", f)
    BY <1>13, <1>f DEF EndOfType
  <2> HIDE DEF g
  <2>3. f.op # "sendToAnyOfType"
    BY <1>13, <1>f DEF EndOfType
  <2>4. CASE f.ty # Last /\ Goto(t, "next", g(After(f.ty), 1))
    <3>0. 1 \in Nat \ {0}
      OBVIOUS
    <3>1. After(f.ty) \in UnitTypes
      BY <2>4, <1>1, Keys
    <3>2. /\ g(After(f.ty), 1) \in Frames /\ g(After(f.ty), 1).op = f.op
          /\ g(After(f.ty), 1).want = f.want
      BY <3>0, <3>1, <2>1, Zenon
    <3>3. Continues(f, "next", g(After(f.ty), 1))
      BY <2>3, <3>2 DEF Continues
    <3> QED
      BY <2>4, <3>2, <3>3, <1>0, <1>2 DEF f
  <2>5. CASE (f.op = "closeConnection" /\ Goto(t, "stop", f)) \/ Goto(t, "ret", f)
    <3> HIDE DEF Goes
    <3>1. Goes
      BY <2>3, <2>5, <1>11
    <3> QED
      BY <3>1, <1>2 DEF Goes, f
  <2> QED
    BY <2>2, <2>4, <2>5
<1>14. CASE VisitCopy(t)
  <2>1. f.vec \in Seq(Units) /\ (~(f.i > Len(f.vec)) => f.vec[f.i] \in Units)
    BY <1>1 DEF Frames
  <2>2. /\ f.op = "sendToAllOfType"
        /\ \/ Goto(t, "ret", f)
           \/ ~(f.i > Len(f.vec)) /\ Goto(t, "send", [f EXCEPT !.cur = f.vec[f.i]])
    BY <1>14, <1>f DEF VisitCopy
  <2> HIDE DEF Goes
  <2>3. CASE Goto(t, "ret", f)
    <3>1. Goes
      BY <2>2, <2>3, <1>11
    <3> QED
      BY <3>1, <1>2 DEF Goes, f
  <2>4. CASE ~(f.i > Len(f.vec)) /\ Goto(t, "send", [f EXCEPT !.cur = f.vec[f.i]])
    <3>1. Goes
      BY <2>1, <2>4, <1>7
    <3> QED
      BY <3>1, <1>2 DEF Goes, f
  <2> QED
    BY <2>2, <2>3, <2>4
<1>15. CASE VisitAny(t)
  <2>1. \A c \in Members(f.ty) : c \in Units
    BY <1>1 DEF Members
  <2>2. \/ clientMap[f.ty] = <<>> /\ Goto(t, "ret", f)
        \/ \E c \in Units : Goto(t, "send", [f EXCEPT !.cur = c])
    BY <1>15, <1>f, <2>1 DEF VisitAny
  <2> HIDE DEF Goes
  <2>3. Goes
    BY <2>2, <1>7, <1>11
  <2> QED
    BY <2>3, <1>2 DEF Goes, f
<1>16. CASE VisitReroute(t)
  <2>1. f.i <= Len(clientMap[f.ty]) => clientMap[f.ty][f.i] \in Units
    BY <1>1
  <2>2. /\ f.op = "rerouteToAnyOfType"
        /\ \/ Goto(t, "ret", f)
           \/ Goto(t, "next", [f EXCEPT !.i = 1, !.end = f.start - 1])
           \/ Goto(t, "next", [f EXCEPT !.i = @ + 1])
           \/ \E c \in Units : Goto(t, "send", [f EXCEPT !.cur = c])
    BY <1>16, <1>f, <2>1 DEF VisitReroute
  <2>3. CASE Goto(t, "next", [f EXCEPT !.i = 1, !.end = f.start - 1])
    <3> DEFINE g(m, n) == [f EXCEPT !.i = m, !.end = n]
    <3>1. \A m \in Nat \ {0}, n \in Nat :
             g(m, n) \in Frames /\ g(m, n).op = f.op /\ g(m, n).want = f.want
      BY <1>1 DEF Frames
    <3>2. Goto(t, "next", g(1, f.start - 1))
      BY <2>3
    <3> HIDE DEF g
    <3>3. f.start - 1 \in Nat /\ 1 \in Nat \ {0}
      BY <1>1 DEF Frames
    <3>4. /\ g(1, f.start - 1) \in Frames /\ g(1, f.start - 1).op = f.op
          /\ g(1, f.start - 1).want = f.want
      BY <3>1, <3>3, Zenon
    <3>5. Continues(f, "next", g(1, f.start - 1))
      BY <2>2, <3>4 DEF Continues
    <3> QED
      BY <3>2, <3>4, <3>5, <1>0, <1>2 DEF f
  <2> HIDE DEF Goes
  <2>4. CASE Goto(t, "ret", f)
    <3>1. Goes
      BY <2>2, <2>4, <1>11
    <3> QED
      BY <3>1, <1>2 DEF Goes, f
  <2>5. CASE \/ Goto(t, "next", [f EXCEPT !.i = @ + 1])
             \/ \E c \in Units : Goto(t, "send", [f EXCEPT !.cur = c])
    <3>1. Goes
      BY <2>5, <1>7, <1>8
    <3> QED
      BY <3>1, <1>2 DEF Goes, f
  <2> QED
    BY <2>2, <2>3, <2>4, <2>5
<1>17. CASE Send(t)
  <2>1. f.cur \in Units
    BY <1>17, <1>f, <1>0 DEF ThreadsOK, Send
  <2> DEFINE g == [f EXCEPT !.i = @ + 1, !.sent = @ \cup {f.cur}]
             h == [f EXCEPT !.sent = {f.cur}]
  <2>2. /\ g \in Frames /\ g.op = f.op /\ g.want = f.want /\ g.ty = f.ty
        /\ h \in Frames /\ h.op = f.op /\ h.want = f.want /\ h.ty = f.ty /\ h.sent # {}
    <3>1. f.i + 1 \in Nat \ {0} /\ f.sent \cup {f.cur} \in SUBSET Units
      BY <1>1, <2>1 DEF Frames
    <3> QED
      BY <3>1, <1>1, <2>1 DEF Frames
  <2>3. Goto(t, "next", g) \/ Goto(t, "ret", h) \/ Goto(t, "remove", f)
    BY <1>17, <1>f DEF Send, Continue
  <2> HIDE DEF g, h, Goes
  <2>4. Goes
    BY <2>2, <2>3, <1>0, <1>3, <1>11
  <2> QED
    BY <2>4, <1>2 DEF Goes, f
<1>18. CASE RemoveClient(t)
  <2>1. \A c \in Targets(f) : c \in Units
    <3>1. \A c \in Targets(f) : c \in Registered
      BY <1>1 DEF Targets, Registered
    <3> QED
      BY <3>1, RegisteredUnits
  <2>2. Retry(t, f) \/ \E c \in Units : Goto(t, "join", [f EXCEPT !.tgt = c])
    BY <1>18, <1>f, <2>1 DEF RemoveClient
  <2> HIDE DEF Goes
  <2>3. Goes
    BY <2>2, <1>1, <1>9, <1>10
  <2> QED
    BY <2>3, <1>2 DEF Goes, f
<1>19. CASE Release(t)
  <2>1. f.cur \in Units /\ Goto(t, "join", [f EXCEPT !.tgt = f.cur])
    BY <1>19, <1>f, <1>0 DEF ThreadsOK, Release
  <2> HIDE DEF Goes
  <2>2. Goes
    BY <2>1, <1>9
  <2> QED
    BY <2>2, <1>2 DEF Goes, f
<1>20. CASE Join(t)
  <2>1. th' = th \/ Goto(t, "next", [f EXCEPT !.i = @ + 1]) \/ Goto(t, "erase", f)
    BY <1>20, <1>f DEF Join
  <2>2. CASE th' = th
    BY <2>2, <1>2
  <2> HIDE DEF Goes
  <2>3. CASE Goto(t, "next", [f EXCEPT !.i = @ + 1]) \/ Goto(t, "erase", f)
    <3>1. Goes
      BY <2>3, <1>8, <1>11
    <3> QED
      BY <3>1, <1>2 DEF Goes, f
  <2> QED
    BY <2>1, <2>2, <2>3
<1>21. CASE Erase(t)
  <2> DEFINE e == [f EXCEPT !.tgt = None]
  <2>1. /\ e \in Frames /\ e.op = f.op /\ e.want = f.want /\ e.ty = f.ty
        /\ Retry(t, e)
    BY <1>21, <1>f, <1>6 DEF Erase
  <2> HIDE DEF e, Goes
  <2>2. Goes
    BY <2>1, <1>10
  <2> QED
    BY <2>2, <1>2 DEF Goes, f
<1>22. CASE Return(t)
  <2>1. th' = th \/ th' = [th EXCEPT ![t] = Home(t)]
    BY <1>22 DEF Return
  <2>2. CASE th' = [th EXCEPT ![t] = Home(t)]
    <3>1. Goto(t, IF t = "main" THEN "idle" ELSE "loop", NoFrame)
      BY <2>2 DEF Goto, Home
    <3> QED
      BY <3>1, <1>0, <1>2, NoFrameType
  <2> QED
    BY <2>1, <2>2, <1>2
<1> QED
  BY <1>12, <1>13, <1>14, <1>15, <1>16, <1>17, <1>18, <1>19, <1>20, <1>21, <1>22 DEF Step

-----------------------------------------------------------------------------
(* The receivers. *)

\* A receiver that runs is known to its ClientInfo, and until a callback makes a
\* call every receiver is in its loop.
CalmInv ==
    /\ \A u \in Units : th[u].pc # "none" => info[u].receiver
    /\ calls.callbacks = 0 => \A u \in Units : th[u].pc \in {"none", "loop", "ended"}

\* A step leaves the receiver that a ClientInfo knows alone.
LEMMA ReceiverStays ==
    ASSUME TypeOK, Next PROVE \A u \in Units : info[u].receiver => info'[u].receiver
<1> USE ServerAssumption
<1>a. info \in [Units -> Infos] /\ AcceptOK /\ ThreadsOK
  BY TypeParts DEF RegistryOK
<1>1. CASE info' = info
  BY <1>1
<1>2. ASSUME NEW c \in Units, info' = [info EXCEPT ![c].abort = TRUE]
      PROVE  \A u \in Units : info[u].receiver => info'[u].receiver
  BY <1>2, <1>a, InfoAbort
<1>3. ASSUME NEW c \in Units, info' = [info EXCEPT ![c].mem = "freed"]
      PROVE  \A u \in Units : info[u].receiver => info'[u].receiver
  BY <1>3, <1>a, InfoFreed
<1>4. ASSUME NEW a \in Answers, NEW n \in Uuids, Hello(a, n), info' # info
      PROVE  \A u \in Units : info[u].receiver => info'[u].receiver
  <2>1. /\ acc.who \in Units /\ acc.handle \in Handles
        /\ info' = [info EXCEPT ![acc.who] =
                      [@ EXCEPT !.mem = "alive", !.handle = acc.handle]]
    BY <1>4, <1>a DEF Hello, AcceptOK
  <2> QED
    BY <2>1, <1>a DEF Infos
<1>5. ASSUME NEW n \in Uuids, Collide(n), info' # info
      PROVE  \A u \in Units : info[u].receiver => info'[u].receiver
  <2>1. /\ acc.who \in Units
        /\ info' = [info EXCEPT ![acc.who].mem = "freed", ![acc.who].abort = TRUE]
    BY <1>5, <1>a DEF Collide, AcceptOK
  <2> QED
    BY <2>1, <1>a DEF Infos
<1>6. ASSUME Register PROVE \A u \in Units : info[u].receiver => info'[u].receiver
  <2>1. acc.who \in Units /\ info' = [info EXCEPT ![acc.who].uuid = acc.uuid]
    BY <1>6, <1>a DEF Register, AcceptOK
  <2> QED
    BY <2>1, <1>a DEF Infos
<1>7. ASSUME Spawn PROVE \A u \in Units : info[u].receiver => info'[u].receiver
  <2>1. acc.who \in Units /\ info' = [info EXCEPT ![acc.who].receiver = TRUE]
    BY <1>7, <1>a DEF Spawn, AcceptOK
  <2> QED
    BY <2>1, <1>a DEF Infos
<1>8. \/ info' = info
      \/ \E c \in Units : info' = [info EXCEPT ![c].abort = TRUE]
      \/ \E c \in Units : info' = [info EXCEPT ![c].mem = "freed"]
      \/ \E a \in Answers, n \in Uuids : Hello(a, n)
      \/ \E n \in Uuids : Collide(n)
      \/ Register \/ Spawn
  <2>1. CASE \E t \in Threads : Step(t)
    <3>1. PICK t \in Threads : Step(t)
      BY <2>1
    <3>2. \A c \in Targets(th[t].f) : c \in Units
      <4>1. \A c \in Targets(th[t].f) : c \in Registered
        BY <1>a DEF Targets, Registered, ThreadsOK, Frames
      <4> QED
        BY <4>1, RegisteredUnits
    <3>3. /\ th[t].pc = "release" => th[t].f.cur \in Units
          /\ th[t].pc = "join" => th[t].f.tgt \in Units
      BY <1>a DEF ThreadsOK
    <3> QED
      BY <3>1, <3>2, <3>3 DEF Step, VisitAll, EndOfType, VisitCopy, VisitAny,
         VisitReroute, Send, RemoveClient, Release, Join, Erase, Return
  <2>2. CASE \E u \in Units : Accept(u) \/ Disconnect(u) \/ StopReceiving(u)
    BY <2>2 DEF Accept, Disconnect, StopReceiving
  <2>3. CASE Handshake
    BY <2>3 DEF Handshake, ProbeUuid, StopAccepting
  <2>4. CASE \/ \E op \in ConsoleOps : Call(op)
             \/ \E c \in Units, op \in CallbackOps : Receive(c, op)
             \/ JoinAccept \/ Crash
    BY <2>4 DEF Call, Receive, JoinAccept, Crash
  <2> QED
    BY <2>1, <2>2, <2>3, <2>4 DEF Next
<1> QED
  BY <1>1, <1>2, <1>3, <1>4, <1>5, <1>6, <1>7, <1>8

\* What a step does to the threads: one of them goes on in its call, begins one
\* or leaves it.
FrameMoves(t, p, g) ==
    /\ Goto(t, p, g)
    /\ t \in Units /\ th[t].pc = "none" => p = "loop" /\ info'[t].receiver
    /\ calls'.callbacks = 0 /\ t \in Units =>
          p \in {"loop", "ended"} \/ th[t].pc \notin {"none", "loop", "ended"}
    /\ \/ p \in {"idle", "loop", "ended"} /\ g = NoFrame
       \/ p \notin {"idle", "loop", "ended", "none"} /\ Continues(th[t].f, p, g)
       \/ p \in {"next", "send"} /\ \E op \in Ops : EnterFrame(p, g, op)

\* Every step that touches a thread is such a move.
LEMMA FrameStep ==
    ASSUME TypeOK, \A t \in Threads : th[t].pc = "stop" => th[t].f.op = "closeConnection",
           Next
    PROVE  /\ th' = th \/ \E t \in Threads, p \in PCs, g \in Frames : FrameMoves(t, p, g)
           /\ calls'.callbacks = 0 => calls.callbacks = 0
<1> USE ServerAssumption
<1>0. /\ RegistryOK /\ ThreadsOK /\ AcceptOK /\ Units \subseteq Threads /\ "main" \in Threads
      /\ {"next", "ret", "send", "idle", "loop", "ended"} \subseteq PCs /\ "main" \notin Units
      /\ calls \in [console : 0 .. MaxCalls, callbacks : 0 .. MaxCalls]
  BY TypeParts DEF PCs, Threads, OutsideOK
<1> DEFINE Goal == /\ th' = th \/ \E t \in Threads, p \in PCs, g \in Frames : FrameMoves(t, p, g)
                   /\ calls'.callbacks = 0 => calls.callbacks = 0
<1>1. CASE \E t \in Threads : Step(t)
  <2>1. PICK t \in Threads : Step(t)
    BY <1>1
  <2>2. /\ th[t].pc \notin {"none", "loop", "idle", "ended"} /\ calls' = calls
        /\ \/ th' = th
           \/ \E p \in PCs, g \in Frames :
                    /\ Goto(t, p, g) /\ p # "ended"
                    /\ \/ p \in {"idle", "loop"} /\ g = NoFrame
                       \/ p \notin {"idle", "loop", "none"} /\ Continues(th[t].f, p, g)
    BY <2>1, StepFrame
  <2> QED
    BY <2>2 DEF FrameMoves
<1>2. ASSUME NEW u \in Units, StopReceiving(u) PROVE Goal
  <2>1. th[u].pc = "loop" /\ Goto(u, "ended", NoFrame) /\ calls' = calls
    BY <1>2 DEF StopReceiving
  <2>2. FrameMoves(u, "ended", NoFrame)
    BY <2>1 DEF FrameMoves
  <2> QED
    BY <2>1, <2>2, <1>0, NoFrameType
<1>3. ASSUME Spawn PROVE Goal
  <2>1. /\ acc.who \in Units /\ Goto(acc.who, "loop", NoFrame) /\ calls' = calls
        /\ info' = [info EXCEPT ![acc.who].receiver = TRUE]
    BY <1>3, <1>0 DEF Spawn, Goto, Home, AcceptOK
  <2>2. info'[acc.who].receiver
    BY <2>1, <1>0 DEF RegistryOK, Infos
  <2>3. FrameMoves(acc.who, "loop", NoFrame)
    BY <2>1, <2>2 DEF FrameMoves
  <2> QED
    BY <2>1, <2>3, <1>0, NoFrameType
<1>4. ASSUME NEW op \in ConsoleOps, Call(op) PROVE Goal
  <2>1. Enter("main", op) /\ calls' = [calls EXCEPT !.console = @ + 1] /\ op \in Ops
    BY <1>4 DEF Call
  <2>2. PICK p \in {"next", "send"}, g \in Frames : Goto("main", p, g) /\ EnterFrame(p, g, op)
    BY <2>1, <1>0, EnterFacts
  <2>3. FrameMoves("main", p, g)
    BY <2>1, <2>2, <1>0 DEF FrameMoves
  <2>4. calls'.callbacks = calls.callbacks
    BY <2>1, <1>0
  <2> QED
    BY <2>3, <2>4, <1>0
<1>5. ASSUME NEW c \in Units, NEW op \in CallbackOps, Receive(c, op) PROVE Goal
  <2>1. /\ Enter(c, op) /\ calls' = [calls EXCEPT !.callbacks = @ + 1] /\ op \in Ops
        /\ th[c].pc = "loop"
    BY <1>5 DEF Receive
  <2>2. PICK p \in {"next", "send"}, g \in Frames : Goto(c, p, g) /\ EnterFrame(p, g, op)
    BY <2>1, <1>0, EnterFacts
  <2>4. calls'.callbacks # 0
    BY <2>1, <1>0
  <2>3. FrameMoves(c, p, g)
    BY <2>1, <2>2, <2>4 DEF FrameMoves
  <2> QED
    BY <2>3, <2>4, <1>0
<1>6. ASSUME JoinAccept PROVE Goal
  <2>1. /\ Goto("main", "ret", th["main"].f) /\ th["main"].pc = "stop" /\ calls' = calls
    BY <1>6 DEF JoinAccept
  <2>2. th["main"].f \in Frames /\ th["main"].f.op = "closeConnection"
    BY <2>1, <1>0 DEF ThreadsOK
  <2>3. FrameMoves("main", "ret", th["main"].f)
    BY <2>1, <2>2, <1>0 DEF FrameMoves, Continues
  <2> QED
    BY <2>1, <2>2, <2>3, <1>0
<1>7. CASE \/ \E u \in Units : Accept(u) \/ Disconnect(u)
           \/ \E a \in Answers, n \in Uuids : Hello(a, n)
           \/ ProbeUuid \/ \E n \in Uuids : Collide(n)
           \/ Register \/ StopAccepting \/ Crash
  <2>1. th' = th /\ calls' = calls
    BY <1>7 DEF Accept, Disconnect, Hello, ProbeUuid, Collide, Register,
                StopAccepting, Crash
  <2> QED
    BY <2>1
<1> QED
  BY <1>1, <1>2, <1>3, <1>4, <1>5, <1>6, <1>7 DEF Next, Handshake

\* A unit that is past its handshake stays so.
LEMMA PastStep ==
    ASSUME TypeOK, Next, NEW c \in Units, Past(c) PROVE Past(c)'
<1> USE ServerAssumption
<1>0. AcceptOK /\ unit \in [Units -> {"away", "here", "left"}]
  BY TypeParts DEF OutsideOK
<1>1. CASE \E t \in Threads : Step(t)
  BY <1>1, StepFrame DEF Past
<1>2. CASE \E u \in Units : Accept(u)
  <2>1. PICK u \in Units : Accept(u)
    BY <1>2
  <2>2. unit[u] = "away" /\ unit' = [unit EXCEPT ![u] = "here"] /\ acc'.who = u
    BY <2>1 DEF Accept
  <2> QED
    BY <2>2, <1>0 DEF Past
<1>3. CASE \E u \in Units : Disconnect(u)
  BY <1>3, <1>0 DEF Disconnect, Past
<1>4. CASE Handshake
  <2>1. unit' = unit
    BY <1>4 DEF Handshake, Hello, ProbeUuid, Collide, Register, Spawn, StopAccepting
  <2>2. \/ acc' = acc
        \/ acc'.pc \notin Shaking
        \/ acc.pc \in Shaking /\ acc'.who = acc.who
    <3>1. \/ acc' = acc
          \/ acc' = [acc EXCEPT !.pc = "spawn"]
          \/ acc' = [acc EXCEPT !.pc = "stopped"]
          \/ acc'.pc = "accept"
          \/ /\ acc.pc \in {"hello", "collide"}
             /\ \E n \in Uuids : acc' = [acc EXCEPT !.pc = "check", !.uuid = n]
          \/ /\ acc.pc = "check"
             /\ \E p \in {"collide", "register"} : acc' = [acc EXCEPT !.pc = p]
      <4>1. ASSUME NEW a \in Answers, NEW n \in Uuids, Hello(a, n)
            PROVE  \/ acc' = acc \/ acc'.pc = "accept"
                   \/ acc.pc = "hello" /\ acc' = [acc EXCEPT !.pc = "check", !.uuid = n]
        BY <4>1 DEF Hello, Backlog
      <4>2. ASSUME NEW n \in Uuids, Collide(n)
            PROVE  \/ acc'.pc = "accept"
                   \/ acc.pc = "collide" /\ acc' = [acc EXCEPT !.pc = "check", !.uuid = n]
        BY <4>2 DEF Collide, Backlog
      <4>3. ASSUME ProbeUuid
            PROVE  acc.pc = "check" /\ \E p \in {"collide", "register"} : acc' = [acc EXCEPT !.pc = p]
        BY <4>3 DEF ProbeUuid
      <4>4. Spawn => acc'.pc = "accept"
        BY DEF Spawn, Backlog
      <4>5. /\ Register => acc' = [acc EXCEPT !.pc = "spawn"]
            /\ StopAccepting => acc' = [acc EXCEPT !.pc = "stopped"]
        BY DEF Register, StopAccepting
      <4> QED
        BY <1>4, <4>1, <4>2, <4>3, <4>4, <4>5 DEF Handshake
    <3>2. \A p : [acc EXCEPT !.pc = p].pc = p /\ [acc EXCEPT !.pc = p].who = acc.who
      BY <1>0 DEF AcceptOK
    <3>3. \A n : /\ [acc EXCEPT !.pc = "check", !.uuid = n].pc = "check"
                 /\ [acc EXCEPT !.pc = "check", !.uuid = n].who = acc.who
      BY <1>0 DEF AcceptOK
    <3>4. CASE acc' = [acc EXCEPT !.pc = "spawn"] \/ acc' = [acc EXCEPT !.pc = "stopped"]
      BY <3>2, <3>4 DEF Shaking
    <3>5. CASE /\ acc.pc \in {"hello", "collide"}
               /\ \E n \in Uuids : acc' = [acc EXCEPT !.pc = "check", !.uuid = n]
      BY <3>3, <3>5 DEF Shaking
    <3>6. CASE /\ acc.pc = "check"
               /\ \E p \in {"collide", "register"} : acc' = [acc EXCEPT !.pc = p]
      BY <3>2, <3>6 DEF Shaking
    <3> QED
      BY <3>1, <3>4, <3>5, <3>6 DEF Shaking
  <2> QED
    BY <2>1, <2>2 DEF Past
<1>5. CASE \/ \E u \in Units : StopReceiving(u)
           \/ \E op \in ConsoleOps : Call(op)
           \/ \E u \in Units, op \in CallbackOps : Receive(u, op)
           \/ JoinAccept \/ Crash
  <2>1. unit' = unit /\ acc' = acc
    BY <1>5 DEF StopReceiving, Call, Receive, JoinAccept, Crash
  <2> QED
    BY <2>1 DEF Past
<1> QED
  BY <1>1, <1>2, <1>3, <1>4, <1>5 DEF Next

\* Only registration adds a client to the lists.
LEMMA RegisteredStep ==
    ASSUME RegistryInv, Next
    PROVE  \A c \in Registered' : c \in Registered \/ (acc.pc = "register" /\ c = acc.who)
<1>0. TypeOK /\ ControlInv /\ ListsInv /\ Ordered
  BY DEF RegistryInv, ListsInv
<1>1. CASE clientMap' = clientMap
  BY <1>1, RegisteredFacts
<1>2. CASE Empties
  BY <1>2, <1>0, EmptiesLists
<1>3. CASE Register
  <2>1. acc.pc = "register" /\ acc.who \notin Registered
    BY <1>3, <1>0 DEF Register, ListsInv, Past, Shaking
  <2> QED
    BY <1>3, <2>1, <1>0, RegisterLists
<1>4. CASE \E t \in Threads : Erase(t)
  <2>1. PICK t \in Threads : Erase(t)
    BY <1>4
  <2>2. /\ th[t].f.tgt \in Units
        /\ clientMap' = [clientMap EXCEPT ![TypeOf[th[t].f.tgt]] = Without(@, th[t].f.tgt)]
    BY <2>1, <1>0 DEF Erase, TypeOK
  <2> QED
    BY <2>2, <1>0, EraseLists
<1>5. \/ clientMap' = clientMap \/ Empties \/ Register \/ \E t \in Threads : Erase(t)
  BY <1>0, Steps DEF Quiet, Still, registry, Accept, Disconnect, StopReceiving, Hello,
     ProbeUuid, Collide, Spawn, StopAccepting, Removes, Release, Join, maps
<1> QED
  BY <1>1, <1>2, <1>3, <1>4, <1>5

\* The clients a send was called for are past their handshake, and a
\* sendToAnyOfType that gave up has found the list of its type empty.
SendInv ==
    \A t \in Threads :
       /\ th[t].pc = "stop" => th[t].f.op = "closeConnection"
       /\ th[t].f.op \in {"sendToAll", "sendToAnyOfType"} =>
             \A c \in th[t].f.want : Past(c)
       /\ th[t].f.op = "sendToAnyOfType" =>
             \A c \in th[t].f.want : TypeOf[c] = th[t].f.ty
       /\ th[t].pc = "ret" /\ th[t].f.op = "sendToAnyOfType" /\ th[t].f.sent = {} =>
             th[t].f.want \cap Registered = {}

\* Every step preserves CalmInv.
LEMMA CalmStep ==
    ASSUME TypeOK, SendInv, CalmInv, Next PROVE CalmInv'
<1>0. ThreadsOK /\ Units \subseteq Threads
  BY TypeParts DEF Threads
<1>1. /\ th' = th \/ \E t \in Threads, p \in PCs, g \in Frames : FrameMoves(t, p, g)
      /\ calls'.callbacks = 0 => calls.callbacks = 0
  BY FrameStep DEF SendInv
<1>2. \A u \in Units : info[u].receiver => info'[u].receiver
  BY ReceiverStays
<1>3. CASE th' = th
  BY <1>1, <1>2, <1>3 DEF CalmInv
<1>4. ASSUME NEW t \in Threads, NEW p \in PCs, NEW g \in Frames, FrameMoves(t, p, g)
      PROVE  CalmInv'
  <2>1. /\ th'[t].pc = p /\ th'[t].f = g
        /\ \A x \in Threads : x # t => th'[x] = th[x]
    BY <1>4, <1>0, ThreadFacts DEF FrameMoves
  <2>2. \A u \in Units : th'[u].pc # "none" => info'[u].receiver
    BY <1>4, <2>1, <1>0, <1>2 DEF FrameMoves, CalmInv
  <2>3. calls'.callbacks = 0 => \A u \in Units : th'[u].pc \in {"none", "loop", "ended"}
    BY <1>4, <2>1, <1>0, <1>1 DEF FrameMoves, CalmInv
  <2> QED
    BY <2>2, <2>3 DEF CalmInv
<1> QED
  BY <1>1, <1>3, <1>4

\* Every step preserves SendInv.
LEMMA SendStep ==
    ASSUME RegistryInv, SendInv, Next PROVE SendInv'
<1> USE ServerAssumption
<1>0. /\ TypeOK /\ ListsInv /\ Ordered /\ ThreadsOK /\ RegistryOK
      /\ Registered \subseteq Units
  BY TypeParts, RegisteredUnits DEF RegistryInv, ListsInv
<1>1. th' = th \/ \E t \in Threads, p \in PCs, g \in Frames : FrameMoves(t, p, g)
  BY <1>0, FrameStep DEF SendInv
<1>2. \A c \in Units : Past(c) => Past(c)'
  BY <1>0, PastStep
<1>3. \A c \in Registered' : c \in Registered \/ ~Past(c)
  <2>1. \A c \in Registered' : c \in Registered \/ (acc.pc = "register" /\ c = acc.who)
    BY RegisteredStep
  <2> QED
    BY <2>1 DEF Past, Shaking
<1>4. \A t \in Threads : th[t] \in [pc : PCs, f : Frames]
  BY <1>0 DEF ThreadsOK
<1>5. \A t \in Threads : th[t].f.want \subseteq Units /\ th[t].f.ty \in UnitTypes
  BY <1>4 DEF Frames
\* A thread that stays where it is.
<1>6. ASSUME NEW t \in Threads, th'[t] = th[t]
      PROVE  /\ th'[t].pc = "stop" => th'[t].f.op = "closeConnection"
             /\ th'[t].f.op \in {"sendToAll", "sendToAnyOfType"} =>
                   \A c \in th'[t].f.want : Past(c)'
             /\ th'[t].f.op = "sendToAnyOfType" =>
                   \A c \in th'[t].f.want : TypeOf[c] = th'[t].f.ty
             /\ th'[t].pc = "ret" /\ th'[t].f.op = "sendToAnyOfType" /\ th'[t].f.sent = {} =>
                   th'[t].f.want \cap Registered' = {}
  BY <1>2, <1>3, <1>5, <1>6 DEF SendInv
\* A thread that moves.
<1>7. ASSUME NEW t \in Threads, NEW p \in PCs, NEW g \in Frames, FrameMoves(t, p, g)
      PROVE  /\ p = "stop" => g.op = "closeConnection"
             /\ g.op \in {"sendToAll", "sendToAnyOfType"} => \A c \in g.want : Past(c)'
             /\ g.op = "sendToAnyOfType" => \A c \in g.want : TypeOf[c] = g.ty
             /\ p = "ret" /\ g.op = "sendToAnyOfType" /\ g.sent = {} =>
                   g.want \cap Registered' = {}
  <2>1. CASE p \in {"idle", "loop", "ended"} /\ g = NoFrame
    BY <2>1, NoFrameType
  <2>2. CASE p \notin {"idle", "loop", "ended", "none"} /\ Continues(th[t].f, p, g)
    <3> DEFINE f == th[t].f
    <3>1. /\ g.op = f.op /\ g.want = f.want
          /\ f.op = "sendToAnyOfType" => g.ty = f.ty
          /\ p = "ret" /\ f.op = "sendToAnyOfType" /\ g.sent = {} => clientMap[f.ty] = <<>>
          /\ p = "stop" => f.op = "closeConnection"
      BY <2>2 DEF Continues
    <3>2. /\ f.op \in {"sendToAll", "sendToAnyOfType"} => \A c \in f.want : Past(c)
          /\ f.op = "sendToAnyOfType" => \A c \in f.want : TypeOf[c] = f.ty
          /\ f.want \subseteq Units /\ f.ty \in UnitTypes
      BY <1>5 DEF SendInv
    <3> HIDE DEF f
    <3>3. ASSUME p = "ret", f.op = "sendToAnyOfType", g.sent = {}, NEW c \in f.want,
                 c \in Registered'
          PROVE  FALSE
      <4>1. c \in Registered /\ TypeOf[c] = f.ty
        BY <3>2, <3>3, <1>3
      <4>2. PICK ty \in UnitTypes : \E i \in DOMAIN clientMap[ty] : clientMap[ty][i] = c
        BY <4>1, RegisteredFacts
      <4>3. ty = f.ty
        BY <4>1, <4>2, <1>0 DEF Ordered
      <4> QED
        BY <3>1, <3>3, <4>2, <4>3
    <3> QED
      BY <3>1, <3>2, <3>3, <1>2
  <2>3. CASE p \in {"next", "send"} /\ \E op \in Ops : EnterFrame(p, g, op)
    <3>1. /\ g.op = "sendToAll" => g.want = Registered
          /\ g.op = "sendToAnyOfType" => g.want = Members(g.ty)
      BY <2>3 DEF EnterFrame
    <3>2. Members(g.ty) \subseteq Registered /\ \A c \in Members(g.ty) : TypeOf[c] = g.ty
      <4>1. g.ty \in UnitTypes
        BY DEF Frames
      <4> QED
        <5>1. Members(g.ty) \subseteq Registered
          BY <4>1 DEF Registered
        <5> QED
          BY <4>1, <5>1, <1>0 DEF Members, Ordered
    <3>3. \A c \in Registered : Past(c)'
      BY <1>0, <1>2 DEF ListsInv
    <3> QED
      BY <2>3, <3>1, <3>2, <3>3
  <2> QED
    BY <1>7, <2>1, <2>2, <2>3 DEF FrameMoves
<1>8. CASE th' = th
  BY <1>6, <1>8 DEF SendInv
<1>9. ASSUME NEW t \in Threads, NEW p \in PCs, NEW g \in Frames, FrameMoves(t, p, g)
      PROVE  SendInv'
  <2>1. /\ th'[t].pc = p /\ th'[t].f = g
        /\ \A x \in Threads : x # t => th'[x] = th[x]
    BY <1>9, <1>0, ThreadFacts DEF FrameMoves
  <2> QED
    BY <2>1, <1>6, <1>7, <1>9 DEF SendInv
<1> QED
  BY <1>1, <1>8, <1>9

-----------------------------------------------------------------------------
(* The walks of the console thread, while no callback calls the server. *)

\* The walk with frame f has client c ahead of it; it stands at client c.
Ahead(f, c) ==
    \/ TypeOf[c] > f.ty
    \/ \E j \in DOMAIN clientMap[f.ty] : j >= f.i /\ clientMap[f.ty][j] = c
Here(f, c) == f.i \in DOMAIN clientMap[f.ty] /\ clientMap[f.ty][f.i] = c

\* Until a callback makes a call, only the console thread walks and removes, and
\* besides it only a registration changes the lists.
LEMMA MainSteps ==
    ASSUME RegistryInv, CalmInv, SendInv, Next, calls'.callbacks = 0
    PROVE  /\ calls.callbacks = 0
           /\ \A t \in Threads : th[t].pc \in {"join", "erase", "next", "send", "remove"} =>
                 t = "main"
           /\ \/ th'["main"] = th["main"] /\ (clientMap' = clientMap \/ Register)
              \/ \E op \in ConsoleOps : Call(op)
              \/ Step("main") \/ JoinAccept
<1> USE ServerAssumption
<1>0. /\ TypeOK /\ ThreadsOK /\ AcceptOK /\ "main" \in Threads /\ "main" \notin Units
      /\ Units \subseteq Threads /\ \A t \in Threads : t # "main" => t \in Units
      /\ calls \in [console : 0 .. MaxCalls, callbacks : 0 .. MaxCalls]
  BY TypeParts DEF RegistryInv, Threads, OutsideOK
<1>1. calls.callbacks = 0
  BY <1>0, FrameStep DEF SendInv
<1>2. \A t \in Threads : th[t].pc \notin {"none", "loop", "ended"} => t = "main"
  BY <1>0, <1>1 DEF CalmInv
<1>3. \A t \in Threads : Step(t) => t = "main"
  <2> SUFFICES ASSUME NEW t \in Threads, Step(t) PROVE t = "main"
    OBVIOUS
  <2>1. th[t].pc \notin {"none", "loop", "idle", "ended"}
    BY <1>0, StepFrame
  <2> QED
    BY <2>1, <1>2
<1>4. ASSUME NEW c \in Units, NEW op \in CallbackOps, Receive(c, op) PROVE FALSE
  <2>1. calls' = [calls EXCEPT !.callbacks = @ + 1]
    BY <1>4 DEF Receive
  <2> QED
    BY <2>1, <1>0
<1>5. ASSUME NEW u \in Units, NEW p, NEW g, Goto(u, p, g) PROVE th'["main"] = th["main"]
  BY <1>5, <1>0, ThreadFacts
<1>6. CASE \E u \in Units : StopReceiving(u)
  <2>1. PICK u \in Units : StopReceiving(u)
    BY <1>6
  <2>2. Goto(u, "ended", NoFrame) /\ clientMap' = clientMap
    BY <2>1 DEF StopReceiving, maps
  <2> QED
    BY <2>2, <1>1, <1>2, <1>5
<1>7. CASE Spawn
  <2>1. acc.who \in Units /\ Goto(acc.who, "loop", NoFrame) /\ clientMap' = clientMap
    BY <1>7, <1>0 DEF Spawn, Goto, Home, AcceptOK, maps
  <2> QED
    BY <2>1, <1>1, <1>2, <1>5
<1>8. CASE \/ \E u \in Units : Accept(u) \/ Disconnect(u)
           \/ \E a \in Answers, n \in Uuids : Hello(a, n)
           \/ ProbeUuid \/ \E n \in Uuids : Collide(n)
           \/ StopAccepting \/ Crash
  BY <1>1, <1>2, <1>8 DEF Accept, Disconnect, Hello, ProbeUuid, Collide,
                StopAccepting, Crash, maps
<1>9. CASE Register
  BY <1>1, <1>2, <1>9 DEF Register
<1> QED
  BY <1>1, <1>2, <1>3, <1>4, <1>6, <1>7, <1>8, <1>9 DEF Next, Handshake

\* sendToAll at place pc with frame f: the clients it was called for that are
\* still registered were sent the data or lie ahead of the walk.
Reaches(pc, f) ==
    /\ pc # "ret" => \A c \in f.want \cap Registered : c \in f.sent \/ Ahead(f, c)
    /\ pc = "ret" => f.want \cap Registered \subseteq f.sent
    /\ pc \in {"send", "remove"} => Here(f, f.cur)
    /\ pc \in {"join", "erase"} => Here(f, f.tgt)

ReachInv ==
    calls.callbacks = 0 /\ th["main"].f.op = "sendToAll" =>
       Reaches(th["main"].pc, th["main"].f)

\* A registration leaves the walk alone.
LEMMA RegisterWalk ==
    ASSUME TypeOK, Register, NEW f \in Frames
    PROVE  /\ \A c : Ahead(f, c) => Ahead(f, c)'
           /\ \A c : Here(f, c) => Here(f, c)'
           /\ \A c : Ahead(f, c)' => Ahead(f, c) \/ c = acc.who
<1> USE ServerAssumption
<1> DEFINE s == clientMap[f.ty]
<1>1. f.ty \in UnitTypes /\ f.i \in Nat \ {0} /\ s \in Seq(Units)
  BY DEF Frames, TypeOK
<1>2. clientMap' = [clientMap EXCEPT ![TypeOf[acc.who]] = Append(@, acc.who)]
  BY DEF Register
<1>3. acc.who \in Units
  BY DEF Register, TypeOK
<1>4. clientMap'[f.ty] = s \/ clientMap'[f.ty] = Append(s, acc.who)
  BY <1>1, <1>2 DEF TypeOK
<1>5. /\ \A j \in DOMAIN s : j \in DOMAIN Append(s, acc.who) /\ Append(s, acc.who)[j] = s[j]
      /\ \A j \in DOMAIN Append(s, acc.who) :
            j \in DOMAIN s \/ Append(s, acc.who)[j] = acc.who
  BY <1>1, <1>3
<1>6. /\ \A j \in DOMAIN s : j \in DOMAIN clientMap'[f.ty] /\ clientMap'[f.ty][j] = s[j]
      /\ \A j \in DOMAIN clientMap'[f.ty] :
            j \in DOMAIN s \/ clientMap'[f.ty][j] = acc.who
  BY <1>4, <1>5
<1> HIDE DEF s
<1> QED
  BY <1>1, <1>6 DEF Ahead, Here, s

\* The walk stands at c and goes on, or c is erased: the others stay ahead.
LEMMA WalkOn ==
    ASSUME TypeOK, NEW f \in Frames, NEW c, Here(f, c), NEW g \in Frames,
           g.ty = f.ty, g.i = f.i + 1
    PROVE  /\ \A d : Ahead(f, d) => d = c \/ Ahead(g, d)
           /\ Ahead(f, c)
           /\ \A d : Ahead(g, d) => Ahead(f, d)
           /\ Ordered => \A d : Ahead(g, d) => d # c
<1> USE ServerAssumption
<1>1. f.ty \in UnitTypes /\ f.i \in Nat \ {0} /\ clientMap[f.ty] \in Seq(Units)
  BY DEF Frames, TypeOK
<1>2. \A j \in DOMAIN clientMap[f.ty] : j \in Nat
  BY <1>1
<1>3. /\ \A d : Ahead(f, d) => d = c \/ Ahead(g, d)
      /\ Ahead(f, c)
      /\ \A d : Ahead(g, d) => Ahead(f, d)
  BY <1>1, <1>2 DEF Ahead, Here
<1>4. ASSUME Ordered PROVE \A d : Ahead(g, d) => d # c
  <2>1. TypeOf[c] = f.ty /\ Distinct(clientMap[f.ty])
    BY <1>1, <1>4 DEF Here, Ordered
  <2>2. ~(TypeOf[c] > f.ty)
    <3>1. f.ty \in Nat
      BY <1>1
    <3> QED
      BY <2>1, <3>1
  <2> QED
    BY <1>1, <1>2, <2>1, <2>2 DEF Ahead, Here, Distinct
<1> QED
  BY <1>3, <1>4

\* Erasing the client the walk stands at keeps the others ahead.
LEMMA EraseWalk ==
    ASSUME TypeOK, Ordered, NEW f \in Frames, NEW c \in Units, Here(f, c),
           clientMap' = [clientMap EXCEPT ![TypeOf[c]] = Without(@, c)]
    PROVE  \A d : Ahead(f, d) => d = c \/ Ahead(f, d)'
<1> USE ServerAssumption
<1> DEFINE s == clientMap[f.ty]
           w == Without(s, c)
<1>1. f.ty \in UnitTypes /\ f.i \in Nat \ {0} /\ s \in Seq(Units)
  BY DEF Frames, TypeOK
<1>2. f.i \in DOMAIN s /\ s[f.i] = c /\ TypeOf[c] = f.ty /\ Distinct(s)
  BY <1>1 DEF Here, Ordered
<1>3. clientMap'[f.ty] = w
  BY <1>1, <1>2 DEF TypeOK
<1> HIDE DEF s
<1>4. /\ DOMAIN w = 1 .. Len(s) - 1
      /\ \A i \in 1 .. Len(s) - 1 : w[i] = IF i < f.i THEN s[i] ELSE s[i + 1]
  <2>1. /\ DOMAIN Without(s, s[f.i]) = 1 .. Len(s) - 1
        /\ \A i \in 1 .. Len(s) - 1 :
              Without(s, s[f.i])[i] = IF i < f.i THEN s[i] ELSE s[i + 1]
    BY <1>1, <1>2, WithoutAt
  <2> QED
    BY <2>1, <1>2
<1> HIDE DEF w
<1>5. ASSUME NEW d, NEW j \in DOMAIN s, j >= f.i, s[j] = d, d # c
      PROVE  \E k \in DOMAIN w : k >= f.i /\ w[k] = d
  <2>1. j \in 1 .. Len(s) /\ j # f.i /\ Len(s) \in Nat
    BY <1>1, <1>2, <1>5
  <2>2. /\ j - 1 \in 1 .. Len(s) - 1 /\ j - 1 >= f.i /\ ~(j - 1 < f.i)
        /\ (j - 1) + 1 = j
    BY <2>1, <1>1, <1>5
  <2>3. w[j - 1] = s[j]
    BY <2>2, <1>4
  <2> QED
    BY <2>2, <2>3, <1>4, <1>5
<1> QED
  BY <1>3, <1>5 DEF Ahead, s

\* The end of a list: what lies ahead is in the lists of the later types.
LEMMA WalkNext ==
    ASSUME TypeOK, Ordered, NEW f \in Frames, f.i > Len(clientMap[f.ty])
    PROVE  /\ f.ty = Last => \A c \in Registered : ~Ahead(f, c)
           /\ \A g \in Frames : f.ty # Last /\ g.ty = After(f.ty) /\ g.i = 1 =>
                 \A c \in Registered : Ahead(f, c) <=> Ahead(g, c)
<1> USE ServerAssumption
<1>1. f.ty \in UnitTypes /\ f.i \in Nat \ {0} /\ clientMap[f.ty] \in Seq(Units)
  BY DEF Frames, TypeOK
<1>2. \A c : Ahead(f, c) <=> TypeOf[c] > f.ty
  <2>1. \A j \in DOMAIN clientMap[f.ty] : ~(j >= f.i)
    BY <1>1
  <2> QED
    BY <2>1 DEF Ahead
<1>3. \A c \in Registered :
         /\ TypeOf[c] \in UnitTypes /\ TypeOf[c] \in Nat
         /\ \E j \in DOMAIN clientMap[TypeOf[c]] : clientMap[TypeOf[c]][j] = c
  <2> SUFFICES ASSUME NEW c \in Registered
               PROVE  /\ TypeOf[c] \in UnitTypes /\ TypeOf[c] \in Nat
                      /\ \E j \in DOMAIN clientMap[TypeOf[c]] : clientMap[TypeOf[c]][j] = c
    OBVIOUS
  <2>1. PICK ty \in UnitTypes : \E j \in DOMAIN clientMap[ty] : clientMap[ty][j] = c
    BY RegisteredFacts
  <2>2. TypeOf[c] = ty
    BY <2>1 DEF Ordered
  <2> QED
    BY <2>1, <2>2
<1>4. ASSUME f.ty = Last PROVE \A c \in Registered : ~Ahead(f, c)
  <2>1. f.ty \in Nat /\ \A u \in UnitTypes : u <= f.ty
    BY <1>1, <1>4, Keys
  <2>2. \A c \in Registered : ~(TypeOf[c] > f.ty)
    BY <2>1, <1>3
  <2> QED
    BY <2>2, <1>2
<1>5. ASSUME NEW g \in Frames, f.ty # Last, g.ty = After(f.ty), g.i = 1, NEW c \in Registered
      PROVE  Ahead(f, c) <=> Ahead(g, c)
  <2>1. /\ g.ty \in UnitTypes /\ g.ty > f.ty /\ g.ty \in Nat /\ f.ty \in Nat
        /\ \A u \in UnitTypes : u > f.ty => g.ty <= u
    BY <1>1, <1>5, Keys
  <2>2. clientMap[g.ty] \in Seq(Units)
    BY <2>1 DEF TypeOK
  <2>3. TypeOf[c] > f.ty <=> TypeOf[c] > g.ty \/ TypeOf[c] = g.ty
    BY <2>1, <1>3
  <2>4. (\E j \in DOMAIN clientMap[g.ty] : j >= g.i /\ clientMap[g.ty][j] = c)
           <=> TypeOf[c] = g.ty
    <3>1. \A j \in DOMAIN clientMap[g.ty] : j >= g.i
      BY <2>2, <1>5
    <3> QED
      BY <2>1, <3>1, <1>3 DEF Ordered
  <2> QED
    BY <2>3, <2>4, <1>2 DEF Ahead
<1> QED
  BY <1>4, <1>5

\* Every step preserves ReachInv.
LEMMA ReachStep ==
    ASSUME RegistryInv, CalmInv, SendInv, ReachInv, Next PROVE ReachInv'
<1> USE ServerAssumption
<1>0. /\ TypeOK /\ ControlInv /\ ListsInv /\ Ordered /\ ThreadsOK /\ RegistryOK
      /\ AcceptOK /\ "main" \in Threads
      /\ {"next", "ret", "send", "remove", "join", "erase"} \subseteq PCs
  BY TypeParts DEF RegistryInv, ListsInv, Threads, PCs
<1> SUFFICES ASSUME calls'.callbacks = 0, th'["main"].f.op = "sendToAll"
             PROVE  Reaches(th["main"].pc, th["main"].f)'
  BY DEF ReachInv
<1>f. PICK f \in Frames, pc \in PCs : th["main"].f = f /\ th["main"].pc = pc
  BY <1>0 DEF ThreadsOK
<1>1. /\ calls.callbacks = 0
      /\ \/ th'["main"] = th["main"] /\ (clientMap' = clientMap \/ Register)
         \/ \E op \in ConsoleOps : Call(op)
         \/ Step("main") \/ JoinAccept
  BY MainSteps
<1>2. f \in Frames /\ f.i \in Nat \ {0} /\ f.ty \in UnitTypes /\ clientMap[f.ty] \in Seq(Units)
  BY <1>0 DEF Frames, RegistryOK
<1>3. f.op = "sendToAll" => Reaches(pc, f)
  BY <1>1, <1>f DEF ReachInv
<1>4. \A c \in Registered' : c \in Registered \/ ~Past(c)
  <2>1. \A c \in Registered' : c \in Registered \/ (acc.pc = "register" /\ c = acc.who)
    BY RegisteredStep
  <2> QED
    BY <2>1 DEF Past, Shaking
<1>5. f.op = "sendToAll" => \A c \in f.want : Past(c)
  BY <1>0, <1>f DEF SendInv
<1>6. f.op = "sendToAll" => \A c \in f.want \cap Registered' : c \in Registered
  BY <1>4, <1>5
\* The console thread stands still.
<1>7. CASE th'["main"] = th["main"] /\ (clientMap' = clientMap \/ Register)
  <2>1. f.op = "sendToAll"
    BY <1>7, <1>f
  <2>2. /\ \A c : Ahead(f, c) => Ahead(f, c)'
        /\ \A c : Here(f, c) => Here(f, c)'
    <3>1. CASE clientMap' = clientMap
      BY <3>1 DEF Ahead, Here
    <3>2. CASE Register
      BY <3>2, <1>0, <1>2, RegisterWalk
    <3> QED
      BY <1>7, <3>1, <3>2
  <2>3. Reaches(pc, f)
    BY <2>1, <1>3
  <2>4. /\ pc # "ret" => \A c \in f.want \cap Registered' : c \in f.sent \/ Ahead(f, c)'
        /\ pc = "ret" => f.want \cap Registered' \subseteq f.sent
        /\ pc \in {"send", "remove"} => Here(f, f.cur)'
        /\ pc \in {"join", "erase"} => Here(f, f.tgt)'
    BY <2>1, <2>2, <2>3, <1>6 DEF Reaches
  <2> QED
    BY <2>4, <1>7, <1>f DEF Reaches, Ahead, Here
\* The console thread moves without touching the lists.
<1>8. ASSUME NEW p \in PCs, NEW g \in Frames, Goto("main", p, g), clientMap' = clientMap,
             Reaches(p, g)
      PROVE  Reaches(th["main"].pc, th["main"].f)'
  <2>1. th'["main"].pc = p /\ th'["main"].f = g
    BY <1>8, <1>0, ThreadFacts
  <2>2. Registered' = Registered
    BY <1>8, RegisteredFacts
  <2> QED
    BY <2>1, <2>2, <1>8 DEF Reaches, Ahead, Here
<1>9. ASSUME NEW p, NEW g, Goto("main", p, g) PROVE g.op = "sendToAll"
  BY <1>9, <1>0, ThreadFacts
<1>10. CASE \E op \in ConsoleOps : Call(op)
  <2>1. PICK op \in ConsoleOps : Call(op)
    BY <1>10
  <2>2. Enter("main", op) /\ op \in Ops /\ clientMap' = clientMap
    BY <2>1 DEF Call, maps
  <2>3. PICK p \in {"next", "send"}, g \in Frames : Goto("main", p, g) /\ EnterFrame(p, g, op)
    BY <2>2, <1>0, EnterFacts
  <2>4. g.op = "sendToAll"
    BY <2>3, <1>9
  <2>5. p = "next" /\ g.ty = First /\ g.i = 1 /\ g.want = Registered
    BY <2>3, <2>4 DEF EnterFrame
  <2>6. ASSUME NEW c \in Registered PROVE Ahead(g, c)
    <3>1. PICK ty \in UnitTypes : \E j \in DOMAIN clientMap[ty] : clientMap[ty][j] = c
      BY RegisteredFacts
    <3>2. PICK j \in DOMAIN clientMap[ty] : clientMap[ty][j] = c
      BY <3>1
    <3>3. TypeOf[c] = ty /\ First <= ty /\ First \in UnitTypes
      BY <3>2, <1>0, Keys DEF Ordered
    <3>4. First \in Nat /\ ty \in Nat
      BY <3>3
    <3>5. j >= 1
      BY <3>2, <1>0 DEF RegistryOK
    <3> QED
      BY <2>5, <3>2, <3>3, <3>4, <3>5 DEF Ahead
  <2>7. Reaches(p, g)
    BY <2>5, <2>6 DEF Reaches
  <2> QED
    BY <2>2, <2>3, <2>7, <1>8, <1>0
<1>11. CASE JoinAccept
  <2>1. th["main"].pc = "stop" /\ Goto("main", "ret", th["main"].f)
    BY <1>11 DEF JoinAccept
  <2> QED
    BY <2>1, <1>0, <1>9 DEF SendInv
<1>12. CASE Step("main")
  <2>0. f.op = "sendToAll"
    <3>1. \/ th' = th
          \/ \E p \in PCs, g \in Frames :
                    /\ Goto("main", p, g) /\ p # "ended"
                    /\ \/ p \in {"idle", "loop"} /\ g = NoFrame
                       \/ p \notin {"idle", "loop", "none"} /\ Continues(th["main"].f, p, g)
      BY <1>12, <1>0, StepFrame
    <3> QED
      BY <3>1, <1>f, <1>9, NoFrameType DEF Continues
  <2>1. Reaches(pc, f)
    BY <2>0, <1>3
  <2>2. CASE VisitAll("main")
    <3> DEFINE g == [f EXCEPT !.cur = clientMap[f.ty][f.i]]
    <3>1. /\ Goto("main", "send", g) /\ pc = "next" /\ clientMap' = clientMap
          /\ f.i \in DOMAIN clientMap[f.ty]
      BY <2>2, <2>0, <1>2, <1>f DEF VisitAll, maps
    <3>2. clientMap[f.ty][f.i] \in Units
      BY <3>1, <1>2
    <3>3. /\ g \in Frames /\ g.ty = f.ty /\ g.i = f.i /\ g.want = f.want /\ g.sent = f.sent
          /\ g.cur = clientMap[f.ty][f.i]
      BY <3>2, <1>2 DEF Frames
    <3> HIDE DEF g
    <3>4. Reaches("send", g)
      BY <2>1, <3>1, <3>3 DEF Reaches, Ahead, Here
    <3> QED
      BY <3>1, <3>3, <3>4, <1>8, <1>0
  <2>3. CASE EndOfType("main")
    <3>1. /\ pc = "next" /\ clientMap' = clientMap /\ f.i > Len(clientMap[f.ty])
          /\ \/ f.ty # Last /\ Goto("main", "next", [f EXCEPT !.ty = After(f.ty), !.i = 1])
             \/ f.ty = Last /\ Goto("main", "ret", f)
      BY <2>3, <2>0, <1>f DEF EndOfType
    <3>2. CASE f.ty = Last /\ Goto("main", "ret", f)
      <4>1. \A c \in Registered : ~Ahead(f, c)
        BY <3>1, <3>2, <1>0, <1>2, WalkNext
      <4>2. Reaches("ret", f)
        BY <2>1, <3>1, <4>1 DEF Reaches
      <4> QED
        BY <3>1, <3>2, <4>2, <1>0, <1>2, <1>8
    <3>3. CASE f.ty # Last /\ Goto("main", "next", [f EXCEPT !.ty = After(f.ty), !.i = 1])
      <4> DEFINE g == [f EXCEPT !.ty = After(f.ty), !.i = 1]
      <4>0. After(f.ty) \in UnitTypes
        BY <3>3, <1>2, Keys
      <4>1. /\ g \in Frames /\ g.ty = After(f.ty) /\ g.i = 1
            /\ g.want = f.want /\ g.sent = f.sent
        <5>1. 1 \in Nat \ {0}
          OBVIOUS
        <5> QED
          BY <4>0, <5>1, <1>2 DEF Frames
      <4>2. Goto("main", "next", g)
        BY <3>3
      <4> HIDE DEF g
      <4>3. \A c \in Registered : Ahead(f, c) <=> Ahead(g, c)
        BY <3>1, <3>3, <4>1, <1>0, <1>2, WalkNext
      <4>4. Reaches("next", g)
        BY <2>1, <3>1, <4>1, <4>3 DEF Reaches
      <4> QED
        BY <3>1, <4>1, <4>2, <4>4, <1>0, <1>8
    <3> QED
      BY <3>1, <3>2, <3>3
  <2>4. CASE Send("main")
    <3> DEFINE g == [f EXCEPT !.i = @ + 1, !.sent = @ \cup {f.cur}]
    <3>1. /\ pc = "send" /\ clientMap' = clientMap /\ f.cur \in Units
          /\ Goto("main", "next", g) \/ Goto("main", "remove", f)
      BY <2>4, <2>0, <1>f, <1>0 DEF Send, Continue, maps, ThreadsOK
    <3>2. f.i + 1 \in Nat \ {0} /\ f.sent \cup {f.cur} \in SUBSET Units
      BY <3>1, <1>2 DEF Frames
    <3>3. /\ g \in Frames /\ g.ty = f.ty /\ g.i = f.i + 1 /\ g.want = f.want
          /\ g.sent = f.sent \cup {f.cur}
      BY <3>2, <1>2 DEF Frames
    <3> HIDE DEF g
    <3>4. Here(f, f.cur)
      BY <2>1, <3>1 DEF Reaches
    <3>5. \A d : Ahead(f, d) => d = f.cur \/ Ahead(g, d)
      BY <3>3, <3>4, <1>0, <1>2, WalkOn
    <3>6. Reaches("next", g) /\ Reaches("remove", f)
      BY <2>1, <3>1, <3>3, <3>4, <3>5 DEF Reaches
    <3> QED
      BY <3>1, <3>3, <3>6, <1>0, <1>2, <1>8
  <2>5. CASE RemoveClient("main")
    <3>1. /\ pc = "remove" /\ clientMap' = clientMap
          /\ Goto("main", "next", f) \/ Goto("main", "join", [f EXCEPT !.tgt = f.cur])
      BY <2>5, <2>0, <1>f DEF RemoveClient, Retry, Targets, ByHandle
    <3>2. Here(f, f.cur) /\ f.cur \in Units
      BY <2>1, <3>1, <1>2, <1>f, <1>0 DEF Reaches, ThreadsOK
    <3>3. Reaches("next", f)
      BY <2>1, <3>1 DEF Reaches
    <3>4. CASE Goto("main", "next", f)
      BY <3>1, <3>3, <3>4, <1>0, <1>2, <1>8
    <3>5. CASE Goto("main", "join", [f EXCEPT !.tgt = f.cur])
      <4> DEFINE g == [f EXCEPT !.tgt = f.cur]
      <4>1. /\ g \in Frames /\ g.ty = f.ty /\ g.i = f.i /\ g.want = f.want
            /\ g.sent = f.sent /\ g.tgt = f.cur
        BY <3>2, <1>2 DEF Frames
      <4>2. Goto("main", "join", g)
        BY <3>5
      <4> HIDE DEF g
      <4>3. Reaches("join", g)
        BY <2>1, <3>1, <3>2, <4>1 DEF Reaches, Ahead, Here
      <4> QED
        BY <3>1, <4>1, <4>2, <4>3, <1>0, <1>8
    <3> QED
      BY <3>1, <3>4, <3>5
  <2>6. CASE Join("main")
    <3>1. /\ pc = "join" /\ clientMap' = clientMap
          /\ th' = th \/ Goto("main", "erase", f)
      BY <2>6, <2>0, <1>f DEF Join, maps
    <3>2. Reaches("erase", f)
      BY <2>1, <3>1 DEF Reaches
    <3> QED
      BY <3>1, <3>2, <1>0, <1>2, <1>7, <1>8
  <2>7. CASE Erase("main")
    <3> DEFINE e == [f EXCEPT !.tgt = None]
    <3>1. /\ pc = "erase" /\ f.tgt \in Units /\ Retry("main", e)
          /\ clientMap' = [clientMap EXCEPT ![TypeOf[f.tgt]] = Without(@, f.tgt)]
      BY <2>7, <1>f, <1>0 DEF Erase, ThreadsOK
    <3>2. /\ e \in Frames /\ e.ty = f.ty /\ e.i = f.i /\ e.want = f.want
          /\ e.sent = f.sent /\ e.op = f.op
      BY <1>2 DEF Frames
    <3> HIDE DEF e
    <3>3. Goto("main", "next", e)
      BY <3>1, <3>2, <2>0 DEF Retry
    <3>4. \A d : Ahead(f, d) => d = f.tgt \/ Ahead(f, d)'
      <4>1. Here(f, f.tgt)
        BY <2>1, <3>1 DEF Reaches
      <4> QED
        BY <3>1, <4>1, <1>0, <1>2, EraseWalk
    <3>5. Registered' = Registered \ {f.tgt}
      BY <3>1, <1>0, EraseLists
    <3>6. th'["main"].pc = "next" /\ th'["main"].f = e
      BY <3>3, <1>0, ThreadFacts
    <3>7. \A c \in f.want \cap Registered' : c \in f.sent \/ Ahead(f, c)'
      BY <2>1, <3>1, <3>4, <3>5 DEF Reaches
    <3>8. \A c : Ahead(f, c)' => Ahead(e, c)'
      BY <3>2 DEF Ahead
    <3> QED
      BY <3>2, <3>6, <3>7, <3>8 DEF Reaches
  <2>8. CASE Return("main")
    <3>1. clientMap' = clientMap /\ (th' = th \/ Goto("main", "idle", NoFrame))
      BY <2>8 DEF Return, maps, Home, Goto
    <3> QED
      BY <3>1, <1>7, <1>9, NoFrameType
  <2>9. CASE VisitCopy("main") \/ VisitAny("main") \/ VisitReroute("main") \/ Release("main")
    <3>1. th["main"].pc = "release" => f.op = "closeConnection"
      BY <1>0, <1>f DEF ControlInv
    <3> QED
      BY <2>9, <2>0, <3>1, <1>f DEF VisitCopy, VisitAny, VisitReroute, Release
  <2> QED
    BY <1>12, <2>2, <2>3, <2>4, <2>5, <2>6, <2>7, <2>8, <2>9 DEF Step
<1> QED
  BY <1>1, <1>7, <1>10, <1>11, <1>12

\* The invariant behind the calls of the console thread.
CallInv == RegistryInv /\ CalmInv /\ SendInv /\ ReachInv

\* CallInv holds in every state.
LEMMA CallHolds == Spec => []CallInv
<1>1. Init => CalmInv /\ SendInv /\ ReachInv
  <2> SUFFICES ASSUME Init PROVE CalmInv /\ SendInv /\ ReachInv
    OBVIOUS
  <2>1. \A t \in Threads : /\ th[t].pc \in {"idle", "none"} /\ th[t].f.op = "none"
                           /\ t # "main" => th[t].pc = "none"
    BY NoFrameType DEF Init, Home, At
  <2>2. "main" \in Threads /\ \A u \in Units : u \in Threads /\ u # "main"
    BY ServerAssumption DEF Threads
  <2> QED
    BY <2>1, <2>2 DEF CalmInv, SendInv, ReachInv
<1>2. CallInv /\ Next => CalmInv' /\ SendInv' /\ ReachInv'
  BY CalmStep, SendStep, ReachStep DEF CallInv, RegistryInv
<1>3. CallInv /\ UNCHANGED vars => CalmInv' /\ SendInv' /\ ReachInv'
  <2> SUFFICES ASSUME CallInv, UNCHANGED vars PROVE CalmInv' /\ SendInv' /\ ReachInv'
    OBVIOUS
  <2>1. /\ unit' = unit /\ info' = info /\ clientMap' = clientMap /\ acc' = acc /\ th' = th
        /\ calls' = calls
    BY DEF vars, maps
  <2>2. Registered' = Registered
    BY <2>1, RegisteredFacts
  <2> QED
    BY <2>1, <2>2 DEF CallInv, CalmInv, SendInv, ReachInv, Reaches, Ahead, Here, Past
<1> QED
  BY <1>1, <1>2, <1>3, RegistryInductive, PTL DEF Spec, CallInv

\* A send that returns has kept its promise.  sendToAll, as long as no callback
\* calls the server, has sent to every client it was called for that is still
\* registered, however many it removed on its way.  sendToAnyOfType, whatever
\* the other threads do, gives up only when no such client is left.
THEOREM SendsArriveHolds == Spec => []SendsArrive
<1>1. CallInv => SendsArrive
  <2> SUFFICES ASSUME CallInv, NEW t \in Threads, th[t].pc = "ret"
               PROVE  LET f == th[t].f
                          left == f.want \cap (Registered \ Removing) IN
                      /\ f.op = "sendToAll" /\ calls.callbacks = 0 => left \subseteq f.sent
                      /\ f.op = "sendToAnyOfType" /\ f.sent = {} => left = {}
    BY DEF SendsArrive
  <2>1. calls.callbacks = 0 => t = "main"
    BY DEF CallInv, CalmInv, Threads
  <2>2. th[t].f.op = "sendToAll" /\ calls.callbacks = 0 =>
           th[t].f.want \cap Registered \subseteq th[t].f.sent
    BY <2>1 DEF CallInv, ReachInv, Reaches
  <2>3. th[t].f.op = "sendToAnyOfType" /\ th[t].f.sent = {} =>
           th[t].f.want \cap Registered = {}
    BY DEF CallInv, SendInv
  <2> QED
    BY <2>2, <2>3
<1> QED
  BY <1>1, CallHolds, PTL

-----------------------------------------------------------------------------
(* Freed memory. *)

\* The console thread at place pc with frame f: what it is about to use is alive,
\* unless sendToAllOfType has already met it, freed, in its copy of the list.
Walks(pc, f) ==
    /\ f.op \in ConsoleOps \cup {"none"}
    /\ f.op # "closeConnection" /\ pc = "join" => info[f.tgt].mem = "alive"
    /\ f.op \notin {"closeConnection", "sendToAllOfType"} /\ pc \in {"send", "remove"} =>
          f.cur \in Registered
    /\ f.op = "sendToAllOfType" =>
          /\ \A j \in DOMAIN f.vec : Past(f.vec[j])
          /\ pc \in {"send", "remove"} =>
                Past(f.cur) /\ (info[f.cur].mem = "freed" => "copy" \in fault)
    /\ f.op = "closeConnection" =>
          /\ pc \in {"next", "release", "join"} =>
                \A c \in Registered : Ahead(f, c) => info[c].mem = "alive"
          /\ pc = "release" => Here(f, f.cur)
          /\ pc = "join" => Here(f, f.tgt)

\* Until a callback makes a call: besides the walks, the client in its handshake
\* is alive, and a receiver in its loop has a freed ClientInfo only if it was
\* freed before the receiver was started.
Shakes == acc.pc \in {"check", "collide", "register"} => info[acc.who].mem = "alive"
Loops == \A u \in Units : info[u].mem = "freed" /\ th[u].pc = "loop" => "spawn" \in fault
Faults ==
    /\ fault \subseteq {"spawn", "recv", "copy", "send", "remove"}
    /\ "recv" \in fault => "spawn" \in fault
    /\ "send" \in fault \/ "remove" \in fault => "copy" \in fault
FaultInv ==
    calls.callbacks = 0 =>
       Walks(th["main"].pc, th["main"].f) /\ Shakes /\ Loops /\ Faults

\* Outside removeClient and closeConnection every registered client is alive.
LEMMA AllAlive ==
    ASSUME RegistryInv, CalmInv, calls.callbacks = 0, ~globalAbort,
           th["main"].pc \notin {"join", "erase"}
    PROVE  \A c \in Registered : info[c].mem = "alive"
<1>1. \A t \in Threads : th[t].pc \notin {"join", "erase"}
  BY DEF CalmInv, Threads
<1>2. Removing = {}
  BY <1>1, RemovingFacts
<1> QED
  BY <1>2 DEF RegistryInv, MapInv, Agree

\* The steps of the other threads.
LEMMA FaultOthers ==
    ASSUME RegistryInv, CalmInv, calls.callbacks = 0, calls' = calls, FaultInv, Next,
           \/ \E u \in Units : Accept(u) \/ Disconnect(u) \/ StopReceiving(u)
           \/ \E a \in Answers, n \in Uuids : Hello(a, n)
           \/ ProbeUuid \/ \E n \in Uuids : Collide(n)
           \/ Register \/ Spawn \/ StopAccepting \/ Crash
    PROVE  FaultInv'
<1> USE ServerAssumption
<1>0. /\ TypeOK /\ ListsInv /\ Ordered /\ ThreadsOK /\ RegistryOK /\ AcceptOK
      /\ "main" \in Threads /\ "main" \notin Units /\ Units \subseteq Threads
      /\ Registered \subseteq Units
  BY TypeParts, RegisteredUnits DEF RegistryInv, ListsInv, Threads
<1>f. PICK f \in Frames, pc \in PCs : th["main"].f = f /\ th["main"].pc = pc
  BY <1>0 DEF ThreadsOK
<1>1. Walks(pc, f) /\ Shakes /\ Loops /\ Faults
  BY <1>f DEF FaultInv
<1>a. info \in [Units -> Infos]
  BY <1>0 DEF RegistryOK
<1>b. acc.pc \notin {"accept", "stopped"} =>
         /\ acc.who \in Units /\ acc.handle \in Handles /\ th[acc.who].pc = "none"
  BY <1>0 DEF AcceptOK, ListsInv
<1>c. /\ \A c \in Registered : Past(c)
      /\ pc = "join" /\ f.op # "closeConnection" => Past(f.tgt) /\ f.tgt \in Units
      /\ pc \in {"send", "remove"} => f.cur \in Units
      /\ f.vec \in Seq(Units)
  BY <1>0, <1>f DEF ListsInv, ThreadsOK, Frames
<1>d. \A c \in Units : Past(c) => Past(c)'
  BY <1>0, PastStep
\* The console thread stands still.
<1>2. ASSUME th'["main"] = th["main"], clientMap' = clientMap \/ Register,
             fault \subseteq fault',
             \A c \in Units : Past(c) => info'[c].mem = info[c].mem
      PROVE  Walks(th["main"].pc, th["main"].f)'
  <2>1. /\ \A c \in Registered : c \in Registered'
        /\ \A c : Here(f, c) => Here(f, c)'
        /\ \A c \in Registered' : Ahead(f, c)' =>
              \/ c \in Registered /\ Ahead(f, c)
              \/ Register /\ c = acc.who
    <3>1. CASE clientMap' = clientMap
      <4>1. Registered' = Registered
        BY <3>1, RegisteredFacts
      <4> QED
        BY <3>1, <4>1 DEF Ahead, Here
    <3>2. CASE Register
      <4>1. acc.who \notin Registered
        BY <3>2, <1>0 DEF Register, ListsInv, Past, Shaking
      <4>2. Registered' = Registered \cup {acc.who}
        BY <3>2, <4>1, <1>0, RegisterLists
      <4> QED
        BY <3>2, <4>2, <1>0, RegisterWalk
    <3> QED
      BY <1>2, <3>1, <3>2
  <2>2. Register => info'[acc.who].mem = "alive"
    <3> SUFFICES ASSUME Register PROVE info'[acc.who].mem = "alive"
      OBVIOUS
    <3>1. /\ acc.who \in Units /\ info[acc.who].mem = "alive"
          /\ info' = [info EXCEPT ![acc.who].uuid = acc.uuid]
      BY <1>1, <1>b DEF Register, Shakes
    <3> QED
      BY <3>1, <1>a DEF Infos
  <2>3. /\ f.op \in ConsoleOps \cup {"none"}
        /\ f.op # "closeConnection" /\ pc = "join" => info'[f.tgt].mem = "alive"
        /\ f.op \notin {"closeConnection", "sendToAllOfType"} /\ pc \in {"send", "remove"} =>
              f.cur \in Registered'
    BY <2>1, <1>1, <1>2, <1>c DEF Walks
  <2>5. ASSUME f.op = "sendToAllOfType"
        PROVE  /\ \A j \in DOMAIN f.vec : Past(f.vec[j])'
               /\ pc \in {"send", "remove"} =>
                     Past(f.cur)' /\ (info'[f.cur].mem = "freed" => "copy" \in fault')
    BY <2>5, <1>1, <1>2, <1>c, <1>d DEF Walks
  <2>4. ASSUME f.op = "closeConnection"
        PROVE  /\ pc \in {"next", "release", "join"} =>
                     \A c \in Registered' : Ahead(f, c)' => info'[c].mem = "alive"
               /\ pc = "release" => Here(f, f.cur)'
               /\ pc = "join" => Here(f, f.tgt)'
    BY <2>1, <2>2, <2>4, <1>0, <1>1, <1>2, <1>c DEF Walks
  <2> QED
    BY <2>3, <2>4, <2>5, <1>2, <1>f DEF Walks, Ahead, Here, Past
<1>3. CASE \E u \in Units : Accept(u) \/ Disconnect(u)
  <2>1. /\ th' = th /\ clientMap' = clientMap /\ info' = info /\ fault' = fault
        /\ acc' = acc \/ acc'.pc = "hello"
    BY <1>3 DEF Accept, Disconnect, maps
  <2> QED
    BY <2>1, <1>1, <1>2 DEF FaultInv, Shakes, Loops, Faults
<1>4. ASSUME NEW u \in Units, StopReceiving(u) PROVE FaultInv'
  <2>1. /\ th[u].pc = "loop" /\ Goto(u, "ended", NoFrame)
        /\ info' = info \/ info' = [info EXCEPT ![u].abort = TRUE]
        /\ clientMap' = clientMap /\ acc' = acc
        /\ fault' = IF info[u].mem = "freed" THEN fault \cup {"recv"} ELSE fault
    BY <1>4 DEF StopReceiving, Deref, maps
  <2>2. \A x \in Units : info'[x].mem = info[x].mem
    BY <2>1, <1>a, InfoAbort
  <2>3. th'["main"] = th["main"] /\ \A x \in Units : x # u => th'[x] = th[x]
    BY <2>1, <1>0, ThreadFacts
  <2>4. th'[u].pc = "ended"
    BY <2>1, <1>0, ThreadFacts
  <2>5. Walks(th["main"].pc, th["main"].f)'
    BY <2>1, <2>2, <2>3, <1>2
  <2>6. Shakes'
    BY <2>1, <2>2, <1>1, <1>b DEF Shakes
  <2>7. Loops'
    BY <2>1, <2>2, <2>3, <2>4, <1>1 DEF Loops
  <2>8. Faults'
    BY <2>1, <1>1 DEF Loops, Faults
  <2> QED
    BY <2>5, <2>6, <2>7, <2>8 DEF FaultInv
<1>5. ASSUME NEW a \in Answers, NEW n \in Uuids, Hello(a, n) PROVE FaultInv'
  <2>1. /\ acc.pc = "hello" /\ clientMap' = clientMap /\ th' = th /\ fault' = fault
        /\ acc.who \in Units
    BY <1>5, <1>b DEF Hello, maps
  <2>2. /\ \A x \in Units : x # acc.who => info'[x] = info[x]
        /\ info'[acc.who].mem \in {info[acc.who].mem, "alive"}
    <3>1. CASE info' = info
      BY <3>1
    <3>2. CASE info' = [info EXCEPT ![acc.who] =
                          [@ EXCEPT !.mem = "alive", !.handle = acc.handle]]
      BY <3>2, <2>1, <1>a DEF Infos
    <3> QED
      BY <1>5, <3>1, <3>2 DEF Hello
  <2>3. Shakes'
    <3>1. \/ acc'.pc \notin {"check", "collide", "register"}
          \/ acc'.who = acc.who /\ info'[acc.who].mem = "alive"
      <4>1. CASE a \in {"silent", "garbage"}
        <5>1. Backlog
          BY <1>5, <4>1 DEF Hello
        <5>2. acc'.pc = "accept"
          BY <5>1 DEF Backlog
        <5> QED
          BY <5>2
      <4>3. CASE a = "short"
        BY <1>5, <2>1, <4>3 DEF Hello
      <4>2. CASE a \notin {"silent", "garbage", "short"}
        <5>1. /\ info' = [info EXCEPT ![acc.who] =
                            [@ EXCEPT !.mem = "alive", !.handle = acc.handle]]
              /\ acc' = [acc EXCEPT !.pc = "check", !.uuid = n]
          BY <1>5, <4>2 DEF Hello
        <5>2. acc'.who = acc.who
          BY <5>1, <1>0 DEF AcceptOK
        <5>3. info'[acc.who].mem = "alive"
          BY <5>1, <2>1, <1>a DEF Infos
        <5> QED
          BY <5>2, <5>3
      <4> QED
        BY <4>1, <4>2, <4>3
    <3> QED
      BY <3>1 DEF Shakes
  <2>4. Walks(th["main"].pc, th["main"].f)'
    BY <2>1, <2>2, <1>2 DEF Past, Shaking
  <2>5. Loops' /\ Faults'
    BY <2>1, <2>2, <1>1, <1>b DEF Loops, Faults
  <2> QED
    BY <2>3, <2>4, <2>5 DEF FaultInv
<1>6. ASSUME ProbeUuid PROVE FaultInv'
  <2>1. /\ acc.pc = "check" /\ acc'.who = acc.who /\ th' = th /\ clientMap' = clientMap
        /\ info' = info /\ fault' = fault
    BY <1>6, <1>0 DEF ProbeUuid, maps, AcceptOK
  <2> QED
    BY <2>1, <1>1, <1>2 DEF FaultInv, Shakes, Loops, Faults
<1>7. ASSUME NEW n \in Uuids, Collide(n) PROVE FaultInv'
  <2>1. /\ acc.pc = "collide" /\ clientMap' = clientMap /\ th' = th /\ fault' = fault
        /\ acc.who \in Units /\ ~Past(acc.who)
    BY <1>7, <1>b DEF Collide, maps, Past, Shaking
  <2>2. CASE acc' = [acc EXCEPT !.pc = "check", !.uuid = n] /\ UNCHANGED <<fd, info>>
    <3>1. acc'.who = acc.who /\ info' = info
      BY <2>2, <1>0 DEF AcceptOK
    <3> QED
      BY <2>1, <3>1, <1>1, <1>2 DEF FaultInv, Shakes, Loops, Faults
  <2>3. CASE /\ info' = [info EXCEPT ![acc.who].mem = "freed", ![acc.who].abort = TRUE]
             /\ Backlog
    <3>1. acc'.pc = "accept" /\ \A x \in Units : x # acc.who => info'[x] = info[x]
      BY <2>1, <2>3, <1>a DEF Backlog
    <3>2. Walks(th["main"].pc, th["main"].f)'
      BY <2>1, <3>1, <1>2
    <3>3. Shakes' /\ Loops' /\ Faults'
      BY <2>1, <3>1, <1>1, <1>b DEF Shakes, Loops, Faults
    <3> QED
      BY <3>2, <3>3 DEF FaultInv
  <2> QED
    BY <1>7, <2>2, <2>3 DEF Collide
<1>8. ASSUME Register PROVE FaultInv'
  <2>1. /\ acc.pc = "register" /\ acc.who \in Units /\ acc'.pc = "spawn" /\ th' = th
        /\ info' = [info EXCEPT ![acc.who].uuid = acc.uuid] /\ fault' = fault
    BY <1>8, <1>0 DEF Register, AcceptOK
  <2>2. \A x \in Units : info'[x].mem = info[x].mem
    BY <2>1, <1>a DEF Infos
  <2>3. Walks(th["main"].pc, th["main"].f)'
    BY <2>1, <2>2, <1>2, <1>8
  <2> QED
    BY <2>1, <2>2, <2>3, <1>1 DEF FaultInv, Shakes, Loops, Faults
<1>9. ASSUME Spawn PROVE FaultInv'
  <2>1. /\ acc.pc = "spawn" /\ acc.who \in Units /\ acc'.pc = "accept"
        /\ clientMap' = clientMap
        /\ info' = [info EXCEPT ![acc.who].receiver = TRUE]
        /\ Goto(acc.who, "loop", NoFrame)
        /\ fault' = IF info[acc.who].mem = "freed" THEN fault \cup {"spawn"} ELSE fault
    BY <1>9, <1>b, <1>0 DEF Spawn, maps, Backlog, Goto, Home, Deref
  <2>2. \A x \in Units : info'[x].mem = info[x].mem
    <3>1. /\ \A x \in Units : x # acc.who => info'[x] = info[x]
          /\ info'[acc.who] = [info[acc.who] EXCEPT !.receiver = TRUE]
      BY <2>1, <1>a
    <3>2. info[acc.who] \in Infos
      BY <2>1, <1>a
    <3>3. info'[acc.who].mem = info[acc.who].mem
      BY <3>1, <3>2 DEF Infos
    <3> QED
      BY <3>1, <3>3
  <2>3. th'["main"] = th["main"] /\ \A x \in Units : x # acc.who => th'[x] = th[x]
    BY <2>1, <1>0, ThreadFacts
  <2>4. Walks(th["main"].pc, th["main"].f)'
    BY <2>1, <2>2, <2>3, <1>2
  <2>5. Shakes' /\ Loops' /\ Faults'
    BY <2>1, <2>2, <2>3, <1>1 DEF Shakes, Loops, Faults
  <2> QED
    BY <2>4, <2>5 DEF FaultInv
<1>10. CASE StopAccepting \/ Crash
  <2>1. /\ th' = th /\ clientMap' = clientMap /\ info' = info /\ fault' = fault
        /\ acc' = acc \/ acc'.pc = "stopped"
    BY <1>10, <1>0 DEF StopAccepting, Crash, maps, AcceptOK
  <2> QED
    BY <2>1, <1>1, <1>2 DEF FaultInv, Shakes, Loops, Faults
<1> QED
  BY <1>3, <1>4, <1>5, <1>6, <1>7, <1>8, <1>9, <1>10

\* The steps of the console thread.
LEMMA FaultMain ==
    ASSUME RegistryInv, CalmInv, SendInv, calls.callbacks = 0, calls'.callbacks = 0,
           FaultInv, (\E op \in ConsoleOps : Call(op)) \/ Step("main") \/ JoinAccept
    PROVE  FaultInv'
<1> USE ServerAssumption
<1>0. /\ TypeOK /\ ControlInv /\ ListsInv /\ Ordered /\ ThreadsOK /\ RegistryOK /\ AcceptOK
      /\ "main" \in Threads /\ "main" \notin Units /\ Units \subseteq Threads
      /\ Registered \subseteq Units
      /\ {"next", "ret", "send", "remove", "release", "stop", "idle", "join", "erase"}
            \subseteq PCs
  BY TypeParts, RegisteredUnits DEF RegistryInv, ListsInv, Threads, PCs
<1>f. PICK f \in Frames, pc \in PCs : th["main"].f = f /\ th["main"].pc = pc
  BY <1>0 DEF ThreadsOK
<1>1. Walks(pc, f) /\ Shakes /\ Loops /\ Faults
  BY <1>f DEF FaultInv
<1>2. f.i \in Nat \ {0} /\ f.ty \in UnitTypes /\ clientMap[f.ty] \in Seq(Units)
  BY <1>0 DEF Frames, RegistryOK
<1>a. info \in [Units -> Infos]
  BY <1>0 DEF RegistryOK
<1>b. f.op # "closeConnection" /\ pc \notin {"join", "erase"} =>
         \A c \in Registered : info[c].mem = "alive"
  BY <1>f, AllAlive DEF globalAbort
<1>c. f.op = "closeConnection" => pc \in {"next", "release", "join", "stop", "ret"}
  BY <1>0, <1>f DEF ControlInv
<1>g. \A c \in Registered : Past(c)
  BY <1>0 DEF ListsInv
<1>h. unit' = unit
  BY <1>0, StepFrame DEF Call, JoinAccept
\* The console thread goes to place p with frame g and uses nothing freed that
\* sendToAllOfType has not met in its copy.
<1>3. ASSUME NEW p \in PCs, NEW g \in Frames, Goto("main", p, g), acc' = acc,
             \/ fault' = fault
             \/ /\ "copy" \in fault'
                /\ \E x \in {"copy", "send", "remove"} : fault' = fault \cup {x},
             Walks(p, g)',
             \A u \in Units : \/ info'[u].mem = info[u].mem
                              \/ (Past(u) \/ acc.pc \notin Shaking) /\ th[u].pc # "loop"
      PROVE  FaultInv'
  <2>1. /\ th'["main"].pc = p /\ th'["main"].f = g
        /\ \A u \in Units : th'[u] = th[u]
    BY <1>3, <1>0, ThreadFacts
  <2>2. Walks(th["main"].pc, th["main"].f)'
    BY <2>1, <1>3 DEF Walks, Ahead, Here, Past
  <2>3. Loops' /\ Faults'
    BY <2>1, <1>1, <1>3 DEF Loops, Faults
  <2>4. Shakes'
    BY <1>0, <1>1, <1>3 DEF Shakes, AcceptOK, Past, Shaking
  <2> QED
    BY <2>2, <2>3, <2>4 DEF FaultInv
\* It does so without touching the registry.
<1>4. ASSUME NEW p \in PCs, NEW g \in Frames, Goto("main", p, g), acc' = acc, fault' = fault,
             clientMap' = clientMap, \A u \in Units : info'[u].mem = info[u].mem,
             Walks(p, g), g.op # "closeConnection" /\ p = "join" => g.tgt \in Units,
             g.op = "sendToAllOfType" /\ p \in {"send", "remove"} => g.cur \in Units
      PROVE  FaultInv'
  <2>1. Registered' = Registered
    BY <1>4, RegisteredFacts
  <2>2. Walks(p, g)'
    BY <2>1, <1>0, <1>4, <1>h DEF Walks, Ahead, Here, Past
  <2> QED
    BY <2>2, <1>3, <1>4
<1>5. CASE \E op \in ConsoleOps : Call(op)
  <2>1. PICK op \in ConsoleOps : Call(op)
    BY <1>5
  <2>2. /\ Enter("main", op) /\ op \in Ops /\ clientMap' = clientMap /\ info' = info
        /\ acc' = acc /\ fault' = fault /\ pc = "idle"
    BY <2>1, <1>f DEF Call, maps
  <2>3. PICK p \in {"next", "send"}, g \in Frames : Goto("main", p, g) /\ EnterFrame(p, g, op)
    BY <2>2, <1>0, EnterFacts
  <2>4. f.op # "closeConnection"
    BY <2>2, <1>c
  <2>5. g.op = op /\ (p = "send" => \E n \in Uuids : clientUuidMap[n] = g.cur /\ g.cur \in Units)
    BY <2>3 DEF EnterFrame
  <2>6. p = "send" => g.cur \in Registered /\ g.op # "closeConnection"
    BY <2>3, <2>4, <2>5, <1>f DEF RegistryInv, MapInv, Agree, globalAbort, EnterFrame
  <2>8. op = "sendToAllOfType" => p = "next" /\ \A j \in DOMAIN g.vec : Past(g.vec[j])
    <3>1. op = "sendToAllOfType" =>
             p = "next" /\ g.ty \in UnitTypes /\ g.vec = clientMap[g.ty]
      BY <2>3 DEF EnterFrame
    <3> QED
      BY <3>1, <1>g, RegisteredFacts
  <2>7. Walks(p, g)
    BY <2>2, <2>3, <2>4, <2>5, <2>6, <2>8, <1>b DEF Walks
  <2> QED
    BY <2>2, <2>3, <2>5, <2>7, <2>8, <1>0, <1>4
<1>6. CASE JoinAccept
  <2>1. /\ pc = "stop" /\ Goto("main", "ret", f) /\ acc' = acc /\ fault' = fault
        /\ clientMap' = clientMap /\ info' = info
    BY <1>6, <1>f DEF JoinAccept, maps
  <2>2. f.op = "closeConnection"
    BY <2>1, <1>f, <1>0 DEF SendInv
  <2>3. Walks("ret", f)
    BY <2>2, <1>1 DEF Walks
  <2> QED
    BY <2>1, <2>3, <1>0, <1>4
<1>7. CASE VisitAll("main")
  <2> DEFINE c == clientMap[f.ty][f.i]
             g == [f EXCEPT !.cur = c]
             e == [f EXCEPT !.i = @ + 1]
  <2>1. /\ pc = "next" /\ f.i \in DOMAIN clientMap[f.ty]
        /\ clientMap' = clientMap /\ info' = info /\ acc' = acc
        /\ fault' = IF info[c].mem = "freed" THEN fault \cup {"walk"} ELSE fault
        /\ f.op \in {"sendToAll", "clear_aborted", "getUuidForUnitType", "closeConnection"}
        /\ \/ Goto("main", "next", e) /\ f.op # "closeConnection"
           \/ Goto("main", "remove", g) /\ f.op # "closeConnection"
           \/ Goto("main", "send", g) /\ f.op # "closeConnection"
           \/ Goto("main", "release", g) /\ f.op = "closeConnection"
    BY <1>7, <1>2, <1>f DEF VisitAll, maps, Deref
  <2>2. c \in Registered /\ c \in Units
    BY <2>1, <1>2, RegisteredFacts
  <2>3. info[c].mem = "alive"
    <3>1. CASE f.op # "closeConnection"
      BY <2>1, <2>2, <3>1, <1>b
    <3>2. CASE f.op = "closeConnection"
      <4>1. Ahead(f, c)
        <5>1. f.i >= f.i
          BY <1>2
        <5>2. \E j \in DOMAIN clientMap[f.ty] : j >= f.i /\ clientMap[f.ty][j] = c
          BY <2>1, <5>1
        <5> QED
          BY <5>2 DEF Ahead
      <4> QED
        BY <2>1, <2>2, <3>2, <4>1, <1>1 DEF Walks
    <3> QED
      BY <3>1, <3>2
  <2>4. fault' = fault
    BY <2>1, <2>3
  <2>5. f.i + 1 \in Nat \ {0}
    BY <1>2
  <2>6. /\ g \in Frames /\ g.op = f.op /\ g.cur = c /\ g.ty = f.ty /\ g.i = f.i
        /\ e \in Frames /\ e.op = f.op
    BY <2>2, <2>5 DEF Frames
  <2>7. Here(f, c)
    BY <2>1 DEF Here
  <2> HIDE DEF c, g, e
  <2>8. f.op # "closeConnection" =>
           Walks("next", e) /\ Walks("remove", g) /\ Walks("send", g)
    BY <2>1, <2>2, <2>6, <1>1 DEF Walks
  <2>9. f.op = "closeConnection" => Walks("release", g)
    BY <2>1, <2>6, <2>7, <1>1 DEF Walks, Ahead, Here
  <2> QED
    BY <2>1, <2>4, <2>6, <2>8, <2>9, <1>0, <1>4
<1>8. CASE EndOfType("main")
  <2> DEFINE g == [f EXCEPT !.ty = After(f.ty), !.i = 1]
  <2>1. /\ pc = "next" /\ f.i > Len(clientMap[f.ty]) /\ acc' = acc /\ info' = info
        /\ clientMap' = IF f.op = "closeConnection"
                        THEN [clientMap EXCEPT ![f.ty] = <<>>] ELSE clientMap
        /\ \/ f.ty # Last /\ Goto("main", "next", g)
           \/ f.ty = Last /\ f.op = "closeConnection" /\ Goto("main", "stop", f)
           \/ f.ty = Last /\ f.op # "closeConnection" /\ Goto("main", "ret", f)
        /\ f.op \in {"sendToAll", "clear_aborted", "getUuidForUnitType", "closeConnection"}
        /\ \/ fault' = fault
           \/ f.op = "getUuidForUnitType" /\ \E c \in Registered : info[c].mem = "freed"
    BY <1>8, <1>f DEF EndOfType
  <2>2. fault' = fault
    <3>1. f.op # "closeConnection" => \A c \in Registered : info[c].mem = "alive"
      BY <2>1, <1>b
    <3> QED
      BY <2>1, <3>1
  <2>3. f.ty # Last => g \in Frames /\ g.op = f.op /\ g.ty = After(f.ty) /\ g.i = 1
    <3>1. 1 \in Nat \ {0}
      OBVIOUS
    <3>2. f.ty # Last => After(f.ty) \in UnitTypes
      BY <1>2, Keys
    <3> QED
      BY <3>1, <3>2 DEF Frames
  <2> HIDE DEF g
  <2>4. CASE f.op # "closeConnection"
    <3>1. Walks("ret", f) /\ (f.ty # Last => Walks("next", g))
      BY <2>1, <2>3, <2>4, <1>1 DEF Walks
    <3> QED
      BY <2>1, <2>2, <2>3, <2>4, <3>1, <1>0, <1>4
  <2>5. CASE f.op = "closeConnection"
    <3>1. \A ty \in UnitTypes : clientMap'[ty] = IF ty = f.ty THEN <<>> ELSE clientMap[ty]
      BY <2>1, <2>5, <1>0 DEF RegistryOK
    <3>2. \A c \in Registered' : c \in Registered
      BY <3>1, RegisteredFacts
    <3>3. CASE f.ty = Last
      <4>1. Goto("main", "stop", f)
        BY <2>1, <2>5, <3>3
      <4>2. Walks("stop", f)'
        BY <2>5, <1>1 DEF Walks
      <4> QED
        BY <2>1, <2>2, <4>1, <4>2, <1>0, <1>3
    <3>4. CASE f.ty # Last
      <4>1. Goto("main", "next", g)
        BY <2>1, <3>4
      <4>2. \A c \in Registered : Ahead(g, c) => info[c].mem = "alive"
        <5>1. \A c \in Registered : Ahead(f, c) <=> Ahead(g, c)
          BY <2>1, <2>3, <3>4, <1>0, WalkNext
        <5>2. \A c \in Registered : Ahead(f, c) => info[c].mem = "alive"
          BY <2>1, <2>5, <1>1 DEF Walks
        <5> QED
          BY <5>1, <5>2
      <4>3. g.ty \in UnitTypes /\ g.ty # f.ty
        <5>1. After(f.ty) > f.ty /\ f.ty \in Nat /\ After(f.ty) \in UnitTypes
          BY <3>4, <1>2, Keys
        <5> QED
          BY <2>3, <3>4, <5>1
      <4>4. \A c : Ahead(g, c)' => Ahead(g, c)
        BY <3>1, <4>3 DEF Ahead
      <4>5. Walks("next", g)'
        BY <2>1, <2>3, <2>5, <3>2, <3>4, <4>2, <4>4, <1>1 DEF Walks
      <4> QED
        BY <2>1, <2>2, <2>3, <3>4, <4>1, <4>5, <1>0, <1>3
    <3> QED
      BY <3>3, <3>4
  <2> QED
    BY <2>4, <2>5
<1>9. CASE VisitAny("main")
  <2>1. /\ pc = "next" /\ f.op = "sendToAnyOfType" /\ clientMap' = clientMap
        /\ info' = info /\ acc' = acc
        /\ \/ Goto("main", "ret", f) /\ fault' = fault
           \/ \E c \in Members(f.ty) :
                 /\ Goto("main", "send", [f EXCEPT !.cur = c])
                 /\ fault' = fault \/ info[c].mem = "freed"
    BY <1>9, <1>f DEF VisitAny, maps, Deref
  <2>2. CASE Goto("main", "ret", f) /\ fault' = fault
    <3>1. Walks("ret", f)
      BY <2>1, <1>1 DEF Walks
    <3> QED
      BY <2>1, <2>2, <3>1, <1>0, <1>4
  <2>3. ASSUME NEW c \in Members(f.ty), Goto("main", "send", [f EXCEPT !.cur = c]),
               fault' = fault \/ info[c].mem = "freed"
        PROVE  FaultInv'
    <3> DEFINE g == [f EXCEPT !.cur = c]
    <3>1. c \in Registered /\ c \in Units
      BY <1>2, <1>0 DEF Registered
    <3>2. g \in Frames /\ g.op = f.op /\ g.cur = c
      BY <3>1 DEF Frames
    <3>3. fault' = fault /\ Goto("main", "send", g)
      BY <2>1, <2>3, <3>1, <1>b
    <3> HIDE DEF g
    <3>4. Walks("send", g)
      BY <2>1, <3>1, <3>2, <1>1 DEF Walks
    <3> QED
      BY <2>1, <3>2, <3>3, <3>4, <1>0, <1>4
  <2> QED
    BY <2>1, <2>2, <2>3
<1>10. CASE Send("main")
  <2> DEFINE g == [f EXCEPT !.i = @ + 1, !.sent = @ \cup {f.cur}]
             h == [f EXCEPT !.sent = {f.cur}]
  <2>1. /\ pc = "send" /\ f.cur \in Units /\ clientMap' = clientMap /\ info' = info
        /\ acc' = acc
        /\ fault' = IF info[f.cur].mem = "freed" THEN fault \cup {"send"} ELSE fault
        /\ Goto("main", "next", g) \/ Goto("main", "ret", h) \/ Goto("main", "remove", f)
    BY <1>10, <1>f, <1>0 DEF Send, Continue, maps, Deref, ThreadsOK
  <2>2. f.op # "closeConnection" /\ (f.op # "sendToAllOfType" => f.cur \in Registered)
    BY <2>1, <1>1, <1>c DEF Walks
  <2>3. fault' = fault \/ ("copy" \in fault /\ fault' = fault \cup {"send"})
    BY <2>1, <2>2, <1>1, <1>b DEF Walks
  <2>4. /\ g \in Frames /\ g.op = f.op /\ h \in Frames /\ h.op = f.op
        /\ g.vec = f.vec /\ h.vec = f.vec
    <3>1. f.i + 1 \in Nat \ {0} /\ f.sent \cup {f.cur} \in SUBSET Units
      BY <2>1, <1>2 DEF Frames
    <3> QED
      BY <3>1, <2>1 DEF Frames
  <2> HIDE DEF g, h
  <2>5. Walks("next", g) /\ Walks("ret", h) /\ Walks("remove", f)
    BY <2>1, <2>2, <2>4, <1>1 DEF Walks
  <2>6. Registered' = Registered
    BY <2>1, RegisteredFacts
  <2>7. Walks("next", g)' /\ Walks("ret", h)' /\ Walks("remove", f)'
    BY <2>1, <2>2, <2>3, <2>4, <2>5, <2>6, <1>h DEF Walks, Past
  <2> QED
    BY <2>1, <2>3, <2>4, <2>7, <1>0, <1>3
<1>11. CASE RemoveClient("main")
  <2>1. /\ pc = "remove" /\ f.cur \in Units /\ clientMap' = clientMap /\ acc' = acc
        /\ fault' = IF info[f.cur].mem = "freed" THEN fault \cup {"remove"} ELSE fault
        /\ \/ Retry("main", f) /\ info' = info
           \/ \E c \in Targets(f) : /\ info' = [info EXCEPT ![c].abort = TRUE]
                                    /\ Goto("main", "join", [f EXCEPT !.tgt = c])
    BY <1>11, <1>f, <1>0 DEF RemoveClient, Deref, ThreadsOK
  <2>2. f.op # "closeConnection" /\ (f.op # "sendToAllOfType" => f.cur \in Registered)
    BY <2>1, <1>1, <1>c DEF Walks
  <2>3. fault' = fault \/ ("copy" \in fault /\ fault' = fault \cup {"remove"})
    BY <2>1, <2>2, <1>1, <1>b DEF Walks
  <2>6. Registered' = Registered
    BY <2>1, RegisteredFacts
  <2>7. (\A j \in DOMAIN f.vec : Past(f.vec[j])') <=> \A j \in DOMAIN f.vec : Past(f.vec[j])
    BY <2>1, <1>h DEF Past
  <2>4. CASE Retry("main", f) /\ info' = info
    <3>1. PICK p \in {"next", "ret"}, g \in Frames :
             /\ Goto("main", p, g) /\ g.op = f.op
             /\ f.op # "rerouteToAnyOfType" => g = f
      BY <2>4, <1>0, RetryMoves
    <3>2. Walks(p, g)'
      BY <2>2, <2>7, <3>1, <1>1 DEF Walks
    <3> QED
      BY <2>1, <2>3, <2>4, <3>1, <3>2, <1>0, <1>3
  <2>5. ASSUME NEW c \in Targets(f), info' = [info EXCEPT ![c].abort = TRUE],
               Goto("main", "join", [f EXCEPT !.tgt = c])
        PROVE  FaultInv'
    <3> DEFINE g == [f EXCEPT !.tgt = c]
    <3>1. c \in Registered /\ c \in Units
      BY <1>2, <1>0 DEF Targets, Registered
    <3>2. g \in Frames /\ g.op = f.op /\ g.tgt = c /\ g.vec = f.vec
      BY <3>1 DEF Frames
    <3>3. \A x \in Units : info'[x].mem = info[x].mem
      BY <2>5, <3>1, <1>a, InfoAbort
    <3>4. Goto("main", "join", g)
      BY <2>5
    <3> HIDE DEF g
    <3>5. Walks("join", g)'
      BY <2>1, <2>2, <2>7, <3>1, <3>2, <3>3, <1>1, <1>b DEF Walks
    <3> QED
      BY <2>1, <2>3, <3>1, <3>2, <3>3, <3>4, <3>5, <1>0, <1>3
  <2> QED
    BY <2>1, <2>4, <2>5
<1>12. CASE Release("main")
  <2> DEFINE g == [f EXCEPT !.tgt = f.cur]
  <2>1. /\ pc = "release" /\ f.cur \in Units /\ clientMap' = clientMap /\ acc' = acc
        /\ fault' = fault /\ info' = [info EXCEPT ![f.cur].abort = TRUE]
        /\ Goto("main", "join", g) /\ f.op = "closeConnection"
    BY <1>12, <1>f, <1>0 DEF Release, maps, ThreadsOK, ControlInv
  <2>2. g \in Frames /\ g.op = f.op /\ g.tgt = f.cur /\ g.ty = f.ty /\ g.i = f.i
    BY <2>1 DEF Frames
  <2>3. \A x \in Units : info'[x].mem = info[x].mem
    BY <2>1, <1>a, InfoAbort
  <2> HIDE DEF g
  <2>4. Walks("join", g)
    BY <2>1, <2>2, <1>1 DEF Walks, Ahead, Here
  <2> QED
    BY <2>1, <2>2, <2>3, <2>4, <1>0, <1>4
<1>13. CASE Join("main")
  <2> DEFINE e == [f EXCEPT !.i = @ + 1]
  <2>1. /\ pc = "join" /\ f.tgt \in Units /\ clientMap' = clientMap /\ acc' = acc
        /\ fault' = IF info[f.tgt].mem = "freed" THEN fault \cup {"join"} ELSE fault
        /\ info[f.tgt].receiver => th[f.tgt].pc = "ended"
        /\ info' = [info EXCEPT ![f.tgt].mem = "freed"]
        /\ \/ f.op = "closeConnection" /\ Goto("main", "next", e)
           \/ f.op # "closeConnection" /\ Goto("main", "erase", f)
    BY <1>13, <1>f, <1>0 DEF Join, maps, ThreadsOK
  <2>2. \A x \in Units : x # f.tgt => info'[x].mem = info[x].mem
    BY <2>1, <1>a, InfoFreed
  <2>3. th[f.tgt].pc # "loop"
    BY <2>1 DEF CalmInv
  <2>4. CASE f.op # "closeConnection"
    <3>1. fault' = fault
      BY <2>1, <2>4, <1>1 DEF Walks
    <3>2. Past(f.tgt)
      BY <2>1, <2>4, <1>f, <1>0 DEF ListsInv
    <3>3. Walks("erase", f)'
      BY <2>1, <2>4, <1>1, <1>h DEF Walks, Past
    <3> QED
      BY <2>1, <2>2, <2>3, <2>4, <3>1, <3>2, <3>3, <1>0, <1>3
  <2>5. CASE f.op = "closeConnection"
    <3>0. f.i + 1 \in Nat \ {0}
      BY <1>2
    <3>1. e \in Frames /\ e.op = f.op /\ e.ty = f.ty /\ e.i = f.i + 1
      BY <3>0 DEF Frames
    <3> HIDE DEF e
    <3>2. Here(f, f.tgt)
      BY <2>1, <2>5, <1>1 DEF Walks
    <3>3. f.tgt \in Registered
      BY <3>2, <1>2, RegisteredFacts DEF Here
    <3>4. /\ Ahead(f, f.tgt)
          /\ \A d : Ahead(e, d) => Ahead(f, d)
          /\ \A d : Ahead(e, d) => d # f.tgt
      BY <3>1, <3>2, <1>0, WalkOn
    <3>5. \A c \in Registered : Ahead(f, c) => info[c].mem = "alive"
      BY <2>1, <2>5, <1>1 DEF Walks
    <3>6. fault' = fault
      BY <2>1, <3>3, <3>4, <3>5
    <3>7. Registered' = Registered /\ \A c : Ahead(e, c)' <=> Ahead(e, c)
      BY <2>1, RegisteredFacts DEF Ahead
    <3>8. \A c \in Registered' : Ahead(e, c)' => info'[c].mem = "alive"
      BY <2>2, <3>4, <3>5, <3>7, <1>0
    <3>9. Walks("next", e)'
      BY <2>5, <3>1, <3>8, <1>1 DEF Walks
    <3> QED
      BY <2>1, <2>2, <2>3, <2>5, <3>1, <3>3, <3>6, <3>9, <1>0, <1>3, <1>g
  <2> QED
    BY <2>4, <2>5
<1>14. CASE Erase("main")
  <2> DEFINE e == [f EXCEPT !.tgt = None]
  <2>1. /\ pc = "erase" /\ Retry("main", e) /\ info' = info /\ acc' = acc /\ fault' = fault
    BY <1>14, <1>f DEF Erase
  <2>2. e \in Frames /\ e.op = f.op /\ e.vec = f.vec
    BY DEF Frames
  <2> HIDE DEF e
  <2>3. PICK p \in {"next", "ret"}, g \in Frames :
           /\ Goto("main", p, g) /\ g.op = e.op
           /\ e.op # "rerouteToAnyOfType" => g = e
    BY <2>1, <2>2, <1>0, RetryMoves
  <2>4. f.op # "closeConnection"
    BY <2>1, <1>c
  <2>5. Walks(p, g)'
    BY <2>1, <2>2, <2>3, <2>4, <1>1, <1>h DEF Walks, Past
  <2> QED
    BY <2>1, <2>3, <2>5, <1>0, <1>3
<1>15. CASE Return("main")
  <2>1. /\ clientMap' = clientMap /\ info' = info /\ acc' = acc /\ fault' = fault
        /\ th' = th \/ Goto("main", "idle", NoFrame)
    BY <1>15 DEF Return, maps, Home, Goto
  <2>2. CASE th' = th
    <3>1. Registered' = Registered
      BY <2>1, RegisteredFacts
    <3> QED
      BY <2>1, <2>2, <3>1, <1>h DEF FaultInv, Walks, Ahead, Here, Past, Shakes, Loops, Faults
  <2>3. CASE Goto("main", "idle", NoFrame)
    <3>1. Walks("idle", NoFrame)
      BY NoFrameType DEF Walks
    <3> QED
      BY <2>1, <2>3, <3>1, <1>0, <1>4, NoFrameType
  <2> QED
    BY <2>1, <2>2, <2>3
<1>16. CASE VisitCopy("main")
  <2> DEFINE c == f.vec[f.i]
             g == [f EXCEPT !.cur = c]
  <2>1. /\ pc = "next" /\ f.op = "sendToAllOfType" /\ clientMap' = clientMap
        /\ info' = info /\ acc' = acc
        /\ \/ Goto("main", "ret", f) /\ fault' = fault
           \/ /\ ~(f.i > Len(f.vec)) /\ Goto("main", "send", g)
              /\ fault' = IF info[c].mem = "freed" THEN fault \cup {"copy"} ELSE fault
    BY <1>16, <1>f DEF VisitCopy, maps, Deref
  <2>2. CASE Goto("main", "ret", f) /\ fault' = fault
    <3>1. Walks("ret", f)
      BY <2>1, <1>1 DEF Walks
    <3> QED
      BY <2>1, <2>2, <3>1, <1>0, <1>4
  <2>3. ASSUME ~(f.i > Len(f.vec)), Goto("main", "send", g),
               fault' = IF info[c].mem = "freed" THEN fault \cup {"copy"} ELSE fault
        PROVE  FaultInv'
    <3>0. f.vec \in Seq(Units) /\ Len(f.vec) \in Nat /\ DOMAIN f.vec = 1 .. Len(f.vec)
      BY DEF Frames
    <3>1. f.i \in DOMAIN f.vec
      BY <2>3, <3>0, <1>2
    <3>2. c \in Units /\ Past(c)
      BY <2>1, <3>0, <3>1, <1>1 DEF Walks
    <3>3. g \in Frames /\ g.op = f.op /\ g.cur = c /\ g.vec = f.vec
      BY <3>2 DEF Frames
    <3>4. Goto("main", "send", g)
      BY <2>3
    <3>5. info[c].mem = "freed" => "copy" \in fault'
      BY <2>3
    <3>6. fault' = fault \/ ("copy" \in fault' /\ fault' = fault \cup {"copy"})
      BY <2>3
    <3> HIDE DEF c, g
    <3>7. Walks("send", g)'
      BY <2>1, <3>2, <3>3, <3>5, <1>1, <1>h DEF Walks, Past
    <3> QED
      BY <2>1, <3>3, <3>4, <3>6, <3>7, <1>0, <1>3
  <2> QED
    BY <2>1, <2>2, <2>3
<1>17. CASE VisitReroute("main")
  BY <1>1, <1>17, <1>f, ConsoleAssumption DEF VisitReroute, Walks
<1> QED
  BY <1>17, <1>5, <1>6, <1>7, <1>8, <1>9, <1>10, <1>11, <1>12, <1>13, <1>14, <1>15, <1>16 DEF Step

\* As long as the console thread alone makes calls, freed memory is used in two ways
\* only: by the receiver of a client that was removed between its registration and
\* the start of that receiver, and by sendToAllOfType, which turns to a removed
\* client again in its copy of the list.  This is for every menu main has.
THEOREM FreedAtSpawnOrRetryHolds == Spec => []FreedAtSpawnOrRetry
<1>1. Init => FaultInv
  <2> SUFFICES ASSUME Init PROVE FaultInv
    OBVIOUS
  <2>1. "main" \in Threads /\ \A u \in Units : u \in Threads /\ u # "main"
    BY ServerAssumption DEF Threads
  <2>2. th["main"].f = NoFrame /\ th["main"].pc = "idle"
    BY <2>1 DEF Init, Home, At
  <2>3. Walks("idle", NoFrame)
    BY NoFrameType DEF Walks
  <2>4. Shakes /\ Loops /\ Faults
    BY DEF Init, NoInfo, Shakes, Loops, Faults
  <2> QED
    BY <2>2, <2>3, <2>4 DEF FaultInv
<1>2. CallInv /\ FaultInv /\ Next => FaultInv'
  <2> SUFFICES ASSUME CallInv, FaultInv, Next, calls'.callbacks = 0 PROVE FaultInv'
    BY DEF FaultInv
  <2>1. /\ RegistryInv /\ CalmInv /\ SendInv /\ TypeOK
    BY DEF CallInv, RegistryInv
  <2>2. calls.callbacks = 0
    BY <2>1, MainSteps
  <2>3. CASE (\E op \in ConsoleOps : Call(op)) \/ Step("main") \/ JoinAccept
    BY <2>1, <2>2, <2>3, FaultMain
  <2>4. CASE \/ \E u \in Units : Accept(u) \/ Disconnect(u) \/ StopReceiving(u)
             \/ \E a \in Answers, n \in Uuids : Hello(a, n)
             \/ ProbeUuid \/ \E n \in Uuids : Collide(n)
             \/ Register \/ Spawn \/ StopAccepting \/ Crash
    <3>1. calls' = calls
      BY <2>4 DEF Accept, Disconnect, StopReceiving, Hello, ProbeUuid, Collide, Register,
                  Spawn, StopAccepting, Crash
    <3> QED
      BY <2>1, <2>2, <2>4, <3>1, FaultOthers
  <2>5. ASSUME NEW t \in Threads, Step(t) PROVE t = "main"
    <3>1. th[t].pc \notin {"none", "loop", "idle", "ended"}
      BY <2>1, <2>5, StepFrame
    <3> QED
      BY <2>1, <2>2, <3>1 DEF CalmInv, Threads
  <2>6. ASSUME NEW c \in Units, NEW op \in CallbackOps, Receive(c, op) PROVE FALSE
    <3>1. /\ calls' = [calls EXCEPT !.callbacks = @ + 1]
          /\ calls \in [console : 0 .. MaxCalls, callbacks : 0 .. MaxCalls]
      BY <2>1, <2>6 DEF Receive, TypeOK
    <3> QED
      BY <3>1, <2>2
  <2> QED
    BY <2>3, <2>4, <2>5, <2>6 DEF Next, Handshake
<1>3. CallInv /\ FaultInv /\ UNCHANGED vars => FaultInv'
  <2> SUFFICES ASSUME FaultInv, UNCHANGED vars PROVE FaultInv'
    OBVIOUS
  <2>1. /\ info' = info /\ clientMap' = clientMap /\ acc' = acc /\ th' = th
        /\ calls' = calls /\ fault' = fault /\ unit' = unit
    BY DEF vars, maps
  <2>2. Registered' = Registered
    BY <2>1, RegisteredFacts
  <2> QED
    BY <2>1, <2>2 DEF FaultInv, Walks, Ahead, Here, Past, Shakes, Loops, Faults
<1>4. FaultInv => FreedAtSpawnOrRetry
  BY DEF FaultInv, Faults, FreedAtSpawnOrRetry
<1> QED
  BY <1>1, <1>2, <1>3, <1>4, CallHolds, PTL DEF Spec

=============================================================================
