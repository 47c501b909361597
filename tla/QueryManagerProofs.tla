------------------------- MODULE QueryManagerProofs -------------------------
(***************************************************************************)
(* Machine-checked proofs about QueryManager, for any number of queries,   *)
(* workers, plan ids and batches.                                          *)
(***************************************************************************)
EXTENDS QueryManager, FiniteSetTheorems, TLAPS

\* The worker is inside the batch loop of sendQueryPlanParallel.
Sending(w) == pc[w] \in {"send", "wait"}

\* What the types leave out about a worker's registers.
Registers ==
    /\ \A w \in Workers : Holds(w) => cur[w] \in Queries
    /\ \A w \in Workers : Sending(w) =>
          /\ Kind[cur[w]] = "parallel"
          /\ planid[cur[w]] \in PlanIds
          /\ batch[w] \in DOMAIN Batches[cur[w]]
    /\ \A q \in Queries : planid[q] = NoPlan =>
          \A i \in NodeIds : item[q][i] = "unsent"

\* What the critical sections on queue_mutex establish.
QueueInv ==
    /\ IsFiniteSet(adding)
    /\ Locked => queue = <<>>
    /\ NoStrandedQuery

\* How far the destructor is determines the flags.
StopInv ==
    /\ stop_flag <=> dtor # "alive"
    /\ stopped_ => stop_flag
    /\ "destructor" \in notifying <=> dtor = "stopping"
    /\ \A w \in Workers : pc[w] = "exited" => stop_flag /\ queue = <<>>
    /\ dtor = "gone" => \A w \in Workers : pc[w] = "exited"

-----------------------------------------------------------------------------
(* Type correctness *)

TypeInv == TypeOK /\ Registers

LEMMA ItemUpdate ==
    ASSUME item \in [Queries -> [NodeIds -> ItemStates]],
           NEW q \in Queries, NEW i \in NodeIds, NEW s \in ItemStates,
           item' = [item EXCEPT ![q][i] = s]
    PROVE  item' \in [Queries -> [NodeIds -> ItemStates]]
  OBVIOUS

LEMMA SendUpdate ==
    ASSUME item \in [Queries -> [NodeIds -> ItemStates]],
           NEW q \in Queries, NEW i \in NodeIds, notifyHost(q, i)
    PROVE  item' \in [Queries -> [NodeIds -> ItemStates]]
<1>1. "wire" \in ItemStates /\ "lost" \in ItemStates
  BY DEF ItemStates
<1>2. QED
  BY <1>1 DEF notifyHost

LEMMA TypeOKStep == TypeInv /\ [Next]_vars => TypeOK'
<1> SUFFICES ASSUME TypeInv, [Next]_vars PROVE TypeOK'
  OBVIOUS
<1> USE DEF TypeInv, TypeOK, PCs, Goto, poolVars, planVars, trackVars,
            Tracker!TypeOK
<1>1. ASSUME NEW q \in Queries, addQuery(q) PROVE TypeOK'
  BY <1>1 DEF addQuery
<1>2. ASSUME NEW q \in Queries, notify_one(q) PROVE TypeOK'
  BY <1>2 DEF notify_one
<1>3. ASSUME NEW w \in Workers, PopFront(w) PROVE TypeOK'
  BY <1>3 DEF PopFront
<1>4. ASSUME NEW w \in Workers,
             Exit(w) \/ TestFails(w) \/ Block(w) \/ SpuriousWakeup(w)
      PROVE  TypeOK'
  BY <1>4 DEF Exit, TestFails, Block, SpuriousWakeup
<1>5. ASSUME NEW w \in Workers,
             EnterRunning(w) \/ LeaveRunning(w)
      PROVE  TypeOK'
  <2>1. cur[w] \in Queries
    BY <1>5 DEF Registers, Holds, EnterRunning, LeaveRunning
  <2>2. QED
    BY <1>5, <2>1 DEF EnterRunning, LeaveRunning
<1>6. ASSUME NEW w \in Workers, NothingToSend(w) \/ Finish(w) PROVE TypeOK'
  <2>1. cur[w] \in Queries
    BY <1>6 DEF Registers, Holds, NothingToSend, Finish
  <2>2. CASE NothingToSend(w)
    BY <2>2 DEF NothingToSend
  <2>3. CASE Finish(w)
    BY <2>1, <2>3 DEF Finish
  <2>4. QED
    BY <1>6, <2>2, <2>3
<1>7. ASSUME NEW w \in Workers, sendQueryPlan(w) PROVE TypeOK'
  <2>1. cur[w] \in Queries
    BY <1>7 DEF Registers, Holds, sendQueryPlan
  <2>2. PlanItem \in NodeIds
    BY ConstantsAssumption
  <2>3. planid' \in [Queries -> PlanIds \cup {NoPlan}]
    BY <1>7, <2>1 DEF sendQueryPlan, Draws
  <2>4. drops' \in 0 .. MaxDrops
    BY <1>7, ConstantsAssumption DEF sendQueryPlan, notifyHost
  <2>5. item' \in [Queries -> [NodeIds -> ItemStates]]
    BY <1>7, <2>1, <2>2, SendUpdate DEF sendQueryPlan
  <2>6. QED
    BY <1>7, <2>3, <2>4, <2>5 DEF sendQueryPlan
<1>8. ASSUME NEW w \in Workers, sendQueryPlanParallel(w) PROVE TypeOK'
  <2>1. cur[w] \in Queries
    BY <1>8 DEF Registers, Holds, sendQueryPlanParallel
  <2>2. QED
    BY <1>8, <2>1 DEF sendQueryPlanParallel, Draws
<1>9. ASSUME NEW w \in Workers, SendItem(w) PROVE TypeOK'
  <2>1. PICK i \in Unsent(w) : notifyHost(cur[w], i)
    BY <1>9 DEF SendItem
  <2>2. cur[w] \in Queries /\ i \in NodeIds
    <3>1. /\ cur[w] \in Queries
          /\ batch[w] \in DOMAIN Batches[cur[w]]
      BY <1>9 DEF SendItem, Registers, Holds, Sending
    <3>2. Batches[cur[w]][batch[w]] \subseteq NodeIds
      BY <3>1, BatchesAssumption
    <3>3. QED
      BY <3>1, <3>2 DEF Unsent
  <2>3. drops' \in 0 .. MaxDrops
    BY <2>1, ConstantsAssumption DEF notifyHost
  <2>4. item' \in [Queries -> [NodeIds -> ItemStates]]
    BY <2>1, <2>2, SendUpdate
  <2>5. QED
    BY <1>9, <2>3, <2>4 DEF SendItem
<1>10. ASSUME NEW w \in Workers, WaitForBatch(w) PROVE TypeOK'
  <2>1. BatchIds(w) \subseteq Tracker!Ids
    <3>1. /\ cur[w] \in Queries
          /\ planid[cur[w]] \in PlanIds
          /\ batch[w] \in DOMAIN Batches[cur[w]]
      BY <1>10 DEF WaitForBatch, Registers, Holds, Sending
    <3>2. Batches[cur[w]][batch[w]] \subseteq NodeIds
      BY <3>1, BatchesAssumption
    <3>3. QED
      BY <3>1, <3>2 DEF BatchIds, Tracker!Ids
  <2>2. QED
    BY <1>10, <2>1 DEF WaitForBatch, Tracker!waitNextCompletions
<1>11. ASSUME NEW w \in Workers, BatchCompleted(w) PROVE TypeOK'
  <2>1. batch' \in [Workers -> Nat] /\ pc' \in [Workers -> PCs]
    <3>1. CASE batch[w] < Len(Batches[cur[w]])
      <4>1. batch[w] + 1 \in Nat
        OBVIOUS
      <4>2. QED
        BY <1>11, <3>1, <4>1 DEF BatchCompleted
    <3>2. CASE ~(batch[w] < Len(Batches[cur[w]]))
      BY <1>11, <3>2 DEF BatchCompleted
    <3>3. QED
      BY <3>1, <3>2
  <2>2. Tracker!TypeOK'
    BY <1>11 DEF BatchCompleted, Tracker!ReturnTrue
  <2>3. QED
    BY <1>11, <2>1, <2>2 DEF BatchCompleted
<1>12. ASSUME NEW w \in Workers, BatchAbandoned(w) PROVE TypeOK'
  BY <1>12 DEF BatchAbandoned, Tracker!ReturnFalse
<1>13. ASSUME NEW w \in Workers,
             TrackerSleep(w) \/ TrackerSpuriousWakeup(w)
      PROVE  TypeOK'
  BY <1>13 DEF TrackerSleep, TrackerSpuriousWakeup, Tracker!Sleep,
     Tracker!SpuriousWakeup
<1>14. ASSUME NEW q \in Queries, NEW i \in NodeIds,
             Execute(q, i)
      PROVE  TypeOK'
  <2>1. item' \in [Queries -> [NodeIds -> ItemStates]]
    BY <1>14, ItemUpdate DEF Execute, ItemStates
  <2>2. QED
    BY <1>14, <2>1 DEF Execute
<1>15. ASSUME NEW q \in Queries, NEW i \in NodeIds,
             TaskFinished(q, i)
      PROVE  TypeOK'
  <2>1. planid[q] \in PlanIds
    BY <1>15 DEF TaskFinished, Registers
  <2>2. Tracker!TypeOK'
    BY <1>15, <2>1 DEF TaskFinished, Tracker!markCompleted, Tracker!Ids
  <2>3. QED
    BY <1>15, <2>2 DEF TaskFinished, ItemStates
<1>16. CASE ListenerNotify
  BY <1>16 DEF ListenerNotify, Tracker!notify_all
<1>17. CASE Destructor
  <2>1. CASE SetStopFlag
    BY <2>1 DEF SetStopFlag
  <2>2. CASE StopTracker
    BY <2>2 DEF StopTracker, Tracker!stop
  <2>3. CASE StopTrackerNotify
    BY <2>3 DEF StopTrackerNotify, Tracker!notify_all
  <2>4. CASE NotifyWorkers
    BY <2>4 DEF NotifyWorkers
  <2>5. CASE Join
    BY <2>5 DEF Join
  <2>6. QED
    BY <1>17, <2>1, <2>2, <2>3, <2>4, <2>5 DEF Destructor
<1>18. CASE UNCHANGED vars
  BY <1>18 DEF vars
<1>19. QED
  BY <1>1, <1>2, <1>3, <1>4, <1>5, <1>6, <1>7, <1>8, <1>9, <1>10, <1>11,
     <1>12, <1>13, <1>14, <1>15, <1>16, <1>17, <1>18
     DEF Next, WorkerStep

LEMMA RegistersStep == TypeInv /\ [Next]_vars => Registers'
<1> SUFFICES ASSUME TypeInv, [Next]_vars PROVE Registers'
  OBVIOUS
<1> USE DEF TypeInv, TypeOK, Registers, PCs, Holds, Sending, Goto,
            poolVars, planVars, trackVars
<1>1. ASSUME NEW q \in Queries, addQuery(q) PROVE Registers'
  BY <1>1 DEF addQuery
<1>2. ASSUME NEW q \in Queries, notify_one(q) PROVE Registers'
  BY <1>2 DEF notify_one
<1>3. ASSUME NEW w \in Workers, PopFront(w) PROVE Registers'
  BY <1>3 DEF PopFront
<1>4. ASSUME NEW w \in Workers,
             Exit(w) \/ TestFails(w) \/ Block(w) \/ SpuriousWakeup(w)
      PROVE  Registers'
  BY <1>4 DEF Exit, TestFails, Block, SpuriousWakeup
<1>5. ASSUME NEW w \in Workers,
             EnterRunning(w) \/ LeaveRunning(w)
      PROVE  Registers'
  BY <1>5 DEF EnterRunning, LeaveRunning
<1>6. ASSUME NEW w \in Workers, NothingToSend(w) \/ Finish(w) PROVE Registers'
  <2>1. CASE NothingToSend(w)
    BY <2>1 DEF NothingToSend
  <2>2. CASE Finish(w)
    BY <2>2 DEF Finish
  <2>3. QED
    BY <1>6, <2>1, <2>2
<1>7. ASSUME NEW w \in Workers, sendQueryPlan(w) PROVE Registers'
  <2>1. PICK p \in PlanIds : planid' = [planid EXCEPT ![cur[w]] = p]
    BY <1>7 DEF sendQueryPlan, Draws
  <2>2. cur[w] \in Queries /\ p # NoPlan
    BY <1>7, ConstantsAssumption DEF sendQueryPlan
  <2>3. \A q \in Queries : q # cur[w] => item'[q] = item[q]
    BY <1>7, <2>2 DEF sendQueryPlan, notifyHost
  <2>4. QED
    BY <1>7, <2>1, <2>2, <2>3 DEF sendQueryPlan
<1>8. ASSUME NEW w \in Workers, sendQueryPlanParallel(w) PROVE Registers'
  <2>1. PICK p \in PlanIds : planid' = [planid EXCEPT ![cur[w]] = p]
    BY <1>8 DEF sendQueryPlanParallel, Draws
  <2>2. cur[w] \in Queries /\ p # NoPlan
    BY <1>8, ConstantsAssumption DEF sendQueryPlanParallel
  <2>3. 1 \in DOMAIN Batches[cur[w]]
    BY <1>8, <2>2, BatchesAssumption DEF sendQueryPlanParallel
  <2>4. QED
    BY <1>8, <2>1, <2>2, <2>3 DEF sendQueryPlanParallel
<1>9. ASSUME NEW w \in Workers, SendItem(w) PROVE Registers'
  <2>1. PICK i \in Unsent(w) : notifyHost(cur[w], i)
    BY <1>9 DEF SendItem
  <2>2. cur[w] \in Queries /\ planid[cur[w]] # NoPlan
    BY <1>9, ConstantsAssumption DEF SendItem
  <2>3. \A q \in Queries : q # cur[w] => item'[q] = item[q]
    BY <2>1, <2>2 DEF notifyHost
  <2>4. \A q \in Queries : planid'[q] = NoPlan =>
            \A j \in NodeIds : item'[q][j] = "unsent"
    <3>1. planid' = planid
      BY <1>9 DEF SendItem
    <3>2. \A q \in Queries : planid[q] = NoPlan => \A j \in NodeIds : item[q][j] = "unsent"
      BY DEF Registers
    <3>3. ASSUME NEW q \in Queries, planid'[q] = NoPlan
          PROVE  \A j \in NodeIds : item'[q][j] = "unsent"
      <4>1. planid[q] = NoPlan
        BY <3>1, <3>3
      <4>2. item'[q] = item[q]
        BY <2>2, <2>3, <4>1
      <4>3. QED
        BY <3>2, <4>1, <4>2
    <3>4. QED
      BY <3>3
  <2>5. QED
    BY <1>9, <2>4 DEF SendItem
<1>10. ASSUME NEW w \in Workers, WaitForBatch(w) PROVE Registers'
  BY <1>10 DEF WaitForBatch, BatchIds, Tracker!waitNextCompletions
<1>11. ASSUME NEW w \in Workers, BatchCompleted(w) PROVE Registers'
  <2>1. /\ cur[w] \in Queries
        /\ batch[w] \in DOMAIN Batches[cur[w]]
    BY <1>11 DEF BatchCompleted
  <2>2. batch[w] < Len(Batches[cur[w]]) => batch[w] + 1 \in DOMAIN Batches[cur[w]]
    BY <2>1, BatchesAssumption
  <2>3. CASE batch[w] < Len(Batches[cur[w]])
    <3>1. /\ pc' = [pc EXCEPT ![w] = "send"]
          /\ batch' = [batch EXCEPT ![w] = batch[w] + 1]
          /\ UNCHANGED <<cur, planid, item>>
      BY <1>11, <2>3 DEF BatchCompleted
    <3>2. batch'[w] \in DOMAIN Batches[cur'[w]]
      BY <2>2, <2>3, <3>1
    <3>3. QED
      BY <1>11, <3>1, <3>2 DEF BatchCompleted
  <2>4. CASE ~(batch[w] < Len(Batches[cur[w]]))
    BY <1>11, <2>4 DEF BatchCompleted
  <2>5. QED
    BY <2>3, <2>4
<1>12. ASSUME NEW w \in Workers, BatchAbandoned(w) PROVE Registers'
  BY <1>12 DEF BatchAbandoned, Tracker!ReturnFalse
<1>13. ASSUME NEW w \in Workers,
             TrackerSleep(w) \/ TrackerSpuriousWakeup(w)
      PROVE  Registers'
  BY <1>13 DEF TrackerSleep, TrackerSpuriousWakeup, Tracker!Sleep,
     Tracker!SpuriousWakeup
<1>14. ASSUME NEW q \in Queries, NEW i \in NodeIds,
             Execute(q, i)
      PROVE  Registers'
  <2>1. item' = [item EXCEPT ![q][i] = "executed"] /\ item[q][i] = "wire"
    BY <1>14 DEF Execute
  <2>2. QED
    BY <1>14, <2>1 DEF Execute
<1>15. ASSUME NEW q \in Queries, NEW i \in NodeIds,
             TaskFinished(q, i)
      PROVE  Registers'
  BY <1>15 DEF TaskFinished, Tracker!markCompleted
<1>16. CASE ListenerNotify
  BY <1>16 DEF ListenerNotify, Tracker!notify_all
<1>17. CASE Destructor
  BY <1>17 DEF Destructor, SetStopFlag, StopTracker, StopTrackerNotify,
     NotifyWorkers, Join, Tracker!stop, Tracker!notify_all
<1>18. CASE UNCHANGED vars
  BY <1>18 DEF vars
<1>19. QED
  BY <1>1, <1>2, <1>3, <1>4, <1>5, <1>6, <1>7, <1>8, <1>9, <1>10, <1>11,
     <1>12, <1>13, <1>14, <1>15, <1>16, <1>17, <1>18
     DEF Next, WorkerStep

LEMMA InitTypeInv == Init => TypeInv
<1> SUFFICES ASSUME Init PROVE TypeInv
  OBVIOUS
<1>1. TypeOK
  <2>1. Tracker!TypeOK
    BY DEF Init, Tracker!Init, Tracker!TypeOK
  <2>2. /\ 0 \in 0 .. MaxDrops
        /\ <<>> \in Seq(Queries)
    BY ConstantsAssumption
  <2>3. item \in [Queries -> [NodeIds -> ItemStates]]
    BY DEF Init, ItemStates
  <2>4. QED
    BY <2>1, <2>2, <2>3 DEF Init, TypeOK, PCs
<1>2. Registers
  BY DEF Init, Registers, Holds, Sending
<1>3. QED
  BY <1>1, <1>2 DEF TypeInv

\* Every variable of the manager and of the tracker keeps its type; the
\* strengthening Registers says that a worker that sends has a planned query
\* and stands at one of its batches.
THEOREM TypeCorrect == Spec => []TypeOK
<1>1. TypeInv => TypeOK
  BY DEF TypeInv
<1>2. QED
  BY <1>1, InitTypeInv, TypeOKStep, RegistersStep, PTL DEF Spec, TypeInv

-----------------------------------------------------------------------------
(* Every query is in one place *)

LEMMA PopLemma ==
    ASSUME NEW S, NEW s \in Seq(S), s # <<>>,
           \A m, n \in DOMAIN s : m # n => s[m] # s[n]
    PROVE  /\ Head(s) \in S
           /\ \E n \in DOMAIN s : s[n] = Head(s)
           /\ \A m, n \in DOMAIN Tail(s) : m # n => Tail(s)[m] # Tail(s)[n]
           /\ \A q : (\E n \in DOMAIN Tail(s) : Tail(s)[n] = q)
                     <=> q # Head(s) /\ \E n \in DOMAIN s : s[n] = q
<1>1. Head(s) = s[1] /\ 1 \in DOMAIN s
  OBVIOUS
<1>2. \A n \in DOMAIN Tail(s) : n + 1 \in DOMAIN s /\ Tail(s)[n] = s[n + 1]
  OBVIOUS
<1>3. \A n \in DOMAIN s : n # 1 => n - 1 \in DOMAIN Tail(s) /\ Tail(s)[n - 1] = s[n]
  OBVIOUS
<1>4. \A m \in DOMAIN Tail(s) : m \in Nat /\ m + 1 # 1
  OBVIOUS
<1>5. \A m, n \in DOMAIN Tail(s) : m # n => m + 1 # n + 1
  BY <1>4
<1>6. \A m, n \in DOMAIN Tail(s) : m # n => Tail(s)[m] # Tail(s)[n]
  BY <1>2, <1>5
<1>7. ASSUME NEW q
      PROVE  (\E n \in DOMAIN Tail(s) : Tail(s)[n] = q)
                <=> q # Head(s) /\ \E n \in DOMAIN s : s[n] = q
  <2>1. ASSUME NEW n \in DOMAIN Tail(s), Tail(s)[n] = q
        PROVE  q # Head(s) /\ \E m \in DOMAIN s : s[m] = q
    BY <1>1, <1>2, <1>4, <2>1
  <2>2. ASSUME NEW n \in DOMAIN s, s[n] = q, q # Head(s)
        PROVE  \E m \in DOMAIN Tail(s) : Tail(s)[m] = q
    BY <1>1, <1>3, <2>2
  <2>3. QED
    BY <2>1, <2>2
<1>8. QED
  BY <1>1, <1>6, <1>7

LEMMA PushLemma ==
    ASSUME NEW S, NEW s \in Seq(S), NEW e \in S
    PROVE  /\ DOMAIN Append(s, e) = DOMAIN s \cup {Len(s) + 1}
           /\ Append(s, e)[Len(s) + 1] = e
           /\ \A n \in DOMAIN s : Append(s, e)[n] = s[n]
  OBVIOUS

LEMMA OnePlaceFrame ==
    ASSUME OnePlace,
           UNCHANGED <<queue, running, finished, added, cur>>,
           \A v \in Workers : Holds(v)' = Holds(v) /\ Working(v)' = Working(v)
    PROVE  OnePlace'
<1>1. QueueDistinct' /\ HoldersDistinct'
  BY DEF OnePlace, QueueDistinct, HoldersDistinct
<1>2. \A q \in Queries : InQueue(q)' = InQueue(q) /\ Held(q)' = Held(q)
  BY DEF InQueue, Held
<1>3. Accounted'
  BY <1>2 DEF OnePlace, Accounted
<1>4. {v \in Workers : Working(v)'} = {v \in Workers : Working(v)}
  OBVIOUS
<1>5. RunningExact'
  BY <1>4 DEF OnePlace, RunningExact
<1>6. QED
  BY <1>1, <1>3, <1>5 DEF OnePlace

LEMMA OnePlaceStep == TypeInv /\ OnePlace /\ [Next]_vars => OnePlace'
<1> SUFFICES ASSUME TypeInv, OnePlace, [Next]_vars PROVE OnePlace'
  OBVIOUS
<1> USE DEF TypeInv, TypeOK, PCs, Goto, poolVars, planVars, trackVars
<1>1. ASSUME NEW q \in Queries, addQuery(q) PROVE OnePlace'
  <2>1. /\ q \notin added
        /\ added' = added \cup {q}
        /\ queue' = Append(queue, q)
        /\ UNCHANGED <<running, finished, cur, pc>>
    BY <1>1 DEF addQuery
  <2>2. ~InQueue(q) /\ ~Held(q) /\ q \notin finished
    BY <2>1 DEF OnePlace, Accounted
  <2>3. \A n \in DOMAIN queue : queue[n] # q
    BY <2>2 DEF InQueue
  <2>4. /\ QueueDistinct'
        /\ \A r \in Queries : InQueue(r)' <=> r = q \/ InQueue(r)
    <3>1. /\ queue \in Seq(Queries)
          /\ \A m, n \in DOMAIN queue : m # n => queue[m] # queue[n]
      BY DEF OnePlace, QueueDistinct
    <3>2. /\ DOMAIN queue' = DOMAIN queue \cup {Len(queue) + 1}
          /\ queue'[Len(queue) + 1] = q
          /\ \A n \in DOMAIN queue : queue'[n] = queue[n]
      BY <2>1, PushLemma
    <3>3. QED
      BY <2>3, <3>1, <3>2 DEF QueueDistinct, InQueue
  <2>5. \A r \in Queries : Held(r)' <=> Held(r)
    BY <2>1 DEF Held, Holds
  <2>6. Accounted'
    BY <2>1, <2>2, <2>4, <2>5 DEF OnePlace, Accounted
  <2>7. HoldersDistinct' /\ RunningExact'
    BY <2>1 DEF OnePlace, HoldersDistinct, RunningExact, Holds, Working
  <2>8. QED
    BY <2>4, <2>6, <2>7 DEF OnePlace
<1>2. ASSUME NEW q \in Queries, notify_one(q) PROVE OnePlace'
  <2>1. /\ UNCHANGED <<queue, running, finished, added, cur>>
        /\ \A v \in Workers : Holds(v)' = Holds(v) /\ Working(v)' = Working(v)
    BY <1>2 DEF Holds, Working, notify_one
  <2>2. QED
    BY <2>1, OnePlaceFrame
<1>3. ASSUME NEW w \in Workers, PopFront(w) PROVE OnePlace'
  <2> DEFINE h == Head(queue)
  <2>1. /\ pc[w] = "check"
        /\ queue # <<>>
        /\ queue' = Tail(queue)
        /\ cur' = [cur EXCEPT ![w] = h]
        /\ pc' = [pc EXCEPT ![w] = "popped"]
        /\ UNCHANGED <<running, finished, added>>
    BY <1>3 DEF PopFront
  <2>2. QueueDistinct
    BY DEF OnePlace
  <2>3. /\ h \in Queries
        /\ InQueue(h)
        /\ QueueDistinct'
        /\ \A r \in Queries : InQueue(r)' <=> r # h /\ InQueue(r)
    <3>1. /\ queue \in Seq(Queries)
          /\ \A m, n \in DOMAIN queue : m # n => queue[m] # queue[n]
      BY <2>2 DEF QueueDistinct
    <3>2. /\ h \in Queries
          /\ \E n \in DOMAIN queue : queue[n] = h
          /\ \A m, n \in DOMAIN Tail(queue) :
                 m # n => Tail(queue)[m] # Tail(queue)[n]
          /\ \A r : (\E n \in DOMAIN Tail(queue) : Tail(queue)[n] = r)
                    <=> r # h /\ \E n \in DOMAIN queue : queue[n] = r
      BY <2>1, <3>1, PopLemma, Zenon
    <3> HIDE DEF h
    <3>3. QED
      BY <2>1, <3>2 DEF QueueDistinct, InQueue
  <2> HIDE DEF h
  <2>4. ~Holds(w) /\ ~Working(w) /\ Holds(w)' /\ ~Working(w)' /\ cur'[w] = h
    BY <2>1 DEF Holds, Working
  <2>5. \A v \in Workers : v # w => /\ Holds(v)' = Holds(v)
                                   /\ Working(v)' = Working(v)
                                   /\ cur'[v] = cur[v]
    BY <2>1 DEF Holds, Working
  <2>6. \A r \in Queries : Held(r)' <=> r = h \/ Held(r)
    BY <2>4, <2>5 DEF Held
  <2>7. ~Held(h) /\ h \notin finished /\ h \in added
    BY <2>3 DEF OnePlace, Accounted
  <2>8. HoldersDistinct'
    BY <2>4, <2>5, <2>7 DEF OnePlace, HoldersDistinct, Held
  <2>9. Accounted'
    BY <2>1, <2>3, <2>6, <2>7 DEF OnePlace, Accounted
  <2>10. RunningExact'
    <3>1. \A v \in Workers : Working(v)' = Working(v)
      BY <2>1 DEF Working
    <3>2. {cur'[v] : v \in {u \in Workers : Working(u)'}}
            = {cur[v] : v \in {u \in Workers : Working(u)}}
      BY <2>4, <2>5, <3>1
    <3>3. QED
      BY <2>1, <3>2 DEF OnePlace, RunningExact
  <2>11. QED
    BY <2>3, <2>8, <2>9, <2>10 DEF OnePlace
<1>4. ASSUME NEW w \in Workers,
             Exit(w) \/ TestFails(w) \/ Block(w) \/ SpuriousWakeup(w)
      PROVE  OnePlace'
  <2>1. /\ UNCHANGED <<queue, running, finished, added, cur>>
        /\ \A v \in Workers : Holds(v)' = Holds(v) /\ Working(v)' = Working(v)
    BY <1>4 DEF Holds, Working, Exit, TestFails, Block, SpuriousWakeup
  <2>2. QED
    BY <2>1, OnePlaceFrame
<1>5. ASSUME NEW w \in Workers,
             EnterRunning(w) \/ LeaveRunning(w)
      PROVE  OnePlace'
  <2>1. /\ UNCHANGED <<queue, finished, added, cur>>
        /\ \A v \in Workers : Holds(v)' = Holds(v)
        /\ Holds(w) /\ \A v \in Workers : v # w => Working(v)' = Working(v)
    BY <1>5 DEF Holds, Working, EnterRunning, LeaveRunning
  <2>2. \A q \in Queries : InQueue(q)' = InQueue(q) /\ Held(q)' = Held(q)
    BY <2>1 DEF InQueue, Held
  <2>3. QueueDistinct' /\ HoldersDistinct' /\ Accounted'
    BY <2>1, <2>2 DEF OnePlace, QueueDistinct, HoldersDistinct, Accounted
  <2>4. RunningExact'
    <3>1. CASE EnterRunning(w)
      <4>1. Working(w)' /\ running' = running \cup {cur[w]}
        BY <3>1 DEF EnterRunning, Working
      <4>2. QED
        BY <2>1, <4>1 DEF OnePlace, RunningExact
    <3>2. CASE LeaveRunning(w)
      <4>1. ~Working(w)' /\ Working(w) /\ running' = running \ {cur[w]}
        BY <3>2 DEF LeaveRunning, Working
      <4>2. \A v \in Workers : v # w /\ Working(v) => cur[v] # cur[w]
        BY <2>1 DEF OnePlace, HoldersDistinct, Holds, Working
      <4>3. QED
        BY <2>1, <4>1, <4>2 DEF OnePlace, RunningExact
    <3>3. QED
      BY <1>5, <3>1, <3>2
  <2>5. QED
    BY <2>3, <2>4 DEF OnePlace
<1>6. ASSUME NEW w \in Workers, NothingToSend(w) \/ Finish(w) PROVE OnePlace'
  <2>1. CASE NothingToSend(w)
    <3>1. /\ UNCHANGED <<queue, running, finished, added, cur>>
          /\ \A v \in Workers : Holds(v)' = Holds(v) /\ Working(v)' = Working(v)
      BY <2>1 DEF Holds, Working, NothingToSend
    <3>2. QED
      BY <3>1, OnePlaceFrame
  <2>2. CASE Finish(w)
    <3>1. /\ UNCHANGED <<queue, running, added>>
          /\ finished' = finished \cup {cur[w]}
          /\ Holds(w) /\ ~Holds(w)' /\ ~Working(w) /\ ~Working(w)'
          /\ \A v \in Workers : v # w => /\ Holds(v)' = Holds(v)
                                       /\ Working(v)' = Working(v)
                                       /\ cur'[v] = cur[v]
      BY <2>2 DEF Finish, Holds, Working
    <3>2. \A q \in Queries : InQueue(q)' = InQueue(q)
      BY <3>1 DEF InQueue
    <3>3. \A q \in Queries : Held(q)' <=> q # cur[w] /\ Held(q)
      BY <3>1 DEF OnePlace, HoldersDistinct, Held
    <3>4. Held(cur[w])
      BY <3>1 DEF Held
    <3>5. Accounted'
      BY <3>1, <3>2, <3>3, <3>4 DEF OnePlace, Accounted
    <3>6. QueueDistinct' /\ HoldersDistinct'
      BY <3>1 DEF OnePlace, QueueDistinct, HoldersDistinct
    <3>7. {cur'[v] : v \in {u \in Workers : Working(u)'}}
            = {cur[v] : v \in {u \in Workers : Working(u)}}
      BY <3>1
    <3>8. RunningExact'
      BY <3>1, <3>7 DEF OnePlace, RunningExact
    <3>9. QED
      BY <3>5, <3>6, <3>8 DEF OnePlace
  <2>3. QED
    BY <1>6, <2>1, <2>2
<1>7. ASSUME NEW w \in Workers, sendQueryPlan(w) PROVE OnePlace'
  <2>1. /\ UNCHANGED <<queue, running, finished, added, cur>>
        /\ \A v \in Workers : Holds(v)' = Holds(v) /\ Working(v)' = Working(v)
    BY <1>7 DEF Holds, Working, sendQueryPlan, Draws, notifyHost, PlanItem
  <2>2. QED
    BY <2>1, OnePlaceFrame
<1>8. ASSUME NEW w \in Workers, sendQueryPlanParallel(w) PROVE OnePlace'
  <2>1. /\ UNCHANGED <<queue, running, finished, added, cur>>
        /\ \A v \in Workers : Holds(v)' = Holds(v) /\ Working(v)' = Working(v)
    BY <1>8 DEF Holds, Working, sendQueryPlanParallel, Draws
  <2>2. QED
    BY <2>1, OnePlaceFrame
<1>9. ASSUME NEW w \in Workers, SendItem(w) PROVE OnePlace'
  <2>1. /\ UNCHANGED <<queue, running, finished, added, cur>>
        /\ \A v \in Workers : Holds(v)' = Holds(v) /\ Working(v)' = Working(v)
    BY <1>9 DEF Holds, Working, SendItem, Unsent, notifyHost
  <2>2. QED
    BY <2>1, OnePlaceFrame
<1>10. ASSUME NEW w \in Workers, WaitForBatch(w) PROVE OnePlace'
  <2>1. /\ UNCHANGED <<queue, running, finished, added, cur>>
        /\ \A v \in Workers : Holds(v)' = Holds(v) /\ Working(v)' = Working(v)
    BY <1>10 DEF Holds, Working, WaitForBatch, BatchIds, Tracker!waitNextCompletions
  <2>2. QED
    BY <2>1, OnePlaceFrame
<1>11. ASSUME NEW w \in Workers, BatchCompleted(w) PROVE OnePlace'
  <2>1. /\ UNCHANGED <<queue, running, finished, added, cur>>
        /\ \A v \in Workers : Holds(v)' = Holds(v) /\ Working(v)' = Working(v)
    BY <1>11 DEF Holds, Working, BatchCompleted, Tracker!ReturnTrue
  <2>2. QED
    BY <2>1, OnePlaceFrame
<1>12. ASSUME NEW w \in Workers, BatchAbandoned(w) PROVE OnePlace'
  <2>1. /\ UNCHANGED <<queue, running, finished, added, cur>>
        /\ \A v \in Workers : Holds(v)' = Holds(v) /\ Working(v)' = Working(v)
    BY <1>12 DEF Holds, Working, BatchAbandoned, Tracker!ReturnFalse
  <2>2. QED
    BY <2>1, OnePlaceFrame
<1>13. ASSUME NEW w \in Workers,
             TrackerSleep(w) \/ TrackerSpuriousWakeup(w)
      PROVE  OnePlace'
  <2>1. /\ UNCHANGED <<queue, running, finished, added, cur>>
        /\ \A v \in Workers : Holds(v)' = Holds(v) /\ Working(v)' = Working(v)
    BY <1>13 DEF Holds, Working, TrackerSleep, TrackerSpuriousWakeup, Tracker!Sleep,
     Tracker!SpuriousWakeup
  <2>2. QED
    BY <2>1, OnePlaceFrame
<1>14. ASSUME NEW q \in Queries, NEW i \in NodeIds,
             Execute(q, i)
      PROVE  OnePlace'
  <2>1. /\ UNCHANGED <<queue, running, finished, added, cur>>
        /\ \A v \in Workers : Holds(v)' = Holds(v) /\ Working(v)' = Working(v)
    BY <1>14 DEF Holds, Working, Execute
  <2>2. QED
    BY <2>1, OnePlaceFrame
<1>15. ASSUME NEW q \in Queries, NEW i \in NodeIds,
             TaskFinished(q, i)
      PROVE  OnePlace'
  <2>1. /\ UNCHANGED <<queue, running, finished, added, cur>>
        /\ \A v \in Workers : Holds(v)' = Holds(v) /\ Working(v)' = Working(v)
    BY <1>15 DEF Holds, Working, TaskFinished, Tracker!markCompleted
  <2>2. QED
    BY <2>1, OnePlaceFrame
<1>16. CASE ListenerNotify
  <2>1. /\ UNCHANGED <<queue, running, finished, added, cur>>
        /\ \A v \in Workers : Holds(v)' = Holds(v) /\ Working(v)' = Working(v)
    BY <1>16 DEF Holds, Working, ListenerNotify, Tracker!notify_all
  <2>2. QED
    BY <2>1, OnePlaceFrame
<1>17. CASE Destructor
  <2>1. /\ UNCHANGED <<queue, running, finished, added, cur>>
        /\ \A v \in Workers : Holds(v)' = Holds(v) /\ Working(v)' = Working(v)
    BY <1>17 DEF Holds, Working, Destructor, SetStopFlag, StopTracker, StopTrackerNotify,
     NotifyWorkers, Join, Tracker!stop, Tracker!notify_all
  <2>2. QED
    BY <2>1, OnePlaceFrame
<1>18. CASE UNCHANGED vars
  <2>1. /\ UNCHANGED <<queue, running, finished, added, cur>>
        /\ \A v \in Workers : Holds(v)' = Holds(v) /\ Working(v)' = Working(v)
    BY <1>18 DEF Holds, Working, vars
  <2>2. QED
    BY <2>1, OnePlaceFrame
<1>19. QED
  BY <1>1, <1>2, <1>3, <1>4, <1>5, <1>6, <1>7, <1>8, <1>9, <1>10, <1>11,
     <1>12, <1>13, <1>14, <1>15, <1>16, <1>17, <1>18
     DEF Next, WorkerStep

\* Whatever the interleaving of addQuery callers, workers, answers and the
\* destructor, no accepted query is lost, queued twice or held by two workers.
THEOREM OnePlaceHolds == Spec => []OnePlace
<1>1. Init => TypeInv /\ OnePlace
  BY InitTypeInv DEF Init, OnePlace, QueueDistinct, HoldersDistinct, Accounted,
     RunningExact, InQueue, Held, Holds, Working
<1>2. QED
  BY <1>1, TypeOKStep, RegistersStep, OnePlaceStep, PTL DEF Spec, TypeInv

-----------------------------------------------------------------------------
(* No query is stranded *)

Looking == {w \in Workers : pc[w] = "check"}
Asleep  == {w \in Workers : pc[w] = "asleep"}

LEMMA CountsAreNaturals ==
    ASSUME TypeOK, IsFiniteSet(adding)
    PROVE  /\ IsFiniteSet(Looking)
           /\ Cardinality(Looking) \in Nat
           /\ Cardinality(adding) \in Nat
           /\ Len(queue) \in Nat
<1>1. IsFiniteSet(Looking)
  BY WorkersAssumption, FS_Subset DEF Looking
<1>2. Len(queue) \in Nat
  BY DEF TypeOK
<1>3. QED
  BY <1>1, <1>2, FS_CardinalityType

\* A step that touches neither the queue nor the callers, puts nobody to
\* sleep and takes nobody away from the queue strands nothing.
LEMMA QueueFrame ==
    ASSUME TypeOK, TypeOK', QueueInv,
           UNCHANGED <<queue, adding>>,
           Looking \subseteq Looking', Asleep' \subseteq Asleep,
           Locked' => Locked
    PROVE  QueueInv'
<1>1. IsFiniteSet(adding)' /\ (Locked => queue = <<>>)'
  BY DEF QueueInv
<1>2. /\ IsFiniteSet(Looking')
      /\ Cardinality(Looking') \in Nat
      /\ Cardinality(Looking) \in Nat
      /\ Cardinality(adding) \in Nat
      /\ Len(queue) \in Nat
  <2>1. IsFiniteSet(Looking')
    BY WorkersAssumption, FS_Subset DEF Looking
  <2>2. QED
    BY <2>1, CountsAreNaturals, FS_CardinalityType DEF QueueInv
<1>3. Cardinality(Looking) <= Cardinality(Looking')
  BY <1>2, FS_Subset
<1>4. NoStrandedQuery'
  <2>1. SUFFICES ASSUME Asleep' # {}
                 PROVE  Len(queue) <= Cardinality(adding) + Cardinality(Looking')
    BY DEF NoStrandedQuery, Asleep, Looking
  <2>2. Len(queue) <= Cardinality(adding) + Cardinality(Looking)
    BY <2>1 DEF QueueInv, NoStrandedQuery, Asleep, Looking
  <2>3. QED
    BY <1>2, <1>3, <2>2
<1>5. QED
  BY <1>1, <1>4 DEF QueueInv

\* An empty queue strands nothing.
LEMMA QueueEmpty ==
    ASSUME TypeOK', IsFiniteSet(adding'), queue' = <<>>
    PROVE  QueueInv'
<1>1. IsFiniteSet(Looking')
  BY WorkersAssumption, FS_Subset DEF Looking
<1>2. /\ Cardinality(Looking') \in Nat
      /\ Cardinality(adding') \in Nat
      /\ Len(queue') = 0
  BY <1>1, FS_CardinalityType
<1>3. Len(queue') <= Cardinality(adding') + Cardinality(Looking')
  BY <1>2
<1>4. QED
  BY <1>3 DEF QueueInv, NoStrandedQuery, Looking

LEMMA QueueInvStep == TypeInv /\ TypeOK' /\ QueueInv /\ [Next]_vars => QueueInv'
<1> SUFFICES ASSUME TypeInv, TypeOK', QueueInv, [Next]_vars PROVE QueueInv'
  OBVIOUS
<1>0. TypeOK
  BY DEF TypeInv
<1> USE <1>0 DEF TypeOK, Goto, poolVars, planVars, trackVars
<1>1. ASSUME NEW q \in Queries, addQuery(q) PROVE QueueInv'
  <2>1. /\ ~Locked
        /\ q \notin adding
        /\ queue' = Append(queue, q)
        /\ adding' = adding \cup {q}
        /\ UNCHANGED pc
    BY <1>1 DEF addQuery
  <2>2. /\ IsFiniteSet(adding')
        /\ Cardinality(adding') = Cardinality(adding) + 1
    BY <2>1, FS_AddElement DEF QueueInv
  <2>3. Len(queue') = Len(queue) + 1
    BY <2>1
  <2>4. NoStrandedQuery'
    BY <2>1, <2>2, <2>3, CountsAreNaturals
       DEF QueueInv, NoStrandedQuery, Looking
  <2>5. QED
    BY <2>1, <2>2, <2>4 DEF QueueInv, Locked
<1>2. ASSUME NEW q \in Queries, notify_one(q) PROVE QueueInv'
  <2>1. /\ q \in adding
        /\ adding' = adding \ {q}
        /\ UNCHANGED queue
    BY <1>2 DEF notify_one
  <2>2. /\ IsFiniteSet(adding')
        /\ Cardinality(adding') = Cardinality(adding) - 1
    BY <2>1, FS_RemoveElement DEF QueueInv
  <2>3. (Locked => queue = <<>>)'
    BY <1>2 DEF notify_one, QueueInv, Locked
  <2>4. CASE Asleep = {}
    <3>1. UNCHANGED pc
      BY <1>2, <2>4 DEF notify_one, Asleep
    <3>2. QED
      BY <2>2, <2>3, <2>4, <3>1 DEF QueueInv, NoStrandedQuery, Asleep
  <2>5. CASE Asleep # {}
    <3>1. PICK w \in Asleep : pc' = [pc EXCEPT ![w] = "check"]
      BY <1>2, <2>5 DEF notify_one, Asleep
    <3>2. Looking' = Looking \cup {w} /\ w \notin Looking
      BY <3>1 DEF Looking, Asleep
    <3>3. Cardinality(Looking') = Cardinality(Looking) + 1
      BY <3>2, CountsAreNaturals, FS_AddElement DEF QueueInv
    <3>4. Len(queue) <= Cardinality(adding) + Cardinality(Looking)
      BY <2>5 DEF QueueInv, NoStrandedQuery, Asleep, Looking
    <3>5. Len(queue') <= Cardinality(adding') + Cardinality(Looking')
      BY <2>1, <2>2, <3>3, <3>4, CountsAreNaturals DEF QueueInv
    <3>6. QED
      BY <2>2, <2>3, <3>5 DEF QueueInv, NoStrandedQuery, Looking
  <2>6. QED
    BY <2>4, <2>5
<1>3. ASSUME NEW w \in Workers, PopFront(w) PROVE QueueInv'
  <2>1. /\ queue # <<>>
        /\ ~Locked
        /\ queue' = Tail(queue)
        /\ Looking' = Looking \ {w}
        /\ w \in Looking
        /\ Asleep' = Asleep
        /\ ~Locked'
        /\ UNCHANGED adding
    BY <1>3 DEF PopFront, Looking, Asleep, Locked
  <2>2. Cardinality(Looking') = Cardinality(Looking) - 1
    BY <2>1, CountsAreNaturals, FS_RemoveElement DEF QueueInv
  <2>3. Len(queue') = Len(queue) - 1
    BY <2>1
  <2>4. NoStrandedQuery'
    <3>1. SUFFICES ASSUME Asleep' # {}
                   PROVE  Len(queue') <= Cardinality(adding) + Cardinality(Looking')
      BY <2>1 DEF NoStrandedQuery, Asleep, Looking
    <3>2. Len(queue) <= Cardinality(adding) + Cardinality(Looking)
      BY <2>1, <3>1 DEF QueueInv, NoStrandedQuery, Asleep, Looking
    <3>3. QED
      BY <2>2, <2>3, <3>2, CountsAreNaturals DEF QueueInv
  <2>5. QED
    BY <2>1, <2>4 DEF QueueInv
<1>4. ASSUME NEW w \in Workers,
             Exit(w) \/ TestFails(w) \/ Block(w) \/ SpuriousWakeup(w)
      PROVE  QueueInv'
  <2>1. CASE SpuriousWakeup(w)
    <3>1. /\ UNCHANGED <<queue, adding>>
          /\ Looking \subseteq Looking'
          /\ Asleep' \subseteq Asleep
          /\ Locked' => Locked
      BY <2>1 DEF Looking, Asleep, Locked, SpuriousWakeup
    <3>2. QED
      BY <3>1, QueueFrame
  <2>2. CASE ~SpuriousWakeup(w)
    <3>1. queue' = <<>> /\ UNCHANGED adding
      BY <1>4, <2>2 DEF Exit, TestFails, Block, QueueInv, Locked
    <3>2. QED
      BY <3>1, QueueEmpty DEF QueueInv
  <2>3. QED
    BY <2>1, <2>2
<1>5. ASSUME NEW w \in Workers,
             EnterRunning(w) \/ LeaveRunning(w)
      PROVE  QueueInv'
  <2>1. /\ UNCHANGED <<queue, adding>>
        /\ Looking \subseteq Looking'
        /\ Asleep' \subseteq Asleep
        /\ Locked' => Locked
    BY <1>5 DEF Looking, Asleep, Locked, EnterRunning, LeaveRunning
  <2>2. QED
    BY <2>1, QueueFrame
<1>6. ASSUME NEW w \in Workers, NothingToSend(w) \/ Finish(w) PROVE QueueInv'
  <2>1. /\ UNCHANGED <<queue, adding>>
        /\ Looking \subseteq Looking'
        /\ Asleep' \subseteq Asleep
        /\ Locked' => Locked
    BY <1>6 DEF Looking, Asleep, Locked, NothingToSend, Finish
  <2>2. QED
    BY <2>1, QueueFrame
<1>7. ASSUME NEW w \in Workers, sendQueryPlan(w) PROVE QueueInv'
  <2>1. /\ UNCHANGED <<queue, adding>>
        /\ Looking \subseteq Looking'
        /\ Asleep' \subseteq Asleep
        /\ Locked' => Locked
    BY <1>7 DEF Looking, Asleep, Locked, sendQueryPlan, Draws, notifyHost, PlanItem
  <2>2. QED
    BY <2>1, QueueFrame
<1>8. ASSUME NEW w \in Workers, sendQueryPlanParallel(w) PROVE QueueInv'
  <2>1. /\ UNCHANGED <<queue, adding>>
        /\ Looking \subseteq Looking'
        /\ Asleep' \subseteq Asleep
        /\ Locked' => Locked
    BY <1>8 DEF Looking, Asleep, Locked, sendQueryPlanParallel, Draws
  <2>2. QED
    BY <2>1, QueueFrame
<1>9. ASSUME NEW w \in Workers, SendItem(w) PROVE QueueInv'
  <2>1. /\ UNCHANGED <<queue, adding>>
        /\ Looking \subseteq Looking'
        /\ Asleep' \subseteq Asleep
        /\ Locked' => Locked
    BY <1>9 DEF Looking, Asleep, Locked, SendItem, Unsent, notifyHost
  <2>2. QED
    BY <2>1, QueueFrame
<1>10. ASSUME NEW w \in Workers, WaitForBatch(w) PROVE QueueInv'
  <2>1. /\ UNCHANGED <<queue, adding>>
        /\ Looking \subseteq Looking'
        /\ Asleep' \subseteq Asleep
        /\ Locked' => Locked
    BY <1>10 DEF Looking, Asleep, Locked, WaitForBatch, BatchIds, Tracker!waitNextCompletions
  <2>2. QED
    BY <2>1, QueueFrame
<1>11. ASSUME NEW w \in Workers, BatchCompleted(w) PROVE QueueInv'
  <2>1. /\ UNCHANGED <<queue, adding>>
        /\ Looking \subseteq Looking'
        /\ Asleep' \subseteq Asleep
        /\ Locked' => Locked
    BY <1>11 DEF Looking, Asleep, Locked, BatchCompleted, Tracker!ReturnTrue
  <2>2. QED
    BY <2>1, QueueFrame
<1>12. ASSUME NEW w \in Workers, BatchAbandoned(w) PROVE QueueInv'
  <2>1. /\ UNCHANGED <<queue, adding>>
        /\ Looking \subseteq Looking'
        /\ Asleep' \subseteq Asleep
        /\ Locked' => Locked
    BY <1>12 DEF Looking, Asleep, Locked, BatchAbandoned, Tracker!ReturnFalse
  <2>2. QED
    BY <2>1, QueueFrame
<1>13. ASSUME NEW w \in Workers,
             TrackerSleep(w) \/ TrackerSpuriousWakeup(w)
      PROVE  QueueInv'
  <2>1. /\ UNCHANGED <<queue, adding>>
        /\ Looking \subseteq Looking'
        /\ Asleep' \subseteq Asleep
        /\ Locked' => Locked
    BY <1>13 DEF Looking, Asleep, Locked, TrackerSleep, TrackerSpuriousWakeup, Tracker!Sleep,
     Tracker!SpuriousWakeup
  <2>2. QED
    BY <2>1, QueueFrame
<1>14. ASSUME NEW q \in Queries, NEW i \in NodeIds,
             Execute(q, i)
      PROVE  QueueInv'
  <2>1. /\ UNCHANGED <<queue, adding>>
        /\ Looking \subseteq Looking'
        /\ Asleep' \subseteq Asleep
        /\ Locked' => Locked
    BY <1>14 DEF Looking, Asleep, Locked, Execute
  <2>2. QED
    BY <2>1, QueueFrame
<1>15. ASSUME NEW q \in Queries, NEW i \in NodeIds,
             TaskFinished(q, i)
      PROVE  QueueInv'
  <2>1. /\ UNCHANGED <<queue, adding>>
        /\ Looking \subseteq Looking'
        /\ Asleep' \subseteq Asleep
        /\ Locked' => Locked
    BY <1>15 DEF Looking, Asleep, Locked, TaskFinished, Tracker!markCompleted
  <2>2. QED
    BY <2>1, QueueFrame
<1>16. CASE ListenerNotify
  <2>1. /\ UNCHANGED <<queue, adding>>
        /\ Looking \subseteq Looking'
        /\ Asleep' \subseteq Asleep
        /\ Locked' => Locked
    BY <1>16 DEF Looking, Asleep, Locked, ListenerNotify, Tracker!notify_all
  <2>2. QED
    BY <2>1, QueueFrame
<1>17. CASE Destructor
  <2>1. /\ UNCHANGED <<queue, adding>>
        /\ Looking \subseteq Looking'
        /\ Asleep' \subseteq Asleep
        /\ Locked' => Locked
    <3>1. CASE NotifyWorkers
      BY <3>1 DEF NotifyWorkers, Looking, Asleep, Locked
    <3>2. CASE SetStopFlag \/ StopTracker \/ StopTrackerNotify \/ Join
      BY <3>2 DEF SetStopFlag, StopTracker, StopTrackerNotify, Join, Looking,
                  Asleep, Locked
    <3>3. QED
      BY <1>17, <3>1, <3>2 DEF Destructor
  <2>2. QED
    BY <2>1, QueueFrame
<1>18. CASE UNCHANGED vars
  <2>1. /\ UNCHANGED <<queue, adding>>
        /\ Looking \subseteq Looking'
        /\ Asleep' \subseteq Asleep
        /\ Locked' => Locked
    BY <1>18 DEF Looking, Asleep, Locked, vars
  <2>2. QED
    BY <2>1, QueueFrame
<1>19. QED
  BY <1>1, <1>2, <1>3, <1>4, <1>5, <1>6, <1>7, <1>8, <1>9, <1>10, <1>11,
     <1>12, <1>13, <1>14, <1>15, <1>16, <1>17, <1>18
     DEF Next, WorkerStep

\* The notify_one after the unlock of addQuery is enough: a query never waits
\* in the queue with every worker asleep and no notification on its way.
\* Inductive together with: the holder of queue_mutex that is about to block
\* has found the queue empty.
THEOREM NoStrandedQueryHolds == Spec => []NoStrandedQuery
<1>1. Init => QueueInv
  <2> SUFFICES ASSUME Init PROVE QueueInv
    OBVIOUS
  <2>1. IsFiniteSet(adding)
    BY FS_EmptySet DEF Init
  <2>2. ~Locked /\ NoStrandedQuery
    BY DEF Init, Locked, NoStrandedQuery
  <2>3. QED
    BY <2>1, <2>2 DEF QueueInv
<1>2. QueueInv => NoStrandedQuery
  BY DEF QueueInv
<1>3. QED
  BY <1>1, <1>2, InitTypeInv, TypeOKStep, RegistersStep, QueueInvStep, PTL
     DEF Spec, TypeInv

-----------------------------------------------------------------------------
(* Shutdown *)

LEMMA StopInvStep == TypeInv /\ StopInv /\ [Next]_vars => StopInv'
<1> SUFFICES ASSUME TypeInv, StopInv, [Next]_vars PROVE StopInv'
  OBVIOUS
<1> USE DEF TypeInv, TypeOK, StopInv, Goto, poolVars, planVars, trackVars
<1>1. ASSUME NEW q \in Queries, addQuery(q) PROVE StopInv'
  BY <1>1 DEF addQuery
<1>2. ASSUME NEW q \in Queries, notify_one(q) PROVE StopInv'
  BY <1>2 DEF notify_one
<1>3. ASSUME NEW w \in Workers, PopFront(w) PROVE StopInv'
  BY <1>3 DEF PopFront
<1>4. ASSUME NEW w \in Workers,
             Exit(w) \/ TestFails(w) \/ Block(w) \/ SpuriousWakeup(w)
      PROVE  StopInv'
  BY <1>4 DEF Exit, TestFails, Block, SpuriousWakeup
<1>5. ASSUME NEW w \in Workers,
             EnterRunning(w) \/ LeaveRunning(w)
      PROVE  StopInv'
  BY <1>5 DEF EnterRunning, LeaveRunning
<1>6. ASSUME NEW w \in Workers, NothingToSend(w) \/ Finish(w) PROVE StopInv'
  BY <1>6 DEF NothingToSend, Finish
<1>7. ASSUME NEW w \in Workers, sendQueryPlan(w) PROVE StopInv'
  BY <1>7 DEF sendQueryPlan, Draws, notifyHost, PlanItem
<1>8. ASSUME NEW w \in Workers, sendQueryPlanParallel(w) PROVE StopInv'
  BY <1>8 DEF sendQueryPlanParallel, Draws
<1>9. ASSUME NEW w \in Workers, SendItem(w) PROVE StopInv'
  BY <1>9 DEF SendItem, Unsent, notifyHost
<1>10. ASSUME NEW w \in Workers, WaitForBatch(w) PROVE StopInv'
  BY <1>10 DEF WaitForBatch, BatchIds, Tracker!waitNextCompletions
<1>11. ASSUME NEW w \in Workers, BatchCompleted(w) PROVE StopInv'
  BY <1>11 DEF BatchCompleted, Tracker!ReturnTrue
<1>12. ASSUME NEW w \in Workers, BatchAbandoned(w) PROVE StopInv'
  BY <1>12 DEF BatchAbandoned, Tracker!ReturnFalse
<1>13. ASSUME NEW w \in Workers,
             TrackerSleep(w) \/ TrackerSpuriousWakeup(w)
      PROVE  StopInv'
  BY <1>13 DEF TrackerSleep, TrackerSpuriousWakeup, Tracker!Sleep,
     Tracker!SpuriousWakeup
<1>14. ASSUME NEW q \in Queries, NEW i \in NodeIds,
             Execute(q, i)
      PROVE  StopInv'
  BY <1>14 DEF Execute
<1>15. ASSUME NEW q \in Queries, NEW i \in NodeIds,
             TaskFinished(q, i)
      PROVE  StopInv'
  BY <1>15 DEF TaskFinished, Tracker!markCompleted
<1>16. CASE ListenerNotify
  BY <1>16 DEF ListenerNotify, Tracker!notify_all
<1>17. CASE Destructor
  <2>1. CASE SetStopFlag
    BY <2>1 DEF SetStopFlag
  <2>2. CASE StopTracker
    BY <2>2 DEF StopTracker, Tracker!stop
  <2>3. CASE StopTrackerNotify
    BY <2>3 DEF StopTrackerNotify, Tracker!notify_all
  <2>4. CASE NotifyWorkers
    BY <2>4 DEF NotifyWorkers
  <2>5. CASE Join
    BY <2>5 DEF Join
  <2>6. QED
    BY <1>17, <2>1, <2>2, <2>3, <2>4, <2>5 DEF Destructor
<1>18. CASE UNCHANGED vars
  BY <1>18 DEF vars
<1>19. QED
  BY <1>1, <1>2, <1>3, <1>4, <1>5, <1>6, <1>7, <1>8, <1>9, <1>10, <1>11,
     <1>12, <1>13, <1>14, <1>15, <1>16, <1>17, <1>18
     DEF Next, WorkerStep

\* A worker thread ends only with the queue drained for good, and when the
\* destructor has joined them all every accepted query is in finished.
THEOREM StopDrainsHolds == Spec => []StopDrains
<1>1. Init => TypeInv /\ OnePlace /\ StopInv
  <2> SUFFICES ASSUME Init PROVE OnePlace /\ StopInv
    BY InitTypeInv
  <2>1. OnePlace
    BY DEF Init, OnePlace, QueueDistinct, HoldersDistinct, Accounted,
           RunningExact, InQueue, Held, Holds, Working
  <2>2. StopInv
    BY DEF Init, StopInv, Tracker!Init
  <2>3. QED
    BY <2>1, <2>2
<1>2. TypeInv /\ OnePlace /\ StopInv => StopDrains
  <2> SUFFICES ASSUME TypeInv, OnePlace, StopInv PROVE StopDrains
    OBVIOUS
  <2>1. (\E w \in Workers : pc[w] = "exited") => queue = <<>>
    BY DEF StopInv
  <2>2. ASSUME dtor = "gone", Workers # {}
        PROVE  finished = added
    <3>1. \A w \in Workers : ~Holds(w)
      BY <2>2 DEF StopInv, Holds
    <3>2. queue = <<>>
      BY <2>2 DEF StopInv
    <3>3. \A q \in Queries : ~Held(q) /\ ~InQueue(q)
      BY <3>1, <3>2 DEF Held, InQueue
    <3>4. QED
      BY <3>3 DEF OnePlace, Accounted, TypeInv, TypeOK
  <2>3. QED
    BY <2>1, <2>2 DEF StopDrains
<1>3. QED
  BY <1>1, <1>2, TypeOKStep, RegistersStep, OnePlaceStep, StopInvStep, PTL
     DEF Spec, TypeInv

-----------------------------------------------------------------------------
(* The manager implements the service *)

LEMMA InWorkIs == \A q : q \in inWork <=> Held(q)
BY DEF inWork, Held

\* A worker that holds nothing leaves room for another query.
LEMMA RoomForOne ==
    ASSUME NEW w \in Workers, ~Holds(w)
    PROVE  Cardinality(inWork) < Cardinality(Workers)
<1> DEFINE H == {v \in Workers : Holds(v)}
           f == [v \in H |-> cur[v]]
<1>1. f \in Surjection(H, inWork)
  BY DEF Surjection, inWork
<1>2. /\ IsFiniteSet(Workers \ {w}) /\ Cardinality(Workers \ {w}) = Cardinality(Workers) - 1
      /\ Cardinality(Workers) \in Nat
  BY WorkersAssumption, FS_RemoveElement, FS_CardinalityType
<1>3. H \in SUBSET (Workers \ {w})
  OBVIOUS
<1> HIDE DEF H, f
<1>4. IsFiniteSet(H) /\ Cardinality(H) <= Cardinality(Workers) - 1
  BY <1>2, <1>3, FS_Subset
<1>5. IsFiniteSet(inWork) /\ Cardinality(inWork) <= Cardinality(H)
  BY <1>1, <1>4, FS_Surjection
<1>6. Cardinality(inWork) \in Nat /\ Cardinality(H) \in Nat
  BY <1>4, <1>5, FS_CardinalityType
<1> QED
  BY <1>2, <1>4, <1>5, <1>6

\* The steps the caller does not see.
LEMMA ServiceFrame ==
    ASSUME UNCHANGED <<queue, finished, cur, phase>>,
           \A v \in Workers : Holds(v)' = Holds(v)
    PROVE  UNCHANGED Service!serviceVars
<1>1. inWork' = inWork
  BY DEF inWork
<1> QED
  BY <1>1 DEF Service!serviceVars

\* The service counts as FiniteSets does.
LEMMA SameCardinality == \A S : Service!Cardinality(S) = Cardinality(S)
BY DEF Service!Cardinality, Cardinality

LEMMA ServiceInit == Init => Service!Init
<1> SUFFICES ASSUME Init PROVE Service!Init
  OBVIOUS
<1>1. \A v \in Workers : ~Holds(v)
  BY DEF Init, Holds
<1>2. inWork = {}
  BY <1>1 DEF inWork
<1>3. phase = "open"
  BY DEF phase, Init
<1> QED
  BY <1>2, <1>3 DEF Service!Init, Init

LEMMA ServiceStep ==
    ASSUME Workers # {}, TypeInv, OnePlace, StopInv, [Next]_vars
    PROVE  [Service!Next]_Service!serviceVars
<1> USE DEF TypeInv, TypeOK, PCs, Goto, poolVars, planVars, trackVars
<1> DEFINE Seen == [Service!Next]_Service!serviceVars
<1>1. ASSUME NEW q \in Queries, addQuery(q) PROVE Seen
  <2>1. /\ dtor = "alive" /\ q \notin added /\ queue' = Append(queue, q)
        /\ UNCHANGED <<finished, cur, pc, dtor>>
    BY <1>1 DEF addQuery
  <2>2. q \notin finished /\ ~Held(q) /\ ~InQueue(q)
    BY <2>1 DEF OnePlace, Accounted
  <2>3. q \notin inWork \cup finished /\ \A n \in DOMAIN queue : queue[n] # q
    BY <2>2, InWorkIs DEF InQueue
  <2>4. phase = "open" /\ phase' = phase /\ inWork' = inWork
    BY <2>1 DEF phase, inWork, Holds
  <2>5. Service!Accept(q)
    BY <2>1, <2>3, <2>4 DEF Service!Accept
  <2> QED
    BY <2>5 DEF Service!Next
<1>2. ASSUME NEW q \in Queries, notify_one(q) PROVE Seen
  <2>1. /\ UNCHANGED <<queue, finished, cur, phase>>
        /\ \A v \in Workers : Holds(v)' = Holds(v)
    BY <1>2 DEF Holds, notify_one, phase
  <2> QED
    BY <2>1, ServiceFrame
<1>3. ASSUME NEW w \in Workers, PopFront(w) PROVE Seen
  <2> DEFINE h == Head(queue)
  <2>1. /\ pc[w] = "check" /\ queue # <<>> /\ queue' = Tail(queue)
        /\ cur' = [cur EXCEPT ![w] = h]
        /\ pc' = [pc EXCEPT ![w] = "popped"]
        /\ UNCHANGED <<finished, dtor>>
    BY <1>3 DEF PopFront
  <2>2. h \in Queries /\ InQueue(h)
    <3>1. Head(queue) = queue[1] /\ 1 \in DOMAIN queue /\ queue[1] \in Queries
      BY <2>1
    <3> QED
      BY <3>1 DEF InQueue
  <2>3. h \notin inWork \cup finished
    BY <2>2, InWorkIs DEF OnePlace, Accounted
  <2>4. ~Holds(w) /\ Holds(w)' /\ cur'[w] = h
        /\ \A v \in Workers : v # w => Holds(v)' = Holds(v) /\ cur'[v] = cur[v]
    BY <2>1 DEF Holds
  <2>5. Cardinality(inWork) < Cardinality(Workers)
    BY <2>4, RoomForOne
  <2>6. phase # "closed" /\ phase' = phase
    BY <2>1 DEF phase, StopInv
  <2> HIDE DEF h
  <2>7. inWork' = inWork \cup {h}
    BY <2>4 DEF inWork
  <2>8. Head(queue) \notin inWork \cup finished /\ inWork' = inWork \cup {Head(queue)}
    BY <2>3, <2>7 DEF h
  <2>9. queue # <<>> /\ queue' = Tail(queue) /\ finished' = finished
    BY <2>1
  <2>10. Service!Cardinality(inWork) < Service!Cardinality(Workers)
    BY <2>5, SameCardinality
  <2>11. Service!TakeUp
    BY <2>6, <2>8, <2>9, <2>10 DEF Service!TakeUp
  <2> QED
    BY <2>11 DEF Service!Next
<1>4. ASSUME NEW w \in Workers,
             \/ Exit(w) \/ TestFails(w) \/ Block(w) \/ SpuriousWakeup(w)
             \/ EnterRunning(w) \/ LeaveRunning(w) \/ NothingToSend(w)
      PROVE  Seen
  <2>1. /\ UNCHANGED <<queue, finished, cur, phase>>
        /\ \A v \in Workers : Holds(v)' = Holds(v)
    BY <1>4 DEF Holds, Exit, TestFails, Block, SpuriousWakeup, EnterRunning, LeaveRunning,
                NothingToSend, phase
  <2> QED
    BY <2>1, ServiceFrame
<1>5. ASSUME NEW w \in Workers, Finish(w) PROVE Seen
  <2>1. /\ UNCHANGED <<queue, dtor>> /\ finished' = finished \cup {cur[w]}
        /\ pc[w] = "done" /\ Holds(w) /\ ~Holds(w)'
        /\ \A v \in Workers : v # w => Holds(v)' = Holds(v) /\ cur'[v] = cur[v]
    BY <1>5 DEF Finish, Holds
  <2>2. cur[w] \in Queries /\ cur[w] \in inWork
    BY <2>1 DEF Registers, inWork
  <2>3. \A v \in Workers : v # w /\ Holds(v) => cur[v] # cur[w]
    BY <2>1 DEF OnePlace, HoldersDistinct
  <2>4. inWork' = inWork \ {cur[w]}
    BY <2>1, <2>3 DEF inWork
  <2>5. phase # "closed" /\ phase' = phase
    BY <2>1 DEF phase, StopInv
  <2>6. Service!End(cur[w])
    BY <2>1, <2>2, <2>4, <2>5 DEF Service!End
  <2> QED
    BY <2>2, <2>6 DEF Service!Next
<1>6. ASSUME NEW w \in Workers,
             sendQueryPlan(w) \/ sendQueryPlanParallel(w) \/ SendItem(w)
      PROVE  Seen
  <2>1. /\ UNCHANGED <<queue, finished, cur, phase>>
        /\ \A v \in Workers : Holds(v)' = Holds(v)
    <3>1. CASE sendQueryPlan(w)
      BY <3>1 DEF Holds, sendQueryPlan, phase
    <3>2. CASE sendQueryPlanParallel(w)
      BY <3>2 DEF Holds, sendQueryPlanParallel, phase
    <3>3. CASE SendItem(w)
      BY <3>3 DEF Holds, SendItem, phase
    <3> QED
      BY <1>6, <3>1, <3>2, <3>3
  <2> QED
    BY <2>1, ServiceFrame
<1>7. ASSUME NEW w \in Workers,
             \/ WaitForBatch(w) \/ BatchCompleted(w) \/ BatchAbandoned(w)
             \/ TrackerSleep(w) \/ TrackerSpuriousWakeup(w)
      PROVE  Seen
  <2>1. /\ UNCHANGED <<queue, finished, cur, phase>>
        /\ \A v \in Workers : Holds(v)' = Holds(v)
    <3>1. CASE WaitForBatch(w)
      BY <3>1 DEF Holds, WaitForBatch, phase
    <3>2. CASE BatchCompleted(w)
      BY <3>2 DEF Holds, BatchCompleted, phase
    <3>3. CASE BatchAbandoned(w)
      BY <3>3 DEF Holds, BatchAbandoned, phase
    <3>4. CASE TrackerSleep(w) \/ TrackerSpuriousWakeup(w)
      BY <3>4 DEF Holds, TrackerSleep, TrackerSpuriousWakeup, phase
    <3> QED
      BY <1>7, <3>1, <3>2, <3>3, <3>4
  <2> QED
    BY <2>1, ServiceFrame
<1>8. ASSUME NEW q \in Queries, NEW i \in NodeIds, Execute(q, i) \/ TaskFinished(q, i)
      PROVE  Seen
  <2>1. /\ UNCHANGED <<queue, finished, cur, phase>>
        /\ \A v \in Workers : Holds(v)' = Holds(v)
    BY <1>8 DEF Holds, Execute, TaskFinished, phase
  <2> QED
    BY <2>1, ServiceFrame
<1>9. CASE ListenerNotify \/ UNCHANGED vars
  <2>1. /\ UNCHANGED <<queue, finished, cur, phase>>
        /\ \A v \in Workers : Holds(v)' = Holds(v)
    BY <1>9 DEF Holds, ListenerNotify, vars, phase
  <2> QED
    BY <2>1, ServiceFrame
<1>10. CASE StopTracker \/ StopTrackerNotify \/ NotifyWorkers
  <2>1. /\ UNCHANGED <<queue, finished, cur, phase>>
        /\ \A v \in Workers : Holds(v)' = Holds(v)
    BY <1>10 DEF Holds, StopTracker, StopTrackerNotify, NotifyWorkers, phase
  <2> QED
    BY <2>1, ServiceFrame
<1>11. CASE SetStopFlag
  <2>1. /\ UNCHANGED <<queue, finished, inWork>> /\ phase = "open" /\ phase' = "closing"
    BY <1>11 DEF SetStopFlag, Holds, inWork, phase
  <2>2. Service!Close
    BY <2>1 DEF Service!Close
  <2> QED
    BY <2>2 DEF Service!Next
<1>12. CASE Join
  <2>1. /\ UNCHANGED <<queue, finished, inWork>> /\ phase = "closing" /\ phase' = "closed"
    BY <1>12 DEF Join, Holds, inWork, phase
  <2>2. queue = <<>> /\ inWork = {}
    <3>1. \A w \in Workers : ~Holds(w)
      BY <1>12 DEF Join, Holds
    <3> QED
      BY <1>12, <3>1 DEF Join, StopInv, inWork
  <2>3. Service!Gone
    BY <2>1, <2>2 DEF Service!Gone
  <2> QED
    BY <2>3 DEF Service!Next
<1> QED
  BY <1>1, <1>2, <1>3, <1>4, <1>5, <1>6, <1>7, <1>8, <1>9, <1>10, <1>11, <1>12
     DEF Next, WorkerStep, Destructor

\* The QueryManager implements QueryService: the steps of callers, workers,
\* listener and destructor that can be seen from outside accept a query, take
\* up the oldest one with a free thread, end it, close the manager, or end it
\* with nothing left to do; all others change nothing the caller can see.
THEOREM ImplementsService == ASSUME Workers # {} PROVE Spec => Service!Spec
<1>1. Init => TypeInv /\ OnePlace /\ StopInv /\ Service!Init
  <2> SUFFICES ASSUME Init PROVE OnePlace /\ StopInv
    BY InitTypeInv, ServiceInit
  <2>1. OnePlace
    BY DEF Init, OnePlace, QueueDistinct, HoldersDistinct, Accounted,
           RunningExact, InQueue, Held, Holds, Working
  <2>2. StopInv
    BY DEF Init, StopInv, Tracker!Init
  <2> QED
    BY <2>1, <2>2
<1>2. TypeInv /\ OnePlace /\ StopInv /\ [Next]_vars
        => [Service!Next]_Service!serviceVars
  BY ServiceStep
<1> QED
  BY <1>1, <1>2, TypeOKStep, RegistersStep, OnePlaceStep, StopInvStep, PTL
     DEF Spec, TypeInv, Service!Spec

=============================================================================
