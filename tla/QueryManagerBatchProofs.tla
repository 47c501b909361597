----------------------- MODULE QueryManagerBatchProofs -----------------------
(***************************************************************************)
(* Machine-checked proofs about the batches of parallel queries, for any   *)
(* number of queries, workers, plan ids and batches.                       *)
(***************************************************************************)
EXTENDS QueryManagerProofs

\* A worker is inside the tracker exactly while it waits for its batch.
WaitInv ==
    \A w \in Workers :
        /\ waiting[w] # "out" <=> pc[w] = "wait"
        /\ pc[w] = "wait" => want[w] = BatchIds(w)

\* A plan id belongs to one query, and a query that no worker has planned yet
\* has none.
PlanIdInv ==
    /\ \A q, r \in Queries : planid[q] = planid[r] /\ planid[q] # NoPlan => q = r
    /\ \A w \in Workers :
          pc[w] \in {"popped", "process"} => planid[cur[w]] = NoPlan
    /\ \A q \in Queries : q \notin added \/ InQueue(q) => planid[q] = NoPlan

\* Behind a worker's batch everything is reported, ahead of it nothing sent.
BatchInv ==
    \A w \in Workers : Sending(w) =>
        \A k \in DOMAIN Batches[cur[w]] : \A i \in Batches[cur[w]][k] :
            /\ k < batch[w] => item[cur[w]][i] = "acked"
            /\ k > batch[w] => item[cur[w]][i] = "unsent"
            /\ k = batch[w] /\ pc[w] = "wait" => item[cur[w]][i] # "unsent"

\* completed_ids_ holds what was reported, and nothing else.
CompletionInv ==
    \A p \in PlanIds, i \in NodeIds : <<p, i>> \in completed_ids_ =>
        \E q \in Queries : planid[q] = p /\ item[q][i] = "acked"

\* Requests of a parallel query are out only for its worker's batch.
AtBatch(q, i) ==
    \E w \in Workers : Sending(w) /\ cur[w] = q /\ i \in Batches[q][batch[w]]

-----------------------------------------------------------------------------
(* The batches *)

LEMMA WaitFrame ==
    ASSUME WaitInv,
           \A v \in Workers :
              /\ waiting'[v] # "out" <=> waiting[v] # "out"
              /\ pc'[v] = "wait" <=> pc[v] = "wait"
              /\ pc[v] = "wait" => /\ want'[v] = want[v]
                                  /\ cur'[v] = cur[v]
                                  /\ batch'[v] = batch[v]
                                  /\ planid'[cur[v]] = planid[cur[v]]
    PROVE  WaitInv'
  BY DEF WaitInv, BatchIds

LEMMA WaitInvStep == TypeInv /\ OnePlace /\ WaitInv /\ [Next]_vars => WaitInv'
<1> SUFFICES ASSUME TypeInv, OnePlace, WaitInv, [Next]_vars PROVE WaitInv'
  OBVIOUS
<1> DEFINE Kept(W) ==
      \A v \in W :
         /\ waiting'[v] # "out" <=> waiting[v] # "out"
         /\ pc'[v] = "wait" <=> pc[v] = "wait"
         /\ pc[v] = "wait" => /\ want'[v] = want[v]
                             /\ cur'[v] = cur[v]
                             /\ batch'[v] = batch[v]
                             /\ planid'[cur[v]] = planid[cur[v]]
<1> USE DEF TypeInv, TypeOK, Tracker!TypeOK, Goto, poolVars, planVars, trackVars
<1>1. ASSUME NEW q \in Queries, addQuery(q) PROVE WaitInv'
  <2>1. Kept(Workers)
    BY <1>1 DEF addQuery
  <2>2. QED
    BY <2>1, WaitFrame
<1>2. ASSUME NEW q \in Queries, notify_one(q) PROVE WaitInv'
  <2>1. Kept(Workers)
    BY <1>2 DEF notify_one
  <2>2. QED
    BY <2>1, WaitFrame
<1>3. ASSUME NEW w \in Workers, PopFront(w) PROVE WaitInv'
  <2>1. Kept(Workers)
    BY <1>3 DEF PopFront
  <2>2. QED
    BY <2>1, WaitFrame
<1>4. ASSUME NEW w \in Workers,
             Exit(w) \/ TestFails(w) \/ Block(w) \/ SpuriousWakeup(w)
      PROVE  WaitInv'
  <2>1. Kept(Workers)
    BY <1>4 DEF Exit, TestFails, Block, SpuriousWakeup
  <2>2. QED
    BY <2>1, WaitFrame
<1>5. ASSUME NEW w \in Workers,
             EnterRunning(w) \/ LeaveRunning(w)
      PROVE  WaitInv'
  <2>1. Kept(Workers)
    BY <1>5 DEF EnterRunning, LeaveRunning
  <2>2. QED
    BY <2>1, WaitFrame
<1>6. ASSUME NEW w \in Workers, NothingToSend(w) \/ Finish(w) PROVE WaitInv'
  <2>1. Kept(Workers)
    BY <1>6 DEF NothingToSend, Finish
  <2>2. QED
    BY <2>1, WaitFrame
<1>7. ASSUME NEW w \in Workers, sendQueryPlan(w) PROVE WaitInv'
  <2>1. \A v \in Workers : pc[v] = "wait" => cur[v] # cur[w]
    BY <1>7 DEF sendQueryPlan, OnePlace, HoldersDistinct, Holds
  <2>2. Kept(Workers)
    BY <1>7, <2>1 DEF sendQueryPlan, Draws, Registers, Holds
  <2>3. QED
    BY <2>2, WaitFrame
<1>8. ASSUME NEW w \in Workers, sendQueryPlanParallel(w) PROVE WaitInv'
  <2>1. \A v \in Workers : pc[v] = "wait" => cur[v] # cur[w]
    BY <1>8 DEF sendQueryPlanParallel, OnePlace, HoldersDistinct, Holds
  <2>2. Kept(Workers)
    BY <1>8, <2>1 DEF sendQueryPlanParallel, Draws, Registers, Holds
  <2>3. QED
    BY <2>2, WaitFrame
<1>9. ASSUME NEW w \in Workers, SendItem(w) PROVE WaitInv'
  <2>1. UNCHANGED <<pc, cur, batch, planid, waiting, want>>
    BY <1>9 DEF SendItem
  <2>2. QED
    BY <2>1, WaitFrame
<1>10. ASSUME NEW w \in Workers, WaitForBatch(w) PROVE WaitInv'
  <2>1. Kept(Workers \ {w})
    BY <1>10 DEF WaitForBatch, Tracker!waitNextCompletions
  <2>2. /\ pc'[w] = "wait" /\ waiting'[w] = "check" /\ want'[w] = BatchIds(w)
        /\ UNCHANGED <<cur, batch, planid>>
    BY <1>10 DEF WaitForBatch, Tracker!waitNextCompletions
  <2>3. BatchIds(w)' = BatchIds(w)
    BY <2>2 DEF BatchIds
  <2>4. \A v \in Workers \ {w} : pc[v] = "wait" => BatchIds(v)' = BatchIds(v)
    BY <2>1, <2>2 DEF BatchIds
  <2>5. ASSUME NEW v \in Workers \ {w}
        PROVE  /\ waiting'[v] # "out" <=> pc'[v] = "wait"
               /\ pc'[v] = "wait" => want'[v] = BatchIds(v)'
    <3>1. /\ waiting[v] # "out" <=> pc[v] = "wait"
          /\ pc[v] = "wait" => want[v] = BatchIds(v)
      BY DEF WaitInv
    <3>2. QED
      BY <2>1, <2>4, <3>1
  <2>6. QED
    BY <2>2, <2>3, <2>5 DEF WaitInv
<1>11. ASSUME NEW w \in Workers, BatchCompleted(w) PROVE WaitInv'
  <2>1. Kept(Workers \ {w})
    BY <1>11 DEF BatchCompleted, Tracker!ReturnTrue
  <2>2. pc'[w] # "wait" /\ waiting'[w] = "out"
    BY <1>11 DEF BatchCompleted, Tracker!ReturnTrue
  <2>3. QED
    BY <2>1, <2>2 DEF WaitInv, BatchIds
<1>12. ASSUME NEW w \in Workers, BatchAbandoned(w) PROVE WaitInv'
  <2>1. Kept(Workers \ {w})
    BY <1>12 DEF BatchAbandoned, Tracker!ReturnFalse
  <2>2. pc'[w] # "wait" /\ waiting'[w] = "out"
    BY <1>12 DEF BatchAbandoned, Tracker!ReturnFalse
  <2>3. QED
    BY <2>1, <2>2 DEF WaitInv, BatchIds
<1>13. ASSUME NEW w \in Workers,
             TrackerSleep(w) \/ TrackerSpuriousWakeup(w)
      PROVE  WaitInv'
  <2>1. Kept(Workers)
    BY <1>13 DEF TrackerSleep, TrackerSpuriousWakeup, Tracker!Sleep,
     Tracker!SpuriousWakeup
  <2>2. QED
    BY <2>1, WaitFrame
<1>14. ASSUME NEW q \in Queries, NEW i \in NodeIds,
             Execute(q, i)
      PROVE  WaitInv'
  <2>1. Kept(Workers)
    BY <1>14 DEF Execute
  <2>2. QED
    BY <2>1, WaitFrame
<1>15. ASSUME NEW q \in Queries, NEW i \in NodeIds,
             TaskFinished(q, i)
      PROVE  WaitInv'
  <2>1. Kept(Workers)
    BY <1>15 DEF TaskFinished, Tracker!markCompleted
  <2>2. QED
    BY <2>1, WaitFrame
<1>16. CASE ListenerNotify
  <2>1. Kept(Workers)
    BY <1>16 DEF ListenerNotify, Tracker!notify_all
  <2>2. QED
    BY <2>1, WaitFrame
<1>17. CASE Destructor
  <2>1. Kept(Workers)
    <3>1. CASE SetStopFlag \/ Join
      BY <3>1 DEF SetStopFlag, Join
    <3>2. CASE StopTracker
      BY <3>2 DEF StopTracker, Tracker!stop
    <3>3. CASE StopTrackerNotify
      BY <3>3 DEF StopTrackerNotify, Tracker!notify_all
    <3>4. CASE NotifyWorkers
      BY <3>4 DEF NotifyWorkers
    <3>5. QED
      BY <1>17, <3>1, <3>2, <3>3, <3>4 DEF Destructor
  <2>2. QED
    BY <2>1, WaitFrame
<1>18. CASE UNCHANGED vars
  <2>1. Kept(Workers)
    BY <1>18 DEF vars
  <2>2. QED
    BY <2>1, WaitFrame
<1>19. QED
  BY <1>1, <1>2, <1>3, <1>4, <1>5, <1>6, <1>7, <1>8, <1>9, <1>10, <1>11,
     <1>12, <1>13, <1>14, <1>15, <1>16, <1>17, <1>18
     DEF Next, WorkerStep

\* Plan ids: the queries that have one are held or finished.
LEMMA PlanIdFrame ==
    ASSUME PlanIdInv, UNCHANGED planid,
           \A q \in Queries : (q \notin added \/ InQueue(q))'
                                => q \notin added \/ InQueue(q),
           \A v \in Workers : pc'[v] \in {"popped", "process"} =>
              pc[v] \in {"popped", "process"} /\ cur'[v] = cur[v]
    PROVE  PlanIdInv'
  BY DEF PlanIdInv

LEMMA PlanIdInvStep ==
    ASSUME UniqueDraws
    PROVE  TypeInv /\ OnePlace /\ PlanIdInv /\ [Next]_vars => PlanIdInv'
<1> SUFFICES ASSUME TypeInv, OnePlace, PlanIdInv, [Next]_vars PROVE PlanIdInv'
  OBVIOUS
<1> USE DEF TypeInv, TypeOK, Goto, poolVars, planVars, trackVars
<1>1. ASSUME NEW q \in Queries, addQuery(q) PROVE PlanIdInv'
  <2>1. /\ UNCHANGED <<planid, pc, cur>>
        /\ q \notin added
        /\ added' = added \cup {q}
        /\ queue' = Append(queue, q)
    BY <1>1 DEF addQuery
  <2>2. \A n \in DOMAIN queue' : queue'[n] = q \/ (n \in DOMAIN queue /\ queue'[n] = queue[n])
    <3>1. /\ DOMAIN queue' = DOMAIN queue \cup {Len(queue) + 1}
          /\ queue'[Len(queue) + 1] = q
          /\ \A n \in DOMAIN queue : queue'[n] = queue[n]
      BY <2>1, PushLemma
    <3>2. QED
      BY <3>1
  <2>3. QED
    BY <2>1, <2>2, PlanIdFrame DEF InQueue
<1>2. ASSUME NEW q \in Queries, notify_one(q) PROVE PlanIdInv'
  <2>1. /\ UNCHANGED <<planid, queue, added>>
        /\ \A v \in Workers : pc'[v] \in {"popped", "process"} =>
              pc[v] \in {"popped", "process"} /\ cur'[v] = cur[v]
    BY <1>2 DEF notify_one
  <2>2. QED
    BY <2>1, PlanIdFrame DEF InQueue
<1>3. ASSUME NEW w \in Workers, PopFront(w) PROVE PlanIdInv'
  <2>1. /\ UNCHANGED <<planid, added>>
        /\ queue # <<>>
        /\ queue' = Tail(queue)
        /\ cur' = [cur EXCEPT ![w] = Head(queue)]
        /\ pc' = [pc EXCEPT ![w] = "popped"]
    BY <1>3 DEF PopFront
  <2>2. \A n \in DOMAIN queue' : n + 1 \in DOMAIN queue /\ queue'[n] = queue[n + 1]
    BY <2>1
  <2>3. Head(queue) = queue[1] /\ 1 \in DOMAIN queue /\ Head(queue) \in Queries
    BY <2>1
  <2>4. planid[Head(queue)] = NoPlan
    BY <2>3 DEF PlanIdInv, InQueue
  <2>5. \A q \in Queries : InQueue(q)' => InQueue(q)
    BY <2>2 DEF InQueue
  <2>6. \A v \in Workers : pc'[v] \in {"popped", "process"} => planid[cur'[v]] = NoPlan
    BY <2>1, <2>4 DEF PlanIdInv
  <2>7. QED
    BY <2>1, <2>5, <2>6 DEF PlanIdInv
<1>4. ASSUME NEW w \in Workers,
             Exit(w) \/ TestFails(w) \/ Block(w) \/ SpuriousWakeup(w)
      PROVE  PlanIdInv'
  <2>1. /\ UNCHANGED <<planid, queue, added>>
        /\ \A v \in Workers : pc'[v] \in {"popped", "process"} =>
              pc[v] \in {"popped", "process"} /\ cur'[v] = cur[v]
    BY <1>4 DEF Exit, TestFails, Block, SpuriousWakeup
  <2>2. QED
    BY <2>1, PlanIdFrame DEF InQueue
<1>5. ASSUME NEW w \in Workers,
             EnterRunning(w) \/ LeaveRunning(w)
      PROVE  PlanIdInv'
  <2>1. /\ UNCHANGED <<planid, queue, added>>
        /\ \A v \in Workers : pc'[v] \in {"popped", "process"} =>
              pc[v] \in {"popped", "process"} /\ cur'[v] = cur[v]
    BY <1>5 DEF EnterRunning, LeaveRunning
  <2>2. QED
    BY <2>1, PlanIdFrame DEF InQueue
<1>6. ASSUME NEW w \in Workers, NothingToSend(w) \/ Finish(w) PROVE PlanIdInv'
  <2>1. /\ UNCHANGED <<planid, queue, added>>
        /\ \A v \in Workers : pc'[v] \in {"popped", "process"} =>
              pc[v] \in {"popped", "process"} /\ cur'[v] = cur[v]
    BY <1>6 DEF NothingToSend, Finish
  <2>2. QED
    BY <2>1, PlanIdFrame DEF InQueue
<1>7. ASSUME NEW w \in Workers, sendQueryPlan(w) PROVE PlanIdInv'
  <2>1. PICK p \in PlanIds : /\ p \notin {planid[r] : r \in Queries}
                              /\ planid' = [planid EXCEPT ![cur[w]] = p]
    BY <1>7 DEF sendQueryPlan, Draws
  <2>2. Holds(w) /\ cur[w] \in Queries /\ UNCHANGED <<queue, added, cur>>
    BY <1>7 DEF sendQueryPlan, Registers, Holds
  <2>3. cur[w] \in added /\ ~InQueue(cur[w])
    BY <2>2 DEF OnePlace, Accounted, Held
  <2>4. \A v \in Workers : pc'[v] \in {"popped", "process"} =>
              pc[v] \in {"popped", "process"} /\ v # w /\ cur[v] # cur[w]
    BY <1>7, <2>2 DEF sendQueryPlan, OnePlace, HoldersDistinct, Holds
  <2>5. \A v \in Workers : pc'[v] \in {"popped", "process"} => planid'[cur'[v]] = NoPlan
    BY <2>1, <2>2, <2>4 DEF PlanIdInv, Registers, Holds
  <2>6. \A q \in Queries : (q \notin added \/ InQueue(q))' => planid'[q] = NoPlan
    BY <2>1, <2>2, <2>3 DEF PlanIdInv, InQueue
  <2>7. \A q, r \in Queries : planid'[q] = planid'[r] /\ planid'[q] # NoPlan => q = r
    BY <2>1, <2>2 DEF PlanIdInv
  <2>8. QED
    BY <2>5, <2>6, <2>7 DEF PlanIdInv
<1>8. ASSUME NEW w \in Workers, sendQueryPlanParallel(w) PROVE PlanIdInv'
  <2>1. PICK p \in PlanIds : /\ p \notin {planid[r] : r \in Queries}
                              /\ planid' = [planid EXCEPT ![cur[w]] = p]
    BY <1>8 DEF sendQueryPlanParallel, Draws
  <2>2. Holds(w) /\ cur[w] \in Queries /\ UNCHANGED <<queue, added, cur>>
    BY <1>8 DEF sendQueryPlanParallel, Registers, Holds
  <2>3. cur[w] \in added /\ ~InQueue(cur[w])
    BY <2>2 DEF OnePlace, Accounted, Held
  <2>4. \A v \in Workers : pc'[v] \in {"popped", "process"} =>
              pc[v] \in {"popped", "process"} /\ v # w /\ cur[v] # cur[w]
    BY <1>8, <2>2 DEF sendQueryPlanParallel, OnePlace, HoldersDistinct, Holds
  <2>5. \A v \in Workers : pc'[v] \in {"popped", "process"} => planid'[cur'[v]] = NoPlan
    BY <2>1, <2>2, <2>4 DEF PlanIdInv, Registers, Holds
  <2>6. \A q \in Queries : (q \notin added \/ InQueue(q))' => planid'[q] = NoPlan
    BY <2>1, <2>2, <2>3 DEF PlanIdInv, InQueue
  <2>7. \A q, r \in Queries : planid'[q] = planid'[r] /\ planid'[q] # NoPlan => q = r
    BY <2>1, <2>2 DEF PlanIdInv
  <2>8. QED
    BY <2>5, <2>6, <2>7 DEF PlanIdInv
<1>9. ASSUME NEW w \in Workers, SendItem(w) PROVE PlanIdInv'
  <2>1. /\ UNCHANGED <<planid, queue, added>>
        /\ \A v \in Workers : pc'[v] \in {"popped", "process"} =>
              pc[v] \in {"popped", "process"} /\ cur'[v] = cur[v]
    BY <1>9 DEF SendItem, Unsent, notifyHost
  <2>2. QED
    BY <2>1, PlanIdFrame DEF InQueue
<1>10. ASSUME NEW w \in Workers, WaitForBatch(w) PROVE PlanIdInv'
  <2>1. /\ UNCHANGED <<planid, queue, added>>
        /\ \A v \in Workers : pc'[v] \in {"popped", "process"} =>
              pc[v] \in {"popped", "process"} /\ cur'[v] = cur[v]
    BY <1>10 DEF WaitForBatch, BatchIds, Tracker!waitNextCompletions
  <2>2. QED
    BY <2>1, PlanIdFrame DEF InQueue
<1>11. ASSUME NEW w \in Workers, BatchCompleted(w) PROVE PlanIdInv'
  <2>1. /\ UNCHANGED <<planid, queue, added>>
        /\ \A v \in Workers : pc'[v] \in {"popped", "process"} =>
              pc[v] \in {"popped", "process"} /\ cur'[v] = cur[v]
    BY <1>11 DEF BatchCompleted, Tracker!ReturnTrue
  <2>2. QED
    BY <2>1, PlanIdFrame DEF InQueue
<1>12. ASSUME NEW w \in Workers, BatchAbandoned(w) PROVE PlanIdInv'
  <2>1. /\ UNCHANGED <<planid, queue, added>>
        /\ \A v \in Workers : pc'[v] \in {"popped", "process"} =>
              pc[v] \in {"popped", "process"} /\ cur'[v] = cur[v]
    BY <1>12 DEF BatchAbandoned, Tracker!ReturnFalse
  <2>2. QED
    BY <2>1, PlanIdFrame DEF InQueue
<1>13. ASSUME NEW w \in Workers,
             TrackerSleep(w) \/ TrackerSpuriousWakeup(w)
      PROVE  PlanIdInv'
  <2>1. /\ UNCHANGED <<planid, queue, added>>
        /\ \A v \in Workers : pc'[v] \in {"popped", "process"} =>
              pc[v] \in {"popped", "process"} /\ cur'[v] = cur[v]
    BY <1>13 DEF TrackerSleep, TrackerSpuriousWakeup, Tracker!Sleep,
     Tracker!SpuriousWakeup
  <2>2. QED
    BY <2>1, PlanIdFrame DEF InQueue
<1>14. ASSUME NEW q \in Queries, NEW i \in NodeIds,
             Execute(q, i)
      PROVE  PlanIdInv'
  <2>1. /\ UNCHANGED <<planid, queue, added>>
        /\ \A v \in Workers : pc'[v] \in {"popped", "process"} =>
              pc[v] \in {"popped", "process"} /\ cur'[v] = cur[v]
    BY <1>14 DEF Execute
  <2>2. QED
    BY <2>1, PlanIdFrame DEF InQueue
<1>15. ASSUME NEW q \in Queries, NEW i \in NodeIds,
             TaskFinished(q, i)
      PROVE  PlanIdInv'
  <2>1. /\ UNCHANGED <<planid, queue, added>>
        /\ \A v \in Workers : pc'[v] \in {"popped", "process"} =>
              pc[v] \in {"popped", "process"} /\ cur'[v] = cur[v]
    BY <1>15 DEF TaskFinished, Tracker!markCompleted
  <2>2. QED
    BY <2>1, PlanIdFrame DEF InQueue
<1>16. CASE ListenerNotify
  <2>1. /\ UNCHANGED <<planid, queue, added>>
        /\ \A v \in Workers : pc'[v] \in {"popped", "process"} =>
              pc[v] \in {"popped", "process"} /\ cur'[v] = cur[v]
    BY <1>16 DEF ListenerNotify, Tracker!notify_all
  <2>2. QED
    BY <2>1, PlanIdFrame DEF InQueue
<1>17. CASE Destructor
  <2>1. /\ UNCHANGED <<planid, queue, added, cur>>
        /\ \A v \in Workers : pc'[v] \in {"popped", "process"} => pc'[v] = pc[v]
    <3>1. CASE NotifyWorkers
      BY <3>1 DEF NotifyWorkers
    <3>2. CASE SetStopFlag \/ StopTracker \/ StopTrackerNotify \/ Join
      BY <3>2 DEF SetStopFlag, StopTracker, StopTrackerNotify, Join
    <3>3. QED
      BY <1>17, <3>1, <3>2 DEF Destructor
  <2>2. QED
    BY <2>1, PlanIdFrame DEF InQueue
<1>18. CASE UNCHANGED vars
  <2>1. /\ UNCHANGED <<planid, queue, added>>
        /\ \A v \in Workers : pc'[v] \in {"popped", "process"} =>
              pc[v] \in {"popped", "process"} /\ cur'[v] = cur[v]
    BY <1>18 DEF vars
  <2>2. QED
    BY <2>1, PlanIdFrame DEF InQueue
<1>19. QED
  BY <1>1, <1>2, <1>3, <1>4, <1>5, <1>6, <1>7, <1>8, <1>9, <1>10, <1>11,
     <1>12, <1>13, <1>14, <1>15, <1>16, <1>17, <1>18
     DEF Next, WorkerStep

\* A report stays a report: completed_ids_ never runs ahead of the answers.
LEMMA CompletionInvStep ==
    TypeInv /\ PlanIdInv /\ CompletionInv /\ [Next]_vars => CompletionInv'
<1> SUFFICES ASSUME TypeInv, PlanIdInv, CompletionInv, [Next]_vars
             PROVE  CompletionInv'
  OBVIOUS
<1> USE DEF TypeInv, TypeOK, Goto, poolVars, planVars, trackVars
<1>1. ASSUME NEW q \in Queries, addQuery(q) PROVE CompletionInv'
  BY <1>1 DEF CompletionInv, addQuery
<1>2. ASSUME NEW q \in Queries, notify_one(q) PROVE CompletionInv'
  BY <1>2 DEF CompletionInv, notify_one
<1>3. ASSUME NEW w \in Workers, PopFront(w) PROVE CompletionInv'
  BY <1>3 DEF CompletionInv, PopFront
<1>4. ASSUME NEW w \in Workers,
             Exit(w) \/ TestFails(w) \/ Block(w) \/ SpuriousWakeup(w)
      PROVE  CompletionInv'
  BY <1>4 DEF CompletionInv, Exit, TestFails, Block, SpuriousWakeup
<1>5. ASSUME NEW w \in Workers,
             EnterRunning(w) \/ LeaveRunning(w)
      PROVE  CompletionInv'
  BY <1>5 DEF CompletionInv, EnterRunning, LeaveRunning
<1>6. ASSUME NEW w \in Workers,
             NothingToSend(w) \/ Finish(w)
      PROVE  CompletionInv'
  BY <1>6 DEF CompletionInv, NothingToSend, Finish
<1>7. ASSUME NEW w \in Workers, sendQueryPlan(w) PROVE CompletionInv'
  <2>1. PICK p \in PlanIds : planid' = [planid EXCEPT ![cur[w]] = p]
    BY <1>7 DEF sendQueryPlan, Draws
  <2>2. cur[w] \in Queries /\ planid[cur[w]] = NoPlan /\ UNCHANGED completed_ids_
    BY <1>7 DEF sendQueryPlan, Registers, Holds, PlanIdInv
  <2>3. \A q \in Queries, i \in NodeIds :
              item[q][i] = "acked" /\ planid[q] # NoPlan => item'[q][i] = "acked"
    BY <1>7, <2>2 DEF sendQueryPlan, notifyHost, Registers
  <2>4. \A q \in Queries : planid[q] # NoPlan => planid'[q] = planid[q]
    BY <2>1, <2>2
  <2>5. completed_ids_' = completed_ids_
    BY <2>2
  <2>6. ASSUME NEW r \in PlanIds, NEW i \in NodeIds, <<r, i>> \in completed_ids_'
        PROVE  \E q \in Queries : planid'[q] = r /\ item'[q][i] = "acked"
    <3>1. <<r, i>> \in completed_ids_
      BY <2>5, <2>6
    <3>2. PICK q \in Queries : planid[q] = r /\ item[q][i] = "acked"
      BY <3>1 DEF CompletionInv
    <3>3. planid[q] # NoPlan
      BY <3>2, ConstantsAssumption
    <3>4. QED
      BY <2>3, <2>4, <3>2, <3>3
  <2>7. QED
    BY <2>6 DEF CompletionInv
<1>8. ASSUME NEW w \in Workers, sendQueryPlanParallel(w) PROVE CompletionInv'
  <2>1. PICK p \in PlanIds : planid' = [planid EXCEPT ![cur[w]] = p]
    BY <1>8 DEF sendQueryPlanParallel, Draws
  <2>2. cur[w] \in Queries /\ planid[cur[w]] = NoPlan /\ UNCHANGED completed_ids_
    BY <1>8 DEF sendQueryPlanParallel, Registers, Holds, PlanIdInv
  <2>3. UNCHANGED item
    BY <1>8, <2>2 DEF sendQueryPlanParallel, Registers
  <2>4. \A q \in Queries : planid[q] # NoPlan => planid'[q] = planid[q]
    BY <2>1, <2>2
  <2>5. completed_ids_' = completed_ids_
    BY <2>2
  <2>6. ASSUME NEW r \in PlanIds, NEW i \in NodeIds, <<r, i>> \in completed_ids_'
        PROVE  \E q \in Queries : planid'[q] = r /\ item'[q][i] = "acked"
    <3>1. <<r, i>> \in completed_ids_
      BY <2>5, <2>6
    <3>2. PICK q \in Queries : planid[q] = r /\ item[q][i] = "acked"
      BY <3>1 DEF CompletionInv
    <3>3. planid[q] # NoPlan
      BY <3>2, ConstantsAssumption
    <3>4. QED
      BY <2>3, <2>4, <3>2, <3>3
  <2>7. QED
    BY <2>6 DEF CompletionInv
<1>9. ASSUME NEW w \in Workers, SendItem(w) PROVE CompletionInv'
  <2>1. PICK i \in Unsent(w) : notifyHost(cur[w], i)
    BY <1>9 DEF SendItem
  <2>2. \A q \in Queries, j \in NodeIds : item[q][j] = "acked" => item'[q][j] = "acked"
    <3>1. /\ cur[w] \in Queries
          /\ batch[w] \in DOMAIN Batches[cur[w]]
      BY <1>9 DEF SendItem, Registers, Holds, Sending
    <3>2. i \in NodeIds /\ item[cur[w]][i] = "unsent"
      BY <3>1, BatchesAssumption DEF Unsent
    <3>3. QED
      BY <2>1, <3>1, <3>2 DEF notifyHost
  <2>3. QED
    BY <1>9, <2>2 DEF SendItem, CompletionInv
<1>10. ASSUME NEW w \in Workers, WaitForBatch(w) PROVE CompletionInv'
  BY <1>10 DEF CompletionInv, WaitForBatch, BatchIds, Tracker!waitNextCompletions
<1>11. ASSUME NEW w \in Workers, BatchCompleted(w) PROVE CompletionInv'
  BY <1>11 DEF CompletionInv, BatchCompleted, Tracker!ReturnTrue
<1>12. ASSUME NEW w \in Workers, BatchAbandoned(w) PROVE CompletionInv'
  BY <1>12 DEF CompletionInv, BatchAbandoned, Tracker!ReturnFalse
<1>13. ASSUME NEW w \in Workers,
             TrackerSleep(w) \/ TrackerSpuriousWakeup(w)
      PROVE  CompletionInv'
  BY <1>13 DEF CompletionInv, TrackerSleep, TrackerSpuriousWakeup, Tracker!Sleep,
     Tracker!SpuriousWakeup
<1>14. ASSUME NEW q \in Queries, NEW i \in NodeIds,
             Execute(q, i)
      PROVE  CompletionInv'
  <2>1. \A r \in Queries, j \in NodeIds : item[r][j] = "acked" => item'[r][j] = "acked"
    BY <1>14 DEF Execute
  <2>2. QED
    BY <1>14, <2>1 DEF Execute, CompletionInv
<1>15. ASSUME NEW q \in Queries, NEW i \in NodeIds,
             TaskFinished(q, i)
      PROVE  CompletionInv'
  <2>1. /\ UNCHANGED planid
        /\ item' = [item EXCEPT ![q][i] = "acked"]
        /\ completed_ids_' = completed_ids_ \cup {<<planid[q], i>>}
    BY <1>15 DEF TaskFinished, Tracker!markCompleted
  <2>2. \A r \in Queries, j \in NodeIds : item[r][j] = "acked" => item'[r][j] = "acked"
    BY <2>1
  <2>3. QED
    BY <2>1, <2>2 DEF CompletionInv
<1>16. CASE ListenerNotify
  BY <1>16 DEF CompletionInv, ListenerNotify, Tracker!notify_all
<1>17. CASE Destructor
  BY <1>17 DEF CompletionInv, Destructor, SetStopFlag, StopTracker, StopTrackerNotify,
     NotifyWorkers, Join, Tracker!stop, Tracker!notify_all
<1>18. CASE UNCHANGED vars
  BY <1>18 DEF CompletionInv, vars
<1>19. QED
  BY <1>1, <1>2, <1>3, <1>4, <1>5, <1>6, <1>7, <1>8, <1>9, <1>10, <1>11,
     <1>12, <1>13, <1>14, <1>15, <1>16, <1>17, <1>18
     DEF Next, WorkerStep

LEMMA BatchFrame ==
    ASSUME BatchInv,
           \A v \in Workers : Sending(v)' =>
              /\ Sending(v)
              /\ pc'[v] = "wait" => pc[v] = "wait"
              /\ cur'[v] = cur[v]
              /\ batch'[v] = batch[v]
              /\ \A k \in DOMAIN Batches[cur[v]] : \A i \in Batches[cur[v]][k] :
                    /\ item[cur[v]][i] = "acked" => item'[cur[v]][i] = "acked"
                    /\ item[cur[v]][i] = "unsent" /\ k # batch[v]
                          => item'[cur[v]][i] = "unsent"
                    /\ item[cur[v]][i] # "unsent" => item'[cur[v]][i] # "unsent"
    PROVE  BatchInv'
  BY DEF BatchInv

LEMMA BatchInvStep ==
    TypeInv /\ OnePlace /\ WaitInv /\ PlanIdInv /\ CompletionInv /\ BatchInv
       /\ [Next]_vars => BatchInv'
<1> SUFFICES ASSUME TypeInv, OnePlace, WaitInv, PlanIdInv, CompletionInv,
                    BatchInv, [Next]_vars
             PROVE  BatchInv'
  OBVIOUS
<1> USE DEF TypeInv, TypeOK, Goto, poolVars, planVars, trackVars
<1>1. ASSUME NEW q \in Queries, addQuery(q) PROVE BatchInv'
  <2>1. /\ UNCHANGED item
        /\ \A v \in Workers : Sending(v)' =>
              /\ Sending(v)
              /\ pc'[v] = "wait" => pc[v] = "wait"
              /\ cur'[v] = cur[v]
              /\ batch'[v] = batch[v]
    BY <1>1 DEF Sending, addQuery
  <2>2. QED
    BY <2>1, BatchFrame
<1>2. ASSUME NEW q \in Queries, notify_one(q) PROVE BatchInv'
  <2>1. /\ UNCHANGED item
        /\ \A v \in Workers : Sending(v)' =>
              /\ Sending(v)
              /\ pc'[v] = "wait" => pc[v] = "wait"
              /\ cur'[v] = cur[v]
              /\ batch'[v] = batch[v]
    BY <1>2 DEF Sending, notify_one
  <2>2. QED
    BY <2>1, BatchFrame
<1>3. ASSUME NEW w \in Workers, PopFront(w) PROVE BatchInv'
  <2>1. /\ UNCHANGED item
        /\ \A v \in Workers : Sending(v)' =>
              /\ Sending(v)
              /\ pc'[v] = "wait" => pc[v] = "wait"
              /\ cur'[v] = cur[v]
              /\ batch'[v] = batch[v]
    BY <1>3 DEF Sending, PopFront
  <2>2. QED
    BY <2>1, BatchFrame
<1>4. ASSUME NEW w \in Workers,
             Exit(w) \/ TestFails(w) \/ Block(w) \/ SpuriousWakeup(w)
      PROVE  BatchInv'
  <2>1. /\ UNCHANGED item
        /\ \A v \in Workers : Sending(v)' =>
              /\ Sending(v)
              /\ pc'[v] = "wait" => pc[v] = "wait"
              /\ cur'[v] = cur[v]
              /\ batch'[v] = batch[v]
    BY <1>4 DEF Sending, Exit, TestFails, Block, SpuriousWakeup
  <2>2. QED
    BY <2>1, BatchFrame
<1>5. ASSUME NEW w \in Workers,
             EnterRunning(w) \/ LeaveRunning(w)
      PROVE  BatchInv'
  <2>1. /\ UNCHANGED item
        /\ \A v \in Workers : Sending(v)' =>
              /\ Sending(v)
              /\ pc'[v] = "wait" => pc[v] = "wait"
              /\ cur'[v] = cur[v]
              /\ batch'[v] = batch[v]
    BY <1>5 DEF Sending, EnterRunning, LeaveRunning
  <2>2. QED
    BY <2>1, BatchFrame
<1>6. ASSUME NEW w \in Workers, NothingToSend(w) \/ Finish(w) PROVE BatchInv'
  <2>1. /\ UNCHANGED item
        /\ \A v \in Workers : Sending(v)' =>
              /\ Sending(v)
              /\ pc'[v] = "wait" => pc[v] = "wait"
              /\ cur'[v] = cur[v]
              /\ batch'[v] = batch[v]
    BY <1>6 DEF Sending, NothingToSend, Finish
  <2>2. QED
    BY <2>1, BatchFrame
<1>7. ASSUME NEW w \in Workers, sendQueryPlan(w) PROVE BatchInv'
  <2>1. /\ UNCHANGED <<cur, batch>>
        /\ Holds(w) /\ cur[w] \in Queries
        /\ \A v \in Workers : Sending(v)' =>
              v # w /\ Sending(v) /\ pc'[v] = pc[v] /\ Holds(v)
    BY <1>7 DEF sendQueryPlan, Registers, Holds, Sending
  <2>2. \A v \in Workers : Sending(v)' => cur[v] # cur[w] /\ cur[v] \in Queries
    BY <2>1 DEF OnePlace, HoldersDistinct, Registers
  <2>3. \A q \in Queries : q # cur[w] => item'[q] = item[q]
    BY <1>7, <2>1 DEF sendQueryPlan, notifyHost
  <2>4. QED
    BY <2>1, <2>2, <2>3, BatchFrame
<1>8. ASSUME NEW w \in Workers, sendQueryPlanParallel(w) PROVE BatchInv'
  <2>1. /\ UNCHANGED <<cur, item>>
        /\ batch' = [batch EXCEPT ![w] = 1]
        /\ pc' = [pc EXCEPT ![w] = "send"]
        /\ cur[w] \in Queries
        /\ planid[cur[w]] = NoPlan
    BY <1>8 DEF sendQueryPlanParallel, Registers, Holds, PlanIdInv
  <2>2. \A i \in NodeIds : item[cur[w]][i] = "unsent"
    BY <2>1 DEF Registers
  <2>3. \A k \in DOMAIN Batches[cur[w]] : k \in Nat /\ ~(k < 1) /\ Batches[cur[w]][k] \subseteq NodeIds
    BY <2>1, BatchesAssumption
  <2>4. \A v \in Workers : v # w =>
           pc'[v] = pc[v] /\ batch'[v] = batch[v] /\ cur'[v] = cur[v]
    BY <2>1
  <2>5. ASSUME NEW v \in Workers, Sending(v)',
               NEW k \in DOMAIN Batches[cur'[v]], NEW i \in Batches[cur'[v]][k]
        PROVE  /\ k < batch'[v] => item'[cur'[v]][i] = "acked"
               /\ k > batch'[v] => item'[cur'[v]][i] = "unsent"
               /\ k = batch'[v] /\ pc'[v] = "wait" => item'[cur'[v]][i] # "unsent"
    <3>1. CASE v = w
      BY <2>1, <2>2, <2>3, <2>5, <3>1
    <3>2. CASE v # w
      BY <2>1, <2>4, <2>5, <3>2 DEF BatchInv, Sending
    <3>3. QED
      BY <3>1, <3>2
  <2>6. QED
    BY <2>5 DEF BatchInv
<1>9. ASSUME NEW w \in Workers, SendItem(w) PROVE BatchInv'
  <2>1. PICK i \in Unsent(w) : notifyHost(cur[w], i)
    BY <1>9 DEF SendItem
  <2>2. /\ UNCHANGED <<cur, batch, pc>>
        /\ cur[w] \in Queries /\ Sending(w)
        /\ batch[w] \in DOMAIN Batches[cur[w]]
        /\ Kind[cur[w]] = "parallel"
    BY <1>9 DEF SendItem, Registers, Holds, Sending
  <2>3. /\ i \in Batches[cur[w]][batch[w]] /\ i \in NodeIds
        /\ item[cur[w]][i] = "unsent"
    BY <2>2, BatchesAssumption DEF Unsent
  <2>4. \A k \in DOMAIN Batches[cur[w]] : k # batch[w] => i \notin Batches[cur[w]][k]
    BY <2>2, <2>3, BatchesAssumption
  <2>5. \A q \in Queries, j \in NodeIds :
           q # cur[w] \/ j # i => item'[q][j] = item[q][j]
    BY <2>1, <2>2, <2>3 DEF notifyHost
  <2>6. item'[cur[w]][i] # "unsent"
    BY <2>1, <2>2, <2>3 DEF notifyHost
  <2>7. \A v \in Workers : Sending(v)' => Sending(v) /\ cur[v] \in Queries
    BY <2>2 DEF Sending, Registers, Holds
  <2>8. \A v \in Workers : Sending(v) /\ v # w => cur[v] # cur[w]
    BY <2>2 DEF OnePlace, HoldersDistinct, Holds, Sending
  <2>9. \A v \in Workers : Sending(v) => \A k \in DOMAIN Batches[cur[v]] : Batches[cur[v]][k] \subseteq NodeIds
    BY BatchesAssumption DEF Registers, Holds, Sending
  <2>10. ASSUME NEW v \in Workers, Sending(v)',
                NEW k \in DOMAIN Batches[cur[v]], NEW j \in Batches[cur[v]][k]
         PROVE  /\ item[cur[v]][j] = "acked" => item'[cur[v]][j] = "acked"
                /\ item[cur[v]][j] = "unsent" /\ k # batch[v]
                      => item'[cur[v]][j] = "unsent"
                /\ item[cur[v]][j] # "unsent" => item'[cur[v]][j] # "unsent"
    <3>1. cur[v] \in Queries /\ j \in NodeIds
      BY <2>7, <2>9, <2>10
    <3>2. CASE v # w
      BY <2>5, <2>7, <2>8, <2>10, <3>1, <3>2
    <3>3. CASE v = w /\ j # i
      BY <2>5, <3>1, <3>3
    <3>4. CASE v = w /\ j = i
      BY <2>3, <2>4, <2>6, <2>10, <3>4
    <3>5. QED
      BY <3>2, <3>3, <3>4
  <2>11. QED
    BY <2>2, <2>7, <2>10, BatchFrame
<1>10. ASSUME NEW w \in Workers, WaitForBatch(w) PROVE BatchInv'
  <2>1. /\ UNCHANGED <<cur, batch, item>>
        /\ pc' = [pc EXCEPT ![w] = "wait"]
        /\ pc[w] = "send"
        /\ \A i \in Batches[cur[w]][batch[w]] : item[cur[w]][i] # "unsent"
    BY <1>10 DEF WaitForBatch, Unsent
  <2>2. \A v \in Workers : Sending(v)' => Sending(v) /\ (v # w => pc'[v] = pc[v])
    BY <2>1 DEF Sending
  <2>3. QED
    BY <2>1, <2>2 DEF BatchInv
<1>11. ASSUME NEW w \in Workers, BatchCompleted(w) PROVE BatchInv'
  <2>1. /\ UNCHANGED <<cur, item>>
        /\ cur[w] \in Queries /\ planid[cur[w]] \in PlanIds
        /\ batch[w] \in DOMAIN Batches[cur[w]]
        /\ pc[w] = "wait" /\ Sending(w)
        /\ want[w] \subseteq completed_ids_
    BY <1>11 DEF BatchCompleted, Tracker!ReturnTrue, Tracker!Ready, Registers,
                 Holds, Sending
  <2>2. \A i \in Batches[cur[w]][batch[w]] : item[cur[w]][i] = "acked"
    <3>1. SUFFICES ASSUME NEW i \in Batches[cur[w]][batch[w]]
                   PROVE  item[cur[w]][i] = "acked"
      OBVIOUS
    <3>2. i \in NodeIds
      BY <2>1, BatchesAssumption
    <3>3. <<planid[cur[w]], i>> \in completed_ids_
      BY <2>1 DEF WaitInv, BatchIds
    <3>4. PICK q \in Queries : planid[q] = planid[cur[w]] /\ item[q][i] = "acked"
      BY <2>1, <3>2, <3>3 DEF CompletionInv
    <3>5. q = cur[w]
      BY <2>1, <3>4, ConstantsAssumption DEF PlanIdInv
    <3>6. QED
      BY <3>4, <3>5
  <2>3. \A v \in Workers : v # w => pc'[v] = pc[v] /\ batch'[v] = batch[v]
    BY <1>11 DEF BatchCompleted
  <2>4. pc'[w] # "wait" /\ (Sending(w)' => batch'[w] = batch[w] + 1)
    BY <1>11 DEF BatchCompleted, Sending
  <2>5. ASSUME NEW v \in Workers, Sending(v)',
               NEW k \in DOMAIN Batches[cur[v]], NEW i \in Batches[cur[v]][k]
        PROVE  /\ k < batch'[v] => item[cur[v]][i] = "acked"
               /\ k > batch'[v] => item[cur[v]][i] = "unsent"
               /\ k = batch'[v] /\ pc'[v] = "wait" => item[cur[v]][i] # "unsent"
    <3>1. CASE v # w
      BY <2>3, <2>5, <3>1 DEF BatchInv, Sending
    <3>2. CASE v = w
      <4>1. k \in Nat /\ batch[w] \in Nat
        BY <2>1, <3>2, BatchesAssumption
      <4>2. /\ k < batch[w] => item[cur[w]][i] = "acked"
            /\ k > batch[w] => item[cur[w]][i] = "unsent"
        BY <2>1, <3>2 DEF BatchInv
      <4>3. CASE k = batch[w]
        BY <2>2, <2>4, <2>5, <3>2, <4>1, <4>3
      <4>4. CASE k # batch[w]
        BY <2>4, <2>5, <3>2, <4>1, <4>2, <4>4
      <4>5. QED
        BY <4>3, <4>4
    <3>3. QED
      BY <3>1, <3>2
  <2>6. QED
    BY <2>1, <2>5 DEF BatchInv
<1>12. ASSUME NEW w \in Workers, BatchAbandoned(w) PROVE BatchInv'
  <2>1. /\ UNCHANGED item
        /\ \A v \in Workers : Sending(v)' =>
              /\ Sending(v)
              /\ pc'[v] = "wait" => pc[v] = "wait"
              /\ cur'[v] = cur[v]
              /\ batch'[v] = batch[v]
    BY <1>12 DEF Sending, BatchAbandoned, Tracker!ReturnFalse
  <2>2. QED
    BY <2>1, BatchFrame
<1>13. ASSUME NEW w \in Workers,
             TrackerSleep(w) \/ TrackerSpuriousWakeup(w)
      PROVE  BatchInv'
  <2>1. /\ UNCHANGED item
        /\ \A v \in Workers : Sending(v)' =>
              /\ Sending(v)
              /\ pc'[v] = "wait" => pc[v] = "wait"
              /\ cur'[v] = cur[v]
              /\ batch'[v] = batch[v]
    BY <1>13 DEF Sending, TrackerSleep, TrackerSpuriousWakeup, Tracker!Sleep,
     Tracker!SpuriousWakeup
  <2>2. QED
    BY <2>1, BatchFrame
<1>14. ASSUME NEW q \in Queries, NEW i \in NodeIds,
             Execute(q, i)
      PROVE  BatchInv'
  <2>1. /\ UNCHANGED <<cur, batch, pc>>
        /\ \A r \in Queries, j \in NodeIds :
              /\ item[r][j] = "acked" => item'[r][j] = "acked"
              /\ item[r][j] = "unsent" <=> item'[r][j] = "unsent"
    BY <1>14 DEF Execute
  <2>2. \A v \in Workers : Sending(v)' =>
           /\ Sending(v) /\ cur[v] \in Queries
           /\ \A k \in DOMAIN Batches[cur[v]] : Batches[cur[v]][k] \subseteq NodeIds
    BY <2>1, BatchesAssumption DEF Sending, Registers, Holds
  <2>3. QED
    BY <2>1, <2>2, BatchFrame
<1>15. ASSUME NEW q \in Queries, NEW i \in NodeIds,
             TaskFinished(q, i)
      PROVE  BatchInv'
  <2>1. /\ UNCHANGED <<cur, batch, pc>>
        /\ \A r \in Queries, j \in NodeIds :
              /\ item[r][j] = "acked" => item'[r][j] = "acked"
              /\ item[r][j] = "unsent" <=> item'[r][j] = "unsent"
    BY <1>15 DEF TaskFinished
  <2>2. \A v \in Workers : Sending(v)' =>
           /\ Sending(v) /\ cur[v] \in Queries
           /\ \A k \in DOMAIN Batches[cur[v]] : Batches[cur[v]][k] \subseteq NodeIds
    BY <2>1, BatchesAssumption DEF Sending, Registers, Holds
  <2>3. QED
    BY <2>1, <2>2, BatchFrame
<1>16. CASE ListenerNotify
  <2>1. /\ UNCHANGED item
        /\ \A v \in Workers : Sending(v)' =>
              /\ Sending(v)
              /\ pc'[v] = "wait" => pc[v] = "wait"
              /\ cur'[v] = cur[v]
              /\ batch'[v] = batch[v]
    BY <1>16 DEF Sending, ListenerNotify, Tracker!notify_all
  <2>2. QED
    BY <2>1, BatchFrame
<1>17. CASE Destructor
  <2>1. /\ UNCHANGED item
        /\ \A v \in Workers : Sending(v)' =>
              /\ Sending(v)
              /\ pc'[v] = "wait" => pc[v] = "wait"
              /\ cur'[v] = cur[v]
              /\ batch'[v] = batch[v]
    BY <1>17 DEF Sending, Destructor, SetStopFlag, StopTracker, StopTrackerNotify,
     NotifyWorkers, Join, Tracker!stop, Tracker!notify_all
  <2>2. QED
    BY <2>1, BatchFrame
<1>18. CASE UNCHANGED vars
  <2>1. /\ UNCHANGED item
        /\ \A v \in Workers : Sending(v)' =>
              /\ Sending(v)
              /\ pc'[v] = "wait" => pc[v] = "wait"
              /\ cur'[v] = cur[v]
              /\ batch'[v] = batch[v]
    BY <1>18 DEF Sending, vars
  <2>2. QED
    BY <2>1, BatchFrame
<1>19. QED
  BY <1>1, <1>2, <1>3, <1>4, <1>5, <1>6, <1>7, <1>8, <1>9, <1>10, <1>11,
     <1>12, <1>13, <1>14, <1>15, <1>16, <1>17, <1>18
     DEF Next, WorkerStep

LEMMA BatchBarrierStep ==
    TypeInv /\ BatchInv /\ BatchBarrier /\ [Next]_vars => BatchBarrier'
<1> SUFFICES ASSUME TypeInv, BatchInv, BatchBarrier, [Next]_vars
             PROVE  BatchBarrier'
  OBVIOUS
<1> USE DEF TypeInv, TypeOK, Goto, poolVars, planVars, trackVars
<1>1. ASSUME NEW q \in Queries, addQuery(q) PROVE BatchBarrier'
  <2>1. UNCHANGED item
    BY <1>1 DEF addQuery
  <2>2. QED
    BY <2>1 DEF BatchBarrier
<1>2. ASSUME NEW q \in Queries, notify_one(q) PROVE BatchBarrier'
  <2>1. UNCHANGED item
    BY <1>2 DEF notify_one
  <2>2. QED
    BY <2>1 DEF BatchBarrier
<1>3. ASSUME NEW w \in Workers, PopFront(w) PROVE BatchBarrier'
  <2>1. UNCHANGED item
    BY <1>3 DEF PopFront
  <2>2. QED
    BY <2>1 DEF BatchBarrier
<1>4. ASSUME NEW w \in Workers,
             Exit(w) \/ TestFails(w) \/ Block(w) \/ SpuriousWakeup(w)
      PROVE  BatchBarrier'
  <2>1. UNCHANGED item
    BY <1>4 DEF Exit, TestFails, Block, SpuriousWakeup
  <2>2. QED
    BY <2>1 DEF BatchBarrier
<1>5. ASSUME NEW w \in Workers,
             EnterRunning(w) \/ LeaveRunning(w)
      PROVE  BatchBarrier'
  <2>1. UNCHANGED item
    BY <1>5 DEF EnterRunning, LeaveRunning
  <2>2. QED
    BY <2>1 DEF BatchBarrier
<1>6. ASSUME NEW w \in Workers,
             NothingToSend(w) \/ Finish(w)
      PROVE  BatchBarrier'
  <2>1. UNCHANGED item
    BY <1>6 DEF NothingToSend, Finish
  <2>2. QED
    BY <2>1 DEF BatchBarrier
<1>7. ASSUME NEW w \in Workers, sendQueryPlan(w) PROVE BatchBarrier'
  <2>1. cur[w] \in Queries /\ Kind[cur[w]] # "parallel"
    BY <1>7 DEF sendQueryPlan, Registers, Holds
  <2>2. \A q \in Queries : Kind[q] = "parallel" => item'[q] = item[q]
    BY <1>7, <2>1 DEF sendQueryPlan, notifyHost
  <2>3. \A q \in Queries : Kind[q] = "parallel" =>
           \A j : item'[q][j] = item[q][j]
    BY <2>2
  <2>4. ASSUME NEW q \in Queries, Kind[q] = "parallel",
               NEW k \in DOMAIN Batches[q],
               NEW i \in Batches[q][k], item'[q][i] # "unsent",
               NEW l \in 1 .. k-1, NEW j \in Batches[q][l]
        PROVE  item'[q][j] = "acked"
    <3>1. item[q][i] # "unsent"
      BY <2>3, <2>4
    <3>2. item[q][j] = "acked"
      BY <2>4, <3>1 DEF BatchBarrier
    <3>3. QED
      BY <2>3, <2>4, <3>2
  <2>5. QED
    BY <2>4 DEF BatchBarrier
<1>8. ASSUME NEW w \in Workers, sendQueryPlanParallel(w) PROVE BatchBarrier'
  <2>1. UNCHANGED item
    BY <1>8 DEF sendQueryPlanParallel, Draws
  <2>2. QED
    BY <2>1 DEF BatchBarrier
<1>9. ASSUME NEW w \in Workers, SendItem(w) PROVE BatchBarrier'
  <2>1. PICK i \in Unsent(w) : notifyHost(cur[w], i)
    BY <1>9 DEF SendItem
  <2>2. /\ cur[w] \in Queries /\ Sending(w)
        /\ batch[w] \in DOMAIN Batches[cur[w]]
        /\ Kind[cur[w]] = "parallel"
    BY <1>9 DEF SendItem, Registers, Holds, Sending
  <2>3. /\ i \in Batches[cur[w]][batch[w]] /\ i \in NodeIds
        /\ item[cur[w]][i] = "unsent"
    BY <2>2, BatchesAssumption DEF Unsent
  <2>4. \A q \in Queries, j \in NodeIds :
           q # cur[w] \/ j # i => item'[q][j] = item[q][j]
    BY <2>1, <2>2, <2>3 DEF notifyHost
  <2>5. ASSUME NEW q \in Queries, Kind[q] = "parallel",
               NEW k \in DOMAIN Batches[q],
               NEW j \in Batches[q][k], item'[q][j] # "unsent",
               NEW l \in 1 .. k-1, NEW m \in Batches[q][l]
        PROVE  item'[q][m] = "acked"
    <3>1. j \in NodeIds /\ l \in DOMAIN Batches[q] /\ m \in NodeIds /\ l < k
      BY <2>5, BatchesAssumption
    <3>2. item[q][m] = "acked"
      <4>1. CASE q = cur[w] /\ j = i
        <5>1. k = batch[w]
          BY <2>2, <2>3, <2>5, <4>1, BatchesAssumption
        <5>2. QED
          BY <2>2, <3>1, <4>1, <5>1 DEF BatchInv
      <4>2. CASE q # cur[w] \/ j # i
        <5>1. item[q][j] # "unsent"
          BY <2>4, <2>5, <3>1, <4>2
        <5>2. QED
          BY <2>5, <5>1 DEF BatchBarrier
      <4>3. QED
        BY <4>1, <4>2
    <3>3. q # cur[w] \/ m # i
      BY <2>3, <3>2
    <3>4. QED
      BY <2>4, <3>1, <3>2, <3>3
  <2>6. QED
    BY <2>5 DEF BatchBarrier
<1>10. ASSUME NEW w \in Workers, WaitForBatch(w) PROVE BatchBarrier'
  <2>1. UNCHANGED item
    BY <1>10 DEF WaitForBatch, BatchIds, Tracker!waitNextCompletions
  <2>2. QED
    BY <2>1 DEF BatchBarrier
<1>11. ASSUME NEW w \in Workers, BatchCompleted(w) PROVE BatchBarrier'
  <2>1. UNCHANGED item
    BY <1>11 DEF BatchCompleted, Tracker!ReturnTrue
  <2>2. QED
    BY <2>1 DEF BatchBarrier
<1>12. ASSUME NEW w \in Workers, BatchAbandoned(w) PROVE BatchBarrier'
  <2>1. UNCHANGED item
    BY <1>12 DEF BatchAbandoned, Tracker!ReturnFalse
  <2>2. QED
    BY <2>1 DEF BatchBarrier
<1>13. ASSUME NEW w \in Workers,
             TrackerSleep(w) \/ TrackerSpuriousWakeup(w)
      PROVE  BatchBarrier'
  <2>1. UNCHANGED item
    BY <1>13 DEF TrackerSleep, TrackerSpuriousWakeup, Tracker!Sleep,
     Tracker!SpuriousWakeup
  <2>2. QED
    BY <2>1 DEF BatchBarrier
<1>14. ASSUME NEW q \in Queries, NEW i \in NodeIds,
             Execute(q, i)
      PROVE  BatchBarrier'
  <2>1. \A r \in Queries, j \in NodeIds :
              /\ item[r][j] = "acked" => item'[r][j] = "acked"
              /\ item[r][j] = "unsent" <=> item'[r][j] = "unsent"
    BY <1>14 DEF Execute
  <2>2. \A r \in Queries : \A k \in DOMAIN Batches[r] :
           Batches[r][k] \subseteq NodeIds /\ 1 .. k-1 \subseteq DOMAIN Batches[r]
    BY BatchesAssumption
  <2>3. QED
    BY <2>1, <2>2 DEF BatchBarrier
<1>15. ASSUME NEW q \in Queries, NEW i \in NodeIds,
             TaskFinished(q, i)
      PROVE  BatchBarrier'
  <2>1. \A r \in Queries, j \in NodeIds :
              /\ item[r][j] = "acked" => item'[r][j] = "acked"
              /\ item[r][j] = "unsent" <=> item'[r][j] = "unsent"
    BY <1>15 DEF TaskFinished
  <2>2. \A r \in Queries : \A k \in DOMAIN Batches[r] :
           Batches[r][k] \subseteq NodeIds /\ 1 .. k-1 \subseteq DOMAIN Batches[r]
    BY BatchesAssumption
  <2>3. QED
    BY <2>1, <2>2 DEF BatchBarrier
<1>16. CASE ListenerNotify
  <2>1. UNCHANGED item
    BY <1>16 DEF ListenerNotify, Tracker!notify_all
  <2>2. QED
    BY <2>1 DEF BatchBarrier
<1>17. CASE Destructor
  <2>1. UNCHANGED item
    BY <1>17 DEF Destructor, SetStopFlag, StopTracker, StopTrackerNotify,
     NotifyWorkers, Join, Tracker!stop, Tracker!notify_all
  <2>2. QED
    BY <2>1 DEF BatchBarrier
<1>18. CASE UNCHANGED vars
  <2>1. UNCHANGED item
    BY <1>18 DEF vars
  <2>2. QED
    BY <2>1 DEF BatchBarrier
<1>19. QED
  BY <1>1, <1>2, <1>3, <1>4, <1>5, <1>6, <1>7, <1>8, <1>9, <1>10, <1>11,
     <1>12, <1>13, <1>14, <1>15, <1>16, <1>17, <1>18
     DEF Next, WorkerStep

\* All that the batches rest on.
BatchesInv ==
    TypeInv /\ OnePlace /\ WaitInv /\ PlanIdInv /\ CompletionInv /\ BatchInv

LEMMA BatchesInvariant ==
    ASSUME UniqueDraws
    PROVE  Spec => []BatchesInv
<1>1. Init => BatchesInv
  <2> SUFFICES ASSUME Init PROVE BatchesInv
    OBVIOUS
  <2>1. OnePlace
    BY DEF Init, OnePlace, QueueDistinct, HoldersDistinct, Accounted,
           RunningExact, InQueue, Held, Holds, Working
  <2>2. WaitInv
    BY DEF Init, WaitInv, Tracker!Init
  <2>3. PlanIdInv
    BY DEF Init, PlanIdInv
  <2>4. CompletionInv /\ BatchInv
    BY DEF Init, CompletionInv, BatchInv, Sending, Tracker!Init
  <2>5. QED
    BY <2>1, <2>2, <2>3, <2>4, InitTypeInv DEF BatchesInv
<1>2. BatchesInv /\ [Next]_vars => BatchesInv'
  BY TypeOKStep, RegistersStep, OnePlaceStep, WaitInvStep, PlanIdInvStep,
     CompletionInvStep, BatchInvStep
     DEF BatchesInv, TypeInv
<1>3. QED
  BY <1>1, <1>2, PTL DEF Spec

\* With plan ids that do not repeat, a batch is never released early: nothing
\* of it reaches the socket before every item of the earlier batches has been
\* executed and reported, for any number of concurrent queries and workers.
THEOREM BatchBarrierHolds ==
    ASSUME UniqueDraws
    PROVE  Spec => []BatchBarrier
<1>1. Init => BatchBarrier
  <2> SUFFICES ASSUME Init PROVE BatchBarrier
    OBVIOUS
  <2>1. \A q \in Queries : \A k \in DOMAIN Batches[q] : Batches[q][k] \subseteq NodeIds
    BY BatchesAssumption
  <2>2. QED
    BY <2>1 DEF Init, BatchBarrier
<1>2. BatchesInv /\ BatchBarrier /\ [Next]_vars => BatchBarrier'
  BY BatchBarrierStep DEF BatchesInv
<1>3. QED
  BY <1>1, <1>2, BatchesInvariant, PTL DEF Spec

-----------------------------------------------------------------------------
(* What stays in completed_ids_ *)

LEMMA AtBatchFrame ==
    ASSUME \A v \in Workers : Sending(v) =>
              Sending(v)' /\ cur'[v] = cur[v] /\ batch'[v] = batch[v],
           NEW q, NEW i, AtBatch(q, i)
    PROVE  AtBatch(q, i)'
  BY DEF AtBatch

\* Requests out and completions recorded belong to a batch being waited for.
Fresh(q, i) == stop_flag \/ AtBatch(q, i)

FreshInv ==
    \A q \in Queries, i \in NodeIds : Kind[q] = "parallel" =>
        /\ item[q][i] \in {"wire", "lost", "executed"} => Fresh(q, i)
        /\ <<planid[q], i>> \in completed_ids_ => Fresh(q, i)

LEMMA FreshFrame ==
    ASSUME FreshInv, stop_flag => stop_flag', UNCHANGED <<item, planid>>,
           completed_ids_' \subseteq completed_ids_,
           \A v \in Workers : Sending(v) =>
              Sending(v)' /\ cur'[v] = cur[v] /\ batch'[v] = batch[v]
    PROVE  FreshInv'
<1>1. \A q \in Queries, i \in NodeIds : Fresh(q, i) => Fresh(q, i)'
  BY AtBatchFrame DEF Fresh
<1>2. QED
  BY <1>1 DEF FreshInv

LEMMA FreshInvStep ==
    ASSUME UniqueDraws
    PROVE  BatchesInv /\ StopInv /\ FreshInv /\ [Next]_vars => FreshInv'
<1> SUFFICES ASSUME BatchesInv, StopInv, FreshInv, [Next]_vars PROVE FreshInv'
  OBVIOUS
<1> USE DEF BatchesInv, TypeInv, TypeOK, Goto, poolVars, planVars, trackVars
<1>1. ASSUME NEW q \in Queries, addQuery(q) PROVE FreshInv'
  <2>1. /\ UNCHANGED <<item, planid>>
        /\ stop_flag => stop_flag'
        /\ completed_ids_' \subseteq completed_ids_
        /\ \A v \in Workers : Sending(v) =>
              Sending(v)' /\ cur'[v] = cur[v] /\ batch'[v] = batch[v]
    BY <1>1 DEF Sending, addQuery
  <2>2. QED
    BY <2>1, FreshFrame
<1>2. ASSUME NEW q \in Queries, notify_one(q) PROVE FreshInv'
  <2>1. /\ UNCHANGED <<item, planid>>
        /\ stop_flag => stop_flag'
        /\ completed_ids_' \subseteq completed_ids_
        /\ \A v \in Workers : Sending(v) =>
              Sending(v)' /\ cur'[v] = cur[v] /\ batch'[v] = batch[v]
    BY <1>2 DEF Sending, notify_one
  <2>2. QED
    BY <2>1, FreshFrame
<1>3. ASSUME NEW w \in Workers, PopFront(w) PROVE FreshInv'
  <2>1. /\ UNCHANGED <<item, planid>>
        /\ stop_flag => stop_flag'
        /\ completed_ids_' \subseteq completed_ids_
        /\ \A v \in Workers : Sending(v) =>
              Sending(v)' /\ cur'[v] = cur[v] /\ batch'[v] = batch[v]
    BY <1>3 DEF Sending, PopFront
  <2>2. QED
    BY <2>1, FreshFrame
<1>4. ASSUME NEW w \in Workers,
             Exit(w) \/ TestFails(w) \/ Block(w) \/ SpuriousWakeup(w)
      PROVE  FreshInv'
  <2>1. /\ UNCHANGED <<item, planid>>
        /\ stop_flag => stop_flag'
        /\ completed_ids_' \subseteq completed_ids_
        /\ \A v \in Workers : Sending(v) =>
              Sending(v)' /\ cur'[v] = cur[v] /\ batch'[v] = batch[v]
    BY <1>4 DEF Sending, Exit, TestFails, Block, SpuriousWakeup
  <2>2. QED
    BY <2>1, FreshFrame
<1>5. ASSUME NEW w \in Workers,
             EnterRunning(w) \/ LeaveRunning(w)
      PROVE  FreshInv'
  <2>1. /\ UNCHANGED <<item, planid>>
        /\ stop_flag => stop_flag'
        /\ completed_ids_' \subseteq completed_ids_
        /\ \A v \in Workers : Sending(v) =>
              Sending(v)' /\ cur'[v] = cur[v] /\ batch'[v] = batch[v]
    BY <1>5 DEF Sending, EnterRunning, LeaveRunning
  <2>2. QED
    BY <2>1, FreshFrame
<1>6. ASSUME NEW w \in Workers, NothingToSend(w) \/ Finish(w) PROVE FreshInv'
  <2>1. /\ UNCHANGED <<item, planid>>
        /\ stop_flag => stop_flag'
        /\ completed_ids_' \subseteq completed_ids_
        /\ \A v \in Workers : Sending(v) =>
              Sending(v)' /\ cur'[v] = cur[v] /\ batch'[v] = batch[v]
    BY <1>6 DEF Sending, NothingToSend, Finish
  <2>2. QED
    BY <2>1, FreshFrame
<1>7. ASSUME NEW w \in Workers, sendQueryPlan(w) PROVE FreshInv'
  <2>1. PICK p \in PlanIds : /\ p \notin {planid[r] : r \in Queries}
                              /\ planid' = [planid EXCEPT ![cur[w]] = p]
    BY <1>7 DEF sendQueryPlan, Draws
  <2>2. cur[w] \in Queries /\ ~Sending(w) /\ UNCHANGED <<completed_ids_, stop_flag>>
    BY <1>7 DEF sendQueryPlan, Registers, Holds, Sending
  <2>3. \A q \in Queries, i \in NodeIds : Fresh(q, i) => Fresh(q, i)'
    <3>1. \A v \in Workers : Sending(v) =>
             Sending(v)' /\ cur'[v] = cur[v] /\ batch'[v] = batch[v]
      BY <1>7, <2>2 DEF sendQueryPlan, Sending
    <3>2. QED
      BY <2>2, <3>1, AtBatchFrame DEF Fresh
  <2>4. \A i \in NodeIds : <<p, i>> \notin completed_ids_
    BY <2>1 DEF CompletionInv
  <2>5. \A q \in Queries, i \in NodeIds : <<planid'[q], i>> \in completed_ids_'
           => <<planid[q], i>> \in completed_ids_
    BY <2>1, <2>2, <2>4
  <2>6. \A q \in Queries : Kind[q] = "parallel" => item'[q] = item[q]
    BY <1>7, <2>2 DEF sendQueryPlan, notifyHost
  <2>7. QED
    BY <2>3, <2>5, <2>6 DEF FreshInv
<1>8. ASSUME NEW w \in Workers, sendQueryPlanParallel(w) PROVE FreshInv'
  <2>1. PICK p \in PlanIds : /\ p \notin {planid[r] : r \in Queries}
                              /\ planid' = [planid EXCEPT ![cur[w]] = p]
    BY <1>8 DEF sendQueryPlanParallel, Draws
  <2>2. cur[w] \in Queries /\ ~Sending(w) /\ UNCHANGED <<completed_ids_, stop_flag>>
    BY <1>8 DEF sendQueryPlanParallel, Registers, Holds, Sending
  <2>3. \A q \in Queries, i \in NodeIds : Fresh(q, i) => Fresh(q, i)'
    <3>1. \A v \in Workers : Sending(v) =>
             Sending(v)' /\ cur'[v] = cur[v] /\ batch'[v] = batch[v]
      BY <1>8, <2>2 DEF sendQueryPlanParallel, Sending
    <3>2. QED
      BY <2>2, <3>1, AtBatchFrame DEF Fresh
  <2>4. \A i \in NodeIds : <<p, i>> \notin completed_ids_
    BY <2>1 DEF CompletionInv
  <2>5. \A q \in Queries, i \in NodeIds : <<planid'[q], i>> \in completed_ids_'
           => <<planid[q], i>> \in completed_ids_
    BY <2>1, <2>2, <2>4
  <2>6. \A q \in Queries : Kind[q] = "parallel" => item'[q] = item[q]
    BY <1>8, <2>2 DEF sendQueryPlanParallel
  <2>7. QED
    BY <2>3, <2>5, <2>6 DEF FreshInv
<1>9. ASSUME NEW w \in Workers, SendItem(w) PROVE FreshInv'
  <2>1. PICK i \in Unsent(w) : notifyHost(cur[w], i)
    BY <1>9 DEF SendItem
  <2>2. /\ UNCHANGED <<cur, batch, pc, planid, stop_flag, completed_ids_>>
        /\ cur[w] \in Queries /\ Sending(w)
        /\ batch[w] \in DOMAIN Batches[cur[w]]
    BY <1>9 DEF SendItem, Registers, Holds, Sending
  <2>3. i \in Batches[cur[w]][batch[w]] /\ i \in NodeIds
    BY <2>2, BatchesAssumption DEF Unsent
  <2>4. \A q \in Queries, j \in NodeIds :
           q # cur[w] \/ j # i => item'[q][j] = item[q][j]
    BY <2>1, <2>2, <2>3 DEF notifyHost
  <2>5. \A q \in Queries, j \in NodeIds : Fresh(q, j) => Fresh(q, j)'
    BY <2>2 DEF Fresh, AtBatch, Sending
  <2>6. Fresh(cur[w], i)'
    <3>1. Sending(w)' /\ i \in Batches[cur[w]][batch'[w]]
      BY <2>2, <2>3 DEF Sending
    <3>2. QED
      BY <2>2, <3>1 DEF Fresh, AtBatch
  <2>7. ASSUME NEW q \in Queries, NEW j \in NodeIds, Kind[q] = "parallel"
        PROVE  /\ item'[q][j] \in {"wire", "lost", "executed"} => Fresh(q, j)'
               /\ <<planid'[q], j>> \in completed_ids_' => Fresh(q, j)'
    <3>1. CASE q = cur[w] /\ j = i
      BY <2>2, <2>6, <3>1
    <3>2. CASE q # cur[w] \/ j # i
      BY <2>2, <2>4, <2>5, <2>7, <3>2 DEF FreshInv
    <3>3. QED
      BY <3>1, <3>2
  <2>8. QED
    BY <2>7 DEF FreshInv
<1>10. ASSUME NEW w \in Workers, WaitForBatch(w) PROVE FreshInv'
  <2>1. /\ UNCHANGED <<item, planid>>
        /\ stop_flag => stop_flag'
        /\ completed_ids_' \subseteq completed_ids_
        /\ \A v \in Workers : Sending(v) =>
              Sending(v)' /\ cur'[v] = cur[v] /\ batch'[v] = batch[v]
    BY <1>10 DEF Sending, WaitForBatch, BatchIds, Tracker!waitNextCompletions
  <2>2. QED
    BY <2>1, FreshFrame
<1>11. ASSUME NEW w \in Workers, BatchCompleted(w) PROVE FreshInv'
  <2>1. /\ UNCHANGED <<cur, item, planid, stop_flag>>
        /\ cur[w] \in Queries /\ Holds(w) /\ Sending(w)
        /\ want[w] = BatchIds(w) /\ want[w] \subseteq completed_ids_
        /\ completed_ids_' = completed_ids_ \ want[w]
        /\ batch[w] \in DOMAIN Batches[cur[w]]
        /\ planid[cur[w]] \in PlanIds
    BY <1>11 DEF BatchCompleted, Tracker!ReturnTrue, Tracker!Ready, Registers,
                 Holds, Sending, WaitInv
  <2>2. \A v \in Workers : v # w => pc'[v] = pc[v] /\ batch'[v] = batch[v]
    BY <1>11 DEF BatchCompleted
  <2>3. \A q \in Queries, i \in NodeIds : q # cur[w] /\ Fresh(q, i) => Fresh(q, i)'
    BY <2>1, <2>2 DEF Fresh, AtBatch, Sending
  <2>4. \A i \in NodeIds : AtBatch(cur[w], i) => i \in Batches[cur[w]][batch[w]]
    BY <2>1 DEF AtBatch, OnePlace, HoldersDistinct, Holds, Sending
  <2>5. \A i \in Batches[cur[w]][batch[w]] :
           item[cur[w]][i] = "acked" /\ <<planid[cur[w]], i>> \notin completed_ids_'
    <3>1. SUFFICES ASSUME NEW i \in Batches[cur[w]][batch[w]]
                   PROVE  /\ item[cur[w]][i] = "acked"
                          /\ <<planid[cur[w]], i>> \notin completed_ids_'
      OBVIOUS
    <3>2. i \in NodeIds /\ <<planid[cur[w]], i>> \in want[w]
      BY <2>1, BatchesAssumption DEF BatchIds
    <3>3. PICK q \in Queries : planid[q] = planid[cur[w]] /\ item[q][i] = "acked"
      BY <2>1, <3>2 DEF CompletionInv
    <3>4. q = cur[w]
      BY <2>1, <3>3, ConstantsAssumption DEF PlanIdInv
    <3>5. QED
      BY <2>1, <3>2, <3>3, <3>4
  <2>6. ASSUME NEW q \in Queries, NEW i \in NodeIds, Kind[q] = "parallel",
               \/ item'[q][i] \in {"wire", "lost", "executed"}
               \/ <<planid'[q], i>> \in completed_ids_'
        PROVE  Fresh(q, i)'
    <3>1. Fresh(q, i)
      BY <2>1, <2>6 DEF FreshInv
    <3>2. CASE q # cur[w]
      BY <2>3, <3>1, <3>2
    <3>3. CASE q = cur[w] /\ AtBatch(q, i)
      BY <2>1, <2>4, <2>5, <2>6, <3>3
    <3>4. CASE stop_flag
      BY <2>1, <3>4 DEF Fresh
    <3>5. QED
      BY <3>1, <3>2, <3>3, <3>4 DEF Fresh
  <2>7. QED
    BY <2>6 DEF FreshInv
<1>12. ASSUME NEW w \in Workers, BatchAbandoned(w) PROVE FreshInv'
  <2>1. stop_flag'
    BY <1>12 DEF BatchAbandoned, Tracker!ReturnFalse, StopInv
  <2>2. QED
    BY <2>1 DEF FreshInv, Fresh
<1>13. ASSUME NEW w \in Workers,
             TrackerSleep(w) \/ TrackerSpuriousWakeup(w)
      PROVE  FreshInv'
  <2>1. /\ UNCHANGED <<item, planid>>
        /\ stop_flag => stop_flag'
        /\ completed_ids_' \subseteq completed_ids_
        /\ \A v \in Workers : Sending(v) =>
              Sending(v)' /\ cur'[v] = cur[v] /\ batch'[v] = batch[v]
    BY <1>13 DEF Sending, TrackerSleep, TrackerSpuriousWakeup, Tracker!Sleep,
     Tracker!SpuriousWakeup
  <2>2. QED
    BY <2>1, FreshFrame
<1>14. ASSUME NEW q \in Queries, NEW i \in NodeIds,
             Execute(q, i)
      PROVE  FreshInv'
  <2>1. /\ UNCHANGED <<cur, batch, pc, planid, stop_flag, completed_ids_>>
        /\ \A r \in Queries, j \in NodeIds :
              item'[r][j] \in {"wire", "lost", "executed"}
                 => item[r][j] \in {"wire", "lost", "executed"}
    BY <1>14 DEF Execute
  <2>2. \A r \in Queries, j \in NodeIds : Fresh(r, j)' = Fresh(r, j)
    BY <2>1 DEF Fresh, AtBatch, Sending
  <2>3. QED
    BY <2>1, <2>2 DEF FreshInv
<1>15. ASSUME NEW q \in Queries, NEW i \in NodeIds,
             TaskFinished(q, i)
      PROVE  FreshInv'
  <2>1. /\ UNCHANGED <<cur, batch, pc, planid, stop_flag>>
        /\ item[q][i] = "executed"
        /\ item' = [item EXCEPT ![q][i] = "acked"]
        /\ completed_ids_' = completed_ids_ \cup {<<planid[q], i>>}
    BY <1>15 DEF TaskFinished, Tracker!markCompleted
  <2>2. \A r \in Queries, j \in NodeIds : Fresh(r, j)' = Fresh(r, j)
    BY <2>1 DEF Fresh, AtBatch, Sending
  <2>3. \A r \in Queries, j \in NodeIds :
           item'[r][j] \in {"wire", "lost", "executed"}
              => item[r][j] \in {"wire", "lost", "executed"}
    BY <2>1
  <2>4. planid[q] # NoPlan
    BY <2>1 DEF Registers
  <2>5. \A r \in Queries, j \in NodeIds : <<planid[r], j>> \in completed_ids_' =>
           <<planid[r], j>> \in completed_ids_ \/ (r = q /\ j = i)
    BY <2>1, <2>4 DEF PlanIdInv
  <2>6. Kind[q] = "parallel" => Fresh(q, i)
    BY <2>1 DEF FreshInv
  <2>7. QED
    BY <2>1, <2>2, <2>3, <2>5, <2>6 DEF FreshInv
<1>16. CASE ListenerNotify
  <2>1. /\ UNCHANGED <<item, planid>>
        /\ stop_flag => stop_flag'
        /\ completed_ids_' \subseteq completed_ids_
        /\ \A v \in Workers : Sending(v) =>
              Sending(v)' /\ cur'[v] = cur[v] /\ batch'[v] = batch[v]
    BY <1>16 DEF Sending, ListenerNotify, Tracker!notify_all
  <2>2. QED
    BY <2>1, FreshFrame
<1>17. CASE Destructor
  <2>1. /\ UNCHANGED <<item, planid, cur, batch, completed_ids_>>
        /\ stop_flag => stop_flag'
    BY <1>17 DEF Destructor, SetStopFlag, StopTracker, StopTrackerNotify,
                 NotifyWorkers, Join, Tracker!stop, Tracker!notify_all
  <2>2. \A v \in Workers : Sending(v) => Sending(v)'
    <3>1. CASE NotifyWorkers
      BY <3>1 DEF NotifyWorkers, Sending
    <3>2. CASE SetStopFlag \/ StopTracker \/ StopTrackerNotify \/ Join
      BY <3>2 DEF SetStopFlag, StopTracker, StopTrackerNotify, Join, Sending
    <3>3. QED
      BY <1>17, <3>1, <3>2 DEF Destructor
  <2>3. QED
    BY <2>1, <2>2, FreshFrame
<1>18. CASE UNCHANGED vars
  <2>1. /\ UNCHANGED <<item, planid>>
        /\ stop_flag => stop_flag'
        /\ completed_ids_' \subseteq completed_ids_
        /\ \A v \in Workers : Sending(v) =>
              Sending(v)' /\ cur'[v] = cur[v] /\ batch'[v] = batch[v]
    BY <1>18 DEF Sending, vars
  <2>2. QED
    BY <2>1, FreshFrame
<1>19. QED
  BY <1>1, <1>2, <1>3, <1>4, <1>5, <1>6, <1>7, <1>8, <1>9, <1>10, <1>11,
     <1>12, <1>13, <1>14, <1>15, <1>16, <1>17, <1>18
     DEF Next, WorkerStep

\* Until the destructor runs, a completion of a parallel query in
\* completed_ids_ belongs to the batch its worker is at: each wait erases
\* exactly what its batch reported, so no later wait finds an old completion.
THEOREM NoStaleCompletionHolds ==
    ASSUME UniqueDraws
    PROVE  Spec => []NoStaleCompletion
<1>1. Init => StopInv /\ FreshInv
  BY DEF Init, StopInv, FreshInv, Tracker!Init
<1>2. BatchesInv /\ StopInv /\ [Next]_vars => StopInv'
  BY StopInvStep DEF BatchesInv
<1>3. FreshInv => NoStaleCompletion
  BY DEF FreshInv, NoStaleCompletion, Fresh, AtBatch, Sending
<1>4. QED
  BY <1>1, <1>2, <1>3, BatchesInvariant, FreshInvStep, PTL DEF Spec

-----------------------------------------------------------------------------
(* The workers keep the contract of the tracker *)

LEMMA TrackerStep ==
    BatchesInv /\ [Next]_vars => Tracker!Next \/ UNCHANGED trackVars
<1> SUFFICES ASSUME BatchesInv, [Next]_vars
             PROVE  Tracker!Next \/ UNCHANGED trackVars
  OBVIOUS
<1> USE DEF BatchesInv, TypeInv, TypeOK, poolVars, planVars, trackVars
<1>1. ASSUME NEW q \in Queries,
             addQuery(q)
      PROVE  Tracker!Next \/ UNCHANGED trackVars
  BY <1>1 DEF addQuery
<1>2. ASSUME NEW q \in Queries,
             notify_one(q)
      PROVE  Tracker!Next \/ UNCHANGED trackVars
  BY <1>2 DEF notify_one
<1>3. ASSUME NEW w \in Workers,
             PopFront(w)
      PROVE  Tracker!Next \/ UNCHANGED trackVars
  BY <1>3 DEF PopFront
<1>4. ASSUME NEW w \in Workers,
             Exit(w) \/ TestFails(w) \/ Block(w) \/ SpuriousWakeup(w)
      PROVE  Tracker!Next \/ UNCHANGED trackVars
  BY <1>4 DEF Exit, TestFails, Block, SpuriousWakeup
<1>5. ASSUME NEW w \in Workers,
             EnterRunning(w) \/ LeaveRunning(w)
      PROVE  Tracker!Next \/ UNCHANGED trackVars
  BY <1>5 DEF EnterRunning, LeaveRunning
<1>6. ASSUME NEW w \in Workers,
             NothingToSend(w) \/ Finish(w)
      PROVE  Tracker!Next \/ UNCHANGED trackVars
  BY <1>6 DEF NothingToSend, Finish
<1>7. ASSUME NEW w \in Workers,
             sendQueryPlan(w)
      PROVE  Tracker!Next \/ UNCHANGED trackVars
  BY <1>7 DEF sendQueryPlan, Draws, notifyHost, PlanItem
<1>8. ASSUME NEW w \in Workers,
             sendQueryPlanParallel(w)
      PROVE  Tracker!Next \/ UNCHANGED trackVars
  BY <1>8 DEF sendQueryPlanParallel, Draws
<1>9. ASSUME NEW w \in Workers,
             SendItem(w)
      PROVE  Tracker!Next \/ UNCHANGED trackVars
  BY <1>9 DEF SendItem, Unsent, notifyHost
<1>10. ASSUME NEW w \in Workers,
             WaitForBatch(w)
      PROVE  Tracker!Next \/ UNCHANGED trackVars
  <2>1. Tracker!waitNextCompletions(w, BatchIds(w))
    BY <1>10 DEF WaitForBatch
  <2>2. BatchIds(w) \in SUBSET Tracker!Ids
    <3>1. /\ cur[w] \in Queries
          /\ planid[cur[w]] \in PlanIds
          /\ batch[w] \in DOMAIN Batches[cur[w]]
      BY <1>10 DEF WaitForBatch, Registers, Holds, Sending
    <3>2. Batches[cur[w]][batch[w]] \subseteq NodeIds
      BY <3>1, BatchesAssumption
    <3>3. QED
      BY <3>1, <3>2 DEF BatchIds, Tracker!Ids
  <2>3. ~Tracker!Overlaps(w, BatchIds(w))
    <3>1. SUFFICES ASSUME NEW v \in Workers \ {w}, waiting[v] # "out"
                   PROVE  want[v] \cap BatchIds(w) = {}
      BY DEF Tracker!Overlaps
    <3>2. /\ Holds(v) /\ Holds(w) /\ want[v] = BatchIds(v)
          /\ cur[v] \in Queries /\ cur[w] \in Queries
          /\ planid[cur[w]] \in PlanIds
      BY <1>10, <3>1 DEF WaitInv, WaitForBatch, Registers, Holds, Sending
    <3>3. cur[v] # cur[w]
      BY <3>2 DEF OnePlace, HoldersDistinct
    <3>4. planid[cur[v]] # planid[cur[w]]
      BY <3>2, <3>3, ConstantsAssumption DEF PlanIdInv
    <3>5. QED
      BY <3>2, <3>4 DEF BatchIds
  <2>4. QED
    BY <2>1, <2>2, <2>3 DEF Tracker!Next, Tracker!Waiter, Tracker!Call
<1>11. ASSUME NEW w \in Workers,
             BatchCompleted(w)
      PROVE  Tracker!Next \/ UNCHANGED trackVars
  BY <1>11 DEF BatchCompleted, Tracker!Next, Tracker!Waiter
<1>12. ASSUME NEW w \in Workers,
             BatchAbandoned(w)
      PROVE  Tracker!Next \/ UNCHANGED trackVars
  BY <1>12 DEF BatchAbandoned, Tracker!Next, Tracker!Waiter
<1>13. ASSUME NEW w \in Workers,
             TrackerSleep(w) \/ TrackerSpuriousWakeup(w)
      PROVE  Tracker!Next \/ UNCHANGED trackVars
  BY <1>13 DEF TrackerSleep, TrackerSpuriousWakeup, Tracker!Next, Tracker!Waiter
<1>14. ASSUME NEW q \in Queries, NEW i \in NodeIds,
             Execute(q, i)
      PROVE  Tracker!Next \/ UNCHANGED trackVars
  BY <1>14 DEF Execute
<1>15. ASSUME NEW q \in Queries, NEW i \in NodeIds,
             TaskFinished(q, i)
      PROVE  Tracker!Next \/ UNCHANGED trackVars
  <2>1. planid[q] \in PlanIds
    BY <1>15 DEF TaskFinished, Registers
  <2>2. Tracker!Caller("listener")
    BY <1>15, <2>1 DEF TaskFinished, Tracker!Caller
  <2>3. QED
    BY <2>2 DEF Tracker!Next
<1>16. CASE ListenerNotify
  BY <1>16 DEF ListenerNotify, Tracker!Next, Tracker!Caller
<1>17. CASE Destructor
  <2>1. CASE SetStopFlag \/ NotifyWorkers \/ Join
    BY <2>1 DEF SetStopFlag, NotifyWorkers, Join
  <2>2. CASE StopTracker \/ StopTrackerNotify
    BY <2>2 DEF StopTracker, StopTrackerNotify, Tracker!Next, Tracker!Caller
  <2>3. QED
    BY <1>17, <2>1, <2>2 DEF Destructor
<1>18. CASE UNCHANGED vars
  BY <1>18 DEF vars
<1>19. QED
  BY <1>1, <1>2, <1>3, <1>4, <1>5, <1>6, <1>7, <1>8, <1>9, <1>10, <1>11,
     <1>12, <1>13, <1>14, <1>15, <1>16, <1>17, <1>18
     DEF Next, WorkerStep

\* The manager implements the WorkCompletionTracker specification: its threads
\* use the monitor within its contract, so what is proved of any client of the
\* monitor (no lost wake-up, completions kept) holds here.
THEOREM ImplementsTracker ==
    ASSUME UniqueDraws
    PROVE  Spec => TrackerSpec
<1>1. Init => Tracker!Init
  BY DEF Init
<1>2. BatchesInv /\ [Next]_vars => [Tracker!Next]_(Tracker!trackerVars)
  BY TrackerStep DEF trackVars, Tracker!trackerVars
<1>3. QED
  BY <1>1, <1>2, BatchesInvariant, PTL DEF Spec, TrackerSpec, Tracker!Spec

=============================================================================
