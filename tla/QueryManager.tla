---------------------------- MODULE QueryManager ----------------------------
(***************************************************************************)
(* cpp/code/src/optimizer/QueryManager.cpp: a queue of queries, a pool of  *)
(* worker threads that plan them and dispatch them to the compute units    *)
(* over one TCP connection, and the destructor that stops the pool.  The   *)
(* TCP listener thread reports finished work items to the                  *)
(* WorkCompletionTracker, on which the workers wait batch by batch.        *)
(*                                                                         *)
(* A step is the work a thread does between two points where another       *)
(* thread can see it: a critical section, a notification, a send.          *)
(***************************************************************************)
EXTENDS Naturals, Sequences, FiniteSets

CONSTANTS
    Queries,      \* query contexts; addQuery gives each its own id
    Workers,      \* the threads of the pool
    PlanIds,      \* values of generateRandomId()
    NodeIds,      \* work item ids, 0 included
    Kind,         \* query -> what processQuery makes of its text
    Batches,      \* query -> its levels, the sets of item ids of one batch each
    UniqueDraws,  \* do the unsynchronised draws of plan ids never repeat?
    MaxDrops,     \* sends that notifyHost may lose
    NoQuery, NoPlan

\* A compute unit answers a whole query plan with an itemid left at 0.
PlanItem == 0

ASSUME ConstantsAssumption ==
    /\ PlanItem \in NodeIds
    /\ Kind \in [Queries -> {"nothing", "sequential", "parallel"}]
    /\ UniqueDraws \in BOOLEAN
    /\ MaxDrops \in Nat
    /\ NoQuery \notin Queries
    /\ NoPlan \notin PlanIds

ASSUME WorkersAssumption == IsFiniteSet(Workers)

\* crateWorkItemsParallel: at least one level, none empty, no item in two.
ASSUME BatchesAssumption ==
    /\ Batches \in [Queries -> Seq(SUBSET NodeIds)]
    /\ \A q \in Queries : Kind[q] = "parallel" =>
          /\ Batches[q] # <<>>
          /\ \A k \in DOMAIN Batches[q] : Batches[q][k] # {}
          /\ \A k, l \in DOMAIN Batches[q] :
                k # l => Batches[q][k] \cap Batches[q][l] = {}

VARIABLES
    queue, running, finished, stop_flag,
    added,      \* queries handed to addQuery so far
    adding,     \* addQuery calls between the unlock and cv.notify_one()
    pc,         \* where each worker is in workerRoutine
    cur,        \* the query (ctx) a worker holds
    batch,      \* the index of the batch the worker is at
    planid,     \* the plan id drawn for a query
    item,       \* query -> item -> where its work request is
    drops,      \* sends lost so far
    dtor,       \* where the destructor is
    completed_ids_, stopped_, waiting, want, notifying

poolVars  == <<queue, running, finished, stop_flag, added, adding, cur>>
planVars  == <<batch, planid, item, drops>>
trackVars == <<completed_ids_, stopped_, waiting, want, notifying>>
vars == <<poolVars, planVars, pc, dtor, trackVars>>

Tracker == INSTANCE WorkCompletionTracker
              WITH Waiters <- Workers, Callers <- {"listener", "destructor"}

PCs == {"check", "blocking", "asleep", "popped", "process", "send", "wait",
        "leave", "done", "exited"}

ItemStates == {"unsent", "wire", "lost", "executed", "acked"}

TypeOK ==
    /\ queue \in Seq(Queries)
    /\ running \subseteq Queries
    /\ finished \subseteq Queries
    /\ stop_flag \in BOOLEAN
    /\ added \subseteq Queries
    /\ adding \subseteq added
    /\ pc \in [Workers -> PCs]
    /\ cur \in [Workers -> Queries \cup {NoQuery}]
    /\ batch \in [Workers -> Nat]
    /\ planid \in [Queries -> PlanIds \cup {NoPlan}]
    /\ item \in [Queries -> [NodeIds -> ItemStates]]
    /\ drops \in 0 .. MaxDrops
    /\ dtor \in {"alive", "flagged", "stopping", "notify", "joining", "gone"}
    /\ Tracker!TypeOK

Init ==
    /\ queue = <<>>
    /\ running = {}
    /\ finished = {}
    /\ stop_flag = FALSE
    /\ added = {}
    /\ adding = {}
    /\ pc = [w \in Workers |-> "check"]
    /\ cur = [w \in Workers |-> NoQuery]
    /\ batch = [w \in Workers |-> 0]
    /\ planid = [q \in Queries |-> NoPlan]
    /\ item = [q \in Queries |-> [i \in NodeIds |-> "unsent"]]
    /\ drops = 0
    /\ dtor = "alive"
    /\ Tracker!Init

\* The thread that found nothing to do still holds queue_mutex until cv.wait
\* has put it to sleep.  Every other critical section is a single step.
Locked == \E w \in Workers : pc[w] = "blocking"

Goto(w, label) == pc' = [pc EXCEPT ![w] = label]

-----------------------------------------------------------------------------
(* addQuery *)

addQuery(q) ==
    /\ dtor = "alive"
    /\ q \notin added
    /\ ~Locked
    /\ added' = added \cup {q}
    /\ queue' = Append(queue, q)
    /\ adding' = adding \cup {q}
    /\ UNCHANGED <<running, finished, stop_flag, cur, planVars, pc, dtor, trackVars>>

\* Fault: addQuery notifies nobody.
notify_none(q) ==
    /\ q \in adding
    /\ adding' = adding \ {q}
    /\ UNCHANGED <<queue, running, finished, stop_flag, added, cur,
                   planVars, pc, dtor, trackVars>>

\* cv.notify_one() wakes one of the sleepers, if there is any.
notify_one(q) ==
    /\ q \in adding
    /\ adding' = adding \ {q}
    /\ LET asleep == {w \in Workers : pc[w] = "asleep"}
       IN  IF asleep = {} THEN UNCHANGED pc
           ELSE \E w \in asleep : Goto(w, "check")
    /\ UNCHANGED <<queue, running, finished, stop_flag, added, cur,
                   planVars, dtor, trackVars>>

-----------------------------------------------------------------------------
(* workerRoutine: the wait for a query *)

\* Fault: the front of the queue is read and not popped.
PopFrontCopy(w) ==
    /\ pc[w] = "check"
    /\ ~Locked
    /\ queue # <<>>
    /\ cur' = [cur EXCEPT ![w] = Head(queue)]
    /\ Goto(w, "popped")
    /\ UNCHANGED <<queue, running, finished, stop_flag, added, adding,
                   planVars, dtor, trackVars>>

PopFront(w) ==
    /\ pc[w] = "check"
    /\ ~Locked
    /\ queue # <<>>
    /\ cur' = [cur EXCEPT ![w] = Head(queue)]
    /\ queue' = Tail(queue)
    /\ Goto(w, "popped")
    /\ UNCHANGED <<running, finished, stop_flag, added, adding,
                   planVars, dtor, trackVars>>

\* Fault: stop_flag alone ends the worker.
ExitAtOnce(w) ==
    /\ pc[w] = "check"
    /\ ~Locked
    /\ stop_flag
    /\ Goto(w, "exited")
    /\ UNCHANGED <<poolVars, planVars, dtor, trackVars>>

Exit(w) ==
    /\ pc[w] = "check"
    /\ ~Locked
    /\ stop_flag
    /\ queue = <<>>
    /\ Goto(w, "exited")
    /\ UNCHANGED <<poolVars, planVars, dtor, trackVars>>

\* Fault: the predicate forgets stop_flag.
TestFailsStopped(w) ==
    /\ pc[w] = "check"
    /\ ~Locked
    /\ queue = <<>>
    /\ Goto(w, "blocking")
    /\ UNCHANGED <<poolVars, planVars, dtor, trackVars>>

\* The predicate is false: the thread is about to block, mutex in hand.
TestFails(w) ==
    /\ pc[w] = "check"
    /\ ~Locked
    /\ ~stop_flag
    /\ queue = <<>>
    /\ Goto(w, "blocking")
    /\ UNCHANGED <<poolVars, planVars, dtor, trackVars>>

Block(w) ==
    /\ pc[w] = "blocking"
    /\ Goto(w, "asleep")
    /\ UNCHANGED <<poolVars, planVars, dtor, trackVars>>

SpuriousWakeup(w) ==
    /\ pc[w] = "asleep"
    /\ Goto(w, "check")
    /\ UNCHANGED <<poolVars, planVars, dtor, trackVars>>

-----------------------------------------------------------------------------
(* workerRoutine: the life of one query *)

EnterRunning(w) ==
    /\ pc[w] = "popped"
    /\ running' = running \cup {cur[w]}
    /\ Goto(w, "process")
    /\ UNCHANGED <<queue, finished, stop_flag, added, adding, cur,
                   planVars, dtor, trackVars>>

\* A blank text, an empty translation or an exception: every way out of
\* processQuery other than a dispatch comes before the first send.
NothingToSend(w) ==
    /\ pc[w] = "process"
    /\ Kind[cur[w]] = "nothing"
    /\ Goto(w, "leave")
    /\ UNCHANGED <<poolVars, planVars, dtor, trackVars>>

\* generateRandomId() uses one unsynchronised generator for all threads.
Draws(q, p) ==
    /\ UniqueDraws => p \notin {planid[r] : r \in Queries}
    /\ planid' = [planid EXCEPT ![q] = p]

\* notifyHost ignores the result of its non-blocking send: the request goes
\* onto the wire or is lost.
notifyHost(q, i) ==
    \/ /\ item' = [item EXCEPT ![q][i] = "wire"]
       /\ UNCHANGED drops
    \/ /\ drops < MaxDrops
       /\ drops' = drops + 1
       /\ item' = [item EXCEPT ![q][i] = "lost"]

\* One request for the whole plan; nobody waits for its completion.
sendQueryPlan(w) ==
    /\ pc[w] = "process"
    /\ Kind[cur[w]] = "sequential"
    /\ \E p \in PlanIds : Draws(cur[w], p)
    /\ notifyHost(cur[w], PlanItem)
    /\ Goto(w, "leave")
    /\ UNCHANGED <<poolVars, batch, dtor, trackVars>>

sendQueryPlanParallel(w) ==
    /\ pc[w] = "process"
    /\ Kind[cur[w]] = "parallel"
    /\ \E p \in PlanIds : Draws(cur[w], p)
    /\ batch' = [batch EXCEPT ![w] = 1]
    /\ Goto(w, "send")
    /\ UNCHANGED <<poolVars, item, drops, dtor, trackVars>>

\* The items of the worker's batch that the send loop has not reached.
Unsent(w) ==
    {i \in Batches[cur[w]][batch[w]] : item[cur[w]][i] = "unsent"}

SendItem(w) ==
    /\ pc[w] = "send"
    /\ \E i \in Unsent(w) : notifyHost(cur[w], i)
    /\ UNCHANGED <<poolVars, batch, planid, pc, dtor, trackVars>>

\* The vector ids handed to the tracker.
BatchIds(w) == {<<planid[cur[w]], i>> : i \in Batches[cur[w]][batch[w]]}

WaitForBatch(w) ==
    /\ pc[w] = "send"
    /\ Unsent(w) = {}
    /\ Tracker!waitNextCompletions(w, BatchIds(w))
    /\ Goto(w, "wait")
    /\ UNCHANGED <<poolVars, planVars, dtor>>

\* Fault: the next batch is sent whatever became of this one.
BatchCompletedEarly(w) ==
    /\ pc[w] = "wait"
    /\ waiting[w] = "check"
    /\ waiting' = [waiting EXCEPT ![w] = "out"]
    /\ want' = [want EXCEPT ![w] = {}]
    /\ UNCHANGED <<completed_ids_, stopped_, notifying>>
    /\ IF batch[w] < Len(Batches[cur[w]])
       THEN batch' = [batch EXCEPT ![w] = @ + 1] /\ Goto(w, "send")
       ELSE Goto(w, "leave") /\ UNCHANGED batch
    /\ UNCHANGED <<poolVars, planid, item, drops, dtor>>

BatchCompleted(w) ==
    /\ pc[w] = "wait"
    /\ Tracker!ReturnTrue(w)
    /\ IF batch[w] < Len(Batches[cur[w]])
       THEN batch' = [batch EXCEPT ![w] = @ + 1] /\ Goto(w, "send")
       ELSE Goto(w, "leave") /\ UNCHANGED batch
    /\ UNCHANGED <<poolVars, planid, item, drops, dtor>>

\* "Completion tracker shutdown signal received": the rest is not sent.
BatchAbandoned(w) ==
    /\ pc[w] = "wait"
    /\ Tracker!ReturnFalse(w)
    /\ Goto(w, "leave")
    /\ UNCHANGED <<poolVars, planVars, dtor>>

\* The worker inside cv_.wait of the tracker.
TrackerSleep(w) ==
    /\ Tracker!Sleep(w)
    /\ UNCHANGED <<poolVars, planVars, pc, dtor>>

TrackerSpuriousWakeup(w) ==
    /\ Tracker!SpuriousWakeup(w)
    /\ UNCHANGED <<poolVars, planVars, pc, dtor>>

LeaveRunning(w) ==
    /\ pc[w] = "leave"
    /\ running' = running \ {cur[w]}
    /\ Goto(w, "done")
    /\ UNCHANGED <<queue, finished, stop_flag, added, adding, cur,
                   planVars, dtor, trackVars>>

Finish(w) ==
    /\ pc[w] = "done"
    /\ finished' = finished \cup {cur[w]}
    /\ cur' = [cur EXCEPT ![w] = NoQuery]
    /\ Goto(w, "check")
    /\ UNCHANGED <<queue, running, stop_flag, added, adding,
                   planVars, dtor, trackVars>>

-----------------------------------------------------------------------------
(* The compute units (external) and the TCP listener *)

\* Server and compute units: requests are executed in any order, each once.
Execute(q, i) ==
    /\ item[q][i] = "wire"
    /\ item' = [item EXCEPT ![q][i] = "executed"]
    /\ UNCHANGED <<poolVars, batch, planid, drops, pc, dtor, trackVars>>

\* The TASK_FINISHED callback; WorkResponse.success is not looked at.
TaskFinished(q, i) ==
    /\ item[q][i] = "executed"
    /\ item' = [item EXCEPT ![q][i] = "acked"]
    /\ Tracker!markCompleted("listener", planid[q], i)
    /\ UNCHANGED <<poolVars, batch, planid, drops, pc, dtor>>

ListenerNotify ==
    /\ Tracker!notify_all("listener")
    /\ UNCHANGED <<poolVars, planVars, pc, dtor>>

-----------------------------------------------------------------------------
(* ~QueryManager *)

\* stop_flag is set without queue_mutex.  No addQuery may still be running.
SetStopFlag ==
    /\ dtor = "alive"
    /\ adding = {}
    /\ stop_flag' = TRUE
    /\ dtor' = "flagged"
    /\ UNCHANGED <<queue, running, finished, added, adding, cur,
                   planVars, pc, trackVars>>

\* Fault: the destructor does not stop the tracker.
StopTrackerNever ==
    /\ dtor = "flagged"
    /\ dtor' = "notify"
    /\ UNCHANGED <<poolVars, planVars, pc, trackVars>>

StopTracker ==
    /\ dtor = "flagged"
    /\ Tracker!stop("destructor")
    /\ dtor' = "stopping"
    /\ UNCHANGED <<poolVars, planVars, pc>>

StopTrackerNotify ==
    /\ dtor = "stopping"
    /\ Tracker!notify_all("destructor")
    /\ dtor' = "notify"
    /\ UNCHANGED <<poolVars, planVars, pc>>

\* cv.notify_all(): misses a thread that is still "blocking".
NotifyWorkers ==
    /\ dtor = "notify"
    /\ pc' = [w \in Workers |-> IF pc[w] = "asleep" THEN "check" ELSE pc[w]]
    /\ dtor' = "joining"
    /\ UNCHANGED <<poolVars, planVars, trackVars>>

Join ==
    /\ dtor = "joining"
    /\ \A w \in Workers : pc[w] = "exited"
    /\ dtor' = "gone"
    /\ UNCHANGED <<poolVars, planVars, pc, trackVars>>

-----------------------------------------------------------------------------
\* What a worker does when it is scheduled.
WorkerStep(w) ==
    \/ PopFront(w)
    \/ Exit(w)
    \/ TestFails(w)
    \/ Block(w)
    \/ EnterRunning(w)
    \/ NothingToSend(w)
    \/ sendQueryPlan(w)
    \/ sendQueryPlanParallel(w)
    \/ SendItem(w)
    \/ WaitForBatch(w)
    \/ BatchCompleted(w)
    \/ BatchAbandoned(w)
    \/ TrackerSleep(w)
    \/ LeaveRunning(w)
    \/ Finish(w)

Destructor ==
    \/ SetStopFlag
    \/ StopTracker
    \/ StopTrackerNotify
    \/ NotifyWorkers
    \/ Join

Next ==
    \/ \E q \in Queries : addQuery(q) \/ notify_one(q)
    \/ \E w \in Workers :
          WorkerStep(w) \/ SpuriousWakeup(w) \/ TrackerSpuriousWakeup(w)
    \/ \E q \in Queries, i \in NodeIds : Execute(q, i) \/ TaskFinished(q, i)
    \/ ListenerNotify
    \/ Destructor

Spec == Init /\ [][Next]_vars

\* Threads that can run are scheduled, a compute unit executes what it gets
\* and its answer arrives.  Nobody has to add a query or to destroy the
\* manager, but a destructor that has begun goes on; no spurious wake-up is
\* ever owed.
Fairness ==
    /\ \A q \in Queries : WF_vars(notify_one(q))
    /\ \A w \in Workers : WF_vars(WorkerStep(w))
    /\ \A q \in Queries, i \in NodeIds :
          WF_vars(Execute(q, i)) /\ WF_vars(TaskFinished(q, i))
    /\ WF_vars(ListenerNotify)
    /\ WF_vars(StopTracker \/ StopTrackerNotify \/ NotifyWorkers \/ Join)

FairSpec == Spec /\ Fairness

-----------------------------------------------------------------------------
(* Properties *)

\* The workers that hold a query, and those whose query is in running.
Holds(w)   == pc[w] \in {"popped", "process", "send", "wait", "leave", "done"}
Working(w) == pc[w] \in {"process", "send", "wait", "leave"}

InQueue(q) == \E n \in DOMAIN queue : queue[n] = q
Held(q)    == \E w \in Workers : Holds(w) /\ cur[w] = q

QueueDistinct   == \A m, n \in DOMAIN queue : m # n => queue[m] # queue[n]
HoldersDistinct == \A v, w \in Workers :
                      v # w /\ Holds(v) /\ Holds(w) => cur[v] # cur[w]
Accounted       == \A q \in Queries :
                      /\ q \in added <=> InQueue(q) \/ Held(q) \/ q \in finished
                      /\ ~(InQueue(q) /\ Held(q))
                      /\ q \in finished => ~InQueue(q) /\ ~Held(q)
RunningExact    == running = {cur[w] : w \in {v \in Workers : Working(v)}}

\* No query is lost or processed twice: workerRoutine keeps every query that
\* addQuery accepted in exactly one place (the queue, one worker, the finished
\* list), and running lists exactly the queries between its two critical
\* sections.
OnePlace == QueueDistinct /\ HoldersDistinct /\ Accounted /\ RunningExact

\* notify_one strands no query: while a worker sleeps on cv, each queued query
\* has an addQuery about to notify for it or a worker about to look at the
\* queue.
NoStrandedQuery ==
    (\E w \in Workers : pc[w] = "asleep") =>
        Len(queue) <= Cardinality(adding)
                        + Cardinality({w \in Workers : pc[w] = "check"})

\* "Synchronized batches": a request of one batch of sendQueryPlanParallel is
\* handed to the socket only after every item of the earlier batches of the
\* same query has been executed and reported.
BatchBarrier ==
    \A q \in Queries : Kind[q] = "parallel" =>
        \A k \in DOMAIN Batches[q] :
            (\E i \in Batches[q][k] : item[q][i] # "unsent") =>
                \A l \in 1 .. k-1 : \A j \in Batches[q][l] : item[q][j] = "acked"

\* completed_ids_ is left clean: until stop(), the only completions of a
\* parallel query it holds are of the batch its worker is at, so none is there
\* to satisfy a later wait.  (The answers to sequential plans stay for ever.)
NoStaleCompletion ==
    \A q \in Queries, i \in NodeIds :
        Kind[q] = "parallel" /\ <<planid[q], i>> \in completed_ids_ =>
            \/ stop_flag
            \/ \E w \in Workers : /\ pc[w] \in {"send", "wait"}
                                  /\ cur[w] = q
                                  /\ i \in Batches[q][batch[w]]

\* A worker leaves workerRoutine only when the queue is drained for good:
\* nothing is queued once a thread has exited, and after ~QueryManager every
\* accepted query is in finished.
StopDrains ==
    /\ (\E w \in Workers : pc[w] = "exited") => queue = <<>>
    /\ dtor = "gone" /\ Workers # {} => finished = added

\* The workers use the tracker as its contract demands (no two overlapping
\* waits for the same id): every step is a step of WorkCompletionTracker.
TrackerSpec == Tracker!Spec

\* As long as no send is lost, every query that addQuery accepted ends in
\* finished, through any interleaving of workers, answers and destructor.
EventuallyFinished ==
    \A q \in Queries : (q \in added) ~> (q \in finished \/ drops > 0)

\* A lost request blocks its worker for ever, but not across a shutdown: once
\* the destructor has set stop_flag every accepted query ends in finished.
ShutdownFinishes ==
    \A q \in Queries : (stop_flag /\ q \in added) ~> (q \in finished)

\* The join of the destructor returns, unless its notify_all fell between the
\* predicate test and the block of some worker (stop_flag is not set under
\* queue_mutex); that is the only way to miss it.
JoinReturns ==
    (dtor = "joining" /\ \A w \in Workers : pc[w] \notin {"blocking", "asleep"})
        ~> (dtor = "gone")

-----------------------------------------------------------------------------
(* The manager as its caller sees it *)

inWork == {cur[w] : w \in {v \in Workers : Holds(v)}}

phase == CASE dtor = "alive" -> "open"
           [] dtor = "gone"  -> "closed"
           [] OTHER          -> "closing"

Service == INSTANCE QueryService

=============================================================================
