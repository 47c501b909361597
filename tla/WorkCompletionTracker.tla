----------------------- MODULE WorkCompletionTracker -----------------------
(***************************************************************************)
(* cpp/code/include/WorkCompletionTracker.h: the monitor on which worker   *)
(* threads wait until a batch of work items has been reported finished.    *)
(*                                                                         *)
(* A thread that changes the monitor (a Caller) does so in two steps: the  *)
(* update under mutex_, and cv_.notify_all() after the unlock.  A thread   *)
(* that waits evaluates the predicate and blocks (or returns) in a single  *)
(* step, because cv_.wait releases mutex_ and blocks atomically.           *)
(***************************************************************************)
CONSTANTS PlanIds,
          NodeIds,
          Waiters,  \* threads that call waitNextCompletions
          Callers   \* threads that call markCompleted and stop

VARIABLES
    completed_ids_,
    stopped_,
    waiting,    \* waiter -> "out" | "check" (about to test) | "asleep" on cv_
    want,       \* waiter -> the ids argument of its current call
    notifying   \* callers between their unlock and their cv_.notify_all()

Ids == PlanIds \X NodeIds    \* the tuples held by completed_ids_

trackerVars == <<completed_ids_, stopped_, waiting, want, notifying>>

TypeOK ==
    /\ completed_ids_ \subseteq Ids
    /\ stopped_ \in BOOLEAN
    /\ waiting \in [Waiters -> {"out", "check", "asleep"}]
    /\ want \in [Waiters -> SUBSET Ids]
    /\ notifying \subseteq Callers

Init ==
    /\ completed_ids_ = {}
    /\ stopped_ = FALSE
    /\ waiting = [w \in Waiters |-> "out"]
    /\ want = [w \in Waiters |-> {}]
    /\ notifying = {}

-----------------------------------------------------------------------------
(* Callers *)

\* Fault: the report notifies nobody.
markCompletedSilently(c, planId, nodeId) ==
    /\ c \notin notifying
    /\ completed_ids_' = completed_ids_ \cup {<<planId, nodeId>>}
    /\ UNCHANGED <<stopped_, waiting, want, notifying>>

markCompleted(c, planId, nodeId) ==
    /\ c \notin notifying
    /\ completed_ids_' = completed_ids_ \cup {<<planId, nodeId>>}
    /\ notifying' = notifying \cup {c}
    /\ UNCHANGED <<stopped_, waiting, want>>

stop(c) ==
    /\ c \notin notifying
    /\ stopped_' = TRUE
    /\ notifying' = notifying \cup {c}
    /\ UNCHANGED <<completed_ids_, waiting, want>>

\* Fault: notify_one instead of notify_all.
notify_one(c) ==
    /\ c \in notifying
    /\ notifying' = notifying \ {c}
    /\ LET asleep == {w \in Waiters : waiting[w] = "asleep"}
       IN  IF asleep = {} THEN UNCHANGED waiting
           ELSE \E w \in asleep : waiting' = [waiting EXCEPT ![w] = "check"]
    /\ UNCHANGED <<completed_ids_, stopped_, want>>

\* cv_.notify_all(): every sleeper has to test its predicate again.
notify_all(c) ==
    /\ c \in notifying
    /\ notifying' = notifying \ {c}
    /\ waiting' = [w \in Waiters |->
                      IF waiting[w] = "asleep" THEN "check" ELSE waiting[w]]
    /\ UNCHANGED <<completed_ids_, stopped_, want>>

-----------------------------------------------------------------------------
(* Waiters *)

\* The predicate given to cv_.wait.
Ready(w) == stopped_ \/ want[w] \subseteq completed_ids_

waitNextCompletions(w, ids) ==
    /\ waiting[w] = "out"
    /\ waiting' = [waiting EXCEPT ![w] = "check"]
    /\ want' = [want EXCEPT ![w] = ids]
    /\ UNCHANGED <<completed_ids_, stopped_, notifying>>

Sleep(w) ==
    /\ waiting[w] = "check"
    /\ ~Ready(w)
    /\ waiting' = [waiting EXCEPT ![w] = "asleep"]
    /\ UNCHANGED <<completed_ids_, stopped_, want, notifying>>

\* A condition variable may wake a thread that nobody notified.
SpuriousWakeup(w) ==
    /\ waiting[w] = "asleep"
    /\ waiting' = [waiting EXCEPT ![w] = "check"]
    /\ UNCHANGED <<completed_ids_, stopped_, want, notifying>>

\* Fault: the whole set is cleared instead of the ids that were waited for.
ReturnTrueClearing(w) ==
    /\ waiting[w] = "check"
    /\ ~stopped_
    /\ Ready(w)
    /\ completed_ids_' = {}
    /\ waiting' = [waiting EXCEPT ![w] = "out"]
    /\ want' = [want EXCEPT ![w] = {}]
    /\ UNCHANGED <<stopped_, notifying>>

\* The erase loop, then "return true".
ReturnTrue(w) ==
    /\ waiting[w] = "check"
    /\ ~stopped_
    /\ Ready(w)
    /\ completed_ids_' = completed_ids_ \ want[w]
    /\ waiting' = [waiting EXCEPT ![w] = "out"]
    /\ want' = [want EXCEPT ![w] = {}]
    /\ UNCHANGED <<stopped_, notifying>>

ReturnFalse(w) ==
    /\ waiting[w] = "check"
    /\ stopped_
    /\ waiting' = [waiting EXCEPT ![w] = "out"]
    /\ want' = [want EXCEPT ![w] = {}]
    /\ UNCHANGED <<completed_ids_, stopped_, notifying>>

-----------------------------------------------------------------------------
Caller(c) ==
    \/ \E p \in PlanIds, n \in NodeIds : markCompleted(c, p, n)
    \/ stop(c)
    \/ notify_all(c)

\* The contract of the callers: a call that returns erases its ids, so two
\* calls that overlap in time must wait for different ids.
Overlaps(w, ids) ==
    \E v \in Waiters \ {w} : waiting[v] # "out" /\ want[v] \cap ids # {}

Call(w) ==
    \E ids \in SUBSET Ids : ~Overlaps(w, ids) /\ waitNextCompletions(w, ids)

Waiter(w) ==
    \/ Call(w)
    \/ Sleep(w)
    \/ SpuriousWakeup(w)
    \/ ReturnTrue(w)
    \/ ReturnFalse(w)

Next ==
    \/ \E c \in Callers : Caller(c)
    \/ \E w \in Waiters : Waiter(w)

Spec == Init /\ [][Next]_trackerVars

\* Threads are scheduled: a thread that has unlocked goes on to notify, and
\* a thread that is awake inside waitNextCompletions takes its next step.
\* Nothing makes a caller call, nor a sleeper wake by itself.
Fairness ==
    /\ \A c \in Callers : WF_trackerVars(notify_all(c))
    /\ \A w \in Waiters :
          WF_trackerVars(Sleep(w) \/ ReturnTrue(w) \/ ReturnFalse(w))

FairSpec == Spec /\ Fairness

-----------------------------------------------------------------------------
(* Properties *)

\* A thread never sleeps in waitNextCompletions past the moment its predicate
\* became true, unless a markCompleted or stop is still on its way to its
\* notify_all: the notification after the unlock loses no wake-up.
NoLostWakeup ==
    \A w \in Waiters : waiting[w] = "asleep" /\ Ready(w) => notifying # {}

\* A completion that a pending wait needs stays recorded until that wait has
\* returned: the erase of one waiter never takes the ids of another one.
CompletionsKept ==
    [][\A w \in Waiters :
          waiting[w] # "out" /\ waiting'[w] # "out"
             => want[w] \cap completed_ids_ \subseteq completed_ids_']_trackerVars

\* waitNextCompletions returns once all its ids were reported, or stop() was
\* called, however the reports, the notifications and other waits interleave.
WaitReturns ==
    \A w \in Waiters :
        (waiting[w] # "out" /\ Ready(w)) ~> (waiting[w] = "out")

=============================================================================
