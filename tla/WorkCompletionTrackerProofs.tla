-------------------- MODULE WorkCompletionTrackerProofs --------------------
(* Machine-checked proofs about WorkCompletionTracker, for any number of     *)
(* threads and ids.                                                          *)
EXTENDS WorkCompletionTracker, TLAPS

\* The monitor's variables keep their types through every call of
\* markCompleted, stop and waitNextCompletions.
THEOREM TrackerTypeCorrect == Spec => []TypeOK
<1>1. Init => TypeOK
  BY DEF Init, TypeOK
<1>2. TypeOK /\ [Next]_trackerVars => TypeOK'
  <2> SUFFICES ASSUME TypeOK, [Next]_trackerVars
               PROVE  TypeOK'
    OBVIOUS
  <2> USE DEF TypeOK
  <2>1. ASSUME NEW c \in Callers, NEW p \in PlanIds, NEW n \in NodeIds,
               markCompleted(c, p, n)
        PROVE  TypeOK'
    BY <2>1 DEF markCompleted, Ids
  <2>2. ASSUME NEW c \in Callers, stop(c)
        PROVE  TypeOK'
    BY <2>2 DEF stop
  <2>3. ASSUME NEW c \in Callers, notify_all(c)
        PROVE  TypeOK'
    BY <2>3 DEF notify_all
  <2>4. ASSUME NEW w \in Waiters, Call(w)
        PROVE  TypeOK'
    BY <2>4 DEF Call, waitNextCompletions
  <2>5. ASSUME NEW w \in Waiters, Sleep(w) \/ SpuriousWakeup(w)
        PROVE  TypeOK'
    BY <2>5 DEF Sleep, SpuriousWakeup
  <2>6. ASSUME NEW w \in Waiters, ReturnTrue(w) \/ ReturnFalse(w)
        PROVE  TypeOK'
    BY <2>6 DEF ReturnTrue, ReturnFalse
  <2>7. CASE UNCHANGED trackerVars
    BY <2>7 DEF trackerVars
  <2>8. QED
    BY <2>1, <2>2, <2>3, <2>4, <2>5, <2>6, <2>7 DEF Next, Caller, Waiter
<1>3. QED
  BY <1>1, <1>2, PTL DEF Spec

\* Notifying after the unlock loses no wake-up: NoLostWakeup is inductive on
\* top of the types, because a thread falls asleep only on a false predicate
\* and every update that can make one true adds its caller to notifying.
THEOREM TrackerNoLostWakeup == Spec => []NoLostWakeup
<1>1. Init => NoLostWakeup
  BY DEF Init, NoLostWakeup
<1>2. TypeOK /\ NoLostWakeup /\ [Next]_trackerVars => NoLostWakeup'
  <2> SUFFICES ASSUME TypeOK, NoLostWakeup, [Next]_trackerVars
               PROVE  NoLostWakeup'
    OBVIOUS
  <2> USE DEF TypeOK, NoLostWakeup, Ready
  <2>1. ASSUME NEW c \in Callers, NEW p \in PlanIds, NEW n \in NodeIds,
               markCompleted(c, p, n)
        PROVE  NoLostWakeup'
    BY <2>1 DEF markCompleted
  <2>2. ASSUME NEW c \in Callers, stop(c)
        PROVE  NoLostWakeup'
    BY <2>2 DEF stop
  <2>3. ASSUME NEW c \in Callers, notify_all(c)
        PROVE  NoLostWakeup'
    BY <2>3 DEF notify_all
  <2>4. ASSUME NEW w \in Waiters, Call(w)
        PROVE  NoLostWakeup'
    BY <2>4 DEF Call, waitNextCompletions
  <2>5. ASSUME NEW w \in Waiters, Sleep(w) \/ SpuriousWakeup(w)
        PROVE  NoLostWakeup'
    BY <2>5 DEF Sleep, SpuriousWakeup
  <2>6. ASSUME NEW w \in Waiters, ReturnTrue(w) \/ ReturnFalse(w)
        PROVE  NoLostWakeup'
    BY <2>6 DEF ReturnTrue, ReturnFalse
  <2>7. CASE UNCHANGED trackerVars
    BY <2>7 DEF trackerVars
  <2>8. QED
    BY <2>1, <2>2, <2>3, <2>4, <2>5, <2>6, <2>7 DEF Next, Caller, Waiter
<1>3. QED
  BY <1>1, <1>2, TrackerTypeCorrect, PTL DEF Spec

\* The waits in progress are for disjoint ids; this is what the contract of
\* the callers buys, and what CompletionsKept rests on.
DisjointWaits ==
    \A v, w \in Waiters :
        v # w /\ waiting[v] # "out" /\ waiting[w] # "out"
            => want[v] \cap want[w] = {}

LEMMA TrackerDisjointWaits == Spec => []DisjointWaits
<1>1. Init => DisjointWaits
  BY DEF Init, DisjointWaits
<1>2. TypeOK /\ DisjointWaits /\ [Next]_trackerVars => DisjointWaits'
  <2> SUFFICES ASSUME TypeOK, DisjointWaits, [Next]_trackerVars
               PROVE  DisjointWaits'
    OBVIOUS
  <2> USE DEF TypeOK, DisjointWaits
  <2>1. ASSUME NEW c \in Callers, Caller(c)
        PROVE  DisjointWaits'
    BY <2>1 DEF Caller, markCompleted, stop, notify_all
  <2>2. ASSUME NEW w \in Waiters, Call(w)
        PROVE  DisjointWaits'
    BY <2>2 DEF Call, Overlaps, waitNextCompletions
  <2>3. ASSUME NEW w \in Waiters,
               Sleep(w) \/ SpuriousWakeup(w) \/ ReturnTrue(w) \/ ReturnFalse(w)
        PROVE  DisjointWaits'
    BY <2>3 DEF Sleep, SpuriousWakeup, ReturnTrue, ReturnFalse
  <2>4. CASE UNCHANGED trackerVars
    BY <2>4 DEF trackerVars
  <2>5. QED
    BY <2>1, <2>2, <2>3, <2>4 DEF Next, Waiter
<1>3. QED
  BY <1>1, <1>2, TrackerTypeCorrect, PTL DEF Spec

\* One waiter's erase never takes a completion another pending wait needs.
THEOREM TrackerCompletionsKept == Spec => CompletionsKept
<1> DEFINE Kept ==
      \A w \in Waiters :
          waiting[w] # "out" /\ waiting'[w] # "out"
             => want[w] \cap completed_ids_ \subseteq completed_ids_'
<1>1. TypeOK /\ DisjointWaits /\ [Next]_trackerVars => [Kept]_trackerVars
  <2> SUFFICES ASSUME TypeOK, DisjointWaits, Next
               PROVE  Kept
    OBVIOUS
  <2> USE DEF TypeOK, DisjointWaits
  <2>1. ASSUME NEW c \in Callers, Caller(c)
        PROVE  Kept
    BY <2>1 DEF Caller, markCompleted, stop, notify_all
  <2>2. ASSUME NEW w \in Waiters,
               Call(w) \/ Sleep(w) \/ SpuriousWakeup(w) \/ ReturnFalse(w)
        PROVE  Kept
    BY <2>2 DEF Call, waitNextCompletions, Sleep, SpuriousWakeup, ReturnFalse
  <2>3. ASSUME NEW w \in Waiters, ReturnTrue(w)
        PROVE  Kept
    BY <2>3 DEF ReturnTrue
  <2>4. QED
    BY <2>1, <2>2, <2>3 DEF Next, Waiter
<1>2. QED
  BY <1>1, TrackerTypeCorrect, TrackerDisjointWaits, PTL
     DEF Spec, CompletionsKept
=============================================================================
