--------------------------- MODULE WorkItemsProofs ---------------------------
(***************************************************************************)
(* For every plan and every number of nodes: the walk of crateWorkItems    *)
(* lists children first and ends with exactly the reachable nodes, and,    *)
(* when the node ids differ, crateWorkItemsParallel puts every dependency  *)
(* in an earlier batch and makes as few batches as the plan allows.        *)
(***************************************************************************)
EXTENDS WorkItems, SequenceTheorems, WellFoundedInduction, TLAPS

USE NAssumption

\* The plan never changes, and it is acyclic.
PlanInv ==
    /\ children \in Plans
    /\ node_id \in Drawn

LEMMA PlanTypes ==
    ASSUME PlanInv
    PROVE  /\ children \in [Nodes -> Seq(Nodes)]
           /\ node_id \in [Nodes -> Nat]
           /\ \A n \in Nodes : \A k \in 1 .. Len(children[n]) :
                 children[n][k] \in Nodes /\ children[n][k] < n
<1>1. children \in [Nodes -> Seq(Nodes)] /\ node_id \in [Nodes -> Nat]
  BY PlansAssumption, DrawnAssumption DEF PlanInv
<1>2. \A n \in Nodes : \A k \in DOMAIN children[n] : children[n][k] < n
  BY PlansAssumption DEF PlanInv
<1>3. ASSUME NEW n \in Nodes, NEW k \in 1 .. Len(children[n])
      PROVE  children[n][k] \in Nodes /\ children[n][k] < n
  <2>1. children[n] \in Seq(Nodes)
    BY <1>1
  <2> QED
    BY <2>1, <1>2
<1> QED
  BY <1>1, <1>3

\* What the two loops over linear read, without the record.
LEMMA LinearFacts ==
    ASSUME PlanInv, order \in Seq(Nodes), idx \in 1 .. Len(order)
    PROVE  /\ order[idx] \in Nodes
           /\ linear[idx].itemid = node_id[order[idx]]
           /\ Len(linear[idx].dependson) = Len(children[order[idx]])
           /\ \A k \in 1 .. Len(children[order[idx]]) :
                 linear[idx].dependson[k] = node_id[children[order[idx]][k]]
<1>1. order[idx] \in Nodes /\ idx \in DOMAIN order
  OBVIOUS
<1>2. children[order[idx]] \in Seq(Nodes)
  BY <1>1, PlanTypes
<1>3. linear[idx] = WorkItem(order[idx])
  BY <1>1 DEF linear
<1>4. linear[idx].itemid = node_id[order[idx]]
  BY <1>3 DEF WorkItem
<1>5. linear[idx].dependson =
        [k \in 1 .. Len(children[order[idx]]) |-> node_id[children[order[idx]][k]]]
  BY <1>2, <1>3 DEF WorkItem
<1>6. Len(linear[idx].dependson) = Len(children[order[idx]])
  BY <1>2, <1>5
<1> QED
  BY <1>1, <1>4, <1>5, <1>6

-----------------------------------------------------------------------------
(* Types *)

TypeInv == TypeOK /\ PlanInv

LEMMA TypeInit == Init => TypeInv
<1> SUFFICES ASSUME Init PROVE TypeInv
  OBVIOUS
<1>1. PlanInv
  BY DEF Init, PlanInv
<1>2. Root \in Nodes
  BY DEF Root, Nodes
<1>3. st \in Seq(Frame)
  BY <1>2 DEF Init, Frame
<1> QED
  BY <1>1, <1>2, <1>3, PlanTypes DEF Init, TypeInv, TypeOK, Phases

LEMMA TypeStep == TypeInv /\ [Next]_vars => TypeInv'
<1> SUFFICES ASSUME TypeInv, [Next]_vars PROVE TypeInv'
  OBVIOUS
<1> USE DEF walkVars, levelVars
<1>1. CASE VisitChild
  <2> DEFINE child    == children[Top.node][Top.nextChildIndex + 1]
             advanced == [st EXCEPT ![Len(st)].nextChildIndex = @ + 1]
  <2>1. Top \in Frame /\ Len(st) \in DOMAIN st
    BY <1>1 DEF VisitChild, TypeInv, TypeOK, Top
  <2>2. child \in Nodes
    BY <1>1, <2>1, PlanTypes DEF VisitChild, TypeInv, Frame
  <2>3. advanced \in Seq(Frame)
    <3>1. [Top EXCEPT !.nextChildIndex = @ + 1] \in Frame
      BY <2>1 DEF Frame
    <3>2. advanced = [st EXCEPT ![Len(st)] = [Top EXCEPT !.nextChildIndex = @ + 1]]
      BY DEF Top
    <3>3. st \in Seq(Frame)
      BY DEF TypeInv, TypeOK
    <3> QED
      BY <2>1, <3>1, <3>2, <3>3
  <2>4. Append(advanced, [node |-> child, nextChildIndex |-> 0]) \in Seq(Frame)
    BY <2>2, <2>3 DEF Frame
  <2> HIDE DEF child, advanced
  <2>5. st' \in Seq(Frame) /\ seen' \subseteq Nodes
    BY <1>1, <2>2, <2>3, <2>4 DEF VisitChild, TypeInv, TypeOK, child, advanced
  <2> QED
    BY <1>1, <2>5 DEF VisitChild, TypeInv, TypeOK, PlanInv
<1>2. CASE Emit
  <2>1. Top \in Frame
    BY <1>2 DEF Emit, TypeInv, TypeOK, Top
  <2>2. order' \in Seq(Nodes) /\ Len(order') = Len(order) + 1
    BY <1>2, <2>1 DEF Emit, TypeInv, TypeOK, Frame
  <2>3. st' \in Seq(Frame)
    BY <1>2 DEF Emit, TypeInv, TypeOK
  <2>4. idx \in 1 .. Len(order) + 1 /\ Len(order) \in Nat
    BY DEF TypeInv, TypeOK
  <2>5. idx' \in 1 .. Len(order') + 1
    <3>1. idx' = idx
      BY <1>2 DEF Emit
    <3> QED
      BY <2>2, <2>4, <3>1
  <2> QED
    BY <1>2, <2>2, <2>3, <2>5 DEF Emit, TypeInv, TypeOK, PlanInv
<1>3. CASE createQueryPlan
  BY <1>3 DEF createQueryPlan, TypeInv, TypeOK, PlanInv, Phases
<1>4. CASE StartLevels
  BY <1>4 DEF StartLevels, TypeInv, TypeOK, PlanInv, Phases
<1>5. CASE Dependency
  <2>0. \A x \in DOMAIN level : level[x] \in Nat
    BY DEF TypeInv, TypeOK
  <2>1. curLevel' \in Nat /\ dep' \in Nat
    <3> DEFINE depId == linear[idx].dependson[dep + 1]
    <3>1. curLevel \in Nat /\ dep \in Nat
      BY DEF TypeInv, TypeOK
    <3>2. /\ dep' = dep + 1
          /\ curLevel' = IF depId \in DOMAIN level /\ level[depId] + 1 > curLevel
                         THEN level[depId] + 1 ELSE curLevel
      BY <1>5 DEF Dependency
    <3> HIDE DEF depId
    <3> QED
      BY <2>0, <3>1, <3>2
  <2> QED
    BY <1>5, <2>1 DEF Dependency, TypeInv, TypeOK, PlanInv
<1>6. CASE SetLevel
  <2>1. idx \in 1 .. Len(order)
    BY <1>6 DEF SetLevel, TypeInv, TypeOK
  <2>2. linear[idx].itemid \in Nat
    BY <2>1, LinearFacts, PlanTypes DEF TypeInv, TypeOK
  <2>3. DOMAIN level' \subseteq Nat /\ level' \in [DOMAIN level' -> Nat]
    BY <1>6, <2>2 DEF SetLevel, TypeInv, TypeOK
  <2>4. maxLevel' \in Nat /\ idx' \in 1 .. Len(order) + 1
    <3>1. curLevel \in Nat /\ maxLevel \in Nat /\ Len(order) \in Nat
      BY DEF TypeInv, TypeOK
    <3>2. /\ maxLevel' = IF curLevel > maxLevel THEN curLevel ELSE maxLevel
          /\ idx' = idx + 1
      BY <1>6 DEF SetLevel
    <3> QED
      BY <2>1, <3>1, <3>2
  <2> QED
    BY <1>6, <2>3, <2>4 DEF SetLevel, TypeInv, TypeOK, PlanInv
<1>7. CASE StartGrouping
  <2>1. DOMAIN grouped' \subseteq Nat /\ grouped' \in [DOMAIN grouped' -> Seq(Nodes)]
    BY <1>7 DEF StartGrouping, TypeInv, TypeOK
  <2> QED
    BY <1>7, <2>1 DEF StartGrouping, TypeInv, TypeOK, PlanInv, Phases
<1>8. CASE PushBack
  <2>1. idx \in 1 .. Len(order)
    BY <1>8 DEF PushBack, TypeInv, TypeOK
  <2>2. order[idx] \in Nodes
    BY <2>1, LinearFacts DEF TypeInv, TypeOK
  <2>3. DOMAIN grouped' \subseteq Nat /\ grouped' \in [DOMAIN grouped' -> Seq(Nodes)]
    <3>1. \A l \in DOMAIN grouped : /\ grouped[l] \in Seq(Nodes)
                                    /\ Append(grouped[l], order[idx]) \in Seq(Nodes)
      BY <2>2 DEF TypeInv, TypeOK
    <3>2. DOMAIN grouped' = DOMAIN grouped
      BY <1>8 DEF PushBack
    <3>3. grouped' = [l \in DOMAIN grouped |->
                        IF l = level[linear[idx].itemid]
                        THEN Append(grouped[l], order[idx]) ELSE grouped[l]]
      BY <1>8 DEF PushBack
    <3> QED
      BY <3>1, <3>2, <3>3 DEF TypeInv, TypeOK
  <2>4. idx' \in 1 .. Len(order) + 1
    <3>1. idx' = idx + 1 /\ Len(order) \in Nat
      BY <1>8 DEF PushBack, TypeInv, TypeOK
    <3> QED
      BY <2>1, <3>1
  <2> QED
    BY <1>8, <2>3, <2>4 DEF PushBack, TypeInv, TypeOK, PlanInv
<1>9. CASE Return
  BY <1>9 DEF Return, TypeInv, TypeOK, PlanInv, Phases
<1>10. CASE UNCHANGED vars
  BY <1>10 DEF vars, TypeInv, TypeOK, PlanInv
<1> QED
  BY <1>1, <1>2, <1>3, <1>4, <1>5, <1>6, <1>7, <1>8, <1>9, <1>10 DEF Next

\* Every behaviour is type correct: the stack holds frames of plan nodes, the
\* loop indices stay within their vectors.
THEOREM WorkItemsTypeCorrect == Spec => []TypeOK
<1>1. Spec => []TypeInv
  BY TypeInit, TypeStep, PTL DEF Spec
<1> QED
  BY <1>1, PTL DEF TypeInv

-----------------------------------------------------------------------------
(* The walk *)

OnStack(n) == \E k \in 1 .. Len(st) : st[k].node = n

\* The stack is a path downwards: node numbers fall from bottom to top.
StackDescends ==
    \A j, k \in 1 .. Len(st) : j < k => st[k].node < st[j].node

\* seen: the nodes on the stack and the listed ones, never both.
SeenExact ==
    /\ \A n \in Nodes : n \in seen <=> OnStack(n) \/ Listed(n)
    /\ \A k \in 1 .. Len(st) : ~Listed(st[k].node)

\* A child that a frame has passed is listed, or it is the next frame.
ChildrenPassed ==
    \A k \in 1 .. Len(st) :
        /\ st[k].nextChildIndex <= Len(children[st[k].node])
        /\ \A c \in 1 .. st[k].nextChildIndex :
              \/ Listed(children[st[k].node][c])
              \/ k < Len(st) /\ st[k+1].node = children[st[k].node][c]

WalkInv == StackDescends /\ SeenExact /\ ChildrenPassed /\ ChildrenFirst

LEMMA StackFacts ==
    ASSUME TypeInv, st # <<>>
    PROVE  /\ st \in Seq(Frame) /\ order \in Seq(Nodes)
           /\ Len(st) \in Nat /\ Len(st) >= 1 /\ Top = st[Len(st)]
           /\ \A k \in 1 .. Len(st) :
                 /\ st[k] \in Frame
                 /\ st[k].node \in Nodes /\ st[k].node \in Nat
                 /\ st[k].nextChildIndex \in Nat
                 /\ children[st[k].node] \in Seq(Nodes)
<1>1. st \in Seq(Frame) /\ order \in Seq(Nodes)
  BY DEF TypeInv, TypeOK
<1>2. Len(st) \in Nat /\ Len(st) >= 1
  BY <1>1
<1>3. \A k \in 1 .. Len(st) : st[k] \in Frame
  BY <1>1
<1>4. \A f \in Frame : f.node \in Nodes /\ f.node \in Nat /\ f.nextChildIndex \in Nat
  BY DEF Frame, Nodes
<1>5. \A n \in Nodes : children[n] \in Seq(Nodes)
  BY PlanTypes DEF TypeInv
<1> QED
  BY <1>1, <1>2, <1>3, <1>4, <1>5 DEF Top

LEMMA WalkInit == Init => WalkInv
<1> SUFFICES ASSUME Init PROVE WalkInv
  OBVIOUS
<1>1. TypeInv
  BY TypeInit
<1>2. /\ Len(st) = 1 /\ st[1].node = Root /\ st[1].nextChildIndex = 0
      /\ \A n : ~Listed(n)
  BY DEF Init, Listed
<1>3. Root \in Nodes /\ children[Root] \in Seq(Nodes)
  BY <1>1, PlanTypes DEF Root, Nodes, TypeInv
<1>4. StackDescends
  BY <1>2 DEF StackDescends
<1>5. SeenExact
  BY <1>2 DEF SeenExact, OnStack, Init
<1>6. ChildrenPassed
  BY <1>2, <1>3 DEF ChildrenPassed
<1>7. ChildrenFirst
  BY DEF ChildrenFirst, Init
<1> QED
  BY <1>4, <1>5, <1>6, <1>7 DEF WalkInv

LEMMA WalkVisit == TypeInv /\ WalkInv /\ VisitChild => WalkInv'
<1> SUFFICES ASSUME TypeInv, WalkInv, VisitChild PROVE WalkInv'
  OBVIOUS
<1> DEFINE L        == Len(st)
           child    == children[Top.node][Top.nextChildIndex + 1]
           advanced == [st EXCEPT ![L].nextChildIndex = @ + 1]
           new      == [node |-> child, nextChildIndex |-> 0]
<1>1. /\ st \in Seq(Frame) /\ order \in Seq(Nodes)
      /\ L \in Nat /\ L >= 1 /\ Top = st[L]
  BY StackFacts DEF VisitChild
<1>2. \A k \in 1 .. L : /\ st[k] \in Frame
                        /\ st[k].node \in Nodes /\ st[k].node \in Nat
                        /\ st[k].nextChildIndex \in Nat
                        /\ children[st[k].node] \in Seq(Nodes)
  BY StackFacts DEF VisitChild
<1>3. /\ Top.node \in Nodes /\ Top.nextChildIndex \in Nat
      /\ Top.nextChildIndex + 1 \in 1 .. Len(children[Top.node])
  BY <1>1, <1>2 DEF VisitChild
<1>4. child \in Nodes /\ child \in Nat /\ child < Top.node
  <2>1. child \in Nodes /\ child < Top.node
    BY <1>3, PlanTypes DEF TypeInv
  <2>2. \A n \in Nodes : n \in Nat
    BY DEF Nodes
  <2> QED
    BY <2>1, <2>2
<1>5. \A n : Listed(n)' <=> Listed(n)
  BY DEF VisitChild, Listed
<1>6. ~OnStack(child)
  <2> SUFFICES ASSUME NEW k \in 1 .. L, st[k].node = child PROVE FALSE
    BY DEF OnStack
  <2> HIDE DEF child
  <2>1. k = L \/ Top.node < child
    BY <1>1 DEF WalkInv, StackDescends
  <2> QED
    BY <2>1, <1>1, <1>2, <1>4
<1>7. /\ Len(advanced) = L
      /\ \A k \in 1 .. L : /\ advanced[k].node = st[k].node
                           /\ k # L => advanced[k] = st[k]
      /\ advanced[L].nextChildIndex = Top.nextChildIndex + 1
      /\ advanced \in Seq(Frame)
  <2>1. [Top EXCEPT !.nextChildIndex = @ + 1] \in Frame
    <3>1. L \in 1 .. L
      BY <1>1
    <3>2. Top \in Frame
      BY <1>1, <1>2, <3>1
    <3> HIDE DEF L
    <3> QED
      BY <3>2 DEF Frame
  <2>2. advanced = [st EXCEPT ![L] = [Top EXCEPT !.nextChildIndex = @ + 1]]
    BY DEF Top
  <2> HIDE DEF advanced, L
  <2>3. advanced \in Seq(Frame) /\ Len(advanced) = Len(st)
    <3>1. L \in 1 .. Len(st)
      BY <1>1 DEF L
    <3> QED
      BY <1>1, <2>1, <2>2, <3>1
  <2>4. \A k \in 1 .. Len(st) : k # L => advanced[k] = st[k]
    BY <1>1, <2>2
  <2>5. advanced[L] = [Top EXCEPT !.nextChildIndex = @ + 1]
    BY <1>1, <2>2 DEF L
  <2>6. advanced[L].node = Top.node /\ advanced[L].nextChildIndex = Top.nextChildIndex + 1
    BY <1>1, <1>2, <2>5 DEF Frame
  <2> QED
    BY <1>1, <2>3, <2>4, <2>6 DEF L
<1>8. ChildrenFirst'
  BY DEF VisitChild, WalkInv, ChildrenFirst
<1>9. children' = children /\ order' = order
  BY DEF VisitChild
<1> HIDE DEF child, advanced, L
<1>10. CASE child \in seen
  <2>1. st' = advanced /\ seen' = seen
    BY <1>10 DEF VisitChild, child, advanced, L
  <2>2. Listed(child)
    BY <1>4, <1>6, <1>10 DEF WalkInv, SeenExact
  <2>3. StackDescends'
    BY <1>7, <2>1 DEF StackDescends, WalkInv, L
  <2>4. SeenExact'
    <3>1. \A n \in Nodes : OnStack(n)' <=> OnStack(n)
      BY <1>7, <2>1 DEF OnStack, L
    <3> QED
      BY <1>5, <1>7, <2>1, <3>1 DEF SeenExact, WalkInv, L
  <2>5. ChildrenPassed'
    <3> SUFFICES ASSUME NEW k \in 1 .. L
                 PROVE  /\ advanced[k].nextChildIndex <= Len(children[advanced[k].node])
                        /\ \A c \in 1 .. advanced[k].nextChildIndex :
                             \/ Listed(children[advanced[k].node][c])
                             \/ k < L /\ advanced[k+1].node = children[advanced[k].node][c]
      BY <1>5, <1>7, <1>9, <2>1 DEF ChildrenPassed
    <3>1. CASE k # L
      <4>1. k+1 \in 1 .. L
        BY <3>1, <1>1 DEF L
      <4> QED
        BY <3>1, <4>1, <1>7 DEF ChildrenPassed, WalkInv, L
    <3>2. CASE k = L
      <4>1. \A c \in 1 .. Top.nextChildIndex : Listed(children[Top.node][c])
        <5>1. L \in 1 .. Len(st) /\ ~(L < Len(st))
          BY <1>1 DEF L
        <5> QED
          BY <5>1, <1>1 DEF ChildrenPassed, WalkInv
      <4>2. advanced[k].node = Top.node /\ advanced[k].nextChildIndex = Top.nextChildIndex + 1
        BY <3>2, <1>1, <1>7
      <4>3. ASSUME NEW c \in 1 .. Top.nextChildIndex + 1
            PROVE  Listed(children[Top.node][c])
        BY <4>1, <1>3, <2>2 DEF child
      <4> QED
        BY <4>2, <4>3, <1>3
    <3> QED
      BY <3>1, <3>2
  <2> QED
    BY <1>8, <2>3, <2>4, <2>5 DEF WalkInv
<1>11. CASE child \notin seen
  <2>1. st' = Append(advanced, new) /\ seen' = seen \cup {child}
    BY <1>11 DEF VisitChild, child, advanced, L
  <2>2. ~Listed(child)
    BY <1>4, <1>11 DEF WalkInv, SeenExact
  <2>3. /\ Len(st') = L + 1
        /\ \A k \in 1 .. L : st'[k] = advanced[k]
        /\ st'[L+1].node = child /\ st'[L+1].nextChildIndex = 0
    BY <1>1, <1>7, <2>1
  <2>4. StackDescends'
    <3> SUFFICES ASSUME NEW j \in 1 .. L+1, NEW k \in 1 .. L+1, j < k
                 PROVE  st'[k].node < st'[j].node
      BY <2>3 DEF StackDescends
    <3>1. CASE k <= L
      BY <3>1, <1>1, <1>7, <2>3 DEF StackDescends, WalkInv, L
    <3>2. CASE k = L + 1
      <4>1. j \in 1 .. L /\ st'[j].node = st[j].node /\ st[j].node \in Nodes
        BY <3>2, <1>1, <1>2, <1>7, <2>3
      <4>2. Top.node <= st[j].node
        <5>1. L \in 1 .. Len(st) /\ j \in 1 .. Len(st)
          BY <4>1, <1>1 DEF L
        <5>2. j < L => Top.node < st[j].node
          BY <5>1, <1>1 DEF StackDescends, WalkInv
        <5>3. Top.node \in Nat /\ st[j].node \in Nat
          BY <5>1, <1>1, <1>2
        <5>4. j = L => Top.node = st[j].node
          BY <1>1
        <5> QED
          BY <4>1, <5>2, <5>3, <5>4, <1>1
      <4> QED
        BY <3>2, <4>1, <4>2, <1>3, <1>4, <2>3 DEF Nodes
    <3> QED
      BY <3>1, <3>2, <1>1
  <2>5. SeenExact'
    <3>1. \A n \in Nodes : OnStack(n)' <=> OnStack(n) \/ n = child
      <4>1. 1 .. L+1 = (1 .. L) \cup {L+1}
        BY <1>1
      <4>2. \A k \in 1 .. L : st'[k].node = st[k].node
        BY <1>7, <2>3
      <4> HIDE <1>7
      <4> QED
        BY <4>1, <4>2, <2>3 DEF OnStack, L
    <3>2. \A k \in 1 .. Len(st') : ~Listed(st'[k].node)
      BY <1>1, <1>7, <2>2, <2>3 DEF SeenExact, WalkInv, L
    <3> QED
      BY <1>5, <2>1, <3>1, <3>2 DEF SeenExact, WalkInv
  <2>6. ChildrenPassed'
    <3> SUFFICES ASSUME NEW k \in 1 .. L+1
                 PROVE  /\ st'[k].nextChildIndex <= Len(children[st'[k].node])
                        /\ \A c \in 1 .. st'[k].nextChildIndex :
                             \/ Listed(children[st'[k].node][c])
                             \/ k < L+1 /\ st'[k+1].node = children[st'[k].node][c]
      BY <1>5, <1>9, <2>3 DEF ChildrenPassed
    <3>1. CASE k < L
      <4>1. k \in 1 .. L /\ k+1 \in 1 .. L /\ k # L
        BY <3>1, <1>1
      <4>2. st'[k] = st[k] /\ st'[k+1].node = st[k+1].node
        BY <4>1, <1>7, <2>3
      <4>3. /\ st[k].nextChildIndex <= Len(children[st[k].node])
            /\ \A c \in 1 .. st[k].nextChildIndex :
                 \/ Listed(children[st[k].node][c])
                 \/ st[k+1].node = children[st[k].node][c]
        BY <4>1 DEF ChildrenPassed, WalkInv, L
      <4>4. k < L+1
        BY <4>1, <1>1
      <4> QED
        BY <4>2, <4>3, <4>4
    <3>2. CASE k = L
      <4>1. \A c \in 1 .. Top.nextChildIndex : Listed(children[Top.node][c])
        <5>1. L \in 1 .. Len(st) /\ ~(L < Len(st))
          BY <1>1 DEF L
        <5> QED
          BY <5>1, <1>1 DEF ChildrenPassed, WalkInv
      <4>2. st'[k].node = Top.node /\ st'[k].nextChildIndex = Top.nextChildIndex + 1
        BY <3>2, <1>1, <1>7, <2>3
      <4>3. ASSUME NEW c \in 1 .. Top.nextChildIndex + 1
            PROVE  \/ Listed(children[Top.node][c])
                   \/ st'[L+1].node = children[Top.node][c]
        BY <4>1, <1>3, <2>3 DEF child
      <4>4. k < L + 1 /\ k + 1 = L + 1
        BY <3>2, <1>1
      <4> QED
        BY <4>2, <4>3, <4>4, <1>3
    <3>3. CASE k = L + 1
      <4>1. children[child] \in Seq(Nodes)
        BY <1>4, PlanTypes DEF TypeInv
      <4> QED
        BY <3>3, <4>1, <2>3
    <3> QED
      BY <3>1, <3>2, <3>3, <1>1
  <2> QED
    BY <1>8, <2>4, <2>5, <2>6 DEF WalkInv
<1> QED
  BY <1>10, <1>11

LEMMA WalkEmit == TypeInv /\ WalkInv /\ Emit => WalkInv'
<1> SUFFICES ASSUME TypeInv, WalkInv, Emit PROVE WalkInv'
  OBVIOUS
<1> DEFINE L == Len(st)
           M == Len(order)
<1>1. /\ st \in Seq(Frame) /\ order \in Seq(Nodes)
      /\ L \in Nat /\ L >= 1 /\ Top = st[L] /\ M \in Nat
  BY StackFacts DEF Emit
<1>2. \A k \in 1 .. L : /\ st[k].node \in Nodes /\ st[k].node \in Nat
                        /\ st[k].nextChildIndex \in Nat
                        /\ children[st[k].node] \in Seq(Nodes)
  BY StackFacts DEF Emit
<1>3. /\ Len(st') = L - 1
      /\ \A k \in 1 .. L-1 : st'[k] = st[k]
  <2>1. st' = SubSeq(st, 1, L - 1)
    BY DEF Emit
  <2>2. \A k \in 1 .. L-1 : st[k] \in Frame
    BY <1>1
  <2>3. L-1 \in Int /\ 1 \in Int /\ L-1 >= 0
    BY <1>1
  <2>4. /\ Len(SubSeq(st, 1, L-1)) = IF 1 <= L-1 THEN (L-1)-1+1 ELSE 0
        /\ \A k \in 1 .. (L-1)-1+1 : SubSeq(st, 1, L-1)[k] = st[1+k-1]
    BY <2>2, <2>3, SubSeqProperties
  <2> HIDE DEF L
  <2> QED
    BY <1>1, <2>1, <2>3, <2>4
<1>4. /\ Len(order') = M + 1
      /\ \A k \in 1 .. M : order'[k] = order[k]
      /\ order'[M+1] = Top.node
  BY <1>1 DEF Emit
<1>5. children' = children /\ seen' = seen
  BY DEF Emit
<1>6. \A n : Listed(n)' <=> Listed(n) \/ n = Top.node
  BY <1>1, <1>4 DEF Listed
<1>7. ~Listed(Top.node)
  BY <1>1 DEF SeenExact, WalkInv
<1>8. \A c \in 1 .. Len(children[Top.node]) : Listed(children[Top.node][c])
  <2>1. L \in 1 .. Len(st) /\ ~(L < Len(st))
    BY <1>1
  <2>2. \A c \in 1 .. Top.nextChildIndex : Listed(children[Top.node][c])
    BY <2>1, <1>1 DEF ChildrenPassed, WalkInv
  <2>3. Top.nextChildIndex = Len(children[Top.node])
    BY DEF Emit
  <2> QED
    BY <2>2, <2>3
<1> HIDE DEF L, M
<1>9. StackDescends'
  BY <1>1, <1>3 DEF StackDescends, WalkInv, L
<1>10. SeenExact'
  <2>1. \A n \in Nodes : OnStack(n) <=> OnStack(n)' \/ n = Top.node
    BY <1>1, <1>3 DEF OnStack, L
  <2>2. \A k \in 1 .. L-1 : st[k].node # Top.node
    <3> SUFFICES ASSUME NEW k \in 1 .. L-1 PROVE Top.node < st[k].node
      BY <1>1, <1>2
    <3>1. k \in 1 .. Len(st) /\ Len(st) \in 1 .. Len(st) /\ k < Len(st)
      BY <1>1 DEF L
    <3> QED
      BY <1>1, <3>1 DEF StackDescends, WalkInv, L
  <2>3. \A k \in 1 .. L-1 : ~Listed(st[k].node)
    BY <1>1 DEF SeenExact, WalkInv, L
  <2> QED
    BY <1>3, <1>5, <1>6, <2>1, <2>2, <2>3 DEF SeenExact, WalkInv
<1>11. ChildrenPassed'
  <2> SUFFICES ASSUME NEW k \in 1 .. L-1
               PROVE  /\ st[k].nextChildIndex <= Len(children[st[k].node])
                      /\ \A c \in 1 .. st[k].nextChildIndex :
                           \/ Listed(children[st[k].node][c])'
                           \/ k < L-1 /\ st'[k+1].node = children[st[k].node][c]
    BY <1>3, <1>5 DEF ChildrenPassed
  <2>1. k \in 1 .. L /\ k < L
    BY <1>1
  <2>2. CASE k < L-1
    <3>1. k+1 \in 1 .. L-1
      BY <2>2, <1>1
    <3>2. /\ st[k].nextChildIndex <= Len(children[st[k].node])
          /\ \A c \in 1 .. st[k].nextChildIndex :
               \/ Listed(children[st[k].node][c])
               \/ st[k+1].node = children[st[k].node][c]
      BY <2>1 DEF ChildrenPassed, WalkInv, L
    <3>3. \A c : Listed(children[st[k].node][c]) => Listed(children[st[k].node][c])'
      BY <1>3, <1>5, <1>6, <2>1
    <3> QED
      BY <2>2, <3>1, <3>2, <3>3, <1>3
  <2>3. CASE k = L-1
    <3>1. st[k+1].node = Top.node
      BY <2>3, <1>1
    <3>2. /\ st[k].nextChildIndex <= Len(children[st[k].node])
          /\ \A c \in 1 .. st[k].nextChildIndex :
               \/ Listed(children[st[k].node][c])
               \/ children[st[k].node][c] = Top.node
      BY <2>1, <3>1 DEF ChildrenPassed, WalkInv, L
    <3> QED
      BY <3>2, <1>3, <1>5, <1>6
  <2> QED
    BY <2>1, <2>2, <2>3, <1>1
<1>12. ChildrenFirst'
  <2>1. \A j, k \in 1 .. M : j # k => order[j] # order[k]
    BY <1>1 DEF ChildrenFirst, WalkInv, M
  <2>2. \A j \in 1 .. M : order[j] # Top.node
    BY <1>1, <1>7 DEF Listed, M
  <2>3. \A j, k \in 1 .. M+1 : j # k => order'[j] # order'[k]
    BY <1>1, <1>4, <2>1, <2>2
  <2>4. ASSUME NEW k \in 1 .. M+1, NEW c \in DOMAIN children[order'[k]]
        PROVE  \E j \in 1 .. k-1 : order'[j] = children[order'[k]][c]
    <3>1. CASE k \in 1 .. M
      <4>1. PICK j \in 1 .. k-1 : order[j] = children[order[k]][c]
        BY <1>1, <1>4, <3>1 DEF ChildrenFirst, WalkInv, M
      <4>2. j \in 1 .. M
        BY <3>1, <1>1
      <4> QED
        BY <3>1, <4>1, <4>2, <1>4
    <3>2. CASE k = M + 1
      <4>1. children[Top.node] \in Seq(Nodes)
        BY <1>1, <1>2
      <4>2. Listed(children[Top.node][c])
        BY <3>2, <4>1, <1>4, <1>8
      <4>3. PICK j \in 1 .. M : order[j] = children[Top.node][c]
        BY <4>2, <1>1 DEF Listed, M
      <4> QED
        BY <3>2, <4>3, <1>1, <1>4
    <3> QED
      BY <3>1, <3>2, <1>1
  <2>5. DOMAIN order' = 1 .. M+1
    BY <1>1, <1>4 DEF Emit, M
  <2> QED
    BY <2>3, <2>4, <2>5, <1>5 DEF ChildrenFirst
<1> QED
  BY <1>9, <1>10, <1>11, <1>12 DEF WalkInv

LEMMA WalkOther ==
    ASSUME WalkInv, UNCHANGED <<children, node_id, walkVars>>
    PROVE  WalkInv'
BY DEF WalkInv, StackDescends, SeenExact, ChildrenPassed, ChildrenFirst,
       OnStack, Listed, walkVars

LEMMA WalkStep == TypeInv /\ WalkInv /\ [Next]_vars => WalkInv'
<1> SUFFICES ASSUME TypeInv, WalkInv, [Next]_vars PROVE WalkInv'
  OBVIOUS
<1>1. CASE VisitChild
  BY <1>1, WalkVisit
<1>2. CASE Emit
  BY <1>2, WalkEmit
<1>3. CASE ~VisitChild /\ ~Emit
  <2>1. UNCHANGED <<children, node_id, walkVars>>
    BY <1>3 DEF Next, vars, createQueryPlan, StartLevels, Dependency, SetLevel,
                StartGrouping, PushBack, Return
  <2> QED
    BY <2>1, WalkOther
<1> QED
  BY <1>1, <1>2, <1>3

\* For every plan, whatever subplans it shares and whatever its ids: the walk
\* of crateWorkItems lists no node twice and every node after its children.
THEOREM ChildrenFirstHolds == Spec => []ChildrenFirst
<1>1. Spec => [](TypeInv /\ WalkInv)
  BY TypeInit, TypeStep, WalkInit, WalkStep, PTL DEF Spec
<1> QED
  BY <1>1, PTL DEF WalkInv

-----------------------------------------------------------------------------
(* The walk is complete *)

\* seen grows from the root along child pointers only.
ReachInv == Root \in seen /\ seen \subseteq Reachable

LEMMA ReachableClosed ==
    ASSUME TypeInv
    PROVE  Root \in Reachable /\ ClosedDown(Reachable)
<1>1. Root \in Reachable
  BY DEF Reachable, Root, Nodes
<1>2. ASSUME NEW m \in Reachable, NEW k \in DOMAIN children[m]
      PROVE  children[m][k] \in Reachable
  <2>1. m \in Nodes /\ children[m][k] \in Nodes
    BY <1>2, PlanTypes DEF Reachable, TypeInv
  <2>2. ASSUME NEW S \in SUBSET Nodes, Root \in S, ClosedDown(S)
        PROVE  children[m][k] \in S
    BY <1>2, <2>2 DEF Reachable, ClosedDown
  <2> QED
    BY <2>1, <2>2 DEF Reachable
<1> QED
  BY <1>1, <1>2 DEF ClosedDown

LEMMA ReachInit == Init => ReachInv
<1> SUFFICES ASSUME Init PROVE ReachInv
  OBVIOUS
<1>1. Root \in Reachable
  BY TypeInit, ReachableClosed
<1> QED
  BY <1>1 DEF Init, ReachInv

LEMMA ReachStep == TypeInv /\ WalkInv /\ ReachInv /\ [Next]_vars => ReachInv'
<1> SUFFICES ASSUME TypeInv, WalkInv, ReachInv, [Next]_vars PROVE ReachInv'
  OBVIOUS
<1>1. children' = children
  BY DEF Next, vars, VisitChild, Emit, createQueryPlan, StartLevels, Dependency,
         SetLevel, StartGrouping, PushBack, Return
<1>2. Reachable' = Reachable
  BY <1>1 DEF Reachable, ClosedDown
<1>3. CASE VisitChild
  <2> DEFINE child == children[Top.node][Top.nextChildIndex + 1]
  <2>1. seen' = seen \/ seen' = seen \cup {child}
    BY <1>3 DEF VisitChild
  <2>2. /\ Len(st) \in 1 .. Len(st) /\ Top = st[Len(st)] /\ Top.node \in Nodes
        /\ Top.nextChildIndex \in Nat /\ children[Top.node] \in Seq(Nodes)
    BY <1>3, StackFacts DEF VisitChild
  <2>3. Top.node \in seen
    BY <2>2 DEF WalkInv, SeenExact, OnStack
  <2>4. Top.nextChildIndex + 1 \in DOMAIN children[Top.node]
    BY <1>3, <2>2 DEF VisitChild
  <2>5. child \in Reachable
    BY <2>3, <2>4, ReachableClosed DEF ReachInv, ClosedDown
  <2> QED
    BY <1>2, <2>1, <2>5 DEF ReachInv
<1>4. CASE ~VisitChild
  <2>1. seen' = seen
    BY <1>4 DEF Next, vars, walkVars, Emit, createQueryPlan, StartLevels, Dependency,
                SetLevel, StartGrouping, PushBack, Return
  <2> QED
    BY <1>2, <2>1 DEF ReachInv
<1> QED
  BY <1>3, <1>4

LEMMA EmptyStackComplete ==
    ASSUME TypeInv, WalkInv, ReachInv
    PROVE  WalkComplete
<1> SUFFICES ASSUME st = <<>> PROVE {n \in Nodes : Listed(n)} = Reachable
  BY DEF WalkComplete
<1> DEFINE S == {n \in Nodes : Listed(n)}
<1>1. \A n \in Nodes : n \in seen <=> Listed(n)
  BY DEF WalkInv, SeenExact, OnStack
<1>2. S \subseteq Reachable
  BY <1>1 DEF ReachInv
<1>3. Root \in S
  <2>1. Root \in Nodes
    BY DEF Root, Nodes
  <2> QED
    BY <1>1, <2>1 DEF ReachInv
<1>4. ClosedDown(S)
  <2> SUFFICES ASSUME NEW m \in S, NEW c \in DOMAIN children[m]
               PROVE  children[m][c] \in S
    BY DEF ClosedDown
  <2>1. order \in Seq(Nodes) /\ children[m][c] \in Nodes
    BY PlanTypes DEF TypeInv, TypeOK
  <2>2. PICK k \in DOMAIN order : order[k] = m
    BY DEF Listed
  <2>3. PICK j \in 1 .. k-1 : order[j] = children[m][c]
    BY <2>2 DEF WalkInv, ChildrenFirst
  <2>4. j \in DOMAIN order
    BY <2>1, <2>2
  <2> QED
    BY <2>1, <2>3, <2>4 DEF Listed
<1>5. Reachable \subseteq S
  BY <1>3, <1>4 DEF Reachable
<1> QED
  BY <1>2, <1>5

\* For every plan: when its stack is empty, crateWorkItems has listed every
\* node reachable from the root, through whatever sharing, and no other.
THEOREM WalkCompleteHolds == Spec => []WalkComplete
<1>1. Init => TypeInv /\ WalkInv /\ ReachInv
  BY TypeInit, WalkInit, ReachInit
<1>2. TypeInv /\ WalkInv /\ ReachInv /\ [Next]_vars => (TypeInv /\ WalkInv /\ ReachInv)'
  BY TypeStep, WalkStep, ReachStep
<1>3. TypeInv /\ WalkInv /\ ReachInv => WalkComplete
  BY EmptyStackComplete
<1> QED
  BY <1>1, <1>2, <1>3, PTL DEF Spec

-----------------------------------------------------------------------------
(* The levels *)

Id(k) == node_id[order[k]]

\* The children of the node at position k, by their ids, have lower levels.
ChildrenLower(k, bound) ==
    \A c \in 1 .. Len(children[order[k]]) : level[node_id[children[order[k]][c]]] < bound

\* While the levels are computed: the ids before idx have theirs, above those
\* of their children, and curLevel is above the dependencies looked at so far.
LevelInv ==
    /\ phase = "walk" =>
          level = <<>> /\ idx = 1 /\ dep = 0 /\ curLevel = 0
    /\ phase = "level" =>
          /\ DOMAIN level = {Id(k) : k \in 1 .. idx-1}
          /\ \A k \in 1 .. idx-1 :
                level[Id(k)] <= maxLevel /\ ChildrenLower(k, level[Id(k)])
          /\ idx <= Len(order) =>
                /\ dep <= Len(children[order[idx]])
                /\ \A c \in 1 .. dep :
                      level[node_id[children[order[idx]][c]]] < curLevel
    /\ phase \in {"group", "batches"} =>
          /\ \A k \in 1 .. Len(order) : ChildrenLower(k, level[Id(k)])
          /\ \A l \in DOMAIN grouped : \A n \in Nodes :
                BatchOf(n, l) => Listed(n) /\ level[node_id[n]] = l

\* nextIntermediateName drew no id twice.
DistinctDraws == \A f \in Drawn : \A m, n \in Nodes : f[m] = f[n] => m = n

LEMMA IdsDiffer ==
    ASSUME DistinctDraws, TypeInv, WalkInv
    PROVE  \A j, k \in 1 .. Len(order) :
              Id(j) \in Nat /\ (j # k => Id(j) # Id(k))
<1>1. \A m, n \in Nodes : node_id[m] = node_id[n] => m = n
  BY DEF DistinctDraws, TypeInv, PlanInv
<1>2. order \in Seq(Nodes) /\ \A k \in 1 .. Len(order) : order[k] \in Nodes
  BY DEF TypeInv, TypeOK
<1>3. \A j, k \in 1 .. Len(order) : j # k => order[j] # order[k]
  BY <1>2 DEF WalkInv, ChildrenFirst
<1> QED
  BY <1>1, <1>2, <1>3, PlanTypes DEF Id, TypeInv

\* A child of the node at position k has a position before k.
LEMMA ChildEarlier ==
    ASSUME TypeInv, WalkInv, NEW k \in 1 .. Len(order),
           NEW c \in 1 .. Len(children[order[k]])
    PROVE  \E j \in 1 .. k-1 : /\ j \in 1 .. Len(order)
                               /\ order[j] = children[order[k]][c]
<1>1. order \in Seq(Nodes) /\ order[k] \in Nodes /\ k \in DOMAIN order
  BY DEF TypeInv, TypeOK
<1>2. c \in DOMAIN children[order[k]]
  BY <1>1, PlanTypes DEF TypeInv
<1>3. PICK j \in 1 .. k-1 : order[j] = children[order[k]][c]
  BY <1>1, <1>2 DEF WalkInv, ChildrenFirst
<1>4. j \in 1 .. Len(order)
  BY <1>1
<1> QED
  BY <1>3, <1>4

LEMMA LevelInit == Init => LevelInv
BY DEF Init, LevelInv

LEMMA LevelDependency ==
    ASSUME DistinctDraws, TypeInv, WalkInv, LevelInv, Dependency
    PROVE  LevelInv'
<1>1. /\ phase = "level" /\ phase' = phase /\ idx' = idx /\ level' = level
      /\ maxLevel' = maxLevel /\ dep' = dep + 1
      /\ order' = order /\ children' = children /\ node_id' = node_id
  BY DEF Dependency, walkVars
<1>2. /\ idx \in 1 .. Len(order) /\ dep \in Nat /\ curLevel \in Nat
      /\ \A x \in DOMAIN level : level[x] \in Nat
      /\ order \in Seq(Nodes)
  <2>1. /\ idx \in 1 .. Len(order) + 1 /\ idx <= Len(order) /\ order \in Seq(Nodes)
        /\ dep \in Nat /\ curLevel \in Nat
    BY DEF Dependency, TypeInv, TypeOK
  <2>2. level \in [DOMAIN level -> Nat]
    BY DEF TypeInv, TypeOK
  <2> QED
    BY <2>1, <2>2
<1>3. /\ Len(linear[idx].dependson) = Len(children[order[idx]])
      /\ \A k \in 1 .. Len(children[order[idx]]) :
            linear[idx].dependson[k] = node_id[children[order[idx]][k]]
  BY <1>2, LinearFacts DEF TypeInv
<1>4. order[idx] \in Nodes /\ children[order[idx]] \in Seq(Nodes)
  BY <1>2, PlanTypes DEF TypeInv
<1>5. dep + 1 \in 1 .. Len(children[order[idx]])
  <2>1. dep < Len(children[order[idx]])
    BY <1>3 DEF Dependency
  <2> QED
    BY <1>2, <1>4, <2>1
<1> DEFINE depId == node_id[children[order[idx]][dep + 1]]
<1>6. curLevel' = IF depId \in DOMAIN level /\ level[depId] + 1 > curLevel
                  THEN level[depId] + 1 ELSE curLevel
  BY <1>3, <1>5 DEF Dependency
<1>7. depId \in DOMAIN level
  <2>1. PICK j \in 1 .. idx-1 : order[j] = children[order[idx]][dep + 1]
    BY <1>2, <1>5, ChildEarlier
  <2> QED
    BY <2>1, <1>1 DEF LevelInv, Id
<1> HIDE DEF depId
<1>8. level[depId] < curLevel' /\ curLevel <= curLevel' /\ curLevel' \in Nat
  BY <1>2, <1>6, <1>7
<1>9. \A c \in 1 .. dep : /\ level[node_id[children[order[idx]][c]]] < curLevel
                          /\ level[node_id[children[order[idx]][c]]] \in Nat
  <2> SUFFICES ASSUME NEW c \in 1 .. dep
               PROVE  /\ level[node_id[children[order[idx]][c]]] < curLevel
                      /\ level[node_id[children[order[idx]][c]]] \in Nat
    OBVIOUS
  <2>1. c \in 1 .. Len(children[order[idx]])
    BY <1>2, <1>4, <1>5
  <2>2. PICK j \in 1 .. idx-1 : order[j] = children[order[idx]][c]
    BY <1>2, <2>1, ChildEarlier
  <2>3. node_id[children[order[idx]][c]] \in DOMAIN level
    BY <2>2, <1>1 DEF LevelInv, Id
  <2>4. idx <= Len(order)
    BY <1>2
  <2>5. level[node_id[children[order[idx]][c]]] < curLevel
    BY <2>4, <1>1 DEF LevelInv
  <2> QED
    BY <2>3, <2>5, <1>2
<1>10. \A c \in 1 .. dep + 1 : level[node_id[children[order[idx]][c]]] < curLevel'
  <2> SUFFICES ASSUME NEW c \in 1 .. dep + 1
               PROVE  level[node_id[children[order[idx]][c]]] < curLevel'
    OBVIOUS
  <2>1. CASE c = dep + 1
    BY <2>1, <1>8 DEF depId
  <2>2. CASE c \in 1 .. dep
    BY <2>2, <1>2, <1>8, <1>9
  <2> QED
    BY <2>1, <2>2, <1>2
<1>11. dep + 1 <= Len(children[order[idx]])
  BY <1>5
<1> QED
  BY <1>1, <1>10, <1>11 DEF LevelInv, ChildrenLower, Id

LEMMA LevelSet ==
    ASSUME DistinctDraws, TypeInv, WalkInv, LevelInv, SetLevel
    PROVE  LevelInv'
<1>1. /\ phase = "level" /\ phase' = phase /\ idx' = idx + 1 /\ dep' = 0
      /\ curLevel' = 0
      /\ order' = order /\ children' = children /\ node_id' = node_id
      /\ maxLevel' = IF curLevel > maxLevel THEN curLevel ELSE maxLevel
  BY DEF SetLevel, walkVars
<1>2. /\ idx \in 1 .. Len(order) /\ curLevel \in Nat /\ maxLevel \in Nat
      /\ order \in Seq(Nodes) /\ Len(order) \in Nat
  BY DEF SetLevel, TypeInv, TypeOK
<1>3. \A x \in DOMAIN level : level[x] \in Nat
  <2>1. level \in [DOMAIN level -> Nat]
    BY DEF TypeInv, TypeOK
  <2> QED
    BY <2>1
<1>4. /\ level' = [x \in DOMAIN level \cup {Id(idx)} |->
                     IF x = Id(idx) THEN curLevel ELSE level[x]]
      /\ dep = Len(children[order[idx]])
  BY <1>2, LinearFacts DEF SetLevel, TypeInv, Id
<1>5. DOMAIN level = {Id(k) : k \in 1 .. idx-1}
  BY <1>1 DEF LevelInv
<1>6. \A k \in 1 .. idx-1 : Id(k) # Id(idx) /\ Id(k) \in DOMAIN level
  BY <1>2, <1>5, IdsDiffer
<1>7. \A k \in 1 .. idx-1 : level'[Id(k)] = level[Id(k)]
  BY <1>4, <1>6
<1>8. level'[Id(idx)] = curLevel
  BY <1>4
<1>9. DOMAIN level' = {Id(k) : k \in 1 .. idx}
  <2>1. 1 .. idx = (1 .. idx-1) \cup {idx}
    BY <1>2
  <2> QED
    BY <1>4, <1>5, <2>1
<1>10. ASSUME NEW k \in 1 .. idx, NEW c \in 1 .. Len(children[order[k]])
       PROVE  level'[node_id[children[order[k]][c]]] = level[node_id[children[order[k]][c]]]
  <2>1. k \in 1 .. Len(order)
    BY <1>2
  <2>2. PICK j \in 1 .. k-1 : order[j] = children[order[k]][c]
    BY <2>1, ChildEarlier
  <2>3. j \in 1 .. idx-1
    BY <1>2
  <2> QED
    BY <2>2, <2>3, <1>7 DEF Id
<1>11. ASSUME NEW k \in 1 .. idx
       PROVE  level'[Id(k)] <= maxLevel' /\
              \A c \in 1 .. Len(children[order[k]]) :
                 level'[node_id[children[order[k]][c]]] < level'[Id(k)]
  <2>1. CASE k \in 1 .. idx-1
    <3>1. level[Id(k)] <= maxLevel /\ ChildrenLower(k, level[Id(k)])
      BY <2>1, <1>1 DEF LevelInv
    <3>2. level[Id(k)] \in Nat
      BY <2>1, <1>3, <1>6
    <3>3. level'[Id(k)] <= maxLevel'
      BY <2>1, <3>1, <3>2, <1>1, <1>2, <1>7
    <3> QED
      BY <2>1, <3>1, <3>3, <1>7, <1>10 DEF ChildrenLower
  <2>2. CASE k = idx
    <3>1. \A c \in 1 .. Len(children[order[idx]]) :
             level[node_id[children[order[idx]][c]]] < curLevel
      <4>1. idx <= Len(order)
        BY <1>2
      <4>2. \A c \in 1 .. dep : level[node_id[children[order[idx]][c]]] < curLevel
        BY <4>1, <1>1 DEF LevelInv
      <4> QED
        BY <4>2, <1>4
    <3>2. curLevel <= maxLevel'
      BY <1>1, <1>2
    <3> QED
      BY <2>2, <3>1, <3>2, <1>8, <1>10
  <2> QED
    BY <2>1, <2>2, <1>2
<1>12. idx + 1 <= Len(order) => 0 <= Len(children[order[idx + 1]])
  <2> SUFFICES ASSUME idx + 1 <= Len(order) PROVE 0 <= Len(children[order[idx + 1]])
    OBVIOUS
  <2>1. order[idx + 1] \in Nodes
    BY <1>2
  <2>2. children[order[idx + 1]] \in Seq(Nodes)
    BY <2>1, PlanTypes DEF TypeInv
  <2> QED
    BY <2>2
<1>13. \A k : Id(k)' = Id(k)
  BY <1>1 DEF Id
<1>14. (idx + 1) - 1 = idx
  BY <1>2
<1>15. (DOMAIN level = {Id(k) : k \in 1 .. idx-1})'
  BY <1>1, <1>9, <1>13, <1>14
<1>16. (\A k \in 1 .. idx-1 :
          level[Id(k)] <= maxLevel /\ ChildrenLower(k, level[Id(k)]))'
  BY <1>1, <1>11, <1>13, <1>14 DEF ChildrenLower
<1>17. (idx <= Len(order) =>
          /\ dep <= Len(children[order[idx]])
          /\ \A c \in 1 .. dep : level[node_id[children[order[idx]][c]]] < curLevel)'
  BY <1>1, <1>12
<1> QED
  BY <1>1, <1>15, <1>16, <1>17 DEF LevelInv

LEMMA LevelStartGrouping ==
    ASSUME TypeInv, LevelInv, StartGrouping
    PROVE  LevelInv'
<1>1. /\ phase = "level" /\ phase' = "group" /\ idx > Len(order)
      /\ order' = order /\ children' = children /\ node_id' = node_id
      /\ level' = level /\ grouped' = [l \in 0 .. maxLevel |-> <<>>]
  BY DEF StartGrouping, walkVars
<1>2. idx \in 1 .. Len(order) + 1 /\ Len(order) \in Nat
  BY DEF TypeInv, TypeOK
<1>3. idx - 1 = Len(order)
  BY <1>1, <1>2
<1>4. \A k \in 1 .. Len(order) : ChildrenLower(k, level[Id(k)])
  BY <1>1, <1>3 DEF LevelInv
<1>5. \A k \in 1 .. Len(order) : ChildrenLower(k, level[Id(k)])'
  BY <1>1, <1>4 DEF ChildrenLower, Id
<1>6. \A l \in DOMAIN grouped' : \A n : ~BatchOf(n, l)'
  BY <1>1 DEF BatchOf
<1> QED
  BY <1>1, <1>5, <1>6 DEF LevelInv

LEMMA LevelPushBack ==
    ASSUME TypeInv, LevelInv, PushBack
    PROVE  LevelInv'
<1>1. /\ phase = "group" /\ phase' = phase
      /\ order' = order /\ children' = children /\ node_id' = node_id
      /\ level' = level
  BY DEF PushBack, walkVars
<1>2. idx \in 1 .. Len(order) /\ order \in Seq(Nodes)
  BY DEF PushBack, TypeInv, TypeOK
<1>3. grouped' = [l \in DOMAIN grouped |-> IF l = level[Id(idx)]
                    THEN Append(grouped[l], order[idx]) ELSE grouped[l]]
  <2>1. linear[idx].itemid = Id(idx)
    BY <1>2, LinearFacts DEF TypeInv, Id
  <2>2. grouped' = [grouped EXCEPT ![level[Id(idx)]] = Append(@, order[idx])]
    BY <2>1 DEF PushBack
  <2> QED
    BY <2>2
<1>4. \A l \in DOMAIN grouped : grouped[l] \in Seq(Nodes)
  <2>1. grouped \in [DOMAIN grouped -> Seq(Nodes)]
    BY DEF TypeInv, TypeOK
  <2> QED
    BY <2>1
<1>5. Listed(order[idx]) /\ order[idx] \in Nodes
  BY <1>2 DEF Listed
<1>6. ASSUME NEW l \in DOMAIN grouped', NEW n \in Nodes, BatchOf(n, l)'
      PROVE  Listed(n) /\ level[node_id[n]] = l
  <2>1. l \in DOMAIN grouped /\ grouped[l] \in Seq(Nodes)
    BY <1>3, <1>4
  <2>2. CASE l # level[Id(idx)]
    <3>1. grouped'[l] = grouped[l]
      BY <2>1, <2>2, <1>3
    <3>2. BatchOf(n, l)
      BY <3>1, <1>6 DEF BatchOf
    <3> QED
      BY <3>2, <2>1, <1>1 DEF LevelInv
  <2>3. CASE l = level[Id(idx)]
    <3>1. grouped'[l] = Append(grouped[l], order[idx])
      BY <2>1, <2>3, <1>3
    <3>2. BatchOf(n, l) \/ n = order[idx]
      <4>1. PICK k \in DOMAIN grouped'[l] : grouped'[l][k] = n
        BY <1>6 DEF BatchOf
      <4>2. k \in 1 .. Len(grouped[l]) + 1
        BY <2>1, <3>1, <4>1
      <4>3. CASE k = Len(grouped[l]) + 1
        BY <2>1, <3>1, <4>1, <4>3
      <4>4. CASE k \in 1 .. Len(grouped[l])
        BY <2>1, <3>1, <4>1, <4>4 DEF BatchOf
      <4> QED
        BY <2>1, <4>2, <4>3, <4>4
    <3> QED
      BY <2>1, <2>3, <3>2, <1>1, <1>5 DEF LevelInv, Id
  <2> QED
    BY <2>2, <2>3
<1>7. \A n : Listed(n)' <=> Listed(n)
  BY <1>1 DEF Listed
<1>8. \A k \in 1 .. Len(order) : ChildrenLower(k, level[Id(k)])'
  BY <1>1 DEF LevelInv, ChildrenLower, Id
<1> QED
  BY <1>1, <1>6, <1>7, <1>8 DEF LevelInv

LEMMA LevelStep ==
    ASSUME DistinctDraws
    PROVE  TypeInv /\ WalkInv /\ LevelInv /\ [Next]_vars => LevelInv'
<1> SUFFICES ASSUME TypeInv, WalkInv, LevelInv, [Next]_vars PROVE LevelInv'
  OBVIOUS
<1>1. CASE VisitChild
  BY <1>1 DEF VisitChild, levelVars, LevelInv
<1>2. CASE Emit
  BY <1>2 DEF Emit, levelVars, LevelInv
<1>3. CASE createQueryPlan
  BY <1>3 DEF createQueryPlan, LevelInv
<1>4. CASE StartLevels
  <2>1. /\ phase' = "level" /\ level' = <<>> /\ idx' = 1 /\ dep' = 0 /\ order' = order
        /\ children' = children
    BY <1>4 DEF StartLevels, levelVars, walkVars, LevelInv
  <2>2. 1 <= Len(order) => 0 <= Len(children[order[1]])
    <3>1. order \in Seq(Nodes)
      BY DEF TypeInv, TypeOK
    <3>2. 1 <= Len(order) => order[1] \in Nodes
      BY <3>1
    <3> QED
      BY <3>2, PlanTypes DEF TypeInv
  <2> QED
    BY <2>1, <2>2 DEF LevelInv
<1>5. CASE Dependency
  BY <1>5, LevelDependency
<1>6. CASE SetLevel
  BY <1>6, LevelSet
<1>7. CASE StartGrouping
  BY <1>7, LevelStartGrouping
<1>8. CASE PushBack
  BY <1>8, LevelPushBack
<1>9. CASE Return
  BY <1>9 DEF Return, levelVars, walkVars, LevelInv, ChildrenLower, Id, BatchOf, Listed
<1>10. CASE UNCHANGED vars
  BY <1>10 DEF vars, levelVars, walkVars, LevelInv, ChildrenLower, Id, BatchOf, Listed
<1> QED
  BY <1>1, <1>2, <1>3, <1>4, <1>5, <1>6, <1>7, <1>8, <1>9, <1>10 DEF Next

LEMMA LevelsOrderBatches ==
    ASSUME TypeInv, LevelInv
    PROVE  DependenciesEarlier
<1> SUFFICES ASSUME phase \in {"group", "batches"},
                    NEW l \in DOMAIN grouped, NEW n \in Nodes, BatchOf(n, l),
                    NEW c \in DOMAIN children[n],
                    NEW m \in DOMAIN grouped, BatchOf(children[n][c], m)
             PROVE  m < l
  BY DEF DependenciesEarlier
<1>1. c \in 1 .. Len(children[n]) /\ children[n][c] \in Nodes
  BY PlanTypes DEF TypeInv
<1>2. Listed(n) /\ level[node_id[n]] = l /\ level[node_id[children[n][c]]] = m
  BY <1>1 DEF LevelInv
<1>3. PICK k \in 1 .. Len(order) : order[k] = n
  <2>1. order \in Seq(Nodes)
    BY DEF TypeInv, TypeOK
  <2> QED
    BY <1>2, <2>1 DEF Listed
<1>4. ChildrenLower(k, level[Id(k)])
  BY DEF LevelInv
<1> QED
  BY <1>1, <1>2, <1>3, <1>4 DEF ChildrenLower, Id

\* For every plan whose nodes drew different ids, crateWorkItemsParallel puts
\* every dependency of an item in an earlier batch than the item, which is the
\* premise of the batch barrier.
THEOREM DependenciesEarlierHolds ==
    ASSUME DistinctDraws
    PROVE  Spec => []DependenciesEarlier
<1>1. Init => TypeInv /\ WalkInv /\ LevelInv
  BY TypeInit, WalkInit, LevelInit
<1>2. TypeInv /\ WalkInv /\ LevelInv /\ [Next]_vars => (TypeInv /\ WalkInv /\ LevelInv)'
  BY TypeStep, WalkStep, LevelStep
<1>3. TypeInv /\ WalkInv /\ LevelInv => DependenciesEarlier
  BY LevelsOrderBatches
<1> QED
  BY <1>1, <1>2, <1>3, PTL DEF Spec

-----------------------------------------------------------------------------
(* The batches are exact *)

\* The least element of a set of numbers: the only induction needed here.
LEMMA LeastNumber ==
    ASSUME NEW T \in SUBSET Nat, T # {}
    PROVE  \E x \in T : \A y \in T : x <= y
<1> DEFINE less == {ss \in Nat \X Nat : ss[1] < ss[2]}
<1>1. IsWellFoundedOn(less, Nat)
  BY NatLessThanWellFounded DEF OpToRel
<1>2. PICK x \in T : \A y \in T : ~ (<<y, x>> \in less)
  <2>1. \E x \in T : \A y \in T : ~ (<<y, x>> \in less)
    BY <1>1, WFMin
  <2> QED
    BY <2>1
<1>3. ASSUME NEW y \in T PROVE x <= y
  <2>1. <<y, x>> \notin less /\ x \in Nat /\ y \in Nat
    BY <1>2
  <2> QED
    BY <2>1
<1> QED
  BY <1>3

\* l is 0, or one above the level of some child among the first d of the node
\* at position k.
Tight(k, d, l) ==
    \/ l = 0
    \/ \E c \in 1 .. d : /\ c <= Len(children[order[k]])
                         /\ l = level[node_id[children[order[k]][c]]] + 1

\* No level is higher than it must be, the highest one is taken, and grouping
\* has put exactly the items before idx in the batch of their level.
BatchInv ==
    /\ phase = "walk" => idx = 1 /\ maxLevel = 0
    /\ phase # "walk" => st = <<>>
    /\ phase = "level" =>
          /\ idx = 1 => maxLevel = 0
          /\ \A k \in 1 .. idx-1 : Tight(k, Len(children[order[k]]), level[Id(k)])
          /\ idx > 1 => \E k \in 1 .. idx-1 : level[Id(k)] = maxLevel
          /\ idx <= Len(order) => Tight(idx, dep, curLevel)
    /\ phase \in {"group", "batches"} =>
          /\ DOMAIN grouped = 0 .. maxLevel
          /\ \A k \in 1 .. Len(order) :
                /\ level[Id(k)] \in 0 .. maxLevel
                /\ Tight(k, Len(children[order[k]]), level[Id(k)])
          /\ \E k \in 1 .. Len(order) : level[Id(k)] = maxLevel
          /\ \A k \in 1 .. idx-1 : BatchOf(order[k], level[Id(k)])
          /\ \A l \in DOMAIN grouped : \A j \in 1 .. Len(grouped[l]) :
                \E k \in 1 .. idx-1 : grouped[l][j] = order[k]
          /\ \A l \in DOMAIN grouped : \A i, j \in 1 .. Len(grouped[l]) :
                i # j => grouped[l][i] # grouped[l][j]
    /\ phase = "batches" => idx = Len(order) + 1

LEMMA BatchInit == Init => BatchInv
BY DEF Init, BatchInv

LEMMA BatchDependency ==
    ASSUME TypeInv, LevelInv, BatchInv, Dependency
    PROVE  BatchInv'
<1>1. /\ phase = "level" /\ phase' = phase /\ idx' = idx /\ level' = level
      /\ maxLevel' = maxLevel /\ dep' = dep + 1 /\ st' = st
      /\ order' = order /\ children' = children /\ node_id' = node_id
  BY DEF Dependency, walkVars
<1>2. /\ idx \in 1 .. Len(order) /\ idx <= Len(order) /\ dep \in Nat
      /\ order \in Seq(Nodes)
  BY DEF Dependency, TypeInv, TypeOK
<1>3. /\ Len(linear[idx].dependson) = Len(children[order[idx]])
      /\ \A k \in 1 .. Len(children[order[idx]]) :
            linear[idx].dependson[k] = node_id[children[order[idx]][k]]
      /\ Len(children[order[idx]]) \in Nat
  <2>1. order[idx] \in Nodes
    BY <1>2
  <2>2. children[order[idx]] \in Seq(Nodes)
    BY <2>1, PlanTypes DEF TypeInv
  <2> QED
    BY <1>2, <2>2, LinearFacts DEF TypeInv
<1>4. dep + 1 \in 1 .. Len(children[order[idx]])
  <2>1. dep < Len(children[order[idx]])
    BY <1>3 DEF Dependency
  <2> QED
    BY <1>2, <1>3, <2>1
<1>5. \/ curLevel' = level[node_id[children[order[idx]][dep + 1]]] + 1
      \/ curLevel' = curLevel
  BY <1>3, <1>4 DEF Dependency
<1>6. Tight(idx, dep, curLevel)
  BY <1>1, <1>2 DEF BatchInv
<1>7. \/ curLevel' = 0
      \/ \E c \in 1 .. dep + 1 : /\ c <= Len(children[order[idx]])
                                 /\ curLevel' = level[node_id[children[order[idx]][c]]] + 1
  <2>1. CASE curLevel' = level[node_id[children[order[idx]][dep + 1]]] + 1
    <3>1. dep + 1 \in 1 .. dep + 1 /\ dep + 1 <= Len(children[order[idx]])
      BY <1>2, <1>4
    <3> QED
      BY <2>1, <3>1
  <2>2. CASE curLevel' = curLevel
    <3>1. 1 .. dep \subseteq 1 .. dep + 1
      BY <1>2
    <3> QED
      BY <2>2, <3>1, <1>6 DEF Tight
  <2> QED
    BY <2>1, <2>2, <1>5
<1>8. (\A k \in 1 .. idx-1 : Tight(k, Len(children[order[k]]), level[Id(k)]))'
  BY <1>1 DEF BatchInv, Tight, Id
<1>9. (idx > 1 => \E k \in 1 .. idx-1 : level[Id(k)] = maxLevel)'
  BY <1>1 DEF BatchInv, Id
<1>10. Tight(idx, dep, curLevel)'
  BY <1>1, <1>7 DEF Tight
<1>11. (st = <<>>)' /\ (idx = 1 => maxLevel = 0)'
  BY <1>1 DEF BatchInv
<1> QED
  BY <1>1, <1>8, <1>9, <1>10, <1>11 DEF BatchInv

LEMMA BatchSetLevel ==
    ASSUME DistinctDraws, TypeInv, WalkInv, LevelInv, BatchInv, SetLevel
    PROVE  BatchInv'
<1>1. /\ phase = "level" /\ phase' = phase /\ idx' = idx + 1 /\ dep' = 0
      /\ curLevel' = 0 /\ st' = st
      /\ order' = order /\ children' = children /\ node_id' = node_id
      /\ maxLevel' = IF curLevel > maxLevel THEN curLevel ELSE maxLevel
  BY DEF SetLevel, walkVars
<1>2. /\ idx \in 1 .. Len(order) /\ curLevel \in Nat /\ maxLevel \in Nat
      /\ order \in Seq(Nodes) /\ Len(order) \in Nat
  BY DEF SetLevel, TypeInv, TypeOK
<1>3. /\ level' = [x \in DOMAIN level \cup {Id(idx)} |->
                     IF x = Id(idx) THEN curLevel ELSE level[x]]
      /\ dep = Len(children[order[idx]])
  BY <1>2, LinearFacts DEF SetLevel, TypeInv, Id
<1>4. DOMAIN level = {Id(k) : k \in 1 .. idx-1}
  BY <1>1 DEF LevelInv
<1>5. \A k \in 1 .. idx-1 : Id(k) # Id(idx) /\ Id(k) \in DOMAIN level
  BY <1>2, <1>4, IdsDiffer
<1>6. \A k \in 1 .. idx-1 : level'[Id(k)] = level[Id(k)]
  BY <1>3, <1>5
<1>7. level'[Id(idx)] = curLevel
  BY <1>3
<1>8. ASSUME NEW k \in 1 .. idx, NEW c \in 1 .. Len(children[order[k]])
      PROVE  level'[node_id[children[order[k]][c]]] = level[node_id[children[order[k]][c]]]
  <2>1. k \in 1 .. Len(order)
    BY <1>2
  <2>2. PICK j \in 1 .. k-1 : order[j] = children[order[k]][c]
    BY <2>1, ChildEarlier
  <2>3. j \in 1 .. idx-1
    BY <1>2
  <2> QED
    BY <2>2, <2>3, <1>6 DEF Id
<1>9. \A k \in 1 .. idx : Tight(k, Len(children[order[k]]), level'[Id(k)])
  <2>1. \A k \in 1 .. idx-1 : Tight(k, Len(children[order[k]]), level'[Id(k)])
    BY <1>1, <1>6 DEF BatchInv
  <2>2. Tight(idx, Len(children[order[idx]]), level'[Id(idx)])
    <3>1. idx <= Len(order)
      BY <1>2
    <3> QED
      BY <3>1, <1>1, <1>3, <1>7 DEF BatchInv
  <2>3. \A k \in 1 .. idx : k \in 1 .. idx-1 \/ k = idx
    BY <1>2
  <2> QED
    BY <2>1, <2>2, <2>3
<1>10. ASSUME NEW k \in 1 .. idx
       PROVE  Tight(k, Len(children[order[k]]), level[Id(k)])'
  <2>1. Tight(k, Len(children[order[k]]), level'[Id(k)])
    BY <1>9
  <2>2. Id(k)' = Id(k)
    BY <1>1 DEF Id
  <2> QED
    BY <2>1, <2>2, <1>1, <1>8 DEF Tight
<1>11. \E k \in 1 .. idx : level'[Id(k)] = maxLevel'
  <2>1. idx \in 1 .. idx /\ 1 .. idx-1 \subseteq 1 .. idx
    BY <1>2
  <2>2. CASE curLevel > maxLevel
    BY <2>1, <2>2, <1>1, <1>7
  <2>3. CASE ~(curLevel > maxLevel) /\ idx = 1
    <3>1. maxLevel = 0
      BY <2>3, <1>1 DEF BatchInv
    <3>2. curLevel = maxLevel /\ maxLevel' = maxLevel
      BY <2>3, <3>1, <1>1, <1>2
    <3> QED
      BY <2>1, <3>2, <1>7
  <2>4. CASE ~(curLevel > maxLevel) /\ idx # 1
    <3>1. idx > 1
      BY <2>4, <1>2
    <3>2. PICK k \in 1 .. idx-1 : level[Id(k)] = maxLevel
      BY <3>1, <1>1 DEF BatchInv
    <3>3. k \in 1 .. idx /\ level'[Id(k)] = maxLevel'
      BY <3>2, <2>1, <2>4, <1>1, <1>6
    <3> QED
      BY <3>3
  <2> QED
    BY <2>2, <2>3, <2>4
<1>12. \A k : Id(k)' = Id(k)
  BY <1>1 DEF Id
<1>13. (idx + 1) - 1 = idx /\ idx + 1 # 1
  BY <1>2
<1>14. (\A k \in 1 .. idx-1 : Tight(k, Len(children[order[k]]), level[Id(k)]))'
  BY <1>1, <1>10, <1>13
<1>15. (idx > 1 => \E k \in 1 .. idx-1 : level[Id(k)] = maxLevel)'
  BY <1>1, <1>11, <1>12, <1>13
<1>16. (idx <= Len(order) => Tight(idx, dep, curLevel))'
  BY <1>1 DEF Tight
<1>17. (st = <<>>)'
  BY <1>1 DEF BatchInv
<1> QED
  BY <1>1, <1>13, <1>14, <1>15, <1>16, <1>17 DEF BatchInv

LEMMA BatchStartGrouping ==
    ASSUME TypeInv, WalkInv, ReachInv, LevelInv, BatchInv, StartGrouping
    PROVE  BatchInv'
<1>1. /\ phase = "level" /\ phase' = "group" /\ idx > Len(order) /\ idx' = 1
      /\ order' = order /\ children' = children /\ node_id' = node_id
      /\ level' = level /\ maxLevel' = maxLevel /\ st' = st
      /\ grouped' = [l \in 0 .. maxLevel |-> <<>>]
  BY DEF StartGrouping, walkVars
<1>2. /\ idx \in 1 .. Len(order) + 1 /\ Len(order) \in Nat /\ order \in Seq(Nodes)
      /\ maxLevel \in Nat
  BY DEF TypeInv, TypeOK
<1>3. idx - 1 = Len(order)
  BY <1>1, <1>2
<1>4. Len(order) >= 1
  <2>1. Root \in Nodes /\ st = <<>>
    BY <1>1 DEF Root, Nodes, BatchInv
  <2>2. Listed(Root)
    BY <2>1 DEF ReachInv, WalkInv, SeenExact, OnStack
  <2> QED
    BY <2>2, <1>2 DEF Listed
<1>5. \E k \in 1 .. Len(order) : level[Id(k)] = maxLevel
  BY <1>1, <1>2, <1>3, <1>4 DEF BatchInv
<1>6. ASSUME NEW k \in 1 .. Len(order)
      PROVE  /\ level[Id(k)] \in 0 .. maxLevel
             /\ Tight(k, Len(children[order[k]]), level[Id(k)])
  <2>1. k \in 1 .. idx-1
    BY <1>3
  <2>2. Id(k) \in DOMAIN level /\ level[Id(k)] <= maxLevel
    BY <2>1, <1>1 DEF LevelInv
  <2>3. level[Id(k)] \in Nat
    BY <2>2 DEF TypeInv, TypeOK
  <2> QED
    BY <2>1, <2>2, <2>3, <1>1, <1>2 DEF BatchInv
<1>7. \A k : Id(k)' = Id(k)
  BY <1>1 DEF Id
<1>8. (\A k \in 1 .. Len(order) :
         /\ level[Id(k)] \in 0 .. maxLevel
         /\ Tight(k, Len(children[order[k]]), level[Id(k)]))'
  BY <1>1, <1>6, <1>7 DEF Tight
<1>9. (\E k \in 1 .. Len(order) : level[Id(k)] = maxLevel)'
  BY <1>1, <1>5, <1>7
<1>10. \A l \in DOMAIN grouped' : Len(grouped'[l]) = 0
  BY <1>1
<1>11. (st = <<>>)' /\ (DOMAIN grouped = 0 .. maxLevel)'
  BY <1>1 DEF BatchInv
<1> QED
  BY <1>1, <1>8, <1>9, <1>10, <1>11 DEF BatchInv

LEMMA BatchPushBack ==
    ASSUME TypeInv, WalkInv, BatchInv, PushBack
    PROVE  BatchInv'
<1>1. /\ phase = "group" /\ phase' = phase /\ idx' = idx + 1
      /\ order' = order /\ children' = children /\ node_id' = node_id
      /\ level' = level /\ maxLevel' = maxLevel /\ st' = st
  BY DEF PushBack, walkVars
<1>2. idx \in 1 .. Len(order) /\ order \in Seq(Nodes) /\ Len(order) \in Nat
  BY DEF PushBack, TypeInv, TypeOK
<1> DEFINE at == level[Id(idx)]
<1>3. grouped' = [grouped EXCEPT ![at] = Append(@, order[idx])]
  <2>1. linear[idx].itemid = Id(idx)
    BY <1>2, LinearFacts DEF TypeInv, Id
  <2> QED
    BY <2>1 DEF PushBack
<1>4. /\ DOMAIN grouped = 0 .. maxLevel
      /\ \A k \in 1 .. Len(order) :
            /\ level[Id(k)] \in 0 .. maxLevel
            /\ Tight(k, Len(children[order[k]]), level[Id(k)])
      /\ \E k \in 1 .. Len(order) : level[Id(k)] = maxLevel
      /\ \A k \in 1 .. idx-1 : BatchOf(order[k], level[Id(k)])
      /\ \A l \in DOMAIN grouped : \A j \in 1 .. Len(grouped[l]) :
            \E k \in 1 .. idx-1 : grouped[l][j] = order[k]
      /\ \A l \in DOMAIN grouped : \A i, j \in 1 .. Len(grouped[l]) :
            i # j => grouped[l][i] # grouped[l][j]
  BY <1>1 DEF BatchInv
<1>5. at \in DOMAIN grouped
  BY <1>2, <1>4
<1> HIDE DEF at
<1>6. \A l \in DOMAIN grouped : grouped[l] \in Seq(Nodes)
  BY DEF TypeInv, TypeOK
<1>7. /\ DOMAIN grouped' = DOMAIN grouped
      /\ \A l \in DOMAIN grouped : l # at => grouped'[l] = grouped[l]
      /\ grouped'[at] = Append(grouped[at], order[idx])
  BY <1>3, <1>5
<1>8. /\ Len(grouped[at]) \in Nat
      /\ Len(grouped'[at]) = Len(grouped[at]) + 1
      /\ DOMAIN grouped'[at] = 1 .. Len(grouped[at]) + 1
      /\ DOMAIN grouped[at] = 1 .. Len(grouped[at])
      /\ \A j \in 1 .. Len(grouped[at]) : grouped'[at][j] = grouped[at][j]
      /\ grouped'[at][Len(grouped[at]) + 1] = order[idx]
  BY <1>2, <1>5, <1>6, <1>7
<1>9. \A k : Id(k)' = Id(k)
  BY <1>1 DEF Id
<1>10. (\A k \in 1 .. Len(order) :
          /\ level[Id(k)] \in 0 .. maxLevel
          /\ Tight(k, Len(children[order[k]]), level[Id(k)]))'
  BY <1>1, <1>4, <1>9 DEF Tight
<1>11. (\E k \in 1 .. Len(order) : level[Id(k)] = maxLevel)'
  BY <1>1, <1>4, <1>9
<1>12. (idx + 1) - 1 = idx /\ \A k \in 1 .. idx : k \in 1 .. idx-1 \/ k = idx
  BY <1>2
<1>13. ASSUME NEW k \in 1 .. idx
       PROVE  \E j \in DOMAIN grouped'[level[Id(k)]] :
                 grouped'[level[Id(k)]][j] = order[k]
  <2>1. CASE k = idx
    <3>1. Len(grouped[at]) + 1 \in DOMAIN grouped'[at]
      BY <1>8
    <3> QED
      BY <2>1, <3>1, <1>8 DEF at
  <2>2. CASE k \in 1 .. idx-1
    <3>1. PICK j \in DOMAIN grouped[level[Id(k)]] : grouped[level[Id(k)]][j] = order[k]
      BY <2>2, <1>4 DEF BatchOf
    <3>2. level[Id(k)] \in DOMAIN grouped
      BY <1>2, <1>4
    <3>3. CASE level[Id(k)] = at
      BY <3>1, <3>3, <1>8
    <3>4. CASE level[Id(k)] # at
      BY <3>1, <3>2, <3>4, <1>7
    <3> QED
      BY <3>3, <3>4
  <2> QED
    BY <2>1, <2>2, <1>12
<1>14. (\A k \in 1 .. idx-1 : BatchOf(order[k], level[Id(k)]))'
  BY <1>1, <1>9, <1>12, <1>13 DEF BatchOf
<1>15. ASSUME NEW l \in DOMAIN grouped, NEW j \in 1 .. Len(grouped'[l])
       PROVE  \E k \in 1 .. idx : grouped'[l][j] = order[k]
  <2>1. idx \in 1 .. idx /\ 1 .. idx-1 \subseteq 1 .. idx
    BY <1>2
  <2>2. CASE l = at /\ j = Len(grouped[at]) + 1
    BY <2>1, <2>2, <1>8
  <2>3. CASE l = at /\ j # Len(grouped[at]) + 1
    <3>1. j \in 1 .. Len(grouped[at])
      BY <2>3, <1>8
    <3>2. PICK k \in 1 .. idx-1 : grouped[at][j] = order[k]
      BY <3>1, <1>4, <1>5
    <3>3. grouped'[l][j] = order[k] /\ k \in 1 .. idx
      BY <2>1, <2>3, <3>1, <3>2, <1>8
    <3> QED
      BY <3>3
  <2>4. CASE l # at
    BY <2>1, <2>4, <1>4, <1>7
  <2> QED
    BY <2>2, <2>3, <2>4
<1>16. (\A l \in DOMAIN grouped : \A j \in 1 .. Len(grouped[l]) :
          \E k \in 1 .. idx-1 : grouped[l][j] = order[k])'
  BY <1>1, <1>7, <1>12, <1>15
<1>17. \A j \in 1 .. Len(grouped[at]) : grouped[at][j] # order[idx]
  <2> SUFFICES ASSUME NEW j \in 1 .. Len(grouped[at]) PROVE grouped[at][j] # order[idx]
    OBVIOUS
  <2>1. PICK k \in 1 .. idx-1 : grouped[at][j] = order[k]
    BY <1>4, <1>5
  <2>2. k \in DOMAIN order /\ idx \in DOMAIN order /\ k # idx
    BY <1>2
  <2> QED
    BY <2>1, <2>2 DEF WalkInv, ChildrenFirst
<1>18. ASSUME NEW l \in DOMAIN grouped, NEW i \in 1 .. Len(grouped'[l]),
              NEW j \in 1 .. Len(grouped'[l]), i # j
       PROVE  grouped'[l][i] # grouped'[l][j]
  <2>1. CASE l # at
    BY <2>1, <1>4, <1>7, <1>18
  <2>2. CASE l = at
    <3> DEFINE n == Len(grouped[at])
    <3>1. /\ i \in 1 .. n \/ i = n + 1
          /\ j \in 1 .. n \/ j = n + 1
      BY <2>2, <1>8
    <3>2. CASE i \in 1 .. n /\ j \in 1 .. n
      <4>1. grouped[at][i] # grouped[at][j]
        BY <3>2, <1>4, <1>5, <1>18
      <4>2. grouped'[l][i] = grouped[at][i] /\ grouped'[l][j] = grouped[at][j]
        BY <2>2, <3>2, <1>8
      <4> QED
        BY <4>1, <4>2
    <3>3. CASE i = n + 1 \/ j = n + 1
      BY <2>2, <3>1, <3>3, <1>8, <1>17, <1>18
    <3> QED
      BY <3>1, <3>2, <3>3
  <2> QED
    BY <2>1, <2>2
<1>19. (\A l \in DOMAIN grouped : \A i, j \in 1 .. Len(grouped[l]) :
          i # j => grouped[l][i] # grouped[l][j])'
  BY <1>7, <1>18
<1>20. (st = <<>>)' /\ (DOMAIN grouped = 0 .. maxLevel)'
  BY <1>1, <1>4, <1>7 DEF BatchInv
<1> QED
  BY <1>1, <1>10, <1>11, <1>14, <1>16, <1>19, <1>20 DEF BatchInv

LEMMA BatchStep ==
    ASSUME DistinctDraws
    PROVE  /\ TypeInv /\ WalkInv /\ ReachInv /\ LevelInv /\ BatchInv
           /\ [Next]_vars
           => BatchInv'
<1> SUFFICES ASSUME TypeInv, WalkInv, ReachInv, LevelInv, BatchInv, [Next]_vars
             PROVE  BatchInv'
  OBVIOUS
<1>1. CASE VisitChild
  BY <1>1 DEF VisitChild, levelVars, BatchInv
<1>2. CASE Emit
  BY <1>2 DEF Emit, levelVars, BatchInv
<1>3. CASE createQueryPlan
  BY <1>3 DEF createQueryPlan, walkVars, BatchInv
<1>4. CASE StartLevels
  <2>1. /\ phase' = "level" /\ idx' = 1 /\ maxLevel' = 0 /\ st' = <<>> /\ curLevel' = 0
    BY <1>4 DEF StartLevels, levelVars, walkVars, LevelInv, BatchInv
  <2> QED
    BY <2>1 DEF BatchInv, Tight
<1>5. CASE Dependency
  BY <1>5, BatchDependency
<1>6. CASE SetLevel
  BY <1>6, BatchSetLevel
<1>7. CASE StartGrouping
  BY <1>7, BatchStartGrouping
<1>8. CASE PushBack
  BY <1>8, BatchPushBack
<1>9. CASE Return
  <2>1. /\ phase = "group" /\ phase' = "batches" /\ idx' = idx /\ idx > Len(order)
        /\ children' = children /\ node_id' = node_id /\ st' = st /\ order' = order
        /\ level' = level /\ maxLevel' = maxLevel /\ grouped' = grouped
    BY <1>9 DEF Return, walkVars, levelVars
  <2>2. idx' = Len(order') + 1
    <3>1. idx \in 1 .. Len(order) + 1 /\ Len(order) \in Nat
      BY DEF TypeInv, TypeOK
    <3>2. idx = Len(order) + 1
      BY <2>1, <3>1
    <3> QED
      BY <2>1, <3>2
  <2>3. /\ \A k : Id(k)' = Id(k)
        /\ \A n, l : BatchOf(n, l)' <=> BatchOf(n, l)
    BY <2>1 DEF Id, BatchOf
  <2>4. (\A k \in 1 .. Len(order) :
           /\ level[Id(k)] \in 0 .. maxLevel
           /\ Tight(k, Len(children[order[k]]), level[Id(k)]))'
    BY <2>1 DEF BatchInv, Tight, Id
  <2>5. (\E k \in 1 .. Len(order) : level[Id(k)] = maxLevel)'
    BY <2>1, <2>3 DEF BatchInv
  <2>6. (\A k \in 1 .. idx-1 : BatchOf(order[k], level[Id(k)]))'
    BY <2>1, <2>3 DEF BatchInv
  <2> QED
    BY <2>1, <2>2, <2>4, <2>5, <2>6 DEF BatchInv
<1>10. CASE UNCHANGED vars
  BY <1>10 DEF vars, levelVars, walkVars, BatchInv, Tight, Id, BatchOf
<1> QED
  BY <1>1, <1>2, <1>3, <1>4, <1>5, <1>6, <1>7, <1>8, <1>9, <1>10 DEF Next

\* When grouping is over: the items and their batches determine each other.
LEMMA GroupedFacts ==
    ASSUME TypeInv, LevelInv, BatchInv, phase = "batches"
    PROVE  /\ DOMAIN grouped = 0 .. maxLevel /\ maxLevel \in Nat
           /\ \A l \in DOMAIN grouped : /\ grouped[l] \in Seq(Nodes)
                                        /\ DOMAIN grouped[l] = 1 .. Len(grouped[l])
           /\ order \in Seq(Nodes) /\ DOMAIN order = 1 .. Len(order)
           /\ \A k \in 1 .. Len(order) :
                 /\ order[k] \in Nodes
                 /\ level[Id(k)] \in 0 .. maxLevel
                 /\ BatchOf(order[k], level[Id(k)])
           /\ \A l \in DOMAIN grouped : \A n \in Nodes : BatchOf(n, l) =>
                 \E k \in 1 .. Len(order) : order[k] = n /\ level[Id(k)] = l
<1>1. order \in Seq(Nodes) /\ Len(order) \in Nat /\ maxLevel \in Nat
  BY DEF TypeInv, TypeOK
<1>2. idx - 1 = Len(order)
  BY <1>1 DEF BatchInv
<1>3. \A l \in DOMAIN grouped : grouped[l] \in Seq(Nodes)
  BY DEF TypeInv, TypeOK
<1>4. \A k \in 1 .. Len(order) : /\ level[Id(k)] \in 0 .. maxLevel
                                 /\ BatchOf(order[k], level[Id(k)])
  BY <1>2 DEF BatchInv
<1>5. ASSUME NEW l \in DOMAIN grouped, NEW n \in Nodes, BatchOf(n, l)
      PROVE  \E k \in 1 .. Len(order) : order[k] = n /\ level[Id(k)] = l
  <2>1. Listed(n) /\ level[node_id[n]] = l
    BY <1>5 DEF LevelInv
  <2> QED
    BY <2>1, <1>1 DEF Listed, Id
<1>6. DOMAIN grouped = 0 .. maxLevel
  BY DEF BatchInv
<1>7. \A l \in DOMAIN grouped : DOMAIN grouped[l] = 1 .. Len(grouped[l])
  BY <1>3
<1>8. DOMAIN order = 1 .. Len(order) /\ \A k \in 1 .. Len(order) : order[k] \in Nodes
  BY <1>1
<1> QED
  BY <1>1, <1>3, <1>4, <1>5, <1>6, <1>7, <1>8

\* Under every batch but the first there is the batch of a dependency.
LEMMA BatchBelow ==
    ASSUME TypeInv, WalkInv, LevelInv, BatchInv, phase = "batches",
           NEW n \in Nodes, NEW l \in DOMAIN grouped, BatchOf(n, l)
    PROVE  /\ \A c \in DOMAIN children[n] :
                 \E m \in DOMAIN grouped : m < l /\ BatchOf(children[n][c], m)
           /\ l > 0 => \E c \in DOMAIN children[n] : BatchOf(children[n][c], l - 1)
<1>1. PICK k \in 1 .. Len(order) : order[k] = n /\ level[Id(k)] = l
  BY GroupedFacts
<1>2. DOMAIN children[n] = 1 .. Len(children[n]) /\ Len(children[n]) \in Nat
  BY PlanTypes DEF TypeInv
<1>3. l \in Nat /\ DOMAIN grouped = 0 .. maxLevel /\ maxLevel \in Nat
  BY GroupedFacts
<1>4. ASSUME NEW c \in DOMAIN children[n]
      PROVE  /\ level[node_id[children[n][c]]] \in DOMAIN grouped
             /\ level[node_id[children[n][c]]] < l
             /\ BatchOf(children[n][c], level[node_id[children[n][c]]])
  <2>1. c \in 1 .. Len(children[order[k]])
    BY <1>1, <1>2
  <2>2. PICK j \in 1 .. k-1 : j \in 1 .. Len(order) /\ order[j] = children[order[k]][c]
    BY <2>1, ChildEarlier
  <2>3. ChildrenLower(k, l)
    BY <1>1 DEF LevelInv
  <2>4. level[node_id[children[n][c]]] < l
    BY <2>1, <2>3, <1>1 DEF ChildrenLower
  <2>5. /\ level[Id(j)] \in DOMAIN grouped
        /\ BatchOf(order[j], level[Id(j)])
    BY <2>2, GroupedFacts
  <2> QED
    BY <2>2, <2>4, <2>5, <1>1 DEF Id
<1>5. ASSUME l > 0
      PROVE  \E c \in DOMAIN children[n] : BatchOf(children[n][c], l - 1)
  <2>1. Tight(k, Len(children[order[k]]), l)
    BY <1>1 DEF BatchInv
  <2>2. PICK c \in 1 .. Len(children[n]) : l = level[node_id[children[n][c]]] + 1
    BY <2>1, <1>1, <1>3, <1>5 DEF Tight
  <2>3. c \in DOMAIN children[n] /\ level[node_id[children[n][c]]] \in Nat
    BY <1>2, <1>3, <1>4
  <2>4. level[node_id[children[n][c]]] = l - 1
    BY <2>2, <2>3, <1>3
  <2> QED
    BY <2>3, <2>4, <1>4
<1> QED
  BY <1>4, <1>5

LEMMA NoBatchEmpty ==
    ASSUME TypeInv, WalkInv, LevelInv, BatchInv, phase = "batches"
    PROVE  \A l \in DOMAIN grouped : grouped[l] # <<>>
<1>1. DOMAIN grouped = 0 .. maxLevel /\ maxLevel \in Nat
  BY GroupedFacts
<1> DEFINE T == {d \in 0 .. maxLevel : grouped[maxLevel - d] = <<>>}
<1>2. SUFFICES ASSUME T # {} PROVE FALSE
  <2>1. ASSUME NEW l \in DOMAIN grouped, grouped[l] = <<>> PROVE T # {}
    <3>1. maxLevel - l \in 0 .. maxLevel /\ maxLevel - (maxLevel - l) = l
      BY <1>1
    <3> QED
      BY <2>1, <3>1
  <2> HIDE DEF T
  <2> QED
    BY <1>2, <2>1
<1>3. PICK d \in T : \A e \in T : d <= e
  <2>1. T \in SUBSET Nat
    BY <1>1
  <2> HIDE DEF T
  <2> QED
    BY <1>2, <2>1, LeastNumber
<1>4. d \in 0 .. maxLevel /\ grouped[maxLevel - d] = <<>>
  OBVIOUS
<1>5. d # 0
  <2>1. PICK k \in 1 .. Len(order) : level[Id(k)] = maxLevel
    BY DEF BatchInv
  <2>2. BatchOf(order[k], maxLevel)
    BY <2>1, GroupedFacts
  <2>3. grouped[maxLevel] # <<>>
    BY <2>2 DEF BatchOf
  <2>4. maxLevel - 0 = maxLevel
    BY <1>1
  <2> QED
    BY <2>3, <2>4, <1>4
<1> DEFINE l == maxLevel - (d - 1)
<1>6. /\ d - 1 \in 0 .. maxLevel /\ ~(d <= d - 1)
      /\ l \in DOMAIN grouped /\ l > 0 /\ l - 1 = maxLevel - d
  BY <1>1, <1>4, <1>5
<1>7. grouped[l] # <<>>
  BY <1>3, <1>6
<1> HIDE DEF T, l
<1>8. /\ grouped[l] \in Seq(Nodes) /\ 1 \in DOMAIN grouped[l]
      /\ grouped[l][1] \in Nodes
  <2>1. grouped[l] \in Seq(Nodes) /\ DOMAIN grouped[l] = 1 .. Len(grouped[l])
    BY <1>6, GroupedFacts
  <2> QED
    BY <1>7, <2>1
<1>9. BatchOf(grouped[l][1], l)
  BY <1>8 DEF BatchOf
<1>10. PICK c \in DOMAIN children[grouped[l][1]] :
          BatchOf(children[grouped[l][1]][c], l - 1)
  BY <1>6, <1>8, <1>9, BatchBelow
<1>11. grouped[maxLevel - d] # <<>>
  BY <1>6, <1>10 DEF BatchOf
<1> QED
  BY <1>4, <1>11

LEMMA BatchesAreExact ==
    ASSUME TypeInv, WalkInv, LevelInv, BatchInv
    PROVE  BatchesExact
<1> SUFFICES ASSUME phase = "batches"
             PROVE  /\ \A l \in DOMAIN grouped : grouped[l] # <<>>
                    /\ \A n \in Nodes :
                          Listed(n) <=> \E l \in DOMAIN grouped : BatchOf(n, l)
                    /\ \A l \in DOMAIN grouped : \A n \in Nodes : BatchOf(n, l) =>
                          /\ \A c \in DOMAIN children[n] :
                                \E m \in DOMAIN grouped : m < l /\ BatchOf(children[n][c], m)
                          /\ l > 0 => \E c \in DOMAIN children[n] :
                                         BatchOf(children[n][c], l - 1)
                    /\ \A l \in DOMAIN grouped : \A j, k \in DOMAIN grouped[l] :
                          j # k => grouped[l][j] # grouped[l][k]
  BY DEF BatchesExact
<1>1. ASSUME NEW n \in Nodes
      PROVE  Listed(n) <=> \E l \in DOMAIN grouped : BatchOf(n, l)
  <2>1. DOMAIN order = 1 .. Len(order) /\ DOMAIN grouped = 0 .. maxLevel
    BY GroupedFacts
  <2>2. ASSUME NEW k \in 1 .. Len(order), order[k] = n
        PROVE  level[Id(k)] \in DOMAIN grouped /\ BatchOf(n, level[Id(k)])
    BY <2>1, <2>2, GroupedFacts
  <2>3. ASSUME NEW l \in DOMAIN grouped, BatchOf(n, l) PROVE Listed(n)
    BY <2>3 DEF LevelInv
  <2> QED
    BY <2>1, <2>2, <2>3 DEF Listed
<1>2. \A l \in DOMAIN grouped : \A j, k \in DOMAIN grouped[l] :
         j # k => grouped[l][j] # grouped[l][k]
  BY GroupedFacts DEF BatchInv
<1> QED
  BY <1>1, <1>2, NoBatchEmpty, BatchBelow

\* For every plan whose nodes drew different ids: crateWorkItemsParallel puts
\* every listed item in exactly one batch, leaves no batch empty, and puts an
\* item in the batch right after the last of its dependencies.
THEOREM BatchesExactHolds ==
    ASSUME DistinctDraws
    PROVE  Spec => []BatchesExact
<1> DEFINE Inv == TypeInv /\ WalkInv /\ ReachInv /\ LevelInv /\ BatchInv
<1>1. Init => Inv
  BY TypeInit, WalkInit, ReachInit, LevelInit, BatchInit
<1>2. Inv /\ [Next]_vars => Inv'
  BY TypeStep, WalkStep, ReachStep, LevelStep, BatchStep
<1>3. Inv => BatchesExact
  BY BatchesAreExact
<1> QED
  BY <1>1, <1>2, <1>3, PTL DEF Spec

=============================================================================
