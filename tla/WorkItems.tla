------------------------------ MODULE WorkItems ------------------------------
(***************************************************************************)
(* cpp/code/include/Translator.hpp: how a physical plan becomes the work   *)
(* items that are sent.  crateWorkItems walks the plan with an explicit    *)
(* stack and lists its nodes children first; createQueryPlan sends that    *)
(* list as one plan; crateWorkItemsParallel gives every item a level and   *)
(* groups the list by level into the batches that QueryManager sends one   *)
(* after the other.                                                        *)
(*                                                                         *)
(* A plan is a DAG: subplans are shared.  Its nodes are numbered in the    *)
(* order in which the optimizer creates them, so a child has a smaller     *)
(* number than its parents and the RESULT node is the last one.  Child     *)
(* pointers are never null.  What an item asks for (its node type and      *)
(* columns) is left out: a work item is its id and the ids it depends on.  *)
(***************************************************************************)
EXTENDS Naturals, Sequences, FiniteSets

CONSTANTS
    N,       \* the number of nodes
    Plans,   \* the plans considered: node -> the sequence of its children
    Drawn    \* the node ids considered, as drawn by nextIntermediateName

Nodes == 1 .. N
Root  == N

ASSUME NAssumption == N \in Nat \ {0}

ASSUME PlansAssumption ==
    \A c \in Plans : /\ c \in [Nodes -> Seq(Nodes)]
                     /\ \A n \in Nodes : \A k \in DOMAIN c[n] : c[n][k] < n

ASSUME DrawnAssumption == Drawn \subseteq [Nodes -> Nat]

VARIABLES
    children, node_id,        \* the plan
    st, seen, order,          \* crateWorkItems
    level, maxLevel, grouped, \* crateWorkItemsParallel
    idx,                      \* the item the loop over linear is at
    dep, curLevel,            \* its loop over dependson
    phase

walkVars  == <<st, seen, order>>
levelVars == <<level, maxLevel, idx, dep, curLevel>>
vars == <<children, node_id, walkVars, levelVars, grouped, phase>>

Frame == [node : Nodes, nextChildIndex : Nat]

Phases == {"walk", "level", "group", "plan", "batches"}

TypeOK ==
    /\ children \in [Nodes -> Seq(Nodes)]
    /\ node_id \in [Nodes -> Nat]
    /\ st \in Seq(Frame)
    /\ seen \subseteq Nodes
    /\ order \in Seq(Nodes)
    /\ DOMAIN level \subseteq Nat /\ level \in [DOMAIN level -> Nat]
    /\ maxLevel \in Nat
    /\ DOMAIN grouped \subseteq Nat /\ grouped \in [DOMAIN grouped -> Seq(Nodes)]
    /\ idx \in 1 .. Len(order) + 1
    /\ dep \in Nat
    /\ curLevel \in Nat
    /\ phase \in Phases

Init ==
    /\ children \in Plans
    /\ node_id \in Drawn
    /\ st = <<[node |-> Root, nextChildIndex |-> 0]>>
    /\ seen = {Root}
    /\ order = <<>>
    /\ level = <<>>
    /\ maxLevel = 0
    /\ grouped = <<>>
    /\ idx = 1
    /\ dep = 0
    /\ curLevel = 0
    /\ phase = "walk"

-----------------------------------------------------------------------------
(* crateWorkItems: the walk *)

Top == st[Len(st)]

\* Fault: a node is marked as seen when it is emitted, not when it is pushed.
VisitChildUnmarked ==
    /\ phase = "walk"
    /\ st # <<>>
    /\ Top.nextChildIndex < Len(children[Top.node])
    /\ LET child    == children[Top.node][Top.nextChildIndex + 1]
           advanced == [st EXCEPT ![Len(st)].nextChildIndex = @ + 1]
       IN  st' = Append(advanced, [node |-> child, nextChildIndex |-> 0])
    /\ UNCHANGED <<children, node_id, seen, order, levelVars, grouped, phase>>

\* Fault: the index of the next child advances only when a child is pushed.
VisitChildStuck ==
    /\ phase = "walk"
    /\ st # <<>>
    /\ Top.nextChildIndex < Len(children[Top.node])
    /\ LET child    == children[Top.node][Top.nextChildIndex + 1]
           advanced == [st EXCEPT ![Len(st)].nextChildIndex = @ + 1]
       IN  IF child \in seen
           THEN UNCHANGED <<st, seen>>
           ELSE /\ st' = Append(advanced, [node |-> child, nextChildIndex |-> 0])
                /\ seen' = seen \cup {child}
    /\ UNCHANGED <<children, node_id, order, levelVars, grouped, phase>>

VisitChild ==
    /\ phase = "walk"
    /\ st # <<>>
    /\ Top.nextChildIndex < Len(children[Top.node])
    /\ LET child    == children[Top.node][Top.nextChildIndex + 1]
           advanced == [st EXCEPT ![Len(st)].nextChildIndex = @ + 1]
       IN  IF child \in seen
           THEN st' = advanced /\ UNCHANGED seen
           ELSE /\ st' = Append(advanced, [node |-> child, nextChildIndex |-> 0])
                /\ seen' = seen \cup {child}
    /\ UNCHANGED <<children, node_id, order, levelVars, grouped, phase>>

\* Fault: a node is listed before its children are.
EmitFirst ==
    /\ phase = "walk"
    /\ st # <<>>
    /\ Top.nextChildIndex = 0
    /\ order' = Append(order, Top.node)
    /\ st' = SubSeq(st, 1, Len(st) - 1)
    /\ UNCHANGED <<children, node_id, seen, levelVars, grouped, phase>>

Emit ==
    /\ phase = "walk"
    /\ st # <<>>
    /\ Top.nextChildIndex = Len(children[Top.node])
    /\ order' = Append(order, Top.node)
    /\ st' = SubSeq(st, 1, Len(st) - 1)
    /\ UNCHANGED <<children, node_id, seen, levelVars, grouped, phase>>

\* The work item of a node, without its payload.
WorkItem(n) ==
    [itemid    |-> node_id[n],
     dependson |-> [k \in DOMAIN children[n] |-> node_id[children[n][k]]]]

linear == [k \in DOMAIN order |-> WorkItem(order[k])]

-----------------------------------------------------------------------------
(* createQueryPlan: the list in its order *)

createQueryPlan ==
    /\ phase = "walk"
    /\ st = <<>>
    /\ phase' = "plan"
    /\ UNCHANGED <<children, node_id, walkVars, levelVars, grouped>>

-----------------------------------------------------------------------------
(* crateWorkItemsParallel *)

StartLevels ==
    /\ phase = "walk"
    /\ st = <<>>
    /\ phase' = "level"
    /\ UNCHANGED <<children, node_id, walkVars, levelVars, grouped>>

\* Fault: an item may share the batch of its dependencies.
DependencySameLevel ==
    /\ phase = "level"
    /\ idx <= Len(order)
    /\ dep < Len(linear[idx].dependson)
    /\ LET depId == linear[idx].dependson[dep + 1]
       IN  curLevel' = IF depId \in DOMAIN level /\ level[depId] > curLevel
                       THEN level[depId] ELSE curLevel
    /\ dep' = dep + 1
    /\ UNCHANGED <<children, node_id, walkVars, level, maxLevel, idx, grouped, phase>>

\* One dependency; an id that has no level yet is passed over.
Dependency ==
    /\ phase = "level"
    /\ idx <= Len(order)
    /\ dep < Len(linear[idx].dependson)
    /\ LET depId == linear[idx].dependson[dep + 1]
       IN  curLevel' = IF depId \in DOMAIN level /\ level[depId] + 1 > curLevel
                       THEN level[depId] + 1 ELSE curLevel
    /\ dep' = dep + 1
    /\ UNCHANGED <<children, node_id, walkVars, level, maxLevel, idx, grouped, phase>>

\* Fault: curLevel is not reset for the next item.
SetLevelNoReset ==
    /\ phase = "level"
    /\ idx <= Len(order)
    /\ dep = Len(linear[idx].dependson)
    /\ LET id == linear[idx].itemid
       IN  level' = [x \in DOMAIN level \cup {id} |-> IF x = id THEN curLevel ELSE level[x]]
    /\ maxLevel' = IF curLevel > maxLevel THEN curLevel ELSE maxLevel
    /\ idx' = idx + 1
    /\ dep' = 0
    /\ UNCHANGED <<children, node_id, walkVars, curLevel, grouped, phase>>

SetLevel ==
    /\ phase = "level"
    /\ idx <= Len(order)
    /\ dep = Len(linear[idx].dependson)
    /\ LET id == linear[idx].itemid
       IN  level' = [x \in DOMAIN level \cup {id} |-> IF x = id THEN curLevel ELSE level[x]]
    /\ maxLevel' = IF curLevel > maxLevel THEN curLevel ELSE maxLevel
    /\ idx' = idx + 1
    /\ dep' = 0
    /\ curLevel' = 0
    /\ UNCHANGED <<children, node_id, walkVars, grouped, phase>>

StartGrouping ==
    /\ phase = "level"
    /\ idx > Len(order)
    /\ grouped' = [l \in 0 .. maxLevel |-> <<>>]
    /\ idx' = 1
    /\ phase' = "group"
    /\ UNCHANGED <<children, node_id, walkVars, level, maxLevel, dep, curLevel>>

\* The batch is looked up by the item's id, in the finished table.
PushBack ==
    /\ phase = "group"
    /\ idx <= Len(order)
    /\ grouped' = [grouped EXCEPT ![level[linear[idx].itemid]] = Append(@, order[idx])]
    /\ idx' = idx + 1
    /\ UNCHANGED <<children, node_id, walkVars, level, maxLevel, dep, curLevel, phase>>

Return ==
    /\ phase = "group"
    /\ idx > Len(order)
    /\ phase' = "batches"
    /\ UNCHANGED <<children, node_id, walkVars, levelVars, grouped>>

-----------------------------------------------------------------------------
Next ==
    \/ VisitChild
    \/ Emit
    \/ createQueryPlan
    \/ StartLevels
    \/ Dependency
    \/ SetLevel
    \/ StartGrouping
    \/ PushBack
    \/ Return

Spec == Init /\ [][Next]_vars

\* A thread that runs: the loops are sequential code.
FairSpec == Spec /\ WF_vars(Next)

-----------------------------------------------------------------------------
(* Properties *)

\* A set of nodes that holds the children of every node it holds.
ClosedDown(S) == \A m \in S : \A k \in DOMAIN children[m] : children[m][k] \in S

\* The nodes on a path from the root, the least such set that holds it: the
\* reference for the walk.
Reachable ==
    {n \in Nodes : \A S \in SUBSET Nodes : Root \in S /\ ClosedDown(S) => n \in S}

Listed(n) == \E k \in DOMAIN order : order[k] = n

\* Children first: at every moment of the walk of crateWorkItems, no node is
\* listed twice, and all children of a listed node are listed before it, also
\* when several parents share a child.
ChildrenFirst ==
    /\ \A j, k \in DOMAIN order : j # k => order[j] # order[k]
    /\ \A k \in DOMAIN order : \A c \in DOMAIN children[order[k]] :
          \E j \in 1 .. k-1 : order[j] = children[order[k]][c]

\* When the stack is empty crateWorkItems has listed the nodes reachable from
\* the root and no others.
WalkComplete == st = <<>> => {n \in Nodes : Listed(n)} = Reachable

BatchOf(n, l) == \E k \in DOMAIN grouped[l] : grouped[l][k] = n

\* Every dependency of an item is in an earlier batch than the item: what
\* crateWorkItemsParallel promises to the batch barrier of QueryManager.
DependenciesEarlier ==
    phase \in {"group", "batches"} =>
        \A l \in DOMAIN grouped : \A n \in Nodes : BatchOf(n, l) =>
            \A c \in DOMAIN children[n] :
                \A m \in DOMAIN grouped : BatchOf(children[n][c], m) => m < l

\* The batches returned are a partition of the listed items with no batch
\* empty (an empty batch would make the wait of sendQueryPlanParallel return
\* at once), and each item is as early as its dependencies allow: all of them
\* are in earlier batches and, unless it is in the first, one of them is in
\* the batch before.
BatchesExact ==
    phase = "batches" =>
        /\ \A l \in DOMAIN grouped : grouped[l] # <<>>
        /\ \A n \in Nodes : Listed(n) <=> \E l \in DOMAIN grouped : BatchOf(n, l)
        /\ \A l \in DOMAIN grouped : \A n \in Nodes : BatchOf(n, l) =>
              /\ \A c \in DOMAIN children[n] :
                    \E m \in DOMAIN grouped : m < l /\ BatchOf(children[n][c], m)
              /\ l > 0 => \E c \in DOMAIN children[n] : BatchOf(children[n][c], l - 1)
        /\ \A l \in DOMAIN grouped : \A j, k \in DOMAIN grouped[l] :
              j # k => grouped[l][j] # grouped[l][k]

\* The walk and the loops end on every plan, whatever it shares.
Terminates == <>(phase \in {"plan", "batches"})

=============================================================================
