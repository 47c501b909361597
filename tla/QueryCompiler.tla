---------------------------- MODULE QueryCompiler ----------------------------
(***************************************************************************)
(* From a SELECT statement to work items: the translator, the physical     *)
(* optimizer and crateWorkItems, one after the other as processQuery calls *)
(* them.                                                                   *)
(***************************************************************************)
EXTENDS SelectPlanBuilder, PhysicalOptimizer, ItemPayloads

VARIABLE items      \* the payloads of the work items, by node

compilerVars == <<vars, optVars, items>>

CompilerInit == Init /\ OptimizerInit /\ items = <<>>

Translate == buildPlanForSelect /\ UNCHANGED <<optVars, items>>

StartOptimizer ==
  /\ phase = "done"
  /\ ConvertToPhys(From(query), root)
  /\ UNCHANGED <<vars, items>>

Optimize == transformNode /\ UNCHANGED <<vars, items>>

\* base_columns[0] of an empty vector is read: the process crashes.
NoInput(n) == n.op = "AGGREGATE" /\ n.in = <<>>

\* An optional that was never set is read: a crash, or an empty column.
NoAggregationColumn(n) == n.op = "GROUPBY" /\ n.agg = <<>>

\* Without a physical plan processQuery throws.
crateWorkItems ==
  /\ status = "done" /\ physical_plan # 0
  /\ items = <<>>
  /\ LET used == Reachable(context.nodes, physical_plan)
         Node1(i) == context.nodes[i]
     IN \/ /\ \A i \in used : ~NoInput(Node1(i))
           /\ items' = [i \in used |-> payload(logical.from, Node1(i))]
           /\ UNCHANGED status
        \/ /\ \E i \in used : NoInput(Node1(i)) \/ NoAggregationColumn(Node1(i))
           /\ status' = "crashed"
           /\ UNCHANGED items
  /\ UNCHANGED <<vars, logical, optimize_chains, optimize_join_outputs, todo, results,
                 context, physical_plan>>

processQuery == Translate \/ StartOptimizer \/ Optimize \/ crateWorkItems

CompilerSpec == CompilerInit /\ [][processQuery]_compilerVars

-----------------------------------------------------------------------------
\* The nodes of the plan, or the items made of them, in the order of the nodes.
Executed(from, nodes) ==
  LET used == Reachable(context.nodes, physical_plan)
      order == SelectSeq([i \in DOMAIN context.nodes |-> i], LAMBDA i : i \in used)
  IN Run(from, [k \in DOMAIN order |-> nodes[order[k]]])

\* The projection of a GROUP BY with several aggregates names columns that no
\* node of the plan produces; AggregatesComputed covers these statements.
SeveralPerGroup(q) == q.group # <<>> /\ Len(Aggregates(q)) > 1

(* A plan that was built correctly is converted without an exception, but  *)
(* for one that asks for no column at all; and the compute units, running  *)
(* the nodes of the plan, find the answer to the statement, in the order   *)
(* and with the limit it asks for.                                         *)
ResultCorrect ==
  /\ status = "failed" => ~WellBound(logical.root) \/ context.projected = <<>>
  /\ status = "done" /\ context.projected # <<>> /\ ~SeveralPerGroup(query) =>
       LET result == context.nodes[physical_plan]
       IN /\ Answers(ResultRows(Executed(logical.from, context.nodes), result), Meaning(query))
          /\ result.expr.limit = Meaning(query).limit

\* The column of aggregates a node leaves behind; a GROUPBY that is followed
\* by a node for each aggregate has none.
AggregateColumns(n) ==
  CASE n.op = "AGGREGATE" -> ToSet(n.out)
    [] n.op = "GROUPBY" /\ Len(n.out) = 1 -> {<<n.out[1][1], n.out[1][2] \o "_agg">>}
    [] OTHER -> {}

(* Each aggregate of a GROUP BY is computed by one node of the plan, for   *)
(* every group, in the order of the keys, however many aggregates there    *)
(* are.                                                                    *)
AggregatesComputed ==
  status = "done" /\ query.group # <<>> =>
    LET env == Executed(logical.from, context.nodes)
        aggs == Aggregates(query)
        Key(u) == [i \in DOMAIN query.group |-> UnitValue(query, u, query.group[i])]
        units == SetToSortSeq(Units(query), LAMBDA u, v :
                   Precedes([i \in DOMAIN query.group |-> TRUE], Key(u), Key(v)))
        Values(a) == [k \in DOMAIN units |-> UnitValue(query, units[k], a)]
    IN \A a \in ToSet(aggs) : \E i \in Reachable(context.nodes, physical_plan) :
         \E c \in AggregateColumns(context.nodes[i]) : c \in DOMAIN env /\ env[c] = Values(a)

\* Items name base tables, so these are the tables their units read.
OwnNames == [t \in {logical.from[a] : a \in DOMAIN logical.from} |-> t]

(* The compute units, given the work items and nothing else of the plan,   *)
(* find the answer to a statement without ORDER BY (the order of the       *)
(* result is not part of an item), and the items carry its limit.          *)
ItemsCorrect ==
  items # <<>> /\ context.projected # <<>> /\ query.order = <<>> /\ ~SeveralPerGroup(query) =>
    /\ Answers(ResultRows(Executed(OwnNames, items), items[physical_plan]), Meaning(query))
    /\ items[physical_plan].expr.limit = Meaning(query).limit
=============================================================================
