---------------------------- MODULE ItemPayloads ----------------------------
(***************************************************************************)
(* What a work item carries of its physical node: the switch over the node *)
(* type in crateWorkItems (include/Translator.hpp).  An item is written as *)
(* the node that a compute unit makes of it; from gives the aliases of the *)
(* statement their tables.  The walk, the dependencies and the levels are  *)
(* in WorkItems.                                                           *)
(***************************************************************************)
EXTENDS Executor

\* An item knows no alias: it names the base table.
columnToProto(from, c) == <<IF c[1] \in DOMAIN from THEN from[c[1]] ELSE c[1], c[2]>>

All(from, cols) == [i \in DOMAIN cols |-> columnToProto(from, cols[i])]

\* The first k columns.
Columns(from, cols, k) == All(from, SubSeq(cols, 1, IF k < Len(cols) THEN k ELSE Len(cols)))

\* Fields no item of the kind has.
Empty(n) == [n EXCEPT !.in = <<>>, !.index = <<>>, !.agg = <<>>, !.cluster = <<>>]

\* A column is compared with a column, or with values.
FilterItem(from, n) ==
  [Empty(n) EXCEPT !.in = Columns(from, n.in, 2),
                   !.expr.vals = IF Len(n.in) >= 2 THEN <<>> ELSE @,
                   !.expr.str = IF Len(n.in) >= 2 THEN "" ELSE @]

\* One output name, and a flag for each list when only one is kept.
JoinItem(from, n) ==
  LET produceInner == Len(n.out) = 2 \/ n.out[1] = n.sides[1]
      produceOuter == Len(n.out) = 2 \/ n.out[1] # n.sides[1]
  IN [Empty(n) EXCEPT !.in = Columns(from, n.in, 2),
                      !.out = (IF produceInner THEN <<n.sides[1]>> ELSE <<>>)
                              \o (IF produceOuter THEN <<n.sides[2]>> ELSE <<>>)]

AggItem(from, n) == [Empty(n) EXCEPT !.in = Columns(from, n.in, 1)]

SetOperationItem(from, n) == [Empty(n) EXCEPT !.in = Columns(from, n.in, 2)]

SortItem(from, n) == [Empty(n) EXCEPT !.in = All(from, n.in)]

MapItem(from, n) == [Empty(n) EXCEPT !.in = Columns(from, n.in, 2)]

\* The names of index and clusters are those of the first result column,
\* extended.  The item has no field for the function of the aggregate: it
\* stands for a sum.  An aggregation column that was never set reads as empty
\* (if the read does not crash, see crateWorkItems).
MultiGroupItem(from, n) ==
  [Empty(n) EXCEPT !.in = All(from, n.in),
                   !.agg = IF n.agg = <<>> THEN <<<<"", "">>>> ELSE All(from, n.agg),
                   !.out = Columns(from, n.out, 1),
                   !.expr = [specs |-> <<[func |-> "SUM"]>>]]

\* Fault: index and column change places.
MaterializeItemSwapped(from, n) ==
  [Empty(n) EXCEPT !.in = All(from, n.index),
                   !.index = Columns(from, n.in, 1)]

MaterializeItem(from, n) == [Empty(n) EXCEPT !.in = Columns(from, n.in, 1), !.index = All(from, n.index)]

\* static_cast<uint32_t> of an int.
CastUint32(v) == v % IntRange

CastLimit(l) == [count |-> [i \in DOMAIN l.count |-> CastUint32(l.count[i])],
                 offset |-> [i \in DOMAIN l.offset |-> CastUint32(l.offset[i])]]

\* A column has the base table that handleProjection noted, if it did.
ResultItem(from, n) ==
  LET Name(i) == IF n.expr.base[i] # "" THEN <<n.expr.base[i], n.in[i][2]>>
                 ELSE columnToProto(from, n.in[i])
  IN [Empty(n) EXCEPT !.in = [i \in DOMAIN n.in |-> Name(i)],
                      !.expr = [limit |-> CastLimit(@.limit)]]

payload(from, n) ==
  CASE n.op = "FILTER" -> FilterItem(from, n)
    [] n.op = "HASHJOIN" -> JoinItem(from, n)
    [] n.op = "AGGREGATE" -> AggItem(from, n)
    [] n.op = "SETOPERATION" -> SetOperationItem(from, n)
    [] n.op = "SORT" -> SortItem(from, n)
    [] n.op = "MAP" -> MapItem(from, n)
    [] n.op = "GROUPBY" -> MultiGroupItem(from, n)
    [] n.op = "MATERIALIZE" -> MaterializeItem(from, n)
    [] n.op = "RESULT" -> ResultItem(from, n)
=============================================================================
