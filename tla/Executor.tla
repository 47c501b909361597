------------------------------ MODULE Executor ------------------------------
(***************************************************************************)
(* What the compute units make of a physical plan.  The units are not part *)
(* of this repository: their operators are taken from the columns that the *)
(* optimizer gives to each node and from those it expects a node to leave  *)
(* behind.                                                                 *)
(*                                                                         *)
(* A column holds a sequence of values, each in a tuple of its own: the    *)
(* values of a base table, positions, or results.  An operator whose input *)
(* is missing, too short or of the wrong length leaves nothing.            *)
(***************************************************************************)
EXTENDS Relational

NoColumns == <<>>

BaseColumns(from) ==
  UNION {{<<t, c>> : c \in DOMAIN Data[from[t]][1]} : t \in DOMAIN from}

BaseTables(from) ==
  [c \in BaseColumns(from) |->
     [r \in DOMAIN Data[from[c[1]]] |-> <<Data[from[c[1]]][r][c[2]]>>]]

Positions(n, Test1(_)) ==
  LET hits == SelectSeq([i \in 1 .. n |-> i], Test1)
  IN [k \in DOMAIN hits |-> <<hits[k]>>]

Gather(column, positions) == [i \in DOMAIN positions |-> column[positions[i][1]]]

InRange(column, positions) ==
  \A i \in DOMAIN positions : positions[i][1] \in DOMAIN column

\* Tuples of values, compared from the left, ascending where dirs says so.
Precedes(dirs, a, b) ==
  \E i \in DOMAIN a : /\ a[i] # b[i]
                      /\ \A j \in 1 .. i - 1 : a[j] = b[j]
                      /\ IF dirs[i] THEN a[i][1] < b[i][1] ELSE a[i][1] > b[i][1]

Reduce(func, column, members) ==
  Aggregate(func, LAMBDA i : column[i][1], members)

-----------------------------------------------------------------------------
(* The operators.  cs are the input columns of the node, ix and cl its     *)
(* index and cluster columns; the answer gives columns their contents.     *)
Row(cs, i) == [k \in DOMAIN cs |-> cs[k][i]]

SameLength(cs) == \A k \in DOMAIN cs : Len(cs[k]) = Len(cs[1])

RunFilter(n, cs) ==
  n.out[1] :> Positions(Len(cs[1]), LAMBDA i :
                Test(n.expr, cs[1][i][1], [k \in 1 .. Len(cs) - 1 |-> cs[k + 1][i][1]]))

RunMaterialize(n, cs, ix) ==
  IF InRange(cs[1], ix) THEN n.out[1] :> Gather(cs[1], ix) ELSE NoColumns

\* The pairs of matching positions, in one order for both sides.
RunHashJoin(n, cs) ==
  LET Partners(o) == SelectSeq([i \in DOMAIN cs[1] |-> <<i, o>>],
                               LAMBDA p : cs[1][p[1]] = cs[2][o])
      pairs == FlattenSeq([o \in DOMAIN cs[2] |-> Partners(o)])
      Side(s) == [k \in DOMAIN pairs |-> <<pairs[k][s]>>]
      inner == {c \in ToSet(n.out) : c = n.sides[1]}
      outer == {c \in ToSet(n.out) : c = n.sides[2]}
  IN [c \in inner |-> Side(1)] @@ [c \in outer |-> Side(2)]

RunSetOperation(n, cs) ==
  LET sets == [k \in DOMAIN cs |-> ToSet(cs[k])]
      all == UNION ToSet(sets)
      kept == IF n.expr.rel = "UNION" THEN all
              ELSE {p \in all : \A k \in DOMAIN sets : p \in sets[k]}
  IN n.out[1] :> SetToSortSeq(kept, LAMBDA p, q : p[1] < q[1])

RunMap(n, cs) ==
  n.out[1] :> [i \in DOMAIN cs[1] |-> <<Arith(n.expr.arith, cs[1][i][1], cs[2][i][1])>>]

\* Over all rows, or over the clusters of an index.
RunAggregate(n, cs, ix, cl) ==
  LET Start(k) == MapThenSumSet(LAMBDA j : cl[j][1], 1 .. k - 1)
      Members(k) == {ix[i][1] : i \in Start(k) + 1 .. Start(k) + cl[k][1]}
      func == n.expr.specs[1].func
  IN n.out[1] :> IF n.cluster = <<>> THEN <<Reduce(func, cs[1], DOMAIN cs[1])>>
                 ELSE [k \in DOMAIN cl |-> Reduce(func, cs[1], Members(k))]

\* Groups come in the order of their keys.  The index lists the rows group
\* by group, its extents the first row of each, the clusters their sizes.
RunGroupBy(n, cs, ag) ==
  LET asc == [k \in DOMAIN cs |-> TRUE]
      keys == SetToSortSeq({Row(cs, i) : i \in DOMAIN cs[1]},
                           LAMBDA a, b : Precedes(asc, a, b))
      Members(k) == {i \in DOMAIN cs[1] : Row(cs, i) = keys[k]}
      name == n.out[1]
      Column(suffix) == <<name[1], name[2] \o suffix>>
      idx == FlattenSeq([k \in DOMAIN keys |->
                Positions(Len(cs[1]), LAMBDA i : i \in Members(k))])
      cluster == [k \in DOMAIN keys |-> <<Cardinality(Members(k))>>]
  IN IF Len(n.out) = 2 THEN n.out[1] :> idx @@ n.out[2] :> cluster
     ELSE Column("_idx") :> idx @@ Column("_cluster") :> cluster
          @@ Column("_idx_ext") :> [k \in DOMAIN keys |-> <<Min(Members(k))>>]
          @@ Column("_agg") :> [k \in DOMAIN keys |->
               Reduce(n.expr.specs[1].func, ag[1], Members(k))]

RunSort(n, cs) ==
  LET Before(i, j) ==
        \/ Precedes(n.expr.dirs, Row(cs, i), Row(cs, j))
        \/ ~Precedes(n.expr.dirs, Row(cs, j), Row(cs, i)) /\ i < j
      order == SortSeq([i \in DOMAIN cs[1] |-> i], Before)
  IN n.out[1] :> [k \in DOMAIN order |-> <<order[k]>>]

RunNode(n, env) ==
  LET Get(cols) == [k \in DOMAIN cols |-> env[cols[k]]]
      cs == Get(n.in)
      ix == IF n.index = <<>> THEN <<>> ELSE env[n.index[1]]
      cl == IF n.cluster = <<>> THEN <<>> ELSE env[n.cluster[1]]
  IN CASE \E c \in ToSet(n.in \o n.index \o n.cluster \o n.agg) :
             c \notin DOMAIN env -> NoColumns
       [] n.op \in {"FILTER", "MAP", "SORT", "GROUPBY"} /\ ~SameLength(cs \o Get(n.agg)) ->
            NoColumns
       [] n.op = "FILTER" -> RunFilter(n, cs)
       [] n.op = "MATERIALIZE" -> RunMaterialize(n, cs, ix)
       [] n.op = "HASHJOIN" -> RunHashJoin(n, cs)
       [] n.op = "SETOPERATION" -> RunSetOperation(n, cs)
       [] n.op = "MAP" -> RunMap(n, cs)
       [] n.op = "AGGREGATE" /\ cs # <<>> -> RunAggregate(n, cs, ix, cl)
       [] n.op = "GROUPBY" -> RunGroupBy(n, cs, Get(n.agg))
       [] n.op = "SORT" -> RunSort(n, cs)
       [] OTHER -> NoColumns

\* The contents of all columns after the nodes of a sequence have run.
Run(from, nodes) ==
  FoldLeft(LAMBDA env, n : RunNode(n, env) @@ env, BaseTables(from), nodes)

Broken == <<NoColumns>>    \* equal to no answer of a statement

\* The rows of the RESULT node.
ResultRows(env, n) ==
  LET cs == [k \in DOMAIN n.in |-> env[n.in[k]]]
      ix == env[n.index[1]]
      rows == [i \in DOMAIN cs[1] |-> Row(cs, i)]
  IN IF \E c \in ToSet(n.in \o n.index) : c \notin DOMAIN env THEN Broken
     ELSE IF ~SameLength(cs) THEN Broken
     ELSE IF n.index = <<>> THEN rows
     ELSE IF InRange(rows, ix) THEN Gather(rows, ix) ELSE Broken

-----------------------------------------------------------------------------
(* The answer to a statement: its rows in an order its sort keys allow.    *)
Answers(rows, m) ==
  LET units == DOMAIN m.out
      Key(u) == [i \in DOMAIN m.key[u] |-> m.key[u][i][1]]
      Earlier(u, v) == Precedes([i \in DOMAIN m.key[v] |-> m.key[v][i][2]], Key(u), Key(v))
      Ties(u) == {v \in units : Key(v) = Key(u)}
      First(u) == Cardinality({v \in units : Earlier(v, u)})
      Slice(u) == First(u) + 1 .. First(u) + Cardinality(Ties(u))
  IN /\ Len(rows) = Cardinality(units)
     /\ \A u \in units :
          Cardinality({i \in Slice(u) : rows[i] = m.out[u]})
            = Cardinality({v \in Ties(u) : m.out[v] = m.out[u]})
=============================================================================
