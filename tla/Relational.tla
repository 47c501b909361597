----------------------------- MODULE Relational -----------------------------
(***************************************************************************)
(* The reference of the query compiler: what a SELECT statement asks for,  *)
(* and what a logical plan computes, over one small database.              *)
(*                                                                         *)
(* An answer is given per unit.  A unit is a set of joined rows: one row   *)
(* where nothing is grouped, all rows of a group otherwise.  Joined rows   *)
(* are functions from the names in FROM to row numbers, so that rows with  *)
(* equal values are told apart and a duplicate cannot go unnoticed.        *)
(***************************************************************************)
EXTENDS Syntax, Integers, Sequences, FiniteSets, FiniteSetsExt, SequencesExt, TLC

CONSTANTS Data,    \* Data[table] is the sequence of its rows, a row gives
                   \* each column name its value
          IntRange \* how many values an int has: 2^32 in the build, a few
                   \* for TLC, whose own integers are no wider

Null == [op |-> "NULL", kids |-> <<>>]

-----------------------------------------------------------------------------
Compare(o, x, y) ==
  CASE o = "EQ" -> x = y
    [] o = "NE" -> x # y
    [] o = "LT" -> x < y
    [] o = "LE" -> x <= y
    [] o = "GT" -> x > y
    [] o = "GE" -> x >= y
    [] o = "LIKE" -> x = y          \* patterns without wildcards

Fold(f, v) ==
  CASE f = "LOWER" -> (IF v = "A" THEN "a" ELSE v)
    [] f = "UPPER" -> (IF v = "a" THEN "A" ELSE v)
    [] OTHER -> v

Arith(o, x, y) == IF o = "MUL" THEN x * y ELSE x - y

\* The value of an aggregate over the values f(t), t in u; none for the
\* aggregates that an empty set has not.
Aggregate(func, f(_), u) ==
  CASE func = "COUNT" -> <<Cardinality(u)>>
    [] func = "SUM" -> <<MapThenSumSet(f, u)>>
    [] u = {} -> <<>>
    [] func = "MIN" -> <<Min({f(t) : t \in u})>>
    [] func = "MAX" -> <<Max({f(t) : t \in u})>>
    [] func = "AVG" -> <<MapThenSumSet(f, u), Cardinality(u)>>

Partition(rows, key(_)) ==
  {{t \in rows : key(t) = k} : k \in {key(t) : t \in rows}}

-----------------------------------------------------------------------------
(* The meaning of a statement.  A statement has the tables in `from' with  *)
(* the names it uses for them, `where' (TRUE if absent), `items', `group', *)
(* `order', `limit' and `json', the external join order.                   *)
TableName(f) == IF f.alias = "" THEN f.table ELSE f.alias

From(q) == [t \in {TableName(q.from[i]) : i \in DOMAIN q.from} |->
              (CHOOSE f \in ToSet(q.from) : TableName(f) = t).table]

Tuples(from) ==
  {t \in [DOMAIN from -> 1 .. Max({Len(Data[b]) : b \in DOMAIN Data})] :
     \A a \in DOMAIN from : t[a] <= Len(Data[from[a]])}

\* An unqualified column belongs to the one table of FROM that has it.
Owner(from, e) ==
  IF e.tab # "" THEN e.tab
  ELSE CHOOSE a \in DOMAIN from : e.name \in DOMAIN Data[from[a]][1]

Cell(from, t, tab, name) == Data[from[tab]][t[tab]][name]

RECURSIVE Eval(_, _, _)
Eval(from, t, e) ==
  CASE e.k = "lit" -> e.val
    [] e.k = "col" -> Cell(from, t, Owner(from, e), e.name)
    [] e.k = "fn" -> Fold(e.f, Eval(from, t, e.arg))
    [] e.k = "between" -> LET v == Eval(from, t, e.arg)
                          IN e.lo <= v /\ v <= e.hi
    [] e.k = "in" -> Contains(Literals(e.vals), Eval(from, t, e.arg))
    [] e.op = "AND" -> Eval(from, t, e.l) /\ Eval(from, t, e.r)
    [] e.op = "OR" -> Eval(from, t, e.l) \/ Eval(from, t, e.r)
    [] e.op \in {"MUL", "SUB"} ->
         Arith(e.op, Eval(from, t, e.l), Eval(from, t, e.r))
    [] OTHER -> Compare(e.op, Eval(from, t, e.l), Eval(from, t, e.r))

\* Every column of e belongs to a table of FROM.
RECURSIVE Bound(_, _)
Bound(from, e) ==
  CASE e.k = "col" -> IF e.tab # "" THEN e.tab \in DOMAIN from
                      ELSE \E a \in DOMAIN from : e.name \in DOMAIN Data[from[a]][1]
    [] e.k = "op" -> Bound(from, e.l) /\ Bound(from, e.r)
    [] e.k \in {"fn", "between", "in", "agg"} -> Bound(from, e.arg)
    [] OTHER -> TRUE

Conditions(q) == IF q.where = <<>> THEN {} ELSE {q.where[1]}

Selected(q) ==
  {t \in Tuples(From(q)) : \A e \in Conditions(q) : Eval(From(q), t, e)}

Aggregates(q) == SelectSeq(q.items, LAMBDA e : e.k = "agg")

IsGrouped(q) == q.group # <<>> \/ Aggregates(q) # <<>>

\* GROUP BY without an aggregate counts the rows of each group: the
\* documented addition of ensureDefaultAggregate.
Items(q) ==
  IF q.group # <<>> /\ Aggregates(q) = <<>>
  THEN Append(q.items, Agg("COUNT", Star, "agg")) ELSE q.items

Units(q) ==
  CASE ~IsGrouped(q) -> {{t} : t \in Selected(q)}
    [] q.group = <<>> -> {Selected(q)}
    [] OTHER -> Partition(Selected(q), LAMBDA t :
                  [i \in DOMAIN q.group |-> Eval(From(q), t, q.group[i])])

UnitValue(q, u, e) ==
  IF e.k = "agg"
  THEN Aggregate(e.f, LAMBDA t : IF e.arg.k = "star" THEN 1
                                 ELSE Eval(From(q), t, e.arg), u)
  ELSE <<Eval(From(q), CHOOSE t \in u : TRUE, e)>>

\* A name in ORDER BY may be the alias of an aggregate.
OrderItem(q, e) ==
  IF e.k = "col" /\ \E i \in DOMAIN q.items : q.items[i].k = "agg"
                                           /\ q.items[i].as = e.name
  THEN CHOOSE a \in ToSet(Aggregates(q)) : a.as = e.name ELSE e

Meaning(q) ==
  [out |-> [u \in Units(q) |->
              [i \in DOMAIN Items(q) |-> UnitValue(q, u, Items(q)[i])]],
   key |-> [u \in Units(q) |->
              [i \in DOMAIN q.order |->
                 <<UnitValue(q, u, OrderItem(q, q.order[i].e)), q.order[i].asc>>]],
   limit |-> [count |-> Literals(q.limit.count), offset |-> Literals(q.limit.offset)]]

-----------------------------------------------------------------------------
(* The meaning of a logical plan.  A column is <<table, name>>.            *)

\* The condition p on a value, and on a second one if p compares columns.
Test(p, x, ys) ==
  CASE ys # <<>> -> Compare(p.cmp, x, ys[1])
    [] p.cmp = "IN" -> Contains(p.vals, x)
    [] p.cmp = "BETWEEN" -> p.vals[1] <= x /\ x <= p.vals[2]
    [] OTHER -> Compare(p.cmp, Fold(p.str, x), p.vals[1])

Holds(from, p, t) ==
  LET cells == [i \in DOMAIN p.cols |-> Cell(from, t, p.cols[i][1], p.cols[i][2])]
  IN Test(p, cells[1], Tail(cells))

RECURSIVE Tables(_)
Tables(n) == IF n.op = "SCAN" THEN {n.tab}
             ELSE UNION {Tables(n.kids[i]) : i \in DOMAIN n.kids}

\* Every column a node uses is of a table below it, and no child is missing.
RECURSIVE WellBound(_)
WellBound(n) ==
  /\ n.op # "NULL"
  /\ n.op \in {"FILTER", "JOIN", "MAP"} =>
       \A i \in DOMAIN n.cols : n.cols[i][1] \in Tables(n)
  /\ \A i \in DOMAIN n.kids : WellBound(n.kids[i])

RECURSIVE Rows(_, _)
Rows(from, n) ==
  CASE n.op = "SCAN" -> [{n.tab} -> 1 .. Len(Data[from[n.tab]])]
    [] n.op = "FILTER" -> {t \in Rows(from, n.kids[1]) : Holds(from, n, t)}
    [] n.op = "SETOP" -> UNION {Rows(from, n.kids[i]) : i \in DOMAIN n.kids}
    [] n.op = "JOIN" ->
         LET l == Rows(from, n.kids[1])
             r == Rows(from, n.kids[2])
         IN {t \in {a @@ b : a \in l, b \in r} :
               Holds(from, [cols |-> n.cols, cmp |-> "EQ"], t)}
    [] OTHER -> Rows(from, n.kids[1])

PlanValue(from, agg, u, c) ==
  LET named == SelectSeq(agg.specs, LAMBDA s : s.name = c[2])
      spec == named[1]
      map == agg.kids[1]
      Input(t) == IF spec.star THEN 1
                  ELSE IF spec.col # <<>>
                  THEN Cell(from, t, spec.col[1][1], spec.col[1][2])
                  ELSE Arith(map.arith,
                             Cell(from, t, map.cols[1][1], map.cols[1][2]),
                             Cell(from, t, map.cols[2][1], map.cols[2][2]))
  IN IF c[1] = "" /\ named # <<>>
     THEN Aggregate(spec.func, Input, u)
     ELSE <<Cell(from, CHOOSE t \in u : TRUE, c[1], c[2])>>

PlanMeaning(from, root) ==
  LET sort == IF root.op = "SORT" THEN root ELSE [cols |-> <<>>, dirs |-> <<>>]
      proj == IF root.op = "SORT" THEN root.kids[1] ELSE root
      below == proj.kids[1]
      agg == IF below.op = "AGG" THEN below
             ELSE [cols |-> <<>>, specs |-> <<>>, kids |-> <<Null>>]
      rows == Rows(from, below)
      units == CASE below.op # "AGG" -> {{t} : t \in rows}
                 [] agg.cols = <<>> -> {rows}
                 [] OTHER -> Partition(rows, LAMBDA t :
                      [i \in DOMAIN agg.cols |->
                         Cell(from, t, agg.cols[i][1], agg.cols[i][2])])
  IN [out |-> [u \in units |-> [i \in DOMAIN proj.cols |->
                 PlanValue(from, agg, u, proj.cols[i])]],
      key |-> [u \in units |-> [i \in DOMAIN sort.cols |->
                 <<PlanValue(from, agg, u, sort.cols[i]), sort.dirs[i]>>]],
      limit |-> root.limit]
=============================================================================
