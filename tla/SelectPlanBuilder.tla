-------------------------- MODULE SelectPlanBuilder --------------------------
(***************************************************************************)
(* The translation of a SELECT statement into a logical plan               *)
(* (src/SQLToLogicalPlanTranslator/): the WHERE clause is split into join  *)
(* and selection predicates, the joins are put together by a disjoint-set  *)
(* forest or in an external order, the selections are pushed down, and the *)
(* output operators are stacked on top.                                    *)
(*                                                                         *)
(* Table and column names are written in lower case throughout, so the     *)
(* case-insensitive comparisons of the code are equalities here.  A column *)
(* is <<table or alias, name>>; its base table follows from FROM.          *)
(***************************************************************************)
EXTENDS Relational

CONSTANTS Queries,      \* statements to translate
          Prefix        \* Prefix[column name]: its prefix up to the first _

VARIABLES query,        \* the statement
          phase,        \* where buildPlanForSelect is
          conjuncts,    \* conjuncts of WHERE not looked at yet
          joinPreds, selectionPreds,   \* PredicateGroups
          dsu, tree,    \* locals of buildJoinTree
          extra,        \* extraJoinFilters
          root          \* the plan so far

vars == <<query, phase, conjuncts, joinPreds, selectionPreds, dsu, tree, extra, root>>

-----------------------------------------------------------------------------
(* Names (SchemaResolver.cpp).  The types it resolves decide nothing here. *)
kPrefixToTable ==
  [lo |-> "lineorder", d |-> "dates", c |-> "customer", s |-> "supplier",
   p |-> "part", chn |-> "char_name", ci |-> "cast_info", cn |-> "company_name",
   ct |-> "company_type", mc |-> "movie_companies", rt |-> "role_type", t |-> "title"]

resolveTableName(c) ==
  IF c[1] # "" THEN c[1]
  ELSE IF c[2] \in DOMAIN Prefix /\ Prefix[c[2]] \in DOMAIN kPrefixToTable
  THEN kPrefixToTable[Prefix[c[2]]] ELSE ""

unwrapSimpleFunction(e) == IF e.k = "fn" THEN e.arg ELSE e

toColumnFromExpr(e) ==
  LET c == unwrapSimpleFunction(e)
  IN IF c.k # "col" THEN <<"", "">>
     ELSE <<resolveTableName(<<c.tab, c.name>>), c.name>>

-----------------------------------------------------------------------------
(* Predicates (PredicateBuilder.cpp).                                      *)
Filter(cmp, str, cols, vals) ==
  [op |-> "FILTER", cmp |-> cmp, str |-> str, cols |-> cols, vals |-> vals,
   kids |-> <<>>]

Throw == [op |-> "THROW", kids |-> <<>>]

RECURSIVE splitConjuncts(_)
splitConjuncts(e) ==
  IF e.k = "op" /\ e.op = "AND" THEN splitConjuncts(e.l) \o splitConjuncts(e.r)
  ELSE <<e>>

RECURSIVE Disjuncts(_)
Disjuncts(e) ==
  IF e.k = "op" /\ e.op = "OR" THEN Disjuncts(e.l) \o Disjuncts(e.r) ELSE <<e>>

\* The column side of a comparison is its left operand if that is a column.
ColumnSide(e) == LET l == unwrapSimpleFunction(e.l)
                 IN IF l.k = "col" THEN l ELSE unwrapSimpleFunction(e.r)
OtherSide(e) == LET l == unwrapSimpleFunction(e.l)
                IN IF l.k = "col" THEN unwrapSimpleFunction(e.r) ELSE l

\* The disjuncts compare one column with literals.
collectOrEqualsSameColumn(e) ==
  LET ds == Disjuncts(e)
  IN /\ \A i \in DOMAIN ds : /\ ds[i].k = "op" /\ ds[i].op = "EQ"
                             /\ ColumnSide(ds[i]).k = "col"
                             /\ OtherSide(ds[i]).k = "lit"
     /\ \A i \in DOMAIN ds :
          toColumnFromExpr(ColumnSide(ds[i])) = toColumnFromExpr(ColumnSide(ds[1]))

RECURSIVE collectUnionLeaves(_)
collectUnionLeaves(n) ==
  IF n.op = "SETOP"
  THEN FlattenSeq([i \in DOMAIN n.kids |-> collectUnionLeaves(n.kids[i])])
  ELSE <<n>>

allLeavesSameTable(leaves) ==
  /\ \A i \in DOMAIN leaves : leaves[i].op = "FILTER"
  /\ resolveTableName(leaves[1].cols[1]) # ""
  /\ \A i \in DOMAIN leaves :
       resolveTableName(leaves[i].cols[1]) = resolveTableName(leaves[1].cols[1])

buildComparisonPredicate(e) ==
  LET fns == {x \in {e.l, e.r} : x.k = "fn"}
      ops == {x.f : x \in fns}
      str == IF e.op = "LIKE" /\ Cardinality(ops) = 1 THEN CHOOSE f \in ops : TRUE ELSE ""
      col == toColumnFromExpr(ColumnSide(e))
      other == OtherSide(e)
  IN IF ColumnSide(e).k # "col" THEN Throw
     ELSE IF other.k = "col" THEN Filter(e.op, str, <<col, toColumnFromExpr(other)>>, <<>>)
     ELSE Filter(e.op, str, <<col>>, IF other.k = "lit" THEN <<other.val>> ELSE <<>>)

\* Only a column in a list of literals, which is not empty.
buildInPredicate(e) ==
  IF unwrapSimpleFunction(e.arg).k # "col" \/ e.vals = <<>> THEN Throw
  ELSE IF \E i \in DOMAIN e.vals : e.vals[i].k # "lit" THEN Throw
  ELSE Filter("IN", "", <<toColumnFromExpr(e.arg)>>, Literals(e.vals))

OrLiterals(e) == [i \in DOMAIN Disjuncts(e) |-> OtherSide(Disjuncts(e)[i]).val]

RECURSIVE buildPredicateNode(_)
buildPredicateNode(e) ==
  CASE e.k = "in" -> buildInPredicate(e)
    [] e.k = "between" ->
         Filter("BETWEEN", "", <<toColumnFromExpr(e.arg)>>, <<e.lo, e.hi>>)
    [] e.k = "op" /\ e.op = "OR" ->
         IF collectOrEqualsSameColumn(e)
         THEN Filter("IN", "", <<toColumnFromExpr(ColumnSide(Disjuncts(e)[1]))>>,
                     OrLiterals(e))
         ELSE LET leaves == collectUnionLeaves(buildPredicateNode(e.l))
                              \o collectUnionLeaves(buildPredicateNode(e.r))
              IN IF allLeavesSameTable(leaves)
                 THEN [op |-> "SETOP", kids |-> leaves] ELSE Throw
    [] e.k = "op" /\ e.op = "EQ" /\ unwrapSimpleFunction(e.l).k = "col"
                                 /\ unwrapSimpleFunction(e.r).k = "col" ->
         [Filter("EQ", "", <<toColumnFromExpr(e.l), toColumnFromExpr(e.r)>>, <<>>)
            EXCEPT !.op = "JOIN"]
    [] e.k = "op" /\ e.op \in {"EQ", "NE", "LT", "LE", "GT", "GE", "LIKE"} ->
         buildComparisonPredicate(e)
    [] OTHER -> Throw

-----------------------------------------------------------------------------
(* Push-down (TranslatorHelpers.cpp).                                      *)
RECURSIVE getPredicateTables(_)
getPredicateTables(p) ==
  IF p.op = "SETOP"
  THEN UNION {getPredicateTables(p.kids[i]) : i \in DOMAIN p.kids}
  ELSE {resolveTableName(p.cols[i]) : i \in DOMAIN p.cols} \ {""}

getProvidedTables(n) == Tables(n)

\* Fault: one of the needed tables is enough.
isOverlap(need, have) == need \cap have # {}

isSubset(need, have) == need \subseteq have

\* Each branch of a union gets a copy of the target of its own.
attachPredicate(target, p) ==
  IF p.op # "SETOP" THEN [p EXCEPT !.kids = <<target>>]
  ELSE [p EXCEPT !.kids = [i \in DOMAIN p.kids |->
                             [p.kids[i] EXCEPT !.kids = <<target>>]]]

RECURSIVE pushDownSelectionPredicate(_, _)
pushDownSelectionPredicate(n, p) ==
  LET need == getPredicateTables(p)
      Into(i) == [n EXCEPT !.kids[i] = pushDownSelectionPredicate(@, p)]
  IN CASE n.op = "NULL" -> n
       [] n.op = "SETOP" /\ p.op # "SETOP" ->
            [n EXCEPT !.kids = [i \in DOMAIN @ |-> pushDownSelectionPredicate(@[i], p)]]
       [] n.op = "JOIN" /\ need # {} /\ isSubset(need, getProvidedTables(n.kids[1])) -> Into(1)
       [] n.op = "JOIN" /\ need # {} /\ isSubset(need, getProvidedTables(n.kids[2])) -> Into(2)
       [] n.op = "FILTER" /\ need # {} -> Into(1)
       [] OTHER -> attachPredicate(n, p)

-----------------------------------------------------------------------------
(* Join trees (JoinTreeBuilder.cpp).                                       *)
Scan(t) == [op |-> "SCAN", tab |-> t, kids |-> <<>>]

Join(cols, l, r) == [op |-> "JOIN", cols |-> cols, kids |-> <<l, r>>]

buildScanMap(q) == [t \in DOMAIN From(q) |-> Scan(t)]

namesMatch(a, b) == a = b \/ a \o "s" = b \/ a = b \o "s"

\* Leaves of the external plan with their depth: a node has a table or kids.
RECURSIVE JsonScans(_, _)
JsonScans(n, depth) ==
  IF n.table # "" THEN <<[table |-> n.table, depth |-> depth]>>
  ELSE FlattenSeq([i \in DOMAIN n.kids |-> JsonScans(n.kids[i], depth + 1)])

Dedupe(s) == FoldLeft(LAMBDA acc, x : IF Contains(acc, x) THEN acc ELSE Append(acc, x),
                      <<>>, s)

\* Deepest leaves first, in the order of the walk among equals.
extractJoinOrderFromJson(q) ==
  LET scans == IF q.json = <<>> THEN <<>> ELSE JsonScans(q.json[1], 0)
      deepest == Max({0} \cup {scans[i].depth : i \in DOMAIN scans})
      At(d) == SelectSeq(scans, LAMBDA r : r.depth = deepest + 1 - d)
      sorted == FlattenSeq([d \in 1 .. deepest + 1 |-> At(d)])
  IN Dedupe([i \in DOMAIN sorted |-> sorted[i].table])

\* The part after the last dot, unless nothing follows it.
normalizeTableToken(name) ==
  LET dots == {i \in 1 .. Len(name) : SubSeq(name, i, i) = "."}
  IN IF dots = {} \/ Max(dots) = Len(name) THEN name
     ELSE SubSeq(name, Max(dots) + 1, Len(name))

\* The scan an external name means, or ""; a name that begins with dim_ is
\* tried without it too.  When several scans match, the code takes the first
\* one of an unordered map.
findMatchingScanTable(jsonTable, scans) ==
  LET base == normalizeTableToken(jsonTable)
      Matching(name) == {s \in scans : namesMatch(name, normalizeTableToken(s))}
      bare == IF IsPrefix("dim_", base) THEN Matching(SubSeq(base, 5, Len(base))) ELSE {}
  IN CASE Matching(base) # {} -> CHOOSE s \in Matching(base) : TRUE
       [] Matching(base) = {} /\ bare # {} -> CHOOSE s \in bare : TRUE
       [] OTHER -> ""

resolveJoinOrderToScans(order, scans) ==
  Dedupe(SelectSeq([i \in DOMAIN order |-> findMatchingScanTable(order[i], scans)],
                   LAMBDA t : t # ""))

\* The predicate that connects the next table with the ones joined so far.
Connects(p, joined, next) ==
  LET t1 == resolveTableName(p.cols[1])
      t2 == resolveTableName(p.cols[2])
  IN \/ t1 \in joined /\ t2 # "" /\ namesMatch(t2, next)
     \/ t2 \in joined /\ t1 # "" /\ namesMatch(t1, next)

\* One table of the order; the state becomes ok = FALSE when no predicate is left.
AppendTable(st, next) ==
  LET able == {i \in DOMAIN joinPreds \ st.used : Connects(joinPreds[i], st.joined, next)}
      i == Min(able)
  IN IF able = {} THEN [st EXCEPT !.ok = FALSE]
     ELSE [ok |-> st.ok, joined |-> st.joined \cup {next}, used |-> st.used \cup {i},
           tree |-> Join(joinPreds[i].cols, st.tree, Scan(next))]

AsFilter(p) == [p EXCEPT !.op = "FILTER"]

buildJoinTreeFromOrder(order) ==
  LET end == FoldLeft(AppendTable, [ok |-> TRUE, joined |-> {order[1]}, used |-> {},
                                    tree |-> Scan(order[1])], Tail(order))
      unused == SelectSeq([i \in DOMAIN joinPreds |-> i], LAMBDA i : i \notin end.used)
  IN [ok |-> end.ok, tree |-> end.tree,
      extra |-> [k \in DOMAIN unused |-> AsFilter(joinPreds[unused[k]])]]

\* The representative of a group; path compression changes no answer.
RECURSIVE find(_, _)
find(p, x) == IF p[x] = x THEN x ELSE find(p, p[x])

-----------------------------------------------------------------------------
(* The steps of buildPlanForSelect.                                        *)
Init ==
  /\ query \in Queries
  /\ phase = "extract"
  /\ conjuncts = IF query.where = <<>> THEN <<>> ELSE splitConjuncts(query.where[1])
  /\ joinPreds = <<>> /\ selectionPreds = <<>> /\ extra = <<>>
  /\ dsu = <<>> /\ tree = <<>> /\ root = Null

NextPredicate == buildPredicateNode(Head(conjuncts))

extractPredicates ==
  /\ phase = "extract" /\ conjuncts # <<>>
  /\ conjuncts' = Tail(conjuncts)
  /\ \/ /\ NextPredicate.op = "THROW"
        /\ phase' = "thrown"
        /\ UNCHANGED <<joinPreds, selectionPreds>>
     \/ /\ NextPredicate.op = "JOIN"
        /\ joinPreds' = Append(joinPreds, NextPredicate)
        /\ UNCHANGED <<phase, selectionPreds>>
     \/ /\ NextPredicate.op \in {"FILTER", "SETOP"}
        /\ selectionPreds' = Append(selectionPreds, NextPredicate)
        /\ UNCHANGED <<phase, joinPreds>>
  /\ UNCHANGED <<query, dsu, tree, extra, root>>

JsonOrder == resolveJoinOrderToScans(extractJoinOrderFromJson(query), DOMAIN From(query))
JsonMissesTables == /\ extractJoinOrderFromJson(query) # <<>>
                    /\ Len(JsonOrder) # Cardinality(DOMAIN From(query))
JsonUsable == Len(JsonOrder) >= 2 /\ buildJoinTreeFromOrder(JsonOrder).ok

\* buildSelectInputTree: the external order throws, is used, or gives way.
buildSelectInputTree ==
  /\ phase = "extract" /\ conjuncts = <<>>
  /\ \/ /\ JsonMissesTables
        /\ phase' = "thrown"
        /\ UNCHANGED <<dsu, tree, extra, root>>
     \/ /\ ~JsonMissesTables /\ JsonUsable
        /\ root' = buildJoinTreeFromOrder(JsonOrder).tree
        /\ extra' = buildJoinTreeFromOrder(JsonOrder).extra
        /\ phase' = "extra"
        /\ UNCHANGED <<dsu, tree>>
     \/ /\ ~JsonMissesTables /\ ~JsonUsable
        /\ dsu' = [t \in DOMAIN From(query) |-> t]
        /\ tree' = buildScanMap(query)
        /\ phase' = "join"
        /\ UNCHANGED <<extra, root>>
  /\ UNCHANGED <<query, conjuncts, joinPreds, selectionPreds>>

Added(p, t) == IF t \in DOMAIN p THEN p ELSE p @@ (t :> t)
Subtree(r) == IF r \in DOMAIN tree THEN tree[r] ELSE Null

\* One turn of the loop over the join predicates.
buildJoinTree ==
  /\ phase = "join" /\ joinPreds # <<>>
  /\ LET p == Head(joinPreds)
         t1 == resolveTableName(p.cols[1])
         t2 == resolveTableName(p.cols[2])
         d == Added(Added(dsu, t1), t2)
         r1 == find(d, t1)
         r2 == find(d, t2)
     IN \/ /\ t1 = "" \/ t2 = ""
           /\ phase' = "thrown"
           /\ UNCHANGED <<joinPreds, dsu, tree, extra>>
        \/ /\ t1 # "" /\ t2 # "" /\ r1 = r2
           /\ extra' = Append(extra, AsFilter(p))
           /\ dsu' = d /\ joinPreds' = Tail(joinPreds)
           /\ UNCHANGED <<phase, tree>>
        \/ /\ t1 # "" /\ t2 # "" /\ r1 # r2
           /\ dsu' = [d EXCEPT ![r2] = r1]
           /\ tree' = [t \in (DOMAIN tree \ {r2}) \cup {r1} |->
                        IF t = r1 THEN Join(p.cols, Subtree(r1), Subtree(r2)) ELSE tree[t]]
           /\ joinPreds' = Tail(joinPreds)
           /\ UNCHANGED <<phase, extra>>
  /\ UNCHANGED <<query, conjuncts, selectionPreds, root>>

\* The tree of the group of the table that the unordered map lists first.
JoinTreeRoot ==
  /\ phase = "join" /\ joinPreds = <<>>
  /\ \E t \in DOMAIN From(query) : root' = tree[find(dsu, t)]
  /\ phase' = "extra"
  /\ UNCHANGED <<query, conjuncts, joinPreds, selectionPreds, dsu, tree, extra>>

PushExtraFilter ==
  /\ phase = "extra" /\ extra # <<>>
  /\ root' = pushDownSelectionPredicate(root, Head(extra))
  /\ extra' = Tail(extra)
  /\ UNCHANGED <<query, phase, conjuncts, joinPreds, selectionPreds, dsu, tree>>

IsSetop(p) == p.op = "SETOP"

\* Unions are pushed first.
StartSelections ==
  /\ phase = "extra" /\ extra = <<>>
  /\ phase' = "select"
  /\ selectionPreds' = SelectSeq(selectionPreds, IsSetop)
                         \o SelectSeq(selectionPreds, LAMBDA p : ~IsSetop(p))
  /\ UNCHANGED <<query, conjuncts, joinPreds, dsu, tree, extra, root>>

applySelectionPredicates ==
  /\ phase = "select" /\ selectionPreds # <<>>
  /\ root' = pushDownSelectionPredicate(root, Head(selectionPreds))
  /\ selectionPreds' = Tail(selectionPreds)
  /\ UNCHANGED <<query, phase, conjuncts, joinPreds, dsu, tree, extra>>

-----------------------------------------------------------------------------
(* The output operators (SelectPlanBuilder.cpp).                           *)
kAggFuncToName ==
  [SUM |-> "sum", COUNT |-> "count", AVG |-> "avg", MIN |-> "min", MAX |-> "max"]

\* The recognised form of an aggregate, or nothing.
matchAgg(e) ==
  LET Pattern(form, cols) == <<[func |-> e.f, form |-> form, cols |-> cols]>>
  IN CASE e.k # "agg" -> <<>>
       [] e.arg.k = "star" -> IF e.f = "COUNT" THEN Pattern("star", <<>>) ELSE <<>>
       [] e.arg.k = "col" -> Pattern("col", <<toColumnFromExpr(e.arg)>>)
       [] /\ e.f = "SUM" /\ e.arg.k = "op" /\ e.arg.op \in {"MUL", "SUB"}
          /\ e.arg.l.k = "col" /\ e.arg.r.k = "col" ->
            Pattern(e.arg.op, <<toColumnFromExpr(e.arg.l), toColumnFromExpr(e.arg.r)>>)
       [] OTHER -> <<>>

generateAggAlias(func, generated) ==
  kAggFuncToName[func] \o ToString(generated + 1)

\* Plain columns and aggregates of the select list; other items are skipped.
analyzeSelectClause(q) ==
  LET Item(st, e) ==
        CASE matchAgg(e) # <<>> ->
               LET made == Len(SelectSeq(st.aggs, LAMBDA a : a.func = e.f /\ a.made))
                   name == IF e.as # "" THEN e.as ELSE generateAggAlias(e.f, made)
               IN [st EXCEPT !.aggs =
                     Append(@, matchAgg(e)[1] @@ [name |-> name, made |-> e.as = ""])]
          [] e.k = "col" -> [st EXCEPT !.projections = Append(@, toColumnFromExpr(e))]
          [] OTHER -> st
  IN FoldLeft(Item, [projections |-> <<>>, aggs |-> <<>>], q.items)

collectGroupByColumns(q) ==
  LET cols == SelectSeq(q.group, LAMBDA e : e.k = "col")
  IN [i \in DOMAIN cols |-> toColumnFromExpr(cols[i])]

ensureDefaultAggregate(aggs) ==
  IF aggs # <<>> THEN aggs
  ELSE <<[func |-> "COUNT", form |-> "star", cols |-> <<>>, name |-> "agg", made |-> FALSE]>>

needsAggNode == \/ analyzeSelectClause(query).aggs # <<>>
                \/ collectGroupByColumns(query) # <<>>

AggsOf(q) == ensureDefaultAggregate(analyzeSelectClause(q).aggs)

applyMapNodes(input, aggs) ==
  LET maps == SelectSeq(aggs, LAMBDA a : a.form \in {"MUL", "SUB"})
  IN FoldLeft(LAMBDA n, a : [op |-> "MAP", arith |-> a.form, cols |-> a.cols,
                             kids |-> <<n>>], input, maps)

NoLimit == [count |-> <<>>, offset |-> <<>>]

Projection(cols, n) ==
  [op |-> "PROJECTION", cols |-> cols, limit |-> NoLimit, kids |-> <<n>>]

AggSpec(a) == [func |-> a.func, star |-> a.form = "star", name |-> a.name,
               col |-> IF a.form = "col" THEN a.cols ELSE <<>>]

buildSelectOutputTree ==
  /\ phase = "select" /\ selectionPreds = <<>>
  /\ phase' = "sort"
  /\ LET plain == analyzeSelectClause(query).projections
         aggs == AggsOf(query)
     IN root' = IF ~needsAggNode THEN Projection(plain, root)
                ELSE Projection(plain \o [i \in DOMAIN aggs |-> <<"", aggs[i].name>>],
                       [op |-> "AGG", cols |-> collectGroupByColumns(query),
                        specs |-> [i \in DOMAIN aggs |-> AggSpec(aggs[i])],
                        kids |-> <<applyMapNodes(root, aggs)>>])
  /\ UNCHANGED <<query, conjuncts, joinPreds, selectionPreds, dsu, tree, extra>>

\* Fault: the aggregate is looked up by its function alone.
findAggByFunction(aggs, p) ==
  LET same == SelectSeq(aggs, LAMBDA a : a.func = p.func)
  IN IF same # <<>> THEN same[1].name ELSE generateAggAlias(p.func, 0)

\* The name the select list gave to the aggregate p of ORDER BY.
findAggAlias(aggs, p) ==
  LET same == SelectSeq(aggs, LAMBDA a : a.func = p.func)
      hits == SelectSeq(same, LAMBDA a :
                \/ p.form = "star" /\ a.form = "star"
                \/ /\ p.form = "col" /\ a.form = "col"
                   /\ p.cols[1][2] = a.cols[1][2]
                   /\ p.cols[1][1] = a.cols[1][1] \/ "" \in {p.cols[1][1], a.cols[1][1]}
                \/ p.form \in {"MUL", "SUB"})
  IN IF hits # <<>> THEN hits[1].name
     ELSE IF same # <<>> THEN same[1].name ELSE generateAggAlias(p.func, 0)

OrderColumn(e) ==
  IF e.k = "col" THEN toColumnFromExpr(e)
  ELSE <<"", findAggAlias(IF needsAggNode THEN AggsOf(query) ELSE <<>>, matchAgg(e)[1])>>

Sortable(e) == e.k = "col" \/ matchAgg(e) # <<>>

applySortNode ==
  /\ phase = "sort"
  /\ \/ /\ query.order = <<>>
        /\ phase' = "limit"
        /\ UNCHANGED root
     \/ /\ query.order # <<>>
        /\ \A i \in DOMAIN query.order : Sortable(query.order[i].e)
        /\ phase' = "limit"
        /\ root' = [op |-> "SORT", limit |-> NoLimit, kids |-> <<root>>,
                    cols |-> [i \in DOMAIN query.order |-> OrderColumn(query.order[i].e)],
                    dirs |-> [i \in DOMAIN query.order |-> query.order[i].asc]]
     \/ /\ \E i \in DOMAIN query.order : ~Sortable(query.order[i].e)
        /\ phase' = "thrown"
        /\ UNCHANGED root
  /\ UNCHANGED <<query, conjuncts, joinPreds, selectionPreds, dsu, tree, extra>>

\* static_cast<int>: the value that is the same modulo the range of an int.
CastInt(v) == ((v + IntRange \div 2) % IntRange) - IntRange \div 2

CastAll(es) == [i \in DOMAIN es |-> CastInt(es[i].val)]

LimitExprs == query.limit.count \o query.limit.offset

\* Both are integer literals, or the translator throws.
applyLimitOffset ==
  /\ phase = "limit"
  /\ \/ /\ \A i \in DOMAIN LimitExprs : LimitExprs[i].k = "lit"
        /\ root' = [root EXCEPT !.limit = [count |-> CastAll(query.limit.count),
                                          offset |-> CastAll(query.limit.offset)]]
        /\ phase' = "done"
     \/ /\ \E i \in DOMAIN LimitExprs : LimitExprs[i].k # "lit"
        /\ phase' = "thrown"
        /\ UNCHANGED root
  /\ UNCHANGED <<query, conjuncts, joinPreds, selectionPreds, dsu, tree, extra>>

buildPlanForSelect ==
  \/ extractPredicates \/ buildSelectInputTree \/ buildJoinTree \/ JoinTreeRoot
  \/ PushExtraFilter \/ StartSelections \/ applySelectionPredicates
  \/ buildSelectOutputTree \/ applySortNode \/ applyLimitOffset

Spec == Init /\ [][buildPlanForSelect]_vars

-----------------------------------------------------------------------------
PredicateRows(p, rows) ==
  {t \in rows : \E i \in DOMAIN collectUnionLeaves(p) :
                  Holds(From(query), collectUnionLeaves(p)[i], t)}

Keeps(p) == /\ WellBound(root')
            /\ Rows(From(query), root') = PredicateRows(p, Rows(From(query), root))

(* A step that pushes a predicate down keeps exactly the rows that satisfy *)
(* it, wherever it ends up: below joins, below filters, in every branch of *)
(* a union, and never below the table it is about.                         *)
PushesExactly ==
  [][/\ selectionPreds # <<>> /\ phase = "select" => Keeps(Head(selectionPreds))
     /\ extra # <<>> /\ phase = "extra" => Keeps(Head(extra))]_vars

\* Every condition names columns of FROM, and analyzeSelectClause knows every
\* item of the select list (it leaves out the ones it does not know).
Understood(q) ==
  /\ \A e \in Conditions(q) : Bound(From(q), e)
  /\ \A i \in DOMAIN q.items : Sortable(q.items[i])

(* The plan that is returned reads every table of FROM, uses no column     *)
(* below the table it belongs to, and computes what the statement asks     *)
(* for: the same rows or groups, with the same output columns in the same  *)
(* order, the same sort keys and the same limit.                           *)
PlanMeansQuery ==
  phase = "done" /\ Understood(query) =>
    /\ Tables(root) = DOMAIN From(query) /\ WellBound(root)
    /\ PlanMeaning(From(query), root) = Meaning(query)
=============================================================================
