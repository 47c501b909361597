-------------------------- MODULE PhysicalOptimizer --------------------------
(***************************************************************************)
(* The translation of a logical plan into a physical one                   *)
(* (src/optimizer/PhysicalOptimizer*.cpp).  The logical plan is walked in  *)
(* post-order; each handler takes the results of its children, adds        *)
(* physical nodes and updates the TransformContext: per table the chain of *)
(* position lists that narrow its rows, and the caches of materialised and *)
(* computed columns.                                                       *)
(*                                                                         *)
(* Nodes are numbered in the order of their creation; the code draws their *)
(* ids at random (see WorkItems for what a repeated draw does).            *)
(***************************************************************************)
EXTENDS Executor

CONSTANTS Modes,            \* values of -optimize
          TrimModes         \* values of -optimize-join-outputs

VARIABLES logical,          \* the logical plan, with the tables of FROM
          optimize_chains, optimize_join_outputs,
          status,           \* where ConvertToPhys is
          todo,             \* logical nodes not handled yet, in post-order
          results,          \* TransformResults whose parent is not handled yet
          context,          \* the TransformContext, with the nodes created
          physical_plan     \* the number of the root node, 0 for null

optVars == <<logical, optimize_chains, optimize_join_outputs, status, todo,
             results, context, physical_plan>>

I(id, suffix) == <<"intermediate", "i" \o ToString(id) \o suffix>>

\* A node; 0 among the kids stands for a null producer and is not added.
Node(op, in, out, kids) ==
  [op |-> op, in |-> in, out |-> out, sides |-> out, index |-> <<>>, cluster |-> <<>>,
   agg |-> <<>>, expr |-> <<>>, kids |-> SelectSeq(kids, LAMBDA k : k # 0)]

nextIntermediateName(ctx) == Len(ctx.nodes) + 1

Add(ctx, node) == [ctx EXCEPT !.nodes = Append(@, node)]

Chain(ctx, t) == IF t \in DOMAIN ctx.chain THEN ctx.chain[t] ELSE <<>>

PushPosList(ctx, tables, col, id) ==
  [ctx EXCEPT !.chain =
     [t \in tables |-> Append(Chain(ctx, t), [col |-> col, node |-> id])] @@ @]

-----------------------------------------------------------------------------
(* Materialisation (PhysicalOptimizerMaterialization.cpp).  An answer is   *)
(* the context after the call with the MaterializedInfo.                   *)
INT_MAX == 2147483647

Info(col, producer, index) == [col |-> col, node |-> producer, index |-> index]

createMaterializeNode(ctx, col, pos, kids) ==
  Add(ctx, [Node("MATERIALIZE", <<col>>, <<I(nextIntermediateName(ctx), "")>>, kids)
              EXCEPT !.index = <<pos>>])

Newest(ctx) == ctx.nodes[Len(ctx.nodes)].out[1]

lookupIntermediateResult(ctx, col) == col[2] \in DOMAIN ctx.inter

registerIntermediateResult(ctx, name, alias, col, id) ==
  [ctx EXCEPT !.inter = [k \in {name} \cup ToSet(alias) |-> Info(col, id, INT_MAX)] @@ @]

isBaseTableChainMaterialization(ctx, info) ==
  /\ info.node # 0
  /\ ctx.nodes[info.node].op = "MATERIALIZE"
  /\ ctx.nodes[info.node].in[1][1] # "intermediate"

\* Fault: a list is mapped through the first one of the chain.
ComposeFirst(ctx, t) ==
  FoldLeftDomain(LAMBDA c, i :
      LET cur == c.chain[t][i]
          id == nextIntermediateName(c)
          mapped == createMaterializeNode(c, c.chain[t][1].col, cur.col,
                                          <<c.chain[t][1].node, cur.node>>)
      IN IF i = 1 \/ c.nodes[cur.node].op \notin {"HASHJOIN", "FILTER"} THEN c
         ELSE [mapped EXCEPT !.chain[t][i] = [col |-> I(id, ""), node |-> id]],
    ctx, ctx.chain[t])

\* Maps each join or filter list of the chain through the list before it.
ComposeChain(ctx, t) ==
  FoldLeftDomain(LAMBDA c, i :
      LET cur == c.chain[t][i]
          prev == c.chain[t][i - 1]
          id == nextIntermediateName(c)
          mapped == createMaterializeNode(c, prev.col, cur.col, <<prev.node, cur.node>>)
      IN IF i = 1 \/ c.nodes[cur.node].op \notin {"HASHJOIN", "FILTER"} THEN c
         ELSE [mapped EXCEPT !.chain[t][i] = [col |-> I(id, ""), node |-> id]],
    ctx, ctx.chain[t])

\* The column the newest node made of col, remembered in the cache.
Remember(ctx, col, index) ==
  LET info == Info(Newest(ctx), Len(ctx.nodes), index)
  IN [ctx |-> [ctx EXCEPT !.mat = (col :> info) @@ @], info |-> info]

\* A column made for another length of the chain is made again.
Stale(ctx, cached, target) ==
  isBaseTableChainMaterialization(ctx, cached) /\ cached.index # target

\* Reads a column through the last list of its chain, which is composed.
ReadThrough(ctx, col, chain) ==
  LET final == chain[Len(chain)]
      target == Len(chain) - 1
  IN IF col \in DOMAIN ctx.mat /\ ~Stale(ctx, ctx.mat[col], target)
     THEN [ctx |-> ctx, info |-> ctx.mat[col]]
     ELSE Remember(createMaterializeNode(ctx, col, final.col, <<final.node>>), col, target)

Composed(ctx, col) == ReadThrough(ctx, col, ctx.chain[col[1]])

ensureMaterializedOptimized(ctx, col) ==
  IF Chain(ctx, col[1]) = <<>> THEN [ctx |-> ctx, info |-> Info(col, 0, -1)]
  ELSE Composed(ComposeChain(ctx, col[1]), col)

\* Fault: a cached column is taken as it is.
NoLinksLeft(ctx, col, from) == IF from.node # 0 THEN <<>> ELSE Chain(ctx, col[1])

\* The links of the chain after chain_index.  INT_MAX + 1 overflows; as a
\* size_t, wrapped or not, it is beyond the end of every chain.
LinksAfter(ctx, col, from) ==
  IF from.index = INT_MAX THEN <<>>
  ELSE SubSeq(Chain(ctx, col[1]), from.index + 2, Len(Chain(ctx, col[1])))

\* One more link of the chain of col, and the cache after it.
FollowLink(acc, col, link) ==
  Remember(createMaterializeNode(acc.ctx, acc.info.col, link.col, <<acc.info.node, link.node>>),
           col, acc.info.index + 1)

\* The column itself if it has no chain; the cache gets it too.
Begin(ctx, col, start) == [ctx |-> [ctx EXCEPT !.mat = (col :> start) @@ @], info |-> start]

ensureMaterializedChained(ctx, col) ==
  LET start == IF col \in DOMAIN ctx.mat THEN ctx.mat[col] ELSE Info(col, 0, -1)
  IN FoldLeft(LAMBDA acc, link : FollowLink(acc, col, link),
              Begin(ctx, col, start), LinksAfter(ctx, col, start))

ensureMaterialized(ctx, col) ==
  CASE lookupIntermediateResult(ctx, col) -> [ctx |-> ctx, info |-> ctx.inter[col[2]]]
    [] optimize_chains -> ensureMaterializedOptimized(ctx, col)
    [] OTHER -> ensureMaterializedChained(ctx, col)

Collect(acc, m) == [ctx |-> m.ctx, infos |-> Append(acc.infos, m.info)]

\* All columns of a sequence, from the left.
MaterializeAll(ctx, cols) ==
  FoldLeft(LAMBDA acc, col : Collect(acc, ensureMaterialized(acc.ctx, col)),
           [ctx |-> ctx, infos |-> <<>>], cols)

Cols(infos) == [i \in DOMAIN infos |-> infos[i].col]
Producers(infos) == [i \in DOMAIN infos |-> infos[i].node]

\* The group keys once more, one value per entry of the index.
materializeGroupedKeys(ctx, mats, keys, index, groupby) ==
  FoldLeftDomain(LAMBDA c, i :
      Remember(createMaterializeNode(c, mats[i].col, index, <<groupby, mats[i].node>>),
               keys[i], INT_MAX).ctx,
    ctx, keys)

-----------------------------------------------------------------------------
(* The handlers.  A TransformResult keeps the logical node it stands for.  *)
Result(root, out, src, tables, type, of) ==
  [root |-> root, out |-> out, src |-> src, tables |-> tables, type |-> type, of |-> of]

NoColumn == <<"", "">>

RECURSIVE PostOrder(_)
PostOrder(n) == FlattenSeq([i \in DOMAIN n.kids |-> PostOrder(n.kids[i])]) \o <<n>>

Current == Head(todo)
Child(i) == results[Len(results) - Len(Current.kids) + i]
RootIs(r, op) == r.root # 0 /\ context.nodes[r.root].op = op

Handling(op) == status = "transform" /\ todo # <<>> /\ Current.op = op

\* The handler of the current node returns r and leaves the context ctx.
Return(ctx, r) ==
  /\ context' = ctx
  /\ results' = Append(SubSeq(results, 1, Len(results) - Len(Current.kids)), r)
  /\ todo' = Tail(todo)
  /\ UNCHANGED <<logical, optimize_chains, optimize_join_outputs, status, physical_plan>>

TablesOf(rs) == UNION {rs[i].tables : i \in DOMAIN rs}

handleScan ==
  /\ Handling("SCAN")
  /\ Return(context, Result(0, NoColumn, Current.tab, {Current.tab}, "SCAN", Current))

\* The position lists of rs combined into one, which replaces the chain.
createSetOperationNode(ctx, rs, rel) ==
  LET id == nextIntermediateName(ctx)
      c == Add(ctx, [Node("SETOPERATION", [i \in DOMAIN rs |-> rs[i].out], <<I(id, "")>>,
                          [i \in DOMAIN rs |-> rs[i].root]) EXCEPT !.expr = [rel |-> rel]])
      src == rs[1].src
  IN [ctx |-> IF src = "" THEN c
              ELSE [c EXCEPT !.chain = (src :> <<[col |-> I(id, ""), node |-> id]>>) @@ @],
      result |-> Result(id, I(id, ""), src, TablesOf(rs), "POSLIST", Current)]

CrossTable(cols) ==
  Len(cols) >= 2 /\ cols[1][1] # "" /\ cols[2][1] # "" /\ cols[1][1] # cols[2][1]

Condition(n) == [cmp |-> n.cmp, str |-> n.str, vals |-> n.vals]

\* A filter on a base column; one on top of a filter of its table is combined with it.
handleFilter ==
  /\ Handling("FILTER") /\ ~CrossTable(Current.cols)
  /\ LET id == nextIntermediateName(context)
         src == Current.cols[1][1]
         c == Add(context, [Node("FILTER", Current.cols, <<I(id, "")>>, <<>>)
                              EXCEPT !.expr = Condition(Current)])
         r == Result(id, I(id, ""), src, Child(1).tables \cup ({src} \ {""}), "POSLIST", Current)
         both == createSetOperationNode(c, <<Child(1), r>>, "INTERSECTION")
     IN \/ /\ RootIs(Child(1), "FILTER") /\ Child(1).src = src
           /\ Return(both.ctx, both.result)
        \/ /\ ~(RootIs(Child(1), "FILTER") /\ Child(1).src = src)
           /\ Return(PushPosList(c, {src}, I(id, ""), id), r)

\* A filter on the joined rows narrows every table that takes part.
handleCrossTableFilter ==
  /\ Handling("FILTER") /\ CrossTable(Current.cols)
  /\ LET m == MaterializeAll(context, SubSeq(Current.cols, 1, 2))
         id == nextIntermediateName(m.ctx)
         c == Add(m.ctx, [Node("FILTER", Cols(m.infos), <<I(id, "")>>, Producers(m.infos))
                            EXCEPT !.expr = Condition(Current)])
         pushed == PushPosList(c, Child(1).tables, I(id, ""), id)
         kept == {k \in DOMAIN c.mat : k[1] \notin Child(1).tables}
     IN Return([pushed EXCEPT !.mat = [k \in kept |-> @[k]]],
               Result(id, I(id, ""), Current.cols[1][1],
                      Child(1).tables \cup {Current.cols[1][1], Current.cols[2][1]},
                      "POSLIST", Current))

getCardinality(table) ==
  LET ssb == [lineorder |-> 6000000, customer |-> 30000, part |-> 200000,
              supplier |-> 2000, date |-> 2556, ddate |-> 2556]
  IN IF table \in DOMAIN ssb THEN ssb[table] ELSE 1000

handleJoin ==
  /\ Handling("JOIN")
  /\ LET m == MaterializeAll(context, Current.cols)
         swap == getCardinality(Current.cols[1][1]) > getCardinality(Current.cols[2][1])
         in == IF swap THEN Reverse(m.infos) ELSE m.infos
         id == nextIntermediateName(m.ctx)
         c == Add(m.ctx, [Node("HASHJOIN", Cols(in), <<I(id, "_i"), I(id, "_o")>>,
                               Producers(in)) EXCEPT !.expr = [cmp |-> "EQ"]])
         inner == IF swap THEN Child(2) ELSE Child(1)
         outer == IF swap THEN Child(1) ELSE Child(2)
     IN Return(PushPosList(PushPosList(c, inner.tables, I(id, "_i"), id),
                           outer.tables, I(id, "_o"), id),
               Result(id, I(id, "_i"), "", TablesOf(<<inner, outer>>), "JOINED", Current))

handleMap ==
  /\ Handling("MAP")
  /\ LET m == MaterializeAll(context, Current.cols)
         id == nextIntermediateName(m.ctx)
         c == Add(m.ctx, [Node("MAP", Cols(m.infos), <<I(id, "")>>, Producers(m.infos))
                            EXCEPT !.expr = [arith |-> Current.arith]])
     IN Return(registerIntermediateResult(c, I(id, "")[2], <<>>, I(id, ""), id),
               Result(id, I(id, ""), "", Child(1).tables, "MATERIALIZED", Current))

-----------------------------------------------------------------------------
(* Aggregation.                                                            *)
Specs(ss) == [specs |-> ss]

resolveAggregateInput(ctx, spec, r) ==
  IF spec.col # <<>> THEN ensureMaterialized(ctx, spec.col[1])
  ELSE [ctx |-> ctx, info |-> Info(r.out, r.root, -1)]

\* A node that reduces the column of info, registered under the name of the aggregate.
AggregateNode(ctx, info, spec) ==
  LET id == nextIntermediateName(ctx)
      c == Add(ctx, [Node("AGGREGATE", <<info.col>>, <<I(id, "")>>, <<info.node>>)
                       EXCEPT !.expr = Specs(<<spec>>)])
  IN registerIntermediateResult(c, I(id, "")[2], <<spec.name>>, I(id, ""), id)

AggregateResult(ctx, id, type) ==
  Result(id, ctx.nodes[id].out[1], "", Child(1).tables, type, Current)

createParallelAggregateNodes ==
  /\ Handling("AGG") /\ Current.cols = <<>> /\ Len(Current.specs) > 1
  /\ LET Spec1(acc, spec) ==
           LET m == resolveAggregateInput(acc.ctx, spec, Child(1))
               c == AggregateNode(m.ctx, m.info, spec)
           IN [ctx |-> c, ids |-> Append(acc.ids, Len(c.nodes))]
         end == FoldLeft(Spec1, [ctx |-> context, ids |-> <<>>], Current.specs)
     IN Return(end.ctx, AggregateResult(end.ctx, end.ids[1], "AGGREGATE"))

\* Only on top of a join is the column of the aggregate materialised.
createSingleAggregateNode ==
  /\ Handling("AGG") /\ Current.cols = <<>> /\ Len(Current.specs) = 1
  /\ LET spec == Current.specs[1]
         m == IF Child(1).type = "JOINED" THEN resolveAggregateInput(context, spec, Child(1))
              ELSE [ctx |-> context, info |-> Info(Child(1).out, Child(1).root, -1)]
         c == AggregateNode(m.ctx, m.info, spec)
     IN Return(c, AggregateResult(c, Len(c.nodes), "AGGREGATE"))

\* Fault: the clusters are not handed over.
TotalNode(ctx, input, spec, g) ==
  Add(ctx, [Node("AGGREGATE", Cols(input), <<I(nextIntermediateName(ctx), "")>>,
                 Append(Producers(input), g)) EXCEPT !.expr = Specs(<<spec>>)])

ClusterNode(ctx, input, spec, g) ==
  Add(ctx, [Node("AGGREGATE", Cols(input), <<I(nextIntermediateName(ctx), "")>>,
                 Append(Producers(input), g))
              EXCEPT !.index = <<I(g, "_idx")>>, !.cluster = <<I(g, "_cluster")>>,
                     !.expr = Specs(<<spec>>)])

\* Each aggregate gets a node of its own, which reads the clusters of the GROUPBY.
handleGroupByMultiAgg ==
  /\ Handling("AGG") /\ Current.cols # <<>> /\ Len(Current.specs) > 1
  /\ LET keys == MaterializeAll(context, Current.cols)
         g == nextIntermediateName(keys.ctx)
         grouped == Add(keys.ctx, Node("GROUPBY", Cols(keys.infos),
                          <<I(g, "_idx"), I(g, "_cluster")>>, Producers(keys.infos)))
         mapped == IF RootIs(Child(1), "MAP") THEN <<Info(Child(1).out, Child(1).root, -1)>>
                   ELSE <<>>
         Spec1(acc, spec) ==
           LET m == IF spec.col # <<>> THEN ensureMaterialized(acc.ctx, spec.col[1])
                    ELSE [ctx |-> acc.ctx, info |-> Info(NoColumn, 0, -1)]
               input == IF spec.col # <<>> THEN <<m.info>> ELSE mapped
               id == nextIntermediateName(m.ctx)
               c == ClusterNode(m.ctx, input, spec, g)
           IN [ctx |-> registerIntermediateResult(c, I(id, "")[2], <<spec.name>>,
                                                  I(id, "_agg"), id),
               ids |-> Append(acc.ids, id)]
         end == FoldLeft(Spec1, [ctx |-> grouped, ids |-> <<>>], Current.specs)
         c == materializeGroupedKeys(end.ctx, keys.infos, Current.cols, I(g, "_idx"), g)
     IN Return(c, AggregateResult(c, end.ids[1], "GROUPBY"))

\* The input of the one aggregate of a GROUPBY: its column, else the MAP, else a key.
handleGroupBySingleAgg ==
  /\ Handling("AGG") /\ Current.cols # <<>> /\ Len(Current.specs) = 1
  /\ LET spec == Current.specs[1]
         keys == MaterializeAll(context, Current.cols)
         m == IF spec.col # <<>> THEN ensureMaterialized(keys.ctx, spec.col[1])
              ELSE [ctx |-> keys.ctx,
                    info |-> IF spec.star THEN Info(keys.infos[1].col, 0, -1)
                             ELSE Info(Child(1).out, 0, -1)]
         map == IF RootIs(Child(1), "MAP") THEN Child(1).root ELSE 0
         g == nextIntermediateName(m.ctx)
         grouped == Add(m.ctx, [Node("GROUPBY", Cols(keys.infos), <<I(g, "")>>,
                                     Producers(keys.infos) \o <<map, m.info.node>>)
                      EXCEPT !.agg = <<m.info.col>>, !.expr = Specs(<<spec>>)])
         c == registerIntermediateResult(grouped, I(g, "")[2], <<spec.name>>, I(g, "_agg"), g)
         done == materializeGroupedKeys(c, keys.infos, Current.cols, I(g, "_idx_ext"), g)
     IN Return(done, AggregateResult(done, g, "GROUPBY"))

-----------------------------------------------------------------------------
(* Output.                                                                 *)
\* base_table of a column: the table its alias stands for, if it has one.
BaseTable(col) ==
  IF col[1] \in DOMAIN logical.from /\ logical.from[col[1]] # col[1]
  THEN logical.from[col[1]] ELSE ""

\* The base table of the logical column is noted on the column made of it.
handleProjection ==
  /\ Handling("PROJECTION")
  /\ LET m == MaterializeAll(context, Current.cols)
         Projected(i) == m.infos[i] @@ [base |-> BaseTable(Current.cols[i])]
     IN Return([m.ctx EXCEPT !.projected = [i \in DOMAIN m.infos |-> Projected(i)]], Child(1))

handleSetOperation ==
  /\ Handling("SETOP")
  /\ LET u == createSetOperationNode(context, [i \in DOMAIN Current.kids |-> Child(i)], "UNION")
     IN Return(u.ctx, u.result)

\* Names the translator makes up, and aliases that begin like them.
isAggregateRef(col) ==
  /\ col[1] = ""
  /\ \E f \in {"count", "sum", "avg", "min", "max"} : IsPrefix(f, col[2])

\* The sort columns are the keys of the GROUPBY, which lists its groups in their order.
SortElided(r) == r.type = "GROUPBY" /\ Current.cols = Current.kids[1].kids[1].cols

\* The column a sort reads for col, with the context after it was made.
SortColumn(ctx, col, r) ==
  IF isAggregateRef(col) /\ RootIs(r, "GROUPBY")
  THEN [ctx |-> ctx, info |-> Info(I(r.root, "_cluster"), r.root, -1)]
  ELSE ensureMaterialized(ctx, col)

handleSort ==
  /\ Handling("SORT")
  /\ LET m == FoldLeft(LAMBDA acc, col : Collect(acc, SortColumn(acc.ctx, col, Child(1))),
                       [ctx |-> context, infos |-> <<>>], Current.cols)
         id == nextIntermediateName(m.ctx)
     IN \/ SortElided(Child(1)) /\ Return(context, Child(1))
        \/ /\ ~SortElided(Child(1))
           /\ Return(Add(m.ctx, [Node("SORT", Cols(m.infos), <<I(id, "_idx")>>,
                                      Producers(m.infos)) EXCEPT !.expr = [dirs |-> Current.dirs]]),
                     Result(id, I(id, "_idx"), "", Child(1).tables, "POSLIST", Current))

Distinct(s) == FoldLeft(LAMBDA acc, x : IF Contains(acc, x) THEN acc ELSE Append(acc, x),
                        <<>>, s)

buildResultNode(ctx, r) ==
  LET sorted == RootIs(r, "SORT")
      kids == Producers(ctx.projected)
  IN Add(ctx, [Node("RESULT", Cols(ctx.projected), <<>>,
                    IF sorted THEN Distinct(<<r.root>> \o kids) ELSE kids)
                 EXCEPT !.index = IF sorted THEN <<r.out>> ELSE <<>>,
                        !.expr = [limit |-> ctx.limit,
                                  base |-> [i \in DOMAIN ctx.projected |-> ctx.projected[i].base]]])

-----------------------------------------------------------------------------
(* Post-processing (PhysicalOptimizerPostProcess.cpp).                     *)
RECURSIVE Below(_, _)
Below(nodes, ids) ==
  LET next == ids \cup UNION {ToSet(nodes[i].kids) : i \in ids}
  IN IF next = ids THEN ids ELSE Below(nodes, next)

Reachable(nodes, root) == IF root = 0 THEN {} ELSE Below(nodes, {root})

collectReferencedColumns(nodes, root) ==
  UNION {ToSet(nodes[i].in \o nodes[i].index \o nodes[i].agg \o nodes[i].cluster) :
           i \in Reachable(nodes, root)}

Used(n, referenced) == SelectSeq(n.out, LAMBDA c : c \in referenced)

Joins(nodes, root) == {i \in Reachable(nodes, root) : nodes[i].op = "HASHJOIN"}

\* The joins keep the output lists that are referenced.
optimizeJoinOutputs ==
  /\ status = "post"
  /\ LET nodes == context.nodes
         joins == Joins(nodes, physical_plan)
         used == collectReferencedColumns(nodes, physical_plan)
     IN \/ /\ ~optimize_join_outputs
           /\ status' = "done"
           /\ UNCHANGED context
        \/ /\ optimize_join_outputs
           /\ \A i \in joins : Used(nodes[i], used) # <<>>
           /\ status' = "done"
           /\ context' = [context EXCEPT !.nodes = [i \in DOMAIN nodes |->
                IF i \in joins THEN [nodes[i] EXCEPT !.out = Used(nodes[i], used)] ELSE nodes[i]]]
        \/ /\ optimize_join_outputs
           /\ \E i \in joins : Used(nodes[i], used) = <<>>
           /\ status' = "failed"
           /\ UNCHANGED context
  /\ UNCHANGED <<logical, optimize_chains, optimize_join_outputs, todo, results, physical_plan>>

-----------------------------------------------------------------------------
NoContext == [nodes |-> <<>>, chain |-> <<>>, mat |-> <<>>, inter |-> <<>>,
              projected |-> <<>>, limit |-> <<>>]

OptimizerInit ==
  /\ logical = <<>> /\ status = "idle" /\ todo = <<>> /\ results = <<>>
  /\ optimize_chains \in Modes /\ optimize_join_outputs \in TrimModes
  /\ context = NoContext /\ physical_plan = 0

\* LIMIT and OFFSET are taken from the nodes that have them: only the root has.
ConvertToPhys(from, root) ==
  /\ status = "idle" /\ status' = "transform"
  /\ logical' = [from |-> from, root |-> root]
  /\ todo' = PostOrder(root)
  /\ context' = [NoContext EXCEPT !.limit = root.limit]
  /\ UNCHANGED <<optimize_chains, optimize_join_outputs, results, physical_plan>>

\* A missing child: transformNode throws.
NullNode ==
  /\ Handling("NULL")
  /\ status' = "failed"
  /\ UNCHANGED <<logical, optimize_chains, optimize_join_outputs, todo, results, context,
                 physical_plan>>

\* The root has been handled.
FinishTransform ==
  /\ status = "transform" /\ todo = <<>>
  /\ status' = "post"
  /\ \/ /\ context.projected # <<>>
        /\ context' = buildResultNode(context, results[1])
        /\ physical_plan' = Len(context'.nodes)
     \/ /\ context.projected = <<>>
        /\ physical_plan' = results[1].root
        /\ UNCHANGED context
  /\ UNCHANGED <<logical, optimize_chains, optimize_join_outputs, todo, results>>

transformNode ==
  \/ handleScan \/ handleFilter \/ handleCrossTableFilter \/ handleJoin \/ handleMap
  \/ createParallelAggregateNodes \/ createSingleAggregateNode
  \/ handleGroupByMultiAgg \/ handleGroupBySingleAgg
  \/ handleProjection \/ handleSetOperation \/ handleSort \/ NullNode
  \/ FinishTransform \/ optimizeJoinOutputs

-----------------------------------------------------------------------------
(* Between two handlers, the chains of the tables of a result are aligned: *)
(* read side by side they list exactly the rows of the logical subtree,    *)
(* each once, whether the lists have been mapped onto base rows already or *)
(* not.  A table that two results share is in the middle of a union.       *)
Resolved(env, nodes, chain) ==
  LET List(i) == IF chain[i].col \in DOMAIN env THEN env[chain[i].col] ELSE <<>>
  IN FoldLeftDomain(LAMBDA pos, i :
         IF i = 1 \/ nodes[chain[i].node].op = "MATERIALIZE" THEN List(i)
         ELSE IF InRange(pos, List(i)) THEN Gather(pos, List(i)) ELSE <<>>,
       <<>>, chain)

SourceRows(env, t) ==
  IF Chain(context, t) # <<>> THEN Resolved(env, context.nodes, Chain(context, t))
  ELSE [i \in DOMAIN Data[logical.from[t]] |-> <<i>>]

RowsTracked ==
  status = "transform" => \A k \in DOMAIN results :
    /\ results[k].type \in {"SCAN", "POSLIST", "JOINED"} /\ results[k].of.op # "SORT"
    /\ \A j \in DOMAIN results \ {k} : results[j].tables \cap results[k].tables = {}
    => LET env == Run(logical.from, context.nodes)
           pos == [t \in results[k].tables |-> SourceRows(env, t)]
           n == Len(pos[CHOOSE t \in results[k].tables : TRUE])
           rows == {[t \in results[k].tables |-> pos[t][i][1]] : i \in 1 .. n}
       IN /\ \A t \in results[k].tables : Len(pos[t]) = n
          /\ Cardinality(rows) = n
          /\ rows = Rows(logical.from, results[k].of)
=============================================================================
