----------------------------- MODULE Statements -----------------------------
(* The database and the statements of the runs on the query compiler.      *)
EXTENDS Syntax, Integers, Sequences, SequencesExt, TLC

D == [lineorder |-> <<
        [lo_orderdate |-> 1, lo_custkey |-> 1, lo_discount |-> 1, lo_revenue |-> 3],
        [lo_orderdate |-> 2, lo_custkey |-> 1, lo_discount |-> 2, lo_revenue |-> 1],
        [lo_orderdate |-> 2, lo_custkey |-> 2, lo_discount |-> 3, lo_revenue |-> 2],
        [lo_orderdate |-> 1, lo_custkey |-> 2, lo_discount |-> 2, lo_revenue |-> 2]>>,
      dates |-> <<[d_datekey |-> 2, d_year |-> 1], [d_datekey |-> 1, d_year |-> 2]>>,
      customer |-> <<[c_custkey |-> 1, c_region |-> "a", c_nation |-> 2],
                     [c_custkey |-> 2, c_region |-> "A", c_nation |-> 1],
                     [c_custkey |-> 3, c_region |-> "a", c_nation |-> 1]>>]

PrefixOf == [lo_orderdate |-> "lo", lo_custkey |-> "lo", lo_discount |-> "lo",
             lo_revenue |-> "lo", d_datekey |-> "d", d_year |-> "d",
             c_custkey |-> "c", c_region |-> "c", c_nation |-> "c"]

T(t) == [table |-> t, alias |-> ""]
As(t, a) == [table |-> t, alias |-> a]
C(name) == Col("", name)

\* The conjunction of a sequence of conditions, as the parser nests it.
And(es) == IF es = <<>> THEN <<>>
           ELSE <<FoldLeft(LAMBDA a, e : Op("AND", a, e), es[1], Tail(es))>>

Limit(c, o) == [count |-> c, offset |-> o]
Leaf(t) == [table |-> t, kids |-> <<>>]
Inner(ks) == [table |-> "", kids |-> ks]

Statement(from, where, output, json) ==
  output @@ [from |-> from, where |-> And(where), json |-> json]

Output(items, group, order, limit) ==
  [items |-> items, group |-> group, order |-> order, limit |-> limit]

Asc(e) == [e |-> e, asc |-> TRUE]
Desc(e) == [e |-> e, asc |-> FALSE]
Plain == Output(<<C("lo_revenue")>>, <<>>, <<>>, Limit(<<>>, <<>>))
SumOf(e) == Agg("SUM", e, "")
Mul == Op("MUL", C("lo_discount"), C("lo_revenue"))

-----------------------------------------------------------------------------
(* Conditions.                                                             *)
DateJoin == Op("EQ", C("lo_orderdate"), C("d_datekey"))
CustomerJoin == Op("EQ", C("c_custkey"), C("lo_custkey"))
Closing == Op("EQ", C("d_year"), C("c_nation"))          \* closes a cycle
Discount == Between(C("lo_discount"), 2, 3)
Revenue == Op("LT", C("lo_revenue"), Lit(3))
Year == In(C("d_year"), <<Lit(1), Lit(3)>>)
OneOf == Op("OR", Op("EQ", C("lo_discount"), Lit(1)), Op("EQ", C("lo_discount"), Lit(3)))
Either == Op("OR", Op("EQ", C("lo_discount"), Lit(1)), Op("GT", C("lo_revenue"), Lit(1)))
Region == Op("LIKE", Fn("LOWER", C("c_region")), Lit("a"))
Cross == Op("LE", C("lo_discount"), C("d_year"))
Own == Op("EQ", C("lo_discount"), C("lo_revenue"))
Own2 == Op("OR", Op("NE", C("lo_revenue"), Lit(3)), Op("GE", C("lo_discount"), Lit(2)))

\* Up to two conditions of a set, in every order.
UpToTwo(S) == {<<>>} \cup {<<x>> : x \in S} \cup {<<x, y>> : x \in S, y \in S}

One == <<T("lineorder")>>
Two == <<T("lineorder"), T("dates")>>
Three == <<T("dates"), T("lineorder"), T("customer")>>

\* Aliases, with every column qualified: a join of a table with itself.
Aliased == {Statement(<<As("lineorder", "x"), As("lineorder", "y")>>,
              <<Op("EQ", Col("x", "lo_custkey"), Col("y", "lo_custkey"))>> \o w,
              Output(<<Col("x", "lo_revenue"), Col("y", "lo_revenue")>>, <<>>,
                     <<Desc(Col("y", "lo_revenue"))>>, Limit(<<>>, <<>>)), <<>>) :
              w \in {<<>>, <<Op("LT", Col("x", "lo_revenue"), Col("y", "lo_revenue"))>>,
                     <<Op("GT", Col("y", "lo_discount"), Lit(1))>>}}

\* Aliases whose projected columns are not materialised, or have no table.
AliasedUnordered ==
  {Statement(<<As("lineorder", "x"), As("lineorder", "y")>>,
             <<Op("EQ", Col("x", "lo_custkey"), Col("y", "lo_custkey"))>>,
             Output(<<SumOf(Col("x", "lo_revenue"))>>, <<>>, <<>>, Limit(<<>>, <<>>)), <<>>),
   Statement(<<As("lineorder", "x")>>, <<>>,
             Output(<<Col("x", "lo_revenue")>>, <<>>, <<>>, Limit(<<>>, <<>>)), <<>>)}

\* Statements the translator refuses.
Refused ==
  {Statement(Two, <<DateJoin, e>>, Plain, <<>>) :
     e \in {In(Lit(1), <<Lit(1)>>), In(C("d_year"), <<>>), In(C("d_year"), <<Lit(1), C("lo_discount")>>)}}
  \cup {Statement(One, <<>>, [Plain EXCEPT !.limit = l], <<>>) :
          l \in {Limit(<<C("lo_revenue")>>, <<>>), Limit(<<Lit(1)>>, <<C("lo_revenue")>>)}}
  \cup
  {Statement(Two, <<DateJoin, Op("OR", Year, Revenue)>>, Plain, <<>>),
   Statement(Two, <<Op("EQ", C("lo_orderdate"), C("key"))>>, Plain, <<>>),
   Statement(One, <<>>, [Plain EXCEPT !.order = <<Asc(Lit(1))>>], <<>>)}

-----------------------------------------------------------------------------
(* Statements for the whole compiler: at most two filters of a table, or a *)
(* union with filters, and one aggregate per group.                        *)
Filters == UpToTwo({Discount, Revenue, OneOf, Own})
             \cup {<<u>> \o w : u \in {Either, Own2}, w \in {<<>>, <<Discount>>, <<OneOf>>}}
NoLimits == Limit(<<>>, <<>>)
Sum == Output(<<C("lo_discount"), SumOf(C("lo_revenue"))>>, <<C("lo_discount")>>, <<>>, NoLimits)
SumMul == Output(<<C("lo_discount"), Agg("SUM", Mul, "r")>>, <<C("lo_discount")>>,
                 <<Desc(C("r")), Asc(C("lo_discount"))>>, Limit(<<Lit(2)>>, <<Lit(1)>>))
Count == Output(<<C("lo_discount"), Agg("COUNT", Star, "")>>, <<C("lo_discount")>>,
                <<Asc(Agg("COUNT", Star, "")), Desc(C("lo_discount"))>>, NoLimits)
Years == Output(<<C("d_year"), C("lo_discount"), Agg("MAX", C("lo_revenue"), "m")>>,
                <<C("d_year"), C("lo_discount")>>, <<Desc(C("m"))>>, NoLimits)
YearsCounted == Output(<<C("d_year")>>, <<C("d_year")>>, <<Asc(C("d_year"))>>, NoLimits)
CountAll == Output(<<Agg("COUNT", Star, "")>>, <<>>, <<>>, NoLimits)
SumAll == Output(<<SumOf(C("lo_revenue"))>>, <<>>, <<>>, NoLimits)
SumMulAll == Output(<<SumOf(Mul)>>, <<>>, <<>>, NoLimits)
Extremes == Output(<<Agg("MIN", C("lo_revenue"), ""), Agg("MAX", C("lo_discount"), ""),
                     Agg("COUNT", Star, "")>>, <<>>, <<>>, NoLimits)
Sorted == Output(<<C("lo_custkey"), C("lo_revenue")>>, <<>>,
                 <<Desc(C("lo_discount")), Asc(C("lo_revenue"))>>, Limit(<<Lit(3)>>, <<>>))
Limited == [Plain EXCEPT !.limit = Limit(<<Lit(2)>>, <<Lit(1)>>)]
Keys == Output(<<C("lo_orderdate"), C("d_datekey")>>, <<>>, <<>>, NoLimits)
Reversed == Op("EQ", C("lo_custkey"), C("c_custkey"))

Compiled ==
  {Statement(One, w, o, <<>>) : w \in Filters, o \in {Plain, Sorted}}
  \cup {Statement(One, w, o, <<>>) : w \in Filters \ {<<>>}, o \in {Sum, SumMul, Count, Extremes, CountAll, SumMulAll}}
  \cup {Statement(Two, <<DateJoin>> \o w, o, <<>>) : w \in UpToTwo({Discount, Year, Cross}),
          o \in {Plain, Keys, Sorted, Sum, SumMul, Count, Years, YearsCounted, CountAll, SumMulAll}}
  \cup {Statement(Two, <<DateJoin>> \o w, SumAll, <<>>) : w \in UpToTwo({Discount, Year})}
  \cup {Statement(Two, <<DateJoin, u, x>>, o, <<>>) : u \in {Either, Own2}, x \in {Year, Cross, Discount},
          o \in {Plain, Sum, Years, Extremes}}
  \cup {Statement(Three, w, o, <<>>) : o \in {Plain, Years},
          w \in {<<DateJoin, CustomerJoin>>, <<CustomerJoin, Closing, DateJoin, Region>>,
                 <<Closing, DateJoin, Revenue, Either, Region>>}}
  \cup {Statement(Three, w, o, <<Inner(<<Inner(<<Leaf("lineorder"), Leaf("date")>>), Leaf("customer")>>)>>) :
          w \in {<<DateJoin, Reversed>>, <<Reversed, Closing, DateJoin, Region>>}, o \in {Plain, Years}}
  \cup {Statement(Three, <<DateJoin, Reversed>>, o,
          <<Inner(<<Inner(<<Leaf("db.lineorder"), Leaf("dim_date")>>), Leaf("dim_customer")>>)>>) :
          o \in {Plain, Years}}
  \cup {Statement(One, w, Limited, <<>>) : w \in {<<>>, <<Discount>>}}
  \cup Aliased \cup AliasedUnordered \cup Refused
  \cup {Statement(Two, <<DateJoin>>, Output(<<Lit(1)>>, <<>>, <<>>, NoLimits), <<>>),
        Statement(One, <<CustomerJoin>>, Plain, <<>>)}

\* Two aggregates of one function, ordered by the second; external join orders
\* that name a table twice and miss one, and that no predicate follows.
Minima == Output(<<Agg("MIN", C("lo_revenue"), ""), Agg("MIN", C("lo_discount"), ""),
                   Agg("AVG", C("lo_revenue"), "")>>, <<>>, <<Asc(Agg("MIN", C("lo_discount"), ""))>>,
                 NoLimits)
Ordered ==
  {Statement(One, w, Minima, <<>>) : w \in Filters}
  \cup {Statement(Three, <<DateJoin, CustomerJoin>>, o, j) : o \in {Plain, Years},
          j \in {<<Inner(<<Leaf("customer"), Inner(<<Leaf("dates"), Leaf("customer")>>)>>)>>,
                 <<Inner(<<Inner(<<Leaf("dates"), Leaf("customer")>>), Leaf("lineorder")>>)>>}}

\* Several aggregates per group.
Multiple ==
  {Statement(One, w, Output(<<C("lo_discount"), SumOf(Mul), Agg("MAX", C("lo_revenue"), ""),
                              Agg("COUNT", Star, "n")>>, <<C("lo_discount")>>, <<>>, NoLimits), <<>>) :
     w \in Filters}
  \cup {Statement(Two, <<DateJoin>> \o w, Output(<<C("d_year"), SumOf(C("lo_revenue")),
          Agg("MIN", C("lo_discount"), "")>>, <<C("d_year")>>, <<>>, NoLimits), <<>>) : w \in Filters}

-----------------------------------------------------------------------------
(* Statements on which documents and code disagree.                        *)
Unconnected == {Statement(Two, <<Revenue>>, Plain, <<>>)}
LiteralFirst == {Statement(One, <<Op("LT", Lit(2), C("lo_discount"))>>, Plain, <<>>)}
Lowered == {Statement(<<T("customer")>>, <<Op("EQ", Fn("LOWER", C("c_region")), Lit("a"))>>,
              Output(<<C("c_nation")>>, <<>>, <<>>, Limit(<<>>, <<>>)), <<>>)}
AggregateFirst ==
  {Statement(One, <<>>, Output(<<SumOf(C("lo_revenue")), C("lo_discount")>>,
                               <<C("lo_discount")>>, <<>>, Limit(<<>>, <<>>)), <<>>)}
OrderBySum ==
  {Statement(One, <<>>, Output(<<C("lo_discount"), SumOf(C("lo_revenue")), SumOf(Mul)>>,
               <<C("lo_discount")>>, <<Asc(SumOf(Mul))>>, Limit(<<>>, <<>>)), <<>>)}
TwoMaps ==
  {Statement(One, <<>>, Output(<<SumOf(Mul), SumOf(Op("SUB", C("lo_revenue"), C("lo_discount")))>>,
               <<>>, <<>>, Limit(<<>>, <<>>)), <<>>)}
WideLimit == {Statement(One, <<>>, [Plain EXCEPT !.limit = Limit(<<Lit(17)>>, <<>>)], <<>>)}
AliasedByPrefix ==
  {Statement(<<As("lineorder", "l"), T("dates")>>, <<DateJoin>>,
             Output(<<C("d_year")>>, <<>>, <<>>, Limit(<<>>, <<>>)), <<>>)}

-----------------------------------------------------------------------------
(* Statements on which the physical optimizer departs from its documents.  *)
Stacked == {Statement(One, <<Discount, Revenue, OneOf>>, Plain, <<>>)}
GroupedScan == {Statement(One, <<>>, Sum, <<>>)}
GroupedDesc == {Statement(One, <<Discount>>, [Sum EXCEPT !.order = <<Desc(C("lo_discount"))>>], <<>>)}
FilteredSum == {Statement(One, <<Discount>>, SumAll, <<>>)}
ReversedOrder == {Statement(Three, <<DateJoin, CustomerJoin>>, Plain,
                    <<Inner(<<Inner(<<Leaf("lineorder"), Leaf("date")>>), Leaf("customer")>>)>>)}
GroupedByMin == {Statement(One, <<Discount>>, Output(<<C("lo_discount"), Agg("MIN", C("lo_revenue"), "")>>,
                   <<C("lo_discount")>>, <<Asc(Agg("MIN", C("lo_revenue"), ""))>>, NoLimits), <<>>)}

OrderBySumRev == {Statement(One, <<OneOf>>, Output(<<C("lo_discount"), Agg("SUM", C("lo_revenue"), "sum_rev")>>,
                    <<C("lo_discount")>>, <<Asc(C("sum_rev"))>>, NoLimits), <<>>)}
CountedGroups == {Statement(One, <<Discount>>, Output(<<C("lo_discount"), Agg("COUNT", Star, ""), Agg("MAX", C("lo_revenue"), "")>>,
                    <<C("lo_discount")>>, <<>>, NoLimits), <<>>)}

\* An item of a GROUPBY names no function; the item of the result names the
\* base table of an alias for a column that is materialised.
GroupedMax == {Statement(One, <<Discount>>, Output(<<C("lo_discount"), Agg("MAX", C("lo_revenue"), "")>>,
                 <<C("lo_discount")>>, <<>>, NoLimits), <<>>)}
AliasedResult == {Statement(<<As("lineorder", "x")>>, <<Op("GT", Col("x", "lo_discount"), Lit(1))>>,
                    Output(<<Col("x", "lo_revenue")>>, <<>>, <<>>, NoLimits), <<>>)}

\* The payload of an item cannot carry a union of three branches.
ThreeWay == {Statement(One, <<Op("OR", Either, Op("LT", C("lo_custkey"), Lit(2)))>>, Plain, <<>>)}
=============================================================================
