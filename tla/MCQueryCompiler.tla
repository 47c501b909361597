--------------------------- MODULE MCQueryCompiler ---------------------------
(* Instances of QueryCompiler for TLC.                                     *)
EXTENDS QueryCompiler

S == INSTANCE Statements
MCData == S!D
MCPrefix == S!PrefixOf
MCStatements == S!Compiled \cup S!Ordered \cup S!Multiple

\* One set of statements for each departure the README describes.
MCUnconnected == S!Unconnected
MCLiteralFirst == S!LiteralFirst
MCLowered == S!Lowered
MCAggregateFirst == S!AggregateFirst
MCOrderBySum == S!OrderBySum
MCTwoMaps == S!TwoMaps
MCAliasedByPrefix == S!AliasedByPrefix
MCStacked == S!Stacked
MCGroupedScan == S!GroupedScan
MCGroupedDesc == S!GroupedDesc
MCFilteredSum == S!FilteredSum
MCReversedOrder == S!ReversedOrder
MCGroupedByMin == S!GroupedByMin
MCThreeWay == S!ThreeWay
MCWideLimit == S!WideLimit
MCOrderBySumRev == S!OrderBySumRev
MCCountedGroups == S!CountedGroups
MCGroupedMax == S!GroupedMax
MCAliasedResult == S!AliasedResult
=============================================================================
