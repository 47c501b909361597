---------------------------- MODULE WorkItemMessages ----------------------------
(*****************************************************************************)
(* The generated classes of the work items (WorkItem.pb.h, WorkItem.pb.cc),   *)
(* in the form ValueMessages explains.                                        *)
(*****************************************************************************)
EXTENDS ValueMessages

(* FilterItem *)
FilterItem_inputcolumn == Nested("inputcolumn", 1, "ColumnMessage")
FilterItem_outputcolumn == Nested("outputcolumn", 2, "ColumnMessage")
FilterItem_filtertype == Optional("filtertype", 8, "CompType", 0)
FilterItem_filtervalue == Repeated("filtervalue", "ScalarValue")
FilterItem_stringop == Repeated("stringop", "StringOperation")
FilterItem_comparecolumn == Nested("comparecolumn", 4, "ColumnMessage")
FilterItem_Internal ==
  [inputcolumn |-> 1, outputcolumn |-> 2, filtertype |-> 8, comparecolumn |-> 4]
FilterItem_Copy ==
  [has |-> {"comparecolumn", "inputcolumn", "outputcolumn"}, plain |-> {"filtertype",
   "filtervalue", "stringop"}, cases |-> {}]
FilterItem_SharedCtor ==
  [filtervalue |-> <<>>, stringop |-> <<>>, inputcolumn |-> Null, outputcolumn |-> Null,
   comparecolumn |-> Null, filtertype |-> 0]
FilterItem_Clear ==
  [filtervalue |-> <<Always, <<>> >>, stringop |-> <<Always, <<>> >>,
   inputcolumn |-> <<{1}, Cleared>>, outputcolumn |-> <<{2}, Cleared>>,
   comparecolumn |-> <<{4}, Cleared>>, filtertype |-> <<Always, 0>>]
FilterItem_InternalParse ==
  [inputcolumn |-> <<1, {10}, "Mutable", "Message">>,
   outputcolumn |-> <<2, {18}, "Mutable", "Message">>,
   filtertype |-> <<3, {24}, "Set", "CompType">>, filtervalue |-> <<4, {34}, "Add", "Message">>,
   stringop |-> <<5, {40, 42}, "Add", "StringOperation">>,
   comparecolumn |-> <<6, {50}, "Mutable", "Message">>]
FilterItem_InternalSerialize ==
  << <<1, "inputcolumn", 1, "Message">>, <<2, "outputcolumn", 2, "Message">>,
    <<8, "filtertype", 3, "Enum">>, <<Each, "filtervalue", 4, "Message">>,
    <<Each, "stringop", 5, "Enum">>, <<4, "comparecolumn", 6, "Message">> >>
FilterItem_ByteSizeLong ==
  [filtervalue |-> <<Each, 1, "Message">>, stringop |-> <<Each, 1, "Enum">>,
   inputcolumn |-> <<1, 1, "Message">>, outputcolumn |-> <<2, 1, "Message">>,
   comparecolumn |-> <<4, 1, "Message">>, filtertype |-> <<8, 1, "Enum">>]
FilterItem_MergeImpl ==
  [filtervalue |-> Each, stringop |-> Each, inputcolumn |-> 1, outputcolumn |-> 2,
   comparecolumn |-> 4, filtertype |-> 8]
FilterItem_InternalSwap ==
  {"comparecolumn", "filtertype", "filtervalue", "inputcolumn", "outputcolumn", "stringop"}

(* MultiGroupItem *)
MultiGroupItem_groupcolumns == Repeated("groupcolumns", "ColumnMessage")
MultiGroupItem_outputindex == Nested("outputindex", 1, "ColumnMessage")
MultiGroupItem_outputclusters == Nested("outputclusters", 2, "ColumnMessage")
MultiGroupItem_aggregationcolumn == Nested("aggregationcolumn", 4, "ColumnMessage")
MultiGroupItem_aggregationresultcolumn == Nested("aggregationresultcolumn", 8, "ColumnMessage")
MultiGroupItem_storeextends == Optional("storeextends", 16, "bool", FALSE)
MultiGroupItem_sortorders == Repeated("sortorders", "bool")
MultiGroupItem_Internal ==
  [outputindex |-> 1, outputclusters |-> 2, aggregationcolumn |-> 4,
   aggregationresultcolumn |-> 8, storeextends |-> 16]
MultiGroupItem_Copy ==
  [has |-> {"aggregationcolumn", "aggregationresultcolumn", "outputclusters", "outputindex"},
   plain |-> {"groupcolumns", "sortorders", "storeextends"}, cases |-> {}]
MultiGroupItem_SharedCtor ==
  [groupcolumns |-> <<>>, sortorders |-> <<>>, outputindex |-> Null, outputclusters |-> Null,
   aggregationcolumn |-> Null, aggregationresultcolumn |-> Null, storeextends |-> FALSE]
MultiGroupItem_Clear ==
  [groupcolumns |-> <<Always, <<>> >>, sortorders |-> <<Always, <<>> >>,
   outputindex |-> <<{1}, Cleared>>, outputclusters |-> <<{2}, Cleared>>,
   aggregationcolumn |-> <<{4}, Cleared>>, aggregationresultcolumn |-> <<{8}, Cleared>>,
   storeextends |-> <<Always, FALSE>>]
MultiGroupItem_InternalParse ==
  [groupcolumns |-> <<1, {10}, "Add", "Message">>,
   outputindex |-> <<2, {18}, "Mutable", "Message">>,
   outputclusters |-> <<3, {26}, "Mutable", "Message">>,
   aggregationcolumn |-> <<4, {34}, "Mutable", "Message">>,
   aggregationresultcolumn |-> <<5, {42}, "Mutable", "Message">>,
   storeextends |-> <<6, {48}, "Has", "bool">>, sortorders |-> <<7, {56, 58}, "Add", "bool">>]
MultiGroupItem_InternalSerialize ==
  << <<Each, "groupcolumns", 1, "Message">>, <<1, "outputindex", 2, "Message">>,
    <<2, "outputclusters", 3, "Message">>, <<4, "aggregationcolumn", 4, "Message">>,
    <<8, "aggregationresultcolumn", 5, "Message">>, <<16, "storeextends", 6, "bool">>,
    <<Each, "sortorders", 7, "bool">> >>
MultiGroupItem_ByteSizeLong ==
  [groupcolumns |-> <<Each, 1, "Message">>, sortorders |-> <<Each, 1, "bool">>,
   outputindex |-> <<1, 1, "Message">>, outputclusters |-> <<2, 1, "Message">>,
   aggregationcolumn |-> <<4, 1, "Message">>, aggregationresultcolumn |-> <<8, 1, "Message">>,
   storeextends |-> <<16, 1, "bool">>]
MultiGroupItem_MergeImpl ==
  [groupcolumns |-> Each, sortorders |-> Each, outputindex |-> 1, outputclusters |-> 2,
   aggregationcolumn |-> 4, aggregationresultcolumn |-> 8, storeextends |-> 16]
MultiGroupItem_InternalSwap ==
  {"aggregationcolumn", "aggregationresultcolumn", "groupcolumns", "outputclusters",
   "outputindex", "sortorders", "storeextends"}

(* JoinItem *)
JoinItem_innercolumn == Nested("innercolumn", 1, "ColumnMessage")
JoinItem_outercolumn == Nested("outercolumn", 2, "ColumnMessage")
JoinItem_outputcolumn == Nested("outputcolumn", 4, "ColumnMessage")
JoinItem_joinpredicate == Optional("joinpredicate", 8, "CompType", 0)
JoinItem_produceinneroutput == Optional("produceinneroutput", 16, "bool", TRUE)
JoinItem_produceouteroutput == Optional("produceouteroutput", 32, "bool", TRUE)
JoinItem_Internal ==
  [innercolumn |-> 1, outercolumn |-> 2, outputcolumn |-> 4, joinpredicate |-> 8,
   produceinneroutput |-> 16, produceouteroutput |-> 32]

\* Fault: the copy constructor forgets the predicate
JoinItem_CopyNoPredicate ==
  [has |-> {"innercolumn", "outercolumn", "outputcolumn"},
   plain |-> {"produceinneroutput", "produceouteroutput"}, cases |-> {}]
JoinItem_Copy ==
  [has |-> {"innercolumn", "outercolumn", "outputcolumn"}, plain |-> {"joinpredicate",
   "produceinneroutput", "produceouteroutput"}, cases |-> {}]
JoinItem_SharedCtor ==
  [innercolumn |-> Null, outercolumn |-> Null, outputcolumn |-> Null, joinpredicate |-> 0,
   produceinneroutput |-> TRUE, produceouteroutput |-> TRUE]

\* Fault: the flags are left as they are
JoinItem_ClearKeepsFlags ==
  [innercolumn |-> <<{1}, Cleared>>, outercolumn |-> <<{2}, Cleared>>,
   outputcolumn |-> <<{4}, Cleared>>, joinpredicate |-> <<{8, 16, 32}, 0>>]
JoinItem_Clear ==
  [innercolumn |-> <<{1}, Cleared>>, outercolumn |-> <<{2}, Cleared>>,
   outputcolumn |-> <<{4}, Cleared>>, joinpredicate |-> <<{8, 16, 32}, 0>>,
   produceinneroutput |-> <<{8, 16, 32}, TRUE>>, produceouteroutput |-> <<{8, 16, 32}, TRUE>>]
JoinItem_InternalParse ==
  [innercolumn |-> <<1, {10}, "Mutable", "Message">>,
   outercolumn |-> <<2, {18}, "Mutable", "Message">>,
   outputcolumn |-> <<3, {26}, "Mutable", "Message">>,
   joinpredicate |-> <<9, {72}, "Set", "CompType">>,
   produceinneroutput |-> <<10, {80}, "Has", "bool">>,
   produceouteroutput |-> <<11, {88}, "Has", "bool">>]
JoinItem_InternalSerialize ==
  << <<1, "innercolumn", 1, "Message">>, <<2, "outercolumn", 2, "Message">>,
    <<4, "outputcolumn", 3, "Message">>, <<8, "joinpredicate", 9, "Enum">>,
    <<16, "produceinneroutput", 10, "bool">>, <<32, "produceouteroutput", 11, "bool">> >>
JoinItem_ByteSizeLong ==
  [innercolumn |-> <<1, 1, "Message">>, outercolumn |-> <<2, 1, "Message">>,
   outputcolumn |-> <<4, 1, "Message">>, joinpredicate |-> <<8, 1, "Enum">>,
   produceinneroutput |-> <<16, 1, "bool">>, produceouteroutput |-> <<32, 1, "bool">>]
JoinItem_MergeImpl ==
  [innercolumn |-> 1, outercolumn |-> 2, outputcolumn |-> 4, joinpredicate |-> 8,
   produceinneroutput |-> 16, produceouteroutput |-> 32]
JoinItem_InternalSwap ==
  {"innercolumn", "joinpredicate", "outercolumn", "outputcolumn", "produceinneroutput",
   "produceouteroutput"}

(* AggItem *)
AggItem_inputcolumn == Nested("inputcolumn", 1, "ColumnMessage")
AggItem_outputcolumn == Nested("outputcolumn", 2, "ColumnMessage")
AggItem_aggfunc == Optional("aggfunc", 4, "AggFunc", 1)
AggItem_groupcolumns == Repeated("groupcolumns", "string")
AggItem_Internal == [inputcolumn |-> 1, outputcolumn |-> 2, aggfunc |-> 4]
AggItem_Copy ==
  [has |-> {"inputcolumn", "outputcolumn"}, plain |-> {"aggfunc", "groupcolumns"}, cases |-> {}]
AggItem_SharedCtor ==
  [groupcolumns |-> <<>>, inputcolumn |-> Null, outputcolumn |-> Null, aggfunc |-> 1]
AggItem_Clear ==
  [groupcolumns |-> <<Always, <<>> >>, inputcolumn |-> <<{1}, Cleared>>,
   outputcolumn |-> <<{2}, Cleared>>, aggfunc |-> <<{1, 2, 4}, 1>>]
AggItem_InternalParse ==
  [inputcolumn |-> <<1, {10}, "Mutable", "Message">>,
   outputcolumn |-> <<2, {18}, "Mutable", "Message">>, aggfunc |-> <<3, {24}, "Set", "AggFunc">>,
   groupcolumns |-> <<4, {34}, "Add", "string">>]
AggItem_InternalSerialize ==
  << <<1, "inputcolumn", 1, "Message">>, <<2, "outputcolumn", 2, "Message">>,
    <<4, "aggfunc", 3, "Enum">>, <<Each, "groupcolumns", 4, "string">> >>
AggItem_ByteSizeLong ==
  [groupcolumns |-> <<Each, 1, "string">>, inputcolumn |-> <<1, 1, "Message">>,
   outputcolumn |-> <<2, 1, "Message">>, aggfunc |-> <<4, 1, "Enum">>]
AggItem_MergeImpl == [groupcolumns |-> Each, inputcolumn |-> 1, outputcolumn |-> 2, aggfunc |-> 4]
AggItem_InternalSwap == {"aggfunc", "groupcolumns", "inputcolumn", "outputcolumn"}

(* SortItem *)
SortItem_inputcolumns == Repeated("inputcolumns", "ColumnMessage")
SortItem_sortorder == Repeated("sortorder", "bool")
SortItem_indexoutput == Nested("indexoutput", 1, "ColumnMessage")
SortItem_existingindex == Nested("existingindex", 2, "ColumnMessage")
SortItem_Internal == [indexoutput |-> 1, existingindex |-> 2]
SortItem_Copy ==
  [has |-> {"existingindex", "indexoutput"}, plain |-> {"inputcolumns", "sortorder"},
   cases |-> {}]
SortItem_SharedCtor ==
  [inputcolumns |-> <<>>, sortorder |-> <<>>, indexoutput |-> Null, existingindex |-> Null]
SortItem_Clear ==
  [inputcolumns |-> <<Always, <<>> >>, sortorder |-> <<Always, <<>> >>,
   indexoutput |-> <<{1}, Cleared>>, existingindex |-> <<{2}, Cleared>>]
SortItem_InternalParse ==
  [inputcolumns |-> <<1, {10}, "Add", "Message">>, sortorder |-> <<2, {16, 18}, "Add", "bool">>,
   indexoutput |-> <<3, {26}, "Mutable", "Message">>,
   existingindex |-> <<4, {34}, "Mutable", "Message">>]
SortItem_InternalSerialize ==
  << <<Each, "inputcolumns", 1, "Message">>, <<Each, "sortorder", 2, "bool">>,
    <<1, "indexoutput", 3, "Message">>, <<2, "existingindex", 4, "Message">> >>
SortItem_ByteSizeLong ==
  [inputcolumns |-> <<Each, 1, "Message">>, sortorder |-> <<Each, 1, "bool">>,
   indexoutput |-> <<1, 1, "Message">>, existingindex |-> <<2, 1, "Message">>]
SortItem_MergeImpl ==
  [inputcolumns |-> Each, sortorder |-> Each, indexoutput |-> 1, existingindex |-> 2]
SortItem_InternalSwap == {"existingindex", "indexoutput", "inputcolumns", "sortorder"}

(* MapItem *)
MapItem_inputcolumn == Nested("inputcolumn", 1, "ColumnMessage")
MapItem_outputcolumn == Nested("outputcolumn", 2, "ColumnMessage")
MapItem_operatortype == Optional("operatortype", 4, "ArithOp", 1)
MapItem_partnercolumn == OneOf("partnercolumn", 4, "ColumnMessage")
MapItem_staticval == OneOf("staticval", 5, "ScalarValue")
MapItem_Internal == [inputcolumn |-> 1, outputcolumn |-> 2, operatortype |-> 4]
MapItem_Copy ==
  [has |-> {"inputcolumn", "outputcolumn"}, plain |-> {"operatortype"},
   cases |-> {"partnercolumn", "staticval"}]
MapItem_SharedCtor == [inputcolumn |-> Null, outputcolumn |-> Null, operatortype |-> 1]
MapItem_Clear ==
  [inputcolumn |-> <<{1}, Cleared>>, outputcolumn |-> <<{2}, Cleared>>,
   operatortype |-> <<{1, 2, 4}, 1>>]
MapItem_InternalParse ==
  [inputcolumn |-> <<1, {10}, "Mutable", "Message">>,
   outputcolumn |-> <<2, {18}, "Mutable", "Message">>,
   operatortype |-> <<3, {24}, "Set", "ArithOp">>,
   partnercolumn |-> <<4, {34}, "Mutable", "Message">>,
   staticval |-> <<5, {42}, "Mutable", "Message">>]
MapItem_InternalSerialize ==
  << <<1, "inputcolumn", 1, "Message">>, <<2, "outputcolumn", 2, "Message">>,
    <<4, "operatortype", 3, "Enum">>, <<Case, "partnercolumn", 4, "Message">>,
    <<Case, "staticval", 5, "Message">> >>
MapItem_ByteSizeLong ==
  [inputcolumn |-> <<1, 1, "Message">>, outputcolumn |-> <<2, 1, "Message">>,
   operatortype |-> <<4, 1, "Enum">>, partnercolumn |-> <<Case, 1, "Message">>,
   staticval |-> <<Case, 1, "Message">>]

MapItem_MergeImpl ==
  [inputcolumn |-> 1, outputcolumn |-> 2, operatortype |-> 4, partnercolumn |-> Case,
   staticval |-> Case]
MapItem_InternalSwap == {"inputcolumn", "oneof", "operatortype", "outputcolumn"}

(* MaterializeItem *)
MaterializeItem_indexcolumn == Nested("indexcolumn", 1, "ColumnMessage")
MaterializeItem_filtercolumn == Nested("filtercolumn", 2, "ColumnMessage")
MaterializeItem_outputcolumn == Nested("outputcolumn", 4, "ColumnMessage")
MaterializeItem_Internal == [indexcolumn |-> 1, filtercolumn |-> 2, outputcolumn |-> 4]
MaterializeItem_Copy ==
  [has |-> {"filtercolumn", "indexcolumn", "outputcolumn"}, plain |-> {}, cases |-> {}]
MaterializeItem_SharedCtor == [indexcolumn |-> Null, filtercolumn |-> Null, outputcolumn |-> Null]
MaterializeItem_Clear ==
  [indexcolumn |-> <<{1}, Cleared>>, filtercolumn |-> <<{2}, Cleared>>,
   outputcolumn |-> <<{4}, Cleared>>]
MaterializeItem_InternalParse ==
  [indexcolumn |-> <<1, {10}, "Mutable", "Message">>,
   filtercolumn |-> <<2, {18}, "Mutable", "Message">>,
   outputcolumn |-> <<3, {26}, "Mutable", "Message">>]
MaterializeItem_InternalSerialize ==
  << <<1, "indexcolumn", 1, "Message">>, <<2, "filtercolumn", 2, "Message">>,
    <<4, "outputcolumn", 3, "Message">> >>
MaterializeItem_ByteSizeLong ==
  [indexcolumn |-> <<1, 1, "Message">>, filtercolumn |-> <<2, 1, "Message">>,
   outputcolumn |-> <<4, 1, "Message">>]
MaterializeItem_MergeImpl == [indexcolumn |-> 1, filtercolumn |-> 2, outputcolumn |-> 4]
MaterializeItem_InternalSwap == {"filtercolumn", "indexcolumn", "outputcolumn"}

(* SetOperationItem *)
SetOperationItem_operation == Optional("operation", 8, "RelOp", 1)
SetOperationItem_innercolumn == Nested("innercolumn", 1, "ColumnMessage")
SetOperationItem_outercolumn == Nested("outercolumn", 2, "ColumnMessage")
SetOperationItem_outputcolumn == Nested("outputcolumn", 4, "ColumnMessage")
SetOperationItem_Internal ==
  [operation |-> 8, innercolumn |-> 1, outercolumn |-> 2, outputcolumn |-> 4]
SetOperationItem_Copy ==
  [has |-> {"innercolumn", "outercolumn", "outputcolumn"}, plain |-> {"operation"}, cases |-> {}]
SetOperationItem_SharedCtor ==
  [innercolumn |-> Null, outercolumn |-> Null, outputcolumn |-> Null, operation |-> 1]
SetOperationItem_Clear ==
  [innercolumn |-> <<{1}, Cleared>>, outercolumn |-> <<{2}, Cleared>>,
   outputcolumn |-> <<{4}, Cleared>>, operation |-> <<{1, 2, 4, 8}, 1>>]
SetOperationItem_InternalParse ==
  [operation |-> <<1, {8}, "Set", "RelOp">>, innercolumn |-> <<2, {18}, "Mutable", "Message">>,
   outercolumn |-> <<3, {26}, "Mutable", "Message">>,
   outputcolumn |-> <<4, {34}, "Mutable", "Message">>]

\* Fault: inner and outer column under each other's number
SetOperationItem_SerializeSwapped ==
  << <<8, "operation", 1, "Enum">>, <<1, "innercolumn", 3, "Message">>,
     <<2, "outercolumn", 2, "Message">>, <<4, "outputcolumn", 4, "Message">> >>
SetOperationItem_InternalSerialize ==
  << <<8, "operation", 1, "Enum">>, <<1, "innercolumn", 2, "Message">>,
    <<2, "outercolumn", 3, "Message">>, <<4, "outputcolumn", 4, "Message">> >>
SetOperationItem_ByteSizeLong ==
  [innercolumn |-> <<1, 1, "Message">>, outercolumn |-> <<2, 1, "Message">>,
   outputcolumn |-> <<4, 1, "Message">>, operation |-> <<8, 1, "Enum">>]
SetOperationItem_MergeImpl ==
  [innercolumn |-> 1, outercolumn |-> 2, outputcolumn |-> 4, operation |-> 8]
SetOperationItem_InternalSwap == {"innercolumn", "operation", "outercolumn", "outputcolumn"}

(* FetchItem *)
FetchItem_inputcolumn == Nested("inputcolumn", 1, "ColumnMessage")
FetchItem_printtofile == Optional("printtofile", 2, "bool", FALSE)
FetchItem_Internal == [inputcolumn |-> 1, printtofile |-> 2]
FetchItem_Copy == [has |-> {"inputcolumn"}, plain |-> {"printtofile"}, cases |-> {}]
FetchItem_SharedCtor == [inputcolumn |-> Null, printtofile |-> FALSE]
FetchItem_Clear == [inputcolumn |-> <<{1}, Cleared>>, printtofile |-> <<Always, FALSE>>]
FetchItem_InternalParse ==
  [inputcolumn |-> <<1, {10}, "Mutable", "Message">>, printtofile |-> <<2, {16}, "Has", "bool">>]
FetchItem_InternalSerialize ==
  << <<1, "inputcolumn", 1, "Message">>, <<2, "printtofile", 2, "bool">> >>
FetchItem_RequiredFieldsByteSizeFallback ==
  [inputcolumn |-> <<1, 1, "Message">>, printtofile |-> <<2, 1, "bool">>]
FetchItem_ByteSizeLong ==
  [inputcolumn |-> <<AllRequired, 1, "Message">>, printtofile |-> <<AllRequired, 1, "bool">>]
FetchItem_MergeImpl == [inputcolumn |-> 1, printtofile |-> 2]
FetchItem_IsInitialized == [required |-> {1, 2}, nested |-> {}]
FetchItem_InternalSwap == {"inputcolumn", "printtofile"}

(* ResultItem *)
ResultItem_filename == Optional("filename", 1, "string", <<>>)
ResultItem_resultcolumns == Repeated("resultcolumns", "ColumnMessage")
ResultItem_resultheader == Repeated("resultheader", "string")
ResultItem_resultindex == Nested("resultindex", 2, "ColumnMessage")
ResultItem_limitcount == Optional("limitcount", 4, "uint32", 0)
ResultItem_offsetcount == Optional("offsetcount", 8, "uint32", 0)
ResultItem_Internal == [filename |-> 1, resultindex |-> 2, limitcount |-> 4, offsetcount |-> 8]
ResultItem_Copy ==
  [has |-> {"filename", "resultindex"}, plain |-> {"limitcount", "offsetcount", "resultcolumns",
   "resultheader"}, cases |-> {}]
ResultItem_SharedCtor ==
  [resultcolumns |-> <<>>, resultheader |-> <<>>, filename |-> <<>>, resultindex |-> Null,
   limitcount |-> 0, offsetcount |-> 0]
ResultItem_Clear ==
  [resultcolumns |-> <<Always, <<>> >>, resultheader |-> <<Always, <<>> >>,
   filename |-> <<{1}, <<>> >>, resultindex |-> <<{2}, Cleared>>, limitcount |-> <<{4, 8}, 0>>,
   offsetcount |-> <<{4, 8}, 0>>]
ResultItem_InternalParse ==
  [filename |-> <<1, {10}, "Mutable", "string">>, resultcolumns |-> <<2, {18}, "Add", "Message">>,
   resultheader |-> <<3, {26}, "Add", "string">>,
   resultindex |-> <<4, {34}, "Mutable", "Message">>, limitcount |-> <<5, {40}, "Has", "uint32">>,
   offsetcount |-> <<6, {48}, "Has", "uint32">>]
ResultItem_InternalSerialize ==
  << <<1, "filename", 1, "string">>, <<Each, "resultcolumns", 2, "Message">>,
    <<Each, "resultheader", 3, "string">>, <<2, "resultindex", 4, "Message">>,
    <<4, "limitcount", 5, "uint32">>, <<8, "offsetcount", 6, "uint32">> >>
ResultItem_ByteSizeLong ==
  [filename |-> <<1, 1, "string">>, resultcolumns |-> <<Each, 1, "Message">>,
   resultheader |-> <<Each, 1, "string">>, resultindex |-> <<2, 1, "Message">>,
   limitcount |-> <<4, 1, "uint32">>, offsetcount |-> <<8, 1, "uint32">>]
ResultItem_MergeImpl ==
  [resultcolumns |-> Each, resultheader |-> Each, filename |-> 1, resultindex |-> 2,
   limitcount |-> 4, offsetcount |-> 8]
ResultItem_IsInitialized == [required |-> {1}, nested |-> {}]
ResultItem_InternalSwap ==
  {"filename", "limitcount", "offsetcount", "resultcolumns", "resultheader", "resultindex"}

(* WorkItem *)
WorkItem_planid == Optional("planid", 1, "uint32", 0)
WorkItem_itemid == Optional("itemid", 2, "uint32", 0)
WorkItem_operatorid == Optional("operatorid", 8, "OperatorType", 1)
WorkItem_printdebug == Optional("printdebug", 4, "bool", FALSE)
WorkItem_simdext == Optional("simdext", 16, "SIMDISE", 1)
WorkItem_filterdata == OneOf("filterdata", 6, "FilterItem")
WorkItem_joindata == OneOf("joindata", 7, "JoinItem")
WorkItem_aggdata == OneOf("aggdata", 8, "AggItem")
WorkItem_sortdata == OneOf("sortdata", 9, "SortItem")
WorkItem_mapdata == OneOf("mapdata", 10, "MapItem")
WorkItem_materializedata == OneOf("materializedata", 11, "MaterializeItem")
WorkItem_setdata == OneOf("setdata", 12, "SetOperationItem")
WorkItem_fetchdata == OneOf("fetchdata", 13, "FetchItem")
WorkItem_multigroupdata == OneOf("multigroupdata", 14, "MultiGroupItem")
WorkItem_resultdata == OneOf("resultdata", 15, "ResultItem")
WorkItem_dependson == Repeated("dependson", "uint32")
WorkItem_Internal ==
  [planid |-> 1, itemid |-> 2, operatorid |-> 8, printdebug |-> 4, simdext |-> 16]
WorkItem_Copy ==
  [has |-> {}, plain |-> {"dependson", "itemid", "operatorid", "planid", "printdebug", "simdext"},
   cases |-> {"aggdata", "fetchdata", "filterdata", "joindata", "mapdata", "materializedata",
   "multigroupdata", "resultdata", "setdata", "sortdata"}]
WorkItem_SharedCtor ==
  [dependson |-> <<>>, planid |-> 0, itemid |-> 0, printdebug |-> FALSE, operatorid |-> 1,
   simdext |-> 1]
WorkItem_Clear ==
  [dependson |-> <<Always, <<>> >>, planid |-> <<{1, 2, 4, 8, 16}, 0>>,
   itemid |-> <<{1, 2, 4, 8, 16}, 0>>, printdebug |-> <<{1, 2, 4, 8, 16}, FALSE>>,
   operatorid |-> <<{1, 2, 4, 8, 16}, 1>>, simdext |-> <<{1, 2, 4, 8, 16}, 1>>]
WorkItem_InternalParse ==
  [planid |-> <<1, {8}, "Has", "uint32">>, itemid |-> <<2, {16}, "Has", "uint32">>,
   operatorid |-> <<3, {24}, "Set", "OperatorType">>, printdebug |-> <<4, {32}, "Has", "bool">>,
   simdext |-> <<5, {40}, "Set", "SIMDISE">>, filterdata |-> <<6, {50}, "Mutable", "Message">>,
   joindata |-> <<7, {58}, "Mutable", "Message">>, aggdata |-> <<8, {66}, "Mutable", "Message">>,
   sortdata |-> <<9, {74}, "Mutable", "Message">>, mapdata |-> <<10, {82}, "Mutable", "Message">>,
   materializedata |-> <<11, {90}, "Mutable", "Message">>,
   setdata |-> <<12, {98}, "Mutable", "Message">>,
   fetchdata |-> <<13, {106}, "Mutable", "Message">>,
   multigroupdata |-> <<14, {114}, "Mutable", "Message">>,
   resultdata |-> <<15, {122}, "Mutable", "Message">>,
   dependson |-> <<16, {128, 130}, "Add", "uint32">>]
WorkItem_InternalSerialize ==
  << <<1, "planid", 1, "uint32">>, <<2, "itemid", 2, "uint32">>, <<8, "operatorid", 3, "Enum">>,
    <<4, "printdebug", 4, "bool">>, <<16, "simdext", 5, "Enum">>,
    <<Case, "filterdata", 6, "Message">>, <<Case, "joindata", 7, "Message">>,
    <<Case, "aggdata", 8, "Message">>, <<Case, "sortdata", 9, "Message">>,
    <<Case, "mapdata", 10, "Message">>, <<Case, "materializedata", 11, "Message">>,
    <<Case, "setdata", 12, "Message">>, <<Case, "fetchdata", 13, "Message">>,
    <<Case, "multigroupdata", 14, "Message">>, <<Case, "resultdata", 15, "Message">>,
    <<Each, "dependson", 16, "uint32">> >>
WorkItem_ByteSizeLong ==
  [dependson |-> <<Each, 2, "uint32">>, planid |-> <<1, 1, "uint32">>,
   itemid |-> <<2, 1, "uint32">>, printdebug |-> <<4, 1, "bool">>,
   operatorid |-> <<8, 1, "Enum">>, simdext |-> <<16, 1, "Enum">>,
   filterdata |-> <<Case, 1, "Message">>, joindata |-> <<Case, 1, "Message">>,
   aggdata |-> <<Case, 1, "Message">>, sortdata |-> <<Case, 1, "Message">>,
   mapdata |-> <<Case, 1, "Message">>, materializedata |-> <<Case, 1, "Message">>,
   setdata |-> <<Case, 1, "Message">>, fetchdata |-> <<Case, 1, "Message">>,
   multigroupdata |-> <<Case, 1, "Message">>, resultdata |-> <<Case, 1, "Message">>]
WorkItem_MergeImpl ==
  [dependson |-> Each, planid |-> 1, itemid |-> 2, printdebug |-> 4, operatorid |-> 8,
   simdext |-> 16, filterdata |-> Case, joindata |-> Case, aggdata |-> Case, sortdata |-> Case,
   mapdata |-> Case, materializedata |-> Case, setdata |-> Case, fetchdata |-> Case,
   multigroupdata |-> Case, resultdata |-> Case]

WorkItem_IsInitialized == [required |-> {}, nested |-> {"fetchdata", "resultdata"}]
WorkItem_InternalSwap ==
  {"dependson", "itemid", "oneof", "operatorid", "planid", "printdebug", "simdext"}

==============================================================================
