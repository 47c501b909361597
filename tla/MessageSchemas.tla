----------------------------- MODULE MessageSchemas -----------------------------
(*****************************************************************************)
(* The messages as src/proto declares them: number, name, label and type of   *)
(* every field in the order of the numbers, and the default where one is      *)
(* written.  This is what a peer in any language reads and writes, and what   *)
(* the generated C++ classes are measured against.  QueryGroup and            *)
(* ExtendedResult have no generated class.                                    *)
(*****************************************************************************)
EXTENDS Integers, Sequences

IntValue_proto == << <<1, "value", "optional", "uint64">> >>
FloatValue_proto == << <<1, "value", "optional", "double">> >>
StringValue_proto == << <<1, "value", "optional", "string">> >>
ScalarValue_proto ==
  << <<1, "intval", "oneof", "IntValue">>, <<2, "floatval", "oneof", "FloatValue">>,
    <<3, "stringval", "oneof", "StringValue">> >>
ColumnMessage_proto ==
  << <<1, "tabname", "optional", "string">>, <<2, "colname", "optional", "string">>,
    <<3, "coltype", "optional", "ColumnType">>, <<4, "isbase", "optional", "bool", FALSE>> >>
FilterItem_proto ==
  << <<1, "inputcolumn", "optional", "ColumnMessage">>,
    <<2, "outputcolumn", "optional", "ColumnMessage">>,
    <<3, "filtertype", "optional", "CompType">>, <<4, "filtervalue", "repeated", "ScalarValue">>,
    <<5, "stringop", "repeated", "StringOperation">>,
    <<6, "comparecolumn", "optional", "ColumnMessage">> >>
MultiGroupItem_proto ==
  << <<1, "groupcolumns", "repeated", "ColumnMessage">>,
    <<2, "outputindex", "optional", "ColumnMessage">>,
    <<3, "outputclusters", "optional", "ColumnMessage">>,
    <<4, "aggregationcolumn", "optional", "ColumnMessage">>,
    <<5, "aggregationresultcolumn", "optional", "ColumnMessage">>,
    <<6, "storeextends", "optional", "bool", FALSE>>, <<7, "sortorders", "repeated", "bool">> >>
JoinItem_proto ==
  << <<1, "innercolumn", "optional", "ColumnMessage">>,
    <<2, "outercolumn", "optional", "ColumnMessage">>,
    <<3, "outputcolumn", "optional", "ColumnMessage">>,
    <<9, "joinpredicate", "optional", "CompType">>,
    <<10, "produceinneroutput", "optional", "bool", TRUE>>,
    <<11, "produceouteroutput", "optional", "bool", TRUE>> >>
AggItem_proto ==
  << <<1, "inputcolumn", "optional", "ColumnMessage">>,
    <<2, "outputcolumn", "optional", "ColumnMessage">>, <<3, "aggfunc", "optional", "AggFunc">>,
    <<4, "groupcolumns", "repeated", "string">> >>
SortItem_proto ==
  << <<1, "inputcolumns", "repeated", "ColumnMessage">>, <<2, "sortorder", "repeated", "bool">>,
    <<3, "indexoutput", "optional", "ColumnMessage">>,
    <<4, "existingindex", "optional", "ColumnMessage">> >>
MapItem_proto ==
  << <<1, "inputcolumn", "optional", "ColumnMessage">>,
    <<2, "outputcolumn", "optional", "ColumnMessage">>,
    <<3, "operatortype", "optional", "ArithOp">>,
    <<4, "partnercolumn", "oneof", "ColumnMessage">>, <<5, "staticval", "oneof", "ScalarValue">> >>
MaterializeItem_proto ==
  << <<1, "indexcolumn", "optional", "ColumnMessage">>,
    <<2, "filtercolumn", "optional", "ColumnMessage">>,
    <<3, "outputcolumn", "optional", "ColumnMessage">> >>
SetOperationItem_proto ==
  << <<1, "operation", "optional", "RelOp">>, <<2, "innercolumn", "optional", "ColumnMessage">>,
    <<3, "outercolumn", "optional", "ColumnMessage">>,
    <<4, "outputcolumn", "optional", "ColumnMessage">> >>
FetchItem_proto ==
  << <<1, "inputcolumn", "required", "ColumnMessage">>, <<2, "printtofile", "required", "bool">> >>
ResultItem_proto ==
  << <<1, "filename", "required", "string">>, <<2, "resultcolumns", "repeated", "ColumnMessage">>,
    <<3, "resultheader", "repeated", "string">>,
    <<4, "resultindex", "optional", "ColumnMessage">>, <<5, "limitcount", "optional", "uint32">>,
    <<6, "offsetcount", "optional", "uint32", 0>> >>
WorkItem_proto ==
  << <<1, "planid", "optional", "uint32">>, <<2, "itemid", "optional", "uint32">>,
    <<3, "operatorid", "optional", "OperatorType">>, <<4, "printdebug", "optional", "bool">>,
    <<5, "simdext", "optional", "SIMDISE", 1>>, <<6, "filterdata", "oneof", "FilterItem">>,
    <<7, "joindata", "oneof", "JoinItem">>, <<8, "aggdata", "oneof", "AggItem">>,
    <<9, "sortdata", "oneof", "SortItem">>, <<10, "mapdata", "oneof", "MapItem">>,
    <<11, "materializedata", "oneof", "MaterializeItem">>,
    <<12, "setdata", "oneof", "SetOperationItem">>, <<13, "fetchdata", "oneof", "FetchItem">>,
    <<14, "multigroupdata", "oneof", "MultiGroupItem">>,
    <<15, "resultdata", "oneof", "ResultItem">>, <<16, "dependson", "repeated", "uint32">> >>
UnitDefinition_proto ==
  << <<1, "unit_type", "optional", "uint32", 0>>, <<2, "info", "optional", "string">>,
    <<3, "prettyname", "optional", "string">> >>
QueryPlan_proto ==
  << <<1, "planid", "optional", "uint32">>, <<2, "planitems", "repeated", "WorkItem">> >>
TestDataSetup_proto ==
  << <<1, "itemid", "optional", "uint32">>, <<2, "action", "optional", "BenchmarkAction">>,
    <<3, "elementcount", "optional", "uint64">>, <<4, "datatype", "optional", "DataType">>,
    <<5, "randomseed", "optional", "uint64">>, <<6, "tablename", "optional", "string">>,
    <<7, "columnname", "optional", "string">>, <<8, "tableidentifier", "optional", "string">> >>
WorkRequest_proto ==
  << <<1, "testdatasetup", "oneof", "TestDataSetup">>, <<2, "queryplan", "oneof", "QueryPlan">>,
    <<3, "workitem", "oneof", "WorkItem">>, <<4, "querygroup", "oneof", "QueryGroup">> >>
ForwardedWorkRequest_proto == << <<1, "request", "required", "WorkRequest">> >>
WorkResponse_proto ==
  << <<1, "planid", "optional", "uint32">>, <<2, "itemid", "optional", "uint32">>,
    <<3, "info", "optional", "string">>, <<4, "success", "optional", "bool">>,
    <<5, "extendedresult", "optional", "ExtendedResult">> >>
ConnectItem_proto ==
  << <<1, "destinationip", "required", "string">>, <<2, "port", "required", "uint32">>,
    <<3, "action", "required", "ActionType">>,
    <<4, "connectiontype", "required", "ConnectionType">> >>
ConnectInfo_proto ==
  << <<1, "original_request", "required", "ConnectItem">>, <<2, "success", "required", "bool">> >>
UuidForUnitRequest_proto == << <<1, "requestedunittype", "required", "uint32">> >>
UuidForUnitResponse_proto ==
  << <<1, "requestedunittype", "required", "uint32">>, <<2, "uuids", "repeated", "uint64">>,
    <<3, "names", "repeated", "string">> >>
ConfigurationItem_proto ==
  << <<1, "type", "required", "ConfigType">>, <<2, "worker_count", "optional", "uint64">> >>
QueryGroup_proto ==
  << <<1, "groupid", "required", "uint64">>, <<2, "columntransfers", "repeated", "WorkItem">>,
    <<3, "plans", "repeated", "QueryPlan">> >>
ExtendedResult_proto ==
  << <<1, "itemid", "optional", "uint32">>, <<2, "start", "optional", "uint64">>,
    <<3, "end", "optional", "uint64">>, <<4, "rowcount", "optional", "uint64">> >>

Schemas ==
  [IntValue |-> IntValue_proto, FloatValue |-> FloatValue_proto,
   StringValue |-> StringValue_proto, ScalarValue |-> ScalarValue_proto,
   ColumnMessage |-> ColumnMessage_proto, FilterItem |-> FilterItem_proto,
   MultiGroupItem |-> MultiGroupItem_proto, JoinItem |-> JoinItem_proto,
   AggItem |-> AggItem_proto, SortItem |-> SortItem_proto, MapItem |-> MapItem_proto,
   MaterializeItem |-> MaterializeItem_proto, SetOperationItem |-> SetOperationItem_proto,
   FetchItem |-> FetchItem_proto, ResultItem |-> ResultItem_proto, WorkItem |-> WorkItem_proto,
   UnitDefinition |-> UnitDefinition_proto, QueryPlan |-> QueryPlan_proto,
   TestDataSetup |-> TestDataSetup_proto, WorkRequest |-> WorkRequest_proto,
   ForwardedWorkRequest |-> ForwardedWorkRequest_proto, WorkResponse |-> WorkResponse_proto,
   ConnectItem |-> ConnectItem_proto, ConnectInfo |-> ConnectInfo_proto,
   UuidForUnitRequest |-> UuidForUnitRequest_proto,
   UuidForUnitResponse |-> UuidForUnitResponse_proto,
   ConfigurationItem |-> ConfigurationItem_proto, QueryGroup |-> QueryGroup_proto,
   ExtendedResult |-> ExtendedResult_proto]

=============================================================================
