---------------------------- MODULE RequestMessages -----------------------------
(*****************************************************************************)
(* The generated classes of the other .proto files, in the form               *)
(* ValueMessages explains: UnitDefinition, QueryPlan, TestDataSetup,          *)
(* WorkRequest, WorkResponse and the network and configuration requests.      *)
(*****************************************************************************)
EXTENDS WorkItemMessages

(* UnitDefinition *)
UnitDefinition_unit_type == Optional("unit_type", 4, "uint32", 0)
UnitDefinition_info == Optional("info", 1, "string", <<>>)
UnitDefinition_prettyname == Optional("prettyname", 2, "string", <<>>)
UnitDefinition_Internal == [unit_type |-> 4, info |-> 1, prettyname |-> 2]
UnitDefinition_Copy == [has |-> {"info", "prettyname"}, plain |-> {"unit_type"}, cases |-> {}]
UnitDefinition_SharedCtor == [info |-> <<>>, prettyname |-> <<>>, unit_type |-> 0]
UnitDefinition_Clear ==
  [info |-> <<{1}, <<>> >>, prettyname |-> <<{2}, <<>> >>, unit_type |-> <<Always, 0>>]
UnitDefinition_InternalParse ==
  [unit_type |-> <<1, {8}, "Has", "uint32">>, info |-> <<2, {18}, "Mutable", "string">>,
   prettyname |-> <<3, {26}, "Mutable", "string">>]
UnitDefinition_InternalSerialize ==
  << <<4, "unit_type", 1, "uint32">>, <<1, "info", 2, "string">>,
    <<2, "prettyname", 3, "string">> >>
UnitDefinition_ByteSizeLong ==
  [info |-> <<1, 1, "string">>, prettyname |-> <<2, 1, "string">>,
   unit_type |-> <<4, 1, "uint32">>]
UnitDefinition_MergeImpl == [info |-> 1, prettyname |-> 2, unit_type |-> 4]
UnitDefinition_InternalSwap == {"info", "prettyname", "unit_type"}

(* QueryPlan *)
QueryPlan_planid == Optional("planid", 1, "uint32", 0)
QueryPlan_planitems == Repeated("planitems", "WorkItem")
QueryPlan_Internal == [planid |-> 1]
QueryPlan_Copy == [has |-> {}, plain |-> {"planid", "planitems"}, cases |-> {}]
QueryPlan_SharedCtor == [planitems |-> <<>>, planid |-> 0]
QueryPlan_Clear == [planitems |-> <<Always, <<>> >>, planid |-> <<Always, 0>>]
QueryPlan_InternalParse ==
  [planid |-> <<1, {8}, "Has", "uint32">>, planitems |-> <<2, {18}, "Add", "Message">>]
QueryPlan_InternalSerialize ==
  << <<1, "planid", 1, "uint32">>, <<Each, "planitems", 2, "Message">> >>
QueryPlan_ByteSizeLong == [planitems |-> <<Each, 1, "Message">>, planid |-> <<1, 1, "uint32">>]
QueryPlan_MergeImpl == [planitems |-> Each, planid |-> 1]
QueryPlan_IsInitialized == [required |-> {}, nested |-> {"planitems"}]
QueryPlan_InternalSwap == {"planid", "planitems"}

BenchmarkAction_IsValid == {0, 1, 3}
DataType_IsValid == 0 .. 9

(* TestDataSetup *)
TestDataSetup_itemid == Optional("itemid", 8, "uint32", 0)
TestDataSetup_action == Optional("action", 16, "BenchmarkAction", 0)
TestDataSetup_elementcount == Optional("elementcount", 32, "uint64", 0)
TestDataSetup_datatype == Optional("datatype", 128, "DataType", 0)
TestDataSetup_randomseed == Optional("randomseed", 64, "uint64", 0)
TestDataSetup_tablename == Optional("tablename", 1, "string", <<>>)
TestDataSetup_columnname == Optional("columnname", 2, "string", <<>>)
TestDataSetup_tableidentifier == Optional("tableidentifier", 4, "string", <<>>)
TestDataSetup_Internal ==
  [itemid |-> 8, action |-> 16, elementcount |-> 32, datatype |-> 128, randomseed |-> 64,
   tablename |-> 1, columnname |-> 2, tableidentifier |-> 4]
TestDataSetup_Copy ==
  [has |-> {"columnname", "tableidentifier", "tablename"}, plain |-> {"action", "datatype",
   "elementcount", "itemid", "randomseed"}, cases |-> {}]
TestDataSetup_SharedCtor ==
  [tablename |-> <<>>, columnname |-> <<>>, tableidentifier |-> <<>>, itemid |-> 0, action |-> 0,
   elementcount |-> 0, randomseed |-> 0, datatype |-> 0]
TestDataSetup_Clear ==
  [tablename |-> <<{1}, <<>> >>, columnname |-> <<{2}, <<>> >>, tableidentifier |-> <<{4}, <<>> >>,
   itemid |-> <<{8, 16, 32, 64, 128}, 0>>, action |-> <<{8, 16, 32, 64, 128}, 0>>,
   elementcount |-> <<{8, 16, 32, 64, 128}, 0>>, randomseed |-> <<{8, 16, 32, 64, 128}, 0>>,
   datatype |-> <<{8, 16, 32, 64, 128}, 0>>]
TestDataSetup_InternalParse ==
  [itemid |-> <<1, {8}, "Has", "uint32">>, action |-> <<2, {16}, "Set", "BenchmarkAction">>,
   elementcount |-> <<3, {24}, "Has", "uint64">>, datatype |-> <<4, {32}, "Set", "DataType">>,
   randomseed |-> <<5, {40}, "Has", "uint64">>, tablename |-> <<6, {50}, "Mutable", "string">>,
   columnname |-> <<7, {58}, "Mutable", "string">>,
   tableidentifier |-> <<8, {66}, "Mutable", "string">>]
TestDataSetup_InternalSerialize ==
  << <<8, "itemid", 1, "uint32">>, <<16, "action", 2, "Enum">>,
    <<32, "elementcount", 3, "uint64">>, <<128, "datatype", 4, "Enum">>,
    <<64, "randomseed", 5, "uint64">>, <<1, "tablename", 6, "string">>,
    <<2, "columnname", 7, "string">>, <<4, "tableidentifier", 8, "string">> >>
TestDataSetup_ByteSizeLong ==
  [tablename |-> <<1, 1, "string">>, columnname |-> <<2, 1, "string">>,
   tableidentifier |-> <<4, 1, "string">>, itemid |-> <<8, 1, "uint32">>,
   action |-> <<16, 1, "Enum">>, elementcount |-> <<32, 1, "uint64">>,
   randomseed |-> <<64, 1, "uint64">>, datatype |-> <<128, 1, "Enum">>]
TestDataSetup_MergeImpl ==
  [tablename |-> 1, columnname |-> 2, tableidentifier |-> 4, itemid |-> 8, action |-> 16,
   elementcount |-> 32, randomseed |-> 64, datatype |-> 128]
TestDataSetup_InternalSwap ==
  {"action", "columnname", "datatype", "elementcount", "itemid", "randomseed", "tableidentifier",
   "tablename"}

(* WorkRequest *)
WorkRequest_test == OneOf("test", 1, "string")
WorkRequest_queryplan == OneOf("queryplan", 2, "QueryPlan")
WorkRequest_workitem == OneOf("workitem", 3, "WorkItem")
WorkRequest_Copy == [has |-> {}, plain |-> {}, cases |-> {"queryplan", "test", "workitem"}]
WorkRequest_SharedCtor == NoFields
WorkRequest_Clear == NoFields
WorkRequest_InternalParse ==
  [test |-> <<1, {10}, "Mutable", "string">>, queryplan |-> <<2, {18}, "Mutable", "Message">>,
   workitem |-> <<3, {26}, "Mutable", "Message">>]
WorkRequest_InternalSerialize ==
  << <<Case, "test", 1, "string">>, <<Case, "queryplan", 2, "Message">>,
    <<Case, "workitem", 3, "Message">> >>
WorkRequest_ByteSizeLong ==
  [test |-> <<Case, 1, "string">>, queryplan |-> <<Case, 1, "Message">>,
   workitem |-> <<Case, 1, "Message">>]
WorkRequest_MergeImpl == [test |-> Case, queryplan |-> Case, workitem |-> Case]
WorkRequest_IsInitialized == [required |-> {}, nested |-> {"queryplan", "workitem"}]
WorkRequest_InternalSwap == {"oneof"}

(* ForwardedWorkRequest *)
ForwardedWorkRequest_request == Nested("request", 1, "WorkRequest")
ForwardedWorkRequest_Internal == [request |-> 1]
ForwardedWorkRequest_Copy == [has |-> {"request"}, plain |-> {}, cases |-> {}]
ForwardedWorkRequest_SharedCtor == [request |-> Null]
ForwardedWorkRequest_Clear == [request |-> <<{1}, Cleared>>]
ForwardedWorkRequest_InternalParse == [request |-> <<1, {10}, "Mutable", "Message">>]
ForwardedWorkRequest_InternalSerialize == << <<1, "request", 1, "Message">> >>
ForwardedWorkRequest_ByteSizeLong == [request |-> <<1, 1, "Message">>]
ForwardedWorkRequest_MergeImpl == [request |-> 1]
ForwardedWorkRequest_IsInitialized == [required |-> {1}, nested |-> {"request"}]
ForwardedWorkRequest_InternalSwap == {"request"}

(* WorkResponse *)
WorkResponse_planid == Optional("planid", 2, "uint32", 0)
WorkResponse_itemid == Optional("itemid", 4, "uint32", 0)
WorkResponse_info == Optional("info", 1, "string", <<>>)
WorkResponse_success == Optional("success", 8, "bool", FALSE)
WorkResponse_Internal == [planid |-> 2, itemid |-> 4, info |-> 1, success |-> 8]
WorkResponse_Copy == [has |-> {"info"}, plain |-> {"itemid", "planid", "success"}, cases |-> {}]
WorkResponse_SharedCtor == [info |-> <<>>, planid |-> 0, itemid |-> 0, success |-> FALSE]
WorkResponse_Clear ==
  [info |-> <<{1}, <<>> >>, planid |-> <<{2, 4, 8}, 0>>, itemid |-> <<{2, 4, 8}, 0>>,
   success |-> <<{2, 4, 8}, FALSE>>]
WorkResponse_InternalParse ==
  [planid |-> <<1, {8}, "Has", "uint32">>, itemid |-> <<2, {16}, "Has", "uint32">>,
   info |-> <<3, {26}, "Mutable", "string">>, success |-> <<4, {32}, "Has", "bool">>]
WorkResponse_InternalSerialize ==
  << <<2, "planid", 1, "uint32">>, <<4, "itemid", 2, "uint32">>, <<1, "info", 3, "string">>,
    <<8, "success", 4, "bool">> >>
WorkResponse_ByteSizeLong ==
  [info |-> <<1, 1, "string">>, planid |-> <<2, 1, "uint32">>, itemid |-> <<4, 1, "uint32">>,
   success |-> <<8, 1, "bool">>]
WorkResponse_MergeImpl == [info |-> 1, planid |-> 2, itemid |-> 4, success |-> 8]
WorkResponse_InternalSwap == {"info", "itemid", "planid", "success"}

ActionType_IsValid == {0, 1}
ConnectionType_IsValid == {0, 1}

(* ConnectItem *)
ConnectItem_destinationip == Optional("destinationip", 1, "string", <<>>)
ConnectItem_port == Optional("port", 2, "uint32", 0)
ConnectItem_action == Optional("action", 4, "ActionType", 0)
ConnectItem_connectiontype == Optional("connectiontype", 8, "ConnectionType", 0)
ConnectItem_Internal == [destinationip |-> 1, port |-> 2, action |-> 4, connectiontype |-> 8]
ConnectItem_Copy ==
  [has |-> {"destinationip"}, plain |-> {"action", "connectiontype", "port"}, cases |-> {}]
ConnectItem_SharedCtor == [destinationip |-> <<>>, port |-> 0, action |-> 0, connectiontype |-> 0]
ConnectItem_Clear ==
  [destinationip |-> <<{1}, <<>> >>, port |-> <<{2, 4, 8}, 0>>, action |-> <<{2, 4, 8}, 0>>,
   connectiontype |-> <<{2, 4, 8}, 0>>]
ConnectItem_InternalParse ==
  [destinationip |-> <<1, {10}, "Mutable", "string">>, port |-> <<2, {16}, "Has", "uint32">>,
   action |-> <<3, {24}, "Set", "ActionType">>,
   connectiontype |-> <<4, {32}, "Set", "ConnectionType">>]
ConnectItem_InternalSerialize ==
  << <<1, "destinationip", 1, "string">>, <<2, "port", 2, "uint32">>, <<4, "action", 3, "Enum">>,
    <<8, "connectiontype", 4, "Enum">> >>
ConnectItem_RequiredFieldsByteSizeFallback ==
  [destinationip |-> <<1, 1, "string">>, port |-> <<2, 1, "uint32">>, action |-> <<4, 1, "Enum">>,
   connectiontype |-> <<8, 1, "Enum">>]
ConnectItem_ByteSizeLong ==
  [destinationip |-> <<AllRequired, 1, "string">>, port |-> <<AllRequired, 1, "uint32">>,
   action |-> <<AllRequired, 1, "Enum">>, connectiontype |-> <<AllRequired, 1, "Enum">>]
ConnectItem_MergeImpl == [destinationip |-> 1, port |-> 2, action |-> 4, connectiontype |-> 8]
ConnectItem_IsInitialized == [required |-> {1, 2, 4, 8}, nested |-> {}]
ConnectItem_InternalSwap == {"action", "connectiontype", "destinationip", "port"}

(* ConnectInfo *)
ConnectInfo_original_request == Nested("original_request", 1, "ConnectItem")
ConnectInfo_success == Optional("success", 2, "bool", FALSE)
ConnectInfo_Internal == [original_request |-> 1, success |-> 2]
ConnectInfo_Copy == [has |-> {"original_request"}, plain |-> {"success"}, cases |-> {}]
ConnectInfo_SharedCtor == [original_request |-> Null, success |-> FALSE]
ConnectInfo_Clear == [original_request |-> <<{1}, Cleared>>, success |-> <<Always, FALSE>>]
ConnectInfo_InternalParse ==
  [original_request |-> <<1, {10}, "Mutable", "Message">>, success |-> <<2, {16}, "Has", "bool">>]
ConnectInfo_InternalSerialize ==
  << <<1, "original_request", 1, "Message">>, <<2, "success", 2, "bool">> >>
ConnectInfo_RequiredFieldsByteSizeFallback ==
  [original_request |-> <<1, 1, "Message">>, success |-> <<2, 1, "bool">>]
ConnectInfo_ByteSizeLong ==
  [original_request |-> <<AllRequired, 1, "Message">>, success |-> <<AllRequired, 1, "bool">>]
ConnectInfo_MergeImpl == [original_request |-> 1, success |-> 2]
ConnectInfo_IsInitialized == [required |-> {1, 2}, nested |-> {"original_request"}]
ConnectInfo_InternalSwap == {"original_request", "success"}

(* UuidForUnitRequest *)
UuidForUnitRequest_requestedunittype == Optional("requestedunittype", 1, "uint32", 0)
UuidForUnitRequest_Internal == [requestedunittype |-> 1]
UuidForUnitRequest_Copy == [has |-> {}, plain |-> {"requestedunittype"}, cases |-> {}]
UuidForUnitRequest_SharedCtor == [requestedunittype |-> 0]
UuidForUnitRequest_Clear == [requestedunittype |-> <<Always, 0>>]
UuidForUnitRequest_InternalParse == [requestedunittype |-> <<1, {8}, "Has", "uint32">>]
UuidForUnitRequest_InternalSerialize == << <<1, "requestedunittype", 1, "uint32">> >>
UuidForUnitRequest_ByteSizeLong == [requestedunittype |-> <<1, 1, "uint32">>]
UuidForUnitRequest_MergeImpl == [requestedunittype |-> 1]
UuidForUnitRequest_IsInitialized == [required |-> {1}, nested |-> {}]
UuidForUnitRequest_InternalSwap == {"requestedunittype"}

(* UuidForUnitResponse *)
UuidForUnitResponse_requestedunittype == Optional("requestedunittype", 1, "uint32", 0)
UuidForUnitResponse_uuids == Repeated("uuids", "uint64")
UuidForUnitResponse_names == Repeated("names", "string")
UuidForUnitResponse_Internal == [requestedunittype |-> 1]
UuidForUnitResponse_Copy ==
  [has |-> {}, plain |-> {"names", "requestedunittype", "uuids"}, cases |-> {}]
UuidForUnitResponse_SharedCtor == [uuids |-> <<>>, names |-> <<>>, requestedunittype |-> 0]
UuidForUnitResponse_Clear ==
  [uuids |-> <<Always, <<>> >>, names |-> <<Always, <<>> >>, requestedunittype |-> <<Always, 0>>]
UuidForUnitResponse_InternalParse ==
  [requestedunittype |-> <<1, {8}, "Has", "uint32">>, uuids |-> <<2, {16, 18}, "Add", "uint64">>,
   names |-> <<3, {26}, "Add", "string">>]
UuidForUnitResponse_InternalSerialize ==
  << <<1, "requestedunittype", 1, "uint32">>, <<Each, "uuids", 2, "uint64">>,
    <<Each, "names", 3, "string">> >>
UuidForUnitResponse_ByteSizeLong ==
  [requestedunittype |-> <<1, 1, "uint32">>, uuids |-> <<Each, 1, "uint64">>,
   names |-> <<Each, 1, "string">>]
UuidForUnitResponse_MergeImpl == [uuids |-> Each, names |-> Each, requestedunittype |-> 1]
UuidForUnitResponse_IsInitialized == [required |-> {1}, nested |-> {}]
UuidForUnitResponse_InternalSwap == {"names", "requestedunittype", "uuids"}

ConfigType_IsValid == {1, 2}

(* ConfigurationItem *)
ConfigurationItem_type == Optional("type", 2, "ConfigType", 1)
ConfigurationItem_worker_count == Optional("worker_count", 1, "uint64", 0)
ConfigurationItem_Internal == [type |-> 2, worker_count |-> 1]
ConfigurationItem_Copy == [has |-> {}, plain |-> {"type", "worker_count"}, cases |-> {}]
ConfigurationItem_SharedCtor == [worker_count |-> 0, type |-> 1]
ConfigurationItem_Clear == [worker_count |-> <<{1, 2}, 0>>, type |-> <<{1, 2}, 1>>]
ConfigurationItem_InternalParse ==
  [type |-> <<1, {8}, "Set", "ConfigType">>, worker_count |-> <<2, {16}, "Has", "uint64">>]
ConfigurationItem_InternalSerialize ==
  << <<2, "type", 1, "Enum">>, <<1, "worker_count", 2, "uint64">> >>
ConfigurationItem_ByteSizeLong == [type |-> <<2, 1, "Enum">>, worker_count |-> <<1, 1, "uint64">>]
ConfigurationItem_MergeImpl == [worker_count |-> 1, type |-> 2]
ConfigurationItem_IsInitialized == [required |-> {2}, nested |-> {}]
ConfigurationItem_InternalSwap == {"type", "worker_count"}

==============================================================================
