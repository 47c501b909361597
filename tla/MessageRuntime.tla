----------------------------- MODULE MessageRuntime -----------------------------
(*****************************************************************************)
(* What the generated classes do: the accessors, Clear, MergeFrom, the copy   *)
(* constructor, InternalSwap, ByteSizeLong, _InternalSerialize,               *)
(* _InternalParse and IsInitialized, once for all classes, driven by the      *)
(* tables of ValueMessages, WorkItemMessages and RequestMessages.             *)
(*                                                                            *)
(* An object is [bits, slots, case, data, unknown]: _has_bits_ as the set of  *)
(* bits that are on, the members of Impl_, the oneof's case and the value it  *)
(* holds, and the bytes of the unknown fields.  The wire is a sequence of     *)
(* bytes.  The protobuf library the classes call (varints, tags, strings,     *)
(* unknown fields) is external; widths of varints above 2^31 are left out.    *)
(*****************************************************************************)
EXTENDS RequestMessages, SequencesExt, FiniteSetsExt, TLC

(* Accessors by the name of their member.                                     *)
ByName(F) == [n \in {F[i].name : i \in DOMAIN F} |-> F[CHOOSE i \in DOMAIN F : F[i].name = n]]

Class(fields, internal, ctor, copy, clear, parse, serialize, size, fallback, merge, init, swap) ==
  [fields |-> ByName(fields), internal |-> internal, ctor |-> ctor, copy |-> copy, clear |-> clear,
   parse |-> parse, serialize |-> serialize, size |-> size, fallback |-> fallback,
   merge |-> merge, init |-> init, swap |-> swap]

IntValue_class ==
  Class(<<IntValue_value>>, IntValue_Internal, IntValue_SharedCtor, IntValue_Copy, IntValue_Clear,
        IntValue_InternalParse, IntValue_InternalSerialize, IntValue_ByteSizeLong, NoFields,
        IntValue_MergeImpl, NothingRequired, IntValue_InternalSwap)

FloatValue_class ==
  Class(<<FloatValue_value>>, FloatValue_Internal, FloatValue_SharedCtor, FloatValue_Copy,
        FloatValue_Clear, FloatValue_InternalParse, FloatValue_InternalSerialize,
        FloatValue_ByteSizeLong, NoFields, FloatValue_MergeImpl, NothingRequired,
        FloatValue_InternalSwap)

StringValue_class ==
  Class(<<StringValue_value>>, StringValue_Internal, StringValue_SharedCtor, StringValue_Copy,
        StringValue_Clear, StringValue_InternalParse, StringValue_InternalSerialize,
        StringValue_ByteSizeLong, NoFields, StringValue_MergeImpl, NothingRequired,
        StringValue_InternalSwap)

ScalarValue_class ==
  Class(<<ScalarValue_intval, ScalarValue_floatval, ScalarValue_stringval>>, NoFields,
        ScalarValue_SharedCtor, ScalarValue_Copy, ScalarValue_Clear, ScalarValue_InternalParse,
        ScalarValue_InternalSerialize, ScalarValue_ByteSizeLong, NoFields, ScalarValue_MergeImpl,
        NothingRequired, ScalarValue_InternalSwap)

ColumnMessage_class ==
  Class(<<ColumnMessage_tabname, ColumnMessage_colname, ColumnMessage_coltype,
        ColumnMessage_isbase>>, ColumnMessage_Internal, ColumnMessage_SharedCtor,
        ColumnMessage_Copy, ColumnMessage_Clear, ColumnMessage_InternalParse,
        ColumnMessage_InternalSerialize, ColumnMessage_ByteSizeLong, NoFields,
        ColumnMessage_MergeImpl, NothingRequired, ColumnMessage_InternalSwap)

FilterItem_class ==
  Class(<<FilterItem_inputcolumn, FilterItem_outputcolumn, FilterItem_filtertype,
        FilterItem_filtervalue, FilterItem_stringop, FilterItem_comparecolumn>>,
        FilterItem_Internal, FilterItem_SharedCtor, FilterItem_Copy, FilterItem_Clear,
        FilterItem_InternalParse, FilterItem_InternalSerialize, FilterItem_ByteSizeLong, NoFields,
        FilterItem_MergeImpl, NothingRequired, FilterItem_InternalSwap)

MultiGroupItem_class ==
  Class(<<MultiGroupItem_groupcolumns, MultiGroupItem_outputindex, MultiGroupItem_outputclusters,
        MultiGroupItem_aggregationcolumn, MultiGroupItem_aggregationresultcolumn,
        MultiGroupItem_storeextends, MultiGroupItem_sortorders>>, MultiGroupItem_Internal,
        MultiGroupItem_SharedCtor, MultiGroupItem_Copy, MultiGroupItem_Clear,
        MultiGroupItem_InternalParse, MultiGroupItem_InternalSerialize,
        MultiGroupItem_ByteSizeLong, NoFields, MultiGroupItem_MergeImpl, NothingRequired,
        MultiGroupItem_InternalSwap)

JoinItem_class ==
  Class(<<JoinItem_innercolumn, JoinItem_outercolumn, JoinItem_outputcolumn,
        JoinItem_joinpredicate, JoinItem_produceinneroutput, JoinItem_produceouteroutput>>,
        JoinItem_Internal, JoinItem_SharedCtor, JoinItem_Copy, JoinItem_Clear,
        JoinItem_InternalParse, JoinItem_InternalSerialize, JoinItem_ByteSizeLong, NoFields,
        JoinItem_MergeImpl, NothingRequired, JoinItem_InternalSwap)

AggItem_class ==
  Class(<<AggItem_inputcolumn, AggItem_outputcolumn, AggItem_aggfunc, AggItem_groupcolumns>>,
        AggItem_Internal, AggItem_SharedCtor, AggItem_Copy, AggItem_Clear, AggItem_InternalParse,
        AggItem_InternalSerialize, AggItem_ByteSizeLong, NoFields, AggItem_MergeImpl,
        NothingRequired, AggItem_InternalSwap)

SortItem_class ==
  Class(<<SortItem_inputcolumns, SortItem_sortorder, SortItem_indexoutput,
        SortItem_existingindex>>, SortItem_Internal, SortItem_SharedCtor, SortItem_Copy,
        SortItem_Clear, SortItem_InternalParse, SortItem_InternalSerialize, SortItem_ByteSizeLong,
        NoFields, SortItem_MergeImpl, NothingRequired, SortItem_InternalSwap)

MapItem_class ==
  Class(<<MapItem_inputcolumn, MapItem_outputcolumn, MapItem_operatortype, MapItem_partnercolumn,
        MapItem_staticval>>, MapItem_Internal, MapItem_SharedCtor, MapItem_Copy, MapItem_Clear,
        MapItem_InternalParse, MapItem_InternalSerialize, MapItem_ByteSizeLong, NoFields,
        MapItem_MergeImpl, NothingRequired, MapItem_InternalSwap)

MaterializeItem_class ==
  Class(<<MaterializeItem_indexcolumn, MaterializeItem_filtercolumn,
        MaterializeItem_outputcolumn>>, MaterializeItem_Internal, MaterializeItem_SharedCtor,
        MaterializeItem_Copy, MaterializeItem_Clear, MaterializeItem_InternalParse,
        MaterializeItem_InternalSerialize, MaterializeItem_ByteSizeLong, NoFields,
        MaterializeItem_MergeImpl, NothingRequired, MaterializeItem_InternalSwap)

SetOperationItem_class ==
  Class(<<SetOperationItem_operation, SetOperationItem_innercolumn, SetOperationItem_outercolumn,
        SetOperationItem_outputcolumn>>, SetOperationItem_Internal, SetOperationItem_SharedCtor,
        SetOperationItem_Copy, SetOperationItem_Clear, SetOperationItem_InternalParse,
        SetOperationItem_InternalSerialize, SetOperationItem_ByteSizeLong, NoFields,
        SetOperationItem_MergeImpl, NothingRequired, SetOperationItem_InternalSwap)

FetchItem_class ==
  Class(<<FetchItem_inputcolumn, FetchItem_printtofile>>, FetchItem_Internal,
        FetchItem_SharedCtor, FetchItem_Copy, FetchItem_Clear, FetchItem_InternalParse,
        FetchItem_InternalSerialize, FetchItem_ByteSizeLong,
        FetchItem_RequiredFieldsByteSizeFallback, FetchItem_MergeImpl, FetchItem_IsInitialized,
        FetchItem_InternalSwap)

ResultItem_class ==
  Class(<<ResultItem_filename, ResultItem_resultcolumns, ResultItem_resultheader,
        ResultItem_resultindex, ResultItem_limitcount, ResultItem_offsetcount>>,
        ResultItem_Internal, ResultItem_SharedCtor, ResultItem_Copy, ResultItem_Clear,
        ResultItem_InternalParse, ResultItem_InternalSerialize, ResultItem_ByteSizeLong, NoFields,
        ResultItem_MergeImpl, ResultItem_IsInitialized, ResultItem_InternalSwap)

WorkItem_class ==
  Class(<<WorkItem_planid, WorkItem_itemid, WorkItem_operatorid, WorkItem_printdebug,
        WorkItem_simdext, WorkItem_filterdata, WorkItem_joindata, WorkItem_aggdata,
        WorkItem_sortdata, WorkItem_mapdata, WorkItem_materializedata, WorkItem_setdata,
        WorkItem_fetchdata, WorkItem_multigroupdata, WorkItem_resultdata, WorkItem_dependson>>,
        WorkItem_Internal, WorkItem_SharedCtor, WorkItem_Copy, WorkItem_Clear,
        WorkItem_InternalParse, WorkItem_InternalSerialize, WorkItem_ByteSizeLong, NoFields,
        WorkItem_MergeImpl, WorkItem_IsInitialized, WorkItem_InternalSwap)

UnitDefinition_class ==
  Class(<<UnitDefinition_unit_type, UnitDefinition_info, UnitDefinition_prettyname>>,
        UnitDefinition_Internal, UnitDefinition_SharedCtor, UnitDefinition_Copy,
        UnitDefinition_Clear, UnitDefinition_InternalParse, UnitDefinition_InternalSerialize,
        UnitDefinition_ByteSizeLong, NoFields, UnitDefinition_MergeImpl, NothingRequired,
        UnitDefinition_InternalSwap)

QueryPlan_class ==
  Class(<<QueryPlan_planid, QueryPlan_planitems>>, QueryPlan_Internal, QueryPlan_SharedCtor,
        QueryPlan_Copy, QueryPlan_Clear, QueryPlan_InternalParse, QueryPlan_InternalSerialize,
        QueryPlan_ByteSizeLong, NoFields, QueryPlan_MergeImpl, QueryPlan_IsInitialized,
        QueryPlan_InternalSwap)

TestDataSetup_class ==
  Class(<<TestDataSetup_itemid, TestDataSetup_action, TestDataSetup_elementcount,
        TestDataSetup_datatype, TestDataSetup_randomseed, TestDataSetup_tablename,
        TestDataSetup_columnname, TestDataSetup_tableidentifier>>, TestDataSetup_Internal,
        TestDataSetup_SharedCtor, TestDataSetup_Copy, TestDataSetup_Clear,
        TestDataSetup_InternalParse, TestDataSetup_InternalSerialize, TestDataSetup_ByteSizeLong,
        NoFields, TestDataSetup_MergeImpl, NothingRequired, TestDataSetup_InternalSwap)

WorkRequest_class ==
  Class(<<WorkRequest_test, WorkRequest_queryplan, WorkRequest_workitem>>, NoFields,
        WorkRequest_SharedCtor, WorkRequest_Copy, WorkRequest_Clear, WorkRequest_InternalParse,
        WorkRequest_InternalSerialize, WorkRequest_ByteSizeLong, NoFields, WorkRequest_MergeImpl,
        WorkRequest_IsInitialized, WorkRequest_InternalSwap)

ForwardedWorkRequest_class ==
  Class(<<ForwardedWorkRequest_request>>, ForwardedWorkRequest_Internal,
        ForwardedWorkRequest_SharedCtor, ForwardedWorkRequest_Copy, ForwardedWorkRequest_Clear,
        ForwardedWorkRequest_InternalParse, ForwardedWorkRequest_InternalSerialize,
        ForwardedWorkRequest_ByteSizeLong, NoFields, ForwardedWorkRequest_MergeImpl,
        ForwardedWorkRequest_IsInitialized, ForwardedWorkRequest_InternalSwap)

WorkResponse_class ==
  Class(<<WorkResponse_planid, WorkResponse_itemid, WorkResponse_info, WorkResponse_success>>,
        WorkResponse_Internal, WorkResponse_SharedCtor, WorkResponse_Copy, WorkResponse_Clear,
        WorkResponse_InternalParse, WorkResponse_InternalSerialize, WorkResponse_ByteSizeLong,
        NoFields, WorkResponse_MergeImpl, NothingRequired, WorkResponse_InternalSwap)

ConnectItem_class ==
  Class(<<ConnectItem_destinationip, ConnectItem_port, ConnectItem_action,
        ConnectItem_connectiontype>>, ConnectItem_Internal, ConnectItem_SharedCtor,
        ConnectItem_Copy, ConnectItem_Clear, ConnectItem_InternalParse,
        ConnectItem_InternalSerialize, ConnectItem_ByteSizeLong,
        ConnectItem_RequiredFieldsByteSizeFallback, ConnectItem_MergeImpl,
        ConnectItem_IsInitialized, ConnectItem_InternalSwap)

ConnectInfo_class ==
  Class(<<ConnectInfo_original_request, ConnectInfo_success>>, ConnectInfo_Internal,
        ConnectInfo_SharedCtor, ConnectInfo_Copy, ConnectInfo_Clear, ConnectInfo_InternalParse,
        ConnectInfo_InternalSerialize, ConnectInfo_ByteSizeLong,
        ConnectInfo_RequiredFieldsByteSizeFallback, ConnectInfo_MergeImpl,
        ConnectInfo_IsInitialized, ConnectInfo_InternalSwap)

UuidForUnitRequest_class ==
  Class(<<UuidForUnitRequest_requestedunittype>>, UuidForUnitRequest_Internal,
        UuidForUnitRequest_SharedCtor, UuidForUnitRequest_Copy, UuidForUnitRequest_Clear,
        UuidForUnitRequest_InternalParse, UuidForUnitRequest_InternalSerialize,
        UuidForUnitRequest_ByteSizeLong, NoFields, UuidForUnitRequest_MergeImpl,
        UuidForUnitRequest_IsInitialized, UuidForUnitRequest_InternalSwap)

UuidForUnitResponse_class ==
  Class(<<UuidForUnitResponse_requestedunittype, UuidForUnitResponse_uuids,
        UuidForUnitResponse_names>>, UuidForUnitResponse_Internal, UuidForUnitResponse_SharedCtor,
        UuidForUnitResponse_Copy, UuidForUnitResponse_Clear, UuidForUnitResponse_InternalParse,
        UuidForUnitResponse_InternalSerialize, UuidForUnitResponse_ByteSizeLong, NoFields,
        UuidForUnitResponse_MergeImpl, UuidForUnitResponse_IsInitialized,
        UuidForUnitResponse_InternalSwap)

ConfigurationItem_class ==
  Class(<<ConfigurationItem_type, ConfigurationItem_worker_count>>, ConfigurationItem_Internal,
        ConfigurationItem_SharedCtor, ConfigurationItem_Copy, ConfigurationItem_Clear,
        ConfigurationItem_InternalParse, ConfigurationItem_InternalSerialize,
        ConfigurationItem_ByteSizeLong, NoFields, ConfigurationItem_MergeImpl,
        ConfigurationItem_IsInitialized, ConfigurationItem_InternalSwap)

Classes ==
  [IntValue |-> IntValue_class, FloatValue |-> FloatValue_class,
   StringValue |-> StringValue_class, ScalarValue |-> ScalarValue_class,
   ColumnMessage |-> ColumnMessage_class, FilterItem |-> FilterItem_class,
   MultiGroupItem |-> MultiGroupItem_class, JoinItem |-> JoinItem_class,
   AggItem |-> AggItem_class, SortItem |-> SortItem_class, MapItem |-> MapItem_class,
   MaterializeItem |-> MaterializeItem_class, SetOperationItem |-> SetOperationItem_class,
   FetchItem |-> FetchItem_class, ResultItem |-> ResultItem_class, WorkItem |-> WorkItem_class,
   UnitDefinition |-> UnitDefinition_class, QueryPlan |-> QueryPlan_class,
   TestDataSetup |-> TestDataSetup_class, WorkRequest |-> WorkRequest_class,
   ForwardedWorkRequest |-> ForwardedWorkRequest_class, WorkResponse |-> WorkResponse_class,
   ConnectItem |-> ConnectItem_class, ConnectInfo |-> ConnectInfo_class,
   UuidForUnitRequest |-> UuidForUnitRequest_class,
   UuidForUnitResponse |-> UuidForUnitResponse_class,
   ConfigurationItem |-> ConfigurationItem_class]

Enums ==
  [ColumnType |-> ColumnType_IsValid, CompType |-> CompType_IsValid,
   OperatorType |-> OperatorType_IsValid, StringOperation |-> StringOperation_IsValid,
   AggFunc |-> AggFunc_IsValid, RelOp |-> RelOp_IsValid, ArithOp |-> ArithOp_IsValid,
   SIMDISE |-> SIMDISE_IsValid, BenchmarkAction |-> BenchmarkAction_IsValid,
   DataType |-> DataType_IsValid, ActionType |-> ActionType_IsValid,
   ConnectionType |-> ConnectionType_IsValid, ConfigType |-> ConfigType_IsValid]

Field(T, n) == Classes[T].fields[n]

Scalars == {"uint32", "uint64", "double", "string", "bool"}

IsMessage(type) == type \notin Scalars \union DOMAIN Enums

-----------------------------------------------------------------------------
(* Objects and their accessors                                               *)

New(T) == [bits |-> {}, slots |-> Classes[T].ctor, case |-> 0, data |-> Null, unknown |-> <<>>]

Has(f, m) ==
  CASE f.label = "oneof"    -> m.case = f.bit
    [] f.label = "repeated" -> m.slots[f.name] # <<>>
    [] OTHER                -> f.bit \in m.bits

(* The values of a member, none when it is not set.                          *)
Values(f, m) ==
  IF ~Has(f, m) THEN <<>>
  ELSE CASE f.label = "oneof"    -> m.data
         [] f.label = "optional" -> <<m.slots[f.name]>>
         [] OTHER                -> m.slots[f.name]

(* clear_has_<oneof>: the case is unset and the value given up.              *)
clear_oneof(m) == [m EXCEPT !.case = 0, !.data = Null]

(* mutable_<f>: the member is present and, when it was not, freshly made.    *)
Mutable(f, m) ==
  IF f.label = "oneof"
  THEN IF Has(f, m) THEN m
       ELSE [clear_oneof(m) EXCEPT !.case = f.bit,
               !.data = <<IF IsMessage(f.type) THEN New(f.type) ELSE <<>> >>]
  ELSE [m EXCEPT !.bits = @ \union {f.bit},
                 !.slots[f.name] = IF f.label = "nested" /\ @ = Null THEN <<New(f.type)>> ELSE @]

(* set_<f> and set_allocated_<f>: the old value is given up.                 *)
Set(f, m, v) ==
  IF f.label = "oneof" THEN [clear_oneof(m) EXCEPT !.case = f.bit, !.data = <<v>>]
  ELSE [m EXCEPT !.bits = @ \union {f.bit},
                 !.slots[f.name] = IF f.label = "nested" THEN <<v>> ELSE v]

(* add_<f> *)
Add(f, m, v) == [m EXCEPT !.slots[f.name] = Append(@, v)]

(* release_<f>: the value is handed out and the pointer forgotten.           *)
Release(f, m) ==
  IF f.label = "oneof" THEN IF Has(f, m) THEN clear_oneof(m) ELSE m
  ELSE IF f.label = "nested" \/ Has(f, m)
       THEN [m EXCEPT !.bits = @ \ {f.bit}, !.slots[f.name] = f.default]
       ELSE m

-----------------------------------------------------------------------------
(* Clear, copy, merge, swap                                                  *)

Due(guard, m) == guard = Always \/ guard \intersect m.bits # {}

(* Functions of a class take its tables K; those of nested messages look     *)
(* theirs up.                                                                *)
RECURSIVE Clear(_, _)
Reset(K, n, old) ==
  IF K.fields[n].label # "nested" THEN K.clear[n][2]
  ELSE IF old = Null THEN Null ELSE <<Clear(K.fields[n].type, old[1])>>

ClearAll(K, m) ==
  [bits |-> {}, unknown |-> <<>>, case |-> 0, data |-> Null,
   slots |-> [n \in DOMAIN m.slots |->
                IF n \in DOMAIN K.clear /\ Due(K.clear[n][1], m) THEN Reset(K, n, m.slots[n])
                ELSE m.slots[n]]]

Clear(T, m) == ClearAll(Classes[T], m)

(* clear_<f> *)
ClearField(f, m) ==
  CASE f.label = "oneof"    -> IF Has(f, m) THEN clear_oneof(m) ELSE m
    [] f.label = "repeated" -> [m EXCEPT !.slots[f.name] = <<>>]
    [] f.label = "optional" -> [m EXCEPT !.slots[f.name] = f.default, !.bits = @ \ {f.bit}]
    [] f.label = "nested"   ->
         [m EXCEPT !.bits = @ \ {f.bit},
                   !.slots[f.name] = IF @ = Null THEN Null ELSE <<Clear(f.type, @[1])>>]

(* from._has_bits_ are or'ed in at the end, and the unknown bytes appended.  *)
RECURSIVE MergeFrom(_, _, _)
Into(f, mine, theirs) == MergeFrom(f.type, IF mine = Null THEN New(f.type) ELSE mine[1], theirs)

MergeSlot(guard, f, mine, theirs, bits) ==
  CASE guard = Each                   -> mine \o theirs
    [] guard \notin bits \union {Each} -> mine
    [] OTHER -> IF f.label = "nested" THEN <<Into(f, mine, theirs[1])>> ELSE theirs

MergeSlots(K, m, from) ==
  [m EXCEPT !.slots = [n \in DOMAIN m.slots |->
              IF n \in DOMAIN K.merge
              THEN MergeSlot(K.merge[n], K.fields[n], @[n], from.slots[n], from.bits) ELSE @[n]],
            !.bits = @ \union from.bits, !.unknown = @ \o from.unknown]

MergeCase(f, m, value) ==
  IF IsMessage(f.type) THEN [m EXCEPT !.data = <<Into(f, @, value)>>] ELSE Set(f, m, value)

MergeImpl(K, m, from) ==
  LET cases == {n \in DOMAIN K.merge : K.merge[n] = Case /\ Has(K.fields[n], from)}
      f == K.fields[CHOOSE n \in cases : TRUE]
  IN  IF cases = {} THEN MergeSlots(K, m, from)
      ELSE MergeCase(f, Mutable(f, MergeSlots(K, m, from)), from.data[1])

MergeFrom(T, m, from) == MergeImpl(Classes[T], m, from)

CopyFrom(T, m, from) == MergeFrom(T, Clear(T, m), from)

(* The copy constructor: the bits are taken over, then the members.          *)
RECURSIVE Copy(_, _)
Taken(K, n, from) == n \in K.copy.plain \/ (n \in K.copy.has /\ Has(K.fields[n], from))

CopySlot(f, theirs) == IF f.label = "nested" THEN <<Copy(f.type, theirs[1])>> ELSE theirs

CopyAll(K, from) ==
  LET cases == {n \in K.copy.cases : Has(K.fields[n], from)}
      f == K.fields[CHOOSE n \in cases : TRUE]
      members == [bits |-> from.bits, unknown |-> from.unknown, case |-> 0, data |-> Null,
                  slots |-> [n \in DOMAIN K.ctor |->
                               IF Taken(K, n, from) THEN CopySlot(K.fields[n], from.slots[n])
                               ELSE K.ctor[n]]]
  IN  IF cases = {} THEN members ELSE MergeCase(f, Mutable(f, members), from.data[1])

Copy(T, from) == CopyAll(Classes[T], from)

(* InternalSwap: what the left object holds afterwards.                      *)
Exchanged(W, m, other) ==
  [bits |-> other.bits, unknown |-> other.unknown,
   slots |-> [n \in DOMAIN m.slots |-> IF n \in W THEN other.slots[n] ELSE m.slots[n]],
   case |-> IF "oneof" \in W THEN other.case ELSE m.case,
   data |-> IF "oneof" \in W THEN other.data ELSE m.data]

SwapIn(T, m, other) == Exchanged(Classes[T].swap, m, other)

RECURSIVE IsInitialized(_, _)
AllSet(K, m) ==
  /\ K.init.required \subseteq m.bits
  /\ \A n \in K.init.nested : LET f == K.fields[n] IN
       \A i \in 1 .. Len(Values(f, m)) : IsInitialized(f.type, Values(f, m)[i])

IsInitialized(T, m) == AllSet(Classes[T], m)

-----------------------------------------------------------------------------
(* The wire                                                                  *)

RECURSIVE Varint(_)
Varint(n) == IF n < 128 THEN <<n>> ELSE <<128 + (n % 128)>> \o Varint(n \div 128)

RECURSIVE VarintSize(_)
VarintSize(n) == IF n < 128 THEN 1 ELSE 1 + VarintSize(n \div 128)

WireType(kind) == CASE kind \in {"Message", "string"} -> 2 [] kind = "double" -> 1 [] OTHER -> 0

Tag(number, kind) == Varint(8 * number + WireType(kind))

FlattenAll(ss) == FoldLeft(LAMBDA s, t : s \o t, <<>>, ss)

SumAll(s) == FoldLeft(LAMBDA a, b : a + b, 0, s)

(* The values a guard lets through, from the slots or from the oneof.        *)
Guarded(K, guard, n, m) ==
  LET f == K.fields[n]
      held == IF f.label = "nested" THEN m.slots[n] ELSE <<m.slots[n]>> IN
  CASE guard = Each        -> m.slots[n]
    [] guard = Case        -> IF Has(f, m) THEN m.data ELSE <<>>
    [] guard = AllRequired -> IF K.init.required \subseteq m.bits THEN held ELSE <<>>
    [] guard \notin m.bits \union {Each, Case, AllRequired} -> <<>>
    [] OTHER               -> held

(* ByteSizeLong; where not every required member is set, those are measured  *)
(* by RequiredFieldsByteSizeFallback.                                        *)
RECURSIVE ByteSizeLong(_, _)
Delimited(size) == VarintSize(size) + size

SizeOf(type, kind, v) ==
  CASE kind = "Message" -> Delimited(ByteSizeLong(type, v))
    [] kind = "string"  -> Delimited(Len(v))
    [] kind = "double"  -> 8
    [] kind = "bool"    -> 1
    [] OTHER            -> VarintSize(v)

SizeOfMembers(K, S, m) ==
  MapThenSumSet(LAMBDA n : SumAll([i \in DOMAIN Guarded(K, S[n][1], n, m) |->
      S[n][2] + SizeOf(K.fields[n].type, S[n][3], Guarded(K, S[n][1], n, m)[i])]), DOMAIN S)

SizeAs(K, m) ==
  (IF K.init.required \subseteq m.bits THEN 0 ELSE SizeOfMembers(K, K.fallback, m))
    + SizeOfMembers(K, K.size, m) + Len(m.unknown)

ByteSizeLong(T, m) == SizeAs(Classes[T], m)

(* A nested message is written behind the size ByteSizeLong has cached.      *)
RECURSIVE InternalSerialize(_, _)
WriteValue(type, kind, v) ==
  CASE kind = "Message" -> Varint(ByteSizeLong(type, v)) \o InternalSerialize(type, v)
    [] kind = "string"  -> Varint(Len(v)) \o v
    [] kind = "double"  -> v
    [] kind = "bool"    -> <<IF v THEN 1 ELSE 0>>
    [] OTHER            -> Varint(v)

WriteMember(K, e, vs) ==
  FlattenAll([i \in DOMAIN vs |-> Tag(e[3], e[4]) \o WriteValue(K.fields[e[2]].type, e[4], vs[i])])

SerializeAs(K, m) ==
  FlattenAll([i \in DOMAIN K.serialize |->
     WriteMember(K, K.serialize[i], Guarded(K, K.serialize[i][1], K.serialize[i][2], m))])
  \o m.unknown

InternalSerialize(T, m) == SerializeAs(Classes[T], m)

(* Readers give the value and what is left; a reader that runs out of bytes  *)
(* gives Short.                                                              *)
Drop(w, k) == SubSeq(w, k + 1, Len(w))

Short == [v |-> -1, w |-> <<>>, ok |-> FALSE]

RECURSIVE ReadVarint(_)
ReadVarint(w) ==
  IF w = <<>> THEN Short
  ELSE IF w[1] < 128 THEN [v |-> w[1], w |-> Tail(w), ok |-> TRUE]
  ELSE LET r == ReadVarint(Tail(w)) IN
       IF r.ok THEN [r EXCEPT !.v = (w[1] - 128) + 128 * r.v] ELSE Short

ReadBytes(w, k) ==
  IF k > Len(w) THEN [v |-> <<>>, w |-> <<>>, ok |-> FALSE]
  ELSE [v |-> SubSeq(w, 1, k), w |-> Drop(w, k), ok |-> TRUE]

ReadDelimited(w) == LET r == ReadVarint(w) IN ReadBytes(r.w, IF r.ok THEN r.v ELSE 1)

RECURSIVE ReadPacked(_)
ReadPacked(w) == IF w = <<>> THEN <<>> ELSE LET r == ReadVarint(w) IN <<r.v>> \o ReadPacked(r.w)

(* UnknownFieldParse: the field is kept as it came.                          *)
Unknown(tag, w) ==
  LET r == CASE tag % 8 = 0 -> ReadVarint(w)
             [] tag % 8 = 1 -> ReadBytes(w, 8)
             [] tag % 8 = 2 -> ReadDelimited(w)
             [] OTHER       -> ReadBytes(w, 4)
  IN  [v |-> Varint(tag) \o SubSeq(w, 1, Len(w) - Len(r.w)), w |-> r.w, ok |-> r.ok]

(* One varint stored by the accessor the table names.  An enum value that    *)
(* <E>_IsValid rejects goes to the unknown fields.                           *)
Store(K, n, m, v) ==
  LET P == K.parse[n]
      x == IF P[4] = "bool" THEN v # 0 ELSE v
  IN  IF P[4] \in DOMAIN Enums /\ v \notin Enums[P[4]]
      THEN [m EXCEPT !.unknown = @ \o Varint(8 * P[1]) \o Varint(v)]
      ELSE CASE P[3] = "Add" -> Add(K.fields[n], m, x)
             [] P[3] = "Set" -> Set(K.fields[n], m, x)
             [] P[3] = "Has" -> [m EXCEPT !.bits = @ \union {K.internal[n]}, !.slots[n] = x]

(* A field has been read: the object, what is left, and whether all went     *)
(* well.                                                                     *)
After(r, m, new) == [msg |-> IF r.ok THEN new ELSE m, w |-> r.w, ok |-> r.ok]

Failed(m) == [msg |-> m, w |-> <<>>, ok |-> FALSE]

KeepUnknown(m, r) == After(r, m, [m EXCEPT !.unknown = @ \o r.v])

(* A nested message is read into a new element, into the member already      *)
(* there, or into a new member.                                              *)
RECURSIVE InternalParse(_, _, _)
Opened(f, m, accessor) == IF accessor = "Add" THEN Add(f, m, New(f.type)) ELSE Mutable(f, m)

Stored(f, m) == IF f.label = "oneof" THEN m.data ELSE m.slots[f.name]

Replaced(f, m, sub) ==
  IF f.label = "oneof" THEN [m EXCEPT !.data = <<sub>>]
  ELSE [m EXCEPT !.slots[f.name] = Append(Front(@), sub)]

Closed(f, m, open, r, sub) ==
  IF sub.ok THEN After(r, m, Replaced(f, open, sub.msg)) ELSE Failed(m)

ParseNested(f, m, open, r) ==
  Closed(f, m, open, r, InternalParse(f.type, Last(Stored(f, open)), r.v))

ParseKnown(K, n, m, t) ==
  LET P == K.parse[n]
      f == K.fields[n]
  IN  CASE P[4] = "Message" -> ParseNested(f, m, Opened(f, m, P[3]), ReadDelimited(t.w))
        [] P[4] = "string"  -> LET r == ReadDelimited(t.w) IN
             After(r, m, IF P[3] = "Add" THEN Add(f, m, r.v) ELSE Set(f, Mutable(f, m), r.v))
        [] P[4] = "double"  -> LET r == ReadBytes(t.w, 8) IN
             After(r, m, [m EXCEPT !.bits = @ \union {K.internal[n]}, !.slots[n] = r.v])
        [] OTHER            -> LET r == IF t.v % 8 = 2 THEN ReadDelimited(t.w) ELSE ReadVarint(t.w)
                                   vs == IF t.v % 8 = 2 THEN ReadPacked(r.v) ELSE <<r.v>> IN
             After(r, m, FoldLeft(LAMBDA x, v : Store(K, n, x, v), m, vs))

ParseField(K, m, t) ==
  LET known == {n \in DOMAIN K.parse :
                  K.parse[n][1] = t.v \div 8 /\ (t.v % 256) \in K.parse[n][2]}
  IN  CASE ~t.ok                        -> Failed(m)
        [] t.ok /\ known # {}           -> ParseKnown(K, CHOOSE n \in known : TRUE, m, t)
        [] t.ok /\ known = {} /\ (t.v = 0 \/ t.v % 8 = 4) -> Failed(m)
        [] OTHER                        -> KeepUnknown(m, Unknown(t.v, t.w))

(* _InternalParse over the bytes of one message.  has_bits are or'ed in only *)
(* at the end, but nothing reads them before.                                *)
Continue(T, r) == IF r.ok THEN InternalParse(T, r.msg, r.w) ELSE r

InternalParse(T, m, w) ==
  IF w = <<>> THEN [msg |-> m, w |-> w, ok |-> TRUE]
  ELSE Continue(T, ParseField(Classes[T], m, ReadVarint(w)))

(* ParseFromArray clears the object first and asks for the required members. *)
ParseFromArray(T, m, w) == InternalParse(T, Clear(T, m), w)

=============================================================================
