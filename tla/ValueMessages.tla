----------------------------- MODULE ValueMessages ------------------------------
(*****************************************************************************)
(* How the C++ classes protoc generated are written down, one table per       *)
(* generated function, and the classes of WorkItem.proto that carry values    *)
(* and columns.  MessageRuntime gives the tables their meaning.               *)
(*                                                                            *)
(*  <M>_<field>        the accessors of a field: its has-bit and its default, *)
(*                     or the number that marks it in its oneof               *)
(*  <M>_Internal       the has-bit that set_has_<field> turns on              *)
(*  <M>_SharedCtor     the members of a new object                            *)
(*  <M>_Copy           the copy constructor: members copied when their bit    *)
(*                     is set, members copied as they are, oneof cases        *)
(*  <M>_Clear          per member the has-bits under which it is reset, and   *)
(*                     the value it is reset to                               *)
(*  <M>_InternalParse  per member its number, the tag bytes accepted, the     *)
(*                     accessor called and the reader                         *)
(*  <M>_InternalSerialize  in order: guard, member, number, writer            *)
(*  <M>_ByteSizeLong   per member its guard, the bytes of its tag, the sizer  *)
(*  <M>_MergeImpl      per member its guard                                   *)
(*  <M>_IsInitialized  the has-bits required, the members asked in turn       *)
(*  <M>_InternalSwap   the members exchanged                                  *)
(*                                                                            *)
(* A guard is the has-bit tested, or one of Each, Case and AllRequired.       *)
(*****************************************************************************)
EXTENDS Integers, Sequences

(* A null pointer; a pointer to an object o is <<o>>.                         *)
Null == <<>>

(* The pointed-to object is cleared and kept.                                 *)
Cleared == <<>>

(* Guards: once per element; when the oneof holds this member; when every     *)
(* required has-bit is set; and a reset under no condition.                   *)
Each == 0

Case == -1

AllRequired == -2

Always == {}

NoFields == [n \in {} |-> 0]

NothingRequired == [required |-> {}, nested |-> {}]

ZeroDouble == <<0, 0, 0, 0, 0, 0, 0, 0>>

(* Accessor families: a scalar or string member, a nested message behind a    *)
(* pointer, a repeated member, a member of the message's oneof.               *)
Optional(name, bit, type, default) ==
  [name |-> name, label |-> "optional", bit |-> bit, type |-> type, default |-> default]

Nested(name, bit, type) ==
  [name |-> name, label |-> "nested", bit |-> bit, type |-> type, default |-> Null]

Repeated(name, type) ==
  [name |-> name, label |-> "repeated", bit |-> Each, type |-> type, default |-> <<>>]

OneOf(name, case, type) ==
  [name |-> name, label |-> "oneof", bit |-> case, type |-> type, default |-> Null]

ColumnType_IsValid == 0 .. 5
CompType_IsValid == 0 .. 8
OperatorType_IsValid == 1 .. 12
StringOperation_IsValid == {1, 2}
AggFunc_IsValid == 1 .. 5
RelOp_IsValid == 1 .. 3
ArithOp_IsValid == 1 .. 5
SIMDISE_IsValid == 1 .. 7

(* IntValue *)
IntValue_value == Optional("value", 1, "uint64", 0)
IntValue_Internal == [value |-> 1]
IntValue_Copy == [has |-> {}, plain |-> {"value"}, cases |-> {}]
IntValue_SharedCtor == [value |-> 0]
IntValue_Clear == [value |-> <<Always, 0>>]
IntValue_InternalParse == [value |-> <<1, {8}, "Has", "uint64">>]
IntValue_InternalSerialize == << <<1, "value", 1, "uint64">> >>

\* Fault: every value counted as one byte
IntValue_ByteSizeShort == [value |-> <<1, 1, "bool">>]
IntValue_ByteSizeLong == [value |-> <<1, 1, "uint64">>]
IntValue_MergeImpl == [value |-> 1]
IntValue_InternalSwap == {"value"}

(* FloatValue *)
FloatValue_value == Optional("value", 1, "double", ZeroDouble)
FloatValue_Internal == [value |-> 1]
FloatValue_Copy == [has |-> {}, plain |-> {"value"}, cases |-> {}]
FloatValue_SharedCtor == [value |-> ZeroDouble]
FloatValue_Clear == [value |-> <<Always, ZeroDouble>>]
FloatValue_InternalParse == [value |-> <<1, {9}, "Has", "double">>]
FloatValue_InternalSerialize == << <<1, "value", 1, "double">> >>
FloatValue_ByteSizeLong == [value |-> <<1, 1, "double">>]
FloatValue_MergeImpl == [value |-> 1]
FloatValue_InternalSwap == {"value"}

(* StringValue *)
StringValue_value == Optional("value", 1, "string", <<>>)
StringValue_Internal == [value |-> 1]
StringValue_Copy == [has |-> {"value"}, plain |-> {}, cases |-> {}]
StringValue_SharedCtor == [value |-> <<>>]
StringValue_Clear == [value |-> <<{1}, <<>> >>]
StringValue_InternalParse == [value |-> <<1, {10}, "Mutable", "string">>]
StringValue_InternalSerialize == << <<1, "value", 1, "string">> >>
StringValue_ByteSizeLong == [value |-> <<1, 1, "string">>]
StringValue_MergeImpl == [value |-> 1]
StringValue_InternalSwap == {"value"}

(* ScalarValue *)
ScalarValue_intval == OneOf("intval", 1, "IntValue")
ScalarValue_floatval == OneOf("floatval", 2, "FloatValue")
ScalarValue_stringval == OneOf("stringval", 3, "StringValue")
ScalarValue_Copy == [has |-> {}, plain |-> {}, cases |-> {"floatval", "intval", "stringval"}]
ScalarValue_SharedCtor == NoFields
ScalarValue_Clear == NoFields
ScalarValue_InternalParse ==
  [intval |-> <<1, {10}, "Mutable", "Message">>, floatval |-> <<2, {18}, "Mutable", "Message">>,
   stringval |-> <<3, {26}, "Mutable", "Message">>]
ScalarValue_InternalSerialize ==
  << <<Case, "intval", 1, "Message">>, <<Case, "floatval", 2, "Message">>,
    <<Case, "stringval", 3, "Message">> >>
ScalarValue_ByteSizeLong ==
  [intval |-> <<Case, 1, "Message">>, floatval |-> <<Case, 1, "Message">>,
   stringval |-> <<Case, 1, "Message">>]
ScalarValue_MergeImpl == [intval |-> Case, floatval |-> Case, stringval |-> Case]
ScalarValue_InternalSwap == {"oneof"}

(* ColumnMessage *)
ColumnMessage_tabname == Optional("tabname", 1, "string", <<>>)
ColumnMessage_colname == Optional("colname", 2, "string", <<>>)
ColumnMessage_coltype == Optional("coltype", 4, "ColumnType", 0)
ColumnMessage_isbase == Optional("isbase", 8, "bool", FALSE)
ColumnMessage_Internal == [tabname |-> 1, colname |-> 2, coltype |-> 4, isbase |-> 8]
ColumnMessage_Copy ==
  [has |-> {"colname", "tabname"}, plain |-> {"coltype", "isbase"}, cases |-> {}]
ColumnMessage_SharedCtor == [tabname |-> <<>>, colname |-> <<>>, coltype |-> 0, isbase |-> FALSE]
ColumnMessage_Clear ==
  [tabname |-> <<{1}, <<>> >>, colname |-> <<{2}, <<>> >>, coltype |-> <<{4, 8}, 0>>,
   isbase |-> <<{4, 8}, FALSE>>]
ColumnMessage_InternalParse ==
  [tabname |-> <<1, {10}, "Mutable", "string">>, colname |-> <<2, {18}, "Mutable", "string">>,
   coltype |-> <<3, {24}, "Set", "ColumnType">>, isbase |-> <<4, {32}, "Has", "bool">>]
ColumnMessage_InternalSerialize ==
  << <<1, "tabname", 1, "string">>, <<2, "colname", 2, "string">>, <<4, "coltype", 3, "Enum">>,
    <<8, "isbase", 4, "bool">> >>
ColumnMessage_ByteSizeLong ==
  [tabname |-> <<1, 1, "string">>, colname |-> <<2, 1, "string">>, coltype |-> <<4, 1, "Enum">>,
   isbase |-> <<8, 1, "bool">>]
ColumnMessage_MergeImpl == [tabname |-> 1, colname |-> 2, coltype |-> 4, isbase |-> 8]
ColumnMessage_InternalSwap == {"colname", "coltype", "isbase", "tabname"}

==============================================================================
