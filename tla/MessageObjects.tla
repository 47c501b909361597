----------------------------- MODULE MessageObjects -----------------------------
(*****************************************************************************)
(* Two objects of one generated class, used the way the units use them: built *)
(* through accessors, cleared and reused, merged, copied, moved (swap), sent  *)
(* to a C++ peer and received from a peer that follows src/proto.  Next to    *)
(* each object runs its contents: what the .proto file says it holds after    *)
(* the same calls, a function from field numbers to sequences of values.      *)
(*****************************************************************************)
EXTENDS MessageRuntime, MessageSchemas

CONSTANTS Types,     \* the classes explored
          MaxOps,    \* calls made on the two objects
          Drifted    \* whether a peer may use fields only src/proto has

VARIABLES class, left, right, leftHolds, rightHolds, ops

objVars == <<class, left, right, leftHolds, rightHolds, ops>>

-----------------------------------------------------------------------------
(* Contents *)

Numbers(T) == {Schemas[T][i][1] : i \in DOMAIN Schemas[T]}

Decl(T, n) == LET S == Schemas[T] IN S[CHOOSE i \in DOMAIN S : S[i][1] = n]

(* Fields the generated class has as src/proto declares them.                *)
Declares(K, d) == d[2] \in DOMAIN K.fields /\ K.fields[d[2]].type = d[4]

SharedOf(T) ==
  {n \in Numbers(T) : T \in DOMAIN Classes /\ Declares(Classes[T], Decl(T, n))}

SharedTable == [T \in DOMAIN Schemas |-> SharedOf(T)]

Shared(T) == SharedTable[T]

Accessor(T, n) == Field(T, Decl(T, n)[2])

Empty(T) == [f |-> [n \in Numbers(T) |-> <<>>], unknown |-> <<>>]

IsOneOf(T, n) == Decl(T, n)[3] = "oneof"

(* Two values of each type, the first one written like the default.          *)
RECURSIVE SamplesOf(_), Full(_, _)
SamplesOf(t) ==
  CASE t \in {"uint32", "uint64"} -> <<0, 300>>
    [] t = "double"               -> <<ZeroDouble, <<0, 0, 0, 0, 0, 0, 240, 63>> >>
    [] t = "string"               -> <<<<>>, <<65, 66>> >>
    [] t = "bool"                 -> <<FALSE, TRUE>>
    [] t \in DOMAIN Enums         -> <<Min(Enums[t]), Max(Enums[t])>>
    [] OTHER                      -> <<Empty(t), Full(t, Min(Numbers(t)))>>

(* Every field set, of a oneof only number pick (or its first one).          *)
Full(T, pick) ==
  LET cases == {n \in Numbers(T) : IsOneOf(T, n)}
      chosen == IF pick \in cases THEN pick ELSE IF cases = {} THEN 0 ELSE Min(cases)
      Value(n) == LET s == SamplesOf(Decl(T, n)[4]) IN
        IF n \in cases \ {chosen} THEN <<>>
        ELSE IF Decl(T, n)[3] = "repeated" THEN <<s[2], s[1]>> ELSE <<s[2]>>
  IN  [f |-> [n \in Numbers(T) |-> IF n \in Shared(T) THEN Value(n) ELSE <<>>], unknown |-> <<>>]

SampleTable ==
  [t \in Scalars \union DOMAIN Enums \union DOMAIN Schemas |-> SamplesOf(t)]

Samples(t) == SampleTable[t]

Starts(T) == {Empty(T)} \union {Full(T, n) : n \in {k \in Shared(T) : IsOneOf(T, k)} \union {0}}

(* What a peer may send: with Drifted also a field only src/proto has.       *)
Sendable(T) ==
  Starts(T) \union
  IF Drifted THEN {[Empty(T) EXCEPT !.f[n] = <<Samples(Decl(T, n)[4])[2]>>] :
                     n \in Numbers(T) \ Shared(T)} ELSE {}

(* The contents after a field is given a value, or loses it.                 *)
With(T, c, n, v) ==
  [c EXCEPT !.f = [k \in DOMAIN @ |->
     IF k = n THEN IF Decl(T, n)[3] = "repeated" THEN Append(@[n], v) ELSE <<v>>
     ELSE IF IsOneOf(T, n) /\ IsOneOf(T, k) THEN <<>> ELSE @[k]]]

Without(c, n) == [c EXCEPT !.f[n] = <<>>]

RECURSIVE Merged(_, _, _)
Merged(T, c, d) ==
  LET Value(n) ==
        CASE d.f[n] = <<>>                 -> c.f[n]
          [] Decl(T, n)[3] = "repeated"    -> c.f[n] \o d.f[n]
          [] IsMessage(Decl(T, n)[4]) /\ c.f[n] # <<>> ->
               <<Merged(Decl(T, n)[4], c.f[n][1], d.f[n][1])>>
          [] OTHER                         -> d.f[n]
      hasOne == \E n \in Numbers(T) : IsOneOf(T, n) /\ d.f[n] # <<>>
  IN  [unknown |-> c.unknown \o d.unknown,
       f |-> [n \in Numbers(T) |->
                IF IsOneOf(T, n) /\ hasOne /\ d.f[n] = <<>> THEN <<>> ELSE Value(n)]]

RECURSIVE Complete(_, _)
Complete(T, c) == \A n \in Numbers(T) :
  /\ Decl(T, n)[3] = "required" => c.f[n] # <<>>
  /\ IsMessage(Decl(T, n)[4]) => \A i \in 1 .. Len(c.f[n]) : Complete(Decl(T, n)[4], c.f[n][i])

(* The bytes of the contents, with repeated varints packed or one by one.    *)
Kind(t) == IF t \in DOMAIN Schemas THEN "Message" ELSE t

RECURSIVE Encode(_, _, _)
Encode(T, c, packed) ==
  LET Write(t, v) ==
        CASE t \in DOMAIN Schemas -> LET b == Encode(t, v, packed) IN Varint(Len(b)) \o b
          [] t = "string"         -> Varint(Len(v)) \o v
          [] t = "double"         -> v
          [] t = "bool"           -> <<IF v THEN 1 ELSE 0>>
          [] OTHER                -> Varint(v)
      Part(e) ==
        LET vs == c.f[e[1]]
            all == FlattenAll([i \in 1 .. Len(vs) |-> Write(e[4], vs[i])])
        IN  IF packed /\ e[3] = "repeated" /\ WireType(Kind(e[4])) = 0 /\ vs # <<>>
            THEN Tag(e[1], "string") \o Varint(Len(all)) \o all
            ELSE FlattenAll([i \in 1 .. Len(vs) |-> Tag(e[1], Kind(e[4])) \o Write(e[4], vs[i])])
  IN  FlattenAll([i \in DOMAIN Schemas[T] |-> Part(Schemas[T][i])]) \o c.unknown

(* An object with the contents, built through its accessors.                 *)
RECURSIVE Build(_, _)
Value(t, v) == IF IsMessage(t) THEN Build(t, v) ELSE v
Build(T, c) ==
  LET Put(m, e) ==
        LET f == Field(T, e[2]) IN
        FoldLeft(LAMBDA x, v : IF f.label = "repeated" THEN Add(f, x, Value(f.type, v))
                               ELSE Set(f, x, Value(f.type, v)), m, c.f[e[1]])
  IN  [FoldLeft(Put, New(T), SelectSeq(Schemas[T], LAMBDA e : e[1] \in Shared(T)))
         EXCEPT !.unknown = c.unknown]

(* The contents read back through has_<f> and the getters.                   *)
RECURSIVE Contents(_, _)
Contents(T, m) ==
  LET Read(n) == IF n \notin Shared(T) THEN <<>> ELSE
        LET f == Accessor(T, n)
            vs == Values(f, m)
        IN  [i \in 1 .. Len(vs) |-> IF IsMessage(f.type) THEN Contents(f.type, vs[i]) ELSE vs[i]]
  IN  [f |-> [n \in Numbers(T) |-> Read(n)], unknown |-> m.unknown]

-----------------------------------------------------------------------------
Init ==
  /\ class \in Types
  /\ leftHolds \in Starts(class)
  /\ rightHolds \in {Empty(class), Full(class, Max(Shared(class)))}
  /\ left = Build(class, leftHolds)
  /\ right = Build(class, rightHolds)
  /\ ops = 0

Call ==
  /\ ops < MaxOps
  /\ ops' = ops + 1
  /\ class' = class

OnThis(m, c) == /\ left' = m
                /\ leftHolds' = c
                /\ UNCHANGED <<right, rightHolds>>

(* set_<f>, add_<f> or, for a message, mutable_<f>()->CopyFrom.              *)
SetField(n, v) ==
  LET f == Accessor(class, n)
      at == Mutable(f, left)
      old == IF f.label = "oneof" THEN at.data ELSE at.slots[f.name]
  IN  /\ Call
      /\ OnThis(CASE f.label = "repeated" -> Add(f, left, Value(f.type, v))
                  [] IsMessage(f.type) -> Set(f, at, CopyFrom(f.type, old[1], Build(f.type, v)))
                  [] OTHER -> Set(f, left, v),
                With(class, leftHolds, n, v))

(* mutable_<f>() alone makes the member present.                             *)
TouchField(n) ==
  LET f == Accessor(class, n) IN
  /\ Call
  /\ f.label # "repeated" /\ IsMessage(f.type)
  /\ OnThis(Mutable(f, left),
            IF leftHolds.f[n] # <<>> THEN leftHolds ELSE With(class, leftHolds, n, Empty(f.type)))

DropField(n) ==
  /\ Call
  /\ OnThis(ClearField(Accessor(class, n), left), Without(leftHolds, n))

ReleaseField(n) ==
  LET f == Accessor(class, n) IN
  /\ Call
  /\ f.label # "repeated" /\ (IsMessage(f.type) \/ f.type = "string")
  /\ OnThis(Release(f, left), Without(leftHolds, n))

ClearThis == Call /\ OnThis(Clear(class, left), Empty(class))

MergeOther == Call /\ OnThis(MergeFrom(class, left, right), Merged(class, leftHolds, rightHolds))

CopyOther == Call /\ OnThis(CopyFrom(class, left, right), rightHolds)

ConstructFrom == Call /\ OnThis(Copy(class, right), rightHolds)

SwapBoth ==
  /\ Call
  /\ left' = SwapIn(class, left, right)
  /\ right' = SwapIn(class, right, left)
  /\ leftHolds' = rightHolds
  /\ rightHolds' = leftHolds

(* other->ParseFromArray of this->SerializeToArray.                          *)
Send ==
  /\ Call
  /\ right' = ParseFromArray(class, right, InternalSerialize(class, left)).msg
  /\ rightHolds' = leftHolds
  /\ UNCHANGED <<left, leftHolds>>

(* A peer's bytes: as this code writes them, with repeated numbers packed,   *)
(* or behind a field that neither side's .proto declares.                    *)
Extra == Tag(200, "uint32") \o <<7>> \o Tag(201, "string") \o <<2, 8, 9>>

Receive(c, form) ==
  LET w == (IF form = "extra" THEN Extra ELSE <<>>) \o Encode(class, c, form = "packed") IN
  /\ Call
  /\ OnThis(ParseFromArray(class, left, w).msg,
            [c EXCEPT !.unknown = IF form = "extra" THEN Extra ELSE <<>>])

(* A peer sends an enum value of a later .proto: the field stays unset.      *)
ReceiveEnum(n) ==
  LET w == Tag(n, "uint32") \o <<99>> IN
  /\ Call
  /\ Decl(class, n)[4] \in DOMAIN Enums
  /\ OnThis(ParseFromArray(class, left, w).msg, [Empty(class) EXCEPT !.unknown = w])

Next ==
  \/ \E n \in Shared(class) :
       \/ \E i \in 1 .. 2 : SetField(n, Samples(Decl(class, n)[4])[i])
       \/ TouchField(n)
       \/ DropField(n)
       \/ ReleaseField(n)
       \/ ReceiveEnum(n)
  \/ ClearThis
  \/ MergeOther
  \/ CopyOther
  \/ ConstructFrom
  \/ SwapBoth
  \/ Send
  \/ \E c \in Sendable(class), form \in {"plain", "packed", "extra"} : Receive(c, form)

Spec == Init /\ [][Next]_objVars

-----------------------------------------------------------------------------
(* What an object reports through has_<f> and its getters is what the .proto  *)
(* file says it holds after the same calls: set, mutable, clear, release,     *)
(* Clear, MergeFrom, CopyFrom, the copy constructor, InternalSwap, a parse of *)
(* another object's bytes into a used object, and a parse of a peer's bytes   *)
(* (packed numbers, unknown fields and unknown enum values included).  And    *)
(* IsInitialized, which ParseFromArray returns, holds exactly of the objects  *)
(* whose required fields are all set, at every depth.  With Drifted = FALSE   *)
(* the fields that only src/proto has, and the generated code has not, are    *)
(* left out.                                                                  *)
Represents ==
  /\ Contents(class, left) = leftHolds
  /\ Contents(class, right) = rightHolds
  /\ IsInitialized(class, left) = Complete(class, leftHolds)

(* The getter of a field that is not set returns the default the .proto file  *)
(* declares, whatever the object held before it was cleared or reused: the    *)
(* getters do not look at the has-bits.                                       *)
ReadsDefault ==
  \A n \in Shared(class) :
    LET d == Decl(class, n)
        f == Accessor(class, n)
        default == IF Len(d) = 5 THEN d[5] ELSE Samples(d[4])[1]
    IN  leftHolds.f[n] = <<>> =>
          CASE f.label = "optional" -> left.slots[f.name] = default
            [] f.label = "nested"   -> left.slots[f.name] = Null
                                       \/ Contents(f.type, left.slots[f.name][1]) = Empty(f.type)
            [] OTHER                -> TRUE

(* _InternalSerialize writes the bytes the .proto file prescribes, fields in  *)
(* the order of their numbers and unknown fields kept at the end.             *)
WireAgrees == InternalSerialize(class, left) = Encode(class, leftHolds, FALSE)

(* ByteSizeLong is exactly the number of bytes _InternalSerialize writes:     *)
(* payload_size and the length of the send buffer are taken from it           *)
(* (Utility.hpp:45-48), and nested messages are delimited by it.              *)
SizeExact == ByteSizeLong(class, left) = Len(InternalSerialize(class, left))

=============================================================================
