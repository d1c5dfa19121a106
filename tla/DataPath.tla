------------------------------- MODULE DataPath -------------------------------
(***************************************************************************)
(* The way of one field of a NeoFlow message: from a handler's Publish     *)
(* (internal/node/instance.go), a mock configuration, a unit test          *)
(* (neoedgex/testutil/message.go) or a publisher that does not use the     *)
(* SDK, over CBOR, to Message.ToMap and Message.ToStruct                   *)
(* (neoedgex/contract/message.go) of a node with its own input schema.     *)
(*                                                                         *)
(* A wire value is a record like a Go value, its kind the CBOR head: int,  *)
(* half, single, double, text, bytes, bool, null, undefined, container, or *)
(* bigint, an integer below MinInt64, of which the codec only makes a      *)
(* big.Int.  The codec, fxamacker/cbor with its default options, is        *)
(* external.                                                               *)
(***************************************************************************)
EXTENDS Conversion, Sequences

CONSTANTS
  GoValues,      \* what handlers publish
  MockValues,    \* the strings of a mock configuration
  ForeignWires,  \* fields of publishers that do not use the SDK
  Declarations,  \* Go types of struct fields; "any" is interface{}
  NumFields      \* bound: the struct's fields that share the key

SchemaTypes == SupportedTypes \cup {"unsupported"}
Forms == {"", "fin", "NaN", "Inf", "int", "dec", "true", "false", "base64", "text"}
FloatHeads == {"half", "single", "double"}
WireHeads == FloatHeads
               \cup {"int", "bigint", "text", "bytes", "bool", "null", "undefined",
                     "container"}

\* A string of form int has an integer for its number.
StringFormed(form, n) ==
  form \notin {"", "fin"} /\ (form = "int" => IsIntegral(n))

\* A value its Go type can hold.
WellFormed(v) ==
  /\ v \in [kind : GoKinds, form : Forms, n : Numbers]
  /\ v.kind \in IntegerKinds => v.form = "fin" /\ IsIntegral(v.n) /\ InRange(v.n, v.kind)
  /\ v.kind = "float32" => v.form \in {"fin", "NaN", "Inf"} /\ v.n \in Singles
  /\ v.kind = "float64" => v.form \in {"fin", "NaN", "Inf"} /\ v.n \in Doubles
  /\ v.kind = "bool" => v.form = "fin" /\ v.n \in {0, Unit}
  /\ v.kind = "string" => StringFormed(v.form, v.n)
  /\ v.kind \in {"bytes", "nil", "time", "other"} => v.form = ""
  /\ v.kind = "nil" => v.n = 0

\* A value its CBOR head can carry; what fits a half is a single.
WireFormed(w) ==
  /\ w \in [kind : WireHeads, form : Forms, n : Numbers]
  /\ w.kind = "int" => /\ w.form = "fin" /\ IsIntegral(w.n)
                       /\ MinOf["int64"] <= w.n /\ w.n <= MaxOf["uint64"]
  /\ w.kind \in FloatHeads => w.form \in {"fin", "NaN", "Inf"} /\ w.n \in Doubles
  /\ w.kind \in {"half", "single"} => w.n \in Singles
  /\ w.kind = "text" => StringFormed(w.form, w.n)
  /\ w.kind = "bool" => w.form = "fin" /\ w.n \in {0, Unit}
  /\ w.kind = "bytes" => w.form = ""

ASSUME GoValuesAssumption == \A v \in GoValues : WellFormed(v)
ASSUME MockValuesAssumption ==
  \A v \in MockValues : WellFormed(v) /\ v.kind = "string"
ASSUME ForeignAssumption == \A w \in ForeignWires : WireFormed(w)
ASSUME DeclarationsAssumption ==
  Declarations \subseteq DOMAIN DataTypes \cup {"any"} /\ NumFields \in Nat \ {0}

VARIABLES
  pc,       \* send, receive, struct, then done or failed
  value,    \* what the handler published or the test put in
  outType,  \* its type in the output schema, "" if there is none
  wire,     \* the field on the wire
  inType,   \* its type in the input schema, "" if there is none
  mapped,   \* what ToMap delivers
  target,   \* the struct's fields that ToStruct has been through
  failed    \* the declared type of the field its error names

vars == <<pc, value, outType, wire, inType, mapped, target, failed>>

Absent    == V("absent", "", 0)     \* no such key
Null      == V("null", "", 0)
Untouched == V("untouched", "", 0)  \* a struct field as it was before

-----------------------------------------------------------------------------
\* Mutant: only one of the two heads.
IsCBORUndefinedNull(w) == w.kind = "null"

IsCBORUndefined(w) == w.kind \in {"null", "undefined"}

(* The codec.                                                              *)

\* cbor.Marshal keeps the width of a float, but NaN and Inf go out as halves.
Encode(v) ==
  CASE v.kind \in IntegerKinds -> V("int", "fin", v.n)
    [] v.kind \in FloatKinds /\ v.form # "fin" -> V("half", v.form, 0)
    [] v.kind = "float32" /\ v.form = "fin" -> V("single", "fin", v.n)
    [] v.kind = "float64" /\ v.form = "fin" -> V("double", "fin", v.n)
    [] v.kind = "string" -> V("text", v.form, v.n)
    [] v.kind \in {"bool", "bytes"} -> v
    [] OTHER -> Null

\* decMode.Unmarshal into a variable of a Go kind.
Decode(w, kind) ==
  CASE w.kind = "int" /\ kind \in IntegerKinds ->
         IF InRange(w.n, kind) THEN V(kind, "fin", w.n) ELSE Error
    [] w.kind = "int" /\ kind = "float64" -> V(kind, "fin", RoundDouble[w.n])
    [] w.kind = "int" /\ kind = "float32" ->
         V(kind, "fin", RoundSingle[RoundDouble[w.n]])
    [] w.kind \in FloatHeads /\ kind = "float64" -> V(kind, w.form, w.n)
    [] w.kind \in FloatHeads /\ kind = "float32" ->
         IF w.form = "fin" /\ Abs(w.n) > MaxSingle THEN Error
                                                   ELSE V(kind, w.form, RoundSingle[w.n])
    [] w.kind = "text" /\ kind = "string" -> V(kind, w.form, w.n)
    [] w.kind = kind /\ kind \in {"bool", "bytes"} -> w
    [] w.kind \in {"null", "undefined"} -> V(kind, "fin", 0)
    [] OTHER -> Error

\* naturalValue's integers.
NaturalInt(n) == IF n <= MaxOf["int64"] THEN V("int64", "fin", n)
                                        ELSE V("uint64", "fin", n)

\* decodeNatural: without a type, normalized by naturalValue.
DecodeNatural(w) ==
  CASE w.kind = "int" -> NaturalInt(w.n)
    [] w.kind \in FloatHeads -> V("float64", w.form, w.n)
    [] w.kind = "text" -> V("string", w.form, w.n)
    [] w.kind \in {"bool", "bytes"} -> w
    [] IsCBORUndefined(w) -> Nil
    [] OTHER -> Error

DecodeTyped(w, type) ==
  IF type \in SupportedTypes THEN Decode(w, GoKind(type)) ELSE Error

-----------------------------------------------------------------------------
(* Decoding against a schema.                                              *)

\* Mutant: the width of a float is not looked at.
DecodeFieldWithSchemaBlind(w, type) ==
  LET typed == DecodeTyped(w, type) IN
  IF typed # Error THEN typed
  ELSE IF DecodeNatural(w) = Error THEN Error
  ELSE ConvertToTypedValue(DecodeNatural(w), type)

\* Mutant: what cannot be converted is delivered as it is.
DecodeFieldWithSchemaLenient(w, type) ==
  LET typed == DecodeTyped(w, type)
      converted == ConvertToTypedValue(DecodeNatural(w), type)
  IN IF typed # Error THEN typed
     ELSE IF converted = Error THEN DecodeNatural(w) ELSE converted

\* decodeFieldWithSchema: floats of another width go to the conversions, and
\* so does whatever the codec cannot decode as the type.
DecodeFieldWithSchema(w, type) ==
  LET typed == DecodeTyped(w, type)
      natural == DecodeNatural(w)
  IN CASE w.kind = "single" /\ type \in {"double", "string"} ->
            ConvertToTypedValue(V("float32", w.form, w.n), type)
       [] w.kind = "double" /\ type = "float" ->
            ConvertToTypedValue(V("float64", w.form, w.n), type)
       [] OTHER -> IF typed # Error THEN typed
                   ELSE IF natural = Error THEN Error
                   ELSE ConvertToTypedValue(natural, type)

\* What the schema, or in its absence nature, makes of a defined wire value.
Decoded(w, type) == IF type = "" THEN DecodeNatural(w)
                                 ELSE DecodeFieldWithSchema(w, type)

OrNil(v) == IF v = Error THEN Nil ELSE v

\* ToMap, for one key.
ToMap(w, type) ==
  CASE w = Absent -> IF type = "" THEN Absent ELSE Nil
    [] w # Absent /\ IsCBORUndefined(w) -> Nil
    [] OTHER -> OrNil(Decoded(w, type))

\* Mutant: the kinds suffice, whatever the width of a float.
WireMatchesFieldAnyFloat(w, decl) ==
  \/ decl = w.kind /\ decl \in {"bool", "bytes"}
  \/ decl \in IntegerKinds /\ w.kind = "int"
  \/ decl \in FloatKinds /\ w.kind \in FloatHeads
  \/ decl = "string" /\ w.kind = "text"

WireMatchesField(w, decl) ==
  \/ decl = w.kind /\ decl \in {"bool", "bytes"}
  \/ decl \in IntegerKinds /\ w.kind = "int"
  \/ decl = "float32" /\ w.kind = "single"
  \/ decl = "float64" /\ w.kind = "double"
  \/ decl = "string" /\ w.kind = "text"

\* Mutant: whatever reflect can convert.
AssignSchemaValueConverts(v, decl) ==
  IF decl \in IntegerKinds /\ v.kind \in IntegerKinds \cup FloatKinds
  THEN Cast(Trunc(v.n), decl)
  ELSE IF v.kind = decl THEN v ELSE Error

\* assignSchemaValue: a schema value only enters a field of its own kind.
AssignSchemaValue(v, decl) == IF v.kind = decl THEN v ELSE Error

\* A concrete struct field.
DecodeConcrete(w, type, decl) ==
  LET assigned == AssignSchemaValue(DecodeFieldWithSchema(w, type), decl)
  IN IF ~WireMatchesField(w, decl) /\ type # "" /\ assigned # Error
     THEN assigned
     ELSE Decode(w, decl)

\* One round of ToStruct's loop: what becomes of a field, or Error.
StructField(w, type, decl) ==
  CASE w = Absent \/ IsCBORUndefined(w) -> Untouched
    [] w # Absent /\ ~IsCBORUndefined(w) /\ decl = "any" ->
         IF Decoded(w, type) = Error THEN Untouched ELSE Decoded(w, type)
    [] OTHER -> DecodeConcrete(w, type, decl)

-----------------------------------------------------------------------------
Init ==
  /\ pc = "send"
  /\ value = Nil /\ outType = "" /\ wire = Absent
  /\ inType = "" /\ mapped = Absent
  /\ target = << >> /\ failed = ""

\* Publish, for one key of the handler's map or of the output schema: what is
\* not in the schema is dropped, what is missing, nil or cannot be converted
\* goes out as null.
PublishedField(v, type) ==
  CASE type = "" -> Absent
    [] type # "" /\ ConvertToTypedValue(v, type) = Error -> Null
    [] OTHER -> Encode(ConvertToTypedValue(v, type))

Publish(v, type) ==
  /\ pc = "send"
  /\ pc' = "receive"
  /\ value' = v /\ outType' = type
  /\ wire' = PublishedField(v, type)
  /\ UNCHANGED <<inType, mapped, target, failed>>

\* injectNeoFlowMessage, for one field of a mock message: a value that does not
\* parse keeps the whole message back.
Inject(s, type) ==
  /\ pc = "send"
  /\ pc' = "receive"
  /\ IF type = "" THEN wire' = Null
     ELSE /\ ConvertValueByType(s, type) # Error
          /\ wire' = Encode(ConvertValueByType(s, type))
  /\ UNCHANGED <<value, outType, inType, mapped, target, failed>>

\* A publisher that does not use the SDK.
SendForeign(w) ==
  /\ pc = "send"
  /\ pc' = "receive"
  /\ wire' = w
  /\ UNCHANGED <<value, outType, inType, mapped, target, failed>>

\* Mutant: every number is written as a double.
BuildWidened(v) ==
  /\ pc = "send" /\ v.kind \notin {"time", "other"}
  /\ pc' = "receive"
  /\ value' = v
  /\ wire' = IF v.kind = "float32" THEN Encode([v EXCEPT !.kind = "float64"])
                                  ELSE Encode(v)
  /\ UNCHANGED <<outType, inType, mapped, target, failed>>

\* testutil's NewMessage: a unit test puts a Go value on the wire as it is, past
\* every output schema, and Receive attaches the type that the test declares.
\* (What only the codec knows how to encode, if at all, is left out.)
Build(v) ==
  /\ pc = "send" /\ v.kind \notin {"time", "other"}
  /\ pc' = "receive"
  /\ value' = v
  /\ wire' = Encode(v)
  /\ UNCHANGED <<outType, inType, mapped, target, failed>>

\* NewMessage with the receiving handle's decode plan, and ToMap.
Receive(type) ==
  /\ pc = "receive"
  /\ pc' = "struct"
  /\ inType' = type
  /\ mapped' = ToMap(wire, type)
  /\ UNCHANGED <<value, outType, wire, target, failed>>

\* ToStruct comes to the next field, declared as decl.
FillField(decl) ==
  LET got == StructField(wire, inType, decl) IN
  /\ pc = "struct" /\ Len(target) < NumFields
  /\ got # Error
  /\ target' = Append(target, [decl |-> decl, got |-> got])
  /\ UNCHANGED <<pc, value, outType, wire, inType, mapped, failed>>

\* ... and returns an error that names it: the fields before keep their values.
RejectField(decl) ==
  /\ pc = "struct" /\ Len(target) < NumFields
  /\ StructField(wire, inType, decl) = Error
  /\ pc' = "failed"
  /\ failed' = decl
  /\ UNCHANGED <<value, outType, wire, inType, mapped, target>>

StructDone ==
  /\ pc = "struct" /\ Len(target) = NumFields
  /\ pc' = "done"
  /\ UNCHANGED <<value, outType, wire, inType, mapped, target, failed>>

Next ==
  \/ \E v \in GoValues, type \in SchemaTypes \cup {""} : Publish(v, type)
  \/ \E s \in MockValues, type \in SchemaTypes \cup {""} : Inject(s, type)
  \/ \E w \in ForeignWires : SendForeign(w)
  \/ \E v \in GoValues : Build(v)
  \/ \E type \in SchemaTypes \cup {""} : Receive(type)
  \/ \E decl \in Declarations : FillField(decl) \/ RejectField(decl)
  \/ StructDone

Spec == Init /\ [][Next]_vars

-----------------------------------------------------------------------------
(* Correctness.                                                            *)

\* Whatever was sent, ToMap delivers nothing but values of the Go type that the
\* key's schema type maps to, and nil; a struct field holds a value of its own type.
TypeOK ==
  /\ pc \in {"send", "receive", "struct", "done", "failed"}
  /\ value \in GoValues \cup {Nil}
  /\ wire = Absent \/ WireFormed(wire)
  /\ outType \in SchemaTypes \cup {""} /\ inType \in SchemaTypes \cup {""}
  /\ mapped = Absent \/ WellFormed(mapped)
  /\ inType # "" => mapped = Nil \/ mapped.kind = GoKind(inType)
  /\ Len(target) <= NumFields
  /\ \A i \in 1 .. Len(target) :
       LET field == target[i] IN
       /\ field.got = Untouched \/ WellFormed(field.got)
       /\ field.got = Untouched \/ field.decl \in {"any", field.got.kind}

Number(v) == v.kind \in IntegerKinds \/ (v.kind \in FloatKinds /\ v.form = "fin")

\* A number a handler publishes as an integer type arrives there truncated and
\* otherwise exact, or is refused, and it is refused only when it is out of the
\* type's range: nothing wraps, also not where a float meets the rounded bounds
\* of the 64-bit types.
IntegersExact ==
  pc = "receive" /\ Number(value) =>
    \A type \in IntegerTypes :
      ConvertToTypedValue(value, type) =
        IF InRange(Trunc(value.n), type) THEN V(type, "fin", Trunc(value.n))
                                         ELSE Error

\* What NewPortFieldDataWithAny stringifies, GetAnyValue parses back to the very
\* value of the field's type that was converted.
FieldRoundTrip ==
  pc = "receive" =>
    \A type \in SupportedTypes :
      LET typed == ConvertToTypedValue(value, type)
      IN typed # Error =>
           ConvertValueByType(NewPortFieldDataWithAny(value, type), type) = typed

\* A number converts to the double that its displayed decimal parses as: a
\* float32 of 25.34 gives the double 25.34 and not the float32's own digits.
DoubleMatchesDisplay ==
  pc = "receive" /\ Number(value) =>
    ConvertToTypedValue(value, "double")
      = ConvertValueByType(ConvertAnyValue(value), "double")

\* Two nodes of the SDK: what arrives is what converting the sent value to the
\* output type and that to the input type gives, whatever route decoding takes,
\* and undefined where one of the two fails.
PathIndependence ==
  outType # "" /\ inType # "" =>
    mapped = OrNil(ConvertToTypedValue(ConvertToTypedValue(value, outType), inType))

\* What ToStruct makes of a field that is `any`, or whose declared type is its
\* key's schema type, is what ToMap delivers; it fails or leaves the field alone
\* only where ToMap delivers nil.
AgreesWithMap(decl, got) ==
  decl \in {"any", GoKind(inType)} => got = mapped \/ (got = Untouched /\ mapped \in {Nil, Absent})

StructAgrees ==
  /\ \A i \in 1 .. Len(target) : AgreesWithMap(target[i].decl, target[i].got)
  /\ failed # "" /\ failed = GoKind(inType) => mapped = Nil

\* ToMap and ToStruct agree on everything but NaN and Inf.
FiniteStructAgrees == wire.form \notin {"NaN", "Inf"} => StructAgrees

\* An integer field whose declared type is not its key's schema type holds the
\* integer of the wire: the conversions never truncate or wrap into it.
NoSilentTruncation ==
  \A i \in 1 .. Len(target) :
    target[i].decl \in IntegerKinds \ {GoKind(inType)} /\ target[i].got # Untouched
      => wire.kind = "int" /\ target[i].got.n = wire.n

\* A field that is undefined on the wire never touches a struct nor fails it,
\* and ToMap has nil under a key of the schema.
UndefinedUntouched ==
  pc # "receive" /\ wire.kind \in {"absent", "null", "undefined"} =>
    /\ failed = ""
    /\ \A i \in 1 .. Len(target) : target[i].got = Untouched
    /\ inType # "" => mapped = Nil

\* A message that a unit test builds from a value gives its handler what a node
\* that publishes the value under its own type would have given it, whatever the
\* input schema: on the wire the two are one, and a key the schema does not know
\* keeps its number, in the natural domain.  NaN and Inf are the exception: no
\* node publishes them, but a test can.
TestsSeeProduction ==
  /\ outType = "" /\ value # Nil /\ wire # Absent
  /\ value.kind \in FloatKinds => value.form = "fin"
  =>
    /\ wire = PublishedField(value, GetDataType(value))
    /\ inType # "" =>
         mapped = OrNil(ConvertToTypedValue(
                          ConvertToTypedValue(value, GetDataType(value)), inType))
    /\ inType = "" /\ pc # "receive" /\ Number(value) =>
         /\ mapped.n = value.n /\ mapped.kind \in {"int64", "uint64", "float64"}
         /\ mapped.kind = "uint64" => mapped.n > MaxOf["int64"]

-----------------------------------------------------------------------------
(* What the repository's documents say and the code does not keep.         *)

\* ToStruct: a concrete field whose declared Go type is the one its key's input
\* schema type maps to "receives exactly what ToMap delivers for that key".
StructReceivesWhatMapDelivers == StructAgrees
=============================================================================
