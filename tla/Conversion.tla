------------------------------ MODULE Conversion ------------------------------
(***************************************************************************)
(* The value conversions of the SDK (neoedgex/contract/convert.go,         *)
(* values.go, format.go, type.go), shared by publishing and decoding.      *)
(*                                                                         *)
(* A Go value is a record: its kind, its form and its number.  Numbers are *)
(* integers in units of 1/Unit, so that fractions exist; integer kinds     *)
(* hold multiples of Unit.  The form of a float is fin, NaN or Inf; that   *)
(* of a string is what strconv makes of it: a plain integer, a decimal     *)
(* with a fraction or an exponent, NaN, Inf, true, false, base64, or text  *)
(* that parses as nothing.  Of a string without a number, and of bytes,    *)
(* the number tells one payload from another.                              *)
(*                                                                         *)
(* IEEE arithmetic and strconv's shortest decimals are external: constants *)
(* with the properties the code relies on.                                 *)
(***************************************************************************)
EXTENDS Integers

CONSTANTS
  Unit,            \* the number 1
  MinOf, MaxOf,    \* range of each Go integer kind
  Numbers,         \* the reals in play
  Singles,         \* those a float32 holds
  Doubles,         \* those a float64 holds
  RoundSingle,     \* rounding to the nearest single ...
  RoundDouble,     \* ... and double
  ShortestSingle,  \* the shortest decimal that parses back to a single ...
  ShortestDouble,  \* ... and double
  MaxSingle,       \* math.MaxFloat32
  SingleLimit,     \* where ParseFloat reports a range error for 32 ...
  DoubleLimit      \* ... and for 64 bits

IntegerTypes == {"int16", "int32", "int64", "uint16", "uint32", "uint64"}
FloatTypes   == {"float", "double"}

\* The declarable schema types; "" is TypeUndefined.
NumericTypes   == IntegerTypes \cup FloatTypes
SupportedTypes == NumericTypes \cup {"bool", "string", "raw"}

IntegerKinds == IntegerTypes \cup {"int8", "int", "uint8", "uint"}
FloatKinds   == {"float32", "float64"}

\* Kinds without a schema type: nil, time.Time and every other.
GoKinds == IntegerKinds \cup FloatKinds
             \cup {"bool", "string", "bytes", "nil", "time", "other"}

IsIntegral(n) == n % Unit = 0

ASSUME UnitAssumption == Unit \in Nat \ {0}
ASSUME NumbersAssumption == /\ {0, Unit} \subseteq Singles
                            /\ Singles \subseteq Doubles
                            /\ Doubles \subseteq Numbers
                            /\ Numbers \subseteq Int
                            /\ MaxSingle \in Nat /\ SingleLimit \in Nat
                            /\ DoubleLimit \in Nat /\ SingleLimit <= DoubleLimit
ASSUME RangeAssumption ==
  /\ MinOf \in [IntegerKinds -> Int] /\ MaxOf \in [IntegerKinds -> Nat]
  /\ \A k \in IntegerKinds :
       /\ MinOf[k] <= 0 /\ Unit <= MaxOf[k]
       /\ IsIntegral(MinOf[k]) /\ IsIntegral(MaxOf[k])
       /\ {MinOf[k], MaxOf[k]} \subseteq Numbers
       /\ MinOf["int64"] <= MinOf[k] /\ MaxOf[k] <= MaxOf["uint64"]
  /\ \A pair \in {<<"int8", "int16">>, <<"int", "int64">>,
                 <<"uint8", "uint16">>, <<"uint", "uint64">>} :
       MinOf[pair[2]] <= MinOf[pair[1]] /\ MaxOf[pair[1]] <= MaxOf[pair[2]]
ASSUME RoundAssumption ==
  /\ RoundSingle \in [Numbers -> Singles] /\ RoundDouble \in [Numbers -> Doubles]
  /\ \A n \in Singles : RoundSingle[n] = n
  /\ \A n \in Doubles : RoundDouble[n] = n

\* "float64(MaxInt64/MaxUint64) rounds up to 2^63/2^64".
ASSUME RoundsUpAssumption ==
  \A k \in {"int64", "uint64"} : RoundDouble[MaxOf[k]] = MaxOf[k] + Unit
ASSUME ShortestAssumption ==
  /\ ShortestSingle \in [Singles -> Numbers]
  /\ ShortestDouble \in [Doubles -> Numbers]
  /\ \A n \in Singles : /\ RoundSingle[ShortestSingle[n]] = n
                        /\ ShortestSingle[n] \in -SingleLimit + 1 .. SingleLimit - 1
  /\ \A n \in Doubles : /\ RoundDouble[ShortestDouble[n]] = n
                        /\ ShortestDouble[n] \in -DoubleLimit + 1 .. DoubleLimit - 1

-----------------------------------------------------------------------------
V(kind, form, n) == [kind |-> kind, form |-> form, n |-> n]

Error == V("error", "", 0)
Nil   == V("nil", "", 0)

\* GetDataType: the narrowest schema type that holds a kind, "" for none.
DataTypes ==
  [int8 |-> "int16", int16 |-> "int16", int32 |-> "int32", int |-> "int64",
   int64 |-> "int64", uint8 |-> "uint16", uint16 |-> "uint16", uint32 |-> "uint32",
   uint |-> "uint64", uint64 |-> "uint64", float32 |-> "float", float64 |-> "double",
   bool |-> "bool", string |-> "string", bytes |-> "raw"]

GetDataType(v) == IF v.kind \in DOMAIN DataTypes THEN DataTypes[v.kind] ELSE ""

\* The Go type a schema type maps to.
GoKind(type) == CASE type = "float"  -> "float32"
                  [] type = "double" -> "float64"
                  [] type = "raw"    -> "bytes"
                  [] OTHER           -> type

CanConvertTo(srcType, destType) ==
  \/ destType \in NumericTypes /\ srcType \notin {"raw", ""}
  \/ destType = "bool" /\ srcType \notin {"string", "raw", ""}
  \/ destType = "string" /\ srcType \notin {"raw", ""}
  \/ destType = "raw" /\ srcType = "raw"

Abs(n)   == IF n < 0 THEN -n ELSE n
Trunc(n) == IF n < 0 THEN -(((-n) \div Unit) * Unit) ELSE (n \div Unit) * Unit

InRange(n, kind) == MinOf[kind] <= n /\ n <= MaxOf[kind]

\* No single is larger than math.MaxFloat32, a truncated double is a double, and
\* the integers are far from the end of either format.
ASSUME MagnitudeAssumption ==
  /\ \A n \in Singles : Abs(n) <= MaxSingle
  /\ \A n \in Doubles : Trunc(n) \in Doubles
  /\ \A k \in IntegerKinds, n \in Numbers :
       InRange(n, k) => Abs(n) < DoubleLimit /\ Abs(RoundDouble[n]) <= MaxSingle

\* Go's integer conversion, which wraps: castInteger and castUnsigned.
SizeOf(kind) == (MaxOf[kind] - MinOf[kind]) + Unit
Cast(n, kind) == V(kind, "fin", ((n - MinOf[kind]) % SizeOf(kind)) + MinOf[kind])

-----------------------------------------------------------------------------
\* ParseInt and ParseUint: plain integers within the width.
ParseInteger(s, type) ==
  IF s.form = "int" /\ InRange(s.n, type) THEN V(type, "fin", s.n) ELSE Error

\* ParseFloat, which knows NaN and Inf and reports what overflows.
ParseFloat(s, kind, round, limit) ==
  CASE s.form \in {"NaN", "Inf"} -> V(kind, s.form, 0)
    [] s.form \in {"int", "dec"} /\ Abs(s.n) < limit -> V(kind, "fin", round[s.n])
    [] OTHER -> Error

\* ConvertValueByType: parse a stringified value as a schema type.
ConvertValueByType(s, type) ==
  CASE type \in IntegerTypes -> ParseInteger(s, type)
    [] type = "float"  -> ParseFloat(s, "float32", RoundSingle, SingleLimit)
    [] type = "double" -> ParseFloat(s, "float64", RoundDouble, DoubleLimit)
    [] type = "string" -> s
    [] type = "raw"    -> IF s.form = "base64" THEN V("bytes", "", s.n) ELSE Error
    [] type = "bool"   -> V("bool", "fin", IF s.form = "true" THEN Unit ELSE 0)
    [] OTHER -> Error

\* FormatFloat(_, 'f', -1, _): an integer-valued float has no fraction.
FormatFloat(v, shortest) ==
  IF v.form # "fin" THEN V("string", v.form, 0)
  ELSE V("string", IF IsIntegral(shortest[v.n]) THEN "int" ELSE "dec",
         shortest[v.n])

\* Mutant: a float64 formatted with the precision of a float32.
ConvertAnyValueNarrow(v) ==
  CASE v.kind \in IntegerKinds -> V("string", "int", v.n)
    [] v.kind = "float32" -> FormatFloat(v, ShortestSingle)
    [] v.kind = "float64" ->
         V("string", "dec", ShortestSingle[RoundSingle[v.n]])
    [] v.kind = "string"  -> v
    [] OTHER -> Error

\* ConvertAnyValue: stringify a native value.
ConvertAnyValue(v) ==
  CASE v.kind \in IntegerKinds -> V("string", "int", v.n)
    [] v.kind = "float32" -> FormatFloat(v, ShortestSingle)
    [] v.kind = "float64" -> FormatFloat(v, ShortestDouble)
    [] v.kind = "string"  -> v
    [] v.kind = "bool"    -> V("string", IF v.n = 0 THEN "false" ELSE "true", 0)
    [] v.kind = "bytes"   -> V("string", "base64", v.n)
    [] OTHER -> Error

-----------------------------------------------------------------------------
\* Mutant: the upper bounds of all integer types are inclusive.
OutOfIntegerRangeInclusive(f, type) ==
  f < RoundDouble[MinOf[type]] \/ f > RoundDouble[MaxOf[type]]

\* outOfIntegerRange: of a truncated float.  The constants it compares with are
\* rounded to doubles, which shows only for the widest types.
OutOfIntegerRange(f, type) ==
  \/ f < MinOf[type]
  \/ IF type \in {"int64", "uint64"} THEN f >= RoundDouble[MaxOf[type]]
                                     ELSE f > MaxOf[type]

\* convertToInteger
ConvertToInteger(v, type) ==
  IF v.kind = "string" THEN ConvertValueByType(v, type)
  ELSE IF v.kind = "bool" THEN Cast(v.n, type)
  ELSE IF v.kind \in FloatKinds
       THEN IF OutOfIntegerRange(Trunc(v.n), type) THEN Error
                                                   ELSE Cast(Trunc(v.n), type)
  ELSE IF InRange(v.n, type) THEN Cast(v.n, type) ELSE Error

\* convertToFloat's float64: a float32 comes back as the decimal it displays as.
Widen(v) ==
  IF v.kind = "float32" THEN RoundDouble[ShortestSingle[v.n]]
                        ELSE RoundDouble[v.n]

Narrow(f) == IF Abs(f) > MaxSingle THEN Error
                                   ELSE V("float32", "fin", RoundSingle[f])

\* Mutant: widening keeps every digit.
ConvertToFloatExactly(v, type) ==
  IF v.kind = "string"
  THEN LET typed == ConvertValueByType(v, type)
       IN IF typed.form = "fin" THEN typed ELSE Error
  ELSE IF type = "float" THEN Narrow(RoundDouble[v.n])
  ELSE V("float64", "fin", RoundDouble[v.n])

\* convertToFloat
ConvertToFloat(v, type) ==
  CASE v.kind = "string" ->
         LET typed == ConvertValueByType(v, type)
         IN IF typed.form = "fin" THEN typed ELSE Error
    [] v.kind = "float32" /\ type = "float" -> v
    [] v.kind # "string" /\ type = "double" -> V("float64", "fin", Widen(v))
    [] OTHER -> Narrow(Widen(v))

\* What ConvertToTypedValue refuses before it looks at the pair in detail.
Refused(v, type) ==
  \/ type \notin SupportedTypes
  \/ GetDataType(v) = ""
  \/ v.kind \in FloatKinds /\ v.form # "fin"
  \/ ~CanConvertTo(GetDataType(v), type)

\* ConvertToTypedValue
ConvertToTypedValue(v, type) ==
  IF Refused(v, type) THEN Error
  ELSE IF type \in IntegerTypes THEN ConvertToInteger(v, type)
  ELSE IF type \in FloatTypes THEN ConvertToFloat(v, type)
  ELSE IF type = "bool" THEN V("bool", "fin", IF v.n = 0 THEN 0 ELSE Unit)
  ELSE IF type = "string" THEN ConvertAnyValue(v)
  ELSE v

\* NewPortFieldDataWithAny: the Value of a field of the type.
NewPortFieldDataWithAny(v, type) ==
  LET typed == ConvertToTypedValue(v, type)
  IN IF typed = Error THEN Error ELSE ConvertAnyValue(typed)
=============================================================================
