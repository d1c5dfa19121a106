------------------------- MODULE DataPathFieldProofs -------------------------
(***************************************************************************)
(* What becomes of a field on its way, for every system of floating-point  *)
(* numbers, every width of the integers and every input: the types of what *)
(* is delivered, that decoding agrees with the conversions by whatever     *)
(* route it goes, and that ToStruct agrees with ToMap.                     *)
(***************************************************************************)
EXTENDS DataPathProofs

USE DEF IntegerTypes, FloatTypes, NumericTypes, SupportedTypes, IntegerKinds,
        FloatKinds, FloatHeads

-----------------------------------------------------------------------------
(* The conversions, pair by pair.                                          *)

\* GetDataType, kind by kind.
LEMMA DataTypeOf ==
  ASSUME NEW v
  PROVE  /\ v.kind \in IntegerKinds => GetDataType(v) \in IntegerTypes
         /\ v.kind = "float32" => GetDataType(v) = "float"
         /\ v.kind = "float64" => GetDataType(v) = "double"
         /\ v.kind \in {"bool", "string"} => GetDataType(v) = v.kind
         /\ v.kind = "bytes" => GetDataType(v) = "raw"
         /\ v.kind \in {"nil", "time", "other", "error"} => GetDataType(v) = ""
<1>1. DOMAIN DataTypes =
        IntegerKinds \cup FloatKinds \cup {"bool", "string", "bytes"}
  BY DEF DataTypes
<1>2. /\ DataTypes["int8"] = "int16" /\ DataTypes["int16"] = "int16"
      /\ DataTypes["int32"] = "int32" /\ DataTypes["int"] = "int64"
      /\ DataTypes["int64"] = "int64" /\ DataTypes["uint8"] = "uint16"
      /\ DataTypes["uint16"] = "uint16" /\ DataTypes["uint32"] = "uint32"
      /\ DataTypes["uint"] = "uint64" /\ DataTypes["uint64"] = "uint64"
      /\ DataTypes["float32"] = "float" /\ DataTypes["float64"] = "double"
      /\ DataTypes["bool"] = "bool" /\ DataTypes["string"] = "string"
      /\ DataTypes["bytes"] = "raw"
  BY DEF DataTypes
<1>3. QED
  BY <1>1, <1>2 DEF GetDataType

\* What has no schema type converts to nothing, and nothing converts to what is
\* not a schema type.
LEMMA ConvertRefuses ==
  ASSUME NEW v, NEW type,
         \/ v.kind \in {"nil", "time", "other", "error"}
         \/ type \notin SupportedTypes
  PROVE  ConvertToTypedValue(v, type) = Error
BY DataTypeOf DEF ConvertToTypedValue, Refused

\* NaN and Inf convert to nothing.
LEMMA ConvertNaN ==
  ASSUME NEW v, NEW type, v.kind \in FloatKinds, v.form # "fin"
  PROVE  ConvertToTypedValue(v, type) = Error
BY DEF ConvertToTypedValue, Refused

\* Numbers, to the types that are not integers.
LEMMA ConvertNumber ==
  ASSUME NEW v, Number(v)
  PROVE  /\ ConvertToTypedValue(v, "double") = V("float64", "fin", Widen(v))
         /\ ConvertToTypedValue(v, "float") =
              IF v.kind = "float32" THEN v ELSE Narrow(Widen(v))
         /\ ConvertToTypedValue(v, "bool") =
              V("bool", "fin", IF v.n = 0 THEN 0 ELSE Unit)
         /\ ConvertToTypedValue(v, "string") = ConvertAnyValue(v)
         /\ ConvertToTypedValue(v, "raw") = Error
<1>1. \A type \in {"float", "double", "bool", "string"} : ~Refused(v, type)
  BY DataTypeOf DEF Number, Refused, CanConvertTo
<1>2. Refused(v, "raw")
  BY DataTypeOf DEF Number, Refused, CanConvertTo
<1>3. /\ ConvertToFloat(v, "double") = V("float64", "fin", Widen(v))
      /\ ConvertToFloat(v, "float") =
           IF v.kind = "float32" THEN v ELSE Narrow(Widen(v))
  BY DEF ConvertToFloat, Number
<1>4. QED
  BY <1>1, <1>2, <1>3 DEF ConvertToTypedValue

\* Strings.
LEMMA ConvertString ==
  ASSUME NEW v, v.kind = "string"
  PROVE  /\ \A type \in IntegerTypes :
              ConvertToTypedValue(v, type) = ParseInteger(v, type)
         /\ \A type \in FloatTypes :
              ConvertToTypedValue(v, type) =
                IF ConvertValueByType(v, type).form = "fin"
                THEN ConvertValueByType(v, type) ELSE Error
         /\ ConvertToTypedValue(v, "bool") = Error
         /\ ConvertToTypedValue(v, "string") = v
         /\ ConvertToTypedValue(v, "raw") = Error
<1>1. \A type \in NumericTypes \cup {"string"} : ~Refused(v, type)
  BY DataTypeOf DEF Refused, CanConvertTo
<1>2. Refused(v, "bool") /\ Refused(v, "raw")
  BY DataTypeOf DEF Refused, CanConvertTo
<1>3. \A type \in IntegerTypes : ConvertToInteger(v, type) = ParseInteger(v, type)
  BY DEF ConvertToInteger, ConvertValueByType
<1>4. \A type \in FloatTypes :
        ConvertToFloat(v, type) = IF ConvertValueByType(v, type).form = "fin"
                                  THEN ConvertValueByType(v, type) ELSE Error
  BY DEF ConvertToFloat
<1>5. ConvertAnyValue(v) = v
  BY DEF ConvertAnyValue
<1>6. QED
  BY <1>1, <1>2, <1>3, <1>4, <1>5 DEF ConvertToTypedValue

\* Booleans.
LEMMA ConvertBool ==
  ASSUME NEW v, WellFormed(v), v.kind = "bool"
  PROVE  /\ \A type \in IntegerTypes :
              ConvertToTypedValue(v, type) = V(type, "fin", v.n)
         /\ ConvertToTypedValue(v, "float") = V("float32", "fin", v.n)
         /\ ConvertToTypedValue(v, "double") = V("float64", "fin", v.n)
         /\ ConvertToTypedValue(v, "bool") = v
         /\ ConvertToTypedValue(v, "string") =
              V("string", IF v.n = 0 THEN "false" ELSE "true", 0)
         /\ ConvertToTypedValue(v, "raw") = Error
<1>1. \A type \in NumericTypes \cup {"bool", "string"} : ~Refused(v, type)
  BY DataTypeOf DEF Refused, CanConvertTo
<1>2. Refused(v, "raw")
  BY DataTypeOf DEF Refused, CanConvertTo
<1>3. /\ v.n \in {0, Unit} /\ v.n \in Singles /\ v.n \in Doubles /\ v.n \in Int
      /\ v = V("bool", "fin", v.n) /\ v.n \in Numbers
  BY NumbersAssumption DEF WellFormed, V
<1>4. ASSUME NEW type \in IntegerTypes
      PROVE  ConvertToInteger(v, type) = V(type, "fin", v.n)
  <2>1. InRange(v.n, type)
    BY <1>3, RangeAssumption, UnitAssumption DEF InRange
  <2>2. QED
    BY <1>3, <2>1, CastExact DEF ConvertToInteger
<1>5. /\ Widen(v) = v.n
      /\ Abs(v.n) <= MaxSingle /\ Abs(v.n) \in Int
      /\ RoundSingle[v.n] = v.n
  BY <1>3, RoundAssumption, MagnitudeAssumption DEF Widen, Abs
<1>6. /\ ConvertToFloat(v, "double") = V("float64", "fin", v.n)
      /\ ConvertToFloat(v, "float") = Narrow(v.n)
  BY <1>5 DEF ConvertToFloat
<1>7. Narrow(v.n) = V("float32", "fin", v.n)
  BY <1>5, NumbersAssumption DEF Narrow
<1>8. ConvertAnyValue(v) = V("string", IF v.n = 0 THEN "false" ELSE "true", 0)
  BY DEF ConvertAnyValue
<1>9. V("bool", "fin", IF v.n = 0 THEN 0 ELSE Unit) = v
  BY <1>3
<1>10. QED
  BY <1>1, <1>2, <1>4, <1>6, <1>7, <1>8, <1>9 DEF ConvertToTypedValue

\* Bytes.
LEMMA ConvertBytes ==
  ASSUME NEW v, NEW type \in SupportedTypes, v.kind = "bytes"
  PROVE  ConvertToTypedValue(v, type) = IF type = "raw" THEN v ELSE Error
BY DataTypeOf DEF ConvertToTypedValue, Refused, CanConvertTo

-----------------------------------------------------------------------------
(* What the conversions deliver.                                           *)

\* A value of the Go type that a schema type maps to, a finite one.
Typed(u, type) ==
  /\ type \in SupportedTypes /\ WellFormed(u) /\ u.kind = GoKind(type)
  /\ u.kind \in FloatKinds => u.form = "fin"

\* GoKind, type by type.
LEMMA GoKindOf ==
  /\ \A type \in IntegerTypes \cup {"bool", "string"} : GoKind(type) = type
  /\ GoKind("float") = "float32" /\ GoKind("double") = "float64"
  /\ GoKind("raw") = "bytes"
BY DEF GoKind

\* Singles and doubles are numbers, and rounding a number gives one of them.
LEMMA RoundType ==
  /\ 0 \in Singles /\ Unit \in Singles
  /\ Singles \subseteq Doubles /\ Doubles \subseteq Numbers /\ Numbers \subseteq Int
  /\ \A n \in Numbers : RoundSingle[n] \in Singles /\ RoundDouble[n] \in Doubles
  /\ \A n \in Singles : ShortestSingle[n] \in Numbers
  /\ \A n \in Doubles : ShortestDouble[n] \in Numbers
BY NumbersAssumption, RoundAssumption, ShortestAssumption

\* An integer within a kind's range is a value of the kind.
LEMMA IntegerFormed ==
  ASSUME NEW kind \in IntegerKinds, NEW n \in Numbers, IsIntegral(n), InRange(n, kind)
  PROVE  WellFormed(V(kind, "fin", n))
BY DEF WellFormed, V, GoKinds, Forms

\* So are a single and a double of theirs, whether finite or not.
LEMMA FloatFormed ==
  ASSUME NEW form \in {"fin", "NaN", "Inf"}
  PROVE  /\ \A n \in Singles : WellFormed(V("float32", form, n))
         /\ \A n \in Doubles : WellFormed(V("float64", form, n))
BY RoundType DEF WellFormed, V, GoKinds, Forms

\* A stringified number is a string of a form that tells integers apart.
LEMMA StringTyped ==
  ASSUME NEW form \in Forms, NEW n \in Numbers, StringFormed(form, n)
  PROVE  WellFormed(V("string", form, n))
BY DEF WellFormed, V, GoKinds

\* Widening gives a double.
LEMMA WidenType ==
  ASSUME NEW v, WellFormed(v)
  PROVE  Widen(v) \in Doubles
<1>1. v.n \in Numbers /\ (v.kind = "float32" => v.n \in Singles)
  BY DEF WellFormed
<1>2. QED
  BY <1>1, RoundType DEF Widen

\* Stringifying a value gives a string, or fails where there is no schema type.
LEMMA AnyValueFormed ==
  ASSUME NEW v, WellFormed(v), v.kind \notin {"nil", "time", "other"}
  PROVE  WellFormed(ConvertAnyValue(v)) /\ ConvertAnyValue(v).kind = "string"
<1>1. /\ v.kind \in GoKinds /\ v.form \in Forms /\ v.n \in Numbers
      /\ 0 \in Numbers
  BY RoundType DEF WellFormed
<1>2. CASE v.kind \in IntegerKinds
  <2>1. ConvertAnyValue(v) = V("string", "int", v.n)
    BY <1>2 DEF ConvertAnyValue
  <2>2. StringFormed("int", v.n) /\ "int" \in Forms
    BY <1>2 DEF WellFormed, StringFormed, Forms
  <2>3. QED
    BY <1>1, <2>1, <2>2, StringTyped DEF V
<1>3. ASSUME v.kind \in FloatKinds, NEW shortest, shortest[v.n] \in Numbers
      PROVE  /\ WellFormed(FormatFloat(v, shortest))
             /\ FormatFloat(v, shortest).kind = "string"
  <2>1. v.form \in {"fin", "NaN", "Inf"}
    BY <1>3 DEF WellFormed
  <2>2. /\ StringFormed("NaN", 0) /\ StringFormed("Inf", 0)
        /\ StringFormed("dec", shortest[v.n])
        /\ IsIntegral(shortest[v.n]) => StringFormed("int", shortest[v.n])
        /\ {"NaN", "Inf", "dec", "int"} \subseteq Forms
    BY DEF StringFormed, Forms
  <2>3. QED
    BY <1>1, <1>3, <2>1, <2>2, StringTyped DEF FormatFloat, V
<1>4. CASE v.kind = "float32"
  <2>1. v.n \in Singles /\ ConvertAnyValue(v) = FormatFloat(v, ShortestSingle)
    BY <1>4 DEF ConvertAnyValue, WellFormed
  <2>2. QED
    BY <1>3, <1>4, <2>1, RoundType
<1>5. CASE v.kind = "float64"
  <2>1. v.n \in Doubles /\ ConvertAnyValue(v) = FormatFloat(v, ShortestDouble)
    BY <1>5 DEF ConvertAnyValue, WellFormed
  <2>2. QED
    BY <1>3, <1>5, <2>1, RoundType
<1>6. CASE v.kind \in {"bool", "bytes"}
  <2>1. ConvertAnyValue(v) \in {V("string", "false", 0), V("string", "true", 0),
                                V("string", "base64", v.n)}
    BY <1>6 DEF ConvertAnyValue
  <2>2. /\ StringFormed("false", 0) /\ StringFormed("true", 0)
        /\ StringFormed("base64", v.n)
        /\ {"false", "true", "base64"} \subseteq Forms
    BY DEF StringFormed, Forms
  <2>3. QED
    BY <1>1, <2>1, <2>2, StringTyped DEF V
<1>7. CASE v.kind = "string"
  BY <1>7 DEF ConvertAnyValue
<1>8. QED
  BY <1>1, <1>2, <1>4, <1>5, <1>6, <1>7 DEF GoKinds

\* Parsing a string gives a value of the type, or fails.
LEMMA ParseFormed ==
  ASSUME NEW s, WellFormed(s), s.kind = "string", NEW type \in SupportedTypes
  PROVE  \/ ConvertValueByType(s, type) = Error
         \/ /\ WellFormed(ConvertValueByType(s, type))
            /\ ConvertValueByType(s, type).kind = GoKind(type)
<1>1. /\ s.form \in Forms /\ s.n \in Numbers
      /\ s.form = "int" => IsIntegral(s.n)
  BY DEF WellFormed, StringFormed
<1>2. CASE type \in IntegerTypes
  <2>1. ConvertValueByType(s, type) = ParseInteger(s, type)
    BY <1>2 DEF ConvertValueByType
  <2>2. s.form = "int" /\ InRange(s.n, type) => WellFormed(V(type, "fin", s.n))
    BY <1>1, <1>2, IntegerFormed
  <2>3. QED
    BY <1>2, <2>1, <2>2, GoKindOf DEF ParseInteger, V
<1>3. CASE type = "float"
  <2>1. ConvertValueByType(s, type) =
          ParseFloat(s, "float32", RoundSingle, SingleLimit)
    BY <1>3 DEF ConvertValueByType
  <2>2. ConvertValueByType(s, type) \in
          {V("float32", "NaN", 0), V("float32", "Inf", 0),
           V("float32", "fin", RoundSingle[s.n]), Error}
    BY <2>1 DEF ParseFloat
  <2>3. 0 \in Singles /\ RoundSingle[s.n] \in Singles
    BY <1>1, RoundType
  <2>4. /\ WellFormed(V("float32", "NaN", 0)) /\ WellFormed(V("float32", "Inf", 0))
        /\ WellFormed(V("float32", "fin", RoundSingle[s.n]))
    BY <2>3, FloatFormed
  <2>5. QED
    BY <1>3, <2>2, <2>4, GoKindOf DEF V
<1>4. CASE type = "double"
  <2>1. ConvertValueByType(s, type) =
          ParseFloat(s, "float64", RoundDouble, DoubleLimit)
    BY <1>4 DEF ConvertValueByType
  <2>2. ConvertValueByType(s, type) \in
          {V("float64", "NaN", 0), V("float64", "Inf", 0),
           V("float64", "fin", RoundDouble[s.n]), Error}
    BY <2>1 DEF ParseFloat
  <2>3. 0 \in Doubles /\ RoundDouble[s.n] \in Doubles
    BY <1>1, RoundType
  <2>4. /\ WellFormed(V("float64", "NaN", 0)) /\ WellFormed(V("float64", "Inf", 0))
        /\ WellFormed(V("float64", "fin", RoundDouble[s.n]))
    BY <2>3, FloatFormed
  <2>5. QED
    BY <1>4, <2>2, <2>4, GoKindOf DEF V
<1>5. CASE type = "string"
  BY <1>5, GoKindOf DEF ConvertValueByType
<1>6. CASE type = "raw"
  <2>1. WellFormed(V("bytes", "", s.n))
    BY <1>1 DEF WellFormed, V, GoKinds, Forms
  <2>2. QED
    BY <1>6, <2>1, GoKindOf DEF ConvertValueByType, V
<1>7. CASE type = "bool"
  <2>1. WellFormed(V("bool", "fin", 0)) /\ WellFormed(V("bool", "fin", Unit))
    BY RoundType DEF WellFormed, V, GoKinds, Forms
  <2>2. QED
    BY <1>7, <2>1, GoKindOf DEF ConvertValueByType, V
<1>8. QED
  BY <1>2, <1>3, <1>4, <1>5, <1>6, <1>7

\* ConvertToTypedValue delivers a finite value of the type, or fails.
LEMMA ConvertFormed ==
  ASSUME NEW v, WellFormed(v), NEW type
  PROVE  \/ ConvertToTypedValue(v, type) = Error
         \/ Typed(ConvertToTypedValue(v, type), type)
<1> DEFINE u == ConvertToTypedValue(v, type)
<1>1. /\ v.kind \in GoKinds /\ v.form \in Forms /\ v.n \in Numbers
      /\ v.kind = "float32" => v.n \in Singles
      /\ v.kind = "float64" => v.n \in Doubles
      /\ Numbers \subseteq Int
  BY RoundType DEF WellFormed
<1>2. CASE type \notin SupportedTypes \/ v.kind \in {"nil", "time", "other"}
  BY <1>2, ConvertRefuses
<1>3. CASE v.kind \in FloatKinds /\ v.form # "fin"
  BY <1>3, ConvertNaN
<1>b. WellFormed(V("bool", "fin", 0)) /\ WellFormed(V("bool", "fin", Unit))
  BY RoundType DEF WellFormed, V, GoKinds, Forms
<1>4. CASE Number(v) /\ type \in SupportedTypes
  <2>1. CASE type \in IntegerTypes
    <3>1. u = IF InRange(Trunc(v.n), type) THEN V(type, "fin", Trunc(v.n)) ELSE Error
      BY <1>4, <2>1, IntegerConversion
    <3>2. Trunc(v.n) \in Numbers /\ IsIntegral(Trunc(v.n))
      <4>1. v.n \in Int /\ IsIntegral(Trunc(v.n))
        BY <1>1, TruncIntegral
      <4>2. CASE v.kind \in IntegerKinds
        <5>1. IsIntegral(v.n)
          BY <4>2 DEF WellFormed
        <5>2. QED
          BY <1>1, <4>1, <5>1, TruncFixed
      <4>3. CASE v.kind \in FloatKinds
        <5>1. v.n \in Doubles
          BY <1>1, <4>3, RoundType
        <5>2. Trunc(v.n) \in Doubles
          BY <5>1, MagnitudeAssumption
        <5>3. QED
          BY <4>1, <5>2, RoundType
      <4>4. QED
        BY <1>4, <4>2, <4>3 DEF Number
    <3>3. InRange(Trunc(v.n), type) => WellFormed(V(type, "fin", Trunc(v.n)))
      BY <2>1, <3>2, IntegerFormed
    <3>4. QED
      BY <2>1, <3>1, <3>3, GoKindOf DEF Typed, V
  <2>2. Widen(v) \in Doubles
    BY WidenType
  <2>3. CASE type = "double"
    BY <1>4, <2>2, <2>3, ConvertNumber, FloatFormed, GoKindOf DEF Typed, V
  <2>4. CASE type = "float"
    <3>1. Widen(v) \in Numbers /\ RoundSingle[Widen(v)] \in Singles
      BY <2>2, RoundType
    <3>2. CASE v.kind = "float32"
      BY <1>4, <2>4, <3>2, ConvertNumber, GoKindOf DEF Typed, Number
    <3>3. CASE v.kind # "float32"
      <4>1. u = Error \/ u = V("float32", "fin", RoundSingle[Widen(v)])
        BY <1>4, <2>4, <3>3, ConvertNumber DEF Narrow
      <4>2. QED
        BY <2>4, <3>1, <4>1, FloatFormed, GoKindOf DEF Typed, V
    <3>4. QED
      BY <3>2, <3>3
  <2>5. CASE type = "bool"
    BY <1>4, <1>b, <2>5, ConvertNumber, GoKindOf DEF Typed, V
  <2>6. CASE type = "string"
    BY <1>1, <1>4, <2>6, ConvertNumber, AnyValueFormed, GoKindOf DEF Typed, Number
  <2>7. CASE type = "raw"
    BY <1>4, <2>7, ConvertNumber
  <2>8. QED
    BY <1>4, <2>1, <2>3, <2>4, <2>5, <2>6, <2>7
<1>5. CASE v.kind = "string" /\ type \in SupportedTypes
  <2>1. CASE type \in IntegerTypes
    <3>1. u = ConvertValueByType(v, type)
      BY <1>5, <2>1, ConvertString DEF ConvertValueByType
    <3>2. QED
      BY <1>5, <2>1, <3>1, ParseFormed, GoKindOf DEF Typed
  <2>2. CASE type \in FloatTypes
    <3>1. u = Error \/ (u = ConvertValueByType(v, type) /\ u.form = "fin")
      BY <1>5, <2>2, ConvertString
    <3>2. QED
      BY <1>5, <3>1, ParseFormed DEF Typed
  <2>3. CASE type \in {"bool", "string", "raw"}
    BY <1>5, <2>3, ConvertString, GoKindOf DEF Typed
  <2>4. QED
    BY <1>5, <2>1, <2>2, <2>3
<1>6. CASE v.kind = "bool" /\ type \in SupportedTypes
  <2>1. v.n \in {0, Unit} /\ v.n \in Singles /\ v.n \in Doubles
    BY <1>6, RoundType DEF WellFormed
  <2>2. CASE type \in IntegerTypes
    <3>1. InRange(v.n, type) /\ IsIntegral(v.n)
      BY <2>1, <2>2, RangeAssumption, UnitAssumption DEF InRange, IsIntegral
    <3>2. WellFormed(V(type, "fin", v.n))
      BY <1>1, <2>2, <3>1, IntegerFormed
    <3>3. QED
      BY <1>6, <2>2, <3>2, ConvertBool, GoKindOf DEF Typed, V
  <2>3. CASE type \in FloatTypes
    BY <1>6, <2>1, <2>3, ConvertBool, FloatFormed, GoKindOf DEF Typed, V
  <2>4. CASE type = "string"
    <3>1. u = ConvertAnyValue(v)
      BY <1>6, <2>4, ConvertBool DEF ConvertAnyValue
    <3>2. QED
      BY <1>6, <2>4, <3>1, AnyValueFormed, GoKindOf DEF Typed
  <2>5. CASE type \in {"bool", "raw"}
    BY <1>6, <2>5, ConvertBool, GoKindOf DEF Typed
  <2>6. QED
    BY <1>6, <2>2, <2>3, <2>4, <2>5
<1>7. CASE v.kind = "bytes" /\ type \in SupportedTypes
  BY <1>7, ConvertBytes, GoKindOf DEF Typed
<1>8. QED
  BY <1>1, <1>2, <1>3, <1>4, <1>5, <1>6, <1>7 DEF GoKinds, Number

-----------------------------------------------------------------------------
(* Stringifying and parsing.                                               *)

\* What a typed value is stringified to parses back to the value.
LEMMA Reparses ==
  ASSUME NEW type, NEW u, Typed(u, type)
  PROVE  ConvertValueByType(ConvertAnyValue(u), type) = u
<1>1. /\ u = V(u.kind, u.form, u.n) /\ u.n \in Numbers /\ u.kind = GoKind(type)
      /\ type \in SupportedTypes
  BY DEF Typed, WellFormed, V
<1>2. CASE type \in IntegerTypes
  <2>1. ConvertAnyValue(u) = V("string", "int", u.n)
    BY <1>1, <1>2, GoKindOf DEF ConvertAnyValue
  <2>2. InRange(u.n, type) /\ u.form = "fin" /\ u.kind = type
    BY <1>1, <1>2, GoKindOf DEF Typed, WellFormed
  <2>3. QED
    BY <1>1, <1>2, <2>1, <2>2 DEF ConvertValueByType, ParseInteger, V
<1>3. CASE type = "float"
  <2>1. u.kind = "float32" /\ u.form = "fin" /\ u.n \in Singles
    BY <1>1, <1>3, GoKindOf DEF Typed, WellFormed
  <2>2. /\ RoundSingle[ShortestSingle[u.n]] = u.n
        /\ ShortestSingle[u.n] \in -SingleLimit + 1 .. SingleLimit - 1
    BY <2>1, ShortestAssumption
  <2>3. Abs(ShortestSingle[u.n]) < SingleLimit
    BY <2>2, NumbersAssumption DEF Abs
  <2>4. \E form \in {"int", "dec"} :
          ConvertAnyValue(u) = V("string", form, ShortestSingle[u.n])
    BY <2>1 DEF ConvertAnyValue, FormatFloat
  <2>5. QED
    BY <1>1, <1>3, <2>1, <2>2, <2>3, <2>4 DEF ConvertValueByType, ParseFloat, V
<1>4. CASE type = "double"
  <2>1. u.kind = "float64" /\ u.form = "fin" /\ u.n \in Doubles
    BY <1>1, <1>4, GoKindOf DEF Typed, WellFormed
  <2>2. /\ RoundDouble[ShortestDouble[u.n]] = u.n
        /\ ShortestDouble[u.n] \in -DoubleLimit + 1 .. DoubleLimit - 1
    BY <2>1, ShortestAssumption
  <2>3. Abs(ShortestDouble[u.n]) < DoubleLimit
    BY <2>2, NumbersAssumption DEF Abs
  <2>4. \E form \in {"int", "dec"} :
          ConvertAnyValue(u) = V("string", form, ShortestDouble[u.n])
    BY <2>1 DEF ConvertAnyValue, FormatFloat
  <2>5. QED
    BY <1>1, <1>4, <2>1, <2>2, <2>3, <2>4 DEF ConvertValueByType, ParseFloat, V
<1>5. CASE type \in {"string", "raw"}
  BY <1>1, <1>5, GoKindOf DEF Typed, WellFormed, ConvertAnyValue, ConvertValueByType, V
<1>6. CASE type = "bool"
  <2>1. u.kind = "bool" /\ u.form = "fin" /\ u.n \in {0, Unit}
    BY <1>1, <1>6, GoKindOf DEF Typed, WellFormed
  <2>2. ConvertAnyValue(u) = V("string", IF u.n = 0 THEN "false" ELSE "true", 0)
    BY <2>1 DEF ConvertAnyValue
  <2>3. QED
    BY <1>1, <1>6, <2>1, <2>2 DEF ConvertValueByType, V
<1>7. QED
  BY <1>1, <1>2, <1>3, <1>4, <1>5, <1>6

\* A number's double is the one its displayed decimal parses as.
LEMMA DisplayedDouble ==
  ASSUME NEW v, WellFormed(v), Number(v)
  PROVE  ConvertToTypedValue(v, "double")
           = ConvertValueByType(ConvertAnyValue(v), "double")
<1>1. ConvertToTypedValue(v, "double") = V("float64", "fin", Widen(v))
  BY ConvertNumber
<1>2. \A s : /\ s.form \in {"int", "dec"} /\ Abs(s.n) < DoubleLimit
             => ConvertValueByType(s, "double") = V("float64", "fin", RoundDouble[s.n])
  BY DEF ConvertValueByType, ParseFloat
<1>3. CASE v.kind \in IntegerKinds
  <2>1. ConvertAnyValue(v) = V("string", "int", v.n)
    BY <1>3 DEF ConvertAnyValue
  <2>2. v.n \in Numbers /\ InRange(v.n, v.kind)
    BY <1>3 DEF WellFormed
  <2>3. Abs(v.n) < DoubleLimit
    BY <1>3, <2>2, MagnitudeAssumption
  <2>4. Widen(v) = RoundDouble[v.n]
    BY <1>3 DEF Widen
  <2>5. QED
    BY <1>1, <1>2, <2>1, <2>3, <2>4 DEF V
<1>4. CASE v.kind = "float32"
  <2>1. v.n \in Singles /\ v.form = "fin"
    BY <1>4 DEF WellFormed, Number
  <2>2. \E form \in {"int", "dec"} :
          ConvertAnyValue(v) = V("string", form, ShortestSingle[v.n])
    BY <1>4, <2>1 DEF ConvertAnyValue, FormatFloat
  <2>3. ShortestSingle[v.n] \in -SingleLimit + 1 .. SingleLimit - 1
    BY <2>1, ShortestAssumption
  <2>4. Abs(ShortestSingle[v.n]) < DoubleLimit
    BY <2>3, NumbersAssumption DEF Abs
  <2>5. QED
    BY <1>1, <1>2, <1>4, <2>2, <2>4 DEF V, Widen
<1>5. CASE v.kind = "float64"
  <2>1. v.n \in Doubles /\ v.form = "fin"
    BY <1>5 DEF WellFormed, Number
  <2>2. \E form \in {"int", "dec"} :
          ConvertAnyValue(v) = V("string", form, ShortestDouble[v.n])
    BY <1>5, <2>1 DEF ConvertAnyValue, FormatFloat
  <2>3. /\ RoundDouble[ShortestDouble[v.n]] = v.n /\ RoundDouble[v.n] = v.n
        /\ ShortestDouble[v.n] \in -DoubleLimit + 1 .. DoubleLimit - 1
    BY <2>1, ShortestAssumption, RoundAssumption
  <2>4. Abs(ShortestDouble[v.n]) < DoubleLimit
    BY <2>3, NumbersAssumption DEF Abs
  <2>5. QED
    BY <1>1, <1>2, <1>5, <2>2, <2>3, <2>4 DEF V, Widen
<1>6. QED
  BY <1>3, <1>4, <1>5 DEF Number

-----------------------------------------------------------------------------
(* The codec.                                                              *)

\* Decode, head by head.
LEMMA DecodeOf ==
  ASSUME NEW w, NEW kind \in IntegerKinds \cup FloatKinds \cup {"bool", "string", "bytes"}
  PROVE  /\ w.kind = "int" /\ kind \in IntegerKinds =>
              Decode(w, kind) = IF InRange(w.n, kind) THEN V(kind, "fin", w.n) ELSE Error
         /\ w.kind = "int" /\ kind = "float32" =>
              Decode(w, kind) = V(kind, "fin", RoundSingle[RoundDouble[w.n]])
         /\ w.kind = "int" /\ kind = "float64" =>
              Decode(w, kind) = V(kind, "fin", RoundDouble[w.n])
         /\ w.kind \in FloatHeads /\ kind = "float64" =>
              Decode(w, kind) = V(kind, w.form, w.n)
         /\ w.kind \in FloatHeads /\ kind = "float32" =>
              Decode(w, kind) = IF w.form = "fin" /\ Abs(w.n) > MaxSingle
                                THEN Error ELSE V(kind, w.form, RoundSingle[w.n])
         /\ w.kind = "text" /\ kind = "string" =>
              Decode(w, kind) = V(kind, w.form, w.n)
         /\ w.kind = kind /\ kind \in {"bool", "bytes"} => Decode(w, kind) = w
         /\ \/ w.kind = "int" /\ kind \in {"bool", "string", "bytes"}
            \/ w.kind \in FloatHeads /\ kind \notin FloatKinds
            \/ w.kind = "text" /\ kind # "string"
            \/ w.kind \in {"bool", "bytes"} /\ kind # w.kind
            \/ w.kind \in {"bigint", "container"}
            => Decode(w, kind) = Error
<1>1. w.kind = "int" /\ kind \in IntegerKinds =>
        Decode(w, kind) = IF InRange(w.n, kind) THEN V(kind, "fin", w.n) ELSE Error
  BY DEF Decode
<1>2. /\ w.kind = "int" /\ kind = "float32" =>
           Decode(w, kind) = V(kind, "fin", RoundSingle[RoundDouble[w.n]])
      /\ w.kind = "int" /\ kind = "float64" =>
           Decode(w, kind) = V(kind, "fin", RoundDouble[w.n])
  BY DEF Decode
<1>3. /\ w.kind \in FloatHeads /\ kind = "float64" =>
           Decode(w, kind) = V(kind, w.form, w.n)
      /\ w.kind \in FloatHeads /\ kind = "float32" =>
           Decode(w, kind) = IF w.form = "fin" /\ Abs(w.n) > MaxSingle
                             THEN Error ELSE V(kind, w.form, RoundSingle[w.n])
  BY DEF Decode
<1>4. /\ w.kind = "text" /\ kind = "string" =>
           Decode(w, kind) = V(kind, w.form, w.n)
      /\ w.kind = kind /\ kind \in {"bool", "bytes"} => Decode(w, kind) = w
  BY DEF Decode
<1>5. \/ w.kind = "int" /\ kind \in {"bool", "string", "bytes"}
      \/ w.kind \in FloatHeads /\ kind \notin FloatKinds
      \/ w.kind = "text" /\ kind # "string"
      \/ w.kind \in {"bool", "bytes"} /\ kind # w.kind
      \/ w.kind \in {"bigint", "container"}
      => Decode(w, kind) = Error
  BY DEF Decode
<1>6. QED
  BY <1>1, <1>2, <1>3, <1>4, <1>5

\* A defined value of the wire.
Defined(w) == WireFormed(w) /\ ~IsCBORUndefined(w)

\* What Decode delivers is a value of the kind.
LEMMA DecodeFormed ==
  ASSUME NEW w, Defined(w),
         NEW kind \in IntegerKinds \cup FloatKinds \cup {"bool", "string", "bytes"}
  PROVE  \/ Decode(w, kind) = Error
         \/ WellFormed(Decode(w, kind)) /\ Decode(w, kind).kind = kind
<1>1. /\ w.kind \in WireHeads \ {"null", "undefined"} /\ w.n \in Numbers
      /\ w.form \in Forms
  BY DEF Defined, WireFormed, IsCBORUndefined
<1>2. CASE w.kind = "int" /\ kind \in IntegerKinds
  <2>1. IsIntegral(w.n)
    BY <1>2 DEF Defined, WireFormed
  <2>2. InRange(w.n, kind) => WellFormed(V(kind, "fin", w.n))
    BY <1>1, <1>2, <2>1, IntegerFormed
  <2>3. QED
    BY <1>2, <2>2, DecodeOf DEF V
<1>3. CASE w.kind = "int" /\ kind \in FloatKinds
  <2>1. RoundDouble[w.n] \in Doubles /\ RoundSingle[RoundDouble[w.n]] \in Singles
    BY <1>1, RoundType
  <2>2. /\ WellFormed(V("float32", "fin", RoundSingle[RoundDouble[w.n]]))
        /\ WellFormed(V("float64", "fin", RoundDouble[w.n]))
    BY <2>1, FloatFormed
  <2>3. QED
    BY <1>3, <2>2, DecodeOf DEF V
<1>4. CASE w.kind \in FloatHeads /\ kind \in FloatKinds
  <2>1. w.form \in {"fin", "NaN", "Inf"} /\ w.n \in Doubles
    BY <1>4 DEF Defined, WireFormed
  <2>2. RoundSingle[w.n] \in Singles
    BY <2>1, RoundType
  <2>3. /\ WellFormed(V("float32", w.form, RoundSingle[w.n]))
        /\ WellFormed(V("float64", w.form, w.n))
    BY <2>1, <2>2, FloatFormed
  <2>4. QED
    BY <1>4, <2>3, DecodeOf DEF V
<1>5. CASE w.kind = "text" /\ kind = "string"
  <2>1. WellFormed(V("string", w.form, w.n))
    BY <1>1, <1>5, StringTyped DEF Defined, WireFormed
  <2>2. QED
    BY <1>5, <2>1, DecodeOf DEF V
<1>6. CASE w.kind = kind /\ kind \in {"bool", "bytes"}
  <2>1. WellFormed(w)
    BY <1>6 DEF Defined, WireFormed, WellFormed, GoKinds
  <2>2. QED
    BY <1>6, <2>1, DecodeOf
<1>7. QED
  BY <1>1, <1>2, <1>3, <1>4, <1>5, <1>6, DecodeOf DEF WireHeads

\* The natural value of an integer of the wire.
LEMMA NaturalIntFormed ==
  ASSUME NEW n \in Numbers, IsIntegral(n), MinOf["int64"] <= n, n <= MaxOf["uint64"]
  PROVE  /\ WellFormed(NaturalInt(n)) /\ Number(NaturalInt(n))
         /\ NaturalInt(n).kind \in {"int64", "uint64"} /\ NaturalInt(n).n = n
<1>1. CASE n <= MaxOf["int64"]
  <2>1. InRange(n, "int64")
    BY <1>1 DEF InRange
  <2>2. WellFormed(V("int64", "fin", n))
    BY <2>1, IntegerFormed
  <2>3. QED
    BY <1>1, <2>2 DEF NaturalInt, Number, V
<1>2. CASE ~(n <= MaxOf["int64"])
  <2>1. n \in Int /\ MaxOf["int64"] \in Nat /\ MinOf["uint64"] \in Int /\ MinOf["uint64"] <= 0
    BY RoundType, RangeAssumption
  <2>2. InRange(n, "uint64")
    BY <1>2, <2>1 DEF InRange
  <2>3. WellFormed(V("uint64", "fin", n))
    BY <2>2, IntegerFormed
  <2>4. QED
    BY <1>2, <2>3 DEF NaturalInt, Number, V
<1>3. QED
  BY <1>1, <1>2

\* It is unsigned only beyond the largest int64.
LEMMA NaturalIntLarge ==
  ASSUME NEW n \in Int, NaturalInt(n).kind = "uint64"
  PROVE  n > MaxOf["int64"]
<1>1. MaxOf["int64"] \in Int
  BY RangeAssumption
<1>2. CASE n <= MaxOf["int64"]
  <2>1. NaturalInt(n).kind = "int64"
    BY <1>2 DEF NaturalInt, V
  <2>2. QED
    BY <2>1
<1>3. QED
  BY <1>1, <1>2

\* DecodeNatural, head by head.
LEMMA NaturalOf ==
  ASSUME NEW w
  PROVE  /\ w.kind = "int" => DecodeNatural(w) = NaturalInt(w.n)
         /\ w.kind \in FloatHeads => DecodeNatural(w) = V("float64", w.form, w.n)
         /\ w.kind = "text" => DecodeNatural(w) = V("string", w.form, w.n)
         /\ w.kind \in {"bool", "bytes"} => DecodeNatural(w) = w
         /\ w.kind \in {"bigint", "container"} => DecodeNatural(w) = Error
BY DEF DecodeNatural, IsCBORUndefined

\* What it delivers is a well-formed value.
LEMMA NaturalFormed ==
  ASSUME NEW w, Defined(w)
  PROVE  DecodeNatural(w) = Error \/ WellFormed(DecodeNatural(w))
<1>1. /\ w.kind \in WireHeads \ {"null", "undefined"} /\ w.n \in Numbers
      /\ w.form \in Forms
  BY DEF Defined, WireFormed, IsCBORUndefined
<1>2. CASE w.kind = "int"
  BY <1>1, <1>2, NaturalOf, NaturalIntFormed DEF Defined, WireFormed
<1>3. CASE w.kind \in FloatHeads
  <2>1. w.form \in {"fin", "NaN", "Inf"} /\ w.n \in Doubles
    BY <1>3 DEF Defined, WireFormed
  <2>2. WellFormed(V("float64", w.form, w.n))
    BY <2>1, FloatFormed
  <2>3. QED
    BY <1>3, <2>2, NaturalOf
<1>4. CASE w.kind = "text"
  BY <1>1, <1>4, NaturalOf, StringTyped DEF Defined, WireFormed
<1>5. CASE w.kind \in {"bool", "bytes"}
  <2>1. WellFormed(w)
    BY <1>5 DEF Defined, WireFormed, WellFormed, GoKinds
  <2>2. QED
    BY <1>5, <2>1, NaturalOf
<1>6. QED
  BY <1>1, <1>2, <1>3, <1>4, <1>5, NaturalOf DEF WireHeads

\* Decoding against a schema type delivers a value of the type's Go kind.
LEMMA SchemaFormed ==
  ASSUME NEW w, Defined(w), NEW type
  PROVE  \/ DecodeFieldWithSchema(w, type) = Error
         \/ /\ type \in SupportedTypes
            /\ WellFormed(DecodeFieldWithSchema(w, type))
            /\ DecodeFieldWithSchema(w, type).kind = GoKind(type)
<1>1. ASSUME NEW v, WellFormed(v)
      PROVE  \/ ConvertToTypedValue(v, type) = Error
             \/ /\ type \in SupportedTypes
                /\ WellFormed(ConvertToTypedValue(v, type))
                /\ ConvertToTypedValue(v, type).kind = GoKind(type)
  BY <1>1, ConvertFormed DEF Typed
<1>2. CASE w.kind = "single" /\ type \in {"double", "string"}
  <2>1. w.form \in {"fin", "NaN", "Inf"} /\ w.n \in Singles
    BY <1>2 DEF Defined, WireFormed
  <2>2. WellFormed(V("float32", w.form, w.n))
    BY <2>1, FloatFormed
  <2>3. DecodeFieldWithSchema(w, type)
          = ConvertToTypedValue(V("float32", w.form, w.n), type)
    BY <1>2 DEF DecodeFieldWithSchema
  <2>4. QED
    BY <1>1, <2>2, <2>3
<1>3. CASE w.kind = "double" /\ type = "float"
  <2>1. w.form \in {"fin", "NaN", "Inf"} /\ w.n \in Doubles
    BY <1>3 DEF Defined, WireFormed
  <2>2. WellFormed(V("float64", w.form, w.n))
    BY <2>1, FloatFormed
  <2>3. DecodeFieldWithSchema(w, type)
          = ConvertToTypedValue(V("float64", w.form, w.n), type)
    BY <1>3 DEF DecodeFieldWithSchema
  <2>4. QED
    BY <1>1, <2>2, <2>3
<1>4. CASE /\ ~(w.kind = "single" /\ type \in {"double", "string"})
           /\ ~(w.kind = "double" /\ type = "float")
  <2>1. DecodeFieldWithSchema(w, type)
          = IF DecodeTyped(w, type) # Error THEN DecodeTyped(w, type)
            ELSE IF DecodeNatural(w) = Error THEN Error
            ELSE ConvertToTypedValue(DecodeNatural(w), type)
    BY <1>4 DEF DecodeFieldWithSchema
  <2>2. \/ DecodeTyped(w, type) = Error
        \/ /\ type \in SupportedTypes
           /\ WellFormed(DecodeTyped(w, type))
           /\ DecodeTyped(w, type).kind = GoKind(type)
    BY DecodeFormed, GoKindOf DEF DecodeTyped
  <2>3. QED
    BY <1>1, <2>1, <2>2, NaturalFormed
<1>5. QED
  BY <1>2, <1>3, <1>4

\* Encode, kind by kind.
LEMMA EncodeOf ==
  ASSUME NEW v
  PROVE  /\ v.kind \in IntegerKinds => Encode(v) = V("int", "fin", v.n)
         /\ v.kind = "float32" /\ v.form = "fin" => Encode(v) = V("single", "fin", v.n)
         /\ v.kind = "float64" /\ v.form = "fin" => Encode(v) = V("double", "fin", v.n)
         /\ v.kind \in FloatKinds /\ v.form # "fin" => Encode(v) = V("half", v.form, 0)
         /\ v.kind = "string" => Encode(v) = V("text", v.form, v.n)
         /\ v.kind \in {"bool", "bytes"} => Encode(v) = v
         /\ v.kind \in {"nil", "time", "other", "error"} => Encode(v) = Null
BY DEF Encode

\* The integer kinds' ranges.
LEMMA RangeOf ==
  ASSUME NEW kind \in IntegerKinds
  PROVE  /\ MinOf[kind] \in Int /\ MaxOf[kind] \in Int
         /\ MinOf["int64"] \in Int /\ MaxOf["uint64"] \in Int
         /\ MinOf["int64"] <= MinOf[kind] /\ MaxOf[kind] <= MaxOf["uint64"]
<1>1. MinOf \in [IntegerKinds -> Int] /\ MaxOf \in [IntegerKinds -> Nat]
  BY RangeAssumption
<1>2. \A k \in IntegerKinds :
        MinOf["int64"] <= MinOf[k] /\ MaxOf[k] <= MaxOf["uint64"]
  BY RangeAssumption
<1>3. QED
  BY <1>1, <1>2

\* What it puts on the wire is well-formed, and undefined only for what has no
\* schema type.
LEMMA EncodeFormed ==
  ASSUME NEW v, WellFormed(v)
  PROVE  IF v.kind \in {"nil", "time", "other"} THEN Encode(v) = Null
                                                ELSE Defined(Encode(v))
<1>1. v.kind \in GoKinds /\ v.form \in Forms /\ v.n \in Numbers /\ v.n \in Int
  BY RoundType DEF WellFormed
<1>2. CASE v.kind \in IntegerKinds
  <2>1. IsIntegral(v.n) /\ MinOf[v.kind] <= v.n /\ v.n <= MaxOf[v.kind]
    BY <1>2 DEF WellFormed, InRange
  <2>2. MinOf["int64"] <= v.n /\ v.n <= MaxOf["uint64"]
    BY <1>1, <1>2, <2>1, RangeOf
  <2>3. Encode(v) = V("int", "fin", v.n)
    BY <1>2, EncodeOf
  <2>4. V("int", "fin", v.n) \in [kind : WireHeads, form : Forms, n : Numbers]
    BY <1>1 DEF V, WireHeads, Forms
  <2>5. Defined(V("int", "fin", v.n))
    BY <2>1, <2>2, <2>4 DEF Defined, WireFormed, IsCBORUndefined, V
  <2>6. QED
    BY <1>2, <2>3, <2>5
<1>3. CASE v.kind \in FloatKinds
  <2>1. /\ v.form \in {"fin", "NaN", "Inf"} /\ 0 \in Singles /\ 0 \in Doubles
        /\ v.n \in Doubles /\ (v.kind = "float32" => v.n \in Singles)
        /\ 0 \in Numbers
    BY <1>3, RoundType DEF WellFormed
  <2>2. CASE v.form # "fin"
    <3>1. Encode(v) = V("half", v.form, 0)
      BY <1>3, <2>2, EncodeOf
    <3>2. Defined(V("half", v.form, 0))
      BY <1>1, <2>1 DEF Defined, WireFormed, IsCBORUndefined, V, WireHeads
    <3>3. QED
      BY <1>3, <3>1, <3>2
  <2>3. CASE v.kind = "float32" /\ v.form = "fin"
    <3>1. Defined(V("single", "fin", v.n))
      BY <1>1, <2>1, <2>3
         DEF Defined, WireFormed, IsCBORUndefined, V, WireHeads, Forms
    <3>2. QED
      BY <2>3, <3>1, EncodeOf
  <2>4. CASE v.kind = "float64" /\ v.form = "fin"
    <3>1. Defined(V("double", "fin", v.n))
      BY <1>1, <2>1, <2>4
         DEF Defined, WireFormed, IsCBORUndefined, V, WireHeads, Forms
    <3>2. QED
      BY <2>4, <3>1, EncodeOf
  <2>5. QED
    BY <1>3, <2>2, <2>3, <2>4
<1>4. CASE v.kind = "string"
  <2>1. StringFormed(v.form, v.n) /\ Encode(v) = V("text", v.form, v.n)
    BY <1>4, EncodeOf DEF WellFormed
  <2>2. QED
    BY <1>1, <1>4, <2>1 DEF Defined, WireFormed, IsCBORUndefined, V, WireHeads
<1>5. CASE v.kind \in {"bool", "bytes"}
  BY <1>5, EncodeOf DEF WellFormed, Defined, WireFormed, IsCBORUndefined, WireHeads
<1>6. CASE v.kind \in {"nil", "time", "other"}
  BY <1>6, EncodeOf
<1>7. QED
  BY <1>1, <1>2, <1>3, <1>4, <1>5, <1>6 DEF GoKinds

-----------------------------------------------------------------------------
(* Decoding is converting.                                                 *)

\* The fields of a value, by which it differs from an error.
LEMMA ValueFields ==
  \A kind, form, n : /\ V(kind, form, n).kind = kind /\ V(kind, form, n).form = form
                     /\ V(kind, form, n).n = n
BY DEF V

\* A value of any kind is no error.
LEMMA NotError == \A u : u.kind # "error" => u # Error
<1>1. Error.kind = "error"
  BY ValueFields DEF Error
<1>2. QED
  BY <1>1

\* decodeFieldWithSchema, route by route.
LEMMA SchemaOf ==
  ASSUME NEW w, NEW type
  PROVE  /\ w.kind = "single" /\ type \in {"double", "string"} =>
              DecodeFieldWithSchema(w, type)
                = ConvertToTypedValue(V("float32", w.form, w.n), type)
         /\ w.kind = "double" /\ type = "float" =>
              DecodeFieldWithSchema(w, type)
                = ConvertToTypedValue(V("float64", w.form, w.n), type)
         /\ /\ ~(w.kind = "single" /\ type \in {"double", "string"})
            /\ ~(w.kind = "double" /\ type = "float")
            => DecodeFieldWithSchema(w, type)
                 = IF DecodeTyped(w, type) # Error THEN DecodeTyped(w, type)
                   ELSE IF DecodeNatural(w) = Error THEN Error
                   ELSE ConvertToTypedValue(DecodeNatural(w), type)
BY DEF DecodeFieldWithSchema

\* An integer, encoded and decoded as any type.
LEMMA IntegerDecodes ==
  ASSUME NEW u, WellFormed(u), u.kind \in IntegerKinds, NEW type \in SupportedTypes
  PROVE  DecodeFieldWithSchema(V("int", "fin", u.n), type) = ConvertToTypedValue(u, type)
<1> DEFINE w == V("int", "fin", u.n)
           natural == NaturalInt(u.n)
<1>1. /\ u.n \in Numbers /\ u.n \in Int /\ IsIntegral(u.n)
      /\ InRange(u.n, u.kind) /\ Number(u)
      /\ MinOf["int64"] <= u.n /\ u.n <= MaxOf["uint64"]
  <2>1. /\ u.n \in Numbers /\ u.n \in Int /\ IsIntegral(u.n)
        /\ InRange(u.n, u.kind) /\ Number(u)
    BY RoundType DEF WellFormed, Number
  <2>2. MinOf["int64"] <= u.n /\ u.n <= MaxOf["uint64"]
    BY <2>1, RangeOf DEF InRange
  <2>3. QED
    BY <2>1, <2>2
<1>2. /\ WellFormed(natural) /\ Number(natural) /\ natural.n = u.n
      /\ natural.kind \in {"int64", "uint64"}
  BY <1>1, NaturalIntFormed
<1>3. /\ w.kind = "int" /\ w.n = u.n /\ DecodeNatural(w) = natural
      /\ natural # Error
  <2>1. w.kind = "int" /\ w.n = u.n
    BY DEF V
  <2>2. natural # Error
    <3>1. natural.kind # "error"
      BY <1>2
    <3>2. QED
      BY <3>1, NotError
  <2>3. QED
    BY <2>1, <2>2, NaturalOf
<1>4. DecodeFieldWithSchema(w, type)
        = IF Decode(w, GoKind(type)) # Error THEN Decode(w, GoKind(type))
          ELSE ConvertToTypedValue(natural, type)
  BY <1>3, SchemaOf DEF DecodeTyped
<1> HIDE DEF w, natural
<1>5. CASE type \in IntegerTypes
  <2>1. Trunc(u.n) = u.n
    BY <1>1, TruncFixed
  <2>2. /\ ConvertToTypedValue(u, type) =
             IF InRange(u.n, type) THEN V(type, "fin", u.n) ELSE Error
        /\ ConvertToTypedValue(natural, type) =
             IF InRange(u.n, type) THEN V(type, "fin", u.n) ELSE Error
    BY <1>1, <1>2, <1>5, <2>1, IntegerConversion
  <2>3. Decode(w, GoKind(type)) =
          IF InRange(u.n, type) THEN V(type, "fin", u.n) ELSE Error
    BY <1>3, <1>5, DecodeOf, GoKindOf
  <2>4. QED
    BY <1>4, <2>2, <2>3 DEF w
<1>6. Widen(u) = RoundDouble[u.n]
  BY DEF Widen
<1>7. CASE type = "float"
  <2>1. Decode(w, GoKind(type)) = V("float32", "fin", RoundSingle[RoundDouble[u.n]])
    BY <1>3, <1>7, DecodeOf, GoKindOf
  <2>2. Abs(RoundDouble[u.n]) <= MaxSingle
    BY <1>1, MagnitudeAssumption
  <2>a. RoundDouble[u.n] \in Int
    BY <1>1, RoundType
  <2>3. Abs(RoundDouble[u.n]) \in Int /\ MaxSingle \in Int
    BY <2>a, NumbersAssumption DEF Abs
  <2>4. ConvertToTypedValue(u, type) = Narrow(RoundDouble[u.n])
    BY <1>1, <1>6, <1>7, ConvertNumber
  <2>5. Narrow(RoundDouble[u.n]) = V("float32", "fin", RoundSingle[RoundDouble[u.n]])
    BY <2>2, <2>3 DEF Narrow
  <2>6. Decode(w, GoKind(type)) # Error
    BY <2>1, ValueFields, NotError
  <2>7. QED
    BY <1>4, <2>1, <2>4, <2>5, <2>6 DEF w
<1>8. CASE type = "double"
  <2>1. Decode(w, GoKind(type)) = V("float64", "fin", RoundDouble[u.n])
    BY <1>3, <1>8, DecodeOf, GoKindOf
  <2>2. Decode(w, GoKind(type)) # Error
    BY <2>1, ValueFields, NotError
  <2>3. ConvertToTypedValue(u, type) = V("float64", "fin", RoundDouble[u.n])
    BY <1>1, <1>6, <1>8, ConvertNumber
  <2>4. QED
    BY <1>4, <2>1, <2>2, <2>3 DEF w
<1>9. CASE type \in {"bool", "string", "raw"}
  <2>1. Decode(w, GoKind(type)) = Error
    BY <1>3, <1>9, DecodeOf, GoKindOf
  <2>2. ConvertAnyValue(u) = ConvertAnyValue(natural)
    BY <1>2 DEF ConvertAnyValue
  <2>3. ConvertToTypedValue(natural, type) = ConvertToTypedValue(u, type)
    BY <1>1, <1>2, <1>9, <2>2, ConvertNumber
  <2>4. QED
    BY <1>4, <2>1, <2>3 DEF w
<1>10. QED
  BY <1>5, <1>7, <1>8, <1>9

\* A single.
LEMMA SingleDecodes ==
  ASSUME NEW n \in Singles, NEW type \in SupportedTypes
  PROVE  DecodeFieldWithSchema(V("single", "fin", n), type)
           = ConvertToTypedValue(V("float32", "fin", n), type)
<1> DEFINE w == V("single", "fin", n)
           u == V("float32", "fin", n)
           natural == V("float64", "fin", n)
<1>1. /\ WellFormed(u) /\ WellFormed(natural) /\ Number(u) /\ Number(natural)
      /\ u.n = n /\ natural.n = n /\ u.kind = "float32" /\ natural.kind = "float64"
      /\ u.form = "fin" /\ natural.form = "fin"
      /\ w.kind = "single" /\ w.form = "fin" /\ w.n = n /\ natural # Error /\ u # Error
  <2>1. WellFormed(u) /\ WellFormed(natural)
    BY RoundType, FloatFormed
  <2>2. QED
    BY <2>1 DEF V, Number, Error
<1>2. DecodeNatural(w) = natural
  BY <1>1, NaturalOf
<1> HIDE DEF w, natural, u
<1>3. CASE type \in {"double", "string"}
  BY <1>1, <1>3, SchemaOf DEF w, u
<1>4. CASE type \notin {"double", "string"}
  <2>1. DecodeFieldWithSchema(w, type)
          = IF Decode(w, GoKind(type)) # Error THEN Decode(w, GoKind(type))
            ELSE ConvertToTypedValue(natural, type)
    BY <1>1, <1>2, <1>4, SchemaOf DEF DecodeTyped
  <2>2. CASE type = "float"
    <3>1. /\ RoundSingle[n] = n /\ Abs(n) <= MaxSingle
          /\ Abs(n) \in Int /\ MaxSingle \in Int
      BY RoundAssumption, MagnitudeAssumption, RoundType, NumbersAssumption DEF Abs
    <3>2. Decode(w, GoKind(type)) = u
      BY <1>1, <2>2, <3>1, DecodeOf, GoKindOf DEF u
    <3>3. ConvertToTypedValue(u, type) = u
      BY <1>1, <2>2, ConvertNumber
    <3>4. QED
      BY <1>1, <2>1, <3>2, <3>3 DEF w, u
  <2>3. CASE type \in IntegerTypes
    <3>1. Decode(w, GoKind(type)) = Error
      BY <1>1, <2>3, DecodeOf, GoKindOf
    <3>2. ConvertToTypedValue(natural, type) = ConvertToTypedValue(u, type)
      BY <1>1, <2>3, IntegerConversion
    <3>3. QED
      BY <2>1, <3>1, <3>2 DEF w, u
  <2>4. CASE type \in {"bool", "raw"}
    <3>1. Decode(w, GoKind(type)) = Error
      BY <1>1, <2>4, DecodeOf, GoKindOf
    <3>2. ConvertToTypedValue(natural, type) = ConvertToTypedValue(u, type)
      BY <1>1, <2>4, ConvertNumber
    <3>3. QED
      BY <2>1, <3>1, <3>2 DEF w, u
  <2>5. QED
    BY <1>4, <2>2, <2>3, <2>4
<1>5. QED
  BY <1>3, <1>4 DEF w, u

\* A double.
LEMMA DoubleDecodes ==
  ASSUME NEW n \in Doubles, NEW type \in SupportedTypes
  PROVE  DecodeFieldWithSchema(V("double", "fin", n), type)
           = ConvertToTypedValue(V("float64", "fin", n), type)
<1> DEFINE w == V("double", "fin", n)
           u == V("float64", "fin", n)
<1>1. /\ WellFormed(u) /\ Number(u) /\ u.n = n /\ u.kind = "float64"
      /\ w.kind = "double" /\ w.form = "fin" /\ w.n = n /\ u # Error
  <2>1. WellFormed(u)
    BY RoundType, FloatFormed
  <2>2. QED
    BY <2>1 DEF V, Number, Error
<1>2. DecodeNatural(w) = u
  BY <1>1, NaturalOf
<1> HIDE DEF w
<1>3. CASE type = "float"
  BY <1>1, <1>3, SchemaOf DEF w
<1>4. CASE type # "float"
  <2>1. DecodeFieldWithSchema(w, type)
          = IF Decode(w, GoKind(type)) # Error THEN Decode(w, GoKind(type))
            ELSE ConvertToTypedValue(u, type)
    BY <1>1, <1>2, <1>4, SchemaOf DEF DecodeTyped
  <2>2. CASE type = "double"
    <3>1. Decode(w, GoKind(type)) = u
      BY <1>1, <2>2, DecodeOf, GoKindOf
    <3>2. Widen(u) = n
      BY <1>1, RoundAssumption DEF Widen
    <3>3. ConvertToTypedValue(u, type) = u
      BY <1>1, <2>2, <3>2, ConvertNumber
    <3>4. QED
      BY <2>1, <3>1, <3>3 DEF w
  <2>3. CASE type # "double"
    <3>1. Decode(w, GoKind(type)) = Error
      BY <1>1, <1>4, <2>3, DecodeOf, GoKindOf
    <3>2. QED
      BY <2>1, <3>1 DEF w
  <2>4. QED
    BY <2>2, <2>3
<1>5. QED
  BY <1>3, <1>4 DEF w

\* What keeps its Go value on the wire: strings, booleans and bytes.
LEMMA PlainDecodes ==
  ASSUME NEW u, WellFormed(u), u.kind \in {"string", "bool", "bytes"},
         NEW type \in SupportedTypes
  PROVE  DecodeFieldWithSchema(Encode(u), type) = ConvertToTypedValue(u, type)
<1> DEFINE w == Encode(u)
<1>1. u = V(u.kind, u.form, u.n)
  BY DEF WellFormed, V
<1>2. /\ w.kind = IF u.kind = "string" THEN "text" ELSE u.kind
      /\ DecodeNatural(w) = u /\ u # Error
      /\ u.kind = "string" => w.form = u.form /\ w.n = u.n
      /\ u.kind # "string" => w = u
  <2>1. u # Error
    <3>1. u.kind # "error"
      OBVIOUS
    <3>2. QED
      BY <3>1, NotError
  <2>2. CASE u.kind = "string"
    BY <1>1, <2>1, <2>2, EncodeOf, NaturalOf DEF V
  <2>3. CASE u.kind # "string"
    BY <2>1, <2>3, EncodeOf, NaturalOf
  <2>4. QED
    BY <2>2, <2>3
<1> HIDE DEF w
<1>3. DecodeFieldWithSchema(w, type)
        = IF Decode(w, GoKind(type)) # Error THEN Decode(w, GoKind(type))
          ELSE ConvertToTypedValue(u, type)
  BY <1>2, SchemaOf DEF DecodeTyped
<1>4. CASE GoKind(type) = u.kind
  <2>1. Decode(w, GoKind(type)) = u
    <3>1. CASE u.kind = "string"
      BY <1>1, <1>2, <1>4, <3>1, DecodeOf
    <3>2. CASE u.kind \in {"bool", "bytes"}
      BY <1>2, <1>4, <3>2, DecodeOf
    <3>3. QED
      BY <3>1, <3>2
  <2>2. ConvertToTypedValue(u, type) = u
    BY <1>4, ConvertString, ConvertBool, ConvertBytes, GoKindOf
  <2>3. QED
    BY <1>3, <2>1, <2>2 DEF w
<1>5. CASE GoKind(type) # u.kind
  <2>1. Decode(w, GoKind(type)) = Error
    BY <1>2, <1>5, DecodeOf, GoKindOf
  <2>2. QED
    BY <1>3, <2>1 DEF w
<1>6. QED
  BY <1>4, <1>5

\* A typed value put on the wire and decoded as a type is the value converted to
\* the type: the codec's own decoding and the conversions never disagree.
LEMMA FieldConverts ==
  ASSUME NEW u, NEW out, Typed(u, out), NEW type
  PROVE  DecodeFieldWithSchema(Encode(u), type) = ConvertToTypedValue(u, type)
<1>1. /\ WellFormed(u) /\ u = V(u.kind, u.form, u.n)
      /\ u.kind \in IntegerTypes \cup FloatKinds \cup {"string", "bool", "bytes"}
      /\ u.kind \in FloatKinds => u.form = "fin"
  BY GoKindOf DEF Typed, WellFormed, V
<1>2. CASE type \notin SupportedTypes
  <2>1. DecodeTyped(Encode(u), type) = Error
    BY <1>2 DEF DecodeTyped
  <2>2. ConvertToTypedValue(DecodeNatural(Encode(u)), type) = Error
    BY <1>2, ConvertRefuses
  <2>3. ConvertToTypedValue(u, type) = Error
    BY <1>2, ConvertRefuses
  <2>4. QED
    BY <1>2, <2>1, <2>2, <2>3, SchemaOf
<1>3. CASE type \in SupportedTypes
  <2>1. CASE u.kind \in IntegerTypes
    BY <1>1, <1>3, <2>1, EncodeOf, IntegerDecodes
  <2>2. CASE u.kind = "float32"
    BY <1>1, <1>3, <2>2, EncodeOf, SingleDecodes DEF WellFormed
  <2>3. CASE u.kind = "float64"
    BY <1>1, <1>3, <2>3, EncodeOf, DoubleDecodes DEF WellFormed
  <2>4. CASE u.kind \in {"string", "bool", "bytes"}
    BY <1>1, <1>3, <2>4, PlainDecodes
  <2>5. QED
    BY <1>1, <2>1, <2>2, <2>3, <2>4
<1>4. QED
  BY <1>2, <1>3

\* Absent is on no wire, and Null is undefined.
LEMMA WireDefined ==
  /\ \A w : Defined(w) => w # Absent /\ w # Null
  /\ Null # Absent /\ IsCBORUndefined(Null) /\ ~IsCBORUndefined(Absent)
<1>1. Absent.kind = "absent" /\ Null.kind = "null"
  BY DEF Absent, Null, V
<1>2. \A w : Defined(w) => w.kind \in WireHeads /\ ~IsCBORUndefined(w)
  BY DEF Defined, WireFormed
<1>3. IsCBORUndefined(Null) /\ ~IsCBORUndefined(Absent)
  BY <1>1 DEF IsCBORUndefined
<1>4. Absent.kind \notin WireHeads
  BY <1>1 DEF WireHeads
<1>5. QED
  BY <1>1, <1>2, <1>3, <1>4

\* From a handler's Publish to another handler's ToMap: the two conversions, or
\* nil where one of them fails.
LEMMA PathOf ==
  ASSUME NEW v, WellFormed(v), NEW out, out # "", NEW type, type # ""
  PROVE  ToMap(PublishedField(v, out), type)
           = OrNil(ConvertToTypedValue(ConvertToTypedValue(v, out), type))
<1> DEFINE u == ConvertToTypedValue(v, out)
<1>1. CASE u = Error
  <2>1. PublishedField(v, out) = Null
    BY <1>1 DEF PublishedField
  <2>2. ToMap(Null, type) = Nil
    BY WireDefined DEF ToMap
  <2>3. ConvertToTypedValue(Error, type) = Error
    BY ConvertRefuses DEF Error, V
  <2>4. QED
    BY <1>1, <2>1, <2>2, <2>3 DEF OrNil
<1>2. CASE u # Error
  <2>1. Typed(u, out)
    BY <1>2, ConvertFormed
  <2>2. PublishedField(v, out) = Encode(u)
    BY <1>2 DEF PublishedField
  <2>3. Defined(Encode(u))
    BY <2>1, EncodeFormed, GoKindOf DEF Typed
  <2>4. ToMap(Encode(u), type) = OrNil(DecodeFieldWithSchema(Encode(u), type))
    BY <2>3, WireDefined DEF ToMap, Defined, Decoded
  <2>5. QED
    BY <2>1, <2>2, <2>4, FieldConverts
<1>3. QED
  BY <1>1, <1>2

-----------------------------------------------------------------------------
(* The struct's fields.                                                    *)

\* What a wire value without a key, or an undefined one, or a defined one does to
\* a struct field.
LEMMA StructOf ==
  ASSUME NEW w, NEW type, NEW decl
  PROVE  /\ w = Absent \/ IsCBORUndefined(w) => StructField(w, type, decl) = Untouched
         /\ Defined(w) /\ decl = "any" =>
              StructField(w, type, decl) =
                IF Decoded(w, type) = Error THEN Untouched ELSE Decoded(w, type)
         /\ Defined(w) /\ decl # "any" =>
              StructField(w, type, decl) = DecodeConcrete(w, type, decl)
<1>1. w = Absent \/ IsCBORUndefined(w) => StructField(w, type, decl) = Untouched
  BY DEF StructField
<1>2. ASSUME Defined(w)
      PROVE  w # Absent /\ ~IsCBORUndefined(w)
  BY <1>2, WireDefined DEF Defined
<1>3. QED
  BY <1>1, <1>2 DEF StructField

\* What a defined wire value decodes to is well-formed, and has the Go kind of its
\* schema type.
LEMMA DecodedFormed ==
  ASSUME NEW w, Defined(w), NEW type
  PROVE  \/ Decoded(w, type) = Error
         \/ /\ WellFormed(Decoded(w, type))
            /\ type # "" => Decoded(w, type).kind = GoKind(type)
BY NaturalFormed, SchemaFormed DEF Decoded

\* A concrete field takes the schema's value or the codec's.
LEMMA ConcreteOf ==
  ASSUME NEW w, NEW type, NEW decl, decl # "error"
  PROVE  \/ /\ ~WireMatchesField(w, decl) /\ type # ""
            /\ DecodeFieldWithSchema(w, type) # Error
            /\ DecodeFieldWithSchema(w, type).kind = decl
            /\ DecodeConcrete(w, type, decl) = DecodeFieldWithSchema(w, type)
         \/ /\ \/ WireMatchesField(w, decl) \/ type = ""
               \/ DecodeFieldWithSchema(w, type) = Error
               \/ DecodeFieldWithSchema(w, type).kind # decl
            /\ DecodeConcrete(w, type, decl) = Decode(w, decl)
<1> DEFINE schema == DecodeFieldWithSchema(w, type)
<1>1. AssignSchemaValue(schema, decl) = IF schema.kind = decl THEN schema ELSE Error
  BY DEF AssignSchemaValue
<1>2. DecodeConcrete(w, type, decl) =
        IF /\ ~WireMatchesField(w, decl) /\ type # ""
           /\ AssignSchemaValue(schema, decl) # Error
        THEN AssignSchemaValue(schema, decl) ELSE Decode(w, decl)
  BY DEF DecodeConcrete
<1>3. Error.kind = "error"
  BY ValueFields DEF Error
<1> HIDE DEF schema
<1>4. \/ /\ ~WireMatchesField(w, decl) /\ type # "" /\ schema # Error
         /\ schema.kind = decl /\ DecodeConcrete(w, type, decl) = schema
      \/ /\ \/ WireMatchesField(w, decl) \/ type = ""
            \/ schema = Error \/ schema.kind # decl
         /\ DecodeConcrete(w, type, decl) = Decode(w, decl)
  BY <1>1, <1>2, <1>3
<1>5. QED
  BY <1>4 DEF schema

\* The Go kinds of concrete fields.
LEMMA DeclaredKinds ==
  /\ DOMAIN DataTypes = IntegerKinds \cup FloatKinds \cup {"bool", "string", "bytes"}
  /\ Declarations \subseteq IntegerKinds \cup FloatKinds
                              \cup {"bool", "string", "bytes", "any"}
<1>1. DOMAIN DataTypes = IntegerKinds \cup FloatKinds \cup {"bool", "string", "bytes"}
  BY DEF DataTypes
<1>2. QED
  BY <1>1, DeclarationsAssumption

\* A struct field is left alone, fails, or holds a value of its declared type.
LEMMA StructFieldFormed ==
  ASSUME NEW w, Defined(w), NEW type, NEW decl \in Declarations,
         StructField(w, type, decl) \notin {Error, Untouched}
  PROVE  /\ WellFormed(StructField(w, type, decl))
         /\ decl \in {"any", StructField(w, type, decl).kind}
<1>1. CASE decl = "any"
  BY <1>1, StructOf, DecodedFormed
<1>2. CASE decl # "any"
  <2>1. /\ StructField(w, type, decl) = DecodeConcrete(w, type, decl)
        /\ decl \in IntegerKinds \cup FloatKinds \cup {"bool", "string", "bytes"}
    BY <1>2, StructOf, DeclaredKinds
  <2>2. CASE /\ DecodeFieldWithSchema(w, type) # Error
             /\ DecodeFieldWithSchema(w, type).kind = decl
             /\ DecodeConcrete(w, type, decl) = DecodeFieldWithSchema(w, type)
    BY <2>1, <2>2, SchemaFormed
  <2>3. CASE DecodeConcrete(w, type, decl) = Decode(w, decl)
    BY <2>1, <2>3, DecodeFormed
  <2>4. QED
    BY <2>1, <2>2, <2>3, ConcreteOf
<1>3. QED
  BY <1>1, <1>2

\* A finite value enters a field declared with the Go type of its schema type as
\* the schema decodes it: where ToStruct leaves the work to the codec, and where
\* it tries the schema first and falls back on the codec.
LEMMA StructAgreement ==
  ASSUME NEW w, Defined(w), w.form \notin {"NaN", "Inf"}, NEW type \in SupportedTypes
  PROVE  DecodeConcrete(w, type, GoKind(type)) = DecodeFieldWithSchema(w, type)
<1> DEFINE kind == GoKind(type)
           schema == DecodeFieldWithSchema(w, type)
           coded == Decode(w, kind)
<1>1. /\ w.kind \in WireHeads \ {"null", "undefined"} /\ w.n \in Numbers
      /\ w.kind \in FloatHeads => w.form = "fin" /\ w.n \in Doubles
      /\ w.kind = "single" => w.n \in Singles
  BY DEF Defined, WireFormed, IsCBORUndefined
<1>2. /\ kind \in IntegerKinds \cup FloatKinds \cup {"bool", "string", "bytes"}
      /\ kind # "error" /\ type # "" /\ DecodeTyped(w, type) = coded
  BY GoKindOf DEF DecodeTyped
<1>3. schema # Error => schema.kind = kind
  BY SchemaFormed
<1>4. CASE ~WireMatchesField(w, kind)
  <2>1. SUFFICES ASSUME schema = Error PROVE coded = Error
    BY <1>2, <1>3, <1>4, ConcreteOf
  <2>2. CASE w.kind = "single" /\ type = "double"
    <3>1. schema = ConvertToTypedValue(V("float32", "fin", w.n), type)
      BY <1>1, <2>2, SchemaOf
    <3>2. Number(V("float32", "fin", w.n))
      BY ValueFields DEF Number
    <3>3. schema = V("float64", "fin", Widen(V("float32", "fin", w.n)))
      BY <2>2, <3>1, <3>2, ConvertNumber
    <3>4. schema.kind # "error"
      BY <3>3, ValueFields
    <3>5. QED
      BY <2>1, <3>4, NotError
  <2>3. CASE w.kind = "single" /\ type = "string"
    BY <2>3, DecodeOf, GoKindOf
  <2>4. CASE w.kind = "double" /\ type = "float"
    <3>1. schema = ConvertToTypedValue(V("float64", "fin", w.n), type)
      BY <1>1, <2>4, SchemaOf
    <3>2. Number(V("float64", "fin", w.n))
      BY ValueFields DEF Number
    <3>3. Widen(V("float64", "fin", w.n)) = w.n
      BY <1>1, <2>4, ValueFields, RoundAssumption DEF Widen
    <3>4. schema = Narrow(w.n)
      BY <2>4, <3>1, <3>2, <3>3, ConvertNumber, ValueFields
    <3>5. V("float32", "fin", RoundSingle[w.n]) # Error
      BY ValueFields, NotError
    <3>6. Abs(w.n) > MaxSingle
      BY <2>1, <3>4, <3>5 DEF Narrow
    <3>7. QED
      BY <1>1, <2>4, <3>6, DecodeOf, GoKindOf
  <2>5. CASE /\ ~(w.kind = "single" /\ type \in {"double", "string"})
             /\ ~(w.kind = "double" /\ type = "float")
    BY <1>2, <2>1, <2>5, SchemaOf
  <2>6. QED
    BY <2>2, <2>3, <2>4, <2>5
<1>5. CASE WireMatchesField(w, kind)
  <2>1. DecodeConcrete(w, type, kind) = coded
    BY <1>2, <1>5, ConcreteOf
  <2>2. \/ w.kind = kind /\ kind \in {"bool", "bytes"}
        \/ w.kind = "int" /\ kind \in IntegerKinds
        \/ w.kind = "single" /\ kind = "float32"
        \/ w.kind = "double" /\ kind = "float64"
        \/ w.kind = "text" /\ kind = "string"
    BY <1>5 DEF WireMatchesField
  <2>3. schema = IF coded # Error THEN coded
                 ELSE IF DecodeNatural(w) = Error THEN Error
                 ELSE ConvertToTypedValue(DecodeNatural(w), type)
    <3>1. /\ kind = "float32" => type = "float"
          /\ kind = "float64" => type = "double"
      BY GoKindOf
    <3>2. /\ ~(w.kind = "single" /\ type \in {"double", "string"})
          /\ ~(w.kind = "double" /\ type = "float")
      BY <2>2, <3>1
    <3>3. QED
      BY <1>2, <3>2, SchemaOf
  <2>4. CASE w.kind = "int" /\ kind \in IntegerKinds
    <3>1. type \in IntegerTypes /\ kind = type
      BY <2>4, GoKindOf
    <3>2. coded = IF InRange(w.n, type) THEN V(type, "fin", w.n) ELSE Error
      BY <2>4, <3>1, DecodeOf
    <3>3. /\ IsIntegral(w.n) /\ w.n \in Int
          /\ MinOf["int64"] <= w.n /\ w.n <= MaxOf["uint64"]
      BY <1>1, <2>4, RoundType DEF Defined, WireFormed
    <3>4. /\ WellFormed(NaturalInt(w.n)) /\ Number(NaturalInt(w.n))
          /\ NaturalInt(w.n).n = w.n
      BY <1>1, <3>3, NaturalIntFormed
    <3>5. Trunc(w.n) = w.n
      BY <3>3, TruncFixed
    <3>6. ConvertToTypedValue(DecodeNatural(w), type)
            = IF InRange(w.n, type) THEN V(type, "fin", w.n) ELSE Error
      BY <2>4, <3>1, <3>4, <3>5, NaturalOf, IntegerConversion
    <3>7. QED
      BY <2>1, <2>3, <3>2, <3>6
  <2>5. CASE ~(w.kind = "int" /\ kind \in IntegerKinds)
    <3>1. coded.kind # "error"
      <4>1. CASE w.kind \in {"bool", "bytes"}
        BY <2>2, <4>1, DecodeOf
      <4>2. CASE w.kind = "single" /\ kind = "float32"
        <5>1. ~(Abs(w.n) > MaxSingle)
          <6>1. Abs(w.n) <= MaxSingle /\ w.n \in Int /\ MaxSingle \in Int
            <7>1. w.n \in Singles
              BY <1>1, <4>2
            <7>2. Abs(w.n) <= MaxSingle
              BY <7>1, MagnitudeAssumption
            <7>3. w.n \in Int
              BY <7>1, RoundType
            <7>4. MaxSingle \in Int
              BY NumbersAssumption
            <7>5. QED
              BY <7>2, <7>3, <7>4
          <6>2. Abs(w.n) \in Int
            BY <6>1 DEF Abs
          <6>3. QED
            BY <6>1, <6>2
        <5>2. coded = V("float32", w.form, RoundSingle[w.n])
          BY <1>1, <4>2, <5>1, DecodeOf
        <5>3. QED
          BY <5>2, ValueFields
      <4>3. CASE w.kind = "double" /\ kind = "float64"
        BY <4>3, DecodeOf, ValueFields
      <4>4. CASE w.kind = "text" /\ kind = "string"
        BY <4>4, DecodeOf, ValueFields
      <4>5. QED
        BY <2>2, <2>5, <4>1, <4>2, <4>3, <4>4
    <3>2. QED
      BY <2>1, <2>3, <3>1, NotError
  <2>6. QED
    BY <2>4, <2>5
<1>6. QED
  BY <1>4, <1>5

\* An integer field declared otherwise than its key's schema type takes nothing
\* but an integer of the wire, as it is.
LEMMA IntegerStruct ==
  ASSUME NEW w, Defined(w), NEW type, NEW decl \in IntegerKinds, decl # GoKind(type),
         StructField(w, type, decl) # Error
  PROVE  w.kind = "int" /\ StructField(w, type, decl).n = w.n
<1>1. w.kind \in WireHeads \ {"null", "undefined"}
  BY DEF Defined, WireFormed, IsCBORUndefined
<1>2. StructField(w, type, decl) = DecodeConcrete(w, type, decl)
  BY StructOf
<1>3. \/ DecodeFieldWithSchema(w, type) = Error
      \/ DecodeFieldWithSchema(w, type).kind # decl
  BY SchemaFormed
<1>4. DecodeConcrete(w, type, decl) = Decode(w, decl)
  BY <1>3, ConcreteOf
<1>5. Decode(w, decl) # Error
  BY <1>2, <1>4
<1>6. w.kind = "int"
  BY <1>1, <1>5, DecodeOf DEF WireHeads
<1>7. Decode(w, decl) = V(decl, "fin", w.n)
  BY <1>5, <1>6, DecodeOf
<1>8. QED
  BY <1>2, <1>4, <1>6, <1>7, ValueFields

-----------------------------------------------------------------------------
(* The inductive invariant.                                                *)

\* Before it is sent there is no value, and no wire.
SendInv == pc = "send" => value = Nil /\ outType = "" /\ wire = Absent

\* Before it is received nothing is delivered.
ReceiveInv ==
  pc \in {"send", "receive"} =>
    inType = "" /\ mapped = Absent /\ target = << >> /\ failed = ""

\* From then on ToMap has read the wire under the input type.
MappedInv == pc \notin {"send", "receive"} => mapped = ToMap(wire, inType)

\* With an output type, the wire carries what Publish made of the value ...
PublishedInv == outType # "" => value \in GoValues /\ wire = PublishedField(value, outType)

\* ... and without one, what a unit test encoded.
BuiltInv ==
  outType = "" /\ value # Nil /\ wire # Absent =>
    value \in GoValues /\ value.kind \notin {"time", "other"} /\ wire = Encode(value)

Outcomes == [kind : GoKinds \cup {"untouched"}, form : Forms, n : Numbers]

\* Every field that ToStruct has been through holds what it made of it ...
TargetInv ==
  /\ target \in Seq([decl : Declarations, got : Outcomes]) /\ Len(target) <= NumFields
  /\ \A i \in 1 .. Len(target) :
       /\ target[i].got = StructField(wire, inType, target[i].decl)
       /\ target[i].got # Error

\* ... and the one that its error names was refused.
FailedInv ==
  failed # "" => failed \in Declarations /\ StructField(wire, inType, failed) = Error

TypesInv ==
  /\ pc \in {"send", "receive", "struct", "done", "failed"}
  /\ value \in GoValues \cup {Nil}
  /\ outType \in SchemaTypes \cup {""} /\ inType \in SchemaTypes \cup {""}
  /\ wire = Absent \/ WireFormed(wire)

FieldInv ==
  TypesInv /\ SendInv /\ ReceiveInv /\ MappedInv /\ PublishedInv /\ BuiltInv
    /\ TargetInv /\ FailedInv

\* Null goes over the wire like any value, but is undefined; Nil is a value.
LEMMA NullFormed == WireFormed(Null) /\ WellFormed(Nil)
<1>1. /\ Null.kind = "null" /\ Null \in [kind : WireHeads, form : Forms, n : Numbers]
      /\ Nil.kind = "nil" /\ Nil \in [kind : GoKinds, form : Forms, n : Numbers]
      /\ Nil.form = "" /\ Nil.n = 0
  BY RoundType DEF Null, Nil, V, WireHeads, GoKinds, Forms
<1>2. QED
  BY <1>1 DEF WireFormed, WellFormed

\* Whatever is encoded is well-formed on the wire.
LEMMA EncodedWire ==
  ASSUME NEW v, WellFormed(v)
  PROVE  WireFormed(Encode(v))
BY EncodeFormed, NullFormed DEF Defined

\* So is what Publish sends, unless the schema drops it.
LEMMA PublishedWire ==
  ASSUME NEW v, WellFormed(v), NEW type
  PROVE  PublishedField(v, type) = Absent \/ WireFormed(PublishedField(v, type))
<1>1. ConvertToTypedValue(v, type) = Error \/ WellFormed(ConvertToTypedValue(v, type))
  BY ConvertFormed DEF Typed
<1>2. QED
  BY <1>1, EncodedWire, NullFormed DEF PublishedField

\* And what a mock message carries.
LEMMA InjectedWire ==
  ASSUME NEW s, WellFormed(s), s.kind = "string", NEW type \in SchemaTypes,
         ConvertValueByType(s, type) # Error
  PROVE  WireFormed(Encode(ConvertValueByType(s, type)))
<1>1. ConvertValueByType(s, "unsupported") = Error
  BY DEF ConvertValueByType
<1>2. WellFormed(ConvertValueByType(s, type))
  BY <1>1, ParseFormed DEF SchemaTypes
<1>3. QED
  BY <1>2, EncodedWire

\* Every outcome of a struct field is one of the outcomes.
LEMMA OutcomeType ==
  ASSUME NEW w, w = Absent \/ WireFormed(w), NEW type, NEW decl \in Declarations,
         StructField(w, type, decl) # Error
  PROVE  StructField(w, type, decl) \in Outcomes
<1>1. Untouched \in Outcomes
  BY RoundType DEF Untouched, V, Outcomes, Forms
<1>2. CASE StructField(w, type, decl) = Untouched
  BY <1>1, <1>2
<1>3. CASE StructField(w, type, decl) # Untouched
  <2>1. Defined(w)
    BY <1>3, StructOf DEF Defined
  <2>2. WellFormed(StructField(w, type, decl))
    BY <1>3, <2>1, StructFieldFormed
  <2>3. StructField(w, type, decl) \in [kind : GoKinds, form : Forms, n : Numbers]
    BY <2>2 DEF WellFormed
  <2>4. QED
    BY <2>3 DEF Outcomes
<1>4. QED
  BY <1>2, <1>3

\* Before the first field.
LEMMA NoFields ==
  /\ << >> \in Seq([decl : Declarations, got : Outcomes])
  /\ Len(<< >>) <= NumFields /\ 1 .. Len(<< >>) = {}
<1>1. NumFields \in Nat
  BY DeclarationsAssumption
<1>2. QED
  BY <1>1

\* The invariant holds of the initial state.
LEMMA FieldInvInit == Init => FieldInv
<1> SUFFICES ASSUME Init PROVE FieldInv
  OBVIOUS
<1>1. TypesInv /\ SendInv /\ ReceiveInv /\ MappedInv /\ PublishedInv /\ FailedInv
  BY DEF Init, TypesInv, SendInv, ReceiveInv, MappedInv, PublishedInv, FailedInv
<1>2. BuiltInv
  BY DEF Init, BuiltInv
<1>3. TargetInv
  BY NoFields DEF Init, TargetInv
<1>4. QED
  BY <1>1, <1>2, <1>3 DEF FieldInv

\* Sending leaves it true, given what the send leaves on the wire.
LEMMA SendKeeps ==
  ASSUME FieldInv, pc = "send", pc' = "receive",
         UNCHANGED <<inType, mapped, target, failed>>,
         wire' = Absent \/ WireFormed(wire'),
         value' \in GoValues \cup {Nil}, outType' \in SchemaTypes \cup {""},
         PublishedInv', BuiltInv'
  PROVE  FieldInv'
<1>1. inType = "" /\ mapped = Absent /\ target = << >> /\ failed = ""
  BY DEF FieldInv, ReceiveInv
<1>2. TypesInv' /\ SendInv' /\ ReceiveInv' /\ MappedInv' /\ FailedInv'
  BY <1>1 DEF FieldInv, TypesInv, SendInv, ReceiveInv, MappedInv, FailedInv
<1>3. TargetInv'
  <2>1. target' = << >>
    BY <1>1
  <2>2. QED
    BY <2>1, NoFields DEF TargetInv
<1>4. QED
  BY <1>2, <1>3 DEF FieldInv

\* Every step preserves the invariant.
LEMMA FieldInvStep == FieldInv /\ [Next]_vars => FieldInv'
<1> SUFFICES ASSUME FieldInv, [Next]_vars
             PROVE  FieldInv'
  OBVIOUS
<1>1. ASSUME NEW v \in GoValues, NEW type \in SchemaTypes \cup {""}, Publish(v, type)
      PROVE  FieldInv'
  <2>1. WellFormed(v)
    BY GoValuesAssumption
  <2>2. wire' = PublishedField(v, type) /\ value' = v /\ outType' = type
    BY <1>1 DEF Publish
  <2>3. PublishedField(v, "") = Absent
    BY DEF PublishedField
  <2>4. PublishedInv' /\ BuiltInv'
    BY <2>2, <2>3 DEF PublishedInv, BuiltInv
  <2>5. wire' = Absent \/ WireFormed(wire')
    BY <2>1, <2>2, PublishedWire
  <2>6. pc = "send" /\ pc' = "receive" /\ UNCHANGED <<inType, mapped, target, failed>>
    BY <1>1 DEF Publish
  <2>7. QED
    BY <2>2, <2>4, <2>5, <2>6, SendKeeps
<1>2. ASSUME NEW s \in MockValues, NEW type \in SchemaTypes \cup {""}, Inject(s, type)
      PROVE  FieldInv'
  <2>1. WellFormed(s) /\ s.kind = "string"
    BY MockValuesAssumption
  <2>2. /\ pc = "send" /\ pc' = "receive" /\ UNCHANGED <<inType, mapped, target, failed>>
        /\ value' = value /\ outType' = outType
    BY <1>2 DEF Inject
  <2>3. value = Nil /\ outType = ""
    BY <2>2 DEF FieldInv, SendInv
  <2>4. PublishedInv' /\ BuiltInv'
    BY <2>2, <2>3 DEF PublishedInv, BuiltInv
  <2>5. WireFormed(wire')
    BY <1>2, <2>1, InjectedWire, NullFormed DEF Inject
  <2>6. QED
    BY <2>2, <2>3, <2>4, <2>5, SendKeeps
<1>3. ASSUME NEW w \in ForeignWires, SendForeign(w)
      PROVE  FieldInv'
  <2>1. /\ pc = "send" /\ pc' = "receive" /\ UNCHANGED <<inType, mapped, target, failed>>
        /\ value' = value /\ outType' = outType
    BY <1>3 DEF SendForeign
  <2>2. value = Nil /\ outType = ""
    BY <2>1 DEF FieldInv, SendInv
  <2>3. PublishedInv' /\ BuiltInv'
    BY <2>1, <2>2 DEF PublishedInv, BuiltInv
  <2>4. WireFormed(wire')
    BY <1>3, ForeignAssumption DEF SendForeign
  <2>5. QED
    BY <2>1, <2>2, <2>3, <2>4, SendKeeps
<1>4. ASSUME NEW v \in GoValues, Build(v)
      PROVE  FieldInv'
  <2>1. /\ pc = "send" /\ pc' = "receive" /\ UNCHANGED <<inType, mapped, target, failed>>
        /\ value' = v /\ outType' = outType /\ wire' = Encode(v)
        /\ v.kind \notin {"time", "other"}
    BY <1>4 DEF Build
  <2>2. outType = ""
    BY <2>1 DEF FieldInv, SendInv
  <2>3. PublishedInv' /\ BuiltInv'
    BY <2>1, <2>2 DEF PublishedInv, BuiltInv
  <2>4. WireFormed(wire')
    BY <2>1, GoValuesAssumption, EncodedWire
  <2>5. QED
    BY <2>1, <2>2, <2>3, <2>4, SendKeeps
<1>5. ASSUME NEW type \in SchemaTypes \cup {""}, Receive(type)
      PROVE  FieldInv'
  <2>1. /\ pc = "receive" /\ pc' = "struct" /\ inType' = type /\ mapped' = ToMap(wire, type)
        /\ UNCHANGED <<value, outType, wire, target, failed>>
    BY <1>5 DEF Receive
  <2>2. target = << >> /\ failed = ""
    BY <2>1 DEF FieldInv, ReceiveInv
  <2>3. /\ TypesInv' /\ SendInv' /\ ReceiveInv' /\ MappedInv' /\ PublishedInv'
        /\ FailedInv'
    BY <2>1, <2>2 DEF FieldInv, TypesInv, SendInv, ReceiveInv, MappedInv, PublishedInv,
                      FailedInv
  <2>4. BuiltInv'
    BY <2>1 DEF FieldInv, BuiltInv
  <2>5. TargetInv'
    <3>1. target' = << >>
      BY <2>1, <2>2
    <3>2. QED
      BY <3>1, NoFields DEF TargetInv
  <2>6. QED
    BY <2>3, <2>4, <2>5 DEF FieldInv
<1>6. ASSUME NEW decl \in Declarations, FillField(decl)
      PROVE  FieldInv'
  <2> DEFINE got == StructField(wire, inType, decl)
  <2>1. /\ pc = "struct" /\ Len(target) < NumFields /\ got # Error
        /\ target' = Append(target, [decl |-> decl, got |-> got])
        /\ UNCHANGED <<pc, value, outType, wire, inType, mapped, failed>>
    BY <1>6 DEF FillField
  <2>2. /\ TypesInv' /\ SendInv' /\ ReceiveInv' /\ MappedInv' /\ PublishedInv'
        /\ FailedInv'
    BY <2>1 DEF FieldInv, TypesInv, SendInv, ReceiveInv, MappedInv, PublishedInv, FailedInv
  <2>3. BuiltInv'
    BY <2>1 DEF FieldInv, BuiltInv
  <2>4. TargetInv'
    <3>1. got \in Outcomes
      BY <2>1, OutcomeType DEF FieldInv, TypesInv
    <3> HIDE DEF got
    <3>2. /\ [decl |-> decl, got |-> got] \in [decl : Declarations, got : Outcomes]
          /\ [decl |-> decl, got |-> got].decl = decl
          /\ [decl |-> decl, got |-> got].got = got
      BY <3>1
    <3>3. target \in Seq([decl : Declarations, got : Outcomes]) /\ NumFields \in Nat
      BY DeclarationsAssumption DEF FieldInv, TargetInv
    <3>4. /\ target' \in Seq([decl : Declarations, got : Outcomes])
          /\ Len(target') = Len(target) + 1 /\ Len(target) \in Nat
          /\ target'[Len(target) + 1] = [decl |-> decl, got |-> got]
          /\ \A i \in 1 .. Len(target) : target'[i] = target[i]
      BY <2>1, <3>2, <3>3
    <3>5. ASSUME NEW i \in 1 .. Len(target')
          PROVE  /\ target'[i].got = StructField(wire, inType, target'[i].decl)
                 /\ target'[i].got # Error
      <4>1. CASE i = Len(target) + 1
        BY <2>1, <3>2, <3>4, <4>1 DEF got
      <4>2. CASE i # Len(target) + 1
        <5>1. i \in 1 .. Len(target) /\ target'[i] = target[i]
          BY <3>4, <4>2
        <5>2. QED
          BY <5>1 DEF FieldInv, TargetInv
      <4>3. QED
        BY <4>1, <4>2
    <3>6. Len(target') <= NumFields
      BY <2>1, <3>3, <3>4
    <3>7. wire' = wire /\ inType' = inType
      BY <2>1
    <3>8. QED
      BY <3>4, <3>5, <3>6, <3>7 DEF TargetInv
  <2>5. QED
    BY <2>2, <2>3, <2>4 DEF FieldInv
<1>7. ASSUME NEW decl \in Declarations, RejectField(decl)
      PROVE  FieldInv'
  <2>1. /\ pc = "struct" /\ pc' = "failed" /\ failed' = decl
        /\ StructField(wire, inType, decl) = Error
        /\ UNCHANGED <<value, outType, wire, inType, mapped, target>>
    BY <1>7 DEF RejectField
  <2>2. /\ TypesInv' /\ SendInv' /\ ReceiveInv' /\ MappedInv' /\ PublishedInv'
        /\ FailedInv'
    BY <2>1 DEF FieldInv, TypesInv, SendInv, ReceiveInv, MappedInv, PublishedInv, FailedInv
  <2>3. BuiltInv' /\ TargetInv'
    BY <2>1 DEF FieldInv, BuiltInv, TargetInv
  <2>4. QED
    BY <2>2, <2>3 DEF FieldInv
<1>8. ASSUME StructDone \/ UNCHANGED vars
      PROVE  FieldInv'
  <2>1. /\ UNCHANGED <<value, outType, wire, inType, mapped, target, failed>>
        /\ pc' = pc \/ (pc = "struct" /\ pc' = "done")
    BY <1>8 DEF StructDone, vars
  <2>2. /\ TypesInv' /\ SendInv' /\ ReceiveInv' /\ MappedInv' /\ PublishedInv'
        /\ FailedInv'
    BY <2>1 DEF FieldInv, TypesInv, SendInv, ReceiveInv, MappedInv, PublishedInv, FailedInv
  <2>3. BuiltInv' /\ TargetInv'
    BY <2>1 DEF FieldInv, BuiltInv, TargetInv
  <2>4. QED
    BY <2>2, <2>3 DEF FieldInv
<1>9. QED
  BY <1>1, <1>2, <1>3, <1>4, <1>5, <1>6, <1>7, <1>8 DEF Next

\* FieldInv is an invariant.
LEMMA FieldInvariant == Spec => []FieldInv
BY FieldInvInit, FieldInvStep, PTL DEF Spec

-----------------------------------------------------------------------------
(* What is promised of a field.                                            *)

\* What the invariant says of the value and of the wire.
LEMMA FieldFacts ==
  ASSUME FieldInv
  PROVE  /\ WellFormed(value) /\ (wire = Absent \/ WireFormed(wire))
         /\ value # Nil => value \in GoValues
         /\ outType # "" => value \in GoValues /\ wire = PublishedField(value, outType)
         /\ mapped \in {Absent, ToMap(wire, inType)}
         /\ inType # "" => pc \notin {"send", "receive"} /\ mapped = ToMap(wire, inType)
BY NullFormed, GoValuesAssumption
   DEF FieldInv, TypesInv, PublishedInv, MappedInv, ReceiveInv

\* The elements of a sequence.
LEMMA ElementOf ==
  ASSUME NEW S, NEW s \in Seq(S), NEW i \in 1 .. Len(s)
  PROVE  s[i] \in S
OBVIOUS

\* What it says of a field that ToStruct has been through.
LEMMA FilledField ==
  ASSUME FieldInv, NEW i \in 1 .. Len(target)
  PROVE  /\ target[i].decl \in Declarations
         /\ target[i].got = StructField(wire, inType, target[i].decl)
         /\ target[i].got # Error
<1>1. target \in Seq([decl : Declarations, got : Outcomes])
  BY DEF FieldInv, TargetInv
<1>2. target[i] \in [decl : Declarations, got : Outcomes]
  BY <1>1, ElementOf
<1>3. target[i].decl \in Declarations
  BY <1>2
<1>4. QED
  BY <1>3 DEF FieldInv, TargetInv

\* A field left alone is no error.
LEMMA UntouchedNoError == Untouched # Error
<1>1. Untouched.kind = "untouched"
  BY ValueFields DEF Untouched
<1>2. QED
  BY <1>1, NotError

\* ToMap, for a key that is missing, undefined or defined.
LEMMA MapOf ==
  ASSUME NEW w, NEW type
  PROVE  /\ w = Absent => ToMap(w, type) = IF type = "" THEN Absent ELSE Nil
         /\ IsCBORUndefined(w) => ToMap(w, type) = Nil
         /\ Defined(w) => ToMap(w, type) = OrNil(Decoded(w, type))
<1>1. w = Absent => ToMap(w, type) = IF type = "" THEN Absent ELSE Nil
  BY DEF ToMap
<1>2. IsCBORUndefined(w) => ToMap(w, type) = Nil
  BY WireDefined DEF ToMap
<1>3. ASSUME Defined(w)
      PROVE  w # Absent /\ ~IsCBORUndefined(w)
  BY <1>3, WireDefined DEF Defined
<1>4. Defined(w) => ToMap(w, type) = OrNil(Decoded(w, type))
  BY <1>3 DEF ToMap
<1>5. QED
  BY <1>1, <1>2, <1>4

\* Types: ToMap delivers nothing but values of the Go type that the key's schema
\* type maps to, and nil; a struct field holds a value of its own type.
THEOREM FieldTypeCorrect == Spec => []TypeOK
<1>1. FieldInv => TypeOK
  <2> SUFFICES ASSUME FieldInv PROVE TypeOK
    OBVIOUS
  <2>1. /\ pc \in {"send", "receive", "struct", "done", "failed"}
        /\ value \in GoValues \cup {Nil}
        /\ wire = Absent \/ WireFormed(wire)
        /\ outType \in SchemaTypes \cup {""} /\ inType \in SchemaTypes \cup {""}
    BY DEF FieldInv, TypesInv
  <2>2. wire = Absent \/ IsCBORUndefined(wire) \/ Defined(wire)
    BY <2>1 DEF Defined
  <2>3. /\ mapped = Absent \/ WellFormed(mapped)
        /\ inType # "" => mapped = Nil \/ mapped.kind = GoKind(inType)
    <3>1. CASE mapped = Absent /\ inType = ""
      BY <3>1
    <3>2. CASE mapped = ToMap(wire, inType)
      <4>1. CASE wire = Absent \/ IsCBORUndefined(wire)
        BY <3>2, <4>1, MapOf, NullFormed
      <4>2. CASE Defined(wire)
        BY <3>2, <4>2, MapOf, DecodedFormed, NullFormed DEF OrNil
      <4>3. QED
        BY <2>2, <4>1, <4>2
    <3>3. QED
      BY <3>1, <3>2, FieldFacts
  <2>4. Len(target) <= NumFields
    BY DEF FieldInv, TargetInv
  <2>5. ASSUME NEW i \in 1 .. Len(target)
        PROVE  /\ target[i].got = Untouched \/ WellFormed(target[i].got)
               /\ target[i].got = Untouched \/ target[i].decl \in {"any", target[i].got.kind}
    <3>1. /\ target[i].got = StructField(wire, inType, target[i].decl)
          /\ target[i].got # Error /\ target[i].decl \in Declarations
      BY FilledField
    <3>2. CASE wire = Absent \/ IsCBORUndefined(wire)
      BY <3>1, <3>2, StructOf
    <3>3. CASE Defined(wire)
      BY <3>1, <3>3, StructFieldFormed
    <3>4. QED
      BY <2>2, <3>2, <3>3
  <2>6. QED
    BY <2>1, <2>3, <2>4, <2>5 DEF TypeOK
<1>2. QED
  BY <1>1, FieldInvariant, PTL

\* What NewPortFieldDataWithAny stringifies, GetAnyValue parses back to the very
\* value that was converted, whatever value and whatever type.
THEOREM FieldsRoundTrip == Spec => []FieldRoundTrip
<1>1. FieldInv => FieldRoundTrip
  <2> SUFFICES ASSUME FieldInv, NEW type \in SupportedTypes,
                      ConvertToTypedValue(value, type) # Error
               PROVE  ConvertValueByType(NewPortFieldDataWithAny(value, type), type)
                        = ConvertToTypedValue(value, type)
    BY DEF FieldRoundTrip
  <2>1. Typed(ConvertToTypedValue(value, type), type)
    BY FieldFacts, ConvertFormed
  <2>2. NewPortFieldDataWithAny(value, type)
          = ConvertAnyValue(ConvertToTypedValue(value, type))
    BY DEF NewPortFieldDataWithAny
  <2>3. QED
    BY <2>1, <2>2, Reparses
<1>2. QED
  BY <1>1, FieldInvariant, PTL

\* Widening a number gives the double that its displayed decimal parses as.
THEOREM DoublesMatchDisplay == Spec => []DoubleMatchesDisplay
<1>1. FieldInv => DoubleMatchesDisplay
  BY FieldFacts, DisplayedDouble DEF DoubleMatchesDisplay
<1>2. QED
  BY <1>1, FieldInvariant, PTL

\* Between two nodes of the SDK decoding is converting, whatever its route.
THEOREM PathsAreIndependent == Spec => []PathIndependence
<1>1. FieldInv => PathIndependence
  BY FieldFacts, GoValuesAssumption, PathOf DEF PathIndependence
<1>2. QED
  BY <1>1, FieldInvariant, PTL

\* ToStruct and ToMap agree on what is neither NaN nor Inf.
THEOREM FiniteStructsAgree == Spec => []FiniteStructAgrees
<1>1. FieldInv => FiniteStructAgrees
  <2> SUFFICES ASSUME FieldInv, wire.form \notin {"NaN", "Inf"}
               PROVE  StructAgrees
    BY DEF FiniteStructAgrees
  <2>1. /\ wire = Absent \/ IsCBORUndefined(wire) \/ Defined(wire)
        /\ inType \in SchemaTypes \cup {""}
    BY DEF FieldInv, TypesInv, Defined
  <2>2. ASSUME NEW decl \in Declarations, decl = GoKind(inType)
        PROVE  inType \in SupportedTypes /\ decl # "any"
    <3>1. GoKind("") = "" /\ GoKind("unsupported") = "unsupported"
      BY DEF GoKind
    <3>2. decl \notin {"", "unsupported"}
      BY DeclaredKinds
    <3>3. inType \in SupportedTypes
      BY <2>1, <2>2, <3>1, <3>2 DEF SchemaTypes
    <3>4. QED
      BY <2>2, <3>3, GoKindOf
  <2>3. ASSUME NEW decl \in Declarations, decl = GoKind(inType), Defined(wire)
        PROVE  StructField(wire, inType, decl) = Decoded(wire, inType)
    <3>1. inType \in SupportedTypes /\ decl # "any"
      BY <2>2, <2>3
    <3>2. StructField(wire, inType, decl) = DecodeConcrete(wire, inType, decl)
      BY <2>3, <3>1, StructOf
    <3>3. DecodeConcrete(wire, inType, decl) = DecodeFieldWithSchema(wire, inType)
      BY <2>3, <3>1, StructAgreement
    <3>4. QED
      BY <3>1, <3>2, <3>3 DEF Decoded
  <2>4. ASSUME NEW i \in 1 .. Len(target)
        PROVE  AgreesWithMap(target[i].decl, target[i].got)
    <3>1. /\ target[i].got = StructField(wire, inType, target[i].decl)
          /\ target[i].got # Error /\ target[i].decl \in Declarations
      BY FilledField
    <3>2. mapped = ToMap(wire, inType)
      <4>1. target # << >>
        OBVIOUS
      <4>2. QED
        BY <4>1 DEF FieldInv, ReceiveInv, MappedInv
    <3>3. CASE wire = Absent \/ IsCBORUndefined(wire)
      BY <3>1, <3>2, <3>3, StructOf, MapOf DEF AgreesWithMap
    <3>4. CASE Defined(wire)
      <4>1. mapped = OrNil(Decoded(wire, inType))
        BY <3>2, <3>4, MapOf
      <4>2. CASE target[i].decl = "any"
        BY <3>1, <3>4, <4>1, <4>2, StructOf DEF AgreesWithMap, OrNil
      <4>3. CASE target[i].decl = GoKind(inType)
        BY <2>3, <3>1, <3>4, <4>1, <4>3 DEF AgreesWithMap, OrNil
      <4>4. QED
        BY <4>2, <4>3 DEF AgreesWithMap
    <3>5. QED
      BY <2>1, <3>3, <3>4
  <2>5. ASSUME failed # "", failed = GoKind(inType)
        PROVE  mapped = Nil
    <3>1. failed \in Declarations /\ StructField(wire, inType, failed) = Error
      BY <2>5 DEF FieldInv, FailedInv
    <3>2. Untouched # Error
      BY UntouchedNoError
    <3>3. Defined(wire)
      BY <2>1, <3>1, <3>2, StructOf
    <3>4. Decoded(wire, inType) = Error
      BY <2>3, <2>5, <3>1, <3>3
    <3>5. mapped = ToMap(wire, inType)
      BY <2>5 DEF FieldInv, ReceiveInv, MappedInv
    <3>6. QED
      BY <3>3, <3>4, <3>5, MapOf DEF OrNil
  <2>6. QED
    BY <2>4, <2>5 DEF StructAgrees
<1>2. QED
  BY <1>1, FieldInvariant, PTL

\* The conversions never truncate or wrap into an integer field of the struct.
THEOREM NothingTruncatedSilently == Spec => []NoSilentTruncation
<1>1. FieldInv => NoSilentTruncation
  <2> SUFFICES ASSUME FieldInv, NEW i \in 1 .. Len(target),
                      target[i].decl \in IntegerKinds \ {GoKind(inType)},
                      target[i].got # Untouched
               PROVE  wire.kind = "int" /\ target[i].got.n = wire.n
    BY DEF NoSilentTruncation
  <2>1. /\ target[i].got = StructField(wire, inType, target[i].decl)
        /\ target[i].got # Error
    BY DEF FieldInv, TargetInv
  <2>2. Defined(wire)
    BY <2>1, StructOf DEF FieldInv, TypesInv, Defined
  <2>3. QED
    BY <2>1, <2>2, IntegerStruct
<1>2. QED
  BY <1>1, FieldInvariant, PTL

\* What is undefined on the wire touches no struct, fails none, and maps to nil.
THEOREM UndefinedNeverTouches == Spec => []UndefinedUntouched
<1>1. FieldInv => UndefinedUntouched
  <2> SUFFICES ASSUME FieldInv, pc # "receive", wire.kind \in {"absent", "null", "undefined"}
               PROVE  /\ failed = ""
                      /\ \A i \in 1 .. Len(target) : target[i].got = Untouched
                      /\ inType # "" => mapped = Nil
    BY DEF UndefinedUntouched
  <2>1. wire = Absent \/ IsCBORUndefined(wire)
    <3>1. WireFormed(wire) => wire.kind # "absent"
      BY DEF WireFormed, WireHeads
    <3>2. QED
      BY <3>1 DEF FieldInv, TypesInv, IsCBORUndefined
  <2>2. \A decl : StructField(wire, inType, decl) = Untouched
    BY <2>1, StructOf
  <2>3. Untouched # Error
    BY UntouchedNoError
  <2>4. failed = ""
    BY <2>2, <2>3 DEF FieldInv, FailedInv
  <2>5. \A i \in 1 .. Len(target) : target[i].got = Untouched
    BY <2>2 DEF FieldInv, TargetInv
  <2>6. inType # "" => mapped = Nil
    <3>1. inType # "" => mapped = ToMap(wire, inType)
      BY FieldFacts
    <3>2. inType # "" => ToMap(wire, inType) = Nil
      BY <2>1, MapOf
    <3>3. QED
      BY <3>1, <3>2
  <2>7. QED
    BY <2>4, <2>5, <2>6
<1>2. QED
  BY <1>1, FieldInvariant, PTL

\* The schema type of an integer kind holds the kind.
LEMMA TypeHoldsKind ==
  ASSUME NEW v, v.kind \in IntegerKinds, NEW n \in Int, InRange(n, v.kind)
  PROVE  GetDataType(v) \in IntegerTypes /\ InRange(n, GetDataType(v))
<1> DEFINE type == GetDataType(v)
<1>1. /\ DOMAIN DataTypes = IntegerKinds \cup FloatKinds \cup {"bool", "string", "bytes"}
      /\ DataTypes["int8"] = "int16" /\ DataTypes["int"] = "int64"
      /\ DataTypes["uint8"] = "uint16" /\ DataTypes["uint"] = "uint64"
      /\ \A k \in IntegerTypes : DataTypes[k] = k
  BY DEF DataTypes
<1>2. type = DataTypes[v.kind]
  BY <1>1 DEF GetDataType
<1>3. \/ v.kind \in IntegerTypes /\ type = v.kind
      \/ <<v.kind, type>> \in {<<"int8", "int16">>, <<"int", "int64">>,
                               <<"uint8", "uint16">>, <<"uint", "uint64">>}
  BY <1>1, <1>2
<1> HIDE DEF type
<1>4. type \in IntegerTypes
  BY <1>3
<1>5. CASE type = v.kind
  BY <1>4, <1>5 DEF type
<1>6. CASE type # v.kind
  <2>1. MinOf[type] <= MinOf[v.kind] /\ MaxOf[v.kind] <= MaxOf[type]
    <3>1. \A pair \in {<<"int8", "int16">>, <<"int", "int64">>,
                       <<"uint8", "uint16">>, <<"uint", "uint64">>} :
            MinOf[pair[2]] <= MinOf[pair[1]] /\ MaxOf[pair[1]] <= MaxOf[pair[2]]
      BY RangeAssumption
    <3>2. /\ MinOf["int16"] <= MinOf["int8"] /\ MaxOf["int8"] <= MaxOf["int16"]
          /\ MinOf["int64"] <= MinOf["int"] /\ MaxOf["int"] <= MaxOf["int64"]
          /\ MinOf["uint16"] <= MinOf["uint8"] /\ MaxOf["uint8"] <= MaxOf["uint16"]
          /\ MinOf["uint64"] <= MinOf["uint"] /\ MaxOf["uint"] <= MaxOf["uint64"]
      BY <3>1
    <3>3. QED
      BY <1>3, <1>6, <3>2
  <2>2. /\ MinOf[type] \in Int /\ MaxOf[type] \in Int
        /\ MinOf[v.kind] \in Int /\ MaxOf[v.kind] \in Int
    BY <1>4, RangeOf
  <2>3. InRange(n, type)
    BY <2>1, <2>2 DEF InRange
  <2>4. QED
    BY <1>4, <2>3 DEF type
<1>7. QED
  BY <1>5, <1>6

\* A value published under its own type goes out as the codec encodes it.
LEMMA OwnType ==
  ASSUME NEW v, WellFormed(v), v.kind \notin {"nil", "time", "other"},
         v.kind \in FloatKinds => v.form = "fin"
  PROVE  GetDataType(v) # "" /\ PublishedField(v, GetDataType(v)) = Encode(v)
<1> DEFINE type == GetDataType(v)
<1>1. /\ v.kind \in IntegerKinds \cup FloatKinds \cup {"bool", "string", "bytes"}
      /\ v = V(v.kind, v.form, v.n) /\ v.n \in Int /\ v.kind # "error"
  BY RoundType DEF WellFormed, GoKinds, V
<1>2. type # ""
  BY <1>1, DataTypeOf
<1>3. ASSUME NEW u, ConvertToTypedValue(v, type) = u, u # Error, Encode(u) = Encode(v)
      PROVE  PublishedField(v, type) = Encode(v)
  BY <1>2, <1>3 DEF PublishedField
<1>4. v # Error
  BY <1>1, NotError
<1>5. CASE v.kind \in IntegerKinds
  <2>1. Number(v) /\ IsIntegral(v.n) /\ InRange(v.n, v.kind)
    BY <1>5 DEF Number, WellFormed
  <2>2. type \in IntegerTypes /\ InRange(v.n, type)
    BY <1>1, <1>5, <2>1, TypeHoldsKind
  <2>3. Trunc(v.n) = v.n
    BY <1>1, <2>1, TruncFixed
  <2>4. ConvertToTypedValue(v, type) = V(type, "fin", v.n)
    BY <2>1, <2>2, <2>3, IntegerConversion
  <2>5. V(type, "fin", v.n).kind \in IntegerTypes /\ V(type, "fin", v.n).n = v.n
    BY <2>2, ValueFields
  <2>6. V(type, "fin", v.n) # Error
    BY <2>5, NotError
  <2>7. Encode(V(type, "fin", v.n)) = Encode(v)
    BY <1>5, <2>5, EncodeOf
  <2>8. QED
    BY <1>2, <1>3, <2>4, <2>6, <2>7
<1>6. CASE v.kind \in FloatKinds
  <2>1. /\ Number(v) /\ v.form = "fin"
        /\ v.kind = "float64" => v.n \in Doubles
    BY <1>6 DEF Number, WellFormed
  <2>2. v.kind = "float64" => Widen(v) = v.n
    BY <2>1, RoundAssumption DEF Widen
  <2>3. ConvertToTypedValue(v, type) = v
    BY <1>1, <1>6, <2>1, <2>2, DataTypeOf, ConvertNumber
  <2>4. QED
    BY <1>2, <1>3, <1>4, <2>3
<1>7. CASE v.kind \in {"bool", "string", "bytes"}
  <2>1. ConvertToTypedValue(v, type) = v
    BY <1>7, DataTypeOf, ConvertBool, ConvertString, ConvertBytes
  <2>2. QED
    BY <1>2, <1>3, <1>4, <2>1
<1>8. QED
  BY <1>1, <1>2, <1>5, <1>6, <1>7

\* A message that a unit test builds gives its handler what a node that publishes
\* the value under its own type would have given it.
THEOREM TestsSeeWhatNodesSend == Spec => []TestsSeeProduction
<1>1. FieldInv => TestsSeeProduction
  <2> DEFINE type == GetDataType(value)
  <2> SUFFICES ASSUME FieldInv, outType = "", value # Nil, wire # Absent,
                      value.kind \in FloatKinds => value.form = "fin"
               PROVE  /\ wire = PublishedField(value, type)
                      /\ inType # "" =>
                           mapped = OrNil(ConvertToTypedValue(
                                            ConvertToTypedValue(value, type), inType))
                      /\ inType = "" /\ pc # "receive" /\ Number(value) =>
                           /\ mapped.n = value.n
                           /\ mapped.kind \in {"int64", "uint64", "float64"}
                           /\ mapped.kind = "uint64" => mapped.n > MaxOf["int64"]
    BY DEF TestsSeeProduction
  <2>1. /\ value.kind \notin {"time", "other"} /\ wire = Encode(value)
        /\ WellFormed(value)
    BY FieldFacts DEF FieldInv, BuiltInv
  <2>2. value.kind # "nil"
    <3>1. value.kind = "nil" => value = V("nil", "", 0)
      BY <2>1 DEF WellFormed, V
    <3>2. QED
      BY <3>1 DEF Nil
  <2>3. type # "" /\ wire = PublishedField(value, type)
    BY <2>1, <2>2, OwnType
  <2> HIDE DEF type
  <2>4. inType # "" =>
          mapped = OrNil(ConvertToTypedValue(ConvertToTypedValue(value, type), inType))
    BY <2>1, <2>3, FieldFacts, PathOf
  <2>5. ASSUME inType = "", pc # "receive", Number(value)
        PROVE  /\ mapped.n = value.n
               /\ mapped.kind \in {"int64", "uint64", "float64"}
               /\ mapped.kind = "uint64" => mapped.n > MaxOf["int64"]
    <3>1. mapped = ToMap(wire, "")
      BY <2>5 DEF FieldInv, SendInv, MappedInv
    <3>2. Defined(wire)
      BY <2>1, <2>2, EncodeFormed
    <3>3. mapped = OrNil(DecodeNatural(wire))
      BY <3>1, <3>2, MapOf DEF Decoded
    <3>4. CASE value.kind \in IntegerKinds
      <4>1. wire = V("int", "fin", value.n)
        BY <2>1, <3>4, EncodeOf
      <4>2. wire.kind = "int" /\ wire.n = value.n
        BY <4>1 DEF V
      <4>3. DecodeNatural(wire) = NaturalInt(value.n)
        BY <4>2, NaturalOf
      <4>4. /\ value.n \in Numbers /\ IsIntegral(value.n)
            /\ MinOf["int64"] <= value.n /\ value.n <= MaxOf["uint64"]
        BY <3>2, <4>2 DEF Defined, WireFormed
      <4>5. /\ NaturalInt(value.n).n = value.n
            /\ NaturalInt(value.n).kind \in {"int64", "uint64"}
        BY <4>4, NaturalIntFormed
      <4>6. NaturalInt(value.n).kind = "uint64" => value.n > MaxOf["int64"]
        <5>1. value.n \in Int
          BY <4>4, RoundType
        <5>2. QED
          BY <5>1, NaturalIntLarge
      <4>7. mapped = NaturalInt(value.n)
        BY <3>3, <4>3, <4>5, NotError DEF OrNil
      <4>8. QED
        BY <4>5, <4>6, <4>7
    <3>5. CASE value.kind \in FloatKinds
      <4>1. wire \in {V("single", "fin", value.n), V("double", "fin", value.n)}
        BY <2>1, <3>5, EncodeOf
      <4>2. wire.kind \in FloatHeads /\ wire.n = value.n
        <5>1. \A head : V(head, "fin", value.n).kind = head
                        /\ V(head, "fin", value.n).n = value.n
          BY DEF V
        <5>2. QED
          BY <4>1, <5>1
      <4>3. DecodeNatural(wire) = V("float64", wire.form, value.n)
        BY <4>2, NaturalOf
      <4>4. mapped = V("float64", wire.form, value.n)
        <5>1. V("float64", wire.form, value.n).kind = "float64"
          BY DEF V
        <5>2. QED
          BY <3>3, <4>3, <5>1, NotError DEF OrNil
      <4>5. QED
        BY <4>4 DEF V
    <3>6. QED
      BY <2>5, <3>4, <3>5 DEF Number
  <2>6. QED
    BY <2>3, <2>4, <2>5
<1>2. QED
  BY <1>1, FieldInvariant, PTL
=============================================================================
