---------------------------- MODULE DataPathProofs ----------------------------
(***************************************************************************)
(* Conversions to integer types are exact, for integers of any width, any  *)
(* system of floating-point numbers that rounds the largest 64-bit         *)
(* integers up, and any values that handlers publish.                      *)
(***************************************************************************)
EXTENDS DataPath, TLAPS

\* A remainder by something larger changes nothing.
LEMMA SmallRemainder ==
  ASSUME NEW a \in Nat, NEW b \in Nat, a < b
  PROVE  a % b = a
OBVIOUS

\* A multiple of Unit is Unit times its quotient.
LEMMA IntegralMultiple ==
  ASSUME NEW n \in Int, IsIntegral(n)
  PROVE  /\ n \div Unit \in Int
         /\ n = (n \div Unit) * Unit
BY UnitAssumption DEF IsIntegral

\* Every multiple of Unit is integral.
LEMMA MultipleIntegral ==
  ASSUME NEW k \in Int
  PROVE  k * Unit \in Int /\ IsIntegral(k * Unit)
BY UnitAssumption DEF IsIntegral

\* math.Trunc yields an integer ...
LEMMA TruncIntegral ==
  ASSUME NEW n \in Int
  PROVE  Trunc(n) \in Int /\ IsIntegral(Trunc(n))
<1>1. CASE n < 0
  <2>1. (-n) \div Unit \in Int
    BY UnitAssumption
  <2>2. Trunc(n) = (-((-n) \div Unit)) * Unit
    BY <1>1, <2>1, UnitAssumption DEF Trunc
  <2>3. -((-n) \div Unit) \in Int
    BY <2>1
  <2>4. QED
    BY <2>2, <2>3, MultipleIntegral
<1>2. CASE ~(n < 0)
  <2>1. n \div Unit \in Int /\ Trunc(n) = (n \div Unit) * Unit
    BY <1>2, UnitAssumption DEF Trunc
  <2>2. QED
    BY <2>1, MultipleIntegral
<1>3. QED
  BY <1>1, <1>2

\* ... and leaves an integer alone.
LEMMA TruncFixed ==
  ASSUME NEW n \in Int, IsIntegral(n)
  PROVE  Trunc(n) = n
<1>1. CASE n < 0
  <2>1. n \div Unit \in Int /\ n = (n \div Unit) * Unit
    BY IntegralMultiple
  <2>2. -n = (-(n \div Unit)) * Unit
    BY <2>1, UnitAssumption
  <2>3. IsIntegral(-n)
    BY <2>1, <2>2, MultipleIntegral
  <2>4. -n = ((-n) \div Unit) * Unit
    BY <2>3, IntegralMultiple
  <2>5. QED
    BY <1>1, <2>4, UnitAssumption DEF Trunc
<1>2. CASE ~(n < 0)
  BY <1>2, IntegralMultiple DEF Trunc
<1>3. QED
  BY <1>1, <1>2

\* Between an integer and the next one there is none.
LEMMA NextIntegral ==
  ASSUME NEW m \in Int, IsIntegral(m), NEW n \in Int, IsIntegral(n), m < n
  PROVE  m + Unit <= n
<1> DEFINE a == m \div Unit
           b == n \div Unit
<1>1. a \in Int /\ b \in Int /\ m = a * Unit /\ n = b * Unit
  BY IntegralMultiple
<1> HIDE DEF a, b
<1>2. a < b
  BY <1>1, UnitAssumption
<1>3. (a + 1) * Unit <= b * Unit
  BY <1>1, <1>2, UnitAssumption
<1>4. QED
  BY <1>1, <1>3, UnitAssumption

-----------------------------------------------------------------------------
\* A conversion to an integer kind keeps what is in the kind's range.
LEMMA CastExact ==
  ASSUME NEW kind \in IntegerKinds, NEW n \in Int, InRange(n, kind)
  PROVE  Cast(n, kind) = V(kind, "fin", n)
<1>1. /\ MinOf[kind] \in Int /\ MaxOf[kind] \in Int
      /\ Unit \in Int /\ Unit > 0
  BY RangeAssumption, UnitAssumption
<1>2. /\ n - MinOf[kind] \in Nat /\ SizeOf(kind) \in Nat
      /\ n - MinOf[kind] < SizeOf(kind)
  BY <1>1 DEF InRange, SizeOf
<1>3. (n - MinOf[kind]) % SizeOf(kind) = n - MinOf[kind]
  BY <1>2, SmallRemainder
<1>4. ((n - MinOf[kind]) % SizeOf(kind)) + MinOf[kind] = n
  BY <1>1, <1>3
<1>5. QED
  BY <1>4 DEF Cast

\* outOfIntegerRange refuses a truncated float exactly when it is out of range,
\* with the exclusive bounds of the 64-bit types as with the others.
LEMMA BoundsExact ==
  ASSUME NEW type \in IntegerTypes, NEW f \in Int, IsIntegral(f)
  PROVE  OutOfIntegerRange(f, type) <=> ~InRange(f, type)
<1>1. /\ MinOf[type] \in Int /\ MaxOf[type] \in Int /\ IsIntegral(MaxOf[type])
      /\ Unit \in Int /\ Unit > 0
  BY RangeAssumption, UnitAssumption DEF IntegerKinds
<1>2. CASE type \in {"int64", "uint64"}
  <2>1. RoundDouble[MaxOf[type]] = MaxOf[type] + Unit
    BY <1>2, RoundsUpAssumption
  <2>2. f > MaxOf[type] <=> f >= MaxOf[type] + Unit
    BY <1>1, NextIntegral
  <2>3. QED
    BY <1>1, <1>2, <2>1, <2>2 DEF OutOfIntegerRange, InRange
<1>3. CASE type \notin {"int64", "uint64"}
  BY <1>1, <1>3 DEF OutOfIntegerRange, InRange
<1>4. QED
  BY <1>2, <1>3

\* The number of a Go value is an integer count of units, and whole if its kind
\* is an integer one.
LEMMA NumberType ==
  ASSUME NEW v, WellFormed(v), Number(v)
  PROVE  /\ v.n \in Int
         /\ v.kind \in IntegerKinds => IsIntegral(v.n)
BY NumbersAssumption DEF WellFormed, Number

\* None of the earlier refusals concerns a number and an integer type.
LEMMA NumberNotRefused ==
  ASSUME NEW v, WellFormed(v), Number(v), NEW type \in IntegerTypes
  PROVE  ~Refused(v, type)
<1>1. v.kind \in IntegerKinds \cup FloatKinds
  BY DEF Number
<1>2. v.kind \in FloatKinds => v.form = "fin"
  BY DEF Number, IntegerKinds, IntegerTypes, FloatKinds
<1>3. v.kind \in DOMAIN DataTypes /\ DataTypes[v.kind] \notin {"raw", ""}
  <2>1. DOMAIN DataTypes =
          IntegerKinds \cup FloatKinds \cup {"bool", "string", "bytes"}
    BY DEF DataTypes, IntegerKinds, IntegerTypes, FloatKinds
  <2>2. \A k \in IntegerTypes : DataTypes[k] = k
    BY DEF DataTypes, IntegerTypes
  <2>3. /\ DataTypes["int8"] = "int16" /\ DataTypes["int"] = "int64"
        /\ DataTypes["uint8"] = "uint16" /\ DataTypes["uint"] = "uint64"
        /\ DataTypes["float32"] = "float" /\ DataTypes["float64"] = "double"
    BY DEF DataTypes
  <2>4. QED
    BY <1>1, <2>1, <2>2, <2>3 DEF IntegerKinds, IntegerTypes, FloatKinds
<1>4. GetDataType(v) \notin {"raw", ""}
  BY <1>3 DEF GetDataType
<1>5. type \in SupportedTypes /\ type \in NumericTypes
  BY DEF SupportedTypes, NumericTypes
<1>6. QED
  BY <1>2, <1>4, <1>5 DEF Refused, CanConvertTo

\* ConvertToTypedValue of a number to an integer type is the truncated number, or
\* an error if that is out of the type's range.
LEMMA IntegerConversion ==
  ASSUME NEW v, WellFormed(v), Number(v), NEW type \in IntegerTypes
  PROVE  ConvertToTypedValue(v, type) =
           IF InRange(Trunc(v.n), type) THEN V(type, "fin", Trunc(v.n)) ELSE Error
<1> DEFINE t == Trunc(v.n)
<1>1. v.n \in Int /\ type \in IntegerKinds
  BY NumberType DEF IntegerKinds
<1>2. t \in Int /\ IsIntegral(t)
  BY <1>1, TruncIntegral
<1>3. InRange(t, type) => Cast(t, type) = V(type, "fin", t)
  BY <1>1, <1>2, CastExact
<1>4. ConvertToTypedValue(v, type) = ConvertToInteger(v, type)
  BY NumberNotRefused DEF ConvertToTypedValue
<1>5. CASE v.kind \in IntegerKinds
  <2>1. t = v.n
    BY <1>1, <1>5, NumberType, TruncFixed
  <2>2. ConvertToInteger(v, type) = IF InRange(v.n, type) THEN Cast(v.n, type) ELSE Error
    BY <1>5 DEF ConvertToInteger, IntegerKinds, IntegerTypes, FloatKinds
  <2>3. QED
    BY <1>3, <1>4, <2>1, <2>2
<1>6. CASE v.kind \in FloatKinds
  <2>1. OutOfIntegerRange(t, type) <=> ~InRange(t, type)
    BY <1>2, BoundsExact
  <2>2. ConvertToInteger(v, type) = IF OutOfIntegerRange(t, type) THEN Error ELSE Cast(t, type)
    BY <1>6 DEF ConvertToInteger, FloatKinds
  <2>3. QED
    BY <1>3, <1>4, <2>1, <2>2
<1>7. QED
  BY <1>5, <1>6 DEF Number

-----------------------------------------------------------------------------
\* What was published is one of the handler's values, or nothing yet.
Published == value \in GoValues \cup {Nil}

\* Nothing but Publish and Build choose the value.
LEMMA PublishedInvariant == Spec => []Published
<1>1. Init => Published
  BY DEF Init, Published
<1>2. Published /\ [Next]_vars => Published'
  BY DEF Published, Next, vars, Publish, Inject, SendForeign, Build, Receive,
         FillField, RejectField, StructDone
<1>3. QED
  BY <1>1, <1>2, PTL DEF Spec

\* Whatever number a handler publishes under whatever integer type: it goes out
\* truncated and otherwise exact, or is refused because it is out of range.
THEOREM IntegersAreExact == Spec => []IntegersExact
<1>1. Published => IntegersExact
  <2>1. SUFFICES ASSUME Published, Number(value), NEW type \in IntegerTypes
                 PROVE  ConvertToTypedValue(value, type) =
                          IF InRange(Trunc(value.n), type)
                          THEN V(type, "fin", Trunc(value.n)) ELSE Error
    BY DEF IntegersExact
  <2>2. value # Nil
    <3>1. Nil.kind \notin IntegerKinds \cup FloatKinds
      BY DEF Nil, V, IntegerKinds, IntegerTypes, FloatKinds
    <3>2. QED
      BY <2>1, <3>1 DEF Number
  <2>3. WellFormed(value)
    BY <2>1, <2>2, GoValuesAssumption DEF Published
  <2>4. QED
    BY <2>1, <2>3, IntegerConversion
<1>2. QED
  BY <1>1, PublishedInvariant, PTL
=============================================================================
