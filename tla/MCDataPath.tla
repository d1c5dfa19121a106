------------------------------ MODULE MCDataPath ------------------------------
(***************************************************************************)
(* An instance of DataPath for TLC: integers of 2 to 6 bits, and two small *)
(* systems of floating-point numbers with the features of IEEE's that      *)
(* matter.  Doubles hold every 32-bit integer and singles every 16-bit     *)
(* one, neither holds MaxInt64; doubles are finer and reach further.       *)
(***************************************************************************)
EXTENDS DataPath

MCUnit == 400

MCMinOf == [k \in IntegerKinds |-> CASE k = "int8"  -> -2 * MCUnit
                                     [] k = "int16" -> -4 * MCUnit
                                     [] k = "int32" -> -8 * MCUnit
                                     [] k \in {"int", "int64"} -> -32 * MCUnit
                                     [] OTHER -> 0]

MCMaxOf == [k \in IntegerKinds |-> CASE k = "int8"   -> MCUnit
                                     [] k = "int16"  -> 3 * MCUnit
                                     [] k = "int32"  -> 7 * MCUnit
                                     [] k \in {"int", "int64"} -> 31 * MCUnit
                                     [] k = "uint8"  -> 3 * MCUnit
                                     [] k = "uint16" -> 7 * MCUnit
                                     [] k = "uint32" -> 15 * MCUnit
                                     [] OTHER -> 63 * MCUnit]

Signed(S) == S \cup {-n : n \in S}
Times(S)  == {n * MCUnit : n \in S}

\* 0.25, 0.5, 0.75, 3.5 and 7.5 besides the integers.
MCSingles == Signed(Times(0 .. 8 \cup {12, 16, 24, 32, 48, 64, 96})
                      \cup {100, 200, 300, 1400, 3000})

\* 0.0625, 0.125, 0.1875, 0.3125, 0.375, 7.25 and 15.5 as well.
MCDoubles == MCSingles
               \cup Signed(Times(0 .. 16 \cup {20, 24, 28, 32, 40, 48, 56, 64,
                                               80, 96, 112, 128})
                             \cup {25, 50, 75, 125, 150, 2900, 6200})

MCMaxSingle   == 96 * MCUnit
MCSingleLimit == 112 * MCUnit
MCDoubleLimit == 136 * MCUnit

\* The element of S nearest to n; of two, the one further from zero.
Nearest(S, n) ==
  CHOOSE y \in S : \A z \in S : \/ Abs(n - y) < Abs(n - z)
                                \/ Abs(n - y) = Abs(n - z) /\ Abs(z) <= Abs(y)

\* The decimals next to n with a last digit worth d.
Neighbours(n, d) == {(n \div d) * d, (n \div d) * d + d}

\* The shortest decimal that rounds to n: tens only for what is large.
Shortest(S, n) ==
  LET back(d) == {c \in Neighbours(n, d) : Nearest(S, c) = n}
      digits == {d \in {4, 40, 400} \cup (IF Abs(n) >= 20 * MCUnit THEN {4000} ELSE {}) :
                   back(d) # {}}
      coarsest == CHOOSE d \in digits : \A e \in digits : e <= d
  IN Nearest(back(coarsest), n)

MCShortestSingle == [n \in MCSingles |-> Shortest(MCSingles, n)]
MCShortestDouble == [n \in MCDoubles |-> Shortest(MCDoubles, n)]

MCNumbers == MCDoubles
               \cup Times(-33 .. 65 \cup {100})
               \cup {120, 600}
               \cup {MCShortestSingle[n] : n \in MCSingles}
               \cup {MCShortestDouble[n] : n \in MCDoubles}

MCRoundSingle == [n \in MCNumbers |-> Nearest(MCSingles, n)]
MCRoundDouble == [n \in MCNumbers |-> Nearest(MCDoubles, n)]

Ints(kind, S)   == {V(kind, "fin", n * MCUnit) : n \in S}
Floats(kind, S) == {V(kind, "fin", n) : n \in S} \cup {V(kind, "NaN", 0), V(kind, "Inf", 0)}

\* "0.3", "1.5" and "100" among the decimals.
MCMockValues ==
  {V("string", "int", n * MCUnit) : n \in {-1, 3, 31, 64, 100}}
    \cup {V("string", "dec", n) : n \in {120, 600}}
    \cup {V("string", form, 0) : form \in {"NaN", "true", "text", "base64"}}

MCGoValues ==
  Ints("int8", {-2}) \cup Ints("int16", {-4}) \cup Ints("int", {8, -32})
    \cup Ints("int64", {-9, 17, 31}) \cup Ints("uint8", {3}) \cup Ints("uint32", {15})
    \cup Ints("uint64", {32, 63})
    \cup Floats("float32", {100, 38400, -1400})
    \cup Floats("float64", {25, 100, 2900, 12800, 25600, -12800, 44800})
    \cup {V("bool", "fin", 0), V("bool", "fin", MCUnit)}
    \cup {V("string", "int", 31 * MCUnit), V("string", "dec", 120),
          V("string", "NaN", 0), V("string", "true", 0)}
    \cup {V("bytes", "", 0), V("nil", "", 0), V("time", "", 0)}

MCForeignWires ==
  Ints("int", {-32, -1, 0, 7, 31, 32, 63})
    \cup Floats("half", {100}) \cup Floats("single", {100, 38400})
    \cup Floats("double", {25, 600 + 800, 38400, 44800})
    \cup {V("text", "text", 0), V("text", "int", 3 * MCUnit), V("bytes", "", 0)}
    \cup {V(head, "", 0) : head \in {"null", "undefined", "container", "bigint"}}
    \cup {V("bool", "fin", MCUnit)}
=============================================================================
