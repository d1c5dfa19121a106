SPECIFICATION Spec
CONSTANTS
  Unit <- MCUnit
  MinOf <- MCMinOf
  MaxOf <- MCMaxOf
  Numbers <- MCNumbers
  Singles <- MCSingles
  Doubles <- MCDoubles
  RoundSingle <- MCRoundSingle
  RoundDouble <- MCRoundDouble
  ShortestSingle <- MCShortestSingle
  ShortestDouble <- MCShortestDouble
  MaxSingle <- MCMaxSingle
  SingleLimit <- MCSingleLimit
  DoubleLimit <- MCDoubleLimit
  GoValues <- MCGoValues
  MockValues <- MCMockValues
  ForeignWires <- MCForeignWires
  Declarations = {"any", "int16", "float32", "float64", "string"}
  NumFields = 1
INVARIANT StructReceivesWhatMapDelivers
CHECK_DEADLOCK FALSE
