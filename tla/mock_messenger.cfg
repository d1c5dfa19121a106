SPECIFICATION Spec
CONSTANTS
  a = a
  b = b
  i1 = i1
  i2 = i2
  i3 = i3
  unknown = unknown
  Nodes = {a, b}
  Callers = {i1, i2, i3}
  NodeOf <- SharedNode
  NoChan = NoChan
  ChanCap = 2
  NumMessages = 4
  Target <- Targets
  Malformed = {1}
INVARIANTS TypeOK
PROPERTIES EveryMessageHasItsTurn ImplementsContract
CHECK_DEADLOCK FALSE
