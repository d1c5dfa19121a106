SPECIFICATION Spec
CONSTANTS
  a = a
  b = b
  i1 = i1
  i2 = i2
  i3 = i3
  Nodes = {a, b}
  Callers = {i1, i2, i3}
  NodeOf <- SharedNode
  NoChan = NoChan
  ChanCap = 1
  MaxConns = 1
  Refusable = {a, b}
  MaxMsgs = 2
  MaxSignals = 0
  Leavers = {i1, i2}
INVARIANTS TypeOK RegisteredOpen CloseOnce Isolation BookedWasAnswered
PROPERTIES ImplementsContract ServedUnlessRefused DeafHasACause
CHECK_DEADLOCK FALSE
