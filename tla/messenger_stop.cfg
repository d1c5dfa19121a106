SPECIFICATION Spec
CONSTANTS
  a = a
  b = b
  i1 = i1
  i2 = i2
  i3 = i3
  Nodes = {a, b}
  Callers = {i1, i2}
  NodeOf <- TwoCallers
  NoChan = NoChan
  ChanCap = 1
  MaxConns = 1
  Refusable = {}
  MaxMsgs = 0
  MaxSignals = 0
  Leavers = {i1}
PROPERTIES StopSparesSiblings
CHECK_DEADLOCK FALSE
