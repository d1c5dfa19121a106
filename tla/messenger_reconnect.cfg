SPECIFICATION Spec
CONSTANTS
  a = a
  b = b
  i1 = i1
  i2 = i2
  i3 = i3
  Nodes = {a}
  Callers = {i1}
  NodeOf <- OneCaller
  NoChan = NoChan
  ChanCap = 1
  MaxConns = 2
  Refusable = {}
  MaxMsgs = 0
  MaxSignals = 0
  Leavers = {}
PROPERTIES RecoversAfterReconnect
CHECK_DEADLOCK FALSE
