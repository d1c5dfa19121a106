SPECIFICATION Spec
CONSTANTS
  a = a
  b = b
  i1 = i1
  i2 = i2
  Nodes = {a}
  Callers = {i1, i2}
  NodeOf <- SharedNode
  NoChan = NoChan
  ChanCap = 1
  MessageCap = 1
  InitialBackoff = 1
  MaxBackoff = 1
  MaxCrashes <- Once
  MaxDelivered <- Once
PROPERTIES StopEndsInstance ReturnedIsFinal ShutdownCompletes
CHECK_DEADLOCK FALSE
