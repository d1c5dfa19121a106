SPECIFICATION Spec
CONSTANTS
  a = a
  b = b
  i1 = i1
  i2 = i2
  Nodes = {a, b}
  Callers = {i1, i2}
  NodeOf <- TwoInstances
  NoChan = NoChan
  ChanCap = 1
  MessageCap = 1
  InitialBackoff = 2
  MaxBackoff = 3
  MaxCrashes <- Once
  MaxDelivered <- Twice
INVARIANTS TypeOK AliveIsServed ClosedOnlyWhenDone HandlersWithinRun OnlySignalsEndRun
PROPERTY CrashedHandlerRestarts
CHECK_DEADLOCK FALSE
