SPECIFICATION Spec
CONSTANTS
  p1 = p1
  p2 = p2
  Publishers = {p1, p2}
  MessageIds = 2
  MaxCalls <- TwoAndOne
  MaxBad = 1
  MaxLosses = 2
INVARIANTS TypeOK NilMeansTaken RefusedNeverArrives FailsOnlyAtShutdown OnlyTimeoutsLinger ConfirmedInOrder
PROPERTIES CallsReturn TimedOutArrives
CHECK_DEADLOCK FALSE
