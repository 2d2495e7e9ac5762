SPECIFICATION Spec
CONSTANTS
  n1 = n1
  n2 = n2
  Counts = {n1}
  Ways <- MCWays
  MaxMessages = 2
INVARIANT TypeOK
INVARIANT GivenUpIsCalledOff
INVARIANT CancelledMeansStopped
PROPERTY CallReturns
CHECK_DEADLOCK FALSE
