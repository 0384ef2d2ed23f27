SPECIFICATION Spec
CONSTANTS
  MaxKeys = 3
  MaxPriority = 2
  MaxTime = 1
  MaxConcurrency = 2
  MaxDelay = 2
  MaxRetries = 5
INVARIANTS
  OrderIsTotal
  SliceIsBest
  BackoffSeries
CHECK_DEADLOCK FALSE
