SPECIFICATION Spec
CONSTANTS
  maxAllowedRetry = 5
  orderMaxAllowedRetry = 35
  inventoryLevelMaxAllowedRetry = 3
  retryFrequencyIncrementThreshold = 5
  a = a
  b = b
  c = c
  w1 = w1
  w2 = w2
  Items = {a, b, c}
  Requests <- TwoRequests
  Workers = {w1, w2}
  MaxRetry = 2
  WrapsRetryInfo = TRUE
  MaxMsgs = 4
  MaxEvents = 3
  MaxCrashes = 0
  MaxRebalances = 0
  MaxDbErrors = 0
  MaxToggles = 0
  MaxFaults = 0
SYMMETRY WorkerSymmetry
INVARIANTS
  NoForkedWork
  HandledInProcessing
PROPERTIES
  LifecycleSpec
CHECK_DEADLOCK FALSE
