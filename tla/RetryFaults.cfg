SPECIFICATION Spec
CONSTANTS
  maxAllowedRetry = 5
  orderMaxAllowedRetry = 35
  inventoryLevelMaxAllowedRetry = 3
  retryFrequencyIncrementThreshold = 5
  a = a
  b = b
  c = c
  w1 = w1
  w2 = w2
  Items = {a, b}
  Requests <- OneRequest
  Workers = {w1, w2}
  MaxRetry = 1
  WrapsRetryInfo = TRUE
  MaxMsgs = 3
  MaxEvents = 2
  MaxCrashes = 1
  MaxRebalances = 1
  MaxDbErrors = 1
  MaxToggles = 1
  MaxFaults = 2
SYMMETRY WorkerSymmetry
INVARIANTS
  RetryBudgetKept
  NoWorkLost
  ProcessingIsDriven
CHECK_DEADLOCK FALSE
