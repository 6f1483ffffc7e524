SPECIFICATION RecoverySpec
CONSTANTS
  maxAllowedRetry = 5
  orderMaxAllowedRetry = 35
  inventoryLevelMaxAllowedRetry = 3
  retryFrequencyIncrementThreshold = 5
  a = a
  b = b
  c = c
  w1 = w1
  w2 = w2
  Items = {a, b}
  Requests <- OneRequest
  Workers = {w1}
  MaxRetry = 2
  WrapsRetryInfo = TRUE
  MaxMsgs = 7
  MaxEvents = 3
  MaxCrashes = 0
  MaxRebalances = 0
  MaxDbErrors = 1
  MaxToggles = 1
  MaxFaults = 1
  FileWorkers = {"w1", "w2"}
  Transports = {"sftp", "s3"}
  MaxName = 2
  MaxUploads = 2
  MaxFileCrashes = 1
  MaxId = 4
  Manual = {4}
  PageLimit = 1
  MaxChanges = 2
  MaxBreaks = 1
INVARIANTS
  LockedOnce
  NothingLost
PROPERTIES
  WorkSettles
  AttemptsEnd
  EverythingArchived
  GidsArrive
CHECK_DEADLOCK FALSE
