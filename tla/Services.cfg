SPECIFICATION ServicesSpec
CONSTANTS
  Calls = {c1, c2}
  Jobs = {j1, j2}
  Imps = {i1, i2}
  Shops = {s1, s2}
  Shared = {i1}
  Nobody = Nobody
  MaxPatches = 1
  MaxFaults = 1
  Rows = {r1, r2}
  Kinds = {s1, s2}
  Keep = Keep
  Editors = {c1, c2}
  MaxRequests = 3
  MaxBroken = 1
  maxAllowedRetry = 5
  orderMaxAllowedRetry = 35
  inventoryLevelMaxAllowedRetry = 3
  retryFrequencyIncrementThreshold = 5
  ItemIds = {a, b, c}
  MaxLen = 2
  Texts = {"secret", "se:cret"}
  Colon = {"se:cret"}
  MaxRecords = 2
  MaxForms = 3
  MaxTokens = 2
  MaxAttempts = 3
  MaxPoolFaults = 1
  retries = 1
  MaxClients = 2
  MaxUses = 3
  MaxSftpFaults = 1
  MaxEntries = 2
  MaxQuantity = 2
  MaxRepeats = 1
  MaxBreaks = 1
  Prices = {10, 15}
  pieceTax = 2
  pieceDiscount = 3
  shippingCost = 5
INVARIANTS
  NoDuplicateConnections
  IntegrationsHold
  OneDefaultMapper
  RecordsHold
  RegisteredUsersHold
  SessionsHold
  RefundsAreRecorded
  MatchMeansNoProgress
SYMMETRY Symmetry
CHECK_DEADLOCK FALSE
