SPECIFICATION LimitersSpec
CONSTANTS
  r1 = r1
  r2 = r2
  r3 = r3
  Requests = {r1, r2, r3}
  Costs <- AllCosts
  MaximumAvailable = 4
  RestoreRate = 1
  PlanRate = 1
  StartsConfigured = {TRUE, FALSE}
  LockTimeout = 2
  MaxStalls = 1
  Clients = {r1, r2}
  Plans = {0, 3}
  Default = 2
  Step = 2
  MaxCount = 4
INVARIANTS
  DebtIsOnRecord
  AdmittedNotRefused
  RequestsSpaced
PROPERTIES
  EveryRequestGoes
CHECK_DEADLOCK FALSE
