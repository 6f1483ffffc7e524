SPECIFICATION Spec
CONSTANTS
  w1 = w1
  w2 = w2
  NItems = 3
  Skus <- TwoSkus
  sku <- ThreeItems
  quantity <- Ordered
  Linked = {1, 2, 3}
  Messages <- HalfShipped
  Workers = {w1}
  MaxFailures = 1
  MaxCrashes = 0
INVARIANTS
  NeverOverFulfilled
CHECK_DEADLOCK FALSE
