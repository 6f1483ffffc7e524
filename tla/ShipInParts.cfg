SPECIFICATION Spec
CONSTANTS
  w1 = w1
  w2 = w2
  NItems = 3
  Skus <- TwoSkus
  sku <- ThreeItems
  quantity <- Ordered
  Linked = {1, 2, 3}
  Messages <- InParts
  Workers = {w1, w2}
  MaxFailures = 1
  MaxCrashes = 1
INVARIANTS
  AllAgree
  RecordWithinOrder
CHECK_DEADLOCK FALSE
