SPECIFICATION FairSpec
CONSTANTS
  w1 = w1
  w2 = w2
  N = 3
  qty <- Pieces
  PageLimit = 2
  Syncs = {w1}
  StartsPaid = FALSE
  NoSku = {3}
  Quantity = 4
  originalUnitPrice = 10
  taxLines <- OneTax
  discountAllocations <- TwoDiscounts
  shippingLines <- OneShippingLine
  MaxFailures = 1
INVARIANTS
  BookedOnce
  SyncedOnce
  CompleteFlag
PROPERTIES
  KeepsItsOrder
  EveryRequestSynced
