SPECIFICATION Spec
CONSTANTS
  w1 = w1
  w2 = w2
  N = 3
  qty <- Pieces
  PageLimit = 2
  Syncs = {w1, w2}
  StartsPaid = TRUE
  NoSku = {}
  Quantity = 4
  originalUnitPrice = 10
  taxLines <- OneTax
  discountAllocations <- TwoDiscounts
  shippingLines <- OneShippingLine
  MaxFailures = 0
PROPERTIES
  KeepsItsOrder
