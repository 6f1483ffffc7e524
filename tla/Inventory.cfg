SPECIFICATION InventorySpec
CONSTANTS
  MaxVariant = 2
  PageLimit = 1
  Overlap = 3
  MaxSweep = 1
  MaxTime = 5
  MaxMessages = 4
  MaxImports = 2
  MaxFaults = 1
  c1 = c1
  c2 = c2
  b1 = b1
  b2 = b2
  Components = {c1, c2}
  Bundles = {b1, b2}
  Recipe <- TwoBundles
  MaxPhysical <- InStock
  MaxHeld = 2
  MaxManual = 1
  MaxUpdates = 1
  MaxPurchases = 1
INVARIANTS
  NoVariantSkipped
  ShopNeverOversells
  ShopOffersTheStock
CHECK_DEADLOCK FALSE
