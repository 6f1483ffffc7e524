------------------------------ MODULE MCInventory ------------------------------
(***************************************************************************)
(* The two directions of inventory, variants to the middleware             *)
(* (InventorySync) and quantities to the shop (StockLevels).  They share no *)
(* state, so a behaviour explores one of them and leaves the other out.    *)
(***************************************************************************)
EXTENDS InventorySync

CONSTANTS
  Components, Bundles, Recipe, MaxPhysical, MaxHeld, MaxManual, MaxUpdates, MaxPurchases

CONSTANTS c1, c2, b1, b2

VARIABLES part, physical, shop, synced, message, step, read, changed, sent, bought

\* For TLC: b1 holds three of c1, b2 holds two of c1 and one of c2.
TwoBundles == [b \in {b1, b2} |-> [c \in {c1, c2} |->
                IF b = b1 THEN (IF c = c1 THEN 3 ELSE 0) ELSE (IF c = c1 THEN 2 ELSE 1)]]
InStock == [c \in {c1, c2} |-> IF c = c1 THEN 7 ELSE 2]

Stock == INSTANCE StockLevels WITH MaxMessages <- MaxUpdates

ASSUME StockAssumption == Stock!ConstantsFit
ASSUME ItemsAreFinite == IsFiniteSet(Components) /\ IsFiniteSet(Bundles)

stockPart == <<physical, shop, synced, message, step, read, changed, sent, bought>>

InventoryInit ==
  \/ /\ part = "variants" /\ Init
     /\ physical = 0 /\ shop = 0 /\ synced = 0 /\ message = 0 /\ step = 0
     /\ read = 0 /\ changed = 0 /\ sent = 0 /\ bought = 0
  \/ /\ part = "quantities" /\ Stock!Init
     /\ now = 0 /\ updatedAt = 0 /\ withSku = 0 /\ saved = 0 /\ syncedAt = 0
     /\ pages = 0 /\ imports = 0 /\ faults = 0 /\ broken = 0

InventoryNext ==
  \/ part = "variants" /\ Next /\ UNCHANGED <<part, stockPart>>
  \/ part = "quantities" /\ Stock!Next /\ UNCHANGED <<part, vars>>

InventorySpec == InventoryInit /\ [][InventoryNext]_<<part, vars, stockPart>>

----------------------------------------------------------------------------
(* The properties of each module, where it is the one that runs.           *)

\* InventorySync: the cursor of the imports never passes a changed variant that no
\* page is on its way with (shopify.service.ts:285).
NoVariantSkipped == part = "variants" => NothingSkipped

\* StockLevels: the shop offers no more than there is, except for what was bought
\* while a quantity was computed (shopify.service.ts:466).
ShopNeverOversells == part = "quantities" => Stock!NeverOversells

\* StockLevels: a shop that has been told the last change offers what there is,
\* bundles included (shopify.service.ts:2633).
ShopOffersTheStock == part = "quantities" => Stock!OffersTheStock
================================================================================
