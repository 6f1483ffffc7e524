------------------------------- MODULE StockLevels -------------------------------
(***************************************************************************)
(* Inventory levels of the Shopify connector: how much of an item the shop *)
(* may offer, given what is physically there and what Shopify says is      *)
(* committed or unavailable, of the item and of every bundle that contains *)
(* it (calculateTotalSellableQuantity), and the handler that writes it     *)
(* (updateInventoryLevels): it reads Shopify's levels, computes, and sets  *)
(* the available quantity without comparing it with what it read.          *)
(***************************************************************************)
EXTENDS Integers, FiniteSets, FiniteSetsExt, Functions, Sums

CONSTANTS
  Components,   \* items that are stored
  Bundles,      \* items made of components
  Recipe,       \* Recipe[b][c]: how many of c are in one b
  MaxPhysical,  \* bound, by component: its stock to start with
  MaxHeld,      \* bound: what is committed and unavailable of all items to start with
  MaxManual,    \* bound: manualNotConfirmedOrdersQty
  MaxMessages,  \* bound: messages of the middleware
  MaxPurchases  \* bound: purchases of customers

Items == Components \union Bundles
ComponentsOf(b) == {c \in Components : Recipe[b][c] > 0}
BundlesOf(c)    == {b \in Bundles : Recipe[b][c] > 0}

\* What the constants must be; MCInventory assumes it of its instance.
ConstantsFit ==
  /\ Components \intersect Bundles = {}
  /\ Recipe \in [Bundles -> [Components -> Nat]]
  /\ \A b \in Bundles : ComponentsOf(b) # {}
  /\ MaxPhysical \in [Components -> Nat]
  /\ {MaxHeld, MaxManual, MaxMessages, MaxPurchases} \subseteq Nat

ALLOWED_EVENTS_SHOPIFY == {"inboundReceipt", "orderCancelled", "returnShipment"}
EventType == ALLOWED_EVENTS_SHOPIFY \union {"orderConfirmed"}   \* the last: any other

VARIABLES
  physical,  \* stock of each component in the warehouse
  shop,      \* Shopify's levels: available, committed, unavailable
  synced,    \* items whose Shopify ids are known
  message,   \* the message being handled
  step,      \* "idle", "reading" or "writing"
  read,      \* what the handler has read and computed
  changed,   \* ghost: stock or levels changed since the message or the read
  sent,      \* messages so far
  bought     \* purchases so far

vars == <<physical, shop, synced, message, step, read, changed, sent, bought>>
stockVars == <<physical, synced>>

Level == [available : Int, committed : Nat, unavailable : Nat]
Message == [item : Items, physical : Nat, sellable : Nat, manual : 0..MaxManual,
            event : EventType]
NoMessage == [event |-> "none"]
Held == {h \in [Items -> (0..MaxHeld) \X (0..MaxHeld)] :
           Sum([i \in Items |-> h[i][1] + h[i][2]], Items) =< MaxHeld}
NothingRead == [available |-> 0, sellable |-> 0]

\* Before its first update an item has whatever quantity a merchant typed in.
Init ==
  /\ physical \in {p \in [Components -> 0..Max(Range(MaxPhysical))] :
                     \A c \in Components : p[c] =< MaxPhysical[c]}
  /\ \E typed \in {0, MaxHeld} : \E held \in Held :
       shop = [i \in Items |-> [available |-> typed, committed |-> held[i][1],
                               unavailable |-> held[i][2]]]
  /\ synced = {}
  /\ message = NoMessage
  /\ step = "idle"
  /\ read = NothingRead
  /\ changed = FALSE
  /\ sent = 0 /\ bought = 0

----------------------------------------------------------------------------
(* calculateTotalSellableQuantity.                                         *)

NoLevel == [available |-> 0, committed |-> 0, unavailable |-> 0]

\* Shopify's answers for many items, by item: none for an item it does not know.
getManyInventoryItemsInventoryLevels(ids) == [i \in ids |-> shop[i]]

\* getQuantitiesForShopifyInventoryItemsIds asks for items with known ids only.
Seen(i) == LET levels == getManyInventoryItemsInventoryLevels(synced) IN
             IF i \in DOMAIN levels THEN levels[i] ELSE NoLevel

\* Variant: bundles count once, however many of the component they hold.
InOneOfEach(c, state) ==
  Seen(c)[state] + Sum([b \in BundlesOf(c) |-> Seen(b)[state]], BundlesOf(c))

\* The component's own quantity and what its bundles hold of it.
InBundles(c, state) ==
  Seen(c)[state] + Sum([b \in BundlesOf(c) |-> Seen(b)[state] * Recipe[b][c]], BundlesOf(c))

Committed(c)   == InBundles(c, "committed")
Unavailable(c) == InBundles(c, "unavailable")

RegularQuantity(c, physicalQuantity, manual) ==
  physicalQuantity - Committed(c) - Unavailable(c) - manual

\* Variant: Math.floor where the code has Math.ceil.
RoundedDown(n, q) == n \div q

CeilDiv(n, q) == (n + q - 1) \div q

BundleQuantityFor(b, c, manual) ==
  LET q == Recipe[b][c] IN
    physical[c] \div q - CeilDiv(Committed(c), q) - CeilDiv(Unavailable(c), q) - manual

calculateTotalSellableQuantityForBundle(b, manual) ==
  Min({BundleQuantityFor(b, c, manual) : c \in ComponentsOf(b)})

\* The physical quantity of a regular item is the message's, that of a bundle's
\* components is read now.
calculateTotalSellableQuantity(m) ==
  IF m.item \in Bundles THEN calculateTotalSellableQuantityForBundle(m.item, m.manual)
  ELSE RegularQuantity(m.item, m.physical, m.manual)

----------------------------------------------------------------------------
(* The handler.                                                            *)

\* Shopify's answer for one item.
getInventoryLevels(i) == shop[i]

\* updateInventoryLevels up to the reads of sendUpdatedInventoryLevelsToShop.
ReadLevels ==
  /\ step = "reading"
  /\ message.item \in synced
  /\ LET level == getInventoryLevels(message.item) IN
       read' = [available |-> level.available,
                sellable |-> IF message.event = "inboundReceipt"
                             THEN message.sellable + level.available
                             ELSE calculateTotalSellableQuantity(message)]
  /\ step' = "writing"
  /\ UNCHANGED <<stockVars, shop, message, changed, sent, bought>>

\* No Shopify ids: logged, and the message is done.
NotInShop ==
  /\ step = "reading"
  /\ message.item \notin synced
  /\ step' = "idle" /\ message' = NoMessage
  /\ UNCHANGED <<stockVars, shop, read, changed, sent, bought>>

\* Variant: every event may only lower the quantity.
OnlyLower == read.available > read.sellable

MustUpdate == message.event \in ALLOWED_EVENTS_SHOPIFY \/ read.available > read.sellable

\* ignoreCompareQuantity: whatever the shop has by now is replaced.
inventorySetQuantities(i, quantity) == shop' = [shop EXCEPT ![i].available = quantity]

updateInventoryLevel ==
  /\ step = "writing"
  /\ IF MustUpdate THEN inventorySetQuantities(message.item, read.sellable)
     ELSE UNCHANGED shop
  /\ step' = "idle"
  /\ UNCHANGED <<stockVars, message, read, changed, sent, bought>>

----------------------------------------------------------------------------
(* Around the handler.                                                     *)

\* The middleware publishes a message with the levels of the moment; a receipt
\* carries the quantity received.
Notify(i, event, manual) ==
  /\ step = "idle" /\ sent < MaxMessages
  /\ event # "inboundReceipt"
  /\ message' = [item |-> i, sellable |-> 0, manual |-> manual, event |-> event,
                 physical |-> IF i \in Components THEN physical[i] ELSE 0]
  /\ step' = "reading"
  /\ changed' = FALSE
  /\ sent' = sent + 1
  /\ UNCHANGED <<stockVars, shop, read, bought>>

Receive(c) ==
  /\ step = "idle" /\ sent < MaxMessages
  /\ physical' = [physical EXCEPT ![c] = @ + 1]
  /\ message' = [item |-> c, sellable |-> 1, manual |-> 0, event |-> "inboundReceipt",
                 physical |-> physical[c] + 1]
  /\ step' = "reading"
  /\ changed' = FALSE
  /\ sent' = sent + 1
  /\ UNCHANGED <<synced, shop, read, bought>>

\* A customer buys one.
Purchase(i) ==
  /\ bought < MaxPurchases
  /\ shop[i].available > 0
  /\ shop' = [shop EXCEPT ![i].available = @ - 1, ![i].committed = @ + 1]
  /\ changed' = TRUE
  /\ bought' = bought + 1
  /\ UNCHANGED <<stockVars, message, step, read, sent>>

\* syncInventoryItemGid records the ids.
SyncGids ==
  /\ synced = {} /\ step = "idle"
  /\ synced' = Items
  /\ UNCHANGED <<physical, shop, message, step, read, changed, sent, bought>>

Next ==
  \/ ReadLevels \/ NotInShop \/ updateInventoryLevel
  \/ \E i \in Items, e \in EventType, n \in 0..MaxManual : Notify(i, e, n)
  \/ \E c \in Components : Receive(c)
  \/ \E i \in Items : Purchase(i)
  \/ SyncGids

Spec == Init /\ [][Next]_vars

----------------------------------------------------------------------------
(* Properties.                                                             *)

HoldsOf(i, c) == IF i \in Bundles THEN Recipe[i][c] ELSE IF i = c THEN 1 ELSE 0

\* What is there of c covers what Shopify has committed or put aside of all items,
\* and n + manual pieces of item i besides.
Covers(c, i, n, manual) ==
  Sum([j \in Items |-> HoldsOf(j, c) * (shop[j].committed + shop[j].unavailable)], Items)
    + HoldsOf(i, c) * (n + manual) =< physical[c]
MadeOf(i) == IF i \in Bundles THEN ComponentsOf(i) ELSE {i}

\* The handler has just finished, and nothing happened while it ran.
Settled == step = "idle" /\ message # NoMessage /\ ~changed

\* After an update that counts the stock (every event but a receipt) the shop does
\* not offer more of the item than its components cover: rounding per component
\* (shopify.service.ts:2344, :2633, :2692) errs on the safe side, and an item that
\* is left alone already offered no more. A purchase between the read and the
\* write voids this, as the write does not compare.
NeverOversells ==
  Settled /\ message.event # "inboundReceipt" =>
    \A c \in MadeOf(message.item) :
      Covers(c, message.item, shop[message.item].available, message.manual)

\* ... and it does not hide stock either: three roundings keep back at most two
\* bundles, and none of a regular item.
OffersTheStock ==
  Settled /\ message.event \in ALLOWED_EVENTS_SHOPIFY \ {"inboundReceipt"} =>
    LET more == IF message.item \in Bundles THEN 3 ELSE 1 IN
      \E c \in MadeOf(message.item) :
        ~Covers(c, message.item, shop[message.item].available + more, message.manual)
==================================================================================
