------------------------------- MODULE OrderSync -------------------------------
(***************************************************************************)
(* The order sync for one shop order that Shopify has split into several   *)
(* fulfillment orders: ShopifyService.getOrders pages through the          *)
(* fulfillment orders that are requested from us, maps those the           *)
(* middleware does not hold yet to orders of their own (100, 100-1, 100-2, *)
(* ...) and upserts them by that customerOrderId. Fulfillment orders of an *)
(* order that is not paid are rejected instead, by the listener of         *)
(* shopify.reject_fulfillment_request.                                     *)
(*                                                                         *)
(* Orders of the middleware are named by their suffix, 0 for none.         *)
(***************************************************************************)
EXTENDS OrderAmounts, FiniteSets, FiniteSetsExt, Sums

CONSTANTS
  N,           \* fulfillment orders of the shop order, in Shopify's order
  qty,         \* totalQuantity of each
  PageLimit,   \* shopOrdersPageLimit
  Syncs,       \* consumers of the order topic
  StartsPaid,  \* is the order paid before its fulfillment is requested?
  NoSku,       \* fulfillment orders none of whose items has a SKU at first
  MaxFailures  \* bound: syncs that fail, or whose process dies, half way

FulfillmentOrders == 1..N
Start == 0                       \* a sync without a nextPage cursor
\* A cursor is the last of a full page that has another behind it.
Cursors == {Start} \union PageLimit..(N - 1)

ASSUME OrderSyncAssumption ==
  /\ N \in Nat \ {0}
  /\ qty \in [FulfillmentOrders -> Nat \ {0}]
  /\ PageLimit \in Nat \ {0}
  /\ StartsPaid \in BOOLEAN
  /\ NoSku \subseteq FulfillmentOrders
  /\ MaxFailures \in Nat
  /\ Quantity = Sum(qty, FulfillmentOrders)

VARIABLES
  submitted,  \* fulfillment orders with requestStatus SUBMITTED
  closed,     \* those the listener has cancelled
  paid,       \* is displayFinancialStatus PAID or PARTIALLY_REFUNDED?
  mappable,   \* those with an item that has a SKU and a quantity
  orders,     \* the middleware's orders of this shop order
  triggers,   \* cursors of the sync messages in the topic
  rejecting,  \* fulfillment orders of each event the listener has yet to cancel
  pc, cursor, \* the next call of each sync, and its message
  page,       \* fulfillment orders it has fetched
  known,      \* suffixes of the orders it found in the middleware
  fresh,      \* fetched fulfillment orders without an order
  dtos,       \* the orders it is about to upsert, by suffix
  failures    \* failures left

shop == <<submitted, closed, paid, mappable>>
local == <<cursor, page, known, fresh, dtos>>
vars == <<shop, orders, triggers, rejecting, pc, local, failures>>

QuantityOf(S) == Sum(qty, S)
Holding == {orders[s].fo : s \in DOMAIN orders}

Init ==
  /\ submitted = {}
  /\ closed = {}
  /\ paid = StartsPaid
  /\ mappable = FulfillmentOrders \ NoSku
  /\ orders = <<>>
  /\ triggers = {}
  /\ rejecting = {}
  /\ pc = [w \in Syncs |-> "idle"]
  /\ cursor = [w \in Syncs |-> Start]
  /\ page = [w \in Syncs |-> {}]
  /\ known = [w \in Syncs |-> {}]
  /\ fresh = [w \in Syncs |-> {}]
  /\ dtos = [w \in Syncs |-> <<>>]
  /\ failures = MaxFailures

Goto(w, step) == pc' = [pc EXCEPT ![w] = step]

----------------------------------------------------------------------------
(* The shop: the merchant requests fulfillment, takes the payment, gives   *)
(* the products a SKU, and the warehouse accepts what the middleware holds. *)

requestFulfillment(f) ==
  /\ f \notin submitted \union closed
  /\ f \notin Holding
  /\ submitted' = submitted \union {f}
  /\ UNCHANGED <<closed, paid, mappable, orders, triggers, rejecting, pc, local, failures>>

pay ==
  /\ ~paid
  /\ paid' = TRUE
  /\ UNCHANGED <<submitted, closed, mappable, orders, triggers, rejecting, pc, local, failures>>

setSku(f) ==
  /\ f \notin mappable
  /\ mappable' = mappable \union {f}
  /\ UNCHANGED <<submitted, closed, paid, orders, triggers, rejecting, pc, local, failures>>

accept(f) ==
  /\ f \in submitted \intersect Holding
  /\ submitted' = submitted \ {f}
  /\ UNCHANGED <<closed, paid, mappable, orders, triggers, rejecting, pc, local, failures>>

\* The scheduler publishes a sync message.
schedule ==
  /\ Start \notin triggers
  /\ triggers' = triggers \union {Start}
  /\ UNCHANGED <<shop, orders, rejecting, pc, local, failures>>

----------------------------------------------------------------------------
(* getOrders                                                               *)

FirstOf(S, n) == {f \in S : Cardinality({g \in S : g < f}) < n}
\* Variant: the cursor is not passed on, every page is the first.
FirstPage(c) == FirstOf(submitted, PageLimit)
PageAfter(c) == FirstOf({f \in submitted : f > c}, PageLimit)

\* getFulfillmentOrders: when there is a next page its message is published
\* before anything of this page is written.
getFulfillmentOrders(w, c) ==
  /\ pc[w] = "idle"
  /\ c \in triggers
  /\ LET Fetched == PageAfter(c)
         HasNextPage == \E f \in submitted : f > c /\ f \notin Fetched IN
       /\ triggers' = (triggers \ {c}) \union (IF HasNextPage THEN {Max(Fetched)} ELSE {})
       /\ IF Fetched = {} THEN UNCHANGED <<pc, cursor, page>>
          ELSE /\ Goto(w, IF paid THEN "filterExistingIds" ELSE "filterUnpaid")
               /\ cursor' = [cursor EXCEPT ![w] = c]
               /\ page' = [page EXCEPT ![w] = Fetched]
  /\ UNCHANGED <<shop, orders, rejecting, known, fresh, dtos, failures>>

Return(w) ==
  /\ Goto(w, "idle")
  /\ cursor' = [cursor EXCEPT ![w] = Start]
  /\ page' = [page EXCEPT ![w] = {}]
  /\ known' = [known EXCEPT ![w] = {}]
  /\ fresh' = [fresh EXCEPT ![w] = {}]
  /\ dtos' = [dtos EXCEPT ![w] = <<>>]

\* Variant: an order with some new fulfillment orders keeps all of them.
filterSingleExisting(w) ==
  /\ pc[w] = "filterExistingIds"
  /\ known' = [known EXCEPT ![w] = DOMAIN orders]
  /\ fresh' = [fresh EXCEPT ![w] = IF page[w] \subseteq Holding THEN {} ELSE page[w]]
  /\ Goto(w, "calculateOrdersComplete")
  /\ UNCHANGED <<shop, orders, triggers, rejecting, cursor, page, dtos, failures>>

\* The orders with the number of the shop order.
existingCustomerOrderIds == DOMAIN orders

\* getShopifyOrdersByCustomerOrderIds, the order being paid when it was fetched.
filterExistingIds(w) ==
  /\ pc[w] = "filterExistingIds"
  /\ IF page[w] \subseteq Holding THEN Return(w)
     ELSE /\ known' = [known EXCEPT ![w] = existingCustomerOrderIds]
          /\ fresh' = [fresh EXCEPT ![w] = page[w] \ Holding]
          /\ Goto(w, "calculateOrdersComplete")
          /\ UNCHANGED <<cursor, page, dtos>>
  /\ UNCHANGED <<shop, orders, triggers, rejecting, failures>>

\* Unpaid: if any of them is new, all that were fetched are to be rejected.
rejectUnpaid(w) ==
  /\ pc[w] = "filterUnpaid"
  /\ rejecting' = IF page[w] \subseteq Holding THEN rejecting
                  ELSE rejecting \union {page[w]}
  /\ Return(w)
  /\ UNCHANGED <<shop, orders, triggers, failures>>

\* Of two fulfillment orders in one page only the first is compared with the
\* order's quantity, the others count as partial.
Partial(New) == {f \in New : f # Min(New) \/ qty[f] # Quantity}

\* Variant: the fulfillment orders before it in the page are not counted.
CompletesAlone(held, New) == {f \in Partial(New) : Quantity = held + qty[f]}

\* The one that brings what the middleware holds to the order's quantity.
Completes(held, New) ==
  {f \in Partial(New) : Quantity = held + qty[f] + QuantityOf({g \in Partial(New) : g < f})}

\* Variant: the suffix counts from the first of the page.
SuffixInPage(f, existing, New) == Cardinality({g \in New : g < f})

\* fulfillmentCountByExistingCustomerIds starts with the orders that exist and is
\* counted up for every fulfillment order mapped, also when its order is left out.
Suffix(f, existing, New) == existing + Cardinality({g \in New : g < f})

\* Variant: the first of the page bears the shipping.
FirstInPage(f, existing, New) == f = Min(New)

\* isFirstFulfillmentOrder: nothing is counted for the shop order yet.
IsFirst(f, existing, New) == existing = 0 /\ f = Min(New)

fulfillmentCountByExistingCustomerIds(w) == Cardinality(known[w])

\* OrderItemMapper leaves out an item without SKU or quantity, OrderMapper an order
\* without an item.
WithItems(New) == New \intersect mappable

NewOrders(w, held) ==
  LET existing == fulfillmentCountByExistingCustomerIds(w)
      New == fresh[w]
      Mapped == WithItems(New)
      SuffixOf(f) == Suffix(f, existing, New) IN
    [s \in {SuffixOf(f) : f \in Mapped} |->
      LET f == CHOOSE g \in Mapped : SuffixOf(g) = s
          amounts == Amounts(qty[f], IsFirst(f, existing, New), f \in Partial(New)) IN
        [fo |-> f, complete |-> f \in Completes(held, New),
         total |-> amounts.total, tax |-> amounts.tax, shipping |-> amounts.shipping]]

demoShopifyQuantity(w) == QuantityOf({orders[s].fo : s \in known[w]})

\* calculateOrdersComplete reads what the known orders hold by now; nothing else
\* is read before the orders are mapped.
calculateOrdersComplete(w) ==
  /\ pc[w] = "calculateOrdersComplete"
  /\ dtos' = [dtos EXCEPT ![w] = NewOrders(w, demoShopifyQuantity(w))]
  /\ Goto(w, "sendOrdersToMiddleware")
  /\ UNCHANGED <<shop, orders, triggers, rejecting, cursor, page, known, fresh, failures>>

\* updateOrCreateOrders: an upsert by customerOrderId.
Upserted(new) ==
  [s \in DOMAIN new \union DOMAIN orders |-> IF s \in DOMAIN new THEN new[s] ELSE orders[s]]

sendOrdersToMiddleware(w) ==
  /\ pc[w] = "sendOrdersToMiddleware"
  /\ orders' = Upserted(dtos[w])
  /\ Return(w)
  /\ UNCHANGED <<shop, triggers, rejecting, failures>>

\* A call rejects, or the process dies: the message comes back, as a retry or a
\* redelivery.
fails(w) ==
  /\ pc[w] # "idle"
  /\ failures > 0
  /\ failures' = failures - 1
  /\ triggers' = triggers \union {cursor[w]}
  /\ Return(w)
  /\ UNCHANGED <<shop, orders, rejecting>>

----------------------------------------------------------------------------
(* The listener takes the fulfillment orders of an event one by one. The   *)
(* first cancellation Shopify refuses, or whose call fails, ends the event. *)

cancelFulfillmentOrder(event) ==
  /\ event \in rejecting
  /\ LET f == Min(event) IN
       \/ /\ f \in submitted
          /\ submitted' = submitted \ {f}
          /\ closed' = closed \union {f}
          /\ rejecting' = (rejecting \ {event}) \union ({event \ {f}} \ {{}})
          /\ UNCHANGED failures
       \/ /\ f \notin submitted
          /\ rejecting' = rejecting \ {event}
          /\ UNCHANGED <<submitted, closed, failures>>
       \/ /\ failures > 0
          /\ failures' = failures - 1
          /\ rejecting' = rejecting \ {event}
          /\ UNCHANGED <<submitted, closed>>
  /\ UNCHANGED <<paid, mappable, orders, triggers, pc, local>>

getOrders(w) ==
  \/ filterExistingIds(w)
  \/ rejectUnpaid(w)
  \/ calculateOrdersComplete(w)
  \/ sendOrdersToMiddleware(w)

Next ==
  \/ \E f \in FulfillmentOrders : requestFulfillment(f)
  \/ pay
  \/ \E f \in FulfillmentOrders : setSku(f)
  \/ \E f \in FulfillmentOrders : accept(f)
  \/ schedule
  \/ \E w \in Syncs, c \in Cursors : getFulfillmentOrders(w, c)
  \/ \E w \in Syncs : getOrders(w)
  \/ \E w \in Syncs : fails(w)
  \/ \E event \in SUBSET FulfillmentOrders : cancelFulfillmentOrder(event)

Spec == Init /\ [][Next]_vars

\* The scheduler keeps publishing, Kafka delivers every message of the topic in
\* turn, and a sync that is not interrupted goes on.
Fairness ==
  /\ WF_vars(schedule)
  /\ \A c \in Cursors : SF_vars(\E w \in Syncs : getFulfillmentOrders(w, c))
  /\ \A w \in Syncs : WF_vars(getOrders(w))
FairSpec == Spec /\ Fairness

----------------------------------------------------------------------------
TypeOK ==
  /\ submitted \subseteq FulfillmentOrders
  /\ closed \subseteq FulfillmentOrders
  /\ paid \in BOOLEAN
  /\ mappable \subseteq FulfillmentOrders
  /\ DOMAIN orders \subseteq 0..(N - 1)
  /\ \A s \in DOMAIN orders : orders[s] \in [fo : FulfillmentOrders, complete : BOOLEAN,
                                     total : Int, tax : Int, shipping : Int]
  /\ triggers \subseteq Cursors
  /\ rejecting \subseteq SUBSET FulfillmentOrders
  /\ pc \in [Syncs -> {"idle", "filterExistingIds", "filterUnpaid",
                       "calculateOrdersComplete", "sendOrdersToMiddleware"}]
  /\ cursor \in [Syncs -> Cursors]
  /\ page \in [Syncs -> SUBSET FulfillmentOrders]
  /\ known \in [Syncs -> SUBSET (0..(N - 1))]
  /\ fresh \in [Syncs -> SUBSET FulfillmentOrders]
  /\ failures \in Nat

\* A fulfillment order is never packed twice: it has one order in the middleware,
\* however often and on whichever page it is fetched.
SyncedOnce ==
  \A s, t \in DOMAIN orders : orders[s].fo = orders[t].fo => s = t

\* "Should Accept multiple fulfillment requests for a single shopify order"
\* (shopify.service.spec.ts:296): a customerOrderId that was given to one
\* fulfillment order is never given to another, whose upsert would replace it.
KeepsItsOrder ==
  [][\A s \in DOMAIN orders : s \in DOMAIN orders' /\ orders'[s].fo = orders[s].fo]_vars

\* metaInfo.fulfillment_orders_complete, the flag the warehouse may start on: no
\* order has it before the middleware holds the whole shop order, and when it
\* does and the shop order was split, exactly one has it.
Flagged == {s \in DOMAIN orders : orders[s].complete}
CompleteFlag ==
  /\ Flagged # {} => Holding = FulfillmentOrders
  /\ Holding = FulfillmentOrders /\ N > 1 => Cardinality(Flagged) = 1

\* What the customer has paid is booked once: the orders of a split shop order never
\* add up to more than its price, taxes and shipping, however they are spread over
\* pages and syncs, and to all of it when the middleware holds the whole order
\* (order.mapper.ts:217). Only the first of several discounts and taxes counts.
Booked(amount) == Sum([s \in DOMAIN orders |-> orders[s][amount]], DOMAIN orders)
BookedOnce ==
  LET price == pricePaid(Quantity) + shippingCost IN
    /\ Booked("total") =< price
    /\ Booked("tax") =< taxAmount(Quantity)
    /\ Booked("shipping") =< shippingCost
    /\ Holding = FulfillmentOrders =>
         /\ Booked("total") = price
         /\ Booked("tax") = taxAmount(Quantity)
         /\ Booked("shipping") = shippingCost

\* What is requested and paid for gets its order, or is rejected because it was
\* not paid when it was fetched.
EveryRequestSynced ==
  \A f \in FulfillmentOrders :
    f \in submitted /\ paid /\ f \in mappable ~> f \in Holding \union closed
================================================================================
