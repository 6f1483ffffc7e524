---------------------------- MODULE OrderSyncProofs ----------------------------
(***************************************************************************)
(* With one consumer of the order topic, the sync packs every fulfillment  *)
(* order once, gives it a customerOrderId of its own, flags the order that *)
(* completes the shop order and books what was paid once.                  *)
(*                                                                         *)
(* OnceInv: what a sync has read of the middleware still holds when it     *)
(* writes. CountInv: the suffixes given so far are the first ones, and no  *)
(* fulfillment order but the last is left out of what is sent. MappedInv:  *)
(* an order bears its own share, and the shipping exactly if it has suffix *)
(* 0; what is about to be sent is flagged if it completes the shop order.  *)
(* HandInv: what a sync has in hand is behind the cursor of its message.   *)
(***************************************************************************)
EXTENDS OrderSync, CommonTheorems

(***************************************************************************)
(* One consumer syncs the orders.                                          *)
(***************************************************************************)
OneSync == \A v, w \in Syncs : v = w

SyncTypes ==
  /\ submitted \subseteq FulfillmentOrders
  /\ pc \in [Syncs -> {"idle", "filterExistingIds", "filterUnpaid",
                       "calculateOrdersComplete", "sendOrdersToMiddleware"}]
  /\ page \in [Syncs -> SUBSET FulfillmentOrders]
  /\ fresh \in [Syncs -> SUBSET FulfillmentOrders]
  /\ DOMAIN known = Syncs /\ DOMAIN dtos = Syncs
  /\ \A s \in DOMAIN orders : orders[s].fo \in FulfillmentOrders

\* What a sync has read of the middleware is still so when it writes.
Busy(w) == pc[w] \in {"calculateOrdersComplete", "sendOrdersToMiddleware"}
Fetched(w) ==
  Busy(w) =>
    /\ known[w] = DOMAIN orders
    /\ fresh[w] # {} /\ fresh[w] \intersect Holding = {}

\* The orders it has made, named by the place of their fulfillment order.
SuffixOf(w, f) == Suffix(f, Cardinality(known[w]), fresh[w])
Built(w) ==
  pc[w] = "sendOrdersToMiddleware" =>
    \A s \in DOMAIN dtos[w] : dtos[w][s].fo \in fresh[w] /\ SuffixOf(w, dtos[w][s].fo) = s

OnceInv == SyncTypes /\ SyncedOnce /\ \A w \in Syncs : Fetched(w) /\ Built(w)

LEMMA OneIsOne == 1 \in FulfillmentOrders
<1>1. N \in Nat /\ N >= 1
  BY OrderSyncAssumption
<1>2. 1 \in 1..N
  BY <1>1
<1> QED BY <1>2 DEF FulfillmentOrders

LEMMA OnceInit == Init => OnceInv
BY DEF Init, OnceInv, SyncTypes, SyncedOnce, Fetched, Built, Busy

\* What NewOrders gives for a fulfillment order that has items.
Order(w, held, f, order) ==
  LET first == IsFirst(f, Cardinality(known[w]), fresh[w])
      amounts == Amounts(qty[f], first, f \in Partial(fresh[w]))
  IN /\ order.fo = f /\ order.complete = (f \in Completes(held, fresh[w]))
     /\ order.total = amounts.total /\ order.tax = amounts.tax /\ order.shipping = amounts.shipping

LEMMA Made ==
  ASSUME NEW w, NEW held, NEW s \in DOMAIN NewOrders(w, held)
  PROVE  \E f \in WithItems(fresh[w]) :
           SuffixOf(w, f) = s /\ Order(w, held, f, NewOrders(w, held)[s])
<1> DEFINE existing == Cardinality(known[w])
           New == fresh[w]
           f == CHOOSE g \in WithItems(New) : Suffix(g, existing, New) = s
<1>1. \E g \in WithItems(New) : Suffix(g, existing, New) = s
  BY DEF NewOrders, fulfillmentCountByExistingCustomerIds
<1>2. f \in WithItems(New) /\ Suffix(f, existing, New) = s
  BY <1>1
<1> DEFINE amounts == Amounts(qty[f], IsFirst(f, existing, New), f \in Partial(New))
<1>3. NewOrders(w, held)[s] =
        [fo |-> f, complete |-> f \in Completes(held, New),
         total |-> amounts.total, tax |-> amounts.tax, shipping |-> amounts.shipping]
  BY DEF NewOrders, fulfillmentCountByExistingCustomerIds
<1> HIDE DEF f
<1>4. Order(w, held, f, NewOrders(w, held)[s])
  BY <1>3 DEF Order
<1> QED BY <1>2, <1>4 DEF SuffixOf

LEMMA OnceStep ==
  ASSUME OneSync, OnceInv, [Next]_vars
  PROVE  OnceInv'
<1> USE DEF OnceInv
<1>0. ASSUME UNCHANGED <<orders, pc, local>>, submitted' \subseteq FulfillmentOrders PROVE OnceInv'
  BY <1>0 DEF SyncTypes, SyncedOnce, Fetched, Built, Busy, Holding, SuffixOf, local
<1>1. ASSUME NEW f \in FulfillmentOrders,
             requestFulfillment(f) \/ setSku(f) \/ accept(f) \/ pay \/ schedule
      PROVE  OnceInv'
  BY <1>0, <1>1 DEF requestFulfillment, setSku, accept, pay, schedule, shop, SyncTypes
<1>2. ASSUME NEW event \in SUBSET FulfillmentOrders, cancelFulfillmentOrder(event) PROVE OnceInv'
  BY <1>0, <1>2 DEF cancelFulfillmentOrder, SyncTypes
<1>3. ASSUME NEW w \in Syncs, NEW c \in Cursors, getFulfillmentOrders(w, c) PROVE OnceInv'
  <2>1. UNCHANGED <<submitted, orders, known, fresh, dtos>> /\ PageAfter(c) \subseteq submitted
    BY <1>3 DEF getFulfillmentOrders, shop, PageAfter, FirstOf
  <2>2. /\ pc' \in [Syncs -> {"idle", "filterExistingIds", "filterUnpaid",
                              "calculateOrdersComplete", "sendOrdersToMiddleware"}]
        /\ page' \in [Syncs -> SUBSET FulfillmentOrders]
        /\ \A v \in Syncs : pc'[v] = pc[v] \/ pc'[v] \in {"filterExistingIds", "filterUnpaid"}
    BY <1>3, <2>1 DEF getFulfillmentOrders, Goto, SyncTypes
  <2> QED BY <2>1, <2>2 DEF SyncTypes, SyncedOnce, Fetched, Built, Busy, Holding, SuffixOf
<1>4. ASSUME NEW w \in Syncs, Return(w), UNCHANGED orders, submitted' = submitted PROVE OnceInv'
  BY <1>4 DEF Return, Goto, SyncTypes, SyncedOnce, Fetched, Built, Busy, Holding, SuffixOf
<1>5. ASSUME NEW w \in Syncs, filterExistingIds(w) PROVE OnceInv'
  <2>1. CASE page[w] \subseteq Holding
    BY <1>4, <1>5, <2>1 DEF filterExistingIds, shop
  <2>2. CASE ~(page[w] \subseteq Holding)
    <3>1. /\ known' = [known EXCEPT ![w] = DOMAIN orders]
          /\ fresh' = [fresh EXCEPT ![w] = page[w] \ Holding]
          /\ pc' = [pc EXCEPT ![w] = "calculateOrdersComplete"]
          /\ UNCHANGED <<submitted, orders, page, dtos>>
      BY <1>5, <2>2 DEF filterExistingIds, shop, Goto, existingCustomerOrderIds
    <3> QED
      BY <2>2, <3>1 DEF OneSync, SyncTypes, SyncedOnce, Fetched, Built, Busy, Holding, SuffixOf
  <2> QED BY <2>1, <2>2
<1>6. ASSUME NEW w \in Syncs, rejectUnpaid(w) PROVE OnceInv'
  BY <1>4, <1>6 DEF rejectUnpaid, shop
<1>7. ASSUME NEW w \in Syncs, calculateOrdersComplete(w) PROVE OnceInv'
  <2> DEFINE new == NewOrders(w, demoShopifyQuantity(w))
  <2>1. /\ pc[w] = "calculateOrdersComplete" /\ dtos' = [dtos EXCEPT ![w] = new]
        /\ pc' = [pc EXCEPT ![w] = "sendOrdersToMiddleware"]
        /\ UNCHANGED <<submitted, orders, page, known, fresh>>
    BY <1>7 DEF calculateOrdersComplete, Goto, shop
  <2>2. \A s \in DOMAIN new : new[s].fo \in fresh[w] /\ SuffixOf(w, new[s].fo) = s
    BY Made DEF Order, WithItems
  <2> HIDE DEF new
  <2>3. SyncTypes' /\ SyncedOnce'
    BY <2>1 DEF SyncTypes, SyncedOnce
  <2>4. \A v \in Syncs : Fetched(v)'
    BY <2>1 DEF OneSync, SyncTypes, Fetched, Busy, Holding
  <2>5. \A v \in Syncs : Built(v)'
    BY <2>1, <2>2 DEF OneSync, SyncTypes, Built, SuffixOf
  <2> QED BY <2>3, <2>4, <2>5
<1>8. ASSUME NEW w \in Syncs, sendOrdersToMiddleware(w) PROVE OnceInv'
  <2>1. /\ pc[w] = "sendOrdersToMiddleware" /\ orders' = Upserted(dtos[w]) /\ Return(w)
        /\ submitted' = submitted
    BY <1>8 DEF sendOrdersToMiddleware, shop
  <2>2. \A s \in DOMAIN orders' :
          \/ s \in DOMAIN dtos[w] /\ orders'[s] = dtos[w][s]
          \/ s \in DOMAIN orders /\ orders'[s] = orders[s]
    BY <2>1 DEF Upserted
  <2>3. /\ \A s \in DOMAIN dtos[w] : dtos[w][s].fo \in fresh[w] /\ SuffixOf(w, dtos[w][s].fo) = s
        /\ \A s \in DOMAIN orders : orders[s].fo \in Holding /\ orders[s].fo \in FulfillmentOrders
        /\ fresh[w] \intersect Holding = {} /\ fresh[w] \subseteq FulfillmentOrders
    BY <2>1 DEF Fetched, Built, Busy, Holding, SyncTypes
  <2>4. SyncedOnce'
    <3> SUFFICES ASSUME NEW s \in DOMAIN orders', NEW t \in DOMAIN orders',
                        orders'[s].fo = orders'[t].fo
                 PROVE  s = t
      BY DEF SyncedOnce
    <3> QED BY <2>2, <2>3 DEF SyncedOnce
  <2>5. SyncTypes'
    BY <2>1, <2>2, <2>3 DEF SyncTypes, Return, Goto
  <2>6. \A v \in Syncs : pc'[v] = "idle"
    BY <2>1 DEF Return, Goto, OneSync, SyncTypes
  <2> QED BY <2>4, <2>5, <2>6 DEF Fetched, Built, Busy
<1>9. ASSUME NEW w \in Syncs, fails(w) PROVE OnceInv'
  BY <1>4, <1>9 DEF fails, shop
<1>10. CASE UNCHANGED vars
  BY <1>0, <1>10 DEF vars, shop, SyncTypes
<1>11. FulfillmentOrders # {}
  BY OneIsOne
<1> QED BY <1>1, <1>2, <1>3, <1>5, <1>6, <1>7, <1>8, <1>9, <1>10, <1>11 DEF Next, getOrders

\* With one consumer a fulfillment order has one order in the middleware, for any number of
\* fulfillment orders, any paging and any number of failures.
THEOREM Once == OneSync => (Spec => []SyncedOnce)
<1> SUFFICES ASSUME OneSync PROVE Spec => []SyncedOnce
  OBVIOUS
<1>1. OnceInv => SyncedOnce
  BY DEF OnceInv
<1> QED BY OnceInit, OnceStep, <1>1, PTL DEF Spec

(***************************************************************************)
(* The numbers of the orders.                                              *)
(***************************************************************************)
\* An order that is left out for want of a SKU uses up a suffix; that does no harm
\* if none comes after it.
LastMayLackSku == NoSku \subseteq {N}

LEMMA FulfillmentOrdersFinite ==
  /\ FulfillmentOrders \subseteq Nat /\ IsFiniteSet(FulfillmentOrders)
  /\ \A S \in SUBSET FulfillmentOrders : /\ IsFiniteSet(S) /\ Cardinality(S) \in Nat
                                         /\ S # {} => \E m \in S : \A x \in S : m =< x
<1>1. FulfillmentOrders \subseteq Nat /\ IsFiniteSet(FulfillmentOrders)
  BY OrderSyncAssumption, FS_Interval DEF FulfillmentOrders
<1>2. ASSUME NEW S \in SUBSET FulfillmentOrders
      PROVE  /\ IsFiniteSet(S) /\ Cardinality(S) \in Nat
             /\ S # {} => \E m \in S : \A x \in S : m =< x
  <2>1. IsFiniteSet(S) /\ S \in SUBSET Nat
    BY <1>1, FS_Subset
  <2> QED BY <2>1, LeastNat, FS_CardinalityType
<1> QED BY <1>1, <1>2

\* The greatest of them.
LEMMA Greatest ==
  ASSUME NEW S \in SUBSET FulfillmentOrders, S # {}
  PROVE  \E m \in S : \A x \in S : x =< m
<1> DEFINE D == {N - x : x \in S}
<1>1. \A x \in S : x \in Nat /\ N - x \in Nat
  BY OrderSyncAssumption DEF FulfillmentOrders
<1>2. D \in SUBSET Nat /\ D # {}
  BY <1>1
<1>3. PICK d \in D : \A e \in D : d =< e
  BY <1>2, LeastNat
<1>4. PICK m \in S : d = N - m
  BY <1>3
<1>5. \A x \in S : N - m =< N - x
  BY <1>3, <1>4
<1> HIDE DEF D
<1>6. N \in Nat
  BY OrderSyncAssumption
<1>7. \A x \in S : x =< m
  BY <1>1, <1>5, <1>6
<1> QED BY <1>7

\* Fulfillment orders of a page follow the ones that are there, in their order.
Below(f, New) == {g \in New : g < f}

LEMMA SuffixType ==
  ASSUME NEW New \in SUBSET FulfillmentOrders, NEW existing \in Nat, NEW f \in New
  PROVE  /\ f \in Nat /\ IsFiniteSet(Below(f, New)) /\ Cardinality(Below(f, New)) \in Nat
         /\ Suffix(f, existing, New) = existing + Cardinality(Below(f, New))
         /\ Suffix(f, existing, New) \in Nat /\ Suffix(f, existing, New) >= existing
<1>1. f \in Nat /\ Below(f, New) \in SUBSET FulfillmentOrders
  BY FulfillmentOrdersFinite DEF Below
<1>2. IsFiniteSet(Below(f, New)) /\ Cardinality(Below(f, New)) \in Nat
  BY <1>1, FulfillmentOrdersFinite
<1>3. Suffix(f, existing, New) = existing + Cardinality(Below(f, New))
  BY DEF Suffix, Below
<1> QED BY <1>1, <1>2, <1>3

LEMMA SuffixGrows ==
  ASSUME NEW New \in SUBSET FulfillmentOrders, NEW existing \in Nat, NEW f \in New, NEW g \in New,
         g < f
  PROVE  Suffix(g, existing, New) < Suffix(f, existing, New)
<1> DEFINE A == Below(g, New)
           B == Below(f, New)
           S == B \ {g}
<1>1. \A x \in New : x \in Nat
  BY FulfillmentOrdersFinite
<1>2. g \in B /\ A \subseteq S
  BY <1>1 DEF Below
<1>3. /\ IsFiniteSet(B) /\ Cardinality(B) \in Nat /\ Cardinality(A) \in Nat
      /\ Suffix(f, existing, New) = existing + Cardinality(B)
      /\ Suffix(g, existing, New) = existing + Cardinality(A)
  BY SuffixType
<1> HIDE DEF A, B
<1>4. IsFiniteSet(S) /\ Cardinality(S) = Cardinality(B) - 1
  BY <1>2, <1>3, FS_RemoveElement
<1> HIDE DEF S
<1>5. Cardinality(A) =< Cardinality(S)
  BY <1>2, <1>4, FS_Subset
<1> QED BY <1>3, <1>4, <1>5

\* So different ones have different suffixes.
LEMMA SuffixInjective ==
  ASSUME NEW New \in SUBSET FulfillmentOrders, NEW existing \in Nat, NEW f \in New, NEW g \in New,
         Suffix(f, existing, New) = Suffix(g, existing, New)
  PROVE  f = g
<1> DEFINE a == Suffix(f, existing, New)
           b == Suffix(g, existing, New)
<1>1. f \in Nat /\ g \in Nat /\ a \in Nat /\ b \in Nat
  BY SuffixType
<1>2. (f < g => a < b) /\ (g < f => b < a)
  BY SuffixGrows
<1>3. a = b
  OBVIOUS
<1> HIDE DEF a, b
<1> QED BY <1>1, <1>2, <1>3

\* The first gets the first suffix that is free.
LEMMA SuffixOfFirst ==
  ASSUME NEW New \in SUBSET FulfillmentOrders, NEW existing \in Nat, NEW f \in New
  PROVE  Suffix(f, existing, New) = existing <=> \A x \in New : f =< x
<1>0. \A x \in New : x \in Nat
  BY FulfillmentOrdersFinite
<1>1. Below(f, New) = {} <=> \A x \in New : f =< x
  BY <1>0 DEF Below
<1> QED BY <1>1, SuffixType, FS_EmptySet

\* The suffixes count the orders up from 0.
Numbered ==
  /\ FulfillmentOrders \ NoSku \subseteq mappable
  /\ IsFiniteSet(DOMAIN orders)
  /\ DOMAIN orders \subseteq 0..(Cardinality(DOMAIN orders) - 1)
  /\ DOMAIN orders # {} => 0 \in DOMAIN orders

\* No fulfillment order is left out of what is about to be sent.
NoneLeftOut(w) ==
  pc[w] = "sendOrdersToMiddleware" =>
    \A f \in fresh[w] \ NoSku : \E s \in DOMAIN dtos[w] : dtos[w][s].fo = f

CountInv == Numbered /\ \A w \in Syncs : NoneLeftOut(w)

\* What is sent.
LEMMA Sending ==
  ASSUME LastMayLackSku, OnceInv, CountInv, NEW w \in Syncs, pc[w] = "sendOrdersToMiddleware",
         NEW s \in DOMAIN dtos[w]
  PROVE  /\ Cardinality(DOMAIN orders) \in Nat
         /\ fresh[w] \in SUBSET FulfillmentOrders
         /\ dtos[w][s].fo \in fresh[w]
         /\ s = Suffix(dtos[w][s].fo, Cardinality(DOMAIN orders), fresh[w])
         /\ s \in Nat /\ s >= Cardinality(DOMAIN orders) /\ s \notin DOMAIN orders
         /\ \A f \in fresh[w] : f =< dtos[w][s].fo => \E t \in DOMAIN dtos[w] : dtos[w][t].fo = f
<1> DEFINE e == Cardinality(DOMAIN orders)
           g == dtos[w][s].fo
<1>1. e \in Nat
  BY FS_CardinalityType DEF CountInv, Numbered
<1>2. fresh[w] \in SUBSET FulfillmentOrders /\ known[w] = DOMAIN orders
  BY DEF OnceInv, SyncTypes, Fetched, Busy
<1>3. g \in fresh[w] /\ s = Suffix(g, e, fresh[w])
  BY <1>2 DEF OnceInv, Built, SuffixOf
<1>4. s \in Nat /\ s >= e
  BY <1>1, <1>2, <1>3, SuffixType
<1>5. s \notin DOMAIN orders
  <2> HIDE DEF e
  <2>1. DOMAIN orders \subseteq 0..(e - 1)
    BY DEF CountInv, Numbered, e
  <2> QED BY <1>1, <1>4, <2>1
<1>6. ASSUME NEW f \in fresh[w], f =< g PROVE \E t \in DOMAIN dtos[w] : dtos[w][t].fo = f
  <2>1. CASE f = g
    BY <2>1
  <2>2. CASE f # g
    <3>1. f \in Nat /\ g \in Nat /\ g =< N /\ f # N
      <4>1. f \in 1..N /\ g \in 1..N /\ N \in Nat
        BY <1>2, <1>3, OrderSyncAssumption DEF FulfillmentOrders
      <4> HIDE DEF g
      <4> QED BY <1>6, <2>2, <4>1
    <3>2. f \in fresh[w] \ NoSku
      BY <3>1 DEF LastMayLackSku
    <3> QED BY <3>2 DEF CountInv, NoneLeftOut
  <2> QED BY <2>1, <2>2
<1> QED BY <1>1, <1>2, <1>3, <1>4, <1>5, <1>6

LEMMA CountInit == Init => CountInv
<1> SUFFICES ASSUME Init PROVE CountInv
  OBVIOUS
<1>1. DOMAIN orders = {} /\ mappable = FulfillmentOrders \ NoSku
  BY DEF Init
<1> QED BY <1>1, FS_EmptySet DEF Init, CountInv, Numbered, NoneLeftOut

LEMMA CountStep ==
  ASSUME OneSync, LastMayLackSku, OnceInv, OnceInv', CountInv, [Next]_vars
  PROVE  CountInv'
<1> USE DEF CountInv
<1>0. ASSUME UNCHANGED <<orders, pc, fresh, dtos>>, mappable \subseteq mappable' PROVE CountInv'
  BY <1>0 DEF Numbered, NoneLeftOut
<1>1. ASSUME NEW f \in FulfillmentOrders,
             requestFulfillment(f) \/ setSku(f) \/ accept(f) \/ pay \/ schedule
      PROVE  CountInv'
  BY <1>0, <1>1 DEF requestFulfillment, setSku, accept, pay, schedule, shop, local
<1>2. ASSUME NEW event \in SUBSET FulfillmentOrders, cancelFulfillmentOrder(event) PROVE CountInv'
  BY <1>0, <1>2 DEF cancelFulfillmentOrder, local
<1>3. ASSUME NEW w \in Syncs, NEW c \in Cursors, getFulfillmentOrders(w, c) PROVE CountInv'
  <2>1. UNCHANGED <<mappable, orders, fresh, dtos>>
    BY <1>3 DEF getFulfillmentOrders, shop
  <2>2. \A v \in Syncs : pc'[v] = pc[v] \/ pc'[v] \in {"filterExistingIds", "filterUnpaid"}
    BY <1>3 DEF getFulfillmentOrders, Goto, OnceInv, SyncTypes
  <2> QED BY <2>1, <2>2 DEF Numbered, NoneLeftOut
<1>4. ASSUME NEW w \in Syncs, Return(w), UNCHANGED <<orders, mappable>> PROVE CountInv'
  <2>1. \A v \in Syncs : pc'[v] = "idle"
    BY <1>4 DEF Return, Goto, OneSync, OnceInv, SyncTypes
  <2> QED BY <1>4, <2>1 DEF Numbered, NoneLeftOut
<1>5. ASSUME NEW w \in Syncs, filterExistingIds(w) PROVE CountInv'
  <2>1. CASE page[w] \subseteq Holding
    BY <1>4, <1>5, <2>1 DEF filterExistingIds, shop
  <2>2. CASE ~(page[w] \subseteq Holding)
    <3>1. \A v \in Syncs : pc'[v] = "calculateOrdersComplete"
      BY <1>5, <2>2 DEF filterExistingIds, Goto, OneSync, OnceInv, SyncTypes
    <3> QED BY <1>5, <3>1 DEF filterExistingIds, shop, Numbered, NoneLeftOut
  <2> QED BY <2>1, <2>2
<1>6. ASSUME NEW w \in Syncs, rejectUnpaid(w) PROVE CountInv'
  BY <1>4, <1>6 DEF rejectUnpaid, shop
<1>7. ASSUME NEW w \in Syncs, calculateOrdersComplete(w) PROVE CountInv'
  <2> DEFINE new == NewOrders(w, demoShopifyQuantity(w))
             existing == Cardinality(known[w])
  <2>1. /\ pc[w] = "calculateOrdersComplete" /\ dtos' = [dtos EXCEPT ![w] = new]
        /\ UNCHANGED <<mappable, orders, fresh>>
    BY <1>7 DEF calculateOrdersComplete, shop
  <2>2. /\ fresh[w] \in SUBSET FulfillmentOrders /\ existing \in Nat
        /\ \A v \in Syncs : v = w
    BY <1>7, <2>1, FS_CardinalityType DEF OneSync, OnceInv, SyncTypes, Fetched, Busy, Numbered
  <2>3. ASSUME NEW f \in fresh[w] \ NoSku PROVE \E s \in DOMAIN new : new[s].fo = f
    <3>1. f \in WithItems(fresh[w])
      BY <2>2 DEF WithItems, Numbered
    <3>2. Suffix(f, existing, fresh[w]) \in DOMAIN new
      BY <3>1 DEF NewOrders, fulfillmentCountByExistingCustomerIds
    <3>3. PICK g \in WithItems(fresh[w]) :
            /\ SuffixOf(w, g) = Suffix(f, existing, fresh[w])
            /\ new[Suffix(f, existing, fresh[w])].fo = g
      BY <3>2, Made DEF Order
    <3>4. g = f
      BY <2>2, <3>3, SuffixInjective DEF SuffixOf, WithItems
    <3> QED BY <3>2, <3>3, <3>4
  <2> HIDE DEF new
  <2>4. \A v \in Syncs : NoneLeftOut(v)'
    BY <2>1, <2>2, <2>3 DEF NoneLeftOut, OnceInv, SyncTypes
  <2> QED BY <2>1, <2>4 DEF Numbered
<1>8. ASSUME NEW w \in Syncs, sendOrdersToMiddleware(w) PROVE CountInv'
  <2> DEFINE D == DOMAIN orders
             Dn == DOMAIN dtos[w]
             e == Cardinality(D)
             fo(s) == dtos[w][s].fo
  <2>1. /\ pc[w] = "sendOrdersToMiddleware" /\ orders' = Upserted(dtos[w]) /\ Return(w)
        /\ mappable' = mappable
    BY <1>8 DEF sendOrdersToMiddleware, shop
  <2>2. DOMAIN orders' = Dn \cup D
    BY <2>1 DEF Upserted
  <2>3. /\ IsFiniteSet(D) /\ e \in Nat /\ D \subseteq 0..(e - 1)
        /\ fresh[w] \in SUBSET FulfillmentOrders
    BY FS_CardinalityType DEF Numbered, OnceInv, SyncTypes
  <2>4. \A s \in Dn : /\ fo(s) \in fresh[w] /\ s = Suffix(fo(s), e, fresh[w])
                      /\ s \in Nat /\ s >= e /\ s \notin D
                      /\ s = e + Cardinality(Below(fo(s), fresh[w]))
                      /\ \A f \in fresh[w] : f =< fo(s) => \E t \in Dn : fo(t) = f
    BY <2>1, <2>3, Sending, SuffixType
  <2>5. IsFiniteSet(Dn)
    <3> DEFINE h == [s \in Dn |-> fo(s)]
    <3>1. h \in [Dn -> fresh[w]] /\ \A s, t \in Dn : h[s] = h[t] => s = t
      BY <2>4
    <3>2. h \in Injection(Dn, fresh[w]) /\ IsFiniteSet(fresh[w])
      BY <2>3, <3>1, FulfillmentOrdersFinite DEF Injection, IsInjective
    <3> HIDE DEF h
    <3> QED BY <3>2, FS_Injection
  <2>6. IsFiniteSet(Dn \cup D) /\ Cardinality(Dn \cup D) = e + Cardinality(Dn)
    <3>1. Dn \cap D = {}
      BY <2>4
    <3>2. Cardinality({}) = 0
      BY FS_EmptySet
    <3>3. Cardinality(Dn) \in Nat
      BY <2>5, FS_CardinalityType
    <3>4. IsFiniteSet(D) /\ Cardinality(D) \in Nat
      BY <2>3
    <3> HIDE DEF Dn, D
    <3>5. IsFiniteSet(Dn \cup D)
          /\ Cardinality(Dn \cup D) = Cardinality(Dn) + Cardinality(D) - Cardinality(Dn \cap D)
      BY <2>5, <3>4, FS_Union
    <3>6. Cardinality(Dn \cap D) = 0
      BY <3>1, <3>2
    <3> QED BY <3>3, <3>4, <3>5, <3>6
  <2>7. ASSUME NEW s \in Dn PROVE s =< e + Cardinality(Dn) - 1
    <3> DEFINE below == Below(fo(s), fresh[w])
               h == [x \in below |-> Suffix(x, e, fresh[w])]
               T == Dn \ {s}
    <3>1. ASSUME NEW x \in below PROVE h[x] \in T /\ x \in fresh[w]
      <4>1. x \in fresh[w] /\ x < fo(s) /\ x \in Nat /\ fo(s) \in Nat
        <5>1. x \in fresh[w] /\ x < fo(s)
          BY DEF Below
        <5>2. fo(s) \in fresh[w]
          BY <2>4
        <5>3. \A y \in fresh[w] : y \in Nat
          BY <2>3, FulfillmentOrdersFinite
        <5> QED BY <5>1, <5>2, <5>3
      <4>2. PICK t \in Dn : fo(t) = x
        BY <2>4, <4>1
      <4>3. t # s /\ h[x] = t
        BY <2>4, <4>1, <4>2
      <4> QED BY <4>1, <4>3
    <3>2. \A x, y \in below : h[x] = h[y] => x = y
      BY <2>3, <3>1, SuffixInjective
    <3>3. h \in Injection(below, T)
      BY <3>1, <3>2 DEF Injection, IsInjective
    <3>4. IsFiniteSet(T) /\ Cardinality(T) = Cardinality(Dn) - 1
      BY <2>5, FS_RemoveElement
    <3>5. Cardinality(below) =< Cardinality(Dn) - 1
      BY <3>3, <3>4, FS_Injection
    <3>6. s = e + Cardinality(below) /\ Cardinality(below) \in Nat
      BY <2>3, <2>4, SuffixType
    <3>7. Cardinality(Dn) \in Nat
      BY <2>5, FS_CardinalityType
    <3> HIDE DEF below, Dn, e
    <3> QED BY <2>3, <3>5, <3>6, <3>7
  <2>8. DOMAIN orders' \subseteq 0..(Cardinality(DOMAIN orders') - 1)
    <3>1. Cardinality(Dn) \in Nat
      BY <2>5, FS_CardinalityType
    <3>2. \A s \in Dn : s \in Nat
      BY <2>4
    <3>3. DOMAIN orders' = Dn \cup D /\ Cardinality(Dn \cup D) = e + Cardinality(Dn)
      BY <2>2, <2>6
    <3>4. e \in Nat /\ D \subseteq 0..(e - 1)
      BY <2>3
    <3>5. \A s \in Dn : s =< e + Cardinality(Dn) - 1
      BY <2>7
    <3> DEFINE c == Cardinality(Dn)
    <3> HIDE DEF Dn, D, e, c
    <3>6. c \in Nat /\ \A s \in Dn : s =< e + c - 1
      BY <3>1, <3>5 DEF c
    <3>7. \A s \in Dn : s \in 0..(e + c - 1)
      BY <3>2, <3>4, <3>6
    <3>8. \A s \in D : s \in 0..(e + c - 1)
      BY <3>4, <3>6
    <3>9. DOMAIN orders' \subseteq 0..(e + c - 1)
      BY <3>3, <3>7, <3>8
    <3>10. Cardinality(DOMAIN orders') = e + c
      BY <3>3 DEF c
    <3> DEFINE d == Cardinality(DOMAIN orders')
    <3>11. d = e + c
      BY <3>10
    <3> HIDE DEF d
    <3>12. DOMAIN orders' \subseteq 0..(d - 1)
      BY <3>4, <3>6, <3>9, <3>11
    <3> QED BY <3>12 DEF d
  <2>9. ASSUME DOMAIN orders' # {} PROVE 0 \in DOMAIN orders'
    <3>1. CASE D # {}
      BY <2>2, <3>1 DEF Numbered
    <3>2. CASE D = {}
      <4>1. e = 0
        BY <3>2, FS_EmptySet
      <4>2. PICK s \in Dn : TRUE
        BY <2>2, <2>9, <3>2
      <4>3. PICK m \in fresh[w] : \A x \in fresh[w] : m =< x
        BY <2>3, <2>4, <4>2, FulfillmentOrdersFinite
      <4>4. PICK t \in Dn : fo(t) = m
        BY <2>4, <4>2, <4>3
      <4>5. t = e
        BY <2>3, <2>4, <4>3, <4>4, SuffixOfFirst
      <4> QED BY <2>2, <4>1, <4>4, <4>5
    <3> QED BY <3>1, <3>2
  <2>10. \A v \in Syncs : pc'[v] = "idle"
    BY <2>1 DEF Return, Goto, OneSync, OnceInv, SyncTypes
  <2> QED BY <2>1, <2>2, <2>6, <2>8, <2>9, <2>10 DEF Numbered, NoneLeftOut
<1>9. ASSUME NEW w \in Syncs, fails(w) PROVE CountInv'
  BY <1>4, <1>9 DEF fails, shop
<1>10. CASE UNCHANGED vars
  BY <1>0, <1>10 DEF vars, shop, local
<1>11. FulfillmentOrders # {}
  BY OneIsOne
<1> QED BY <1>1, <1>2, <1>3, <1>5, <1>6, <1>7, <1>8, <1>9, <1>10, <1>11 DEF Next, getOrders

\* Sending never gives a number a second time.
LEMMA KeepsStep ==
  ASSUME LastMayLackSku, OnceInv, CountInv, [Next]_vars
  PROVE  \A s \in DOMAIN orders : s \in DOMAIN orders' /\ orders'[s].fo = orders[s].fo
<1>1. ASSUME NEW w \in Syncs, sendOrdersToMiddleware(w)
      PROVE  \A s \in DOMAIN orders : s \in DOMAIN orders' /\ orders'[s].fo = orders[s].fo
  <2>1. pc[w] = "sendOrdersToMiddleware" /\ orders' = Upserted(dtos[w])
    BY <1>1 DEF sendOrdersToMiddleware
  <2>2. \A s \in DOMAIN dtos[w] : s \notin DOMAIN orders
    BY <2>1, Sending
  <2> QED BY <2>1, <2>2 DEF Upserted
<1>2. CASE ~ \E w \in Syncs : sendOrdersToMiddleware(w)
  <2>1. UNCHANGED orders
    BY <1>2 DEF Next, requestFulfillment, pay, setSku, accept, schedule, getFulfillmentOrders,
                getOrders, filterExistingIds, rejectUnpaid, calculateOrdersComplete, fails,
                cancelFulfillmentOrder, vars
  <2> QED BY <2>1
<1> QED BY <1>1, <1>2

\* The customerOrderId of a fulfillment order is never given to another one.
THEOREM KeepsOrder == OneSync /\ LastMayLackSku => (Spec => KeepsItsOrder)
<1> SUFFICES ASSUME OneSync, LastMayLackSku PROVE Spec => KeepsItsOrder
  OBVIOUS
<1>1. OnceInv /\ CountInv /\ [Next]_vars =>
        [\A s \in DOMAIN orders : s \in DOMAIN orders' /\ orders'[s].fo = orders[s].fo]_vars
  BY KeepsStep
<1>2. OnceInv /\ OnceInv' /\ CountInv /\ [Next]_vars => CountInv'
  BY CountStep
<1>3. OnceInv /\ [Next]_vars => OnceInv'
  BY OnceStep
<1> QED BY OnceInit, CountInit, <1>1, <1>2, <1>3, PTL DEF Spec, KeepsItsOrder

(***************************************************************************)
(* The flag of the order that completes the shop order.                    *)
(***************************************************************************)
LEMMA Amount ==
  /\ Quantity \in Nat /\ Quantity = QuantityOf(FulfillmentOrders)
  /\ \A f \in FulfillmentOrders : qty[f] \in Nat /\ qty[f] > 0
  /\ \A S \in SUBSET FulfillmentOrders :
       QuantityOf(S) \in Nat /\ (QuantityOf(S) = Quantity <=> S = FulfillmentOrders)
<1>1. \A f \in FulfillmentOrders : qty[f] \in Nat /\ qty[f] > 0
  BY OrderSyncAssumption
<1>2. Quantity \in Nat /\ Quantity = Sum(qty, FulfillmentOrders)
  BY OrderSyncAssumption, OrderAmountsAssumption
<1>3. ASSUME NEW S \in SUBSET FulfillmentOrders
      PROVE  QuantityOf(S) \in Nat /\ (QuantityOf(S) = Quantity <=> S = FulfillmentOrders)
  <2>1. IsFiniteSet(S) /\ IsFiniteSet(FulfillmentOrders)
    BY FulfillmentOrdersFinite
  <2>2. Sum(qty, S) \in Nat
    BY <1>1, <2>1, SumType
  <2>3. Sum(qty, S) = Sum(qty, FulfillmentOrders) => S = FulfillmentOrders
    BY <1>1, <2>1, SumPart
  <2> QED BY <1>2, <2>2, <2>3 DEF QuantityOf
<1> QED BY <1>1, <1>2, <1>3 DEF QuantityOf

LEMMA QuantityOne == ASSUME NEW f \in FulfillmentOrders PROVE QuantityOf({f}) = qty[f]
<1>1. IsFiniteSet({}) /\ f \notin {} /\ \A y \in {} \cup {f} : qty[y] \in Nat
  BY Amount, FS_EmptySet
<1>2. Sum(qty, {} \cup {f}) = qty[f] + Sum(qty, {})
  BY <1>1, SumAdd
<1> QED BY <1>2, SumEmpty, Amount DEF QuantityOf

LEMMA QuantityUnion ==
  ASSUME NEW S \in SUBSET FulfillmentOrders, NEW T \in SUBSET FulfillmentOrders, S \cap T = {}
  PROVE  QuantityOf(S \cup T) = QuantityOf(S) + QuantityOf(T)
<1>1. IsFiniteSet(S) /\ IsFiniteSet(T) /\ \A x \in S \cup T : qty[x] \in Nat
  BY Amount, FulfillmentOrdersFinite
<1> QED BY <1>1, SumUnion DEF QuantityOf

\* Only the fulfillment order of a shop order that was not split is not partial.
LEMMA PartialUnlessAlone ==
  ASSUME NEW New \in SUBSET FulfillmentOrders, NEW f \in New
  PROVE  f \in Partial(New) <=> FulfillmentOrders # {f}
<1>1. f \in FulfillmentOrders /\ {f} \in SUBSET FulfillmentOrders
  OBVIOUS
<1>2. qty[f] = Quantity <=> FulfillmentOrders = {f}
  BY <1>1, Amount, QuantityOne
<1>3. ASSUME FulfillmentOrders = {f} PROVE f = Min(New)
  <2>1. New = {f} /\ f =< f
    BY <1>3, FulfillmentOrdersFinite
  <2> QED BY <2>1 DEF Min
<1> QED BY <1>2, <1>3 DEF Partial

\* A new fulfillment order completes the shop order if it was split and the last of it are
\* what the middleware holds and the new ones up to this one.
Last(held, New, f) == held \cup {g \in New : g =< f} = FulfillmentOrders

LEMMA CompletesWhole ==
  ASSUME NEW New \in SUBSET FulfillmentOrders, NEW held \in SUBSET FulfillmentOrders,
         New \cap held = {}, NEW f \in New
  PROVE  f \in Completes(QuantityOf(held), New) <=> FulfillmentOrders # {f} /\ Last(held, New, f)
<1>1. CASE FulfillmentOrders = {f}
  BY <1>1, PartialUnlessAlone DEF Completes
<1>2. CASE FulfillmentOrders # {f}
  <2> DEFINE before == {g \in New : g < f}
             upto == {g \in New : g =< f}
  <2>1. \A g \in New : g \in Nat /\ FulfillmentOrders # {g}
    <3>1. \A g \in New : FulfillmentOrders = {g} => g = f
      OBVIOUS
    <3> QED BY <1>2, <3>1, FulfillmentOrdersFinite
  <2>2. Partial(New) = New
    BY <2>1, PartialUnlessAlone DEF Partial
  <2>3. /\ upto = before \cup {f} /\ before \cap {f} = {} /\ held \cap upto = {}
        /\ before \in SUBSET FulfillmentOrders /\ {f} \in SUBSET FulfillmentOrders
        /\ upto \in SUBSET FulfillmentOrders /\ held \cup upto \in SUBSET FulfillmentOrders
    BY <2>1
  <2>4. f \in Completes(QuantityOf(held), New) <=> Quantity = QuantityOf(held) + qty[f] + QuantityOf(before)
    BY <2>2 DEF Completes
  <2>5. Last(held, New, f) <=> held \cup upto = FulfillmentOrders
    BY DEF Last
  <2> HIDE DEF before, upto
  <2>6. QuantityOf(upto) = QuantityOf(before) + QuantityOf({f}) /\ QuantityOf({f}) = qty[f]
    BY <2>3, QuantityUnion, QuantityOne
  <2>7. QuantityOf(held \cup upto) = QuantityOf(held) + QuantityOf(upto)
    BY <2>3, QuantityUnion
  <2>8. QuantityOf(held) \in Nat /\ QuantityOf(before) \in Nat /\ qty[f] \in Nat
    BY <2>3, Amount
  <2>9. Quantity = QuantityOf(held) + qty[f] + QuantityOf(before) <=> QuantityOf(held \cup upto) = Quantity
    BY <2>6, <2>7, <2>8
  <2>10. QuantityOf(held \cup upto) = Quantity <=> held \cup upto = FulfillmentOrders
    BY <2>3, Amount
  <2> QED BY <1>2, <2>4, <2>5, <2>9, <2>10
<1> QED BY <1>1, <1>2

(***************************************************************************)
(* What the orders cost, and which one is flagged.                         *)
(***************************************************************************)
\* Order s bears its own share of price and tax, the first one the shipping too.
PricedAt(s, order) ==
  /\ order.total = pricePaid(qty[order.fo]) + (IF s = 0 THEN shippingCost ELSE 0)
  /\ order.tax = taxAmount(qty[order.fo])
  /\ order.shipping = IF s = 0 THEN shippingCost ELSE 0

\* What is about to be sent.
Rightly(w) ==
  pc[w] = "sendOrdersToMiddleware" =>
    \A s \in DOMAIN dtos[w] :
      LET f == dtos[w][s].fo IN
        /\ PricedAt(s, dtos[w][s])
        /\ dtos[w][s].complete <=> FulfillmentOrders # {f} /\ Last(Holding, fresh[w], f)

MappedInv ==
  /\ \A s \in DOMAIN orders : PricedAt(s, orders[s])
  /\ \A w \in Syncs : Rightly(w)

\* A fulfillment order is mapped to an order with its share and the right flag: it is the
\* first exactly when its number is 0, and the shipping of any other is cleared because, with
\* another one before it, it is partial.
LEMMA MadeRightly ==
  ASSUME OnceInv, CountInv, NEW w \in Syncs, pc[w] = "calculateOrdersComplete",
         NEW s \in DOMAIN NewOrders(w, demoShopifyQuantity(w))
  PROVE  LET order == NewOrders(w, demoShopifyQuantity(w))[s]
         IN  /\ PricedAt(s, order)
             /\ order.complete <=>
                  FulfillmentOrders # {order.fo} /\ Last(Holding, fresh[w], order.fo)
<1> DEFINE order == NewOrders(w, demoShopifyQuantity(w))[s]
           New == fresh[w]
           existing == Cardinality(known[w])
<1>1. PICK f \in WithItems(New) :
        SuffixOf(w, f) = s /\ Order(w, demoShopifyQuantity(w), f, order)
  BY Made
<1>2. /\ known[w] = DOMAIN orders /\ New \in SUBSET FulfillmentOrders
      /\ New \cap Holding = {} /\ Holding \in SUBSET FulfillmentOrders /\ IsFiniteSet(known[w])
  BY DEF OnceInv, SyncTypes, Fetched, Busy, Holding, CountInv, Numbered
<1>3. existing \in Nat /\ (existing = 0 <=> DOMAIN orders = {}) /\ f \in New
  BY <1>2, FS_CardinalityType, FS_EmptySet DEF WithItems
<1>4. demoShopifyQuantity(w) = QuantityOf(Holding)
  BY <1>2 DEF demoShopifyQuantity, Holding
<1>5. order.fo = f /\ (order.complete <=> FulfillmentOrders # {f} /\ Last(Holding, New, f))
  BY <1>1, <1>2, <1>3, <1>4, CompletesWhole DEF Order
<1>6. s = Suffix(f, existing, New) /\ s \in Nat /\ s >= existing
      /\ (s = existing <=> \A x \in New : f =< x)
  BY <1>1, <1>2, <1>3, SuffixType, SuffixOfFirst DEF SuffixOf
<1>7. f = Min(New) <=> \A x \in New : f =< x
  <2>1. \A x \in New : x \in Nat
    BY <1>2, FulfillmentOrdersFinite
  <2>2. ASSUME \A x \in New : f =< x PROVE f = Min(New)
    <3>1. \A m \in New : (\A x \in New : m =< x) => m = f
      BY <1>3, <2>1, <2>2
    <3>2. Min(New) \in New /\ \A x \in New : Min(New) =< x
      BY <1>3, <2>2 DEF Min
    <3> QED BY <3>1, <3>2
  <2>3. ASSUME f = Min(New) PROVE \A x \in New : f =< x
    <3>1. New \in SUBSET Nat /\ New # {}
      BY <1>3, <2>1
    <3>2. \E m \in New : \A x \in New : m =< x
      BY <3>1, LeastNat
    <3>3. \A x \in New : Min(New) =< x
      BY <3>2 DEF Min
    <3> QED BY <2>3, <3>3
  <2> QED BY <2>2, <2>3
<1>8. IsFirst(f, existing, New) <=> s = 0
  <2> HIDE DEF existing, New
  <2>1. IsFirst(f, existing, New) <=> existing = 0 /\ s = existing
    BY <1>6, <1>7 DEF IsFirst
  <2> QED BY <1>3, <1>6, <2>1
<1>9. ASSUME s # 0 PROVE f \in Partial(New)
  <2>1. CASE \A x \in New : f =< x
    <3>1. existing # 0
      BY <1>6, <1>9, <2>1
    <3>2. PICK t \in DOMAIN orders : TRUE
      BY <1>3, <3>1
    <3>3. orders[t].fo \in FulfillmentOrders /\ orders[t].fo # f
      BY <1>2, <1>3 DEF Holding
    <3> QED BY <1>2, <1>3, <3>3, PartialUnlessAlone
  <2>2. CASE ~ \A x \in New : f =< x
    BY <1>3, <1>7, <2>2 DEF Partial
  <2> QED BY <2>1, <2>2
<1>10. /\ order.total = pricePaid(qty[f]) + (IF s = 0 THEN shippingCost ELSE 0)
       /\ order.tax = taxAmount(qty[f])
       /\ order.shipping = IF s = 0 THEN shippingCost ELSE 0
  BY <1>1, <1>8, <1>9 DEF Order, Amounts
<1> QED BY <1>5, <1>10 DEF PricedAt

LEMMA MappedInit == Init => MappedInv
BY DEF Init, MappedInv, Rightly

LEMMA MappedStep ==
  ASSUME OneSync, OnceInv, CountInv, MappedInv, [Next]_vars
  PROVE  MappedInv'
<1> USE DEF MappedInv
<1>0. ASSUME UNCHANGED <<orders, pc, fresh, dtos>> PROVE MappedInv'
  BY <1>0 DEF PricedAt, Rightly, Last, Holding
<1>1. ASSUME NEW f \in FulfillmentOrders,
             requestFulfillment(f) \/ setSku(f) \/ accept(f) \/ pay \/ schedule
      PROVE  MappedInv'
  BY <1>0, <1>1 DEF requestFulfillment, setSku, accept, pay, schedule, local
<1>2. ASSUME NEW event \in SUBSET FulfillmentOrders, cancelFulfillmentOrder(event) PROVE MappedInv'
  BY <1>0, <1>2 DEF cancelFulfillmentOrder, local
<1>3. ASSUME UNCHANGED orders,
             \A v \in Syncs : \/ pc'[v] # "sendOrdersToMiddleware"
                              \/ pc'[v] = pc[v] /\ fresh'[v] = fresh[v] /\ dtos'[v] = dtos[v]
      PROVE  MappedInv'
  BY <1>3 DEF PricedAt, Rightly, Last, Holding
<1>4. ASSUME NEW w \in Syncs, NEW c \in Cursors, getFulfillmentOrders(w, c) PROVE MappedInv'
  <2>1. UNCHANGED <<orders, fresh, dtos>>
    BY <1>4 DEF getFulfillmentOrders
  <2>2. \A v \in Syncs : pc'[v] = pc[v] \/ pc'[v] \in {"filterExistingIds", "filterUnpaid"}
    BY <1>4 DEF getFulfillmentOrders, Goto, OnceInv, SyncTypes
  <2> QED BY <1>3, <2>1, <2>2
<1>5. ASSUME NEW w \in Syncs, Return(w) PROVE \A v \in Syncs : pc'[v] = "idle"
  BY <1>5 DEF Return, Goto, OneSync, OnceInv, SyncTypes
<1>6. ASSUME NEW w \in Syncs, filterExistingIds(w) PROVE MappedInv'
  <2>1. UNCHANGED orders
    BY <1>6 DEF filterExistingIds
  <2>2. \A v \in Syncs : pc'[v] # "sendOrdersToMiddleware"
    BY <1>5, <1>6 DEF filterExistingIds, Goto, OneSync, OnceInv, SyncTypes
  <2> QED BY <1>3, <2>1, <2>2
<1>7. ASSUME NEW w \in Syncs, rejectUnpaid(w) \/ fails(w) PROVE MappedInv'
  <2>1. UNCHANGED orders
    BY <1>7 DEF rejectUnpaid, fails
  <2>2. \A v \in Syncs : pc'[v] # "sendOrdersToMiddleware"
    BY <1>5, <1>7 DEF rejectUnpaid, fails
  <2> QED BY <1>3, <2>1, <2>2
<1>8. ASSUME NEW w \in Syncs, calculateOrdersComplete(w) PROVE MappedInv'
  <2> DEFINE new == NewOrders(w, demoShopifyQuantity(w))
  <2>1. /\ pc[w] = "calculateOrdersComplete" /\ dtos' = [dtos EXCEPT ![w] = new]
        /\ UNCHANGED <<orders, fresh>> /\ \A v \in Syncs : v = w
    BY <1>8 DEF calculateOrdersComplete, OneSync
  <2>2. \A s \in DOMAIN new :
          /\ PricedAt(s, new[s])
          /\ new[s].complete <=>
               FulfillmentOrders # {new[s].fo} /\ Last(Holding, fresh[w], new[s].fo)
    BY <2>1, MadeRightly
  <2> HIDE DEF new
  <2>3. dtos'[w] = new /\ Holding' = Holding /\ fresh'[w] = fresh[w]
    BY <2>1 DEF OnceInv, SyncTypes, Holding
  <2>4. Rightly(w)'
    BY <2>2, <2>3 DEF Rightly, PricedAt, Last
  <2> QED BY <2>1, <2>4 DEF PricedAt
<1>9. ASSUME NEW w \in Syncs, sendOrdersToMiddleware(w) PROVE MappedInv'
  <2>1. pc[w] = "sendOrdersToMiddleware" /\ orders' = Upserted(dtos[w])
    BY <1>9 DEF sendOrdersToMiddleware
  <2>2. \A s \in DOMAIN dtos[w] : PricedAt(s, dtos[w][s])
    BY <2>1 DEF Rightly
  <2>3. \A s \in DOMAIN orders' : PricedAt(s, orders'[s])
    BY <2>1, <2>2 DEF Upserted
  <2>4. \A v \in Syncs : pc'[v] # "sendOrdersToMiddleware"
    BY <1>5, <1>9 DEF sendOrdersToMiddleware
  <2> QED BY <2>3, <2>4 DEF Rightly, PricedAt
<1>10. CASE UNCHANGED vars
  BY <1>0, <1>10 DEF vars, local
<1>11. FulfillmentOrders # {}
  BY OneIsOne
<1> QED
  BY <1>1, <1>2, <1>4, <1>6, <1>7, <1>8, <1>9, <1>10, <1>11 DEF Next, getOrders

LEMMA FlagStep ==
  ASSUME LastMayLackSku, OnceInv, CountInv, MappedInv, CompleteFlag, [Next]_vars
  PROVE  CompleteFlag'
<1>1. ASSUME NEW w \in Syncs, sendOrdersToMiddleware(w) PROVE CompleteFlag'
  <2> DEFINE D == DOMAIN orders
             Dn == DOMAIN dtos[w]
             New == fresh[w]
             fo(s) == dtos[w][s].fo
  <2>1. pc[w] = "sendOrdersToMiddleware" /\ orders' = Upserted(dtos[w])
    BY <1>1 DEF sendOrdersToMiddleware
  <2>2. /\ New \in SUBSET FulfillmentOrders /\ New # {} /\ New \cap Holding = {}
        /\ Holding \subseteq FulfillmentOrders
    BY <2>1 DEF OnceInv, SyncTypes, Fetched, Busy, Holding
  <2>3. \A s \in Dn : /\ fo(s) \in New /\ s = Suffix(fo(s), Cardinality(D), New) /\ s \notin D
                      /\ \A f \in New : f =< fo(s) => \E t \in Dn : fo(t) = f
    BY <2>1, Sending
  <2>4. \A s \in Dn : dtos[w][s].complete <=>
                        FulfillmentOrders # {fo(s)} /\ Last(Holding, New, fo(s))
    BY <2>1 DEF MappedInv, Rightly
  <2>5. Holding # FulfillmentOrders /\ Flagged = {}
    BY <2>2 DEF CompleteFlag
  <2>6. /\ DOMAIN orders' = Dn \cup D
        /\ \A s \in Dn : orders'[s] = dtos[w][s]
        /\ \A s \in D : orders'[s] = orders[s]
    BY <2>1, <2>3 DEF Upserted
  <2>7. Flagged' = {s \in Dn : dtos[w][s].complete}
    BY <2>5, <2>6 DEF Flagged
  <2>8. Holding' = Holding \cup {fo(s) : s \in Dn}
    <3>1. \A s \in D : orders'[s].fo = orders[s].fo
      BY <2>6
    <3>2. \A s \in Dn : orders'[s].fo = fo(s)
      BY <2>6
    <3> HIDE DEF fo
    <3> QED BY <2>6, <3>1, <3>2 DEF Holding
  <2>9. ASSUME NEW s \in Flagged' PROVE Holding' = FulfillmentOrders
    <3>1. s \in Dn /\ Last(Holding, New, fo(s))
      BY <2>4, <2>7, <2>9
    <3>2. {g \in New : g =< fo(s)} \subseteq {fo(t) : t \in Dn}
      BY <2>3, <3>1
    <3>3. Holding \cup {g \in New : g =< fo(s)} = FulfillmentOrders
      BY <3>1 DEF Last
    <3>4. {fo(t) : t \in Dn} \subseteq FulfillmentOrders
      BY <2>2, <2>3
    <3> HIDE DEF fo, Dn
    <3> QED BY <2>2, <2>8, <3>2, <3>3, <3>4
  <2>10. ASSUME Holding' = FulfillmentOrders, N > 1 PROVE Cardinality(Flagged') = 1
    <3>1. PICK m \in New : \A x \in New : x =< m
      BY <2>2, Greatest
    <3>2. \A x \in New : x \in Nat
      BY <2>2, FulfillmentOrdersFinite
    <3>3. FulfillmentOrders = Holding \cup New
      BY <2>2, <2>3, <2>8, <2>10
    <3>4. \A f \in FulfillmentOrders : FulfillmentOrders # {f}
      <4>1. 1 \in 1..N /\ 2 \in 1..N
        BY <2>10, OrderSyncAssumption
      <4> QED BY <4>1 DEF FulfillmentOrders
    <3>5. \A f \in New : Last(Holding, New, f) <=> f = m
      <4> SUFFICES ASSUME NEW f \in New PROVE Last(Holding, New, f) <=> f = m
        OBVIOUS
      <4>1. Last(Holding, New, m)
        <5>1. {g \in New : g =< m} = New
          BY <3>1
        <5> QED BY <3>3, <5>1 DEF Last
      <4>2. ASSUME Last(Holding, New, f) PROVE f = m
        <5>1. m \in {g \in New : g =< f}
          BY <2>2, <3>3, <4>2 DEF Last
        <5> QED BY <3>1, <3>2, <5>1
      <4> QED BY <4>1, <4>2
    <3>6. PICK t \in Dn : fo(t) = m
      <4>1. m \in Holding'
        BY <2>10, <3>3
      <4> QED BY <2>2, <2>8, <4>1
    <3>7. ASSUME NEW s \in Dn PROVE dtos[w][s].complete <=> s = t
      <4>1. dtos[w][s].complete <=> fo(s) = m
        BY <2>2, <2>3, <2>4, <3>4, <3>5
      <4>2. fo(s) = m => s = t
        BY <2>3, <3>6
      <4> QED BY <3>6, <4>1, <4>2
    <3>8. Flagged' = {t}
      BY <2>7, <3>7
    <3> QED BY <3>8, FS_Singleton
  <2> QED BY <2>9, <2>10 DEF CompleteFlag
<1>2. CASE ~ \E w \in Syncs : sendOrdersToMiddleware(w)
  <2>1. UNCHANGED orders
    BY <1>2 DEF Next, requestFulfillment, pay, setSku, accept, schedule, getFulfillmentOrders,
                getOrders, filterExistingIds, rejectUnpaid, calculateOrdersComplete, fails,
                cancelFulfillmentOrder, vars
  <2> QED BY <2>1 DEF CompleteFlag, Flagged, Holding
<1> QED BY <1>1, <1>2

\* The order that completes the shop order is flagged, and no other, ever.
THEOREM FlaggedOnce == OneSync /\ LastMayLackSku => (Spec => []CompleteFlag)
<1> SUFFICES ASSUME OneSync, LastMayLackSku PROVE Spec => []CompleteFlag
  OBVIOUS
<1> DEFINE Inv == OnceInv /\ CountInv /\ MappedInv /\ CompleteFlag
<1>1. Init => CompleteFlag
  <2> SUFFICES ASSUME Init PROVE CompleteFlag
    OBVIOUS
  <2>1. DOMAIN orders = {}
    BY DEF Init
  <2>2. Flagged = {} /\ Holding = {}
    BY <2>1 DEF Flagged, Holding
  <2> QED BY <2>2, OneIsOne DEF CompleteFlag
<1>2. Init => Inv
  BY <1>1, OnceInit, CountInit, MappedInit
<1>3. Inv /\ [Next]_vars => Inv'
  <2> SUFFICES ASSUME Inv, [Next]_vars PROVE Inv'
    OBVIOUS
  <2>1. OnceInv'
    BY OnceStep
  <2>2. CountInv'
    BY <2>1, CountStep
  <2>3. MappedInv'
    BY MappedStep
  <2>4. CompleteFlag'
    BY FlagStep
  <2> QED BY <2>1, <2>2, <2>3, <2>4
<1>4. Inv => CompleteFlag
  OBVIOUS
<1> QED BY <1>2, <1>3, <1>4, PTL DEF Spec

(***************************************************************************)
(* What the orders cost together.                                          *)
(***************************************************************************)
\* The discount of the line is no more than its price.
Payable == First(discountAllocations) =< originalUnitPrice * Quantity

LEMMA Prices ==
  ASSUME Payable
  PROVE  /\ shippingCost \in Nat
         /\ \E unit \in Nat : \A q \in Nat : pricePaid(q) = unit * q
         /\ \E unit \in Nat : \A q \in Nat : taxAmount(q) = unit * q
<1>1. /\ originalUnitPrice \in Nat /\ Quantity \in Nat
      /\ taxLines \in Seq(Nat) /\ discountAllocations \in Seq(Nat) /\ shippingLines \in Seq(Nat)
  BY OrderAmountsAssumption
<1>2. \A lines \in Seq(Nat) : First(lines) \in Nat
  BY DEF First
<1> DEFINE price == originalUnitPrice * Quantity
           less == First(discountAllocations)
           tax == First(taxLines)
<1>3. price \in Nat /\ less \in Nat /\ tax \in Nat
  <2>1. \A x, y \in Nat : x * y \in Nat
    OBVIOUS
  <2> QED BY <1>1, <1>2, <2>1
<1>4. shippingCost \in Nat
  <2>1. \A x, y \in Nat : x * y \in Nat
    OBVIOUS
  <2> QED BY <1>1, <1>2, <2>1 DEF shippingCost
<1>5. less =< price
  BY DEF Payable
<1>6. \A q : pricePaid(q) = price * q - less * q
  BY DEF pricePaid, discount, Share
<1>7. \A q : taxAmount(q) = tax * q
  BY DEF taxAmount, Share
<1> HIDE DEF price, less, tax
<1>8. price - less \in Nat
  BY <1>3, <1>5
<1>9. \A q \in Nat : price * q - less * q = (price - less) * q
  BY <1>3
<1>10. \A q \in Nat : pricePaid(q) = (price - less) * q
  BY <1>6, <1>9
<1> QED BY <1>3, <1>4, <1>7, <1>8, <1>10

\* A share for each order adds up to the share of what they hold.
LEMMA Shares ==
  ASSUME OnceInv, CountInv, NEW f, NEW unit \in Nat,
         \A s \in DOMAIN orders : f[s] = unit * qty[orders[s].fo]
  PROVE  Sum(f, DOMAIN orders) = unit * QuantityOf(Holding)
<1> DEFINE h == [s \in DOMAIN orders |-> orders[s].fo]
<1>1. \A s \in DOMAIN orders : orders[s].fo \in FulfillmentOrders
  BY DEF OnceInv, SyncTypes
<1>2. IsFiniteSet(DOMAIN orders)
  BY DEF CountInv, Numbered
<1>3. \A s \in DOMAIN orders : qty[h[s]] \in Nat /\ f[s] = unit * qty[h[s]]
  BY <1>1, Amount
<1>4. \A s, t \in DOMAIN orders : h[s] = h[t] => s = t
  BY DEF OnceInv, SyncedOnce
<1>5. {h[s] : s \in DOMAIN orders} = Holding
  BY DEF Holding
<1> HIDE DEF h
<1>6. Scales(f, DOMAIN orders, unit, qty, Holding, h)
  BY <1>3, <1>4, <1>5 DEF Scales
<1> QED BY <1>2, <1>6, SumImage DEF QuantityOf

\* The shipping is booked with the first order.
LEMMA FirstBears ==
  ASSUME NEW S, IsFiniteSet(S), NEW c \in Nat, NEW f,
         \A s \in S : f[s] = IF s = 0 THEN c ELSE 0
  PROVE  Sum(f, S) = IF 0 \in S THEN c ELSE 0
<1> DEFINE R == S \ {0}
<1>1. IsFiniteSet(R) /\ 0 \notin R /\ \A s \in R : f[s] = 0
  BY FS_Subset
<1>2. Sum(f, R) = 0
  <2>1. \A x \in R : f[x] \in Nat /\ f[x] = f[x] + f[x]
    BY <1>1
  <2>2. Sum(f, R) = Sum(f, R) + Sum(f, R)
    BY <1>1, <2>1, SumPlus
  <2>3. Sum(f, R) \in Nat
    BY <1>1, <2>1, SumType
  <2>4. \A n \in Nat : n = n + n => n = 0
    OBVIOUS
  <2> QED BY <2>2, <2>3, <2>4
<1>3. CASE 0 \in S
  <2>1. \A s \in S : f[s] \in Nat
    OBVIOUS
  <2>2. Sum(f, S) = f[0] + Sum(f, R)
    BY <1>3, <2>1, SumRemove
  <2> QED BY <1>2, <1>3, <2>2
<1>4. CASE 0 \notin S
  <2>1. R = S
    BY <1>4
  <2> QED BY <1>2, <1>4, <2>1
<1> QED BY <1>3, <1>4

LEMMA Bookings ==
  ASSUME Payable, OnceInv, CountInv, MappedInv
  PROVE  BookedOnce
<1> DEFINE D == DOMAIN orders
           q == QuantityOf(Holding)
           totals == [s \in D |-> orders[s]["total"]]
           taxes == [s \in D |-> orders[s]["tax"]]
           shippings == [s \in D |-> orders[s]["shipping"]]
           paidFor == [s \in D |-> pricePaid(qty[orders[s].fo])]
<1>1. /\ \A s \in D : orders[s].fo \in FulfillmentOrders /\ qty[orders[s].fo] \in Nat
      /\ Holding \in SUBSET FulfillmentOrders /\ IsFiniteSet(D)
  BY Amount DEF OnceInv, SyncTypes, Holding, CountInv, Numbered
<1>2. /\ q \in Nat /\ Quantity \in Nat /\ q =< Quantity
      /\ q = Quantity <=> Holding = FulfillmentOrders
  <2>1. Sum(qty, Holding) =< Sum(qty, FulfillmentOrders)
    BY <1>1, Amount, FulfillmentOrdersFinite, SumPart
  <2> QED BY <1>1, <2>1, Amount DEF QuantityOf
<1>3. shippingCost \in Nat
  BY Prices
<1>4. PICK unit \in Nat : \A n \in Nat : pricePaid(n) = unit * n
  BY Prices
<1>5. PICK tax \in Nat : \A n \in Nat : taxAmount(n) = tax * n
  BY Prices
<1>6. /\ \A s \in D : /\ totals[s] = paidFor[s] + shippings[s]
                      /\ paidFor[s] = unit * qty[orders[s].fo]
                      /\ taxes[s] = tax * qty[orders[s].fo]
                      /\ shippings[s] = IF s = 0 THEN shippingCost ELSE 0
  BY <1>1, <1>4, <1>5 DEF MappedInv, PricedAt
<1>7. Booked("total") = Sum(totals, D) /\ Booked("tax") = Sum(taxes, D)
      /\ Booked("shipping") = Sum(shippings, D)
  BY DEF Booked
<1> HIDE DEF totals, taxes, shippings, paidFor
<1>8. Sum(paidFor, D) = unit * q /\ Sum(taxes, D) = tax * q
  BY <1>6, Shares
<1>9. Sum(shippings, D) = IF 0 \in D THEN shippingCost ELSE 0
  BY <1>1, <1>3, <1>6, FirstBears
<1>10. Sum(totals, D) = Sum(paidFor, D) + Sum(shippings, D)
  <2>1. \A x, y \in Nat : x * y \in Nat
    OBVIOUS
  <2>2. \A s \in D : paidFor[s] \in Nat /\ shippings[s] \in Nat
    BY <1>1, <1>3, <1>4, <1>6, <2>1
  <2> QED BY <1>1, <1>6, <2>2, SumPlus
<1>11. Holding = FulfillmentOrders => 0 \in D
  BY OneIsOne DEF Holding, CountInv, Numbered
<1> DEFINE x == Booked("total")
           y == Booked("tax")
           z == Booked("shipping")
           P == pricePaid(Quantity)
           T == taxAmount(Quantity)
           ship == shippingCost
<1>12. P = unit * Quantity /\ T = tax * Quantity
  BY <1>2, <1>4, <1>5
<1>13. x = unit * q + z /\ y = tax * q /\ z = (IF 0 \in D THEN ship ELSE 0) /\ ship \in Nat
  BY <1>3, <1>7, <1>8, <1>9, <1>10
<1>14. /\ q = Quantity => Holding = FulfillmentOrders
       /\ Holding = FulfillmentOrders => q = Quantity
  BY <1>2
<1> HIDE DEF D, q, x, y, z, P, T, ship
<1>15. \A u \in Nat : u * q \in Nat /\ u * Quantity \in Nat /\ u * q =< u * Quantity
  <2>1. \A u, n, m \in Nat : n =< m => u * n =< u * m /\ u * n \in Nat /\ u * m \in Nat
    OBVIOUS
  <2> QED BY <1>2, <2>1
<1>16. x =< P + ship /\ y =< T /\ z =< ship
  BY <1>12, <1>13, <1>15
<1>17. Holding = FulfillmentOrders => x = P + ship /\ y = T /\ z = ship
  BY <1>11, <1>12, <1>13, <1>14
<1> QED BY <1>16, <1>17 DEF BookedOnce, x, y, z, P, T, ship

\* What the customer has paid is booked once, and when the middleware holds the whole order
\* to the last cent, for any quantities, prices, paging and failures.
THEOREM BookedFully == OneSync /\ LastMayLackSku /\ Payable => (Spec => []BookedOnce)
<1> SUFFICES ASSUME OneSync, LastMayLackSku, Payable PROVE Spec => []BookedOnce
  OBVIOUS
<1> DEFINE Inv == OnceInv /\ CountInv /\ MappedInv
<1>1. Init => Inv
  BY OnceInit, CountInit, MappedInit
<1>2. Inv /\ [Next]_vars => Inv'
  <2> SUFFICES ASSUME Inv, [Next]_vars PROVE Inv'
    OBVIOUS
  <2>1. OnceInv'
    BY OnceStep
  <2>2. CountInv'
    BY <2>1, CountStep
  <2>3. MappedInv'
    BY MappedStep
  <2> QED BY <2>1, <2>2, <2>3
<1>3. Inv => BookedOnce
  BY Bookings
<1> QED BY <1>1, <1>2, <1>3, PTL DEF Spec

(***************************************************************************)
(* A request on its way.                                                   *)
(***************************************************************************)
\* A sync has the fulfillment order in hand and is to send it.
Sends(new, f) == \E s \in DOMAIN new : new[s].fo = f
Has(w, f) ==
  \/ pc[w] = "filterExistingIds" /\ f \in page[w]
  \/ pc[w] = "calculateOrdersComplete" /\ f \in fresh[w]
  \/ pc[w] = "sendOrdersToMiddleware" /\ Sends(dtos[w], f)

\* It is dealt with, or a message under way will come to it, or a sync has it.
Carried(f) ==
  \/ f \in Holding \union closed
  \/ \E c \in triggers : c < f
  \/ \E w \in Syncs : Has(w, f)

\* What a sync has in hand is behind the cursor of its message, which a failure publishes
\* again.
AheadOf(w) ==
  /\ pc[w] \in {"filterExistingIds", "calculateOrdersComplete", "sendOrdersToMiddleware"} =>
       \A f \in page[w] : cursor[w] < f
  /\ Busy(w) => fresh[w] \subseteq page[w]
HandInv == DOMAIN cursor = Syncs /\ \A w \in Syncs : AheadOf(w)

\* A page is the first of what follows its cursor.
LEMMA PageFirst ==
  ASSUME submitted \subseteq FulfillmentOrders, NEW c, NEW f \in submitted, f > c,
         f \notin PageAfter(c)
  PROVE  Max(PageAfter(c)) \in PageAfter(c) /\ Max(PageAfter(c)) < f
<1> DEFINE ahead == {g \in submitted : g > c}
           before(g) == {x \in ahead : x < g}
           F == PageAfter(c)
<1>1. ahead \in SUBSET FulfillmentOrders /\ f \in ahead /\ \A g \in ahead : g \in Nat
  BY FulfillmentOrdersFinite
<1>2. F = {g \in ahead : Cardinality(before(g)) < PageLimit}
  BY DEF PageAfter, FirstOf
<1>3. PageLimit \in Nat /\ PageLimit > 0
  BY OrderSyncAssumption
<1> HIDE DEF ahead, F
<1>4. \A g \in ahead : IsFiniteSet(before(g)) /\ Cardinality(before(g)) \in Nat
  <2> SUFFICES ASSUME NEW g \in ahead PROVE IsFiniteSet(before(g)) /\ Cardinality(before(g)) \in Nat
    OBVIOUS
  <2>1. before(g) \in SUBSET FulfillmentOrders
    BY <1>1
  <2> QED BY <2>1, FulfillmentOrdersFinite
<1>5. F # {}
  <2>1. PICK least \in ahead : \A g \in ahead : least =< g
    BY <1>1, FulfillmentOrdersFinite
  <2>2. before(least) = {}
    <3> SUFFICES ASSUME NEW g \in ahead, g < least PROVE FALSE
      OBVIOUS
    <3>1. g \in Nat /\ least \in Nat /\ least =< g
      BY <1>1, <2>1
    <3> QED BY <3>1
  <2>3. Cardinality(before(least)) < PageLimit
    BY <1>3, <2>2, FS_EmptySet
  <2> QED BY <1>2, <2>3
<1>6. ASSUME NEW g \in F PROVE g < f
  <2> SUFFICES ASSUME ~(g < f) PROVE FALSE
    OBVIOUS
  <2>1. g \in ahead /\ g \in Nat /\ f \in Nat /\ Cardinality(before(g)) < PageLimit
    BY <1>1, <1>2
  <2>2. before(f) \in SUBSET before(g)
    <3> SUFFICES ASSUME NEW x \in ahead, x < f PROVE x < g
      BY Zenon
    <3>1. x \in Nat
      BY <1>1
    <3> QED BY <2>1, <3>1
  <2>3. Cardinality(before(f)) =< Cardinality(before(g))
    BY <1>4, <2>1, <2>2, FS_Subset
  <2>4. Cardinality(before(f)) < PageLimit
    BY <1>1, <1>3, <1>4, <2>1, <2>3
  <2>5. f \in F
    BY <1>1, <1>2, <2>4
  <2> QED BY <2>5 DEF F
<1>7. F \in SUBSET FulfillmentOrders
  BY <1>1, <1>2
<1>8. Max(F) \in F
  <2>1. PICK m \in F : \A x \in F : x =< m
    BY <1>5, <1>7, Greatest
  <2>2. \A x \in F : x \in Nat
    BY <1>7, FulfillmentOrdersFinite
  <2>3. \A x \in F : m >= x
    BY <2>1, <2>2
  <2> QED BY <2>3 DEF Max
<1> QED BY <1>6, <1>8 DEF F

\* An order is made for each that has an item.
LEMMA EachIsMade ==
  ASSUME NEW w, NEW held, fresh[w] \in SUBSET FulfillmentOrders, Cardinality(known[w]) \in Nat,
         NEW f \in WithItems(fresh[w])
  PROVE  Sends(NewOrders(w, held), f)
<1> DEFINE new == NewOrders(w, held)
           s == Suffix(f, Cardinality(known[w]), fresh[w])
<1>1. s \in DOMAIN new
  BY DEF NewOrders, fulfillmentCountByExistingCustomerIds
<1>2. PICK g \in WithItems(fresh[w]) : SuffixOf(w, g) = s /\ new[s].fo = g
  BY <1>1, Made DEF Order
<1>3. g = f
  BY <1>2, SuffixInjective DEF SuffixOf, WithItems
<1> QED BY <1>1, <1>2, <1>3 DEF Sends

LEMMA HandInit == Init => HandInv
BY DEF Init, HandInv, AheadOf, Busy

LEMMA HandStep ==
  ASSUME OneSync, OnceInv, HandInv, [Next]_vars
  PROVE  HandInv'
<1> USE DEF HandInv
<1>0. ASSUME UNCHANGED <<pc, cursor, page, fresh>> PROVE HandInv'
  BY <1>0 DEF AheadOf, Busy
<1>1. ASSUME NEW f \in FulfillmentOrders,
             requestFulfillment(f) \/ setSku(f) \/ accept(f) \/ pay \/ schedule
      PROVE  HandInv'
  BY <1>0, <1>1 DEF requestFulfillment, setSku, accept, pay, schedule, local
<1>2. ASSUME NEW event \in SUBSET FulfillmentOrders, cancelFulfillmentOrder(event) PROVE HandInv'
  BY <1>0, <1>2 DEF cancelFulfillmentOrder, local
<1>3. ASSUME NEW w \in Syncs, NEW c \in Cursors, getFulfillmentOrders(w, c) PROVE HandInv'
  <2>1. CASE PageAfter(c) = {}
    BY <1>0, <1>3, <2>1 DEF getFulfillmentOrders
  <2>2. CASE PageAfter(c) # {}
    <3>1. /\ \A v \in Syncs : v = w
          /\ pc'[w] \in {"filterExistingIds", "filterUnpaid"}
          /\ cursor' = [cursor EXCEPT ![w] = c] /\ page'[w] = PageAfter(c)
      BY <1>3, <2>2 DEF getFulfillmentOrders, Goto, OneSync, OnceInv, SyncTypes
    <3>2. \A f \in PageAfter(c) : c < f
      <4> SUFFICES ASSUME NEW f \in PageAfter(c) PROVE c < f
        OBVIOUS
      <4>1. f \in FulfillmentOrders /\ f > c
        BY DEF PageAfter, FirstOf, OnceInv, SyncTypes
      <4> QED BY <4>1
    <3> QED BY <3>1, <3>2 DEF AheadOf, Busy
  <2> QED BY <2>1, <2>2
<1>4. ASSUME NEW w \in Syncs, Return(w) PROVE HandInv'
  <2>1. (\A v \in Syncs : pc'[v] = "idle") /\ DOMAIN cursor' = Syncs
    BY <1>4 DEF Return, Goto, OneSync, OnceInv, SyncTypes
  <2> QED BY <2>1 DEF AheadOf, Busy
<1>5. ASSUME NEW w \in Syncs, filterExistingIds(w) PROVE HandInv'
  <2>1. CASE page[w] \subseteq Holding
    BY <1>4, <1>5, <2>1 DEF filterExistingIds
  <2>2. CASE ~(page[w] \subseteq Holding)
    <3>1. /\ pc[w] = "filterExistingIds" /\ UNCHANGED <<page, cursor>>
          /\ fresh'[w] \subseteq page[w]
          /\ \A v \in Syncs : v = w
      BY <1>5, <2>2 DEF filterExistingIds, OneSync, OnceInv, SyncTypes
    <3> QED BY <3>1 DEF AheadOf
  <2> QED BY <2>1, <2>2
<1>6. ASSUME NEW w \in Syncs, rejectUnpaid(w) PROVE HandInv'
  BY <1>4, <1>6 DEF rejectUnpaid
<1>7. ASSUME NEW w \in Syncs, calculateOrdersComplete(w) PROVE HandInv'
  <2>1. /\ pc[w] = "calculateOrdersComplete" /\ UNCHANGED <<page, cursor, fresh>>
        /\ \A v \in Syncs : v = w
    BY <1>7 DEF calculateOrdersComplete, OneSync
  <2> QED BY <2>1 DEF AheadOf, Busy
<1>8. ASSUME NEW w \in Syncs, sendOrdersToMiddleware(w) PROVE HandInv'
  BY <1>4, <1>8 DEF sendOrdersToMiddleware
<1>9. ASSUME NEW w \in Syncs, fails(w) PROVE HandInv'
  BY <1>4, <1>9 DEF fails
<1>10. CASE UNCHANGED vars
  BY <1>0, <1>10 DEF vars, local
<1>11. FulfillmentOrders # {}
  BY OneIsOne
<1> QED BY <1>1, <1>2, <1>3, <1>5, <1>6, <1>7, <1>8, <1>9, <1>10, <1>11 DEF Next, getOrders

\* No step drops it.
LEMMA CarriedStep ==
  ASSUME OneSync, LastMayLackSku, OnceInv, CountInv, HandInv, [Next]_vars,
         NEW f \in submitted, paid, f \in mappable, Carried(f)
  PROVE  Carried(f)'
<1>h. f \in Holding => f \in Holding'
  BY KeepsStep DEF Holding
<1>0. ASSUME UNCHANGED <<pc, page, fresh, dtos>>, triggers \subseteq triggers', closed \subseteq closed'
      PROVE  Carried(f)'
  BY <1>h, <1>0 DEF Carried, Has
<1>1. ASSUME NEW g \in FulfillmentOrders,
             requestFulfillment(g) \/ setSku(g) \/ accept(g) \/ pay \/ schedule
      PROVE  Carried(f)'
  BY <1>0, <1>1 DEF requestFulfillment, setSku, accept, pay, schedule, local, shop
<1>2. ASSUME NEW event \in SUBSET FulfillmentOrders, cancelFulfillmentOrder(event) PROVE Carried(f)'
  BY <1>0, <1>2 DEF cancelFulfillmentOrder, local
<1>3. ASSUME NEW w \in Syncs, NEW c \in Cursors, getFulfillmentOrders(w, c) PROVE Carried(f)'
  <2> DEFINE F == PageAfter(c)
             HasNextPage == \E g \in submitted : g > c /\ g \notin F
  <2>1. /\ pc[w] = "idle" /\ UNCHANGED <<closed, orders>>
        /\ triggers' = (triggers \ {c}) \union (IF HasNextPage THEN {Max(F)} ELSE {})
        /\ F # {} => /\ pc' = [pc EXCEPT ![w] = "filterExistingIds"]
                     /\ page' = [page EXCEPT ![w] = F]
    BY <1>3 DEF getFulfillmentOrders, Goto, shop
  <2>2. \A v \in Syncs : v = w
    BY DEF OneSync
  <2>3. CASE \E b \in triggers \ {c} : b < f
    BY <2>1, <2>3 DEF Carried
  <2>4. CASE c < f
    <3>1. submitted \subseteq FulfillmentOrders /\ f > c
      <4>1. submitted \subseteq FulfillmentOrders
        BY DEF OnceInv, SyncTypes
      <4> QED BY <2>4, <4>1
    <3>2. CASE f \in F
      BY <2>1, <3>2 DEF Carried, Has, OnceInv, SyncTypes
    <3>3. CASE f \notin F
      <4>1. Max(F) < f
        BY <3>1, <3>3, PageFirst
      <4>2. Max(F) \in triggers'
        BY <2>1, <3>1, <3>3
      <4> QED BY <4>1, <4>2 DEF Carried
    <3> QED BY <3>2, <3>3
  <2>5. CASE f \in Holding \union closed
    BY <1>h, <2>1, <2>5 DEF Carried
  <2> QED BY <2>1, <2>2, <2>3, <2>4, <2>5 DEF Carried, Has
<1>4. ASSUME NEW w \in Syncs, f \in Holding' \union closed PROVE Carried(f)'
  <2>1. closed \subseteq closed'
    BY DEF Next, requestFulfillment, pay, setSku, accept, schedule, getFulfillmentOrders, shop,
           getOrders, filterExistingIds, rejectUnpaid, calculateOrdersComplete, fails,
           sendOrdersToMiddleware, cancelFulfillmentOrder, vars
  <2> QED BY <1>4, <2>1 DEF Carried
<1>5. ASSUME NEW w \in Syncs, triggers' = triggers,
             Has(w, f) => f \in Holding' \/ Has(w, f)'
      PROVE  Carried(f)'
  <2>1. \A v \in Syncs : v = w
    BY DEF OneSync
  <2> QED BY <1>h, <1>4, <1>5, <2>1 DEF Carried
<1>6. ASSUME NEW w \in Syncs, filterExistingIds(w) PROVE Carried(f)'
  <2>1. pc[w] = "filterExistingIds" /\ triggers' = triggers /\ orders' = orders
    BY <1>6 DEF filterExistingIds
  <2>2. CASE page[w] \subseteq Holding
    BY <1>5, <2>1, <2>2 DEF Has, Holding
  <2>3. CASE ~(page[w] \subseteq Holding)
    <3>1. fresh'[w] = page[w] \ Holding /\ pc'[w] = "calculateOrdersComplete"
      BY <1>6, <2>3 DEF filterExistingIds, Goto, OnceInv, SyncTypes
    <3> QED BY <1>5, <2>1, <3>1 DEF Has, Holding
  <2> QED BY <2>2, <2>3
<1>7. ASSUME NEW w \in Syncs, rejectUnpaid(w) PROVE Carried(f)'
  BY <1>5, <1>7 DEF rejectUnpaid, Has
<1>8. ASSUME NEW w \in Syncs, calculateOrdersComplete(w) PROVE Carried(f)'
  <2> DEFINE new == NewOrders(w, demoShopifyQuantity(w))
  <2>1. /\ pc[w] = "calculateOrdersComplete" /\ triggers' = triggers
        /\ pc'[w] = "sendOrdersToMiddleware" /\ dtos'[w] = new
    BY <1>8 DEF calculateOrdersComplete, Goto, OnceInv, SyncTypes
  <2>2. fresh[w] \in SUBSET FulfillmentOrders /\ Cardinality(known[w]) \in Nat
    BY <2>1, FS_CardinalityType DEF OnceInv, SyncTypes, Fetched, Busy, CountInv, Numbered
  <2>3. ASSUME f \in fresh[w] PROVE Sends(new, f)
    <3>1. f \in WithItems(fresh[w])
      BY <2>3 DEF WithItems
    <3> QED BY <2>2, <3>1, EachIsMade
  <2> HIDE DEF new
  <2> QED BY <1>5, <2>1, <2>3 DEF Has
<1>9. ASSUME NEW w \in Syncs, sendOrdersToMiddleware(w) PROVE Carried(f)'
  <2>1. pc[w] = "sendOrdersToMiddleware" /\ triggers' = triggers /\ orders' = Upserted(dtos[w])
    BY <1>9 DEF sendOrdersToMiddleware
  <2>2. Sends(dtos[w], f) => f \in Holding'
    BY <2>1 DEF Upserted, Holding, Sends
  <2> QED BY <1>5, <2>1, <2>2 DEF Has
<1>10. ASSUME NEW w \in Syncs, fails(w) PROVE Carried(f)'
  <2>1. triggers' = triggers \union {cursor[w]} /\ closed' = closed
    BY <1>10 DEF fails, shop
  <2>2. ASSUME Has(w, f) PROVE cursor[w] < f
    BY <2>2 DEF Has, Sends, HandInv, AheadOf, Busy, OnceInv, Built
  <2>3. \A v \in Syncs : v = w
    BY DEF OneSync
  <2> QED BY <1>h, <2>1, <2>2, <2>3 DEF Carried
<1>11. CASE UNCHANGED vars
  BY <1>0, <1>11 DEF vars, local, shop
<1>12. FulfillmentOrders # {}
  BY OneIsOne
<1> QED
  BY <1>1, <1>2, <1>3, <1>6, <1>7, <1>8, <1>9, <1>10, <1>11, <1>12 DEF Next, getOrders

\* No request is dropped between the pages (shopify.service.ts:730): once a message
\* is under way that will come to a paid fulfillment order, one is until it has its order or is
\* closed, whatever pages are published before they are written and whichever sync fails.
NeverDropped ==
  [][\A f \in submitted : paid /\ f \in mappable /\ Carried(f) => Carried(f)']_vars
THEOREM NoneDropped == OneSync /\ LastMayLackSku => (Spec => NeverDropped)
<1> SUFFICES ASSUME OneSync, LastMayLackSku PROVE Spec => NeverDropped
  OBVIOUS
<1> DEFINE Inv == OnceInv /\ CountInv /\ HandInv
<1>1. Init => Inv
  BY OnceInit, CountInit, HandInit
<1>2. Inv /\ [Next]_vars => Inv'
  BY OnceStep, CountStep, HandStep
<1>3. Inv /\ [Next]_vars =>
        [\A f \in submitted : paid /\ f \in mappable /\ Carried(f) => Carried(f)']_vars
  BY CarriedStep
<1> QED BY <1>1, <1>2, <1>3, PTL DEF Spec, NeverDropped
================================================================================
