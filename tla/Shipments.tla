------------------------------- MODULE Shipments -------------------------------
(***************************************************************************)
(* ShopifyService.createShipments for the shipments of one order: what the *)
(* warehouse has shipped is split over the order's items, recorded in      *)
(* their metaInfo.shipped_quantity and fulfilled in Shopify. Failed        *)
(* shipments come back later as a retry; how often is RetryEvents' concern *)
(* and not bounded here.                                                   *)
(*                                                                         *)
(* A shipment is a function from SKU to the quantity that is left to       *)
(* allocate (outboundShipmentItemSkuToQuantityMapping). The mapper counts  *)
(* it down in place, in the message the consumer holds.                    *)
(***************************************************************************)
EXTENDS Integers, Sequences, FiniteSets, SequencesExt, Sums

CONSTANTS
  NItems,       \* number of order items
  Skus,
  sku,          \* the SKU of each item
  quantity,     \* the ordered quantity of each item
  Linked,       \* items with a shopify_fulfillment_order_line_item_gid
  Messages,     \* published messages: each a sequence of shipments
  Workers,      \* consumer instances
  MaxFailures,  \* bound: calls that fail
  MaxCrashes    \* bound: process crashes

Items == 1..NItems
Shipment == [Skus -> Nat]
Msgs == DOMAIN Messages

ASSUME ShipmentsAssumption ==
  /\ NItems \in Nat
  /\ sku \in [Items -> Skus]
  /\ quantity \in [Items -> Nat]
  /\ Linked \subseteq Items
  /\ Messages \in Seq(Seq(Shipment))
  /\ MaxFailures \in Nat /\ MaxCrashes \in Nat

VARIABLES
  shipped,    \* metaInfo.shipped_quantity of each item, in the middleware
  fulfilled,  \* fulfilled quantity of each item, in Shopify
  data,       \* what the next delivery of each message carries
  isRetry,    \* has the message a retry event?
  phase,      \* queued, taken, due (waiting for its retry) or done
  pc, job,    \* the next call of each worker, and its message
  k,          \* the shipment it is at
  ships,      \* its copy of the message's data
  seen,       \* shipped_quantity as getOrder returned it
  todo,       \* items whose update is still to be written
  lines,      \* line items of each dto built so far
  failed,     \* failedShipments, by index
  budget,     \* failures and crashes left
  overlapped  \* ghost: have two messages been handled at the same time?

record == <<shipped, fulfilled>>
msgVars == <<data, isRetry, phase, overlapped>>
local == <<k, ships, seen, todo, lines, failed>>
vars == <<record, msgVars, pc, job, local, budget>>

NoMsg == 0
Nothing == [i \in Items |-> 0]

Init ==
  /\ shipped = Nothing
  /\ fulfilled = Nothing
  /\ data = Messages
  /\ isRetry = [m \in Msgs |-> FALSE]
  /\ phase = [m \in Msgs |-> "queued"]
  /\ pc = [w \in Workers |-> "idle"]
  /\ job = [w \in Workers |-> NoMsg]
  /\ k = [w \in Workers |-> 0]
  /\ ships = [w \in Workers |-> <<>>]
  /\ seen = [w \in Workers |-> Nothing]
  /\ todo = [w \in Workers |-> {}]
  /\ lines = [w \in Workers |-> <<>>]
  /\ failed = [w \in Workers |-> {}]
  /\ budget = [failure |-> MaxFailures, crash |-> MaxCrashes]
  /\ overlapped = FALSE

Goto(w, step) == pc' = [pc EXCEPT ![w] = step]
Fail == budget.failure > 0 /\ budget' = [budget EXCEPT !.failure = @ - 1]

----------------------------------------------------------------------------
(* getOutboundShipmentItemList                                             *)

Room(i, had) == quantity[i] - had[i]
Before(i) == {j \in Items : j < i /\ sku[j] = sku[i]}
Least(m, n) == IF m =< n THEN m ELSE n

\* Variant: what was shipped before is not looked at.
AllocatedAfresh(ls, had, left) ==
  \A i \in Items :
    ls[i] = Least(quantity[i], left[sku[i]] - Sum(ls, Before(i)))

\* In the order of the items, each takes what is left of its SKU, up to what it
\* still lacks.
Allocated(ls, had, left) ==
  \A i \in Items :
    ls[i] = IF had[i] < quantity[i]
            THEN Least(Room(i, had), left[sku[i]] - Sum(ls, Before(i))) ELSE 0

\* The first item without a gid ends the loop with an empty list; the mapping
\* has been counted down for the items before it.
Unlinked(ls) == {i \in Items \ Linked : ls[i] > 0}
Counted(ls) == {i \in Items : \A j \in Unlinked(ls) : i < j}
ItemList(ls) == IF Unlinked(ls) = {} THEN ls ELSE Nothing
CountDown(ls, left) ==
  [s \in Skus |-> left[s] - Sum(ls, {i \in Counted(ls) : sku[i] = s})]

----------------------------------------------------------------------------
(* createShipments                                                         *)

deliver(w, m) ==
  /\ pc[w] = "idle"
  /\ phase[m] = "queued"
  /\ phase' = [phase EXCEPT ![m] = "taken"]
  /\ job' = [job EXCEPT ![w] = m]
  /\ ships' = [ships EXCEPT ![w] = data[m]]
  /\ k' = [k EXCEPT ![w] = 1]
  /\ Goto(w, "getOrder")
  /\ overlapped' = (overlapped \/ \E v \in Workers : pc[v] # "idle")
  /\ UNCHANGED <<record, data, isRetry, seen, todo, lines, failed, budget>>

\* Variant: the order is read once, before the first shipment.
getOrderOnce(w) ==
  /\ pc[w] = "getOrder"
  /\ seen' = [seen EXCEPT ![w] = IF k[w] = 1 THEN shipped ELSE @]
  /\ Goto(w, "map")
  /\ UNCHANGED <<record, msgVars, job, k, ships, todo, lines, failed, budget>>

getOrder(w) ==
  /\ pc[w] = "getOrder"
  /\ seen' = [seen EXCEPT ![w] = shipped]
  /\ Goto(w, "map")
  /\ UNCHANGED <<record, msgVars, job, k, ships, todo, lines, failed, budget>>

\* getShopShipmentDto: nothing is awaited between it and the first update.
getShopShipmentDto(w) ==
  /\ pc[w] = "map"
  /\ \E ls \in [Items -> 0..Max({quantity[i] : i \in Items})] :
       /\ Allocated(ls, seen[w], ships[w][k[w]])
       /\ lines' = [lines EXCEPT ![w] = Append(@, ItemList(ls))]
       /\ todo' = [todo EXCEPT ![w] = {i \in Items : ItemList(ls)[i] > 0}]
       /\ ships' = [ships EXCEPT ![w][k[w]] = CountDown(ls, @)]
  /\ Goto(w, "record")
  /\ UNCHANGED <<record, msgVars, job, k, seen, failed, budget>>

\* updateOrderItem writes the whole metaInfo as it was read, plus the quantity.
updateOrderItem(w) ==
  /\ pc[w] = "record"
  /\ \E i \in todo[w] :
       /\ \A j \in todo[w] : i =< j
       /\ shipped' = [shipped EXCEPT ![i] = seen[w][i] + lines[w][k[w]][i]]
       /\ todo' = [todo EXCEPT ![w] = @ \ {i}]
  /\ UNCHANGED <<fulfilled, msgVars, pc, job, k, ships, seen, lines, failed, budget>>

nextShipment(w) ==
  /\ pc[w] = "record"
  /\ todo[w] = {}
  /\ \/ /\ k[w] < Len(ships[w])
        /\ k' = [k EXCEPT ![w] = @ + 1]
        /\ Goto(w, "getOrder")
     \/ /\ k[w] = Len(ships[w])
        /\ k' = [k EXCEPT ![w] = 1]
        /\ Goto(w, "send")
  /\ UNCHANGED <<record, msgVars, job, ships, seen, todo, lines, failed, budget>>

\* Shopify: without line items a fulfillment covers all that remains of the
\* fulfillment order; it is refused when nothing remains, or too little.
Remaining == [i \in Items |-> quantity[i] - fulfilled[i]]
Covers(ls) == IF ls = Nothing THEN Remaining ELSE ls
Accepts(ls) ==
  /\ Covers(ls) # Nothing
  /\ \A i \in Items : Covers(ls)[i] =< Remaining[i]
Fulfil(ls) == fulfilled' = [i \in Items |-> fulfilled[i] + Covers(ls)[i]]

\* graphql-shopify.service.ts: an error in the answer is thrown, and the answer to a
\* fulfillment that was made may be lost.
fulfillmentCreate(ls, throws) ==
  \/ Accepts(ls) /\ Fulfil(ls) /\ ~throws /\ UNCHANGED budget
  \/ Accepts(ls) /\ Fulfil(ls) /\ throws /\ Fail
  \/ UNCHANGED fulfilled /\ throws /\ Fail
  \/ ~Accepts(ls) /\ throws /\ UNCHANGED <<fulfilled, budget>>

\* sendShipmentsToShop: each shipment is tried, an error puts it on failedShipments.
createFulfillment(w) ==
  /\ pc[w] = "send"
  /\ k[w] =< Len(lines[w])
  /\ \E throws \in BOOLEAN :
       /\ fulfillmentCreate(lines[w][k[w]], throws)
       /\ failed' = [failed EXCEPT ![w] = IF throws THEN @ \union {k[w]} ELSE @]
  /\ k' = [k EXCEPT ![w] = @ + 1]
  /\ UNCHANGED <<shipped, msgVars, pc, job, ships, seen, todo, lines>>

Forget(w) ==
  /\ pc' = [pc EXCEPT ![w] = "idle"]
  /\ job' = [job EXCEPT ![w] = NoMsg]
  /\ k' = [k EXCEPT ![w] = 0]
  /\ ships' = [ships EXCEPT ![w] = <<>>]
  /\ seen' = [seen EXCEPT ![w] = Nothing]
  /\ todo' = [todo EXCEPT ![w] = {}]
  /\ lines' = [lines EXCEPT ![w] = <<>>]
  /\ failed' = [failed EXCEPT ![w] = {}]

\* createOrUpdate: a new retry event takes the failed shipments as the consumer
\* holds them; a retry that failed for every shipment keeps its data.
FailedShips(w) ==
  LET Indices == SetToSortSeq(failed[w], <) IN
    [n \in DOMAIN Indices |-> ships[w][Indices[n]]]

returns(w) ==
  /\ pc[w] = "send"
  /\ k[w] > Len(lines[w])
  /\ LET m == job[w] IN
       IF failed[w] = {}
       THEN /\ phase' = [phase EXCEPT ![m] = "done"]
            /\ UNCHANGED <<data, isRetry>>
       ELSE /\ phase' = [phase EXCEPT ![m] = "due"]
            /\ isRetry' = [isRetry EXCEPT ![m] = TRUE]
            /\ data' = IF isRetry[m] /\ failed[w] = DOMAIN ships[w] THEN data
                       ELSE [data EXCEPT ![m] = FailedShips(w)]
  /\ Forget(w)
  /\ UNCHANGED <<record, budget, overlapped>>

\* getOrder or updateOrderItem rejects: the whole message is to be retried, with
\* the data as it is by now if it has no retry event yet.
throws(w) ==
  /\ pc[w] \in {"getOrder", "record"}
  /\ pc[w] = "record" => todo[w] # {}
  /\ Fail
  /\ LET m == job[w] IN
       /\ phase' = [phase EXCEPT ![m] = "due"]
       /\ isRetry' = [isRetry EXCEPT ![m] = TRUE]
       /\ data' = IF isRetry[m] THEN data ELSE [data EXCEPT ![m] = ships[w]]
  /\ Forget(w)
  /\ UNCHANGED <<record, overlapped>>

\* The retry job publishes the row again.
retry(m) ==
  /\ phase[m] = "due"
  /\ phase' = [phase EXCEPT ![m] = "queued"]
  /\ UNCHANGED <<record, data, isRetry, pc, job, local, budget, overlapped>>

\* The process dies, the message is delivered again as it was published.
crash(w) ==
  /\ pc[w] # "idle"
  /\ budget.crash > 0
  /\ budget' = [budget EXCEPT !.crash = @ - 1]
  /\ phase' = [phase EXCEPT ![job[w]] = "queued"]
  /\ Forget(w)
  /\ UNCHANGED <<record, data, isRetry, overlapped>>

createShipments(w) ==
  \/ getOrder(w)
  \/ getShopShipmentDto(w)
  \/ updateOrderItem(w)
  \/ nextShipment(w)
  \/ createFulfillment(w)
  \/ returns(w)

Next ==
  \/ \E w \in Workers, m \in Msgs : deliver(w, m)
  \/ \E w \in Workers : createShipments(w)
  \/ \E w \in Workers : throws(w)
  \/ \E m \in Msgs : retry(m)
  \/ \E w \in Workers : crash(w)

Spec == Init /\ [][Next]_vars

----------------------------------------------------------------------------
\* No item is recorded as shipped more often than it was ordered, though the
\* record is written from a reading that may be stale and a message may be
\* handled several times.
RecordWithinOrder == \A i \in Items : shipped[i] =< quantity[i]

\* Whatever the split over items and the order of the messages, once all are
\* handled the record, Shopify and the warehouse agree: item by item, and SKU by
\* SKU. That takes messages handled one after the other and calls that succeed.
Undisturbed ==
  /\ ~overlapped
  /\ budget = [failure |-> MaxFailures, crash |-> MaxCrashes]
ShippedBy(s) == Sum([m \in Msgs |-> Sum([n \in DOMAIN Messages[m] |-> Messages[m][n][s]],
                                        DOMAIN Messages[m])], Msgs)
FulfilledOf(s) == Sum(fulfilled, {i \in Items : sku[i] = s})
AllAgree ==
  Undisturbed /\ (\A m \in Msgs : phase[m] = "done") =>
    /\ shipped = fulfilled
    /\ \A s \in Skus : FulfilledOf(s) = ShippedBy(s)

\* A customer is never told that something was shipped that is still in the
\* warehouse: no SKU is fulfilled beyond what the messages have shipped. A retry
\* repeats a shipment, it does not extend it (README.md:13, "Automatic retry
\* mechanisms and fault tolerance").
NeverOverFulfilled == \A s \in Skus : FulfilledOf(s) =< ShippedBy(s)
================================================================================
