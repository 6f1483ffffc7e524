------------------------------- MODULE Refunds -------------------------------
(***************************************************************************)
(* Refunds of orders: createRefundOrders of shopify.service.ts, which works*)
(* off a message with several refunds, and calculateRefundOrder and        *)
(* createRefundOrder of shop-connectors.service.ts, which a user calls for  *)
(* one.  Both refund at Shopify first and record the refund in the         *)
(* middleware (refund-orders.service.ts) after.                            *)
(*                                                                         *)
(* The message is of a kind that retry-event.service.ts does not retry     *)
(* (canRetry), so an exception ends it; a crash or a rebalance before its  *)
(* offset is committed has it delivered again, from its first entry.       *)
(* Amounts are left out: an entry has a quantity of one item.              *)
(***************************************************************************)
EXTENDS Naturals, Sequences

CONSTANTS Jobs,         \* messages and user requests
          Orders,
          MaxEntries,   \* entries of a message
          MaxQuantity,  \* quantity of the item in an order
          MaxRepeats,   \* bound on deliveries after the first, and second clicks of a user
          MaxCrashes    \* bound on calls that break off between two awaits

\* What the constants must be; MCServices assumes it of its instance.
ConstantsFit ==
  /\ {MaxEntries, MaxQuantity, MaxRepeats, MaxCrashes} \subseteq Nat
  /\ MaxEntries > 0

VARIABLES order,     \* the orders of the middleware
          refunded,  \* at Shopify: the quantity refunded of an order
          job,       \* the entries of a job and how far it has come
          refunds,   \* at Shopify: how often an entry was refunded
          records,   \* refund orders of the middleware made for an entry
          linked,    \* entries with a record that carries the id of its refund
          lost,      \* ghost: refunds of an entry whose call ended before the record
          repeats, crashes

vars == <<order, refunded, job, refunds, records, linked, lost, repeats, crashes>>

\* one piece, or more than was ordered
Entry == [order : Orders, quantity : {1, MaxQuantity + 1}]
\* channel "manual"; metaInfo.fulfillment_order_id; a location for the restock,
\* of the line or of the implementation
Order == [manual : BOOLEAN, hasFulfillmentOrder : BOOLEAN, hasLocation : BOOLEAN]

Positions == 1..MaxEntries
NoEntries == [k \in Positions |-> 0]
NoJob == [kind |-> "none", pc |-> "idle", entries |-> <<>>, at |-> 1, runs |-> 0]

Init ==
  /\ order \in [Orders -> Order]
  /\ refunded = [o \in Orders |-> 0]
  /\ job = [j \in Jobs |-> NoJob]
  /\ refunds = [j \in Jobs |-> NoEntries]
  /\ records = [j \in Jobs |-> NoEntries]
  /\ linked = {}
  /\ lost = [j \in Jobs |-> NoEntries]
  /\ repeats = 0 /\ crashes = 0

Current(j) == job[j].entries[job[j].at]
Goto(j, pc) == job' = [job EXCEPT ![j].pc = pc]
Throws(j) == Goto(j, "threw")

----------------------------------------------------------------------------
Publish(j, n, entries) ==
  /\ job[j].pc = "idle"
  /\ job' = [job EXCEPT ![j] = [kind |-> "message", pc |-> "calculate", at |-> 1, runs |-> 1,
                                entries |-> [k \in 1..n |-> entries[k]]]]
  /\ UNCHANGED <<order, refunded, refunds, records, linked, lost, repeats, crashes>>

Click(j, e) ==
  /\ job[j].pc = "idle"
  /\ job' = [job EXCEPT ![j] = [kind |-> "user", pc |-> "calculate", at |-> 1, runs |-> 1,
                                entries |-> [k \in 1..1 |-> e]]]
  /\ UNCHANGED <<order, refunded, refunds, records, linked, lost, repeats, crashes>>

\* refundOrdersService.calculateRefundOrder refuses more than was ordered ...
Ordered(e) == e.quantity =< MaxQuantity

\* ... and Shopify (suggestedRefund, refundCreate) more than is left to refund, which
\* ends the call: an error in a response is thrown by the interceptor.
Refundable(e) == refunded[e.order] + e.quantity =< MaxQuantity

\* calculateRefund of the connector: a manual order is not Shopify's to calculate.
calculateRefund(e) == order[e.order].manual \/ Refundable(e)

calculateRefundOrder(j) ==
  /\ job[j].pc = "calculate"
  /\ Goto(j, IF Ordered(Current(j)) /\ calculateRefund(Current(j)) THEN "create" ELSE "threw")
  /\ UNCHANGED <<order, refunded, refunds, records, linked, lost, repeats, crashes>>

\* On to the next entry, or the end
NextEntry(j) ==
  job' = [job EXCEPT ![j].at = IF @ < Len(job[j].entries) THEN @ + 1 ELSE @,
                     ![j].pc = IF job[j].at < Len(job[j].entries) THEN "calculate" ELSE "done"]
\* Variant: a refund that was not made ends the message.
EndsMessage(j) == Goto(j, "done")

\* createRefundOrder returns null for a manual order: the message goes on.
SkipsManual(j) == NextEntry(j)

\* What getShopifyCreateRefundPayload needs; createRefundOrder needs the first.
HasPayload(o) == order[o].hasFulfillmentOrder /\ order[o].hasLocation

\* refundCreate of Shopify
createRefund(j, e) ==
  /\ refunded' = [refunded EXCEPT ![e.order] = @ + e.quantity]
  /\ refunds' = [refunds EXCEPT ![j][job[j].at] = @ + 1]

createRefundOrder(j) ==
  /\ job[j].pc = "create"
  /\ LET e == Current(j)
         accepted == HasPayload(e.order) /\ Refundable(e)
     IN \/ /\ order[e.order].manual
           /\ SkipsManual(j)
           /\ UNCHANGED <<refunded, refunds>>
        \/ /\ ~order[e.order].manual /\ ~accepted
           /\ Throws(j)
           /\ UNCHANGED <<refunded, refunds>>
        \/ /\ ~order[e.order].manual /\ accepted
           /\ createRefund(j, e)
           /\ Goto(j, "record")
  /\ UNCHANGED <<order, records, linked, lost, repeats, crashes>>

\* createRefundOrderAfterRefundCalculation.  createRefundOrders puts the id of the
\* refund on the first calculation and records the second one, which has none.
createRefundOrderAfterRefundCalculation(j) ==
  /\ job[j].pc = "record"
  /\ records' = [records EXCEPT ![j][job[j].at] = @ + 1]
  /\ linked' = IF job[j].kind = "user" THEN linked \cup {<<j, job[j].at>>} ELSE linked
  /\ NextEntry(j)
  /\ UNCHANGED <<order, refunded, refunds, lost, repeats, crashes>>

\* The process dies or an awaited call throws.
BreakOff(j) ==
  /\ crashes < MaxCrashes /\ job[j].pc \in {"calculate", "create", "record"}
  /\ Throws(j)
  /\ lost' = [lost EXCEPT ![j][job[j].at] = IF job[j].pc = "record" THEN @ + 1 ELSE @]
  /\ crashes' = crashes + 1
  /\ UNCHANGED <<order, refunded, refunds, records, linked, repeats>>

\* The broker delivers the message once more, or the user sends the calculation
\* that the browser still shows again.
Again(j) ==
  /\ repeats < MaxRepeats /\ job[j].pc \in {"threw", "done"}
  /\ job' = [job EXCEPT ![j].pc = IF job[j].kind = "user" THEN "create" ELSE "calculate",
                        ![j].at = 1, ![j].runs = @ + 1]
  /\ repeats' = repeats + 1
  /\ UNCHANGED <<order, refunded, refunds, records, linked, lost, crashes>>

----------------------------------------------------------------------------
Next ==
  \E j \in Jobs :
    \/ \E n \in Positions : \E entries \in [1..n -> Entry] : Publish(j, n, entries)
    \/ \E e \in Entry : Click(j, e)
    \/ calculateRefundOrder(j)
    \/ createRefundOrder(j)
    \/ createRefundOrderAfterRefundCalculation(j)
    \/ BreakOff(j)
    \/ Again(j)

Spec == Init /\ [][Next]_vars

----------------------------------------------------------------------------
InRecord(j, k) == job[j].pc = "record" /\ job[j].at = k

\* Shopify's refunds and the middleware's records of an entry differ by exactly
\* the calls that ended between the two; a message refunds an entry at most once
\* a delivery; and a message that runs to its end in its first delivery has
\* refunded and recorded every entry whose order is not manual.
RefundsAddUp ==
  \A j \in Jobs : \A k \in DOMAIN job[j].entries :
    /\ refunds[j][k] = records[j][k] + lost[j][k] + (IF InRecord(j, k) THEN 1 ELSE 0)
    /\ refunds[j][k] =< job[j].runs
    /\ job[j].pc = "done" /\ ~order[job[j].entries[k].order].manual => records[j][k] > 0
    /\ order[job[j].entries[k].order].manual => refunds[j][k] = 0
================================================================================
