---------------------------- MODULE MCRetryPolicy ----------------------------
(***************************************************************************)
(* Bounded inputs for RetryPolicy: one state per kind of message, payload  *)
(* of the event, payload of the failure and retry count.  What failed of a *)
(* cancellation is reported as sendCancelledOrdersToShop does: the orders  *)
(* and, for each, the refund order found by the number of its shop order.  *)
(***************************************************************************)
EXTENDS RetryPolicy, FiniteSets, SequencesExt

CONSTANTS Ids, MaxLen,
          Numbers   \* of shop orders

VARIABLES
  kind, old, curr,
  number   \* of the shop order an order is part of: its id without the suffix

Lists == UNION {[1..n -> Ids] : n \in 0..MaxLen}
DistinctLists == {s \in Lists : IsInjective(s)}

Payloads(k) == [ids : DistinctLists,
                more : IF k \in PairKinds THEN DistinctLists ELSE {<<>>}]

----------------------------------------------------------------------------
(* What a failed cancellation reports.                                     *)

getCustomerIdWithoutSuffix(order) == number[order]

\* The last refund order of a shop order replaces the others; a refund order goes by
\* the order it is for.
getCustomerOrderIdToRefundOrderMapping(refundOrders) ==
  [n \in {getCustomerIdWithoutSuffix(x) : x \in Range(refundOrders)} |->
     refundOrders[Max({k \in DOMAIN refundOrders :
                         getCustomerIdWithoutSuffix(refundOrders[k]) = n})]]

FailedRefunds(failed, refundOrders) ==
  LET mapping == getCustomerOrderIdToRefundOrderMapping(refundOrders)
      Number(k) == getCustomerIdWithoutSuffix(failed[k])
      pushed[k \in 0..Len(failed)] ==
        IF k = 0 THEN <<>>
        ELSE IF Number(k) \in DOMAIN mapping THEN Append(pushed[k - 1], mapping[Number(k)])
        ELSE pushed[k - 1]
  IN pushed[Len(failed)]

\* A message refunds orders that it cancels.
Cancellation(m) == Range(m.more) \subseteq Range(m.ids)

Failures(m) ==
  IF kind = "cancel_order_Shop"
    THEN {[ids |-> failed, more |-> FailedRefunds(failed, m.more)] :
            failed \in {s \in DistinctLists : Range(s) \subseteq Range(m.ids)}}
    ELSE {p \in Payloads(kind) : /\ Range(p.ids) \subseteq Range(m.ids)
                                 /\ Range(p.more) \subseteq Range(m.more)}

Init ==
  /\ kind \in RetriedKinds
  /\ number \in IF kind = "cancel_order_Shop" THEN [Ids -> Numbers]
                                              ELSE {[i \in Ids |-> 0]}
  /\ old \in Payloads(kind)
  /\ kind = "cancel_order_Shop" => Cancellation(old)
  /\ curr \in Failures(old)

----------------------------------------------------------------------------
SameWork ==
  /\ Range(old.ids) = Range(curr.ids)
  /\ Range(old.more) = Range(curr.more)

SharedNumber == \E i, k \in Range(old.ids) : i # k /\ number[i] = number[k]

\* The retry counter of an event survives exactly when the failed part is the
\* whole event, whatever order the ids come back in: for the kinds that have a
\* comparison, "matched" (retry-event.service.ts, createOrUpdate) means the same
\* set of ids in every list.  For a cancellation of two orders of one shop order,
\* which may report a refund order twice (shopify.service.ts:621), it still means
\* that every order failed.
MatchMeansNoProgress ==
  LET matched == checkIfDataAndRetryInfoMatch(kind, old, curr) IN
    IF kind = "cancel_order_Shop" /\ SharedNumber
      THEN matched => Range(old.ids) = Range(curr.ids)
      ELSE kind \notin PlainKinds => (matched <=> SameWork)
================================================================================
