------------------------------ MODULE RetryPolicy ------------------------------
(***************************************************************************)
(* The pure part of retry-event.service.ts: which kinds of message are     *)
(* retried and how often (canRetry), how long a failed retry waits         *)
(* (getNextRetryTime), what a failed retry turns its row into (update),    *)
(* and when a partial failure counts as "no progress at all"               *)
(* (checkIfDataAndRetryInfoMatch).                                         *)
(***************************************************************************)
EXTENDS Naturals, Sequences, Functions

CONSTANTS
  maxAllowedRetry,                  \* config.ts: 5
  orderMaxAllowedRetry,             \* config.ts: 35
  inventoryLevelMaxAllowedRetry,    \* config.ts: 3
  retryFrequencyIncrementThreshold  \* config.ts: 5

ASSUME LimitsAssumption ==
  /\ maxAllowedRetry \in Nat \ {0}
  /\ orderMaxAllowedRetry \in Nat \ {0}
  /\ inventoryLevelMaxAllowedRetry \in Nat \ {0}
  /\ retryFrequencyIncrementThreshold \in 1..23

\* `action_entity_target` of the messages that are retried, by the shape of
\* their data: the id lists the matching code compares.
ArrayKinds == {"create_outboundShipment_Shop", "create_inventoryItem_Wms",
               "create_inboundNotice_Wms"}          \* data is one array
PairKinds  == {"open_order_Shop", "cancel_order_Shop"}   \* data holds two id lists
OrderKinds == {"getMany_order_Shop"}                \* data.customerOrderIds
PlainKinds == {"updateMany_inventoryItem_Shop", "create_returnRequest_Wms"}
RetriedKinds == ArrayKinds \union PairKinds \union OrderKinds \union PlainKinds

\* 0 stands for "maxAllowedRetry stays undefined": the message is not retried.
canRetry(kind) ==
  CASE kind \in OrderKinds                       -> orderMaxAllowedRetry
    [] kind = "updateMany_inventoryItem_Shop"    -> inventoryLevelMaxAllowedRetry
    [] kind \in RetriedKinds \ (OrderKinds \union {"updateMany_inventoryItem_Shop"})
                                                 -> maxAllowedRetry
    [] OTHER                                     -> 0

----------------------------------------------------------------------------
\* Hours until the next attempt: of a new row, and after a failed retry.
FirstRetryDelay == 1

getNextRetryTime(count) ==
  IF count < retryFrequencyIncrementThreshold THEN count + 1 ELSE 24

\* Variants of StatusAfterFailure: off by one at the limit.
DeadOneLate(count, limit)  == IF count = limit + 1 THEN "dead" ELSE "open"
DeadOneEarly(count, limit) == IF count + 1 = limit THEN "dead" ELSE "open"

StatusAfterFailure(count, limit) == IF count = limit THEN "dead" ELSE "open"

----------------------------------------------------------------------------
\* Every matching function compares lengths and then looks each current id up
\* in an object built from the old ids.
IdsOnly(old, curr) == Range(curr) \subseteq Range(old)    \* variant: no length test

SameIds(old, curr) ==
  /\ Len(old) = Len(curr)
  /\ Range(curr) \subseteq Range(old)

\* A payload is [ids, more]: `more` is the second list of the pair kinds
\* (refundOrders, fulfillmentOrderIds) and empty for the others.
ArrayMatches(old, curr)    == SameIds(old.ids, curr.ids)
\* by the id of the outbound shipment
ShipmentsMatch(old, curr)  == SameIds(old.ids, curr.ids)
PairMatches(old, curr)     == SameIds(old.ids, curr.ids) /\ SameIds(old.more, curr.more)

checkIfDataAndRetryInfoMatch(kind, old, curr) ==
  CASE kind = "create_outboundShipment_Shop" -> ShipmentsMatch(old, curr)
    [] kind \in (ArrayKinds \ {"create_outboundShipment_Shop"}) \union OrderKinds
                                             -> ArrayMatches(old, curr)
    [] kind \in PairKinds                    -> PairMatches(old, curr)
    [] OTHER                                 -> FALSE
================================================================================
