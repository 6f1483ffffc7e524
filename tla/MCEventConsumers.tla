---------------------------- MODULE MCEventConsumers ----------------------------
(***************************************************************************)
(* The consumers of a process (EventConsumers) and what two of them run,   *)
(* the handlers of open and of cancel events (FulfillmentOrders).  They    *)
(* share no state, so each specification explores one of them and leaves   *)
(* the other where it starts.                                              *)
(***************************************************************************)
EXTENDS EventConsumers

CONSTANTS
  FOs, Orders, orderOf, Manual, Messages, Workers, MaxFailures, MaxCrashes

CONSTANT m1

\* For TLC: two topics, and one message, a plain one, one to reroute, or a scheduled one
\* that other parts send to the dedicated topic.
TwoTopics == <<"sftp-messages", "order">>
ConsumersPerTopic == [t \in {"sftp-messages", "order"} |-> IF t = "order" THEN 3 ELSE 2]
ThreeKinds ==
  {[topic |-> "order", sftp |-> FALSE, cron |-> FALSE],
   [topic |-> "order", sftp |-> TRUE, cron |-> FALSE],
   [topic |-> "sftp-messages", sftp |-> TRUE, cron |-> TRUE]}

\* For TLC: one order in two parts and one entered by hand; both parts are opened by one
\* message and cancelled by another, in the other order.
MCFOs == {"part1", "part2", "manual"}
MCOrders == {"split", "phone"}
MCOrderOf == [g \in MCFOs |-> IF g = "manual" THEN "phone" ELSE "split"]
MCMessages ==
  << [action |-> "open", fos |-> <<"part1", "part2">>],
     [action |-> "cancel", fos |-> <<"part2", "manual", "part1">>] >>

VARIABLES
  status, shippedOut, cancelled, reported, phase, pc, job, k, supported, failed, budget

FO == INSTANCE FulfillmentOrders

ASSUME FulfillmentOrdersAssumption == FO!ConstantsFit

foVars ==
  <<status, shippedOut, cancelled, reported, phase, pc, job, k, supported, failed, budget>>

BothInit == Init /\ FO!Init

ConsumersSpec ==
  BothInit /\ [][Next /\ UNCHANGED foVars]_<<vars, foVars>> /\ Fairness

HandlersSpec ==
  BothInit /\ [][FO!Next /\ UNCHANGED vars]_<<vars, foVars>> /\ FO!Fairness

----------------------------------------------------------------------------
(* The properties of the handlers.                                         *)

\* FulfillmentOrders: an open event ends only when Shopify waits for no answer to any of
\* its fulfillment orders (shopify.service.ts:1769).
OpenedIsSettled == FO!OpenedIsSettled

\* FulfillmentOrders: what was reported as cancelled is not fulfilled afterwards
\* (shopify.service.ts:503).
NotShippedOnceCancelled == FO!NotShippedOnceCancelled

\* FulfillmentOrders: every open or cancel event comes to an end, however calls fail and
\* whatever else becomes of its order (shopify.service.ts:1769).
EventsEnd == FO!EventsEnd
=================================================================================
