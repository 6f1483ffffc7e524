--------------------------- MODULE FulfillmentOrders ---------------------------
(***************************************************************************)
(* ShopifyService.updateOpenedOrders and updateCancelledOrders: the        *)
(* fulfillment orders that the warehouse has taken on are accepted in      *)
(* Shopify, those of cancelled orders are called off, while goods leave    *)
(* the warehouse. Consumers of the two topics run side by side; every call *)
(* to Shopify is a step of its own. How often an event is retried is       *)
(* RetryEvents' concern and not bounded here. Every fulfillment order an   *)
(* event names exists, so no answer is empty.                              *)
(***************************************************************************)
EXTENDS Naturals, Sequences, FiniteSets

CONSTANTS
  FOs,          \* Shopify's fulfillment orders
  Orders,       \* Shopify's orders
  orderOf,      \* the order of each fulfillment order
  Manual,       \* fulfillment orders of orders entered by hand
  Messages,     \* published messages: [action, fos], fos a sequence
  Workers,      \* consumer instances
  MaxFailures,  \* bound: calls that fail
  MaxCrashes    \* bound: process crashes

MsgIds == DOMAIN Messages
Actions == {"open", "cancel"}

\* What the constants must be; MCEventConsumers assumes it of its instance.
ConstantsFit ==
  /\ orderOf \in [FOs -> Orders]
  /\ Manual \subseteq FOs
  /\ Messages \in Seq([action : Actions, fos : Seq(FOs)])
  /\ MaxFailures \in Nat /\ MaxCrashes \in Nat

VARIABLES
  status,     \* status of each fulfillment order, in Shopify
  shippedOut, \* those closed because their goods have left
  cancelled,  \* cancelled orders, in Shopify
  reported,   \* fulfillment orders a handler has counted as cancelled
  phase,      \* queued, taken, due (waiting for its retry) or done
  pc, job,    \* the next call of each worker, and its message
  k,          \* the entry of the message it is at
  supported,  \* supportedActions of the answer it holds
  failed,     \* fulfillment orders it could not handle
  budget      \* failures and crashes left

shop == <<status, shippedOut, cancelled>>
local == <<job, k, supported, failed>>
vars == <<shop, reported, phase, pc, local, budget>>

NoMsg == 0
Supportable == {"REQUEST_CANCELLATION", "CANCEL_FULFILLMENT_ORDER"}

Init ==
  /\ status = [g \in FOs |-> "OPEN"]
  /\ shippedOut = {}
  /\ cancelled = {}
  /\ reported = {}
  /\ phase = [m \in MsgIds |-> "queued"]
  /\ pc = [w \in Workers |-> "idle"]
  /\ job = [w \in Workers |-> NoMsg]
  /\ k = [w \in Workers |-> 0]
  /\ supported = [w \in Workers |-> {}]
  /\ failed = [w \in Workers |-> {}]
  /\ budget = [failure |-> MaxFailures, crash |-> MaxCrashes]

fos(w) == Messages[job[w]].fos
At(w) == fos(w)[k[w]]
More(w) == k[w] =< Len(fos(w))
Fail == budget.failure > 0 /\ budget' = [budget EXCEPT !.failure = @ - 1]
Goto(w, step) == pc' = [pc EXCEPT ![w] = step]

\* The loop goes on with the next entry.
FirstCall(m) == IF Messages[m].action = "open" THEN "openGet" ELSE "getOrder"
NextEntry(w) ==
  /\ k' = [k EXCEPT ![w] = @ + 1]
  /\ supported' = [supported EXCEPT ![w] = {}]
  /\ Goto(w, FirstCall(job[w]))
EntryFailed(w) ==
  /\ failed' = [failed EXCEPT ![w] = @ \union {At(w)}]
  /\ NextEntry(w)

----------------------------------------------------------------------------
(* Shopify and the warehouse.                                              *)

\* A submitted fulfillment order can be cancelled, an accepted one only asked
\* for; what the answer to that request supports is up to the warehouse.
SupportedActions(g) ==
  CASE status[g] = "OPEN"        -> {"CANCEL_FULFILLMENT_ORDER"}
    [] status[g] = "IN_PROGRESS" -> {"REQUEST_CANCELLATION"}
    [] OTHER                     -> {}
Accept(g) ==
  /\ status[g] = "OPEN"
  /\ status' = [status EXCEPT ![g] = "IN_PROGRESS"]
  /\ UNCHANGED <<shippedOut, cancelled>>
Close(g) ==
  /\ status[g] # "CLOSED"
  /\ status' = [status EXCEPT ![g] = "CLOSED"]
  /\ UNCHANGED <<shippedOut, cancelled>>
\* A cancelled order has no open fulfillment orders left.
Cancel(o) ==
  /\ o \notin cancelled
  /\ cancelled' = cancelled \union {o}
  /\ status' = [g \in FOs |-> IF orderOf[g] = o THEN "CLOSED" ELSE status[g]]
  /\ UNCHANGED shippedOut

ship(g) ==
  /\ status[g] = "IN_PROGRESS"
  /\ status' = [status EXCEPT ![g] = "CLOSED"]
  /\ shippedOut' = shippedOut \union {g}
  /\ UNCHANGED <<cancelled, reported, phase, pc, local, budget>>

----------------------------------------------------------------------------
(* GraphQLShopifyService. A call throws when it does not reach Shopify,    *)
(* when its answer is lost and, by the response interceptor, when Shopify  *)
(* refuses: errors and userErrors come with status 200.                    *)

Request(effect, refusal, throws) ==
  \/ effect /\ ~throws /\ UNCHANGED budget
  \/ effect /\ throws /\ Fail
  \/ UNCHANGED shop /\ throws /\ Fail
  \/ refusal /\ UNCHANGED shop /\ throws /\ UNCHANGED budget

GetCall(throws) == Request(UNCHANGED shop, FALSE, throws)
AcceptCall(g, throws) == Request(Accept(g), status[g] # "OPEN", throws)
RequestCall(g, throws) ==
  Request(status[g] = "IN_PROGRESS" /\ UNCHANGED shop, status[g] # "IN_PROGRESS", throws)
CloseCall(g, throws) == Request(Close(g), status[g] = "CLOSED", throws)
\* Shopify may refuse to cancel an order for reasons of its own.
CancelCall(o, throws) == Request(Cancel(o), TRUE, throws)

----------------------------------------------------------------------------
(* Delivery and retries.                                                   *)

deliver(w, m) ==
  /\ pc[w] = "idle"
  /\ phase[m] = "queued"
  /\ phase' = [phase EXCEPT ![m] = "taken"]
  /\ job' = [job EXCEPT ![w] = m]
  /\ k' = [k EXCEPT ![w] = 1]
  /\ Goto(w, FirstCall(m))
  /\ UNCHANGED <<shop, reported, supported, failed, budget>>

Leave(w, p) ==
  /\ phase' = [phase EXCEPT ![job[w]] = p]
  /\ pc' = [pc EXCEPT ![w] = "idle"]
  /\ job' = [job EXCEPT ![w] = NoMsg]
  /\ k' = [k EXCEPT ![w] = 0]
  /\ supported' = [supported EXCEPT ![w] = {}]
  /\ failed' = [failed EXCEPT ![w] = {}]
  /\ UNCHANGED <<shop, reported>>

\* The job publishes the row again: the message with all its entries, since a
\* failed open event stores fulfillmentOrderGIds as they were.
retry(m) ==
  /\ phase[m] = "due"
  /\ phase' = [phase EXCEPT ![m] = "queued"]
  /\ UNCHANGED <<shop, reported, pc, local, budget>>

crash(w) ==
  /\ pc[w] # "idle"
  /\ budget.crash > 0
  /\ budget' = [budget EXCEPT !.crash = @ - 1]
  /\ Leave(w, "queued")

----------------------------------------------------------------------------
(* updateOpenedOrders                                                      *)

\* Variant: the status is not looked at.
AnyStatus(g) == TRUE
Acceptable(g) == status[g] = "OPEN"

\* Variant: what could not be read is not noted.
UnreadIsSkipped(w) == NextEntry(w) /\ UNCHANGED failed
Unread(w) == EntryFailed(w)

openGet(w) ==
  /\ pc[w] = "openGet" /\ More(w)
  /\ \/ GetCall(FALSE) /\ Acceptable(At(w)) /\ Goto(w, "accept") /\ UNCHANGED local
     \/ GetCall(FALSE) /\ ~Acceptable(At(w)) /\ NextEntry(w) /\ UNCHANGED <<job, failed>>
     \/ GetCall(TRUE) /\ Unread(w) /\ UNCHANGED job
  /\ UNCHANGED <<reported, phase>>

acceptFulfillment(w) ==
  /\ pc[w] = "accept"
  /\ \/ AcceptCall(At(w), FALSE) /\ NextEntry(w) /\ UNCHANGED failed
     \/ AcceptCall(At(w), TRUE) /\ EntryFailed(w)
  /\ UNCHANGED <<reported, phase, job>>

openReturns(w) ==
  /\ pc[w] = "openGet" /\ ~More(w)
  /\ Leave(w, IF failed[w] = {} THEN "done" ELSE "due")
  /\ UNCHANGED budget

----------------------------------------------------------------------------
(* sendCancelledOrdersToShop and cancelFulfillmentAndOrder                 *)

Report(w) ==
  /\ reported' = reported \union {At(w)}
  /\ NextEntry(w)

\* An order entered by hand is reported without any call to Shopify.
getOrder(w) ==
  /\ pc[w] = "getOrder" /\ More(w)
  /\ \/ At(w) \in Manual /\ Report(w)
     \/ /\ At(w) \notin Manual
        /\ Goto(w, "cancelGet")
        /\ UNCHANGED <<reported, k, supported>>
  /\ UNCHANGED <<shop, phase, job, failed, budget>>

\* Which mutation the supported actions lead to.
AfterDetails(s) ==
  CASE "REQUEST_CANCELLATION" \in s     -> "request"
    [] "REQUEST_CANCELLATION" \notin s /\ "CANCEL_FULFILLMENT_ORDER" \in s -> "close"
    [] OTHER                            -> "cancelOrder"
AfterRequest(s) == IF "CANCEL_FULFILLMENT_ORDER" \in s THEN "close" ELSE "cancelOrder"

\* Any error makes cancelFulfillmentAndOrder return null.
CallFails(w) == EntryFailed(w) /\ UNCHANGED <<reported, phase, job>>

cancelGet(w) ==
  /\ pc[w] = "cancelGet"
  /\ \/ /\ GetCall(FALSE)
        /\ status[At(w)] = "CLOSED"
        /\ Report(w)
        /\ UNCHANGED <<phase, job, failed>>
     \/ /\ GetCall(FALSE)
        /\ status[At(w)] # "CLOSED"
        /\ supported' = [supported EXCEPT ![w] = SupportedActions(At(w))]
        /\ Goto(w, AfterDetails(SupportedActions(At(w))))
        /\ UNCHANGED <<reported, phase, job, k, failed>>
     \/ GetCall(TRUE) /\ CallFails(w)

requestCancellation(w) ==
  /\ pc[w] = "request"
  /\ \/ /\ RequestCall(At(w), FALSE)
        /\ \E s \in {{}, {"CANCEL_FULFILLMENT_ORDER"}} :
             /\ supported' = [supported EXCEPT ![w] = s]
             /\ Goto(w, AfterRequest(s))
        /\ UNCHANGED <<reported, phase, job, k, failed>>
     \/ RequestCall(At(w), TRUE) /\ CallFails(w)

cancelFulfillmentOrder(w) ==
  /\ pc[w] = "close"
  /\ \/ /\ CloseCall(At(w), FALSE)
        /\ supported' = [supported EXCEPT ![w] = {}]
        /\ Goto(w, "cancelOrder")
        /\ UNCHANGED <<reported, phase, job, k, failed>>
     \/ CloseCall(At(w), TRUE) /\ CallFails(w)

\* Variant: a refusal is taken for a cancellation.
RefusalReported(w) == Report(w) /\ UNCHANGED <<phase, job, failed>>
Refused(w) == CallFails(w)

cancelOrder(w) ==
  /\ pc[w] = "cancelOrder"
  /\ \/ CancelCall(orderOf[At(w)], FALSE) /\ Report(w) /\ UNCHANGED <<phase, job, failed>>
     \/ CancelCall(orderOf[At(w)], TRUE) /\ Refused(w)

\* updateCancelledOrders puts what failed into message.data without a retryInfo,
\* so that createOrUpdate takes the message for a success.
cancelReturns(w) ==
  /\ pc[w] = "getOrder" /\ ~More(w)
  /\ Leave(w, "done")
  /\ UNCHANGED budget

\* getConnectionPool or getOrder rejects: the whole message is to be retried.
throws(w) ==
  /\ pc[w] \in {"openGet", "getOrder"}
  /\ pc[w] = "openGet" => k[w] = 1
  /\ pc[w] = "getOrder" => More(w)
  /\ Fail
  /\ Leave(w, "due")

updateOpenedOrders(w) == openGet(w) \/ acceptFulfillment(w) \/ openReturns(w)
updateCancelledOrders(w) ==
  \/ getOrder(w)
  \/ cancelGet(w)
  \/ requestCancellation(w)
  \/ cancelFulfillmentOrder(w)
  \/ cancelOrder(w)
  \/ cancelReturns(w)

Next ==
  \/ \E w \in Workers, m \in MsgIds : deliver(w, m)
  \/ \E w \in Workers : updateOpenedOrders(w)
  \/ \E w \in Workers : updateCancelledOrders(w)
  \/ \E w \in Workers : throws(w)
  \/ \E w \in Workers : crash(w)
  \/ \E m \in MsgIds : retry(m)
  \/ \E g \in FOs : ship(g)

Spec == Init /\ [][Next]_vars

\* A consumer that runs goes on, a queued message is delivered, a due row is
\* published. Nothing makes goods leave or calls fail.
Fairness ==
  /\ \A w \in Workers :
       WF_vars(updateOpenedOrders(w) \/ updateCancelledOrders(w))
  /\ \A m \in MsgIds : WF_vars(retry(m)) /\ WF_vars(\E w \in Workers : deliver(w, m))
FairSpec == Spec /\ Fairness

----------------------------------------------------------------------------
TypeOK ==
  /\ status \in [FOs -> {"OPEN", "IN_PROGRESS", "CLOSED"}]
  /\ shippedOut \subseteq FOs
  /\ cancelled \subseteq Orders
  /\ reported \subseteq FOs
  /\ phase \in [MsgIds -> {"queued", "taken", "due", "done"}]
  /\ pc \in [Workers -> {"idle", "openGet", "accept", "getOrder", "cancelGet",
                         "request", "close", "cancelOrder"}]
  /\ job \in [Workers -> MsgIds \union {NoMsg}]
  /\ k \in [Workers -> Nat]
  /\ supported \in [Workers -> SUBSET Supportable]
  /\ failed \in [Workers -> SUBSET FOs]
  /\ budget \in [failure : Nat, crash : Nat]

\* An open event ends only when Shopify no longer waits for an answer to any of
\* its fulfillment orders, through failures, lost answers, crashes and a
\* cancellation on the way (updateOpenedOrders).
OpenedIsSettled ==
  \A m \in MsgIds :
    phase[m] = "done" /\ Messages[m].action = "open" =>
      \A i \in DOMAIN Messages[m].fos : status[Messages[m].fos[i]] # "OPEN"

\* What was reported as cancelled is not fulfilled afterwards, whatever stage it
\* was in and whatever else was going on with its order
\* (cancelFulfillmentAndOrder).
NotShippedOnceCancelled ==
  [][\A g \in FOs \ Manual :
       g \in reported => (g \in shippedOut' <=> g \in shippedOut)]_vars

\* Every open or cancel event comes to an end: an open event does not go on
\* failing because its order has been cancelled meanwhile.
EventsEnd == \A m \in MsgIds : <>(phase[m] = "done")
================================================================================
