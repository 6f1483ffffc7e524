--------------------------------- MODULE GidSync ---------------------------------
(***************************************************************************)
(* Rows of the middleware that were made before the GraphQL API lack       *)
(* Shopify's global ids.  syncInventoryItemGid and syncFulfillmentOrdersGid *)
(* ask for the rows without one, look their numeric ids up in the shop,    *)
(* page by page, and write the global ids back: the first all at the end,  *)
(* the second after every page.  A message that fails is not retried; the  *)
(* next one starts over with the rows that are left.                       *)
(*                                                                         *)
(* Rows and what the shop lists go by numeric id.  The middleware's own    *)
(* queries and updates are external.                                       *)
(***************************************************************************)
EXTENDS Naturals, FiniteSets, FiniteSetsExt

CONSTANTS
  MaxId,      \* bound: numeric ids
  Manual,     \* rows whose id is no positive number; the shop has nothing by it
  PageLimit,  \* 250 variants, 100 fulfillment orders
  MaxChanges, \* bound: changes of what the shop lists
  MaxFaults   \* bound: runs that break off

Ids == 1..MaxId
Kinds == {"inventoryItem", "fulfillmentOrder"}
Start == 0

\* Assumed by the modules that instantiate this one.
ConstantsFit ==
  /\ {MaxId, PageLimit} \subseteq Nat \ {0}
  /\ Manual \subseteq Ids
  /\ {MaxChanges, MaxFaults} \subseteq Nat

VARIABLES
  kind,     \* which of the two
  listed,   \* ids the shop knows, with a global id each
  rows,     \* rows of the middleware
  gid,      \* rows that have their global id
  step,     \* "idle", "fetching" or "putting"
  asked,    \* rows without a global id when the run began
  cursor,   \* endCursor
  got,      \* ids fetched and still to be put
  hasNext,  \* hasNextPage
  changes, faults

vars == <<kind, listed, rows, gid, step, asked, cursor, got, hasNext, changes, faults>>
run == <<step, asked, cursor, got, hasNext>>

Init ==
  /\ kind \in Kinds
  /\ rows \in SUBSET Ids
  /\ listed \in SUBSET (Ids \ Manual)
  /\ gid = {}
  /\ step = "idle"
  /\ asked = {} /\ cursor = Start /\ got = {} /\ hasNext = FALSE
  /\ changes = 0 /\ faults = 0

Idle ==
  /\ step' = "idle"
  /\ asked' = {} /\ cursor' = Start /\ got' = {} /\ hasNext' = FALSE

----------------------------------------------------------------------------
(* Both handlers.                                                          *)

\* filterInventoryItemsNotContainGID,
\* filterOrdersNotContainGIDAndNotContainSpecifiedStatus.
WithoutGid == rows \ gid

Begin ==
  /\ step = "idle" /\ WithoutGid # {}
  /\ step' = "fetching"
  /\ asked' = WithoutGid
  /\ UNCHANGED <<kind, listed, rows, gid, cursor, got, hasNext, changes, faults>>

\* "Shopify query only accept positive ids"; without any, the query is empty, and
\* the shop lists everything.
Matching == IF asked \subseteq Manual THEN listed ELSE listed \intersect asked

FirstOf(S) == {i \in S : Cardinality({j \in S : j < i}) < PageLimit}

\* Variant: the cursor is not passed on.
FirstPage(after) == FirstOf(Matching)

\* getProductMetaInfo, getFulfillmentOrdersMetaInfo.
getMetaInfo(after) == FirstOf({i \in Matching : i > after})

Follows(page, after) == \E i \in Matching : i > after /\ i \notin page

\* syncInventoryItemGid: fetches to the last page before it puts anything.
FetchVariants ==
  /\ kind = "inventoryItem" /\ step = "fetching"
  /\ LET page == getMetaInfo(cursor) IN
       IF Follows(page, cursor)
       THEN /\ got' = got \union page /\ cursor' = Max(page)
            /\ UNCHANGED <<step, asked, hasNext>>
       ELSE IF got \union page = {} THEN Idle
       ELSE /\ got' = got \union page /\ step' = "putting"
            /\ UNCHANGED <<asked, cursor, hasNext>>
  /\ UNCHANGED <<kind, listed, rows, gid, changes, faults>>

\* syncFulfillmentOrdersGid: an empty page ends the run.
FetchFulfillmentOrders ==
  /\ kind = "fulfillmentOrder" /\ step = "fetching"
  /\ LET page == getMetaInfo(cursor) IN
       IF page = {} THEN Idle
       ELSE /\ got' = page /\ cursor' = Max(page) /\ hasNext' = Follows(page, cursor)
            /\ step' = "putting"
            /\ UNCHANGED asked
  /\ UNCHANGED <<kind, listed, rows, gid, changes, faults>>

\* putInventoryItemsGID, putFulfillmentOrderGid: the rows there are.
Put ==
  /\ step = "putting"
  /\ gid' = gid \union (got \intersect rows)
  /\ IF hasNext THEN /\ step' = "fetching" /\ got' = {}
                     /\ UNCHANGED <<asked, cursor, hasNext>>
                ELSE Idle
  /\ UNCHANGED <<kind, listed, rows, changes, faults>>

Work == Begin \/ FetchVariants \/ FetchFulfillmentOrders \/ Put

----------------------------------------------------------------------------
(* Around the handlers.                                                    *)

\* The shop lists something more, or no longer.
Change(i) ==
  /\ i \notin Manual /\ changes < MaxChanges
  /\ listed' = IF i \in listed THEN listed \ {i} ELSE listed \union {i}
  /\ changes' = changes + 1
  /\ UNCHANGED <<kind, rows, gid, run, faults>>

\* An import of the REST API adds a row.
AddRow(i) ==
  /\ i \notin rows /\ changes < MaxChanges
  /\ rows' = rows \union {i}
  /\ changes' = changes + 1
  /\ UNCHANGED <<kind, listed, gid, run, faults>>

\* A call rejects, or the process dies.
BreakOff ==
  /\ step # "idle" /\ faults < MaxFaults
  /\ faults' = faults + 1
  /\ Idle
  /\ UNCHANGED <<kind, listed, rows, gid, changes>>

Next ==
  \/ Work
  \/ \E i \in Ids : Change(i) \/ AddRow(i)
  \/ BreakOff

Spec == Init /\ [][Next]_vars

\* Messages keep being published, and a run that is not interrupted goes on.
Fairness == WF_vars(Work)
FairSpec == Spec /\ Fairness

----------------------------------------------------------------------------
(* Properties.                                                             *)

\* A row whose id the shop knows gets its global id, which its shipments and levels
\* need, although runs break off and the shop's list changes under the paging
\* (shopify.service.ts:2778, :2862): the paging ends, and passes no row.
GidsArrive ==
  \A i \in Ids \ Manual : i \in rows /\ i \in listed ~> i \in gid \/ i \notin listed
==================================================================================
