------------------------------ MODULE InventorySync ------------------------------
(***************************************************************************)
(* The import of product variants: one message per page, each page         *)
(* publishing the next before it saves its own, and a cursor in            *)
(* target_sync, the newest updatedAt ever saved, from which the next       *)
(* import starts again with an hour of overlap (getInventoryItems,         *)
(* sendInventoryItemsToMiddleware).                                        *)
(*                                                                         *)
(* Shopify lists variants by id, not by date, so a page moves the cursor   *)
(* past variants that later pages have yet to bring.                       *)
(***************************************************************************)
EXTENDS Integers, FiniteSets, FiniteSetsExt

CONSTANTS
  MaxVariant,   \* bound: product variants; their ids are 1..MaxVariant
  PageLimit,    \* mainConfigs.shopProductsPageLimit
  Overlap,      \* the hour subtracted from the cursor
  MaxSweep,     \* bound: age of an import whose pages are still under way
  MaxTime,      \* bound: the clock
  MaxMessages,  \* bound: messages at a time
  MaxImports,   \* bound: imports asked for
  MaxFaults     \* bound: pages handled again from the start, or never saved

Variants == 1..MaxVariant
NoCursor == -1       \* no row in target_sync: everything is fetched

ASSUME InventorySyncAssumption ==
  /\ {MaxVariant, PageLimit, MaxMessages} \subseteq Nat \ {0}
  /\ {Overlap, MaxSweep, MaxTime, MaxImports, MaxFaults} \subseteq Nat

VARIABLES
  now,        \* the clock
  updatedAt,  \* Shopify's date of each variant
  withSku,    \* variants the mapper does not omit
  saved,      \* the version the middleware has of each variant: its date, and whether
              \* its customs codes came with it
  syncedAt,   \* getLastSync: the newest row of target_sync
  pages,      \* messages under way, and what their handler has fetched
  imports,    \* imports asked for so far
  faults,     \* crashes and losses so far
  broken      \* ghost: an import of several pages lost one, or read the cursor again

vars == <<now, updatedAt, withSku, saved, syncedAt, pages, imports, faults, broken>>
shopVars  == <<now, updatedAt, withSku>>
faultVars == <<imports, faults, broken>>

\* A page: updatedAtMin (NoCursor: not known yet, or none), the endCursor it starts
\* after (0: the first page), what was fetched, when its import began, and (ghost)
\* whether it has published a next page.
NothingFetched == <<>>
NeverSaved == [date |-> NoCursor, customs |-> FALSE]

Init ==
  /\ now = 0
  /\ updatedAt = [v \in Variants |-> 0]
  /\ withSku \in (SUBSET Variants) \ {{}}
  /\ saved = [v \in Variants |-> NeverSaved]
  /\ syncedAt = NoCursor
  /\ pages = {}
  /\ imports = 0
  /\ faults = 0
  /\ broken = FALSE

----------------------------------------------------------------------------
(* getInventoryItems.                                                      *)

\* createEventTrigger of the scheduler.
Import ==
  /\ imports < MaxImports /\ Cardinality(pages) < MaxMessages
  /\ pages' = pages \union {[min |-> NoCursor, after |-> 0, got |-> NothingFetched,
                             began |-> now, nr |-> imports, next |-> FALSE]}
  /\ imports' = imports + 1
  /\ UNCHANGED <<shopVars, saved, syncedAt, faults, broken>>

\* getLastSync: the newest row of target_sync.
LastSync == syncedAt

\* Variant: the import starts at the cursor itself.
NoOverlap == LastSync

StartDate == IF LastSync = NoCursor THEN NoCursor ELSE LastSync - Overlap

\* A next page keeps the updatedAtMin of the first.
updatedAtMin(p) == IF p.after > 0 THEN p.min ELSE StartDate

\* getProductList: updated_at:>'updatedAtMin', after endCursor, by id.
Matching(p) ==
  {v \in Variants : /\ v > p.after
                    /\ updatedAtMin(p) = NoCursor \/ updatedAt[v] > updatedAtMin(p)}
FirstOf(S) == {v \in S : Cardinality({w \in S : w < v}) < PageLimit}

\* hasNextPageGraphQl publishes the next page before this one is saved.
NextPage(p) ==
  LET page == FirstOf(Matching(p)) IN
    IF page = Matching(p) THEN {}
    ELSE {[p EXCEPT !.min = updatedAtMin(p), !.after = Max(page), !.next = FALSE]}

\* The customs codes are asked for apart, of all variants of the page, by the same
\* limit and in as many pages as Shopify makes of them.
getInventoryFilter(ids, after) == FirstOf({v \in ids : v > after})
inventoryItemObj(ids) ==
  LET from[after \in 0..MaxVariant] ==
        LET items == getInventoryFilter(ids, after)
        IN items \union (IF items = {} THEN {} ELSE from[Max(items)])
  IN from[0]

\* getMappedDtoFromShopifyGraphQLDto: a variant without sku is omitted.
Mapped(page) ==
  [v \in page \intersect withSku |->
     [date |-> updatedAt[v], customs |-> v \in inventoryItemObj(page)]]

\* No variant: nothing to do. Only variants without a sku: the mapped list is empty
\* and the handler throws, after the next page has been published.
GetInventoryItems(p) ==
  /\ p \in pages /\ p.got = NothingFetched
  /\ LET page == FirstOf(Matching(p))
         fetched == [p EXCEPT !.min = updatedAtMin(p), !.got = Mapped(page),
                             !.next = NextPage(p) # {}]
     IN pages' = (pages \ {p}) \union NextPage(p)
                   \union (IF page \intersect withSku = {} THEN {} ELSE {fetched})
  /\ Cardinality(pages') =< MaxMessages
  /\ UNCHANGED <<shopVars, saved, syncedAt, faultVars>>

----------------------------------------------------------------------------
(* sendInventoryItemsToMiddleware.                                         *)

\* A variant of one page with the newest date
getLastByDate(got) == CHOOSE v \in DOMAIN got : \A w \in DOMAIN got : got[w].date =< got[v].date
LastSyncedAtFromResponse(got) == got[getLastByDate(got)].date

\* A row is appended to target_sync, also one that is older than the newest.
setLastSyncedAt(at) == syncedAt' = Max({syncedAt, at})

\* updateOrCreateInventoryItems, then processLastSyncDate
SendToMiddleware(p) ==
  /\ p \in pages /\ p.got # NothingFetched
  /\ saved' = [v \in Variants |-> IF v \in DOMAIN p.got THEN p.got[v] ELSE saved[v]]
  /\ setLastSyncedAt(LastSyncedAtFromResponse(p.got))
  /\ pages' = pages \ {p}
  /\ UNCHANGED <<shopVars, faultVars>>

----------------------------------------------------------------------------
(* Faults and the shop.                                                    *)

\* An import is spread over pages if it has had, or will have, more than one.
OfSeveral(p) == p.after > 0 \/ p.next

\* The consumer dies before the page is saved and its message comes again. The
\* first page then starts from the cursor its own next pages may have moved.
Crash(p) ==
  /\ p \in pages /\ p.got # NothingFetched
  /\ faults < MaxFaults /\ faults' = faults + 1
  /\ pages' = (pages \ {p}) \union {[p EXCEPT !.got = NothingFetched]}
  /\ broken' = (broken \/ (p.after = 0 /\ OfSeveral(p)))
  /\ UNCHANGED <<shopVars, saved, syncedAt, imports>>

\* A rejected emit, or a call that throws: this kind of message is not retried.
Lose(p) ==
  /\ p \in pages
  /\ faults < MaxFaults /\ faults' = faults + 1
  /\ broken' = (broken \/ OfSeveral(p))
  /\ pages' = pages \ {p}
  /\ UNCHANGED <<shopVars, saved, syncedAt, imports>>

Edit(v) ==
  /\ updatedAt[v] < now
  /\ updatedAt' = [updatedAt EXCEPT ![v] = now]
  /\ UNCHANGED <<now, withSku, saved, syncedAt, pages, faultVars>>

\* Pages of an import follow each other within MaxSweep.
Tick ==
  /\ now < MaxTime
  /\ \A p \in pages : now - p.began < MaxSweep
  /\ now' = now + 1
  /\ UNCHANGED <<updatedAt, withSku, saved, syncedAt, pages, faultVars>>

Next ==
  \/ Import \/ Tick
  \/ \E v \in Variants : Edit(v)
  \/ \E p \in pages :
       GetInventoryItems(p) \/ SendToMiddleware(p) \/ Crash(p) \/ Lose(p)

Spec == Init /\ [][Next]_vars

----------------------------------------------------------------------------
(* Properties.                                                             *)

Current(v) == [date |-> updatedAt[v], customs |-> TRUE]

\* The next import would fetch v ...
WouldBeFetched(v) == StartDate = NoCursor \/ updatedAt[v] > StartDate
\* ... or a page under way brings its current version, or will list it.
OnItsWay(v) ==
  \E p \in pages :
    \/ p.got # NothingFetched /\ v \in DOMAIN p.got /\ p.got[v] = Current(v)
    \/ p.got = NothingFetched /\ v \in Matching(p)

\* No version is skipped: the middleware has the current version of every variant
\* with a sku and its customs codes, or the next import asks for it (shopify.service.ts:1294, :320), or a
\* page under way brings it. Variants change while pages are fetched, pages of two
\* imports overlap, and a page may be handled twice. It needs the overlap, as long
\* as an import takes less than half of it, and it is void once an import of several
\* pages loses one, or handles its first one again: the others have moved the cursor.
NothingSkipped ==
  ~broken =>
    \A v \in withSku : saved[v] = Current(v) \/ WouldBeFetched(v) \/ OnItsWay(v)
==================================================================================
