--------------------------- MODULE ShopIntegration ---------------------------
(***************************************************************************)
(* The connections of shops to implementations: createShopIntegration      *)
(* (shopify.service.ts), the create, update and lookups of                 *)
(* connection-auths.service.ts it stands on, and getShopDetails, which     *)
(* keeps the plan of a shop in its connection.                             *)
(*                                                                         *)
(* A call is a request in flight.  Every await of the code is a point      *)
(* between two actions, there are no transactions and no unique index in   *)
(* the database, so the checks of a call and its writes can be far apart.  *)
(***************************************************************************)
EXTENDS Naturals, FiniteSets, Sequences, SequencesExt

CONSTANTS Calls,       \* requests to create a connection
          Jobs,        \* deliveries of the message that asks for getShopDetails
          Imps,        \* implementations
          Shops,       \* shop urls
          Shared,      \* the implementations a directly created connection may be shared with
          Nobody,      \* not an implementation, a shop or a call
          MaxPatches,  \* bound on the updates by an administrator
          MaxFaults    \* bound on the calls that break off

ASSUME ShopIntegrationAssumption ==
  /\ MaxPatches \in Nat /\ MaxFaults \in Nat
  /\ Shared \subseteq Imps
  /\ Nobody \notin Imps \cup Shops \cup Calls

VARIABLES connections,  \* the connection_auth table: the index is the id
          implementation, \* customerLocationId of each implementation
          services,     \* at Shopify: the names of the fulfillment services of a shop, in order
          spent,        \* the OAuth codes that were exchanged
          call,         \* the requests
          job,          \* the runs of getShopDetails
          patches, faults

vars == <<connections, implementation, services, spent, call, job,
          patches, faults>>

Systems == {"shopify", "woocommerce"}
TenantName == "tenant"    \* the name of CREATE_FULFILLMENT_SERVICE_GRAPHQL_PAYLOAD
OtherName == "other"      \* a service of somebody else

NoLocation == [shop |-> Nobody, at |-> 0]

(***************************************************************************)
(* A connection.  Ghosts: by is the call that made it, unseenBy the calls  *)
(* that had looked for a connection of the shop before it was saved,       *)
(* missedBy those that had looked for one of the implementation, edits     *)
(* the number of settings an administrator has saved, overtaken that one   *)
(* was saved between the read and the write of a getShopDetails, moved     *)
(* that an administrator gave it to another implementation.                *)
(***************************************************************************)
Connection(c, r, unseen, missed) ==
  [imp |-> r.imp, system |-> r.system, shop |-> r.shop, shared |-> r.shared,
   active |-> TRUE, settings |-> 0,
   by |-> c, unseenBy |-> unseen, missedBy |-> missed,
   edits |-> 0, overtaken |-> FALSE, moved |-> FALSE]

NoCall == [pc |-> "idle", kind |-> "none", imp |-> Nobody, shop |-> Nobody, system |-> "shopify",
           shared |-> {}, code |-> Nobody, found |-> 0]
NoJob == [pc |-> "idle", id |-> 0, settings |-> 0]

Init ==
  /\ connections = <<>>
  /\ implementation = [i \in Imps |-> NoLocation]
  /\ services = [s \in Shops |-> <<OtherName>>]
  /\ spent = {}
  /\ call = [c \in Calls |-> NoCall]
  /\ job = [j \in Jobs |-> NoJob]
  /\ patches = 0 /\ faults = 0

Ids == DOMAIN connections

----------------------------------------------------------------------------
(***************************************************************************)
(* Lookups.  The default order of the table is by id.                      *)
(***************************************************************************)
OfImplementation(imp, system) ==
  {i \in Ids : connections[i].imp = imp /\ connections[i].system = system}

OfShop(shop, system) == {i \in Ids : connections[i].shop = shop /\ connections[i].system = system}

\* create looks at the target type: every connection here is one to a shop
OfTargetType(imp) == {i \in Ids : connections[i].imp = imp}

getConnectionPool(imp) ==
  {i \in Ids : connections[i].active /\ (connections[i].imp = imp \/ imp \in connections[i].shared)}

First(ids) == CHOOSE i \in ids : \A k \in ids : i =< k

----------------------------------------------------------------------------
(***************************************************************************)
(* A request arrives: a shop owner comes back from Shopify with a code,    *)
(* reloads the page with the code of an earlier call, or somebody posts a  *)
(* connection to the connection-auths endpoint.                            *)
(***************************************************************************)
Integrate(c, imp, shop) ==
  /\ call[c].pc = "idle"
  /\ call' = [call EXCEPT ![c] = [NoCall EXCEPT !.pc = "implementation", !.kind = "integration",
                                                !.imp = imp, !.shop = shop, !.code = c]]
  /\ UNCHANGED <<connections, implementation, services, spent, job, patches, faults>>

Reload(c, d) ==
  /\ call[c].pc = "idle" /\ call[d].kind = "integration"
  /\ call' = [call EXCEPT ![c] = [NoCall EXCEPT !.pc = "implementation", !.kind = "integration",
                !.imp = call[d].imp, !.shop = call[d].shop, !.code = call[d].code]]
  /\ UNCHANGED <<connections, implementation, services, spent, job, patches, faults>>

PostConnection(c, imp, shop, system, shared) ==
  /\ call[c].pc = "idle"
  /\ call' = [call EXCEPT ![c] = [NoCall EXCEPT !.pc = "check", !.kind = "direct", !.imp = imp,
                !.shop = shop, !.system = system, !.shared = shared]]
  /\ UNCHANGED <<connections, implementation, services, spent, job, patches, faults>>

Goto(c, pc) == call' = [call EXCEPT ![c].pc = pc]
\* answered, with an error or without
Ended(c) == Goto(c, "ended")

----------------------------------------------------------------------------
(***************************************************************************)
(* createShopIntegration.                                                  *)
(***************************************************************************)
CheckImplementation(c) ==
  /\ call[c].pc = "implementation"
  /\ IF OfImplementation(call[c].imp, "shopify") # {} THEN Ended(c) ELSE Goto(c, "shop")
  /\ UNCHANGED <<connections, implementation, services, spent, job, patches, faults>>

CheckShop(c) ==
  /\ call[c].pc = "shop"
  /\ IF OfShop(call[c].shop, "shopify") # {} THEN Ended(c) ELSE Goto(c, "exchange")
  /\ UNCHANGED <<connections, implementation, services, spent, job, patches, faults>>

\* Shopify gives a token for a code once.
GivesToken(code) == code \notin spent

\* getImplementation, then exchangeOAuthCodeForToken
exchangeOAuthCodeForToken(c) ==
  /\ call[c].pc = "exchange"
  /\ IF GivesToken(call[c].code) THEN Goto(c, "check") ELSE Ended(c)
  /\ spent' = spent \cup {call[c].code}
  /\ UNCHANGED <<connections, implementation, services, job, patches, faults>>

\* Variant: create relies on the check that createShopIntegration has made.
TrustsItsCaller(c) ==
  /\ call[c].pc = "check"
  /\ IF call[c].kind = "direct" /\ OfTargetType(call[c].imp) # {} THEN Ended(c) ELSE Goto(c, "save")
  /\ UNCHANGED <<connections, implementation, services, spent, job, patches, faults>>

\* ConnectionAuthsService.create up to its save
CheckConnection(c) ==
  /\ call[c].pc = "check"
  /\ IF OfTargetType(call[c].imp) # {} THEN Ended(c) ELSE Goto(c, "save")
  /\ UNCHANGED <<connections, implementation, services, spent, job, patches, faults>>

PastShopCheck == {d \in Calls : call[d].kind = "integration"
                                /\ call[d].pc \in {"exchange", "check", "save"}}
PastCheck == {d \in Calls : call[d].pc = "save"}

SaveConnection(c) ==
  /\ call[c].pc = "save"
  /\ connections' = Append(connections,
                      Connection(c, call[c], PastShopCheck \ {c}, PastCheck \ {c}))
  /\ Goto(c, IF call[c].kind = "integration" THEN "list" ELSE "ended")
  /\ UNCHANGED <<implementation, services, spent, job, patches, faults>>

\* The requests of graphql-shopify.service.ts
getFulfillmentServices(shop) == services[shop]
fulfillmentServiceCreate(shop, name) == services' = [services EXCEPT ![shop] = Append(@, name)]

\* Variant: the first service of the shop will do.
AnyService(shop) == DOMAIN services[shop]
Named(shop) == {k \in DOMAIN getFulfillmentServices(shop) :
                  getFulfillmentServices(shop)[k] = TenantName}

\* createFulfillmentService: the service of that name, or a new one
ReusesService(c) ==
  /\ call[c].pc = "list"
  /\ LET known == Named(call[c].shop)
     IN call' = [call EXCEPT ![c].pc = IF known = {} THEN "add" ELSE "locate",
                             ![c].found = IF known = {} THEN 0 ELSE First(known)]
  /\ UNCHANGED <<connections, implementation, services, spent, job, patches, faults>>

AddsService(c) ==
  /\ call[c].pc = "add"
  /\ fulfillmentServiceCreate(call[c].shop, TenantName)
  /\ call' = [call EXCEPT ![c].pc = "locate", ![c].found = Len(services[call[c].shop]) + 1]
  /\ UNCHANGED <<connections, implementation, spent, job, patches, faults>>

UpdateImplementation(c) ==
  /\ call[c].pc = "locate"
  /\ implementation' = [implementation EXCEPT ![call[c].imp] =
                          [shop |-> call[c].shop, at |-> call[c].found]]
  /\ Ended(c)
  /\ UNCHANGED <<connections, services, spent, job, patches, faults>>

\* Any awaited step can throw: createShopIntegration logs and rethrows, and
\* undoes nothing.
BreakOff(c) ==
  /\ faults < MaxFaults
  /\ call[c].pc \notin {"idle", "ended", "broken"}
  /\ Goto(c, "broken")
  /\ faults' = faults + 1
  /\ UNCHANGED <<connections, implementation, services, spent, job, patches>>

----------------------------------------------------------------------------
(***************************************************************************)
(* ConnectionAuthsService.update: the fields that are given replace those  *)
(* of the row, metaInfo as a whole, and no check is made against the other *)
(* rows.                                                                   *)
(***************************************************************************)
Reading(i) == \E j \in Jobs : job[j].pc \in {"ask", "write"} /\ job[j].id = i

SaveSettings(i) ==
  /\ patches < MaxPatches
  /\ connections' = [connections EXCEPT ![i].settings = connections[i].edits + 1, ![i].edits = @ + 1,
                                        ![i].overtaken = @ \/ Reading(i)]
  /\ patches' = patches + 1
  /\ UNCHANGED <<implementation, services, spent, call, job, faults>>

SetActive(i) ==
  /\ patches < MaxPatches
  /\ connections' = [connections EXCEPT ![i].active = ~@]
  /\ patches' = patches + 1
  /\ UNCHANGED <<implementation, services, spent, call, job, faults>>

MoveTo(i, imp) ==
  /\ patches < MaxPatches
  /\ connections' = [connections EXCEPT ![i].imp = imp, ![i].moved = TRUE]
  /\ patches' = patches + 1
  /\ UNCHANGED <<implementation, services, spent, call, job, faults>>

----------------------------------------------------------------------------
(***************************************************************************)
(* getShopDetails: read the connection, ask Shopify, write metaInfo back   *)
(* as it was read with the plan replaced.                                  *)
(***************************************************************************)
ReadConnection(j, imp) ==
  /\ job[j].pc = "idle" /\ getConnectionPool(imp) # {}
  /\ LET i == First(getConnectionPool(imp))
     IN job' = [job EXCEPT ![j] = [NoJob EXCEPT !.pc = "ask", !.id = i,
                                                !.settings = connections[i].settings]]
  /\ UNCHANGED <<connections, implementation, services, spent, call, patches, faults>>

AskShop(j) ==
  /\ job[j].pc = "ask"
  /\ job' = [job EXCEPT ![j].pc = "write"]
  /\ UNCHANGED <<connections, implementation, services, spent, call, patches, faults>>

\* The plan itself is left out: nothing here depends on it.
WithPlan(conn, d) == [conn EXCEPT !.settings = d.settings]

WritePlan(j) ==
  /\ job[j].pc = "write"
  /\ connections' = [connections EXCEPT ![job[j].id] = WithPlan(@, job[j])]
  /\ job' = [job EXCEPT ![j] = NoJob]
  /\ UNCHANGED <<implementation, services, spent, call, patches, faults>>

----------------------------------------------------------------------------
Next ==
  \/ \E c \in Calls :
       \/ \E imp \in Imps, shop \in Shops : Integrate(c, imp, shop)
       \/ \E d \in Calls : Reload(c, d)
       \/ \E imp \in Imps, shop \in Shops, system \in Systems, shared \in SUBSET Shared :
            PostConnection(c, imp, shop, system, shared)
       \/ CheckImplementation(c)
       \/ CheckShop(c)
       \/ exchangeOAuthCodeForToken(c)
       \/ CheckConnection(c)
       \/ SaveConnection(c)
       \/ ReusesService(c)
       \/ AddsService(c)
       \/ UpdateImplementation(c)
       \/ BreakOff(c)
  \/ \E i \in Ids :
       \/ SaveSettings(i)
       \/ SetActive(i)
       \/ \E imp \in Imps : MoveTo(i, imp)
  \/ \E j \in Jobs :
       \/ \E imp \in Imps : ReadConnection(j, imp)
       \/ AskShop(j)
       \/ WritePlan(j)

Spec == Init /\ [][Next]_vars

----------------------------------------------------------------------------
\* ConnectionAuthsService.create and createShopIntegration refuse what exists.
\* Two connections of one implementation are there only if the call of the later
\* one had made create's check before the earlier one was saved, or an
\* administrator moved one of them; two connections of one shop url only if the
\* later one's createShopIntegration had made its check of the url before, or
\* the later one was posted directly.
NoDuplicates ==
  \A k \in Ids : \A i \in 1..(k - 1) :
    LET a == connections[i]
        b == connections[k]
    IN /\ a.imp = b.imp => b.by \in a.missedBy \/ a.moved \/ b.moved
       /\ /\ a.shop = b.shop
          /\ a.system = "shopify"
          /\ call[b.by].kind = "integration"
          => b.by \in a.unseenBy

\* The location of an implementation is that of a fulfillment service of ours in
\* a shop that createShopIntegration has connected to it, and an integration that
\* ran to its end has left its implementation with a location: one without is the
\* trace of a call that still runs or broke off after create.
LocationOfTheShop ==
  /\ \A imp \in Imps :
       LET l == implementation[imp]
       IN l # NoLocation =>
            /\ services[l.shop][l.at] = TenantName
            /\ \E i \in Ids : LET c == call[connections[i].by]
                              IN c.kind = "integration" /\ c.imp = imp /\ c.shop = l.shop
  /\ \A i \in Ids :
       LET c == call[connections[i].by]
       IN c.kind = "integration" /\ c.pc = "ended" => implementation[c.imp] # NoLocation

\* getShopDetails writes back the whole metaInfo it has read.  A setting that an
\* administrator saved is lost only if it was saved between that read and that
\* write.
SettingsKept ==
  \A i \in Ids : ~connections[i].overtaken => connections[i].settings = connections[i].edits
================================================================================
