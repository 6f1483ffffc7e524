# TLA+ models of the Shopify integration middleware

The program is a NestJS service that moves orders, shipments, inventory levels and
refunds between Shopify, a warehouse system (WMS) and carriers. Work arrives as Kafka
messages; handlers call the external systems; what fails is written to the
`retry_event` table and published again later. File names below are those of the
application's source directory, `src/src/`; `README.md:<n>` is the repository's README.

Contents: 1 inventory, 2 what is hard, 3 modules, 4 runs and bounds, 5 fairness,
6 proofs, 7 findings and observations, 8 what is not modelled, 9 plan.

## 1. Inventory

| Component | Code | State it keeps | Operations | Talks to |
|---|---|---|---|---|
| Retry policy | `event-trigger/retry-event.service.ts`, `config.ts` | none | how often a kind of message is retried, how long it waits, whether a partial failure is progress | retry pipeline |
| Retry pipeline | `event-trigger/event-trigger-service.ts` 412-560, `retry-event.service.ts` | table `retry_event`: status, retryCount, nextRetryTime, data; Kafka log and offsets | `createEventTrigger`, `consumeEventTrigger`, `createOrUpdate`, the job that publishes due rows (outside the repository) | event bus, handlers, PostgreSQL |
| Event trigger routing | `event-trigger-service.ts` 38-429 | subscriptions | `onModuleInit`, `reRouteMessageToDedicatedTopic` | event bus |
| Event bus, consumers | `event-bus/*.ts` | consumers per topic, last heartbeats, timers | `publishEvent`, `consume`, `restartConsumer`, heartbeat check, shutdown | Kafka |
| Event handlers | `event-handlers/*.ts` | none | `route`: returns `{}` in this commit | connectors |
| Rate limiter | `shop-connectors/utils/rate-limit.util.ts` | Redis: config, one key per cost, a lock; a counter per connection | `handleShopifyGraphQLRateLimit` and `handleRateLimit`, which every request to Shopify passes | Redis, Shopify |
| Shipments | `shopify.service.ts` 327-371, 1595-1729, `graphql-mappers/outbound-shipment.mapper.ts` | `metaInfo.shipped_quantity` of order items | `createShipments` | Shopify, orders service |
| Order sync | `shopify.service.ts` 234-256, 730-1282, order mappers, `listeners/` | none of its own (orders in the middleware) | `getOrders`, the listener that rejects unpaid orders | Shopify, orders service, event bus |
| Open and cancel orders | `shopify.service.ts` 481-702, 1437-1472, 1731-1806 | none | `updateOpenedOrders`, `updateCancelledOrders` | Shopify, orders service |
| Refunds | `shopify.service.ts` 1812-2006, `shop-connectors.service.ts`, `refund-orders/`, both refund mappers | refund orders | `calculateRefundOrder`, `createRefundOrder`, `createRefundOrders` | Shopify, orders service |
| Inventory levels | `shopify.service.ts` 373-479, 1399-1436, 2278-2741 | none | sellable quantity of items and bundles, `updateInventoryLevels` | Shopify, inventory service |
| Inventory import | `shopify.service.ts` 258-325, 1284-1398 | the cursor in `target_sync` | `getInventoryItems`, `sendInventoryItemsToMiddleware` | Shopify, event bus |
| Gid sync | `shopify.service.ts` 2743-2923 | global ids of rows | `syncInventoryItemGid`, `syncFulfillmentOrdersGid` | Shopify, inventory and orders services |
| Connection auths, shop integration | `connection-auths/`, `shopify.service.ts` 2065-2110, 2949-3045, `shop/` | table of credentials, locations of implementations | `create`, `update`, lookups, `createShopIntegration`, `getShopDetails` | PostgreSQL, Shopify |
| Field mapper | `field-mapper/` | table of mappings, one default per kind | `create`, `update`, `remove`, the listener | PostgreSQL, orders service |
| Auth and roles | `auth/` | the attributes of users | login, token, `registerUser` | identity provider |
| Core transfer | `core/` | an SFTP client, folders | connect, lock, read, archive, take over; SFTP and S3 | SFTP, S3 |
| Queue | `queue/` | Bull jobs | `process`, `addTrackReturnLabelJob` | Redis, event trigger |
| Orders, inventory, outbound, sync preferences | `orders/`, `inventory/`, ... | placeholders in this commit | | |
| Controllers, DTOs, entities, migrations | | | declarations | |

How they interact: a controller, cron job or queue job calls `createEventTrigger`; the
message is emitted to the topic named after its entity; one consumer of the topic's
group receives it, calls `route`, and in the `finally` block calls
`RetryEventService.createOrUpdate`. A failed item is thereby kept by a row; the retry
job moves due rows to `processing` and publishes them with their `retryEventId`. The
connector's operations are what `route` calls when it is filled in. Every call to Shopify
first passes a rate limiter; the response interceptor of the GraphQL client
(`graphql-shopify.service.ts:63-83`) turns `userErrors` into rejections, which is why
the models treat a refusal by Shopify as a failing call. The connectors find a shop by
its connection (`connection-auths`), whose `metaInfo` they also write.

What makes each component correct:

- *Retry pipeline*: nothing handed over is lost, nothing is retried beyond its limit or
  from two rows at once, a row in `processing` is being attempted, everything settles.
- *Retry policy*: "no progress" means the same set of ids.
- *Rate limiter*: live keys cover what Shopify has not restored; what is let through is
  not refused; nobody waits for ever; REST requests go out a step apart.
- *Shipments*: record, Shopify and warehouse agree; nothing is fulfilled that did not ship.
- *Order sync*: one order per fulfillment order, under a name nobody else gets, booked at
  its share of the price; the completion flag appears once and not early; what is
  requested and paid arrives.
- *Open and cancel*: an event that ends has answered all its fulfillment orders; what is
  reported as cancelled is not fulfilled afterwards.
- *Consumers*: a silent consumer is restarted, none runs unwatched, topics start in order.
- *Inventory*: the shop offers what there is and no more; no changed variant is passed
  over; each row gets its global id.
- *Refunds*: what is refunded is recorded; both calculations of a return agree.
- *Connections*: one per shop and implementation; a secret is read as it was entered;
  an integration that ended has its location.
- *Field mapper*: one default per kind, of which the orders service knows in the end unless
  its calls fail or overtake each other.
- *Auth*: a tenant keeps the implementations it was given and gets those of its users.
- *Transfer*: a file is locked once, never lost, and archived in the end; a handler writes
  to its own server.

## 2. What is hard

Every step is at least one database or network call, so consumers interleave with each
other, with users' requests and with the retry job. Uniqueness is a read before a write.
Kafka delivers at least once (offsets are committed every two seconds,
`consumer.service.ts:37`); processes die between two calls; a message is taken from a
consumer that still runs it; handlers fail for some of a message's items; answers get
lost after the effect; nothing is done in a database transaction; data that is stored
for a retry is the object the handler has been working on. `PROJECT.json` lists forty
such places, each with the properties that watch it.

## 3. Modules

| Module | Models | Composed with |
|---|---|---|
| `RetryPolicy` | pure part of `retry-event.service.ts` | extended by `RetryEvents`, `MCRetryPolicy` |
| `EventLifecycle` | abstract: what a `retry_event` row promises | implemented by `RetryEvents` (`Lifecycle`) |
| `RetryEvents` | messages, consumers, rows and the retry job | extends `RetryPolicy` |
| `EventConsumers` | subscription at start-up, consumers, timers, restarts, shutdown, routing, the detached emit | |
| `GraphQLRateLimit` | the GraphQL limiter, its Redis keys and lock, Shopify's bucket, seconds | |
| `RestRateLimit` | the counter of the REST limiter, its life, the sleeping callers | beside `GraphQLRateLimit` |
| `Shipments` | `createShipments` for one order | |
| `OrderAmounts` | what the orders of a split shop order cost (functions) | extended by `OrderSync` |
| `OrderSync` | `getOrders` and the listener for one split order | extends `OrderAmounts` |
| `FulfillmentOrders` | `updateOpenedOrders`, `updateCancelledOrders`, side by side | |
| `InventorySync` | the import of variants: pages, cursor, overlap | beside `StockLevels` |
| `StockLevels` | sellable quantity of items and bundles, and the handler that writes it | beside `InventorySync` |
| `GidSync` | the two lookups of global ids | beside `RetryEvents` |
| `FileTransfer` | lock, read, archive, take over, by SFTP and by S3 | beside `RetryEvents` |
| `SftpSession` | the one SFTP client of a process | in `MCServices` |
| `ShopIntegration` | `createShopIntegration`, `create`, `getShopDetails` | extended by `MCServices` |
| `ConnectionRecords` | `create` and `update` of a connection, its secret, login and sharing | in `MCServices` |
| `Registration` | login, tokens and `registerUser` | in `MCServices` |
| `FieldMapper` | `create`, `update`, `remove`, the default of a kind, the listener | in `MCServices` |
| `Refunds` | the batch and the user's refund, the records | in `MCServices` |
| `RefundAmounts` | both calculations of what a return is worth (functions) | in `MCServices` |
| `Sums` | sums over finite sets (operator) | extended by `Shipments`, `GraphQLRateLimit`, `OrderSync`, `RefundAmounts` |
| `CommonTheorems` | theorems about naturals, subsets and sums | extended by the proof modules |
| `ShipmentsProofs`, `OrderSyncProofs` | theorems | extend the module they are named after |
| `EventConsumersProofs` | theorems about the consumers, and about `FulfillmentOrders`, whose handlers they run | extends `EventConsumers`, instantiates `FulfillmentOrders` |
| `RetryEventsProofs`, `InventoryProofs`, `ServicesProofs`, `RateLimitProofs` | theorems about the compositions, with the constants open | extend `MCRecovery`, `MCInventory`, `MCServices`, `MCGraphQLRateLimit` |
| `MC...` | instances for TLC | extend the module they are named after |

Common conventions. A worker is one consumer instance; `pc[w]` names the call it makes
next, and one action stands for everything between two awaits. An action has the name of
the function it translates, an environment action a name of its own (`ship`, `crash`,
`Rebalance`, `Tick`). A definition preceded by "Variant:" is a plausible slip in the code
that some property must notice; no specification uses it. Every bound is a constant
called `Max...` and stands in a guard.

**RetryEvents.** A message is a set of items (`data`) and perhaps a row (`rid`). A
handler is what `createOrUpdate` can tell apart: it throws, or it applies some items and
returns with the others failed; `WrapsRetryInfo` says whether it reports them as
`message.data.retryInfo`. `createOrUpdate` chooses among its branches from the status,
the failures and the row; `create`, `complete`, `readEvent` and `saveEvent` are its
database calls, one step each, so that `update()` is a read and a later save of the
whole row. `MarkProcessing` and `PublishRetry` are the two calls of the retry job, which
the repository only implies (`findByFilter`, `updateStatus(..., processing)` with its
increment, `retryEventId` on messages). `createOrUpdate`'s comparison of a retry's
failures with its row is equality of sets here; that the code's comparisons amount to
this is what `MCRetryPolicy` checks. Time is left out: an open row may be due at once.
`requested` and `done` are history.

**EventLifecycle.** A row is recorded, attempted at most `MaxRetry` times one at a time,
reopened or buried after a failure, completed; `completed` and `dead` are final.

**GraphQLRateLimit.** One tick is a second, the unit of all expiries the code computes.
Redis calls take no time, except for `MaxStalls` seconds between the calls under the
lock. A request that may go is sent before the next tick. `bucket` is Shopify's side.

**Shipments.** A shipment is the quantity left to allocate of each SKU. `Allocated` is
the mapper's loop said as a relation between order items, and `CountDown` its effect on
the message. `seen` is the order as it was read, `shipped` the record, `fulfilled`
Shopify. Shopify takes a fulfillment without line items as all that remains.

**OrderSync.** Fulfillment orders are numbered as Shopify pages them; the middleware's
orders are named by their suffix. `triggers` are the sync messages, each a cursor.

**FulfillmentOrders.** Fulfillment orders are OPEN, IN_PROGRESS or CLOSED; the `ship`
action closes one because its goods have left. Every call may fail, with or without its
effect, and `cancelOrder` may be refused at will. `reported` are those
`sendCancelledOrdersToShop` counted as cancelled.

**EventConsumers.** The map of `ConsumerService` holds the newest consumer of a topic;
`timers` holds, for each topic, the consumers whose `startHeartbeatCheck` still runs,
since a timer captures the consumer it was started for and none is ever cleared. A
heartbeat is "never", "fresh" or "stale", which is all the check looks at. kafkajs and the
broker are external.

**RestRateLimit.** `INCR`, then `PEXPIRE` and a sleep of as many steps as were counted. A
caller may die between the two, which leaves a counter without a life.

**OrderAmounts, RefundAmounts.** Amounts are integers chosen so that a piece has a whole
share of each tax and discount; the floating point rounding of the code is left out.

**InventorySync.** Shopify lists variants by id; `updatedAt` is what the cursor moves by. A
page is a message: it publishes its successor, saves its variants with their customs
codes, and records the newest date it has seen. Time passes in steps that are small
against the hour of overlap.

**StockLevels.** `shop[i]` is what Shopify says is available, committed and unavailable of
an item or bundle; `read` is what the handler computed from it and `updateInventoryLevel`
writes, with whatever the shop holds by then. `Recipe` gives the pieces in a bundle.

**GidSync.** Rows and what the shop lists go by numeric id; `asked` is the list the run
began with. A message that fails is not retried, the next one begins again.

**FileTransfer.** A folder maps names to uploads; with the suffix .WIP a file is in `wip`.
Renaming over SFTP is one step of the server and checked before, an S3 rename is a copy and
a delete. `old` are files past the age at which a .WIP is taken over. The loop around these
calls and the sender are external.

**SftpSession.** `config` and `client` are the fields of the one service instance;
`forgetting` counts error listeners that wait for the cache before they null the client.

**ShopIntegration.** `call[c].pc` goes through the awaits of `createShopIntegration` and of
the `create` it calls: the check of the shop's url, the OAuth code, the check of `create`,
the save, the fulfillment service, the location. `connections` is the table; its fields
`missedBy` and `unseenBy` are history: the calls that had looked before the row was there.

**ConnectionRecords.** A text has a colon or not, which is what `decrypt` takes for the
separator between vector and cipher. `form` is a request from its checks to its save; an
update starts from a form that shows what `findOne` gives. `Restart` may give the processes a key.

**Registration.** The user pool has each account and the tenant's `implementationIds`; a
token carries what they were when it was issued. The three calls of `registerUser` are
awaited one by one, and nothing is undone.

**FieldMapper.** `toggleIsDefaultRecords` and the write of the row are two actions. The write
emits `field_mapper.after_save`, which nobody awaits: the listener's call goes to `telling`
and the request ends. `updateOrdersMetaInfoIsShippingMethodUnknown` carries out any call of
`telling`, so that calls of successive requests arrive in any order, and `CallFails` drops
one. `told` is what the orders service was told last of a row, that is of its shop value;
`sent` and `arrived` number the calls of a row to tell whether the last one arrived last.
`remove` tells nothing, and calls of a removed row still arrive.

**Refunds.** A job is a message with several entries or a user's request for one. Refund at
Shopify and record are two actions; `lost` counts the refunds whose call ended in between.

## 4. Runs and bounds

| Run | Module | Checks | Instance |
|---|---|---|---|
| `RetryOnce` | MCRetryEvents | `NoForkedWork`, `HandledInProcessing`, `LifecycleSpec` | no faults, two requests, two workers, two retries |
| `RetryFaults` | MCRetryEvents | `RetryBudgetKept`, `NoWorkLost`, `ProcessingIsDriven` | two workers, any two of: crash, rebalance, failed database call, toggled preference |
| `Recovery` | MCRecovery | `WorkSettles`, `AttemptsEnd` (rows) | fair, one worker, two retries, one failed call or toggle |
| | | `LockedOnce`, `NothingLost`, `EverythingArchived` (files) | SFTP and S3, two workers, two names, two uploads, a crash |
| | | `GidsArrive` (ids) | four ids, one of a manual row, one to a page, two changes, a broken run |
| `RateLimit` | MCGraphQLRateLimit | `DebtIsOnRecord`, `AdmittedNotRefused`, `EveryRequestGoes` (GraphQL) | three requests, bucket of 4, all costs, with and without config, one stalled second |
| | | `RequestsSpaced` (REST) | two callers, the default plan and one with more, a step of two ticks |
| `ShipInParts` | MCShipments | `AllAgree`, `RecordWithinOrder` | three items over two SKUs, four parcels in three messages, two workers, a failure and a crash |
| `ShipRetried` | MCShipments | `NeverOverFulfilled` violated | half of the order ships, one failure |
| `OrderSync` | MCOrderSync | `BookedOnce`, `SyncedOnce`, `CompleteFlag`, `KeepsItsOrder`, `EveryRequestSynced` | three fulfillment orders, pages of two, one consumer, late payment and SKU, one failure |
| `SyncPages` | MCOrderSync | `KeepsItsOrder` violated | the same, two consumers, paid |
| `OpenOrCancel` | MCEventConsumers | `OpenedIsSettled`, `NotShippedOnceCancelled`, `EventsEnd` | an order in two parts and one entered by hand, one open and one cancel event, two workers, two failures, a crash |
| `EventConsumers` | MCEventConsumers | `OrphansAreWatched`, `StartsInOrder`, `MessagesHandled` | two topics, three consumers of one and two of the other, two of: outage, crash, manual restart |
| `Inventory` | MCInventory | `NoVariantSkipped` (variants) | two imports, pages of one variant, five ticks, an overlap of three |
| | | `ShopNeverOversells`, `ShopOffersTheStock` (quantities) | two components in two bundles, one message, one purchase |
| `Services` | MCServices | `NoDuplicateConnections`, `IntegrationsHold` | two requests, two shops, two implementations, two jobs, one update, one failure |
| | | `RecordsHold` | two connections, three requests, two logins, a secret with a colon and one without |
| | | `RegisteredUsersHold` | two registrations in flight of three, two tokens, a failing call |
| | | `OneDefaultMapper` | two rows, two kinds, two editors, three requests, one failure: a request breaks off or a call is lost |
| | | `SessionsHold` | two handlers, two servers, two clients, three uses, one fault |
| | | `RefundsAreRecorded` (refunds, amounts) | two jobs of up to two entries, a repetition, a crash; every return of two items |
| | | `MatchMeansNoProgress` | every kind of message, all lists of at most two of three ids |

Several modules in one run. `Recovery`, `RateLimit`, `Inventory` and `Services` explore
modules that share no state, one per behaviour: the variable `part`, chosen initially,
says which of them takes its steps, and the variables of the others stay what they are.
No interleaving is lost by this, since no action of one reads what another writes. In the
two runs that check liveness the modules that rest are left in a state in which none of
their fair actions is enabled (nothing published, all answered, nothing uploaded), so that
their fairness asks for nothing. A property of such a run speaks of the part it names.

Why these bounds are enough to see the interesting cases:

- *Retry pipeline.* A lost update needs two workers with the same row: one redelivery
  (a rebalance, or a crash after the save) and one retry. `RetryFaults` has
  `MaxRetry = 1`, so that the limit is reached within three messages; that stale saves do
  not break the limit for larger values is the theorem `RetryBudget`. With two faults
  every pair of kinds occurs. `Recovery` gives the one worker enough messages and
  rows (7 and 3) that no behaviour stops at those bounds: with two items at most three
  rows are created, each published at most twice.
- *Rate limiter.* A bucket of 4 refilled by 1 makes every cost class occur (free,
  half, nearly all, all). Three requests are a holder of the lock, a sleeper and a
  newcomer. Of the REST limiter's callers one sleeps while the other counts, dies or
  starts a new life; `MaxCount` lets them count past the allowance.
- *Shipments.* Two items share a SKU, so that allocation has an order, and one stands
  alone. One message has two parcels, which is what makes the reading of the order in
  the loop matter.
- *Order sync.* Three fulfillment orders on pages of two give a full page, a rest and a
  retried middle. The one without a SKU is the last; section 7 says what an earlier one
  does.
- *Open and cancel.* The cancel event names the parts in the opposite order, so that
  either may be read, accepted, shipped and cancelled while the other is; two failures
  make a retry that fails again.
- *Consumers.* The dedicated topic starts first, the other may not start at all. A consumer
  that runs outside the map takes two restarts of one topic that overlap, hence three
  consumers of it.
- *Inventory.* Two pages and two imports are needed for a page of one import to save after
  the cursor of the other has moved. A clock of five makes the overlap of three expire.
  Bundles of three of one component, and of two of it and one of the other, compete for
  the stock and round at different quantities.
- *Files and ids.* Two uploads under two names include a name used twice. Three ids are
  three pages, so that the shop changes before, on and behind the page being read.
- *Services.* Every check here is a read before a write, which two requests that overlap
  are enough to defeat, and a third finds the result. Two requests for one row that follow
  one another have two calls of the orders service on their way, which arrive in any order.
- *Refunds.* Of two entries one fails before or after the other, and both may be of one
  order, whose quantity of two they can exceed together.

`KeepsItsOrder` is checked in a passing run with one consumer and in a violation run with
two: one consumer per topic is what the property takes. `NoWorkLost` claims nothing once a
database call of `createOrUpdate` failed or a message was taken from a running worker, and
`ProcessingIsDriven` nothing after a failed database call or a toggled preference: there
the code does lose work (section 7). `AllAgree` speaks of behaviours in which messages
were handled one after the other and calls succeeded. Several properties of the services
are of the form "X holds unless two named steps overlapped": the exception is what the
code does wrong when they do, recorded in a ghost variable, and the property says that
nothing else leads there. `CHECK_DEADLOCK FALSE` stands where the modelled work ends (all
messages handled, all bounds spent); the order sync never ends and is checked for deadlock.

## 5. Fairness

- `RetryEvents`: a worker that runs goes on (JavaScript's event loop and time-outs of
  calls), an idle one takes messages, offsets are committed by the timer of
  `autoCommitInterval`, and the job marks and publishes due rows, as a cron job does. No
  fairness for callers, faults, or the preference.
- `GraphQLRateLimit`: the clock ticks and every call returns. `lock()` polls; each request
  takes the lock once, so weak fairness of each request suffices.
- `OrderSync`: the scheduler publishes, a running sync goes on, and each cursor in the
  topic is delivered in turn. The last is strong fairness: a consumer that is busy with
  one message makes the others wait, but Kafka delivers the topic in order, so none is
  passed over for ever. Nothing makes the customer pay or the listener run.
- `FulfillmentOrders`: running consumers go on, queued messages are delivered, due rows
  published. No fairness for failures, crashes or the warehouse.
- `EventConsumers`: kafkajs connects or gives up, timers fire, consumers send heartbeats,
  an outage ends. No fairness for manual restarts or for faults.
- `FileTransfer`: a worker that has taken a file goes on and workers look for files; files
  grow old. The takeover is strong fairness: a worker alternates between new and abandoned
  files, so whenever abandoned ones keep turning up it gets to one of them.
- `GidSync`: its messages keep being published, by a scheduler, and a run that is not
  interrupted goes on.

## 6. Proofs

TLAPS checks the following for every value of the constants, under the `ASSUME` of each
module and the hypotheses named here. The theorems are stated for the specifications the
runs use, without fairness. For each the inductive invariant is named and why the property
alone is not enough; TLC has checked these invariants on the runs' instances first.

**Retry pipeline** (`RetryEventsProofs`).

- `Typing`: `TypeOK`. `TypeInv` adds `WorkerInv`: a busy worker has a message of the log,
  and one that is about to touch a row handles a retry; without it `events[Rid(w)]` need
  not be a row.
- `RetryBudget`: `RetryBudgetKept`. `retryCount === maxAllowedRetry` is an equality, so the
  count must never pass the limit, though `update()` writes back whatever it read earlier.
  `BudgetInv` bounds the rows that workers hold (`snap`) as well as the table.
- `WorkKept`: `NoWorkLost`, if handlers report their failures as `retryInfo`
  (`WrapsRetryInfo`; section 7 says what happens otherwise). `WorkInv`, on top of who owns
  which message (`OwnerInv`), how the log grows (`LogStep`) and what rows and messages of
  the same id have in common (`RowInv`, `BoundInv`, `IdleInv`): what is still to do is in a
  message not yet taken, in the hands of a worker, or in an open row.
- `Driven`: `ProcessingIsDriven`, from `DrivenInv`: for a row in `processing` there is the
  job between its two calls, a message to come, or a worker with it.
- `AttemptsApart`: `HandledInProcessing`, and `NotForked`: `NoForkedWork` if requests are
  about different items. Both hold as long as messages come once (`DeliveredOnce`: no crash
  and no rebalance so far). `AttemptInv` gives each row at most one attempt; `ForkInv` and
  `FreshInv` keep the items of open rows, of workers and of new messages apart.
- `LifecycleImplemented`: while messages come once, every step of the pipeline is a step of
  `EventLifecycle` or leaves the rows alone.

**Rate limiters** (`RateLimitProofs`).

- `DebtCovered`: `DebtIsOnRecord`, and `AdmittedGo`: `AdmittedNotRefused`, if a caller that
  holds the lock never stalls longer than the lock lives (`LockOutlivesStalls`; redis-lock's
  default are five seconds). `LimiterInv` says what of the bucket is accounted for: by live
  keys, by the request that is about to be sent, by the one that holds the lock. A key is
  written with the life that Shopify needs to restore its cost, so debt and keys shrink
  together; that is a statement about sums over keys.
- `WaitsBounded`: nobody sleeps longer than Shopify takes to restore what all requests cost
  beyond a full bucket. `SleepInv` needs no lock: a request that reads has no key yet, so what
  it reads and its own cost are at most what all cost together.
- `RequestsApart`: `RequestsSpaced` of the REST limiter.

**Shipments** (`ShipmentsProofs`).

- `WithinOrder`: `RecordWithinOrder`. The record is overwritten with what was seen plus what
  was allocated, and neither is current. `RecordInv` bounds their *sum* for every item a
  worker has still to write, and every reading.
- `Agreement`: `AllAgree`, if the items are known to Shopify, no message or shipment is empty
  and no more of a SKU ships than was ordered (`Shippable`). `AgreeInv` follows a message
  through its loop: how much of each SKU is booked (`Spent`), and in each step how far record
  and Shopify are ahead of what has left the warehouse (`Good`). That the allocation places
  the whole shipment (theorem `AllocatesAll`) is by a least counterexample.

**Opening and cancelling** (in `EventConsumersProofs`, for an instance of `FulfillmentOrders`
with any constants that fit, `ConstantsFit`).

- `Typing`: `TypeOK`, with `Busy`: a busy worker has a message of the kind its step is about
  and, past the head of its loop, stands at one of its entries.
- `Settled`: `OpenedIsSettled`. `Walked` is the loop invariant of `updateOpenedOrders`: every
  entry passed is answered or on the list of failures. With `NeverReopened` it survives
  whatever the other consumers do in between.
- `NotShipped`: `NotShippedOnceCancelled`, from `Stopped`: what is reported is closed, and
  `NeverRevived`: closed is final.

**Order sync** (`OrderSyncProofs`), all for one consumer of the topic (`OneSync`): with two,
`SyncPages` refutes them.

- `Once`: `SyncedOnce`. `OnceInv`: what a sync read of the middleware is still so when it
  writes.
- `KeepsOrder`: the action property `KeepsItsOrder`, if no fulfillment order but the last
  lacks its SKU at first (`LastMayLackSku`; section 7 says why). `CountInv`: the suffixes
  given so far are the first ones, and no fulfillment order before another is left out of
  what is sent, so each new suffix is beyond all that exist.
- `FlaggedOnce`: `CompleteFlag`, under the same conditions. `Completes` compares quantities;
  `CompletesWhole` turns that into sets: the flag goes to the fulfillment order with which
  what is held and the new ones up to it are all there are.
- `BookedFully`: `BookedOnce`, if besides the first discount is not above the line's price
  (`Payable`; otherwise a share is negative and parts may exceed the whole). `MappedInv`: an
  order has the shipping exactly if its suffix is 0, since any other is partial, and a share
  of price and tax that is proportional to its quantity.

- `NoneDropped`: once a message is under way that will come to a paid fulfillment order with a
  SKU, one is (or a sync has it in hand) until it has its order or is closed: `NeverDropped`,
  though the next page is published before this one is written. `HandInv`: what a sync has in
  hand is behind the cursor a failure publishes again. With two consumers it does not hold, as
  an upsert may replace an order.

**Consumers** (`EventConsumersProofs`). `TopicsInOrder`: `StartsInOrder`, and `OrphansSeen`:
`OrphansAreWatched`. `ConsumersInv` says which topics start-up has passed, waits for and has
not touched (`InOrder`), and who has a timer (`Timed`, `LostToAnother`).

**Files** (in `RetryEventsProofs`). `FilesLockedOnce`: `LockedOnce`, and `FilesNotLost`:
`NothingLost`. `FilesInv`: an upload is under one name, and a worker between listing and
renaming holds a name, not a file.

**Global ids** (in `RetryEventsProofs`). `OneRunSuffices`: an id the shop lists all along has
its global id once a run that asked for it ends without a fault, whatever else is listed or
dropped under the paging. `Behind` is the loop invariant, behind the cursor everything asked for
is fetched or done, and `PagePassesNone` says why the cursor may move to the last of a page.
`LookupsEnd`: every lookup moves the cursor on or is the last of its run.

**Inventory import** (`InventoryProofs`). `VariantsKept`: `NoVariantSkipped`, if twice the
time of a sweep is below the overlap (`Short`; TLC refutes it where the two are equal, so the
condition is as weak as it can be). The property is far from inductive: `ImportInv` adds that
a fetched version is current or younger than the import (`PageOk`), that the pages of an
import between them bring everything it lists (`Cover`), and that a page nobody else follows
may be lost because the cursor has not moved past it (`Alone`, `Kept`). That the customs
codes are asked of all variants of a page, though page by page, is theorem `CustomsOfAll`.

**Inventory levels** (`InventoryProofs`). `NeverOversold`: `ShopNeverOversells`, and
`StockOffered`: `ShopOffersTheStock`, for any items, recipes and levels. Most of it is about
the computation, not the handler: `HeldInBundles` equates the sum the code takes over the
bundles of a component with what is held of all items, `Rounding` and `RoundedSafely` bound
what `Math.floor` and `Math.ceil` take, and `MinIsLeast` finds the scarcest component, so
theorem `SellableCovers` says of the quantity of any item that every component covers it and that
one is short beyond it. `StockInv` then carries that quantity from the read to the write
(`Written`) and on until somebody buys (`Offered`); `SellableKept` is why the write itself
does not disturb it.

**Services** (`ServicesProofs`).

- `MapperKept`: `OneDefaultMapper`, which is `OneDefault` and `DefaultsTold`. `MapperInv`
  holds for requests between their two writes. `CallsInv` is about calls on their way: each is numbered
  no higher than the last that was started, and the last call of a row that is a default,
  and was written by a request that had read it as it was, says so. So it does not matter
  which calls arrive before it; one that arrives after it is what the property exempts.
- `UsersKept`: `RegisteredUsersHold`. `UserInv` orders tokens and registrations by the clock
  of the pool: a token knows what the tenant had when it was issued.
- `SessionsKept`: `SessionsHold`, from `SftpInv`.
- `DuplicatesExplained`: `NoDuplicateConnections`, and `IntegrationsKept`:
  `IntegrationsHold`. `ShopInv` says of every call what it had seen when it passed its checks
  and attributes each connection to the call that saved it.
- `RecordsKept`: `RecordsHold`. `RecordInv`: a form shows the secret that is in its record,
  and two records with a login had unseen checks.
- `RefundsKept`: `RefundsAreRecorded`. `RefundInv` says of each job that what Shopify
  refunded is what is recorded, what was lost, and the entry between its refund and its
  record; a worker stands at one entry of its job, and what it has passed it has done. The
  two calculations of a return agree because both are sums over the returned items of
  shares that come out whole (`DivExact`); the code sums over lists it has mapped and
  filtered, Shopify over its lines, and `SumImage` and `OverImage` carry the one to the other.
- `MatchesExact`: `MatchMeansNoProgress`, for lists of any length. The code compares lengths
  and then asks of every id of one list whether it is in the other; `SameSize` says why, for
  lists without repetitions, that is equality up to order. `PushesAll` is the loop of
  `sendCancelledOrdersToShop`: it pushes one refund order for each failed cancellation that
  has one, so the exempted case is the only one in which lengths mislead.

The assumptions the proofs added to modules are of the kind any use fulfils: finitely many
requests, topics listed once, a keyword of `FieldMapper` that is none of its other values, and
in `RefundAmounts` no discount above the price of the piece it is for.

Induction. The library's induction theorems take an operator and cannot be used, so what is
true of every finite set is proved by a least counterexample: `SubsetInduction`
(`CommonTheorems`) does it once for a property given as the set of sets that have it, and
the sums over sets that shipments, order sync and the rate limiter need rest on it.

Only model-checked: the eight liveness properties (`WorkSettles`, `AttemptsEnd`,
`EveryRequestGoes`, `EveryRequestSynced`, `EventsEnd`, `MessagesHandled`,
`EverythingArchived`, `GidsArrive`). They rest on fairness and `ENABLED`, which are out of the
prover's reach. Every invariant and every other action property of a passing run is proved, and
of the liveness properties the part that is safety: work is never without somebody to do it
(`WorkKept`, `Driven`, `FilesNotLost`, `NoneDropped`, `OrphansSeen`), and loops and waits that
must end have a bound (`OneRunSuffices`, `LookupsEnd`, `WaitsBounded`).

## 7. Findings and observations

Runs that show the code against a line of its documentation or tests:

1. `ShipRetried`: the mapper counts the quantities of a shipment down in the message, and
   that object is stored for the retry. The retry sends a fulfillment without line items,
   which fulfils everything that remains.
2. `SyncPages`: the next page is published before this page's orders are written. Two
   consumers number a split order from the same count and one upsert replaces the other.

Seen while modelling, without a run of their own:

*Retry pipeline.*

- README.md:212 speaks of exponential backoff; the pauses are 1, 2, 3, 4, 5, 24, 24, ... hours.
- `updateCancelledOrders` (`shopify.service.ts:1465`) replaces `message.data` where the
  other handlers set `message.data = { retryInfo }`. A first delivery records nothing and
  a retry is completed: cancellations that failed are gone (`WrapsRetryInfo = FALSE`
  violates `NoWorkLost`).
- A failed database call in `createOrUpdate` is logged and the offset committed
  (`event-trigger-service.ts:523`): the failed items have no row.
- A preference switched off between marking and publishing leaves a row in `processing`
  (`:538`). A worker that lost its message to a rebalance may complete a row another
  worker has reopened (`retry-event.service.ts:72`).
- The comparison of cancellations (`checkIfDataAndRetryInfoMatch`) counts on one refund
  order per cancelled order, but the mapping (`shopify.service.ts:704`) keeps one per shop
  order. If only one of two had one, the lengths differ and a total failure looks like
  progress, once; `MatchMeansNoProgress` exempts that case.

*Consumers and routing.*

- A topic that never had a heartbeat is never restarted, and a topic behind a failed one is
  never subscribed; `MessagesHandled` therefore speaks of watched topics. A rejected emit
  is only logged.

*Rate limiters.*

- A sleeper's cost counts as if it were being restored already, so a later request may
  wake with it and one of the two is refused: with a maximum of 1000, two requests of 530
  behind older ones. `AdmittedNotRefused` speaks of requests admitted at once.
- While no config is stored (`rate-limit.util.ts:121`) all requests go at once. A holder of
  the lock that stalls five seconds (`:148`) is outside the run.
- REST: when more than `allowedRequest` are counted in one life, the last sleepers outlive
  the counter and collide with the next ones; under steady traffic counter and sleep grow.

*Shipments, opening and cancelling.*

- A redelivered or concurrent shipment is fulfilled again as far as the order has room.
- An item without a gid empties the list of lines, and Shopify fulfils everything
  (`outbound-shipment.mapper.ts:25`).
- `cancelFulfillmentAndOrder` takes CLOSED for "already cancelled"
  (`shopify.service.ts:496`). It also means shipped, and after a crash between closing the
  fulfillment order and cancelling the order it leaves the order as it is. The model has
  both; `NotShippedOnceCancelled` speaks of the fulfillment order only.
- The retry of an open event carries all fulfillment orders again, as
  `fulfillmentOrderIds` is narrowed and `fulfillmentOrderGIds` is what the handler reads
  (`shopify.service.ts:1793`). It is harmless: the answered ones are no longer OPEN.

*Order sync.*

- A fulfillment order without a SKU that the mapper leaves out (`order.mapper.ts:88-93`) has
  been counted: the one behind it gets the next suffix but one. The following sync counts
  the orders that exist, and gives that suffix away a second time; `KeepsItsOrder` fails for
  `NoSku = {1}` and for `{2}`, within one sync after another of one consumer. The quantity
  of what was left out is counted as well, so the last one is flagged complete while the
  middleware lacks the other: `CompleteFlag` fails, too.
- The listener rejects what was unpaid when it was fetched (`shopify.service.ts:857`).
- Only the first tax line, discount allocation and shipping line count; an order's tax
  rate is the unweighted mean of its items' rates. When the first fulfillment order of a
  page is left out, the shipping cost is in no order's total (`order.mapper.ts:86`).

*Inventory, import, ids.*

- The quantity is written without comparing it with what was read
  (`shopify.service.ts:466`): a purchase in between is undone. A bundle whose relation is
  missing divides by zero (`:2692`).
- A redelivered first page reads the cursor that its own next pages have moved; a lost page
  of an import of several is never fetched again. Imports may overlap only while twice
  their duration stays below the overlap.
- Rows without a positive id give an empty query, which fetches everything
  (`shopify.service.ts:2820`).

*Files.*

- The SFTP archive refuses a name used again for good. The S3 lock is not exclusive, and its
  delete takes whatever has the name by then.
- The SFTP client is returned whatever host it is connected to, while the configuration is
  overwritten. A missing folder or a lost connection makes the path empty, and a file is
  put into the login directory. Overlapping connects leave one open; an error listener
  forgets whatever client is there once the cache has answered.

*Connections and users.*

- A connection is created before the fulfillment service and the location: after a failure
  in between every retry is refused with 409 and the implementation stays without location.
  An inactive connection blocks a new integration. A connection of another shop system is
  only noticed after the OAuth code is spent. `update` does not check uniqueness.
- A secret with a colon that was stored while no key was set is garbled once a key is there,
  and the form then saves what it shows. `findByFacilityAndCustomerId` and `findAll`
  return the secret undecrypted.
- `getShopDetails` writes back the `metaInfo` it had read before it asked Shopify. Webhooks
  are subscribed under `/shop/shopify/webhooks`, the route is `shop/shopify/webhook`.
- `registerUser` answers an existing address with an error and so never repairs a
  registration that broke off; two registrations under one token lose each other's
  implementation.

*Field mapper.*

- An update that moves a default to another kind toggles the old kind only. Rows that lose
  their flag to the toggle, and removed rows, are never announced to the orders service.
- The calls that announce a row are not awaited (`field-mapper.service.ts:68`, `:155`). Two
  updates of a row that follow one another, the flag off and then on, can reach the orders
  service in reverse; it then takes the default for a row without the flag until the row is
  saved again. If `DefaultsTold` asked only that no call of the row is on its way, TLC finds it
  violated by two requests without a failure: a row is created, then made the default.

*Refunds.*

- Batches are not retried: an exception at one entry drops the later ones, a redelivery
  refunds the earlier ones again. Records of a batch carry no Shopify id, since it is put
  on another object than the one recorded (`shopify.service.ts:1985`).
- Shopify's total is its first transaction only. The middleware's tax and total are the
  whole order's, whatever is returned.

## 8. Not modelled

- The retry job and Kafka, PostgreSQL, Redis, Shopify, the user pool, SFTP and S3 servers
  are not in the repository; they are modelled as the environment, from how the code uses
  them.
- Event handlers, orders, inventory, outbound and sync preference services are
  placeholders in this commit. The connectors' operations are modelled as handlers.
- The queue: `process` publishes one message per job and does not wait for it, Bull retries;
  nothing calls it in this commit, and the brand-label job has no handler.
- Controllers, DTOs, entities, migrations; guards, which read claims and keep no state;
  pagination and filters, which only read.
- Empty answers of Shopify about a fulfillment order an event names
  (`shopify.service.ts:1765` skips it, `:490` fails): the models take it to exist.
- Addresses, names, net amounts and formats in the mappers, the rounding of floating point
  amounts, logging, mails.
- Payloads: `data` of a row is a set of items, except in `Shipments`, where what is stored
  is the point.
- Time in `RetryEvents`; network delay after a limiter has let a request go; the
  statistics of `trackRateLimit`.
- The carrier mapping and the write-back of `customerShipmentId` in `createShipments`; the
  refund orders that travel with a cancellation, whose refund has no effect in this commit.
- The call that tests a connection, the defaults of a new one, the encryption of carriers'
  credentials, webhooks: they change none of the modelled state.

## 9. Plan

The modules of section 3 are done, and every safety property a passing run checks is proved.
`RecordWithinOrder` and `AllAgree` for shipments that are handled side by side do not hold
(section 7); no weaker claim for them has been found worth proving.
