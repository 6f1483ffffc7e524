------------------------------ MODULE RetryEvents ------------------------------
(***************************************************************************)
(* The retry pipeline: Kafka messages, the consumers that route them       *)
(* (EventTriggerService.consumeEventTrigger), the retry_event table that   *)
(* records what failed (RetryEventService) and the job that publishes due  *)
(* retries again.                                                          *)
(*                                                                         *)
(* A message carries a set of Items (shipments, orders, ...). Each         *)
(* database call of a consumer is a step of its own, so consumers, crashes *)
(* and redeliveries interleave between any two of them.                    *)
(***************************************************************************)
EXTENDS RetryPolicy, FiniteSets

CONSTANTS
  Items,           \* pieces of work a message can carry
  Requests,        \* item sets the callers of createEventTrigger send
  Workers,         \* consumer instances of the topic's group
  MaxRetry,        \* maxAllowedRetry of this kind of message
  WrapsRetryInfo,  \* does the handler report failures as data.retryInfo?
  MaxMsgs,         \* bound: messages ever published
  MaxEvents,       \* bound: rows ever created
  MaxCrashes,      \* bound: process crashes
  MaxRebalances,   \* bound: messages taken from a worker that still runs
  MaxDbErrors,     \* bound: database calls of createOrUpdate that fail
  MaxToggles,      \* bound: changes of the sync preference's isActive
  MaxFaults        \* bound: of these four together

Msgs == 1..MaxMsgs    \* trigger ids, in the order of publication
Ids  == 1..MaxEvents  \* primary keys of retry_event
NoEvent == 0          \* retryEventId is undefined

ASSUME RetryEventsAssumption ==
  /\ Requests \subseteq (SUBSET Items) \ {{}}
  /\ "nobody" \notin Workers
  /\ MaxRetry \in Nat \ {0}
  /\ WrapsRetryInfo \in BOOLEAN
  /\ {MaxMsgs, MaxEvents, MaxCrashes, MaxRebalances, MaxDbErrors, MaxToggles,
      MaxFaults} \subseteq Nat

VARIABLES
  events,     \* the retry_event table; status "none": no such row yet
  marked,     \* rows the retry job has set to processing and not yet published
  msgs,       \* the log: what each trigger id carries
  phase,      \* where each message is in its consumer group
  owner,      \* the worker a message is assigned to
  pc,         \* the next database call (or route) of each worker
  job,        \* the message each worker handles
  todo,       \* items the worker has yet to write to a new row
  snap,       \* the row update() has read
  requested,  \* ghost: items some caller has handed over
  done,       \* ghost: items whose effect has been applied
  active,     \* syncPref.isActive
  budget      \* what is left of the four fault bounds

vars == <<events, marked, msgs, phase, owner, pc, job, todo, snap, requested,
          done, active, budget>>
workerVars == <<pc, job, todo, snap>>
logVars    == <<msgs, phase, owner>>

Statuses == {"none", "open", "processing", "completed", "dead"}
Live == {"open", "processing", "dead"}   \* the row still answers for its items

Row == [status : Statuses, retryCount : Nat, data : SUBSET Items, delay : Nat]
NoRow == [status |-> "none", retryCount |-> 0, data |-> {}, delay |-> 0]
Message == [rid : Ids \union {NoEvent}, data : SUBSET Items]
NoMsg == 0
NoWorker == "nobody"
Phases == {"unsent", "queued", "taken", "finished", "committed"}
Steps == {"idle", "routing", "creating", "completing", "reading", "saving", "finishing"}

Init ==
  /\ events = [e \in Ids |-> NoRow]
  /\ marked = {}
  /\ msgs = [m \in Msgs |-> [rid |-> NoEvent, data |-> {}]]
  /\ phase = [m \in Msgs |-> "unsent"]
  /\ owner = [m \in Msgs |-> NoWorker]
  /\ pc = [w \in Workers |-> "idle"]
  /\ job = [w \in Workers |-> NoMsg]
  /\ todo = [w \in Workers |-> {}]
  /\ snap = [w \in Workers |-> NoRow]
  /\ requested = {}
  /\ done = {}
  /\ active = TRUE
  /\ budget = [crash |-> MaxCrashes, rebalance |-> MaxRebalances,
               db |-> MaxDbErrors, toggle |-> MaxToggles]

----------------------------------------------------------------------------
(* What may go wrong, or be changed from outside, a bounded number of times. *)

Spent == (MaxCrashes - budget.crash) + (MaxRebalances - budget.rebalance)
         + (MaxDbErrors - budget.db) + (MaxToggles - budget.toggle)
Spend(fault) ==
  /\ budget[fault] > 0
  /\ Spent < MaxFaults
  /\ budget' = [budget EXCEPT ![fault] = @ - 1]

----------------------------------------------------------------------------
(* Publishing.                                                             *)

publishEvent(rid, data) ==
  \E m \in Msgs :
    /\ phase[m] = "unsent"
    /\ \A k \in Msgs : phase[k] = "unsent" => m =< k
    /\ msgs' = [msgs EXCEPT ![m] = [rid |-> rid, data |-> data]]
    /\ phase' = [phase EXCEPT ![m] = "queued"]
    /\ owner' = owner

\* A caller (controller, cron, queue) hands over a set of items once.
createEventTrigger(data) ==
  /\ data \in Requests
  /\ ~(data \subseteq requested)
  /\ publishEvent(NoEvent, data)
  /\ requested' = requested \union data
  /\ UNCHANGED <<events, marked, workerVars, done, active, budget>>

\* updateStatus(ids, processing), called by the retry job on a due open row.
MarkProcessing(e) ==
  /\ events[e].status = "open"
  /\ events' = [events EXCEPT ![e].status = "processing", ![e].retryCount = @ + 1]
  /\ marked' = marked \union {e}
  /\ UNCHANGED <<logVars, workerVars, requested, done, active, budget>>

\* Variant: the job publishes a row and does not take note of it.
PublishTwice(e) ==
  /\ e \in marked
  /\ publishEvent(e, events[e].data)
  /\ UNCHANGED <<events, marked, workerVars, requested, done, active, budget>>

\* The retry job's createEventTrigger(row, isCron): shouldCreateEventTrigger
\* refuses when the preference is inactive, before it looks at retryEventId.
PublishRetry(e) ==
  /\ e \in marked
  /\ marked' = marked \ {e}
  /\ \/ active /\ publishEvent(e, events[e].data)
     \/ ~active /\ UNCHANGED logVars
  /\ UNCHANGED <<events, workerVars, requested, done, active, budget>>

\* SyncPreferencesService.update from the outside.
ToggleActive ==
  /\ Spend("toggle")
  /\ active' = ~active
  /\ UNCHANGED <<events, marked, logVars, workerVars, requested, done>>

----------------------------------------------------------------------------
(* The consumers.                                                          *)

Data(w) == msgs[job[w]].data
Rid(w)  == msgs[job[w]].rid

Goto(w, step) == pc' = [pc EXCEPT ![w] = step]

eachMessage(w, m) ==
  /\ pc[w] = "idle"
  /\ phase[m] = "queued"
  /\ phase' = [phase EXCEPT ![m] = "taken"]
  /\ owner' = [owner EXCEPT ![m] = w]
  /\ job' = [job EXCEPT ![w] = m]
  /\ Goto(w, "routing")
  /\ UNCHANGED <<events, marked, msgs, todo, snap, requested, done, active, budget>>

\* createOrUpdate(message, status, reason): which database calls follow a
\* handler that threw or returned with `left` reported as retryInfo.
Reported(threw, left) == IF threw \/ ~WrapsRetryInfo THEN {} ELSE left

\* Variants: the remainder of a retry is written down, but the row it came from
\* is not completed; a failed retry leaves its row alone.
ForksRemainder(w, threw, left) ==
  CASE threw /\ Rid(w) # NoEvent                 -> "reading"
    [] ~threw /\ left = {} /\ Rid(w) = NoEvent   -> "finishing"
    [] ~threw /\ left = {} /\ Rid(w) # NoEvent   -> "completing"
    [] OTHER                                     -> "creating"
IgnoresFailedRetry(w, threw, left) ==
  CASE Rid(w) # NoEvent /\ threw                 -> "finishing"
    [] Rid(w) # NoEvent /\ ~threw                -> "completing"
    [] Rid(w) = NoEvent /\ ~threw /\ left = {}   -> "finishing"
    [] OTHER                                     -> "creating"

createOrUpdate(w, threw, left) ==
  CASE threw /\ Rid(w) = NoEvent                  -> "creating"
    [] threw /\ Rid(w) # NoEvent                  -> "reading"
    [] ~threw /\ left = {} /\ Rid(w) = NoEvent    -> "finishing"
    [] ~threw /\ left = {} /\ Rid(w) # NoEvent    -> "completing"
    [] ~threw /\ left # {} /\ Rid(w) = NoEvent    -> "creating"
    [] ~threw /\ left # {} /\ Rid(w) # NoEvent    ->
         IF left = events[Rid(w)].data THEN "reading" ELSE "completing"

\* route(message): the handler applies some of the items and then throws, or
\* returns with the others failed. With the preference inactive it is not called,
\* and the status stays 'failed'.
route(w) ==
  /\ pc[w] = "routing"
  /\ \E applied \in SUBSET Data(w), threw \in BOOLEAN :
       /\ ~active => threw /\ applied = {}
       /\ done' = done \union applied
       /\ LET left == Reported(threw, Data(w) \ applied) IN
            /\ Goto(w, createOrUpdate(w, threw, left))
            /\ todo' = [todo EXCEPT ![w] = IF threw THEN Data(w) ELSE left]
  /\ UNCHANGED <<events, marked, logVars, job, snap, requested, active, budget>>

\* create(): a new row for the failed items, due in an hour.
create(w) ==
  /\ pc[w] = "creating"
  /\ \E e \in Ids :
       /\ events[e].status = "none"
       /\ \A f \in Ids : events[f].status = "none" => e =< f
       /\ events' = [events EXCEPT ![e] =
            [status |-> "open", retryCount |-> 0, data |-> todo[w],
             delay |-> FirstRetryDelay]]
  /\ Goto(w, "finishing")
  /\ UNCHANGED <<marked, logVars, job, todo, snap, requested, done, active, budget>>

\* Variant: a retry that partly succeeded is completed, its remainder dropped.
DropsRemainder(w) ==
  /\ pc[w] = "completing"
  /\ events' = [events EXCEPT ![Rid(w)].status = "completed"]
  /\ Goto(w, "finishing")
  /\ UNCHANGED <<marked, logVars, job, todo, snap, requested, done, active, budget>>

\* updateStatus([retryEventId], completed), whatever the status is by now.
complete(w) ==
  /\ pc[w] = "completing"
  /\ events' = [events EXCEPT ![Rid(w)].status = "completed"]
  /\ Goto(w, IF todo[w] = {} THEN "finishing" ELSE "creating")
  /\ UNCHANGED <<marked, logVars, job, todo, snap, requested, done, active, budget>>

\* update(): findOneOrFail, then save of the whole row as it was read.
readEvent(w) ==
  /\ pc[w] = "reading"
  /\ snap' = [snap EXCEPT ![w] = events[Rid(w)]]
  /\ Goto(w, "saving")
  /\ UNCHANGED <<events, marked, logVars, job, todo, requested, done, active, budget>>

UpdatedRow(row) ==
  [row EXCEPT !.status = StatusAfterFailure(row.retryCount, MaxRetry),
              !.delay = IF row.retryCount < MaxRetry
                        THEN getNextRetryTime(row.retryCount) ELSE @]

saveEvent(w) ==
  /\ pc[w] = "saving"
  /\ events' = [events EXCEPT ![Rid(w)] = UpdatedRow(snap[w])]
  /\ Goto(w, "finishing")
  /\ UNCHANGED <<marked, logVars, job, todo, snap, requested, done, active, budget>>

\* An error of createOrUpdate is logged by consumeEventTrigger and goes no further.
createOrUpdateFails(w) ==
  /\ pc[w] \in {"creating", "completing", "reading", "saving"}
  /\ Spend("db")
  /\ Goto(w, "finishing")
  /\ UNCHANGED <<events, marked, logVars, job, todo, snap, requested, done, active>>

\* eachMessage returns. It always does: kafkajs resolves the offset, unless the
\* message has been assigned to another member meanwhile.
eachMessageReturns(w) ==
  /\ pc[w] = "finishing"
  /\ phase' = IF owner[job[w]] = w THEN [phase EXCEPT ![job[w]] = "finished"] ELSE phase
  /\ pc' = [pc EXCEPT ![w] = "idle"]
  /\ job' = [job EXCEPT ![w] = NoMsg]
  /\ todo' = [todo EXCEPT ![w] = {}]
  /\ snap' = [snap EXCEPT ![w] = NoRow]
  /\ UNCHANGED <<events, marked, msgs, owner, requested, done, active, budget>>

----------------------------------------------------------------------------
(* The consumer group.                                                     *)

\* Variant: offsets are committed as messages are fetched.
CommitOnFetch(m) ==
  /\ phase[m] \in {"taken", "finished"}
  /\ phase' = [phase EXCEPT ![m] = "committed"]
  /\ owner' = [owner EXCEPT ![m] = NoWorker]
  /\ UNCHANGED <<events, marked, msgs, workerVars, requested, done, active, budget>>

\* autoCommitInterval: resolved offsets are committed in the background.
AutoCommit(m) ==
  /\ phase[m] = "finished"
  /\ phase' = [phase EXCEPT ![m] = "committed"]
  /\ owner' = [owner EXCEPT ![m] = NoWorker]
  /\ UNCHANGED <<events, marked, msgs, workerVars, requested, done, active, budget>>

\* The process dies; what it had not committed is delivered again.
Crash(w) ==
  LET held == {m \in Msgs : owner[m] = w} IN
  /\ Spend("crash")
  /\ pc[w] # "idle" \/ held # {}
  /\ phase' = [m \in Msgs |-> IF m \in held THEN "queued" ELSE phase[m]]
  /\ owner' = [m \in Msgs |-> IF m \in held THEN NoWorker ELSE owner[m]]
  /\ pc' = [pc EXCEPT ![w] = "idle"]
  /\ job' = [job EXCEPT ![w] = NoMsg]
  /\ todo' = [todo EXCEPT ![w] = {}]
  /\ snap' = [snap EXCEPT ![w] = NoRow]
  /\ UNCHANGED <<events, marked, msgs, requested, done, active>>

\* A session timeout or a restarted consumer: the message goes to another member
\* while this one still runs eachMessage.
Rebalance(m) ==
  /\ Spend("rebalance")
  /\ phase[m] \in {"taken", "finished"}
  /\ phase' = [phase EXCEPT ![m] = "queued"]
  /\ owner' = [owner EXCEPT ![m] = NoWorker]
  /\ UNCHANGED <<events, marked, msgs, workerVars, requested, done, active>>

----------------------------------------------------------------------------
consumeEventTrigger(w) ==
  \/ route(w)
  \/ create(w)
  \/ complete(w)
  \/ readEvent(w)
  \/ saveEvent(w)
  \/ eachMessageReturns(w)

Next ==
  \/ \E d \in Requests : createEventTrigger(d)
  \/ \E e \in Ids : MarkProcessing(e)
  \/ \E e \in Ids : PublishRetry(e)
  \/ ToggleActive
  \/ \E w \in Workers, m \in Msgs : eachMessage(w, m)
  \/ \E w \in Workers : consumeEventTrigger(w)
  \/ \E w \in Workers : createOrUpdateFails(w)
  \/ \E m \in Msgs : AutoCommit(m)
  \/ \E w \in Workers : Crash(w)
  \/ \E m \in Msgs : Rebalance(m)

Spec == Init /\ [][Next]_vars

\* Workers run, offsets are committed and the retry job finds every due row;
\* callers, preferences and faults may do as they like.
Fairness ==
  /\ \A w \in Workers : WF_vars(consumeEventTrigger(w))
  /\ \A w \in Workers : WF_vars(\E m \in Msgs : eachMessage(w, m))
  /\ \A m \in Msgs : WF_vars(AutoCommit(m))
  /\ \A e \in Ids : WF_vars(MarkProcessing(e)) /\ WF_vars(PublishRetry(e))

FairSpec == Spec /\ Fairness

----------------------------------------------------------------------------
(* Properties.                                                             *)

TypeOK ==
  /\ events \in [Ids -> Row]
  /\ marked \subseteq Ids
  /\ msgs \in [Msgs -> Message]
  /\ phase \in [Msgs -> Phases]
  /\ owner \in [Msgs -> Workers \union {NoWorker}]
  /\ pc \in [Workers -> Steps]
  /\ job \in [Workers -> Msgs \union {NoMsg}]
  /\ \A w \in Workers : pc[w] # "idle" => job[w] \in Msgs
  /\ todo \in [Workers -> SUBSET Items]
  /\ snap \in [Workers -> Row]
  /\ requested \subseteq Items
  /\ done \subseteq Items
  /\ active \in BOOLEAN
  /\ budget \in [crash : Nat, rebalance : Nat, db : Nat, toggle : Nat]

\* The strict test retryCount === maxAllowedRetry (retry-event.service.ts:136) is
\* enough: the counter never steps over the limit, a row waiting for another
\* attempt has one left, and only a row that used them all is dead. Whatever
\* crashes, redeliveries and stale saves do.
RetryBudgetKept ==
  \A e \in Ids :
    LET row == events[e] IN
      /\ row.retryCount =< MaxRetry
      /\ row.status = "open" => row.retryCount < MaxRetry
      /\ row.status = "dead" => row.retryCount = MaxRetry
      /\ row.status = "processing" => row.retryCount > 0

\* Someone still answers for item i: a row that is not completed, or a message
\* that will be (or is being) handled and whose outcome is not recorded yet.
HeldByEvent(i) == \E e \in Ids : events[e].status \in Live /\ i \in events[e].data
Unrecorded(m) ==
  \/ phase[m] = "queued"
  \/ \E w \in Workers : job[w] = m /\ pc[w] # "finishing"
HeldByMessage(i) == \E m \in Msgs : Unrecorded(m) /\ i \in msgs[m].data

\* Automatic retry (README.md:13): an item handed to createEventTrigger is
\* applied, or some row or message still answers for it. Completing a row before
\* its remainder has a row of its own (retry-event.service.ts:72-73), and
\* committing an offset after the handler failed, must not leave a gap, whenever
\* a consumer dies. Nothing is claimed once a database call of createOrUpdate has
\* failed (its error is only logged, event-trigger-service.ts:523) or a message
\* was taken from a worker that still runs it.
NoWorkLost ==
  budget.db = MaxDbErrors /\ budget.rebalance = MaxRebalances =>
    \A i \in requested : i \in done \/ HeldByEvent(i) \/ HeldByMessage(i)

\* A row left in processing is never picked up again, so one that is in
\* processing has been marked and not published yet, or its message is on the
\* log. Under crashes and redeliveries too; a failed database call, or a sync
\* preference that is switched off between the two calls of the job, leaves the
\* row behind.
ProcessingIsDriven ==
  budget.db = MaxDbErrors /\ budget.toggle = MaxToggles =>
    \A e \in Ids : events[e].status = "processing" =>
      \/ e \in marked
      \/ \E m \in Msgs : phase[m] \in {"queued", "taken", "finished"} /\ msgs[m].rid = e

\* The failed part of a retry moves to a new row, it is not copied: no item is
\* waiting for a retry in two rows at once.
NoForkedWork ==
  \A e, f \in Ids :
    events[e].status \in Live /\ events[f].status \in Live /\ e # f =>
      events[e].data \intersect events[f].data = {}

\* While a worker handles a retry, its row is in processing: nobody reopens,
\* buries or completes it under the worker's feet.
HandledInProcessing ==
  \A w \in Workers :
    pc[w] \in {"routing", "reading", "saving", "completing"} /\ Rid(w) # NoEvent =>
      events[Rid(w)].status = "processing"

\* The table implements EventLifecycle.
Lifecycle == INSTANCE EventLifecycle WITH
  status <- [e \in Ids |-> events[e].status],
  count  <- [e \in Ids |-> events[e].retryCount]

LifecycleSpec == Lifecycle!Spec

\* The two kinds of fault the code gives up on: a failed database call of
\* createOrUpdate is only logged (event-trigger-service.ts:523), and a preference
\* switched off between the two calls of the job leaves a row behind.
GaveUp == budget.db < MaxDbErrors \/ budget.toggle < MaxToggles

\* Every item handed over ends up applied, or in a row that is dead: nothing
\* circulates for ever and nothing is forgotten.
WorkSettles ==
  <>[](\/ GaveUp
       \/ \A i \in requested :
            i \in done \/ \E e \in Ids : events[e].status = "dead" /\ i \in events[e].data)

\* An attempt always ends: no row stays in processing for good.
AttemptsEnd ==
  \A e \in Ids :
    events[e].status = "processing" ~> events[e].status # "processing" \/ GaveUp
================================================================================
