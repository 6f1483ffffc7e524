---------------------------- MODULE RetryEventsProofs ----------------------------
(***************************************************************************)
(* Proofs about what MCRecovery composes: RetryEvents, for any number of   *)
(* workers, items, rows and messages and any number of faults unless a     *)
(* theorem says otherwise, FileTransfer, for any number of workers, names,  *)
(* uploads and crashes and for both transports, and GidSync, for any ids,  *)
(* pages, changes and broken runs.                                         *)
(***************************************************************************)
EXTENDS MCRecovery, CommonTheorems

LEMMA UpdatedRowType ==
  ASSUME NEW row \in Row
  PROVE  UpdatedRow(row) \in Row
<1>1. getNextRetryTime(row.retryCount) \in Nat
  BY LimitsAssumption DEF getNextRetryTime, Row
<1>2. StatusAfterFailure(row.retryCount, MaxRetry) \in Statuses
  BY DEF StatusAfterFailure, Statuses
<1>3. (IF row.retryCount < MaxRetry THEN getNextRetryTime(row.retryCount) ELSE row.delay) \in Nat
  BY <1>1 DEF Row
<1> QED BY <1>2, <1>3 DEF UpdatedRow, Row

\* What update() writes: the row it read, with a new status and pause.
LEMMA UpdatedRowFields ==
  ASSUME NEW row \in Row
  PROVE  /\ UpdatedRow(row).retryCount = row.retryCount
         /\ UpdatedRow(row).data = row.data
         /\ UpdatedRow(row).status = StatusAfterFailure(row.retryCount, MaxRetry)
  BY DEF UpdatedRow, Row

LEMMA createOrUpdateType ==
  ASSUME NEW w, NEW threw \in BOOLEAN, NEW left
  PROVE  createOrUpdate(w, threw, left) \in Steps \ {"idle", "routing", "saving"}
  BY DEF createOrUpdate, Steps

\* A worker that is busy has a message of the log, and one that is about to touch
\* a row handles a retry.
WorkerInv ==
  \A w \in Workers :
    /\ pc[w] # "idle" => phase[job[w]] # "unsent"
    /\ pc[w] \in {"completing", "reading", "saving"} => Rid(w) \in Ids

TypeInv == TypeOK /\ WorkerInv

LEMMA createOrUpdateRow ==
  ASSUME NEW w, NEW threw \in BOOLEAN, NEW left,
         createOrUpdate(w, threw, left) \in {"completing", "reading"}
  PROVE  Rid(w) # NoEvent
  BY DEF createOrUpdate

\* A fault only takes from what is left of its bound.
LEMMA SpendType ==
  ASSUME budget \in [crash : Nat, rebalance : Nat, db : Nat, toggle : Nat],
         NEW fault \in {"crash", "rebalance", "db", "toggle"}, Spend(fault)
  PROVE  budget' \in [crash : Nat, rebalance : Nat, db : Nat, toggle : Nat]
  BY DEF Spend

LEMMA TypingInit == Init => TypeInv
<1>1. Init => TypeOK
  <2> SUFFICES ASSUME Init PROVE TypeOK
    OBVIOUS
  <2> USE RetryEventsAssumption DEF Init
  <2>1. NoRow \in Row
    BY DEF NoRow, Row, Statuses
  <2>2. events \in [Ids -> Row] /\ snap \in [Workers -> Row]
    BY <2>1
  <2>3. msgs \in [Msgs -> Message]
    BY DEF Message
  <2>4. /\ phase \in [Msgs -> Phases]
        /\ owner \in [Msgs -> Workers \union {NoWorker}]
    BY DEF Phases
  <2>5. /\ pc \in [Workers -> Steps]
        /\ job \in [Workers -> Msgs \union {NoMsg}]
        /\ todo \in [Workers -> SUBSET Items]
        /\ \A w \in Workers : pc[w] # "idle" => job[w] \in Msgs
    BY DEF Steps
  <2>6. budget \in [crash : Nat, rebalance : Nat, db : Nat, toggle : Nat]
    OBVIOUS
  <2> QED BY <2>2, <2>3, <2>4, <2>5, <2>6 DEF TypeOK
<1>2. Init => WorkerInv
  BY DEF Init, WorkerInv
<1> QED BY <1>1, <1>2 DEF TypeInv

LEMMA TypingStep == TypeInv /\ [Next]_vars => TypeOK'
<1> SUFFICES ASSUME TypeOK, WorkerInv, [Next]_vars PROVE TypeOK'
  BY DEF TypeInv
<1> USE RetryEventsAssumption DEF TypeOK, logVars, workerVars, Goto
<1>p. ASSUME NEW r \in Ids \union {NoEvent}, NEW d \in SUBSET Items, publishEvent(r, d)
      PROVE  /\ msgs' \in [Msgs -> Message]
             /\ phase' \in [Msgs -> Phases]
             /\ owner' \in [Msgs -> Workers \union {NoWorker}]
  <2>1. [rid |-> r, data |-> d] \in Message
    BY DEF Message
  <2> QED BY <1>p, <2>1 DEF publishEvent, Phases
<1>1. ASSUME NEW d \in Requests, createEventTrigger(d) PROVE TypeOK'
  <2>1. d \in SUBSET Items /\ NoEvent \in Ids \union {NoEvent}
    OBVIOUS
  <2>2. publishEvent(NoEvent, d)
    BY <1>1 DEF createEventTrigger
  <2>3. /\ msgs' \in [Msgs -> Message]
        /\ phase' \in [Msgs -> Phases]
        /\ owner' \in [Msgs -> Workers \union {NoWorker}]
    BY <1>p, <2>1, <2>2
  <2> QED BY <1>1, <2>1, <2>3 DEF createEventTrigger
<1>2. ASSUME NEW e \in Ids, MarkProcessing(e) PROVE TypeOK'
  <2>1. events' \in [Ids -> Row]
    BY <1>2 DEF MarkProcessing, Row, Statuses
  <2> QED BY <1>2, <2>1 DEF MarkProcessing
<1>3. ASSUME NEW e \in Ids, PublishRetry(e) PROVE TypeOK'
  <2>1. events[e].data \in SUBSET Items
    BY DEF Row
  <2>2. CASE publishEvent(e, events[e].data)
    BY <1>3, <1>p, <2>1, <2>2 DEF PublishRetry
  <2>3. CASE UNCHANGED logVars
    BY <1>3, <2>3 DEF PublishRetry
  <2> QED BY <1>3, <2>2, <2>3 DEF PublishRetry
<1>4. ASSUME ToggleActive PROVE TypeOK'
  <2>1. budget' \in [crash : Nat, rebalance : Nat, db : Nat, toggle : Nat]
    BY <1>4, SpendType DEF ToggleActive
  <2> QED BY <1>4, <2>1 DEF ToggleActive
<1>5. ASSUME NEW w \in Workers, NEW m \in Msgs, eachMessage(w, m) PROVE TypeOK'
  BY <1>5 DEF eachMessage, Phases, Steps
<1>6. ASSUME NEW w \in Workers, consumeEventTrigger(w) PROVE TypeOK'
  <2>1. CASE route(w)
    <3>1. PICK applied \in SUBSET Data(w), threw \in BOOLEAN :
            /\ done' = done \union applied
            /\ LET left == Reported(threw, Data(w) \ applied) IN
                 /\ pc' = [pc EXCEPT ![w] = createOrUpdate(w, threw, left)]
                 /\ todo' = [todo EXCEPT ![w] = IF threw THEN Data(w) ELSE left]
      BY <2>1 DEF route
    <3>2. Data(w) \in SUBSET Items
      BY <2>1 DEF route, Data, Message
    <3>3. Reported(threw, Data(w) \ applied) \in SUBSET Items
      BY <3>2 DEF Reported
    <3>4. /\ pc' \in [Workers -> Steps]
          /\ \A v \in Workers : pc'[v] # "idle" => job[v] \in Msgs
      BY <3>1, <2>1, createOrUpdateType DEF route
    <3>5. todo' \in [Workers -> SUBSET Items] /\ done' \subseteq Items
      BY <3>1, <3>2, <3>3
    <3> QED BY <2>1, <3>4, <3>5 DEF route
  <2>2. CASE create(w)
    <3>1. todo[w] \in SUBSET Items
      OBVIOUS
    <3>2. [status |-> "open", retryCount |-> 0, data |-> todo[w],
           delay |-> FirstRetryDelay] \in Row
      BY <3>1 DEF Row, Statuses, FirstRetryDelay
    <3>3. events' \in [Ids -> Row]
      BY <2>2, <3>2 DEF create
    <3> QED BY <2>2, <3>3 DEF create, Steps
  <2>3. CASE complete(w)
    <3>1. events' = [events EXCEPT ![Rid(w)] = [@ EXCEPT !.status = "completed"]]
      BY <2>3 DEF complete
    <3>2. \A row \in Row : [row EXCEPT !.status = "completed"] \in Row
      BY DEF Row, Statuses
    <3>3. Rid(w) \in Ids
      BY <2>3 DEF complete, WorkerInv
    <3>4. events' \in [Ids -> Row]
      BY <3>1, <3>2, <3>3
    <3> QED BY <2>3, <3>4 DEF complete, Steps
  <2>4. CASE readEvent(w)
    <3>1. snap' \in [Workers -> Row]
      BY <2>4 DEF readEvent, WorkerInv
    <3> QED BY <2>4, <3>1 DEF readEvent, Steps
  <2>5. CASE saveEvent(w)
    <3>1. events' \in [Ids -> Row]
      BY <2>5, UpdatedRowType DEF saveEvent
    <3> QED BY <2>5, <3>1 DEF saveEvent, Steps
  <2>6. CASE eachMessageReturns(w)
    <3>1. NoRow \in Row
      BY DEF NoRow, Row, Statuses
    <3> QED BY <2>6, <3>1 DEF eachMessageReturns, Steps, Phases
  <2> QED BY <1>6, <2>1, <2>2, <2>3, <2>4, <2>5, <2>6 DEF consumeEventTrigger
<1>7. ASSUME NEW w \in Workers, createOrUpdateFails(w) PROVE TypeOK'
  <2>1. budget' \in [crash : Nat, rebalance : Nat, db : Nat, toggle : Nat]
    BY <1>7, SpendType DEF createOrUpdateFails
  <2> QED BY <1>7, <2>1 DEF createOrUpdateFails, Steps
<1>8. ASSUME NEW m \in Msgs, AutoCommit(m) PROVE TypeOK'
  BY <1>8 DEF AutoCommit, Phases
<1>9. ASSUME NEW w \in Workers, Crash(w) PROVE TypeOK'
  <2>1. NoRow \in Row
    BY DEF NoRow, Row, Statuses
  <2>2. budget' \in [crash : Nat, rebalance : Nat, db : Nat, toggle : Nat]
    BY <1>9, SpendType DEF Crash
  <2> QED BY <1>9, <2>1, <2>2 DEF Crash, Steps, Phases
<1>10. ASSUME NEW m \in Msgs, Rebalance(m) PROVE TypeOK'
  <2>1. budget' \in [crash : Nat, rebalance : Nat, db : Nat, toggle : Nat]
    BY <1>10, SpendType DEF Rebalance
  <2> QED BY <1>10, <2>1 DEF Rebalance, Phases
<1>11. CASE UNCHANGED vars
  BY <1>11 DEF vars
<1> QED BY <1>1, <1>2, <1>3, <1>4, <1>5, <1>6, <1>7, <1>8, <1>9, <1>10, <1>11 DEF Next

LEMMA WorkerStep == TypeInv /\ [Next]_vars => WorkerInv'
<1> SUFFICES ASSUME TypeOK, WorkerInv, [Next]_vars PROVE WorkerInv'
  BY DEF TypeInv
<1> USE DEF WorkerInv, TypeOK, logVars, workerVars, Goto, Rid
<1>p. ASSUME NEW r, NEW d, publishEvent(r, d)
      PROVE  \A k \in Msgs : phase[k] # "unsent" => phase'[k] = phase[k] /\ msgs'[k] = msgs[k]
  BY <1>p DEF publishEvent
<1>1. ASSUME NEW d \in Requests, createEventTrigger(d) PROVE WorkerInv'
  BY <1>1, <1>p DEF createEventTrigger
<1>2. ASSUME NEW e \in Ids, MarkProcessing(e) PROVE WorkerInv'
  BY <1>2 DEF MarkProcessing
<1>3. ASSUME NEW e \in Ids, PublishRetry(e) PROVE WorkerInv'
  BY <1>3, <1>p DEF PublishRetry
<1>4. ASSUME ToggleActive PROVE WorkerInv'
  BY <1>4 DEF ToggleActive
<1>5. ASSUME NEW w \in Workers, NEW m \in Msgs, eachMessage(w, m) PROVE WorkerInv'
  BY <1>5 DEF eachMessage
<1>6. ASSUME NEW w \in Workers, consumeEventTrigger(w) PROVE WorkerInv'
  <2>1. CASE route(w)
    <3>1. PICK threw \in BOOLEAN, left \in SUBSET Items :
            pc' = [pc EXCEPT ![w] = createOrUpdate(w, threw, left)]
      BY <2>1 DEF route, Data, Reported, Message
    <3>2. pc'[w] \in {"completing", "reading", "saving"} => Rid(w) # NoEvent
      BY <3>1, createOrUpdateRow, createOrUpdateType
    <3>3. Rid(w) \in Ids \union {NoEvent}
      BY <2>1 DEF route, Message
    <3> QED BY <2>1, <3>1, <3>2, <3>3 DEF route
  <2>2. CASE create(w)
    BY <2>2 DEF create
  <2>3. CASE complete(w)
    BY <2>3 DEF complete
  <2>4. CASE readEvent(w)
    BY <2>4 DEF readEvent
  <2>5. CASE saveEvent(w)
    BY <2>5 DEF saveEvent
  <2>6. CASE eachMessageReturns(w)
    BY <2>6 DEF eachMessageReturns
  <2> QED BY <1>6, <2>1, <2>2, <2>3, <2>4, <2>5, <2>6 DEF consumeEventTrigger
<1>7. ASSUME NEW w \in Workers, createOrUpdateFails(w) PROVE WorkerInv'
  BY <1>7 DEF createOrUpdateFails
<1>8. ASSUME NEW m \in Msgs, AutoCommit(m) PROVE WorkerInv'
  BY <1>8 DEF AutoCommit
<1>9. ASSUME NEW w \in Workers, Crash(w) PROVE WorkerInv'
  BY <1>9 DEF Crash
<1>10. ASSUME NEW m \in Msgs, Rebalance(m) PROVE WorkerInv'
  BY <1>10 DEF Rebalance
<1>11. CASE UNCHANGED vars
  BY <1>11 DEF vars
<1> QED BY <1>1, <1>2, <1>3, <1>4, <1>5, <1>6, <1>7, <1>8, <1>9, <1>10, <1>11 DEF Next

LEMMA TypingInv == Spec => []TypeInv
<1>1. TypeInv /\ [Next]_vars => TypeInv'
  BY TypingStep, WorkerStep DEF TypeInv
<1> QED BY TypingInit, <1>1, PTL DEF Spec

\* Type correctness of the pipeline, whatever fails and however often.
THEOREM Typing == Spec => []TypeOK
<1>1. TypeInv => TypeOK
  BY DEF TypeInv
<1> QED BY TypingInv, <1>1, PTL

(***************************************************************************)
(* The retry budget. A stale save may turn the counter back, so the        *)
(* invariant also speaks of the row a worker has read and not yet saved.   *)
(***************************************************************************)
BudgetInv ==
  /\ RetryBudgetKept
  /\ \A w \in Workers : snap[w].retryCount =< MaxRetry

LEMMA BudgetInit == Init => BudgetInv
BY RetryEventsAssumption DEF Init, BudgetInv, RetryBudgetKept, NoRow

LEMMA BudgetStep == TypeInv /\ BudgetInv /\ [Next]_vars => BudgetInv'
<1> SUFFICES ASSUME TypeOK, WorkerInv, BudgetInv, [Next]_vars PROVE BudgetInv'
  BY DEF TypeInv
<1> USE RetryEventsAssumption DEF BudgetInv, RetryBudgetKept, TypeOK, Row
<1>1. ASSUME UNCHANGED <<events, snap>> PROVE BudgetInv'
  BY <1>1
<1>2. ASSUME NEW e \in Ids, MarkProcessing(e) PROVE BudgetInv'
  BY <1>2 DEF MarkProcessing, workerVars
<1>3. ASSUME NEW w \in Workers, create(w) PROVE BudgetInv'
  BY <1>3 DEF create
<1>4. ASSUME NEW w \in Workers, complete(w) PROVE BudgetInv'
  <2>1. \A e \in Ids : events'[e].retryCount = events[e].retryCount
    BY <1>4 DEF complete
  <2>2. \A e \in Ids : events'[e].status \in {events[e].status, "completed"}
    BY <1>4 DEF complete
  <2>3. snap' = snap
    BY <1>4 DEF complete
  <2> QED BY <2>1, <2>2, <2>3
<1>5. ASSUME NEW w \in Workers, readEvent(w) PROVE BudgetInv'
  <2>1. Rid(w) \in Ids
    BY <1>5 DEF readEvent, WorkerInv
  <2> QED BY <1>5, <2>1 DEF readEvent
<1>6. ASSUME NEW w \in Workers, saveEvent(w) PROVE BudgetInv'
  <2>1. snap[w] \in Row
    OBVIOUS
  <2>2. /\ UpdatedRow(snap[w]).retryCount = snap[w].retryCount
        /\ UpdatedRow(snap[w]).status = IF snap[w].retryCount = MaxRetry THEN "dead" ELSE "open"
    BY <2>1, UpdatedRowFields DEF StatusAfterFailure
  <2>3. \A e \in Ids : events'[e] = events[e] \/ events'[e] = UpdatedRow(snap[w])
    BY <1>6 DEF saveEvent
  <2>4. snap' = snap
    BY <1>6 DEF saveEvent
  <2>5. snap[w].retryCount \in Nat /\ snap[w].retryCount =< MaxRetry
    BY <2>1
  <2>6. ASSUME NEW e \in Ids
        PROVE  LET row == events'[e] IN
                 /\ row.retryCount =< MaxRetry
                 /\ row.status = "open" => row.retryCount < MaxRetry
                 /\ row.status = "dead" => row.retryCount = MaxRetry
                 /\ row.status = "processing" => row.retryCount > 0
    <3>1. CASE events'[e] = events[e]
      BY <3>1
    <3>2. CASE events'[e] = UpdatedRow(snap[w])
      <4>1. CASE snap[w].retryCount = MaxRetry
        <5>1. events'[e].retryCount = MaxRetry /\ events'[e].status = "dead"
          BY <3>2, <2>2, <4>1
        <5> QED BY <5>1
      <4>2. CASE snap[w].retryCount # MaxRetry
        <5>1. events'[e].retryCount = snap[w].retryCount /\ events'[e].status = "open"
          BY <3>2, <2>2, <4>2
        <5>2. snap[w].retryCount < MaxRetry
          <6>1. \A n, k \in Nat : n =< k /\ n # k => n < k
            OBVIOUS
          <6> QED BY <6>1, <4>2, <2>5, RetryEventsAssumption
        <5> QED BY <5>1, <5>2
      <4> QED BY <4>1, <4>2
    <3> QED BY <3>1, <3>2, <2>3
  <2> QED BY <2>4, <2>6
<1>7. ASSUME NEW w \in Workers, eachMessageReturns(w) \/ Crash(w) PROVE BudgetInv'
  <2>1. events' = events /\ snap' = [snap EXCEPT ![w] = NoRow]
    BY <1>7 DEF eachMessageReturns, Crash
  <2>2. NoRow.retryCount =< MaxRetry
    BY DEF NoRow
  <2> QED BY <2>1, <2>2
<1> QED
  BY <1>1, <1>2, <1>3, <1>4, <1>5, <1>6, <1>7
  DEF Next, vars, workerVars, logVars, createEventTrigger, PublishRetry, ToggleActive,
      eachMessage, consumeEventTrigger, route, createOrUpdateFails, AutoCommit, Rebalance

\* RetryBudgetKept holds for every limit, every number of workers and any crashes,
\* redeliveries and failed database calls.
THEOREM RetryBudget == Spec => []RetryBudgetKept
<1>1. TypeInv /\ BudgetInv /\ [Next]_vars => BudgetInv'
  BY BudgetStep
<1>2. BudgetInv => RetryBudgetKept
  BY DEF BudgetInv
<1> QED BY BudgetInit, TypingInv, <1>1, <1>2, PTL DEF Spec

(***************************************************************************)
(* The log: what each step does to a message.                              *)
(***************************************************************************)
\* Only a message that is being handled, or has been, is assigned to a worker.
OwnerInv == \A m \in Msgs : owner[m] # NoWorker => phase[m] \in {"taken", "finished"}

LEMMA OwnerStep == TypeInv /\ OwnerInv /\ [Next]_vars => OwnerInv'
<1> SUFFICES ASSUME TypeInv, OwnerInv, [Next]_vars PROVE OwnerInv'
  OBVIOUS
<1> USE DEF logVars, workerVars, OwnerInv
<1>t. /\ phase \in [Msgs -> Phases] /\ owner \in [Msgs -> Workers \union {NoWorker}]
      /\ \A w \in Workers : pc[w] # "idle" => job[w] \in Msgs
  BY DEF TypeInv, TypeOK
<1>p. ASSUME NEW r, NEW d, publishEvent(r, d) PROVE OwnerInv'
  BY <1>p, <1>t DEF publishEvent
<1>1. ASSUME UNCHANGED <<phase, owner>> PROVE OwnerInv'
  BY <1>1
<1>2. ASSUME NEW w \in Workers, NEW m \in Msgs, eachMessage(w, m) PROVE OwnerInv'
  BY <1>2, <1>t DEF eachMessage
<1>3. ASSUME NEW w \in Workers, consumeEventTrigger(w) PROVE OwnerInv'
  <2>1. CASE eachMessageReturns(w)
    BY <2>1, <1>t DEF eachMessageReturns
  <2> QED
    BY <1>1, <1>3, <2>1 DEF consumeEventTrigger, route, create, complete, readEvent, saveEvent
<1>4. ASSUME NEW m \in Msgs, AutoCommit(m) \/ Rebalance(m) PROVE OwnerInv'
  BY <1>4, <1>t DEF AutoCommit, Rebalance
<1>5. ASSUME NEW w \in Workers, Crash(w) PROVE OwnerInv'
  BY <1>5, <1>t DEF Crash
<1>6. ASSUME \/ UNCHANGED vars \/ ToggleActive
             \/ \E d \in Requests : createEventTrigger(d)
             \/ \E e \in Ids : MarkProcessing(e) \/ PublishRetry(e)
             \/ \E w \in Workers : createOrUpdateFails(w)
      PROVE OwnerInv'
  BY <1>1, <1>p, <1>6
  DEF vars, ToggleActive, createEventTrigger, MarkProcessing, PublishRetry, createOrUpdateFails
<1> QED BY <1>2, <1>3, <1>4, <1>5, <1>6 DEF Next

LEMMA LogStep ==
  ASSUME TypeInv, OwnerInv, [Next]_vars, NEW m \in Msgs
  PROVE  \/ phase[m] # "unsent" /\ phase'[m] # "unsent" /\ msgs'[m] = msgs[m]
         \/ phase[m] = "unsent" /\ phase'[m] = "unsent"
         \/ /\ phase[m] = "unsent" /\ phase'[m] = "queued"
            /\ UNCHANGED <<events, pc, job, snap>>
            /\ \/ msgs'[m].rid = NoEvent
               \/ msgs'[m].rid \in marked /\ msgs'[m].data = events[msgs'[m].rid].data
<1> DEFINE P == \/ phase[m] # "unsent" /\ phase'[m] # "unsent" /\ msgs'[m] = msgs[m]
                \/ phase[m] = "unsent" /\ phase'[m] = "unsent"
                \/ /\ phase[m] = "unsent" /\ phase'[m] = "queued"
                   /\ UNCHANGED <<events, pc, job, snap>>
                   /\ \/ msgs'[m].rid = NoEvent
                      \/ msgs'[m].rid \in marked /\ msgs'[m].data = events[msgs'[m].rid].data
<1> USE DEF logVars, workerVars
<1>t. /\ msgs \in [Msgs -> Message] /\ phase \in [Msgs -> Phases]
      /\ \A w \in Workers : pc[w] # "idle" => job[w] \in Msgs /\ phase[job[w]] # "unsent"
  BY DEF TypeInv, TypeOK, WorkerInv
<1>p. ASSUME NEW r, NEW d, publishEvent(r, d)
      PROVE  \/ phase'[m] = phase[m] /\ msgs'[m] = msgs[m]
             \/ /\ phase[m] = "unsent" /\ phase'[m] = "queued"
                /\ msgs'[m].rid = r /\ msgs'[m].data = d
  BY <1>p, <1>t DEF publishEvent
<1>1. ASSUME NEW d \in Requests, createEventTrigger(d) PROVE P
  <2>1. publishEvent(NoEvent, d) /\ UNCHANGED <<events, pc, job, snap>>
    BY <1>1 DEF createEventTrigger
  <2> QED BY <1>p, <2>1
<1>2. ASSUME NEW e \in Ids, PublishRetry(e) PROVE P
  <2>1. /\ publishEvent(e, events[e].data) \/ UNCHANGED logVars
        /\ e \in marked /\ UNCHANGED <<events, pc, job, snap>>
    BY <1>2 DEF PublishRetry
  <2>2. CASE publishEvent(e, events[e].data)
    BY <1>p, <2>1, <2>2
  <2> QED BY <2>1, <2>2
<1>3. ASSUME UNCHANGED <<msgs, phase>> PROVE P
  BY <1>3
<1>4. ASSUME NEW w \in Workers, NEW n \in Msgs, eachMessage(w, n) PROVE P
  BY <1>4, <1>t DEF eachMessage
<1>5. ASSUME NEW w \in Workers, eachMessageReturns(w) PROVE P
  BY <1>5, <1>t DEF eachMessageReturns
<1>6. ASSUME NEW n \in Msgs, AutoCommit(n) \/ Rebalance(n) PROVE P
  BY <1>6, <1>t DEF AutoCommit, Rebalance
<1>7. ASSUME NEW w \in Workers, Crash(w) PROVE P
  BY <1>7, <1>t, RetryEventsAssumption DEF Crash, OwnerInv, NoWorker
<1>8. ASSUME NEW w \in Workers, consumeEventTrigger(w) PROVE P
  BY <1>3, <1>5, <1>8
  DEF consumeEventTrigger, route, create, complete, readEvent, saveEvent
<1>9. ASSUME \/ UNCHANGED vars \/ ToggleActive
             \/ \E e \in Ids : MarkProcessing(e)
             \/ \E w \in Workers : createOrUpdateFails(w)
      PROVE P
  BY <1>3, <1>9 DEF vars, ToggleActive, MarkProcessing, createOrUpdateFails
<1> QED BY <1>1, <1>2, <1>4, <1>6, <1>7, <1>8, <1>9 DEF Next

(***************************************************************************)
(* A message of a row carries the data of the row, and so does what a      *)
(* worker has read of it: once a row exists, its data never changes.       *)
(***************************************************************************)
RowInv ==
  /\ \A e \in marked : events[e].status # "none"
  /\ \A m \in Msgs : phase[m] # "unsent" /\ msgs[m].rid # NoEvent =>
       /\ events[msgs[m].rid].status # "none"
       /\ events[msgs[m].rid].data = msgs[m].data
  /\ \A w \in Workers : pc[w] = "saving" => snap[w].data = events[Rid(w)].data

LEMMA RowKept ==
  ASSUME TypeInv, RowInv, [Next]_vars, NEW e \in Ids, events[e].status # "none"
  PROVE  events'[e].status # "none" /\ events'[e].data = events[e].data
<1> DEFINE P == events'[e].status # "none" /\ events'[e].data = events[e].data
<1>t. /\ events \in [Ids -> Row] /\ snap \in [Workers -> Row]
      /\ \A w \in Workers : pc[w] \in {"completing", "reading", "saving"} => Rid(w) \in Ids
  BY DEF TypeInv, TypeOK, WorkerInv
<1>1. ASSUME UNCHANGED events PROVE P
  BY <1>1
<1>2. ASSUME NEW f \in Ids, MarkProcessing(f) PROVE P
  BY <1>2, <1>t DEF MarkProcessing, Row
<1>3. ASSUME NEW w \in Workers, create(w) PROVE P
  BY <1>3, <1>t DEF create
<1>4. ASSUME NEW w \in Workers, complete(w) PROVE P
  BY <1>4, <1>t DEF complete, Row
<1>5. ASSUME NEW w \in Workers, saveEvent(w) PROVE P
  <2>1. /\ pc[w] = "saving" /\ snap[w] \in Row
        /\ events' = [events EXCEPT ![Rid(w)] = UpdatedRow(snap[w])]
    BY <1>5, <1>t DEF saveEvent
  <2>2. snap[w].data = events[Rid(w)].data
    BY <2>1 DEF RowInv
  <2>3. /\ UpdatedRow(snap[w]).data = snap[w].data
        /\ UpdatedRow(snap[w]).status \in {"open", "dead"}
    BY <2>1, UpdatedRowFields DEF StatusAfterFailure
  <2> QED BY <2>1, <2>2, <2>3, <1>t
<1>6. ASSUME NEW w \in Workers, consumeEventTrigger(w) PROVE P
  BY <1>1, <1>3, <1>4, <1>5, <1>6
  DEF consumeEventTrigger, route, readEvent, eachMessageReturns
<1>7. ASSUME \/ UNCHANGED vars \/ ToggleActive
             \/ \E d \in Requests : createEventTrigger(d)
             \/ \E f \in Ids : PublishRetry(f)
             \/ \E w \in Workers, m \in Msgs : eachMessage(w, m)
             \/ \E w \in Workers : createOrUpdateFails(w) \/ Crash(w)
             \/ \E m \in Msgs : AutoCommit(m) \/ Rebalance(m)
      PROVE P
  BY <1>1, <1>7
  DEF vars, ToggleActive, createEventTrigger, PublishRetry, eachMessage, createOrUpdateFails,
      Crash, AutoCommit, Rebalance
<1> QED BY <1>2, <1>6, <1>7 DEF Next

LEMMA SavingStep ==
  ASSUME TypeInv, RowInv, [Next]_vars, NEW w \in Workers, pc'[w] = "saving"
  PROVE  \/ pc[w] = "saving" /\ snap'[w] = snap[w] /\ job'[w] = job[w]
         \/ /\ pc[w] = "reading" /\ snap'[w] = events[Rid(w)]
            /\ UNCHANGED <<job, msgs, events>>
<1> DEFINE P == \/ pc[w] = "saving" /\ snap'[w] = snap[w] /\ job'[w] = job[w]
                \/ /\ pc[w] = "reading" /\ snap'[w] = events[Rid(w)]
                   /\ UNCHANGED <<job, msgs, events>>
<1> USE DEF workerVars, Goto
<1>t. /\ pc \in [Workers -> Steps] /\ snap \in [Workers -> Row]
      /\ job \in [Workers -> Msgs \union {NoMsg}]
  BY DEF TypeInv, TypeOK
<1>1. ASSUME UNCHANGED <<pc, snap, job>> PROVE P
  BY <1>1
<1>2. ASSUME NEW v \in Workers, NEW m \in Msgs, eachMessage(v, m) PROVE P
  BY <1>2, <1>t DEF eachMessage
<1>3. ASSUME NEW v \in Workers, route(v) PROVE P
  <2>1. PICK threw \in BOOLEAN : \E left : pc' = [pc EXCEPT ![v] = createOrUpdate(v, threw, left)]
    BY <1>3 DEF route
  <2>2. v # w
    BY <2>1, <1>t, createOrUpdateType
  <2> QED BY <1>3, <2>1, <2>2, <1>t DEF route
<1>4. ASSUME NEW v \in Workers, create(v) \/ complete(v) \/ saveEvent(v) PROVE P
  BY <1>4, <1>t DEF create, complete, saveEvent
<1>5. ASSUME NEW v \in Workers, readEvent(v) PROVE P
  BY <1>5, <1>t DEF readEvent, logVars
<1>6. ASSUME NEW v \in Workers, eachMessageReturns(v) \/ Crash(v) PROVE P
  BY <1>6, <1>t DEF eachMessageReturns, Crash
<1>7. ASSUME NEW v \in Workers, createOrUpdateFails(v) PROVE P
  BY <1>7, <1>t DEF createOrUpdateFails
<1>8. ASSUME \/ UNCHANGED vars \/ ToggleActive
             \/ \E d \in Requests : createEventTrigger(d)
             \/ \E f \in Ids : MarkProcessing(f) \/ PublishRetry(f)
             \/ \E m \in Msgs : AutoCommit(m) \/ Rebalance(m)
      PROVE P
  BY <1>1, <1>8
  DEF vars, ToggleActive, createEventTrigger, MarkProcessing, PublishRetry, AutoCommit, Rebalance
<1> QED
  BY <1>2, <1>3, <1>4, <1>5, <1>6, <1>7, <1>8 DEF Next, consumeEventTrigger

LEMMA RowStep == TypeInv /\ OwnerInv /\ RowInv /\ [Next]_vars => RowInv'
<1> SUFFICES ASSUME TypeInv, OwnerInv, RowInv, [Next]_vars PROVE RowInv'
  OBVIOUS
<1>t. /\ events \in [Ids -> Row] /\ marked \subseteq Ids /\ msgs \in [Msgs -> Message]
      /\ \A w \in Workers : pc[w] # "idle" => job[w] \in Msgs /\ phase[job[w]] # "unsent"
      /\ \A w \in Workers : pc[w] \in {"completing", "reading", "saving"} => Rid(w) \in Ids
  BY DEF TypeInv, TypeOK, WorkerInv
<1>1. \A e \in marked' : events'[e].status # "none"
  <2>1. ASSUME NEW e \in marked', e \notin marked PROVE events'[e].status # "none"
    <3>1. e \in Ids /\ MarkProcessing(e)
      BY <2>1
      DEF Next, vars, createEventTrigger, MarkProcessing, PublishRetry, ToggleActive, eachMessage,
          consumeEventTrigger, route, create, complete, readEvent, saveEvent, eachMessageReturns,
          createOrUpdateFails, AutoCommit, Crash, Rebalance
    <3> QED BY <3>1, <1>t DEF MarkProcessing, Row
  <2> QED BY <2>1, RowKept, <1>t DEF RowInv
<1>2. ASSUME NEW m \in Msgs, phase'[m] # "unsent", msgs'[m].rid # NoEvent
      PROVE  /\ events'[msgs'[m].rid].status # "none"
             /\ events'[msgs'[m].rid].data = msgs'[m].data
  <2>1. CASE phase[m] # "unsent" /\ msgs'[m] = msgs[m]
    <3>1. msgs[m].rid \in Ids
      BY <1>2, <2>1, <1>t DEF Message
    <3> QED BY <1>2, <2>1, <3>1, RowKept DEF RowInv
  <2>2. CASE /\ msgs'[m].rid \in marked /\ msgs'[m].data = events[msgs'[m].rid].data
             /\ events' = events
    BY <2>2 DEF RowInv
  <2> QED BY <1>2, <2>1, <2>2, LogStep
<1>3. ASSUME NEW w \in Workers, pc'[w] = "saving" PROVE snap'[w].data = events'[Rid(w)'].data
  <2>1. CASE pc[w] = "saving" /\ snap'[w] = snap[w] /\ job'[w] = job[w]
    <3>1. job[w] \in Msgs /\ phase[job[w]] # "unsent" /\ Rid(w) \in Ids
      BY <2>1, <1>t
    <3>2. msgs'[job[w]] = msgs[job[w]]
      BY <3>1, LogStep
    <3>3. Rid(w)' = Rid(w)
      BY <2>1, <3>2 DEF Rid
    <3>4. events[Rid(w)].status # "none"
      BY <3>1, 0 \notin Ids DEF RowInv, Rid, NoEvent, Ids
    <3> QED BY <2>1, <3>1, <3>3, <3>4, RowKept DEF RowInv
  <2>2. CASE /\ snap'[w] = events[Rid(w)]
             /\ UNCHANGED <<job, msgs, events>>
    BY <2>2 DEF Rid
  <2> QED BY <1>3, <2>1, <2>2, SavingStep
<1> QED BY <1>1, <1>2, <1>3 DEF RowInv

(***************************************************************************)
(* The bounds on faults. What a property says of the behaviours without a  *)
(* kind of fault is said of the states in which none of its bound is used. *)
(***************************************************************************)
BoundInv ==
  /\ budget.crash =< MaxCrashes /\ budget.rebalance =< MaxRebalances
  /\ budget.db =< MaxDbErrors /\ budget.toggle =< MaxToggles

LEMMA Faults ==
  ASSUME TypeInv, BoundInv, [Next]_vars
  PROVE  /\ BoundInv'
         /\ budget'.crash = MaxCrashes =>
              budget.crash = MaxCrashes /\ \A w \in Workers : ~Crash(w)
         /\ budget'.rebalance = MaxRebalances =>
              budget.rebalance = MaxRebalances /\ \A m \in Msgs : ~Rebalance(m)
         /\ budget'.db = MaxDbErrors =>
              budget.db = MaxDbErrors /\ \A w \in Workers : ~createOrUpdateFails(w)
         /\ budget'.toggle = MaxToggles => budget.toggle = MaxToggles /\ ~ToggleActive
<1> DEFINE Kinds == {"crash", "rebalance", "db", "toggle"}
<1> USE RetryEventsAssumption DEF BoundInv
<1>t. budget \in [crash : Nat, rebalance : Nat, db : Nat, toggle : Nat]
  BY DEF TypeInv, TypeOK
<1>1. ASSUME NEW fault \in Kinds, Spend(fault)
      PROVE  /\ budget'[fault] = budget[fault] - 1
             /\ \A other \in Kinds : other # fault => budget'[other] = budget[other]
  BY <1>1, <1>t DEF Spend
<1>2. \/ UNCHANGED budget
      \/ \E fault \in Kinds : Spend(fault)
  BY DEF Next, vars, createEventTrigger, MarkProcessing, PublishRetry, ToggleActive, eachMessage,
         consumeEventTrigger, route, create, complete, readEvent, saveEvent, eachMessageReturns,
         createOrUpdateFails, AutoCommit, Crash, Rebalance
<1>3. /\ budget'.crash =< budget.crash /\ budget'.rebalance =< budget.rebalance
      /\ budget'.db =< budget.db /\ budget'.toggle =< budget.toggle
      /\ budget'.crash \in Int /\ budget'.rebalance \in Int
      /\ budget'.db \in Int /\ budget'.toggle \in Int
  BY <1>1, <1>2, <1>t
<1>4. /\ \A w \in Workers : Crash(w) => budget'.crash = budget.crash - 1
      /\ \A m \in Msgs : Rebalance(m) => budget'.rebalance = budget.rebalance - 1
      /\ \A w \in Workers : createOrUpdateFails(w) => budget'.db = budget.db - 1
      /\ ToggleActive => budget'.toggle = budget.toggle - 1
  BY <1>1 DEF Crash, Rebalance, createOrUpdateFails, ToggleActive
<1> QED BY <1>3, <1>4, <1>t

(***************************************************************************)
(* No work is lost. While no call of createOrUpdate fails and no message   *)
(* is taken from a worker, a busy worker owns its message, and one that is *)
(* about to write down what is left knows all that has not been applied.   *)
(***************************************************************************)
Reliable == budget.db = MaxDbErrors /\ budget.rebalance = MaxRebalances

IdleInv == \A w \in Workers : pc[w] = "idle" => job[w] = NoMsg

Owned ==
  \A w \in Workers : pc[w] # "idle" => phase[job[w]] = "taken" /\ owner[job[w]] = w

Remembered ==
  \A w \in Workers : pc[w] \in {"creating", "completing"} => Data(w) \subseteq done \union todo[w]

Answered == \A i \in requested : i \in done \/ HeldByEvent(i) \/ HeldByMessage(i)

WorkInv == IdleInv /\ (Reliable => Owned /\ Remembered /\ Answered)

LEMMA IdleStep == TypeInv /\ IdleInv /\ [Next]_vars => IdleInv'
<1> SUFFICES ASSUME TypeInv, IdleInv, [Next]_vars PROVE IdleInv'
  OBVIOUS
<1> USE DEF IdleInv, workerVars, Goto
<1>t. pc \in [Workers -> Steps] /\ job \in [Workers -> Msgs \union {NoMsg}]
  BY DEF TypeInv, TypeOK
<1>1. ASSUME UNCHANGED <<pc, job>> PROVE IdleInv'
  BY <1>1
<1>2. ASSUME NEW w \in Workers, NEW m \in Msgs, eachMessage(w, m) PROVE IdleInv'
  BY <1>2, <1>t DEF eachMessage
<1>3. ASSUME NEW w \in Workers, NEW next \in Steps \ {"idle"}, Goto(w, next), UNCHANGED job
      PROVE  IdleInv'
  BY <1>3, <1>t
<1>4. ASSUME NEW w \in Workers, route(w) PROVE IdleInv'
  <2>1. PICK threw \in BOOLEAN : \E left : pc' = [pc EXCEPT ![w] = createOrUpdate(w, threw, left)]
    BY <1>4 DEF route
  <2> QED BY <2>1, <1>3, <1>4, createOrUpdateType DEF route
<1>5. ASSUME NEW w \in Workers, create(w) \/ complete(w) \/ readEvent(w) \/ saveEvent(w)
                                \/ createOrUpdateFails(w)
      PROVE  IdleInv'
  BY <1>3, <1>5 DEF create, complete, readEvent, saveEvent, createOrUpdateFails, Steps
<1>6. ASSUME NEW w \in Workers, eachMessageReturns(w) \/ Crash(w) PROVE IdleInv'
  BY <1>6, <1>t DEF eachMessageReturns, Crash
<1>7. ASSUME \/ UNCHANGED vars \/ ToggleActive
             \/ \E d \in Requests : createEventTrigger(d)
             \/ \E f \in Ids : MarkProcessing(f) \/ PublishRetry(f)
             \/ \E m \in Msgs : AutoCommit(m) \/ Rebalance(m)
      PROVE IdleInv'
  BY <1>1, <1>7
  DEF vars, ToggleActive, createEventTrigger, MarkProcessing, PublishRetry, AutoCommit, Rebalance
<1> QED BY <1>2, <1>4, <1>5, <1>6, <1>7 DEF Next, consumeEventTrigger

LEMMA OwnedStep ==
  ASSUME TypeInv, OwnerInv, IdleInv, Owned, [Next]_vars, \A m \in Msgs : ~Rebalance(m)
  PROVE  Owned'
<1> USE DEF Owned, workerVars, logVars, Goto
<1>t. /\ pc \in [Workers -> Steps] /\ job \in [Workers -> Msgs \union {NoMsg}]
      /\ phase \in [Msgs -> Phases] /\ owner \in [Msgs -> Workers \union {NoWorker}]
      /\ \A w \in Workers : pc[w] # "idle" => job[w] \in Msgs
  BY DEF TypeInv, TypeOK
<1>1. ASSUME UNCHANGED <<phase, owner, job>>,
             \A w \in Workers : pc'[w] # "idle" => pc[w] # "idle"
      PROVE  Owned'
  BY <1>1
<1>p. ASSUME NEW r, NEW d, publishEvent(r, d), UNCHANGED <<pc, job>> PROVE Owned'
  BY <1>p, <1>t DEF publishEvent
<1>2. ASSUME NEW w \in Workers, NEW m \in Msgs, eachMessage(w, m) PROVE Owned'
  BY <1>2, <1>t DEF eachMessage
<1>3. ASSUME NEW w \in Workers, \/ route(w) \/ create(w) \/ complete(w) \/ readEvent(w)
                                \/ saveEvent(w) \/ createOrUpdateFails(w)
      PROVE  Owned'
  <2>1. pc[w] # "idle" /\ UNCHANGED <<phase, owner, job>> /\ \E s : pc' = [pc EXCEPT ![w] = s]
    BY <1>3 DEF route, create, complete, readEvent, saveEvent, createOrUpdateFails
  <2> QED BY <1>1, <2>1, <1>t
<1>4. ASSUME NEW w \in Workers, eachMessageReturns(w) PROVE Owned'
  BY <1>4, <1>t DEF eachMessageReturns
<1>5. ASSUME NEW w \in Workers, Crash(w) PROVE Owned'
  BY <1>5, <1>t DEF Crash
<1>6. ASSUME NEW m \in Msgs, AutoCommit(m) PROVE Owned'
  BY <1>6, <1>t DEF AutoCommit
<1>7. ASSUME \/ UNCHANGED vars \/ ToggleActive
             \/ \E d \in Requests : createEventTrigger(d)
             \/ \E f \in Ids : MarkProcessing(f) \/ PublishRetry(f)
      PROVE Owned'
  BY <1>1, <1>p, <1>7
  DEF vars, ToggleActive, createEventTrigger, MarkProcessing, PublishRetry
<1> QED BY <1>2, <1>3, <1>4, <1>5, <1>6, <1>7 DEF Next, consumeEventTrigger

\* Nothing takes an item off the list of what has been applied, and while a worker
\* stays at its message the part it has to write down is the one it was left with.
LEMMA RememberedStep ==
  ASSUME WrapsRetryInfo, TypeInv, OwnerInv, Remembered, [Next]_vars
  PROVE  Remembered'
<1> USE DEF Remembered, workerVars, logVars, Goto
<1>t. /\ pc \in [Workers -> Steps] /\ job \in [Workers -> Msgs \union {NoMsg}]
      /\ todo \in [Workers -> SUBSET Items]
      /\ \A w \in Workers : pc[w] # "idle" => job[w] \in Msgs /\ phase[job[w]] # "unsent"
  BY DEF TypeInv, TypeOK, WorkerInv
<1>m. \A w \in Workers : pc[w] # "idle" => msgs'[job[w]] = msgs[job[w]]
  BY <1>t, LogStep
<1>1. ASSUME done \subseteq done',
             \A w \in Workers : pc'[w] \in {"creating", "completing"} =>
               UNCHANGED <<pc[w], todo[w], job[w]>>
      PROVE  Remembered'
  BY <1>1, <1>m, <1>t DEF Data
<1>2. ASSUME NEW w \in Workers, NEW m \in Msgs, eachMessage(w, m) PROVE Remembered'
  BY <1>1, <1>2, <1>t DEF eachMessage
<1>3. ASSUME NEW w \in Workers, route(w) PROVE Remembered'
  <2>1. PICK applied \in SUBSET Data(w), threw \in BOOLEAN :
          /\ done' = done \union applied
          /\ \E s : pc' = [pc EXCEPT ![w] = s]
          /\ todo' = [todo EXCEPT ![w] = IF threw THEN Data(w)
                                          ELSE Reported(threw, Data(w) \ applied)]
    BY <1>3 DEF route
  <2>2. Data(w) \subseteq done' \union todo'[w]
    BY <2>1, <1>3, <1>t DEF Reported, route
  <2>3. UNCHANGED <<job, msgs>>
    BY <1>3 DEF route
  <2>4. Data(w)' \subseteq done' \union todo'[w]
    BY <2>2, <2>3 DEF Data
  <2>5. ASSUME NEW v \in Workers, v # w, pc'[v] \in {"creating", "completing"}
        PROVE  Data(v)' \subseteq done' \union todo'[v]
    <3>1. pc[v] \in {"creating", "completing"} /\ todo'[v] = todo[v]
      BY <2>1, <2>5, <1>t
    <3>2. Data(v)' = Data(v)
      BY <2>3 DEF Data
    <3> QED BY <3>1, <3>2, <2>1
  <2> QED BY <2>4, <2>5
<1>4. ASSUME NEW w \in Workers, complete(w) PROVE Remembered'
  BY <1>4, <1>t DEF complete, Data
<1>5. ASSUME NEW w \in Workers, \/ create(w) \/ readEvent(w) \/ saveEvent(w)
                                \/ createOrUpdateFails(w)
      PROVE  Remembered'
  BY <1>1, <1>5, <1>t DEF create, readEvent, saveEvent, createOrUpdateFails
<1>6. ASSUME NEW w \in Workers, eachMessageReturns(w) \/ Crash(w) PROVE Remembered'
  BY <1>1, <1>6, <1>t DEF eachMessageReturns, Crash
<1>7. ASSUME \/ UNCHANGED vars \/ ToggleActive
             \/ \E d \in Requests : createEventTrigger(d)
             \/ \E f \in Ids : MarkProcessing(f) \/ PublishRetry(f)
             \/ \E m \in Msgs : AutoCommit(m) \/ Rebalance(m)
      PROVE Remembered'
  BY <1>1, <1>7
  DEF vars, ToggleActive, createEventTrigger, MarkProcessing, PublishRetry, AutoCommit, Rebalance
<1> QED BY <1>2, <1>3, <1>4, <1>5, <1>6, <1>7 DEF Next, consumeEventTrigger

\* A row gives up an item only when it is completed, and then to the worker that
\* completes it.
LEMMA EventStep ==
  ASSUME TypeInv, OwnerInv, RowInv, Remembered, [Next]_vars, NEW i, HeldByEvent(i)
  PROVE  i \in done \/ HeldByEvent(i)' \/ HeldByMessage(i)'
<1>t. /\ events \in [Ids -> Row] /\ snap \in [Workers -> Row] /\ msgs \in [Msgs -> Message]
      /\ pc \in [Workers -> Steps]
      /\ \A w \in Workers : pc[w] # "idle" => job[w] \in Msgs /\ phase[job[w]] # "unsent"
      /\ \A w \in Workers : pc[w] \in {"completing", "reading", "saving"} => Rid(w) \in Ids
  BY DEF TypeInv, TypeOK, WorkerInv
<1>1. PICK e \in Ids : events[e].status \in Live /\ i \in events[e].data
  BY DEF HeldByEvent
<1>2. events'[e].data = events[e].data
  BY <1>1, RowKept DEF Live
<1>3. ASSUME events'[e].status \in Live PROVE HeldByEvent(i)'
  BY <1>1, <1>2, <1>3 DEF HeldByEvent, Live
<1>4. ASSUME NEW w \in Workers, complete(w), Rid(w) = e
      PROVE  i \in done \/ HeldByMessage(i)'
  <2>1. /\ pc[w] = "completing" /\ job[w] \in Msgs /\ phase[job[w]] # "unsent"
        /\ UNCHANGED <<job, msgs, phase>>
        /\ pc'[w] = IF todo[w] = {} THEN "finishing" ELSE "creating"
    BY <1>4, <1>t DEF complete, Goto, logVars
  <2>2. i \in Data(w)
    BY <1>1, <1>4, <2>1 DEF RowInv, Rid, Data, NoEvent, Ids
  <2>3. CASE i \in todo[w]
    <3>1. pc'[w] # "finishing" /\ job'[w] = job[w] /\ i \in msgs'[job[w]].data
      BY <2>1, <2>2, <2>3 DEF Data
    <3> QED BY <2>1, <3>1 DEF HeldByMessage, Unrecorded
  <2> QED BY <2>1, <2>2, <2>3 DEF Remembered
<1>5. ASSUME UNCHANGED events PROVE HeldByEvent(i)'
  BY <1>1, <1>5 DEF HeldByEvent
<1>6. ASSUME NEW f \in Ids, MarkProcessing(f) PROVE HeldByEvent(i)'
  BY <1>1, <1>3, <1>6, <1>t DEF MarkProcessing, Row, Live
<1>7. ASSUME NEW w \in Workers, create(w) PROVE HeldByEvent(i)'
  BY <1>1, <1>3, <1>7, <1>t DEF create, Live
<1>8. ASSUME NEW w \in Workers, complete(w), Rid(w) # e PROVE HeldByEvent(i)'
  BY <1>1, <1>3, <1>8, <1>t DEF complete
<1>9. ASSUME NEW w \in Workers, saveEvent(w) PROVE HeldByEvent(i)'
  <2>1. /\ snap[w] \in Row /\ UpdatedRow(snap[w]).status \in Live
        /\ events' = [events EXCEPT ![Rid(w)] = UpdatedRow(snap[w])]
    BY <1>9, <1>t, UpdatedRowFields DEF saveEvent, StatusAfterFailure, Live
  <2> QED BY <1>1, <1>3, <2>1, <1>t
<1>10. ASSUME \/ UNCHANGED vars \/ ToggleActive
              \/ \E d \in Requests : createEventTrigger(d)
              \/ \E f \in Ids : PublishRetry(f)
              \/ \E w \in Workers, m \in Msgs : eachMessage(w, m)
              \/ \E w \in Workers : \/ route(w) \/ readEvent(w) \/ eachMessageReturns(w)
                                    \/ createOrUpdateFails(w) \/ Crash(w)
              \/ \E m \in Msgs : AutoCommit(m) \/ Rebalance(m)
       PROVE HeldByEvent(i)'
  BY <1>5, <1>10
  DEF vars, ToggleActive, createEventTrigger, PublishRetry, eachMessage, route, readEvent,
      eachMessageReturns, createOrUpdateFails, Crash, AutoCommit, Rebalance
<1> QED BY <1>4, <1>6, <1>7, <1>8, <1>9, <1>10 DEF Next, consumeEventTrigger

\* A message gives up its items only when they have been applied or a row has them;
\* a crash hands the message to another worker.
LEMMA MessageStep ==
  ASSUME WrapsRetryInfo, TypeInv, OwnerInv, RowInv, IdleInv, Owned, Remembered, [Next]_vars,
         \A m \in Msgs : ~Rebalance(m), \A w \in Workers : ~createOrUpdateFails(w),
         NEW i, HeldByMessage(i)
  PROVE  i \in done' \/ HeldByEvent(i)' \/ HeldByMessage(i)'
<1> DEFINE P == i \in done' \/ HeldByEvent(i)' \/ HeldByMessage(i)'
<1> USE DEF workerVars, logVars, Goto
<1>t. /\ events \in [Ids -> Row] /\ snap \in [Workers -> Row] /\ pc \in [Workers -> Steps]
      /\ job \in [Workers -> Msgs \union {NoMsg}] /\ phase \in [Msgs -> Phases]
      /\ \A w \in Workers : pc[w] # "idle" => job[w] \in Msgs /\ phase[job[w]] # "unsent"
      /\ \A w \in Workers : pc[w] \in {"completing", "reading", "saving"} => Rid(w) \in Ids
  BY DEF TypeInv, TypeOK, WorkerInv
<1>1. PICK m \in Msgs : Unrecorded(m) /\ i \in msgs[m].data
  BY DEF HeldByMessage
<1>2. CASE phase[m] = "queued"
  <2>1. msgs'[m] = msgs[m]
    BY <1>2, LogStep
  <2>2. ASSUME phase'[m] = "queued" PROVE P
    BY <1>1, <2>1, <2>2 DEF HeldByMessage, Unrecorded
  <2>3. ASSUME NEW w \in Workers, NEW n \in Msgs, eachMessage(w, n) PROVE P
    <3>1. CASE n = m
      <4>1. job'[w] = m /\ pc'[w] = "routing"
        BY <2>3, <3>1, <1>t DEF eachMessage
      <4> QED BY <1>1, <2>1, <4>1 DEF HeldByMessage, Unrecorded
    <3> QED BY <2>2, <2>3, <3>1, <1>2, <1>t DEF eachMessage
  <2>4. ASSUME NEW w \in Workers, eachMessageReturns(w) PROVE P
    BY <2>2, <2>4, <1>2, <1>t DEF eachMessageReturns, Owned
  <2>5. ASSUME NEW w \in Workers, Crash(w) PROVE P
    BY <2>2, <2>5, <1>2, <1>t DEF Crash
  <2>6. ASSUME NEW n \in Msgs, AutoCommit(n) PROVE P
    BY <2>2, <2>6, <1>2, <1>t DEF AutoCommit
  <2>7. ASSUME NEW r, NEW d, publishEvent(r, d) PROVE P
    BY <2>2, <2>7, <1>2, <1>t DEF publishEvent
  <2>8. ASSUME UNCHANGED phase PROVE P
    BY <2>2, <2>8, <1>2
  <2>9. ASSUME \/ UNCHANGED vars \/ ToggleActive
               \/ \E d \in Requests : createEventTrigger(d)
               \/ \E f \in Ids : MarkProcessing(f) \/ PublishRetry(f)
               \/ \E w \in Workers : \/ route(w) \/ create(w) \/ complete(w) \/ readEvent(w)
                                     \/ saveEvent(w)
        PROVE P
    BY <2>7, <2>8, <2>9
    DEF vars, ToggleActive, createEventTrigger, MarkProcessing, PublishRetry, route, create,
        complete, readEvent, saveEvent
  <2> QED BY <2>3, <2>4, <2>5, <2>6, <2>9 DEF Next, consumeEventTrigger
<1>3. ASSUME NEW w \in Workers, job[w] = m, pc[w] # "finishing" PROVE P
  <2>1. pc[w] # "idle" /\ phase[m] = "taken" /\ owner[m] = w /\ Data(w) = msgs[m].data
    BY <1>3 DEF IdleInv, Owned, Data, NoMsg, Msgs
  <2>2. msgs'[m] = msgs[m]
    BY <2>1, LogStep
  <2>3. ASSUME job'[w] = m, pc'[w] # "finishing" PROVE P
    BY <1>1, <2>2, <2>3 DEF HeldByMessage, Unrecorded
  <2>4. ASSUME UNCHANGED <<pc, job>> PROVE P
    BY <1>3, <2>3, <2>4
  <2>5. ASSUME NEW v \in Workers, NEW n \in Msgs, eachMessage(v, n) PROVE P
    BY <1>3, <2>1, <2>3, <2>5, <1>t DEF eachMessage
  <2>6. ASSUME NEW v \in Workers, v # w, consumeEventTrigger(v) PROVE P
    <3>1. pc'[w] = pc[w] /\ job'[w] = job[w]
      BY <2>6, <1>t
      DEF consumeEventTrigger, route, create, complete, readEvent, saveEvent, eachMessageReturns
    <3> QED BY <1>3, <2>3, <3>1
  <2>7. ASSUME route(w) PROVE P
    <3>1. PICK applied \in SUBSET Data(w), threw \in BOOLEAN :
            /\ done' = done \union applied
            /\ pc' = [pc EXCEPT ![w] = createOrUpdate(w, threw, Reported(threw, Data(w) \ applied))]
            /\ UNCHANGED job
      BY <2>7 DEF route
    <3>2. CASE pc'[w] # "finishing"
      BY <1>3, <2>3, <3>1, <3>2
    <3>3. CASE pc'[w] = "finishing"
      <4>1. ~threw /\ Reported(threw, Data(w) \ applied) = {}
        BY <3>1, <3>3, <1>t DEF createOrUpdate
      <4>2. Data(w) \subseteq applied
        BY <4>1 DEF Reported
      <4> QED BY <1>1, <2>1, <3>1, <4>2
    <3> QED BY <3>2, <3>3
  <2>8. ASSUME create(w) PROVE P
    <3>1. PICK e \in Ids : events' = [events EXCEPT ![e] =
            [status |-> "open", retryCount |-> 0, data |-> todo[w], delay |-> FirstRetryDelay]]
      BY <2>8 DEF create
    <3>2. events'[e].status \in Live /\ events'[e].data = todo[w]
      BY <3>1, <1>t DEF Live
    <3>3. i \in done \union todo[w] /\ done' = done
      BY <1>1, <2>1, <2>8 DEF Remembered, create
    <3> QED BY <3>2, <3>3 DEF HeldByEvent
  <2>9. ASSUME complete(w) PROVE P
    BY <1>1, <1>3, <2>1, <2>3, <2>9, <1>t DEF complete, Remembered
  <2>10. ASSUME readEvent(w) PROVE P
    BY <1>3, <2>3, <2>10, <1>t DEF readEvent
  <2>11. ASSUME saveEvent(w) PROVE P
    <3>1. /\ snap[w] \in Row /\ Rid(w) \in Ids /\ pc[w] = "saving"
          /\ events' = [events EXCEPT ![Rid(w)] = UpdatedRow(snap[w])]
      BY <2>11, <1>t DEF saveEvent
    <3>2. snap[w].data = msgs[m].data
      BY <1>3, <2>1, <3>1 DEF RowInv, Rid, NoEvent, Ids
    <3>3. events'[Rid(w)].status \in Live /\ events'[Rid(w)].data = msgs[m].data
      BY <3>1, <3>2, <1>t, UpdatedRowFields DEF StatusAfterFailure, Live
    <3> QED BY <1>1, <3>1, <3>3 DEF HeldByEvent
  <2>12. ASSUME NEW v \in Workers, Crash(v) PROVE P
    <3>1. CASE v = w
      <4>1. phase'[m] = "queued"
        BY <2>1, <2>12, <3>1 DEF Crash
      <4> QED BY <1>1, <2>2, <4>1 DEF HeldByMessage, Unrecorded
    <3>2. CASE v # w
      BY <1>3, <2>3, <2>12, <3>2, <1>t DEF Crash
    <3> QED BY <3>1, <3>2
  <2>13. ASSUME \/ UNCHANGED vars \/ ToggleActive
                \/ \E d \in Requests : createEventTrigger(d)
                \/ \E f \in Ids : MarkProcessing(f) \/ PublishRetry(f)
                \/ \E n \in Msgs : AutoCommit(n)
         PROVE P
    BY <2>4, <2>13
    DEF vars, ToggleActive, createEventTrigger, MarkProcessing, PublishRetry, AutoCommit
  <2>14. ~eachMessageReturns(w)
    BY <1>3 DEF eachMessageReturns
  <2> QED
    BY <2>5, <2>6, <2>7, <2>8, <2>9, <2>10, <2>11, <2>12, <2>13, <2>14
    DEF Next, consumeEventTrigger
<1> QED BY <1>1, <1>2, <1>3 DEF Unrecorded

LEMMA AnsweredStep ==
  ASSUME WrapsRetryInfo, TypeInv, OwnerInv, RowInv, IdleInv, Owned, Remembered, Answered,
         [Next]_vars,
         \A m \in Msgs : ~Rebalance(m), \A w \in Workers : ~createOrUpdateFails(w)
  PROVE  Answered'
<1> SUFFICES ASSUME NEW i \in requested'
             PROVE  i \in done' \/ HeldByEvent(i)' \/ HeldByMessage(i)'
  BY DEF Answered
<1>1. done \subseteq done'
  BY DEF Next, vars, createEventTrigger, MarkProcessing, PublishRetry, ToggleActive, eachMessage,
         consumeEventTrigger, route, create, complete, readEvent, saveEvent, eachMessageReturns,
         createOrUpdateFails, AutoCommit, Crash, Rebalance
<1>2. CASE i \in requested
  BY <1>1, <1>2, EventStep, MessageStep DEF Answered
<1>3. CASE i \notin requested
  <2>1. PICK d \in Requests : createEventTrigger(d)
    BY <1>3
    DEF Next, vars, MarkProcessing, PublishRetry, ToggleActive, eachMessage,
        consumeEventTrigger, route, create, complete, readEvent, saveEvent, eachMessageReturns,
        createOrUpdateFails, AutoCommit, Crash, Rebalance
  <2>2. i \in d /\ publishEvent(NoEvent, d)
    BY <1>3, <2>1 DEF createEventTrigger
  <2>3. PICK m \in Msgs : phase'[m] = "queued" /\ msgs'[m].data = d
    BY <2>2 DEF publishEvent, TypeInv, TypeOK
  <2> QED BY <2>2, <2>3 DEF HeldByMessage, Unrecorded
<1> QED BY <1>2, <1>3

LEMMA WorkStep ==
  WrapsRetryInfo /\ TypeInv /\ BoundInv /\ OwnerInv /\ RowInv /\ WorkInv /\ [Next]_vars => WorkInv'
<1> SUFFICES ASSUME WrapsRetryInfo, TypeInv, BoundInv, OwnerInv, RowInv, WorkInv, [Next]_vars
             PROVE  WorkInv'
  OBVIOUS
<1>1. IdleInv'
  BY IdleStep DEF WorkInv
<1>2. ASSUME Reliable' PROVE Owned' /\ Remembered' /\ Answered'
  <2>1. /\ Reliable
        /\ \A m \in Msgs : ~Rebalance(m)
        /\ \A w \in Workers : ~createOrUpdateFails(w)
    BY <1>2, Faults DEF Reliable
  <2>2. IdleInv /\ Owned /\ Remembered /\ Answered
    BY <2>1 DEF WorkInv
  <2> QED BY <2>1, <2>2, OwnedStep, RememberedStep, AnsweredStep
<1> QED BY <1>1, <1>2 DEF WorkInv

LEMMA LogInit == Init => BoundInv /\ OwnerInv /\ RowInv
<1> SUFFICES ASSUME Init PROVE BoundInv /\ OwnerInv /\ RowInv
  OBVIOUS
<1>1. BoundInv
  BY RetryEventsAssumption DEF Init, BoundInv
<1> QED BY <1>1 DEF Init, OwnerInv, RowInv

LEMMA LogInv == Spec => [](TypeInv /\ BoundInv /\ OwnerInv /\ RowInv)
<1> DEFINE Inv == TypeInv /\ BoundInv /\ OwnerInv /\ RowInv
<1>1. Init => Inv
  BY TypingInit, LogInit
<1>2. Inv /\ [Next]_vars => Inv'
  <2>1. TypeInv /\ [Next]_vars => TypeInv'
    BY TypingStep, WorkerStep DEF TypeInv
  <2> QED BY <2>1, Faults, OwnerStep, RowStep
<1> QED BY <1>1, <1>2, PTL DEF Spec

\* NoWorkLost, for every handler that reports its failures: whatever consumers crash
\* and however often messages are delivered again or the preference is switched, an
\* item handed over is applied, or a row or message answers for it.
THEOREM WorkKept == WrapsRetryInfo => (Spec => []NoWorkLost)
<1> SUFFICES ASSUME WrapsRetryInfo PROVE Spec => []NoWorkLost
  OBVIOUS
<1>1. Init => WorkInv
  BY DEF Init, WorkInv, IdleInv, Owned, Remembered, Answered
<1>2. TypeInv /\ BoundInv /\ OwnerInv /\ RowInv /\ WorkInv /\ [Next]_vars => WorkInv'
  BY WorkStep
<1>3. WorkInv => NoWorkLost
  BY DEF WorkInv, Reliable, Answered, NoWorkLost
<1> QED BY <1>1, <1>2, <1>3, LogInv, PTL DEF Spec

(***************************************************************************)
(* Rows in processing. A message drives its row until the worker that owns *)
(* it has written the outcome down. While no call of createOrUpdate fails, *)
(* the owner gets there, or dies and the message is delivered again.       *)
(***************************************************************************)
Drives(m, e) ==
  /\ msgs[m].rid = e
  /\ \/ phase[m] = "queued"
     \/ /\ phase[m] = "taken" /\ owner[m] \in Workers /\ job[owner[m]] = m
        /\ pc[owner[m]] \in {"routing", "completing", "reading", "saving"}

DrivenInv ==
  budget.db = MaxDbErrors /\ budget.toggle = MaxToggles =>
    /\ active
    /\ \A e \in Ids : events[e].status = "processing" =>
         e \in marked \/ \E m \in Msgs : Drives(m, e)

\* While its row is in processing, a message goes on driving it.
LEMMA DrivesStep ==
  ASSUME TypeInv, OwnerInv, [Next]_vars, \A w \in Workers : ~createOrUpdateFails(w),
         NEW e \in Ids, NEW m \in Msgs, Drives(m, e), events'[e].status = "processing"
  PROVE  Drives(m, e)'
<1> USE DEF workerVars, logVars, Goto
<1>t. /\ events \in [Ids -> Row] /\ snap \in [Workers -> Row] /\ pc \in [Workers -> Steps]
      /\ job \in [Workers -> Msgs \union {NoMsg}] /\ phase \in [Msgs -> Phases]
      /\ owner \in [Msgs -> Workers \union {NoWorker}]
      /\ \A w \in Workers : pc[w] # "idle" => job[w] \in Msgs /\ phase[job[w]] # "unsent"
  BY DEF TypeInv, TypeOK, WorkerInv
<1>1. phase[m] \in {"queued", "taken"} /\ msgs'[m] = msgs[m] /\ msgs[m].rid = e
  BY LogStep DEF Drives
<1>2. CASE phase'[m] = "queued"
  BY <1>1, <1>2 DEF Drives
<1>3. CASE phase[m] = "queued" /\ phase'[m] # "queued"
  <2>1. ASSUME NEW w \in Workers, NEW n \in Msgs, eachMessage(w, n) PROVE Drives(m, e)'
    BY <1>1, <1>3, <2>1, <1>t DEF eachMessage, Drives
  <2>2. ASSUME NEW r, NEW d, publishEvent(r, d) PROVE FALSE
    BY <2>2, <1>3, <1>t DEF publishEvent
  <2>3. ASSUME NEW w \in Workers, eachMessageReturns(w) PROVE FALSE
    BY <2>3, <1>3, <1>t, RetryEventsAssumption DEF eachMessageReturns, OwnerInv, NoWorker
  <2>4. ASSUME NEW n \in Msgs, AutoCommit(n) \/ Rebalance(n) PROVE FALSE
    BY <2>4, <1>3, <1>t DEF AutoCommit, Rebalance
  <2>5. ASSUME NEW w \in Workers, Crash(w) PROVE FALSE
    BY <2>5, <1>3, <1>t DEF Crash
  <2>6. ASSUME UNCHANGED phase PROVE FALSE
    BY <2>6, <1>3
  <2>7. ASSUME \/ UNCHANGED vars \/ ToggleActive
               \/ \E d \in Requests : createEventTrigger(d)
               \/ \E f \in Ids : MarkProcessing(f) \/ PublishRetry(f)
               \/ \E w \in Workers : \/ route(w) \/ create(w) \/ complete(w) \/ readEvent(w)
                                     \/ saveEvent(w)
        PROVE FALSE
    BY <2>2, <2>6, <2>7
    DEF vars, ToggleActive, createEventTrigger, MarkProcessing, PublishRetry, route, create,
        complete, readEvent, saveEvent
  <2> QED BY <2>1, <2>3, <2>4, <2>5, <2>7 DEF Next, consumeEventTrigger
<1>4. CASE phase[m] = "taken" /\ phase'[m] # "queued"
  <2> DEFINE w == owner[m]
  <2>1. /\ w \in Workers /\ job[w] = m /\ Rid(w) = e
        /\ pc[w] \in {"routing", "completing", "reading", "saving"}
    BY <1>1, <1>4 DEF Drives, Rid
  <2> HIDE DEF w
  <2>2. ASSUME UNCHANGED <<phase, owner, pc, job>> PROVE Drives(m, e)'
    BY <2>2, <1>1 DEF Drives
  <2>3. ASSUME NEW r, NEW d, publishEvent(r, d), UNCHANGED <<pc, job>> PROVE Drives(m, e)'
    BY <1>1, <1>4, <2>3, <1>t DEF publishEvent, Drives
  <2>4. ASSUME NEW v \in Workers, NEW n \in Msgs, eachMessage(v, n) PROVE Drives(m, e)'
    BY <1>1, <1>4, <2>1, <2>4, <1>t DEF eachMessage, Drives, w
  <2>5. ASSUME NEW v \in Workers, v # w,
               \/ route(v) \/ create(v) \/ complete(v) \/ readEvent(v) \/ saveEvent(v)
               \/ eachMessageReturns(v)
        PROVE  Drives(m, e)'
    <3>1. /\ owner' = owner /\ pc'[w] = pc[w] /\ job'[w] = job[w]
      BY <2>1, <2>5, <1>t
      DEF route, create, complete, readEvent, saveEvent, eachMessageReturns
    <3>2. phase'[m] = "taken"
      BY <1>4, <2>5, <1>t
      DEF route, create, complete, readEvent, saveEvent, eachMessageReturns, w
    <3> QED BY <1>1, <2>1, <3>1, <3>2 DEF Drives, w
  <2>6. ASSUME route(w) PROVE Drives(m, e)'
    <3>1. PICK threw \in BOOLEAN : \E left : pc' = [pc EXCEPT ![w] = createOrUpdate(w, threw, left)]
      BY <2>6 DEF route
    <3>2. pc'[w] \in {"completing", "reading"}
      BY <2>1, <3>1, <1>t DEF createOrUpdate, NoEvent, Ids
    <3>3. UNCHANGED <<phase, owner, job>>
      BY <2>6 DEF route
    <3> QED BY <1>1, <1>4, <2>1, <3>2, <3>3 DEF Drives, w
  <2>7. ASSUME readEvent(w) PROVE Drives(m, e)'
    BY <1>1, <1>4, <2>1, <2>7, <1>t DEF readEvent, Drives, w
  <2>8. ASSUME complete(w) PROVE FALSE
    BY <2>1, <2>8, <1>t DEF complete, Row
  <2>9. ASSUME saveEvent(w) PROVE FALSE
    <3>1. /\ events'[e] = UpdatedRow(snap[w]) /\ snap[w] \in Row
      BY <2>1, <2>9, <1>t DEF saveEvent
    <3> QED BY <3>1, UpdatedRowFields DEF StatusAfterFailure
  <2>10. ~create(w) /\ ~eachMessageReturns(w)
    BY <2>1 DEF create, eachMessageReturns
  <2>11. ASSUME NEW v \in Workers, Crash(v) PROVE Drives(m, e)'
    BY <1>1, <1>4, <2>1, <2>11, <1>t DEF Crash, Drives, w
  <2>12. ASSUME NEW n \in Msgs, AutoCommit(n) \/ Rebalance(n) PROVE Drives(m, e)'
    BY <1>1, <1>4, <2>1, <2>12, <1>t DEF AutoCommit, Rebalance, Drives, w
  <2>13. ASSUME \/ UNCHANGED vars \/ ToggleActive
                \/ \E d \in Requests : createEventTrigger(d)
                \/ \E f \in Ids : MarkProcessing(f) \/ PublishRetry(f)
         PROVE Drives(m, e)'
    BY <2>2, <2>3, <2>13
    DEF vars, ToggleActive, createEventTrigger, MarkProcessing, PublishRetry
  <2> QED
    BY <2>4, <2>5, <2>6, <2>7, <2>8, <2>9, <2>10, <2>11, <2>12, <2>13
    DEF Next, consumeEventTrigger
<1> QED BY <1>1, <1>2, <1>3, <1>4

LEMMA DrivenStep == TypeInv /\ BoundInv /\ OwnerInv /\ DrivenInv /\ [Next]_vars => DrivenInv'
<1> SUFFICES ASSUME TypeInv, BoundInv, OwnerInv, DrivenInv, [Next]_vars,
                    budget'.db = MaxDbErrors, budget'.toggle = MaxToggles
             PROVE  /\ active'
                    /\ \A e \in Ids : events'[e].status = "processing" =>
                         e \in marked' \/ \E m \in Msgs : Drives(m, e)'
  BY DEF DrivenInv
<1>t. /\ events \in [Ids -> Row] /\ snap \in [Workers -> Row]
      /\ msgs \in [Msgs -> Message] /\ phase \in [Msgs -> Phases]
  BY DEF TypeInv, TypeOK
<1>1. /\ active /\ ~ToggleActive
      /\ \A w \in Workers : ~createOrUpdateFails(w)
      /\ \A e \in Ids : events[e].status = "processing" =>
           e \in marked \/ \E m \in Msgs : Drives(m, e)
  BY Faults DEF DrivenInv
<1>2. active'
  BY <1>1
  DEF Next, vars, createEventTrigger, MarkProcessing, PublishRetry, eachMessage,
      consumeEventTrigger, route, create, complete, readEvent, saveEvent, eachMessageReturns,
      createOrUpdateFails, AutoCommit, Crash, Rebalance
<1>3. ASSUME NEW e \in Ids, events'[e].status = "processing"
      PROVE  e \in marked' \/ \E m \in Msgs : Drives(m, e)'
  <2>1. CASE \E m \in Msgs : Drives(m, e)
    BY <1>1, <1>3, <2>1, DrivesStep
  <2>2. CASE e \in marked
    <3>1. CASE e \in marked'
      BY <3>1
    <3>2. CASE PublishRetry(e)
      <4>1. publishEvent(e, events[e].data)
        BY <1>1, <3>2 DEF PublishRetry
      <4>2. PICK m \in Msgs : phase'[m] = "queued" /\ msgs'[m].rid = e
        BY <4>1, <1>t DEF publishEvent
      <4> QED BY <4>2 DEF Drives
    <3> QED
      BY <2>2, <3>1, <3>2
      DEF Next, vars, createEventTrigger, MarkProcessing, PublishRetry, ToggleActive, eachMessage,
          consumeEventTrigger, route, create, complete, readEvent, saveEvent, eachMessageReturns,
          createOrUpdateFails, AutoCommit, Crash, Rebalance
  <2>3. CASE events[e].status # "processing"
    <3>1. ASSUME NEW w \in Workers, create(w) PROVE FALSE
      BY <1>3, <2>3, <3>1, <1>t DEF create
    <3>2. ASSUME NEW w \in Workers, complete(w) PROVE FALSE
      BY <1>3, <2>3, <3>2, <1>t DEF complete, Row
    <3>3. ASSUME NEW w \in Workers, saveEvent(w) PROVE FALSE
      <4>1. events'[e] \in {events[e], UpdatedRow(snap[w])} /\ snap[w] \in Row
        BY <3>3, <1>t DEF saveEvent
      <4> QED BY <1>3, <2>3, <4>1, UpdatedRowFields DEF StatusAfterFailure
    <3>4. ASSUME NEW f \in Ids, MarkProcessing(f) PROVE e \in marked'
      BY <1>3, <2>3, <3>4, <1>t DEF MarkProcessing
    <3>5. ~UNCHANGED events
      BY <1>3, <2>3
    <3> QED
      BY <3>1, <3>2, <3>3, <3>4, <3>5
      DEF Next, vars, createEventTrigger, PublishRetry, ToggleActive, eachMessage,
          consumeEventTrigger, route, readEvent, eachMessageReturns,
          createOrUpdateFails, AutoCommit, Crash, Rebalance
  <2> QED BY <1>1, <2>1, <2>2, <2>3
<1> QED BY <1>2, <1>3

\* ProcessingIsDriven: a row in processing is about to be published or has a message
\* that will be handled, however many consumers die or lose their messages.
THEOREM Driven == Spec => []ProcessingIsDriven
<1>1. Init => DrivenInv
  BY DEF Init, DrivenInv, NoRow
<1>2. TypeInv /\ BoundInv /\ OwnerInv /\ RowInv /\ DrivenInv /\ [Next]_vars => DrivenInv'
  BY DrivenStep
<1>3. DrivenInv => ProcessingIsDriven
  BY DEF DrivenInv, Drives, ProcessingIsDriven
<1> QED BY <1>1, <1>2, <1>3, LogInv, PTL DEF Spec

(***************************************************************************)
(* Every message delivered once. While no consumer dies or loses its       *)
(* message, a row has at most one attempt at a time: it is marked, or one  *)
(* message drives it, and nothing but that attempt changes the row.        *)
(***************************************************************************)
DeliveredOnce == budget.crash = MaxCrashes /\ budget.rebalance = MaxRebalances

Attempted ==
  /\ \A e \in marked : events[e].status = "processing"
  /\ \A m \in Msgs, e \in Ids :
       Drives(m, e) => events[e].status = "processing" /\ e \notin marked
  /\ \A m \in Msgs, n \in Msgs, e \in Ids : Drives(m, e) /\ Drives(n, e) => m = n
  /\ \A w \in Workers : pc[w] = "saving" => snap[w] = events[Rid(w)]

AttemptInv == DeliveredOnce => Owned /\ Attempted

\* A worker at a retry is what makes its message drive the row.
LEMMA WorkerDrives ==
  ASSUME TypeInv, Owned, NEW w \in Workers,
         pc[w] \in {"routing", "completing", "reading", "saving"}, Rid(w) # NoEvent
  PROVE  job[w] \in Msgs /\ Rid(w) \in Ids /\ Drives(job[w], Rid(w))
<1>1. job[w] \in Msgs /\ msgs[job[w]] \in Message /\ phase[job[w]] = "taken" /\ owner[job[w]] = w
  BY DEF TypeInv, TypeOK, Owned
<1>2. Rid(w) \in Ids
  BY <1>1 DEF Message, Rid
<1> QED BY <1>1, <1>2 DEF Drives, Rid

\* Only the retry job's publication begins an attempt.
LEMMA DrivesBegin ==
  ASSUME TypeInv, OwnerInv, IdleInv, Owned, [Next]_vars,
         \A n \in Msgs : ~Rebalance(n), \A w \in Workers : ~Crash(w),
         NEW m \in Msgs, NEW e \in Ids, Drives(m, e)', ~Drives(m, e)
  PROVE  /\ PublishRetry(e) /\ UNCHANGED events
         /\ phase[m] = "unsent" /\ phase'[m] = "queued"
<1> USE DEF workerVars, logVars, Goto
<1>t. /\ pc \in [Workers -> Steps] /\ job \in [Workers -> Msgs \union {NoMsg}]
      /\ phase \in [Msgs -> Phases] /\ owner \in [Msgs -> Workers \union {NoWorker}]
      /\ msgs \in [Msgs -> Message]
      /\ \A w \in Workers : pc[w] # "idle" => job[w] \in Msgs /\ phase[job[w]] # "unsent"
  BY DEF TypeInv, TypeOK, WorkerInv
<1>1. CASE phase[m] = "unsent"
  <2>1. phase'[m] = "queued" /\ msgs'[m].rid = e
    BY <1>1, LogStep DEF Drives
  <2>2. ASSUME NEW r, NEW d, publishEvent(r, d) PROVE r = e
    BY <2>1, <2>2, <1>1, <1>t DEF publishEvent
  <2>3. ASSUME NEW f \in Ids, PublishRetry(f) PROVE f = e
    <3>1. publishEvent(f, events[f].data)
      BY <2>1, <2>3, <1>1 DEF PublishRetry
    <3> QED BY <2>2, <3>1
  <2>4. ASSUME NEW d \in Requests, createEventTrigger(d) PROVE FALSE
    BY <2>2, <2>4 DEF createEventTrigger, NoEvent, Ids
  <2>5. ASSUME NEW w \in Workers, NEW n \in Msgs, eachMessage(w, n) PROVE FALSE
    BY <2>1, <2>5, <1>1, <1>t DEF eachMessage
  <2>6. ASSUME NEW w \in Workers, eachMessageReturns(w) PROVE FALSE
    BY <2>1, <2>6, <1>1, <1>t DEF eachMessageReturns
  <2>7. ASSUME NEW n \in Msgs, AutoCommit(n) PROVE FALSE
    BY <2>1, <2>7, <1>1, <1>t DEF AutoCommit
  <2>8. ASSUME UNCHANGED phase PROVE FALSE
    BY <2>1, <2>8, <1>1
  <2>9. ASSUME \/ UNCHANGED vars \/ ToggleActive
               \/ \E f \in Ids : MarkProcessing(f)
               \/ \E w \in Workers : \/ route(w) \/ create(w) \/ complete(w) \/ readEvent(w)
                                     \/ saveEvent(w) \/ createOrUpdateFails(w)
        PROVE  FALSE
    BY <2>8, <2>9
    DEF vars, ToggleActive, MarkProcessing, route, create, complete, readEvent, saveEvent,
        createOrUpdateFails
  <2>10. PublishRetry(e)
    BY <2>3, <2>4, <2>5, <2>6, <2>7, <2>9 DEF Next, consumeEventTrigger
  <2> QED BY <2>1, <2>10, <1>1 DEF PublishRetry
<1>2. CASE phase[m] # "unsent"
  <2>1. msgs'[m] = msgs[m] /\ msgs[m].rid = e
    BY <1>2, LogStep DEF Drives
  <2>2. phase[m] # "queued"
    BY <2>1 DEF Drives
  <2>3. ASSUME UNCHANGED <<phase, owner, pc, job>> PROVE FALSE
    BY <2>1, <2>3 DEF Drives
  <2>4. ASSUME NEW r, NEW d, publishEvent(r, d), UNCHANGED <<pc, job>> PROVE FALSE
    BY <2>1, <2>4, <1>2, <1>t DEF publishEvent, Drives
  <2>5. ASSUME NEW w \in Workers, NEW n \in Msgs, eachMessage(w, n) PROVE FALSE
    <3>1. n # m /\ phase'[m] = phase[m] /\ owner'[m] = owner[m]
      BY <2>2, <2>5, <1>t DEF eachMessage
    <3>2. job'[w] = n
      BY <2>5, <1>t DEF eachMessage
    <3> QED BY <2>1, <2>5, <3>1, <3>2, <1>t DEF eachMessage, Drives
  <2>6. ASSUME NEW w \in Workers, eachMessageReturns(w) PROVE FALSE
    BY <2>1, <2>2, <2>6, <1>t DEF eachMessageReturns, Drives, NoMsg, Msgs
  <2>7. ASSUME NEW w \in Workers, NEW next \in Steps, Goto(w, next),
               UNCHANGED <<phase, owner, job>>,
               pc[w] \in {"routing", "completing", "reading", "saving"}
                 \/ next \notin {"routing", "completing", "reading", "saving"}
        PROVE  FALSE
    BY <2>1, <2>7, <1>t DEF Drives
  <2>8. ASSUME NEW w \in Workers, route(w) PROVE FALSE
    <3>1. PICK threw \in BOOLEAN : \E left : pc' = [pc EXCEPT ![w] = createOrUpdate(w, threw, left)]
      BY <2>8 DEF route
    <3> QED BY <2>7, <2>8, <3>1, createOrUpdateType DEF route
  <2>9. ASSUME NEW w \in Workers,
               create(w) \/ complete(w) \/ readEvent(w) \/ saveEvent(w) \/ createOrUpdateFails(w)
        PROVE  FALSE
    BY <2>7, <2>9 DEF create, complete, readEvent, saveEvent, createOrUpdateFails, Steps
  <2>10. ASSUME NEW n \in Msgs, AutoCommit(n) PROVE FALSE
    BY <2>1, <2>2, <2>10, <1>t DEF AutoCommit, Drives
  <2>11. ASSUME \/ UNCHANGED vars \/ ToggleActive
                \/ \E d \in Requests : createEventTrigger(d)
                \/ \E f \in Ids : MarkProcessing(f) \/ PublishRetry(f)
         PROVE FALSE
    BY <2>3, <2>4, <2>11
    DEF vars, ToggleActive, createEventTrigger, MarkProcessing, PublishRetry
  <2> QED BY <2>5, <2>6, <2>8, <2>9, <2>10, <2>11 DEF Next, consumeEventTrigger
<1> QED BY <1>1, <1>2

\* A row in processing is changed by the worker at its attempt, and by nothing else.
LEMMA RowChanges ==
  ASSUME TypeInv, [Next]_vars, NEW e \in Ids, events[e].status = "processing",
         events'[e] # events[e]
  PROVE  \E w \in Workers : (complete(w) \/ saveEvent(w)) /\ Rid(w) = e
<1>t. events \in [Ids -> Row]
  BY DEF TypeInv, TypeOK
<1>1. ASSUME NEW f \in Ids, MarkProcessing(f) PROVE FALSE
  BY <1>1, <1>t DEF MarkProcessing
<1>2. ASSUME NEW w \in Workers, create(w) PROVE FALSE
  BY <1>2, <1>t DEF create
<1>3. ASSUME NEW w \in Workers, complete(w) \/ saveEvent(w) PROVE Rid(w) = e
  BY <1>3, <1>t DEF complete, saveEvent
<1>4. ~UNCHANGED events
  OBVIOUS
<1>5. ASSUME \/ UNCHANGED vars \/ ToggleActive
             \/ \E d \in Requests : createEventTrigger(d)
             \/ \E f \in Ids : PublishRetry(f)
             \/ \E w \in Workers, m \in Msgs : eachMessage(w, m)
             \/ \E w \in Workers : \/ route(w) \/ readEvent(w) \/ eachMessageReturns(w)
                                   \/ createOrUpdateFails(w) \/ Crash(w)
             \/ \E m \in Msgs : AutoCommit(m) \/ Rebalance(m)
      PROVE FALSE
  BY <1>4, <1>5
  DEF vars, ToggleActive, createEventTrigger, PublishRetry, eachMessage, route, readEvent,
      eachMessageReturns, createOrUpdateFails, Crash, AutoCommit, Rebalance
<1> QED BY <1>1, <1>2, <1>3, <1>5 DEF Next, consumeEventTrigger

LEMMA AttemptedStep ==
  ASSUME TypeInv, OwnerInv, RowInv, IdleInv, Owned, Attempted, [Next]_vars, Owned',
         \A n \in Msgs : ~Rebalance(n), \A w \in Workers : ~Crash(w)
  PROVE  Attempted'
<1>t. /\ events \in [Ids -> Row] /\ marked \subseteq Ids /\ pc \in [Workers -> Steps]
      /\ job \in [Workers -> Msgs \union {NoMsg}]
      /\ \A w \in Workers : pc[w] # "idle" => job[w] \in Msgs /\ phase[job[w]] # "unsent"
      /\ \A w \in Workers : pc[w] \in {"completing", "reading", "saving"} => Rid(w) \in Ids
  BY DEF TypeInv, TypeOK, WorkerInv
<1>1. ASSUME NEW e \in Ids, events[e].status = "processing", events'[e] # events[e]
      PROVE  \E m \in Msgs : Drives(m, e) /\ ~Drives(m, e)'
  <2>1. PICK w \in Workers : (complete(w) \/ saveEvent(w)) /\ Rid(w) = e
    BY <1>1, RowChanges
  <2>2. pc[w] \in {"completing", "saving"} /\ Rid(w) # NoEvent
    BY <2>1 DEF complete, saveEvent, NoEvent, Ids
  <2>3. PICK m \in Msgs : job[w] = m /\ Drives(m, e) /\ phase[m] = "taken" /\ owner[m] = w
    BY <2>1, <2>2, WorkerDrives DEF Owned
  <2>4. /\ phase' = phase /\ owner' = owner /\ job' = job
        /\ pc'[w] \notin {"routing", "completing", "reading", "saving"}
    BY <2>1, <1>t DEF complete, saveEvent, Goto, logVars
  <2> QED BY <2>3, <2>4 DEF Drives
<1>2. ASSUME NEW e \in marked' PROVE events'[e].status = "processing"
  <2>1. CASE e \in marked
    <3>1. e \in Ids /\ events[e].status = "processing"
      BY <1>t, <2>1 DEF Attempted
    <3>2. \A m \in Msgs : ~Drives(m, e)
      BY <2>1, <3>1 DEF Attempted
    <3> QED BY <1>1, <3>1, <3>2
  <2>2. CASE e \notin marked
    <3>1. MarkProcessing(e) /\ e \in Ids
      BY <1>2, <2>2
      DEF Next, vars, createEventTrigger, MarkProcessing, PublishRetry, ToggleActive, eachMessage,
          consumeEventTrigger, route, create, complete, readEvent, saveEvent, eachMessageReturns,
          createOrUpdateFails, AutoCommit, Crash, Rebalance
    <3> QED BY <3>1, <1>t DEF MarkProcessing, Row
  <2> QED BY <2>1, <2>2
<1>3. ASSUME NEW m \in Msgs, NEW e \in Ids, Drives(m, e)'
      PROVE  events'[e].status = "processing" /\ e \notin marked'
  <2>1. CASE Drives(m, e)
    <3>1. events[e].status = "processing" /\ e \notin marked
      BY <2>1 DEF Attempted
    <3>2. events'[e] = events[e]
      <4> SUFFICES ASSUME events'[e] # events[e] PROVE FALSE
        OBVIOUS
      <4>1. PICK n \in Msgs : Drives(n, e) /\ ~Drives(n, e)'
        BY <1>1, <3>1
      <4>2. n = m
        BY <2>1, <4>1 DEF Attempted
      <4> QED BY <1>3, <4>1, <4>2
    <3>3. ~MarkProcessing(e)
      BY <3>1 DEF MarkProcessing
    <3>4. e \notin marked'
      BY <3>1, <3>3
      DEF Next, vars, createEventTrigger, MarkProcessing, PublishRetry, ToggleActive, eachMessage,
          consumeEventTrigger, route, create, complete, readEvent, saveEvent, eachMessageReturns,
          createOrUpdateFails, AutoCommit, Crash, Rebalance
    <3> QED BY <3>1, <3>2, <3>4
  <2>2. CASE ~Drives(m, e)
    <3>1. PublishRetry(e) /\ UNCHANGED events
      BY <1>3, <2>2, DrivesBegin
    <3> QED BY <3>1 DEF PublishRetry, Attempted
  <2> QED BY <2>1, <2>2
<1>4. ASSUME NEW m \in Msgs, NEW n \in Msgs, NEW e \in Ids, Drives(m, e)', Drives(n, e)'
      PROVE  m = n
  <2>1. CASE Drives(m, e) /\ Drives(n, e)
    BY <2>1 DEF Attempted
  <2>2. CASE ~Drives(m, e) /\ ~Drives(n, e)
    <3>1. /\ PublishRetry(e)
          /\ phase[m] = "unsent" /\ phase'[m] = "queued"
          /\ phase[n] = "unsent" /\ phase'[n] = "queued"
      BY <1>4, <2>2, DrivesBegin
    <3>2. publishEvent(e, events[e].data)
      BY <3>1 DEF PublishRetry, logVars
    <3>3. phase \in [Msgs -> Phases]
      BY DEF TypeInv, TypeOK
    <3> QED BY <3>1, <3>2, <3>3 DEF publishEvent
  <2>3. ASSUME NEW k \in Msgs, Drives(k, e)', ~Drives(k, e), NEW l \in Msgs, Drives(l, e)
        PROVE  FALSE
    <3>1. e \in marked
      BY <2>3, DrivesBegin DEF PublishRetry
    <3> QED BY <2>3, <3>1 DEF Attempted
  <2> QED BY <1>4, <2>1, <2>2, <2>3
<1>5. ASSUME NEW w \in Workers, pc'[w] = "saving" PROVE snap'[w] = events'[Rid(w)']
  <2>1. CASE pc[w] = "saving" /\ snap'[w] = snap[w] /\ job'[w] = job[w]
    <3>1. PICK m \in Msgs, e \in Ids : job[w] = m /\ Rid(w) = e /\ Drives(m, e) /\ Rid(w)' = e
      <4>1. job[w] \in Msgs /\ phase[job[w]] # "unsent" /\ Rid(w) \in Ids
        BY <2>1, <1>t
      <4> QED BY <2>1, <4>1, WorkerDrives, LogStep DEF Rid, NoEvent, Ids
    <3>2. snap[w] = events[e] /\ events[e].status = "processing"
      BY <2>1, <3>1 DEF Attempted
    <3>3. Drives(m, e)'
      <4>1. job'[w] = m /\ phase'[m] = "taken" /\ owner'[m] = w
        BY <1>5, <2>1, <3>1 DEF Owned
      <4>2. msgs'[m].rid = e
        BY <3>1, <4>1 DEF Rid
      <4> QED BY <1>5, <4>1, <4>2 DEF Drives
    <3>4. events'[e] = events[e]
      <4> SUFFICES ASSUME events'[e] # events[e] PROVE FALSE
        OBVIOUS
      <4>1. PICK n \in Msgs : Drives(n, e) /\ ~Drives(n, e)'
        BY <1>1, <3>1, <3>2
      <4>2. n = m
        BY <3>1, <4>1 DEF Attempted
      <4> QED BY <3>3, <4>1, <4>2
    <3> QED BY <2>1, <3>1, <3>2, <3>4
  <2>2. CASE snap'[w] = events[Rid(w)] /\ UNCHANGED <<job, msgs, events>>
    BY <2>2 DEF Rid
  <2> QED BY <1>5, <2>1, <2>2, SavingStep
<1> QED BY <1>2, <1>3, <1>4, <1>5 DEF Attempted

LEMMA AttemptStep ==
  TypeInv /\ BoundInv /\ OwnerInv /\ RowInv /\ IdleInv /\ AttemptInv /\ [Next]_vars => AttemptInv'
<1> SUFFICES ASSUME TypeInv, BoundInv, OwnerInv, RowInv, IdleInv, AttemptInv, [Next]_vars,
                    DeliveredOnce'
             PROVE  Owned' /\ Attempted'
  BY DEF AttemptInv
<1>1. /\ DeliveredOnce
      /\ \A m \in Msgs : ~Rebalance(m)
      /\ \A w \in Workers : ~Crash(w)
  BY Faults DEF DeliveredOnce
<1>2. Owned /\ Attempted
  BY <1>1 DEF AttemptInv
<1>3. Owned'
  BY <1>1, <1>2, OwnedStep
<1> QED BY <1>1, <1>2, <1>3, AttemptedStep

LEMMA AttemptsInv == Spec => [](IdleInv /\ AttemptInv)
<1>1. Init => IdleInv /\ AttemptInv
  BY DEF Init, IdleInv, AttemptInv, Owned, Attempted, Drives
<1>2. /\ TypeInv /\ BoundInv /\ OwnerInv /\ RowInv
      /\ IdleInv /\ AttemptInv /\ [Next]_vars
      => (IdleInv /\ AttemptInv)'
  BY IdleStep, AttemptStep
<1> QED BY <1>1, <1>2, LogInv, PTL DEF Spec

\* HandledInProcessing, while every message is delivered once: whatever fails in
\* createOrUpdate and whoever switches the preference, nobody reopens, buries or
\* completes the row of a retry but the worker that handles it.
THEOREM AttemptsApart == Spec => [](DeliveredOnce => HandledInProcessing)
<1>1. TypeInv /\ AttemptInv => (DeliveredOnce => HandledInProcessing)
  <2> SUFFICES ASSUME TypeInv, Owned, Attempted, NEW w \in Workers,
                      pc[w] \in {"routing", "reading", "saving", "completing"}, Rid(w) # NoEvent
               PROVE  events[Rid(w)].status = "processing"
    BY DEF AttemptInv, HandledInProcessing
  <2> QED BY WorkerDrives DEF Attempted
<1> QED BY <1>1, LogInv, AttemptsInv, PTL

(***************************************************************************)
(* No forked work. When no item is handed over twice, an item that is not  *)
(* applied is either in one live row, or waits with one message: a first   *)
(* delivery whose outcome is not known, or the part a worker has yet to    *)
(* write to a new row. It moves from one to the other and is not copied.   *)
(***************************************************************************)
InRow(e, i) == events[e].status \in Live /\ i \in events[e].data

Waits(m, i) ==
  \/ phase[m] = "queued" /\ msgs[m].rid = NoEvent /\ i \in msgs[m].data
  \/ \E w \in Workers :
       /\ job[w] = m
       /\ \/ pc[w] = "routing" /\ msgs[m].rid = NoEvent /\ i \in msgs[m].data
          \/ pc[w] = "creating" /\ i \in todo[w]

InOnePlace ==
  /\ \A e \in Ids, f \in Ids : \A i \in Items : InRow(e, i) /\ InRow(f, i) => e = f
  /\ \A e \in Ids, m \in Msgs : \A i \in Items : ~(InRow(e, i) /\ Waits(m, i))
  /\ \A m \in Msgs, n \in Msgs : \A i \in Items : Waits(m, i) /\ Waits(n, i) => m = n
  /\ \A e \in Ids : \A i \in Items : InRow(e, i) => i \in requested
  /\ \A m \in Msgs : \A i \in Items : Waits(m, i) => i \in requested

Part == \A w \in Workers : pc[w] \in {"completing", "creating"} => todo[w] \subseteq Data(w)

\* A request has been handed over as a whole or not at all.
Whole == \A d \in Requests : d \subseteq requested \/ d \intersect requested = {}

ForkInv == Whole /\ Part /\ (DeliveredOnce => InOnePlace)

RequestsApart == \A d \in Requests, f \in Requests : d # f => d \intersect f = {}

LEMMA WorkerMoves ==
  ASSUME TypeInv, [Next]_vars, NEW w \in Workers
  PROVE  \/ UNCHANGED <<pc[w], job[w], todo[w]>>
         \/ \E m \in Msgs : eachMessage(w, m)
         \/ consumeEventTrigger(w) \/ createOrUpdateFails(w) \/ Crash(w)
<1> DEFINE P == UNCHANGED <<pc[w], job[w], todo[w]>>
<1>t. /\ pc \in [Workers -> Steps] /\ job \in [Workers -> Msgs \union {NoMsg}]
      /\ todo \in [Workers -> SUBSET Items]
  BY DEF TypeInv, TypeOK
<1>1. ASSUME UNCHANGED <<pc, job, todo>> PROVE P
  BY <1>1
<1>2. ASSUME NEW v \in Workers, v # w, NEW m \in Msgs, eachMessage(v, m) PROVE P
  BY <1>2, <1>t DEF eachMessage, Goto
<1>3. ASSUME NEW v \in Workers, v # w, consumeEventTrigger(v) PROVE P
  BY <1>3, <1>t
  DEF consumeEventTrigger, route, create, complete, readEvent, saveEvent, eachMessageReturns, Goto
<1>4. ASSUME NEW v \in Workers, v # w, createOrUpdateFails(v) \/ Crash(v) PROVE P
  BY <1>4, <1>t DEF createOrUpdateFails, Crash, Goto
<1>5. ASSUME \/ UNCHANGED vars \/ ToggleActive
             \/ \E d \in Requests : createEventTrigger(d)
             \/ \E f \in Ids : MarkProcessing(f) \/ PublishRetry(f)
             \/ \E m \in Msgs : AutoCommit(m) \/ Rebalance(m)
      PROVE P
  BY <1>1, <1>5
  DEF vars, workerVars, ToggleActive, createEventTrigger, MarkProcessing, PublishRetry,
      AutoCommit, Rebalance
<1> QED BY <1>2, <1>3, <1>4, <1>5 DEF Next

LEMMA PartStep == TypeInv /\ OwnerInv /\ Part /\ [Next]_vars => Part'
<1> SUFFICES ASSUME TypeInv, OwnerInv, Part, [Next]_vars, NEW w \in Workers,
                    pc'[w] \in {"completing", "creating"}
             PROVE  todo'[w] \subseteq Data(w)'
  BY DEF Part
<1>t. /\ pc \in [Workers -> Steps] /\ job \in [Workers -> Msgs \union {NoMsg}]
      /\ todo \in [Workers -> SUBSET Items]
      /\ \A v \in Workers : pc[v] # "idle" => job[v] \in Msgs /\ phase[job[v]] # "unsent"
  BY DEF TypeInv, TypeOK, WorkerInv
<1>1. CASE UNCHANGED <<pc[w], job[w], todo[w]>>
  <2>1. job[w] \in Msgs /\ phase[job[w]] # "unsent" /\ job'[w] = job[w]
    BY <1>1, <1>t
  <2>2. Data(w)' = Data(w)
    BY <2>1, LogStep DEF Data
  <2> QED BY <1>1, <2>2 DEF Part
<1>2. CASE route(w)
  <2>1. PICK applied \in SUBSET Data(w), threw \in BOOLEAN :
          todo' = [todo EXCEPT ![w] = IF threw THEN Data(w)
                                       ELSE Reported(threw, Data(w) \ applied)]
    BY <1>2 DEF route
  <2>2. UNCHANGED <<job, msgs>>
    BY <1>2 DEF route, logVars
  <2>3. todo'[w] \subseteq Data(w)
    BY <2>1, <1>t DEF Reported
  <2> QED BY <2>2, <2>3 DEF Data
<1>3. CASE complete(w)
  BY <1>3, <1>t DEF complete, Part, Data, logVars
<1>4. CASE \/ \E m \in Msgs : eachMessage(w, m)
           \/ create(w) \/ readEvent(w) \/ saveEvent(w) \/ eachMessageReturns(w)
           \/ createOrUpdateFails(w) \/ Crash(w)
  BY <1>4, <1>t
  DEF eachMessage, create, readEvent, saveEvent, eachMessageReturns, createOrUpdateFails, Crash, Goto
<1> QED BY <1>1, <1>2, <1>3, <1>4, WorkerMoves DEF consumeEventTrigger

LEMMA WholeStep == RequestsApart /\ Whole /\ [Next]_vars => Whole'
<1> SUFFICES ASSUME RequestsApart, Whole, [Next]_vars PROVE Whole'
  OBVIOUS
<1>1. ASSUME NEW d \in Requests, createEventTrigger(d) PROVE Whole'
  BY <1>1 DEF createEventTrigger, RequestsApart, Whole
<1>2. CASE UNCHANGED requested
  BY <1>2 DEF Whole
<1>3. UNCHANGED requested \/ \E d \in Requests : createEventTrigger(d)
  BY DEF Next, vars, MarkProcessing, PublishRetry, ToggleActive, eachMessage,
         consumeEventTrigger, route, create, complete, readEvent, saveEvent, eachMessageReturns,
         createOrUpdateFails, AutoCommit, Crash, Rebalance
<1> QED BY <1>1, <1>2, <1>3

\* An item enters a row only from the worker that creates the row.
LEMMA RowBegins ==
  ASSUME TypeInv, Owned, Attempted, [Next]_vars,
         NEW e \in Ids, NEW i \in Items, InRow(e, i)', ~InRow(e, i)
  PROVE  /\ events[e].status = "none" /\ events'[e].status = "open"
         /\ \A f \in Ids : f # e => events'[f] = events[f]
         /\ \E m \in Msgs : Waits(m, i) /\ ~Waits(m, i)'
<1>t. /\ events \in [Ids -> Row] /\ snap \in [Workers -> Row] /\ pc \in [Workers -> Steps]
      /\ todo \in [Workers -> SUBSET Items]
      /\ \A v \in Workers : pc[v] # "idle" => job[v] \in Msgs /\ phase[job[v]] # "unsent"
      /\ \A w \in Workers : pc[w] \in {"completing", "reading", "saving"} => Rid(w) \in Ids
  BY DEF TypeInv, TypeOK, WorkerInv
<1>1. ASSUME NEW f \in Ids, MarkProcessing(f) PROVE FALSE
  BY <1>1, <1>t DEF MarkProcessing, InRow, Live, Row
<1>2. ASSUME NEW w \in Workers, complete(w) PROVE FALSE
  BY <1>2, <1>t DEF complete, InRow, Live, Row
<1>3. ASSUME NEW w \in Workers, saveEvent(w) PROVE FALSE
  <2>1. pc[w] = "saving" /\ Rid(w) \in Ids /\ Rid(w) # NoEvent /\ snap[w] \in Row
    BY <1>3, <1>t DEF saveEvent, NoEvent, Ids
  <2>2. events[Rid(w)].status = "processing" /\ snap[w] = events[Rid(w)]
    BY <2>1, WorkerDrives DEF Attempted
  <2>3. events' = [events EXCEPT ![Rid(w)] = UpdatedRow(events[Rid(w)])]
    BY <1>3, <2>2 DEF saveEvent
  <2>4. UpdatedRow(events[Rid(w)]).data = events[Rid(w)].data
    BY <2>1, <1>t, UpdatedRowFields
  <2> QED BY <2>1, <2>2, <2>3, <2>4, <1>t DEF InRow, Live
<1>4. ~UNCHANGED events
  BY DEF InRow
<1>5. PICK w \in Workers : create(w)
  BY <1>1, <1>2, <1>3, <1>4
  DEF Next, vars, createEventTrigger, PublishRetry, ToggleActive, eachMessage,
      consumeEventTrigger, route, readEvent, eachMessageReturns,
      createOrUpdateFails, AutoCommit, Crash, Rebalance
<1>6. PICK f \in Ids :
        /\ events[f].status = "none"
        /\ events' = [events EXCEPT ![f] =
             [status |-> "open", retryCount |-> 0, data |-> todo[w], delay |-> FirstRetryDelay]]
  BY <1>5 DEF create
<1>7. e = f /\ events'[e].status = "open" /\ i \in todo[w]
  BY <1>6, <1>t DEF InRow
<1>8. pc[w] = "creating" /\ job[w] \in Msgs /\ phase[job[w]] = "taken" /\ owner[job[w]] = w
  BY <1>5, <1>t DEF create, Owned
<1>9. PICK m \in Msgs : job[w] = m /\ Waits(m, i)
  BY <1>7, <1>8 DEF Waits
<1>10. /\ UNCHANGED <<job, todo, phase, msgs>> /\ pc'[w] = "finishing"
       /\ \A v \in Workers : v # w => pc'[v] = pc[v]
  BY <1>5, <1>t DEF create, Goto, logVars
<1>11. ~Waits(m, i)'
  BY <1>8, <1>9, <1>10, <1>t DEF Waits, Owned
<1> QED BY <1>6, <1>7, <1>9, <1>11, <1>t

\* An item begins to wait when it is handed over, or when its row is completed with
\* a part left.
LEMMA WaitBegins ==
  ASSUME TypeInv, OwnerInv, IdleInv, Part, Owned, Attempted, RowInv, [Next]_vars,
         \A n \in Msgs : ~Rebalance(n), \A v \in Workers : ~Crash(v),
         NEW m \in Msgs, NEW i \in Items, Waits(m, i)', ~Waits(m, i)
  PROVE  \/ /\ phase[m] = "unsent" /\ phase'[m] = "queued" /\ UNCHANGED events
            /\ \E d \in Requests : createEventTrigger(d) /\ i \in d
         \/ \E w \in Workers, e \in Ids :
              complete(w) /\ job[w] = m /\ InRow(e, i) /\ ~InRow(e, i)'
<1> USE DEF Goto, logVars, workerVars
<1>t. /\ pc \in [Workers -> Steps] /\ job \in [Workers -> Msgs \union {NoMsg}]
      /\ todo \in [Workers -> SUBSET Items] /\ events \in [Ids -> Row]
      /\ msgs \in [Msgs -> Message] /\ phase \in [Msgs -> Phases]
      /\ owner \in [Msgs -> Workers \union {NoWorker}]
      /\ \A v \in Workers : pc[v] # "idle" => job[v] \in Msgs /\ phase[job[v]] # "unsent"
      /\ \A v \in Workers : pc[v] \in {"completing", "reading", "saving"} => Rid(v) \in Ids
  BY DEF TypeInv, TypeOK, WorkerInv
<1>1. CASE phase[m] = "unsent" /\ phase'[m] # "unsent"
  <2>1. phase'[m] = "queued" /\ UNCHANGED <<events, pc, job>>
    BY <1>1, LogStep
  <2>2. \A w \in Workers : job[w] = m => pc[w] = "idle"
    BY <1>1, <1>t
  <2>3. msgs'[m].rid = NoEvent /\ i \in msgs'[m].data
    BY <2>1, <2>2 DEF Waits
  <2>4. ASSUME NEW r, NEW d, publishEvent(r, d) PROVE r = NoEvent /\ i \in d
    BY <1>1, <2>1, <2>3, <2>4, <1>t DEF publishEvent
  <2>5. ASSUME NEW f \in Ids, PublishRetry(f) PROVE FALSE
    <3>1. publishEvent(f, events[f].data)
      BY <1>1, <2>5 DEF PublishRetry
    <3> QED BY <2>4, <3>1 DEF NoEvent, Ids
  <2>6. ASSUME NEW w \in Workers, eachMessageReturns(w) PROVE FALSE
    BY <1>1, <2>1, <2>6, <1>t DEF eachMessageReturns
  <2>7. ASSUME NEW n \in Msgs, AutoCommit(n) PROVE FALSE
    BY <1>1, <2>1, <2>7, <1>t DEF AutoCommit
  <2>8. ASSUME NEW w \in Workers, NEW n \in Msgs, eachMessage(w, n) PROVE FALSE
    BY <1>1, <2>1, <2>8, <1>t DEF eachMessage
  <2>9. ASSUME UNCHANGED phase PROVE FALSE
    BY <1>1, <2>9
  <2>10. PICK d \in Requests : createEventTrigger(d)
    BY <2>5, <2>6, <2>7, <2>8, <2>9
    DEF Next, vars, MarkProcessing, ToggleActive, consumeEventTrigger, route, create, complete,
        readEvent, saveEvent, createOrUpdateFails
  <2>11. i \in d
    BY <2>4, <2>10 DEF createEventTrigger
  <2> QED BY <1>1, <2>1, <2>10, <2>11
<1>2. CASE phase[m] # "unsent"
  <2>1. msgs'[m] = msgs[m]
    BY <1>2, LogStep
  <2>2. CASE phase'[m] = "queued" /\ phase[m] # "queued"
    <3>1. ASSUME NEW r, NEW d, publishEvent(r, d) PROVE FALSE
      BY <1>2, <2>2, <3>1, <1>t DEF publishEvent
    <3>2. ASSUME NEW w \in Workers, eachMessageReturns(w) PROVE FALSE
      BY <2>2, <3>2, <1>t DEF eachMessageReturns
    <3>3. ASSUME NEW n \in Msgs, AutoCommit(n) PROVE FALSE
      BY <2>2, <3>3, <1>t DEF AutoCommit
    <3>4. ASSUME NEW w \in Workers, NEW n \in Msgs, eachMessage(w, n) PROVE FALSE
      BY <2>2, <3>4, <1>t DEF eachMessage
    <3>5. ASSUME UNCHANGED phase PROVE FALSE
      BY <2>2, <3>5
    <3>6. ASSUME \/ \E d \in Requests : createEventTrigger(d)
                 \/ \E f \in Ids : PublishRetry(f)
          PROVE  FALSE
      BY <3>1, <3>5, <3>6 DEF createEventTrigger, PublishRetry
    <3> QED
      BY <3>2, <3>3, <3>4, <3>5, <3>6
      DEF Next, vars, MarkProcessing, ToggleActive, consumeEventTrigger, route, create, complete,
          readEvent, saveEvent, createOrUpdateFails
  <2>3. CASE phase'[m] = "queued" => phase[m] = "queued"
    <3>1. PICK w \in Workers :
            /\ job'[w] = m
            /\ \/ pc'[w] = "routing" /\ msgs[m].rid = NoEvent /\ i \in msgs[m].data
               \/ pc'[w] = "creating" /\ i \in todo'[w]
      BY <2>1, <2>3 DEF Waits
    <3>2. ~UNCHANGED <<pc[w], job[w], todo[w]>>
      BY <3>1 DEF Waits
    <3>3. ASSUME NEW n \in Msgs, eachMessage(w, n) PROVE FALSE
      BY <3>1, <3>3, <1>t DEF eachMessage, Waits
    <3>4. ASSUME \/ create(w) \/ readEvent(w) \/ saveEvent(w) \/ eachMessageReturns(w)
                 \/ createOrUpdateFails(w) \/ Crash(w)
          PROVE  FALSE
      BY <3>1, <3>4, <1>t
      DEF create, readEvent, saveEvent, eachMessageReturns, createOrUpdateFails, Crash
    <3>5. ASSUME route(w) PROVE FALSE
      <4>1. PICK applied \in SUBSET Data(w), threw \in BOOLEAN :
              /\ pc' = [pc EXCEPT ![w] = createOrUpdate(w, threw, Reported(threw, Data(w) \ applied))]
              /\ todo' = [todo EXCEPT ![w] = IF threw THEN Data(w)
                                              ELSE Reported(threw, Data(w) \ applied)]
              /\ pc[w] = "routing" /\ UNCHANGED job
        BY <3>5 DEF route
      <4>2. pc'[w] = "creating" /\ job[w] = m /\ i \in Data(w)
        BY <3>1, <4>1, <1>t, createOrUpdateType DEF Reported
      <4>3. Rid(w) = NoEvent
        BY <4>1, <4>2, <1>t DEF createOrUpdate
      <4> QED BY <4>1, <4>2, <4>3 DEF Waits, Rid, Data
    <3>6. complete(w)
      BY <3>2, <3>3, <3>4, <3>5, WorkerMoves DEF consumeEventTrigger
    <3>7. /\ pc[w] = "completing" /\ job[w] = m /\ i \in todo[w] /\ Rid(w) \in Ids
          /\ Rid(w) # NoEvent
      BY <3>1, <3>6, <1>t DEF complete, NoEvent, Ids
    <3>8. PICK e \in Ids : Rid(w) = e /\ events[e].status = "processing"
      BY <3>7, WorkerDrives DEF Attempted
    <3>9. i \in events[e].data
      BY <3>7, <3>8, <1>t DEF Part, RowInv, Data, Rid, NoEvent, Ids
    <3>10. InRow(e, i) /\ ~InRow(e, i)'
      BY <3>6, <3>8, <3>9, <1>t DEF complete, InRow, Live, Row
    <3> QED BY <3>6, <3>7, <3>10
  <2> QED BY <2>2, <2>3
<1>3. CASE phase[m] = "unsent" /\ phase'[m] = "unsent"
  <2>1. PICK w \in Workers : job'[w] = m /\ pc'[w] \in {"routing", "creating"}
    BY <1>3 DEF Waits
  <2>2. pc'[w] # "idle" => phase'[job'[w]] # "unsent"
    BY <2>1, WorkerStep DEF TypeInv, WorkerInv
  <2> QED BY <1>3, <2>1, <2>2
<1> QED BY <1>1, <1>2, <1>3

LEMMA InOnePlaceStep ==
  ASSUME TypeInv, OwnerInv, IdleInv, RowInv, Part, Whole, Owned, Attempted, InOnePlace,
         [Next]_vars, \A n \in Msgs : ~Rebalance(n), \A v \in Workers : ~Crash(v)
  PROVE  InOnePlace'
<1>t. /\ phase \in [Msgs -> Phases] /\ events \in [Ids -> Row] /\ pc \in [Workers -> Steps]
      /\ \A d \in Requests : d \subseteq Items
  BY RetryEventsAssumption DEF TypeInv, TypeOK
<1>1. requested \subseteq requested'
  BY DEF Next, vars, createEventTrigger, MarkProcessing, PublishRetry, ToggleActive, eachMessage,
         consumeEventTrigger, route, create, complete, readEvent, saveEvent, eachMessageReturns,
         createOrUpdateFails, AutoCommit, Crash, Rebalance
<1>2. ASSUME NEW d \in Requests, createEventTrigger(d)
      PROVE  d \intersect requested = {} /\ d \subseteq requested' /\ UNCHANGED events
  BY <1>2 DEF createEventTrigger, Whole
<1>3. ASSUME NEW w \in Workers, complete(w)
      PROVE  \A e \in Ids : events'[e].status \in {events[e].status, "completed"}
  BY <1>3, <1>t DEF complete, Row
<1>4. ASSUME NEW e \in Ids, NEW f \in Ids, NEW i \in Items, InRow(e, i)', InRow(f, i)'
      PROVE  e = f
  BY <1>4, RowBegins DEF InOnePlace, InRow
<1>5. ASSUME NEW e \in Ids, NEW m \in Msgs, NEW i \in Items, InRow(e, i)', Waits(m, i)'
      PROVE  FALSE
  <2>1. CASE InRow(e, i) /\ Waits(m, i)
    BY <2>1 DEF InOnePlace
  <2>2. CASE ~InRow(e, i) /\ Waits(m, i)
    BY <1>5, <2>2, RowBegins DEF InOnePlace
  <2>3. CASE InRow(e, i) /\ ~Waits(m, i)
    <3>1. CASE \E d \in Requests : createEventTrigger(d) /\ i \in d
      BY <2>3, <3>1, <1>2 DEF InOnePlace
    <3>2. ASSUME NEW f \in Ids, InRow(f, i), ~InRow(f, i)' PROVE FALSE
      BY <1>5, <2>3, <3>2 DEF InOnePlace
    <3> QED BY <1>5, <2>3, <3>1, <3>2, WaitBegins
  <2>4. CASE ~InRow(e, i) /\ ~Waits(m, i)
    <3>1. events[e].status = "none" /\ events'[e].status = "open"
      BY <1>5, <2>4, RowBegins
    <3>2. ~UNCHANGED events /\ \A w \in Workers : ~complete(w)
      BY <3>1, <1>3
    <3> QED BY <1>5, <2>4, <3>2, WaitBegins
  <2> QED BY <2>1, <2>2, <2>3, <2>4
<1>6. ASSUME NEW m \in Msgs, NEW n \in Msgs, NEW i \in Items, Waits(m, i)', Waits(n, i)'
      PROVE  m = n
  <2>1. CASE Waits(m, i) /\ Waits(n, i)
    BY <2>1 DEF InOnePlace
  <2>2. ASSUME NEW k \in Msgs, Waits(k, i), NEW l \in Msgs, Waits(l, i)', ~Waits(l, i)
        PROVE  FALSE
    <3>1. CASE \E d \in Requests : createEventTrigger(d) /\ i \in d
      BY <2>2, <3>1, <1>2 DEF InOnePlace
    <3>2. ASSUME NEW f \in Ids, InRow(f, i) PROVE FALSE
      BY <2>2, <3>2 DEF InOnePlace
    <3> QED BY <2>2, <3>1, <3>2, WaitBegins
  <2>3. CASE ~Waits(m, i) /\ ~Waits(n, i)
    <3>1. CASE UNCHANGED events
      <4>1. /\ phase[m] = "unsent" /\ phase'[m] = "queued"
            /\ phase[n] = "unsent" /\ phase'[n] = "queued"
            /\ \E d \in Requests : createEventTrigger(d)
        BY <1>6, <2>3, <3>1, WaitBegins DEF InRow
      <4> QED BY <4>1, <1>t DEF createEventTrigger, publishEvent
    <3>2. CASE ~UNCHANGED events
      <4>1. PICK w \in Workers : complete(w) /\ job[w] = m
        BY <1>6, <2>3, <3>2, WaitBegins
      <4>2. PICK v \in Workers : complete(v) /\ job[v] = n
        BY <1>6, <2>3, <3>2, WaitBegins
      <4>3. v = w
        BY <4>1, <4>2, <1>t DEF complete, Goto
      <4> QED BY <4>1, <4>2, <4>3
    <3> QED BY <3>1, <3>2
  <2> QED BY <1>6, <2>1, <2>2, <2>3
<1>7. ASSUME NEW e \in Ids, NEW i \in Items, InRow(e, i)' PROVE i \in requested'
  BY <1>1, <1>7, RowBegins DEF InOnePlace
<1>8. ASSUME NEW m \in Msgs, NEW i \in Items, Waits(m, i)' PROVE i \in requested'
  BY <1>1, <1>2, <1>8, WaitBegins DEF InOnePlace
<1> QED BY <1>4, <1>5, <1>6, <1>7, <1>8 DEF InOnePlace

LEMMA ForkStep ==
  /\ RequestsApart /\ TypeInv /\ BoundInv /\ OwnerInv /\ RowInv /\ IdleInv /\ AttemptInv
  /\ ForkInv /\ [Next]_vars
  => ForkInv'
<1> SUFFICES ASSUME RequestsApart, TypeInv, BoundInv, OwnerInv, RowInv, IdleInv, AttemptInv,
                    ForkInv, [Next]_vars
             PROVE  ForkInv'
  OBVIOUS
<1>1. Part' /\ Whole'
  BY PartStep, WholeStep DEF ForkInv
<1>2. ASSUME DeliveredOnce' PROVE InOnePlace'
  <2>1. /\ DeliveredOnce
        /\ \A m \in Msgs : ~Rebalance(m)
        /\ \A w \in Workers : ~Crash(w)
    BY <1>2, Faults DEF DeliveredOnce
  <2> QED BY <2>1, InOnePlaceStep DEF AttemptInv, ForkInv
<1> QED BY <1>1, <1>2 DEF ForkInv

\* NoForkedWork, while every message is delivered once and no item is handed over in
\* two requests: an item is in one live row, whatever fails in createOrUpdate.
THEOREM NotForked == RequestsApart => (Spec => [](DeliveredOnce => NoForkedWork))
<1> SUFFICES ASSUME RequestsApart PROVE Spec => [](DeliveredOnce => NoForkedWork)
  OBVIOUS
<1>1. Init => ForkInv
  <2> SUFFICES ASSUME Init PROVE ForkInv
    OBVIOUS
  <2>1. \A e \in Ids, i \in Items : ~InRow(e, i)
    BY DEF Init, InRow, Live, NoRow
  <2>2. \A m \in Msgs, i \in Items : ~Waits(m, i)
    BY DEF Init, Waits
  <2> QED BY <2>1, <2>2 DEF Init, ForkInv, Whole, Part, InOnePlace
<1>2. /\ TypeInv /\ BoundInv /\ OwnerInv /\ RowInv
      /\ IdleInv /\ AttemptInv /\ ForkInv /\ [Next]_vars
      => ForkInv'
  BY ForkStep
<1>3. TypeInv /\ ForkInv => (DeliveredOnce => NoForkedWork)
  <2> SUFFICES ASSUME TypeInv, InOnePlace PROVE NoForkedWork
    BY DEF ForkInv
  <2>1. \A e \in Ids : events[e].data \subseteq Items
    BY DEF TypeInv, TypeOK, Row
  <2> QED BY <2>1 DEF InOnePlace, InRow, NoForkedWork
<1> QED BY <1>1, <1>2, <1>3, LogInv, AttemptsInv, PTL DEF Spec

(***************************************************************************)
(* The table implements EventLifecycle, while every message is delivered   *)
(* once: each step of the pipeline is a step of one row, or of none.       *)
(***************************************************************************)
FreshInv == \A e \in Ids : events[e].status = "none" => events[e].retryCount = 0

LEMMA FreshStep == TypeInv /\ RowInv /\ FreshInv /\ [Next]_vars => FreshInv'
<1> SUFFICES ASSUME TypeInv, RowInv, FreshInv, [Next]_vars,
                    NEW e \in Ids, events'[e].status = "none"
             PROVE  events'[e].retryCount = 0
  BY DEF FreshInv
<1>t. events \in [Ids -> Row] /\ snap \in [Workers -> Row]
  BY DEF TypeInv, TypeOK
<1>1. events[e].status = "none"
  BY RowKept
<1>2. ASSUME NEW f \in Ids, MarkProcessing(f) PROVE events'[e] = events[e]
  BY <1>1, <1>2, <1>t DEF MarkProcessing
<1>3. ASSUME NEW w \in Workers, create(w) PROVE events'[e] = events[e]
  BY <1>3, <1>t DEF create
<1>4. ASSUME NEW w \in Workers, complete(w) PROVE events'[e] = events[e]
  BY <1>4, <1>t DEF complete, Row
<1>5. ASSUME NEW w \in Workers, saveEvent(w) PROVE events'[e] = events[e]
  <2>1. /\ snap[w] \in Row
        /\ events' = [events EXCEPT ![Rid(w)] = UpdatedRow(snap[w])]
    BY <1>5, <1>t DEF saveEvent
  <2>2. UpdatedRow(snap[w]).status # "none"
    BY <2>1, UpdatedRowFields DEF StatusAfterFailure
  <2> QED BY <2>1, <2>2, <1>t
<1>6. CASE UNCHANGED events
  BY <1>1, <1>6 DEF FreshInv
<1>7. events'[e] = events[e]
  BY <1>2, <1>3, <1>4, <1>5, <1>6
  DEF Next, vars, createEventTrigger, PublishRetry, ToggleActive, eachMessage,
      consumeEventTrigger, route, readEvent, eachMessageReturns,
      createOrUpdateFails, AutoCommit, Crash, Rebalance
<1> QED BY <1>1, <1>7 DEF FreshInv

LEMMA LifecycleStep ==
  ASSUME TypeInv, FreshInv, RetryBudgetKept, Owned, Attempted, [Next]_vars
  PROVE  [Lifecycle!Next]_Lifecycle!vars
<1> DEFINE status == [e \in Ids |-> events[e].status]
           count  == [e \in Ids |-> events[e].retryCount]
<1>t. /\ events \in [Ids -> Row] /\ snap \in [Workers -> Row]
      /\ \A w \in Workers : pc[w] \in {"completing", "reading", "saving"} => Rid(w) \in Ids
  BY DEF TypeInv, TypeOK, WorkerInv
<1>1. ASSUME NEW e \in Ids, MarkProcessing(e) PROVE Lifecycle!Attempt(e)
  <2>1. events[e].status = "open" /\ events[e].retryCount < MaxRetry
    BY <1>1 DEF MarkProcessing, RetryBudgetKept
  <2>2. /\ events'[e].status = "processing" /\ events'[e].retryCount = events[e].retryCount + 1
        /\ \A f \in Ids : f # e => events'[f] = events[f]
    BY <1>1, <1>t DEF MarkProcessing, Row
  <2>3. status' = [status EXCEPT ![e] = "processing"] /\ count' = [count EXCEPT ![e] = @ + 1]
    BY <2>2, <1>t DEF Row
  <2> QED BY <2>1, <2>3 DEF Lifecycle!Attempt, Lifecycle!Become
<1>2. ASSUME NEW w \in Workers, create(w) PROVE \E e \in Ids : Lifecycle!Record(e)
  <2>1. PICK e \in Ids :
          /\ events[e].status = "none"
          /\ events' = [events EXCEPT ![e] =
               [status |-> "open", retryCount |-> 0, data |-> todo[w], delay |-> FirstRetryDelay]]
    BY <1>2 DEF create
  <2>2. events[e].retryCount = 0
    BY <2>1 DEF FreshInv
  <2>3. status' = [status EXCEPT ![e] = "open"] /\ count' = count
    BY <2>1, <2>2, <1>t
  <2> QED BY <2>1, <2>3 DEF Lifecycle!Record, Lifecycle!Become
<1>3. ASSUME NEW w \in Workers, complete(w) PROVE \E e \in Ids : Lifecycle!Complete(e)
  <2>1. PICK e \in Ids : Rid(w) = e /\ events[e].status = "processing"
    BY <1>3, <1>t, WorkerDrives DEF complete, Attempted, NoEvent, Ids
  <2>2. events' = [events EXCEPT ![e] = [@ EXCEPT !.status = "completed"]]
    BY <1>3, <2>1 DEF complete
  <2>3. status' = [status EXCEPT ![e] = "completed"] /\ count' = count
    BY <2>2, <1>t DEF Row
  <2> QED BY <2>1, <2>3 DEF Lifecycle!Complete, Lifecycle!Become
<1>4. ASSUME NEW w \in Workers, saveEvent(w)
      PROVE  \E e \in Ids : Lifecycle!Bury(e) \/ Lifecycle!Reopen(e)
  <2>1. pc[w] = "saving" /\ Rid(w) \in Ids /\ Rid(w) # NoEvent
    BY <1>4, <1>t DEF saveEvent, NoEvent, Ids
  <2>2. PICK e \in Ids : Rid(w) = e /\ events[e].status = "processing" /\ snap[w] = events[e]
    BY <2>1, WorkerDrives DEF Attempted
  <2>3. events' = [events EXCEPT ![e] = UpdatedRow(events[e])]
    BY <1>4, <2>2 DEF saveEvent
  <2>4. /\ UpdatedRow(events[e]).retryCount = events[e].retryCount
        /\ UpdatedRow(events[e]).status = StatusAfterFailure(events[e].retryCount, MaxRetry)
    BY <1>t, UpdatedRowFields
  <2>5. status' = [status EXCEPT ![e] = StatusAfterFailure(count[e], MaxRetry)] /\ count' = count
    BY <2>3, <2>4, <1>t
  <2>6. CASE count[e] = MaxRetry
    BY <2>2, <2>5, <2>6 DEF StatusAfterFailure, Lifecycle!Bury, Lifecycle!Become
  <2>7. CASE count[e] # MaxRetry
    <3>1. events[e].retryCount \in Nat /\ events[e].retryCount =< MaxRetry
      BY <1>t DEF RetryBudgetKept, Row
    <3>2. count[e] < MaxRetry
      BY <2>7, <3>1, RetryEventsAssumption
    <3> QED BY <2>2, <2>5, <2>7, <3>2 DEF StatusAfterFailure, Lifecycle!Reopen, Lifecycle!Become
  <2> QED BY <2>6, <2>7
<1>5. ASSUME UNCHANGED events PROVE UNCHANGED Lifecycle!vars
  BY <1>5 DEF Lifecycle!vars
<1>6. ASSUME \/ UNCHANGED vars \/ ToggleActive
             \/ \E d \in Requests : createEventTrigger(d)
             \/ \E f \in Ids : PublishRetry(f)
             \/ \E w \in Workers, m \in Msgs : eachMessage(w, m)
             \/ \E w \in Workers : \/ route(w) \/ readEvent(w) \/ eachMessageReturns(w)
                                   \/ createOrUpdateFails(w) \/ Crash(w)
             \/ \E m \in Msgs : AutoCommit(m) \/ Rebalance(m)
      PROVE UNCHANGED Lifecycle!vars
  BY <1>5, <1>6
  DEF vars, ToggleActive, createEventTrigger, PublishRetry, eachMessage, route, readEvent,
      eachMessageReturns, createOrUpdateFails, Crash, AutoCommit, Rebalance
<1> HIDE DEF status, count
<1> QED
  BY <1>1, <1>2, <1>3, <1>4, <1>6 DEF Next, consumeEventTrigger, Lifecycle!Next

\* LifecycleSpec, while every message is delivered once: a row is attempted one at a
\* time and within its budget, reopened or buried by its own attempt, and completed and
\* dead are final.
THEOREM LifecycleImplemented == Spec /\ []DeliveredOnce => LifecycleSpec
<1>1. Init => Lifecycle!Init
  BY DEF Init, Lifecycle!Init, NoRow
<1>2. Spec => []FreshInv
  <2>1. Init => FreshInv
    BY DEF Init, FreshInv, NoRow
  <2>2. TypeInv /\ RowInv /\ FreshInv /\ [Next]_vars => FreshInv'
    BY FreshStep
  <2> QED BY <2>1, <2>2, LogInv, PTL DEF Spec
<1>3. TypeInv /\ FreshInv /\ RetryBudgetKept /\ AttemptInv /\ DeliveredOnce /\ [Next]_vars
      => [Lifecycle!Next]_Lifecycle!vars
  BY LifecycleStep DEF AttemptInv
<1> QED
  BY <1>1, <1>2, <1>3, LogInv, RetryBudget, AttemptsInv, PTL
  DEF Spec, LifecycleSpec, Lifecycle!Spec

(***************************************************************************)
(* The files of a folder.                                                  *)
(***************************************************************************)

\* The first file of a list is one of the list.
LEMMA FirstFile ==
  ASSUME NEW S \in SUBSET Files!Names, S # {}
  PROVE  Files!Min(S) \in S
<1>1. S \in SUBSET Nat
  BY DEF Files!Names
<1> QED BY <1>1, LeastNat DEF Files!Min

(***************************************************************************)
(* The types of the files' variables.                                      *)
(***************************************************************************)
FilesTypeInv ==
  /\ transport \in {"sftp", "s3"}
  /\ uploads \in 0..MaxUploads
  /\ inbox \in [Files!Names -> 0..uploads]
  /\ wip \in [Files!Names -> 0..uploads]
  /\ archived \in [Files!Names -> 0..uploads]
  /\ locks \in [Files!Uploads -> Nat]
  /\ filePc \in [FileWorkers -> Files!Steps]
  /\ \A w \in FileWorkers : filePc[w] # "idle" => file[w] \in Files!Names
  /\ DOMAIN file = FileWorkers
  /\ reused \in BOOLEAN

LEMMA FilesTypeInit == Files!Init => FilesTypeInv
<1> SUFFICES ASSUME Files!Init PROVE FilesTypeInv
  OBVIOUS
<1> USE DEF Files!Init, Files!Nothing
<1>1. transport \in {"sftp", "s3"} /\ MaxUploads \in Nat
  BY FilesAssumption DEF Files!ConstantsFit
<1>2. uploads \in 0..MaxUploads /\ 0 \in 0..uploads
  BY <1>1
<1>3. /\ inbox \in [Files!Names -> 0..uploads]
      /\ wip \in [Files!Names -> 0..uploads]
      /\ archived \in [Files!Names -> 0..uploads]
  BY <1>2
<1>4. /\ locks \in [Files!Uploads -> Nat]
      /\ filePc \in [FileWorkers -> Files!Steps]
      /\ \A w \in FileWorkers : filePc[w] = "idle"
      /\ DOMAIN file = FileWorkers /\ reused \in BOOLEAN
  BY DEF Files!Steps
<1> QED BY <1>1, <1>2, <1>3, <1>4 DEF FilesTypeInv

LEMMA FilesTypeStep == FilesTypeInv /\ [Files!Next]_filesPart => FilesTypeInv'
<1> SUFFICES ASSUME FilesTypeInv, [Files!Next]_filesPart PROVE FilesTypeInv'
  OBVIOUS
<1> USE FilesAssumption
    DEF FilesTypeInv, Files!ConstantsFit, Files!Goto, Files!store, Files!ghosts, Files!Nothing,
        Files!Steps
<1>1. ASSUME NEW w \in FileWorkers, Files!ListFiles(w) PROVE FilesTypeInv'
  <2>1. Files!Listed \in SUBSET Files!Names
    BY DEF Files!Listed
  <2>2. Files!Min(Files!Listed) \in Files!Names
    BY <1>1, <2>1, FirstFile DEF Files!ListFiles
  <2> QED BY <1>1, <2>2 DEF Files!ListFiles
<1>2. ASSUME NEW w \in FileWorkers, Files!NextFileNameForWip(w) PROVE FilesTypeInv'
  <2>1. Files!Takes(w)
    BY <1>2 DEF Files!NextFileNameForWip, Files!SftpNextFileNameForWip, Files!S3NextFileNameForWip
  <2>2. Files!OldWipFiles \in SUBSET Files!Names
    BY DEF Files!OldWipFiles
  <2>3. Files!Min(Files!OldWipFiles) \in Files!Names
    BY <2>1, <2>2, FirstFile DEF Files!Takes
  <2> QED BY <2>1, <2>3 DEF Files!Takes
<1>3. ASSUME NEW w \in FileWorkers, Files!SftpLock(w) PROVE FilesTypeInv'
  <2>1. file[w] \in Files!Names /\ inbox[file[w]] \in 0..uploads
    BY <1>3 DEF Files!SftpLock
  <2>2. CASE Files!CanRename(inbox, wip, file[w])
    <3>1. inbox[file[w]] \in Files!Uploads
      BY <2>1, <2>2 DEF Files!CanRename, Files!Uploads
    <3> QED BY <1>3, <2>1, <2>2, <3>1 DEF Files!SftpLock, Files!Renamed, Files!Lock
  <2>3. CASE ~Files!CanRename(inbox, wip, file[w])
    BY <1>3, <2>3 DEF Files!SftpLock
  <2> QED BY <2>2, <2>3
<1>4. ASSUME NEW w \in FileWorkers, Files!S3Copy(w) PROVE FilesTypeInv'
  <2>1. file[w] \in Files!Names /\ inbox[file[w]] \in 0..uploads
    BY <1>4 DEF Files!S3Copy
  <2>2. CASE inbox[file[w]] # 0
    <3>1. inbox[file[w]] \in Files!Uploads
      BY <2>1, <2>2 DEF Files!Uploads
    <3> QED BY <1>4, <2>1, <2>2, <3>1 DEF Files!S3Copy, Files!Lock
  <2>3. CASE inbox[file[w]] = 0
    BY <1>4, <2>3 DEF Files!S3Copy
  <2> QED BY <2>2, <2>3
<1>5. ASSUME NEW w \in FileWorkers, Files!S3Delete(w) PROVE FilesTypeInv'
  BY <1>5 DEF Files!S3Delete
<1>6. ASSUME NEW w \in FileWorkers, Files!SftpReadFile(w) \/ Files!S3ReadFile(w)
      PROVE  FilesTypeInv'
  BY <1>6 DEF Files!SftpReadFile, Files!S3ReadFile, Files!Reads
<1>7. ASSUME NEW w \in FileWorkers, Files!SftpArchive(w) PROVE FilesTypeInv'
  BY <1>7 DEF Files!SftpArchive
<1>8. ASSUME NEW w \in FileWorkers, Files!S3Archive(w) PROVE FilesTypeInv'
  BY <1>8 DEF Files!S3Archive
<1>9. ASSUME NEW w \in FileWorkers, Files!S3Remove(w) PROVE FilesTypeInv'
  BY <1>9 DEF Files!S3Remove
<1>10. ASSUME NEW n \in Files!Names, Files!Upload(n) PROVE FilesTypeInv'
  <2>1. uploads' = uploads + 1 /\ uploads' \in 0..MaxUploads
    BY <1>10 DEF Files!Upload
  <2>2. \A k \in 0..uploads : k \in 0..uploads'
    BY <2>1
  <2> QED BY <1>10, <2>1, <2>2 DEF Files!Upload
<1>11. ASSUME NEW u \in Files!Uploads, Files!GrowsOld(u) PROVE FilesTypeInv'
  BY <1>11 DEF Files!GrowsOld
<1>12. ASSUME NEW w \in FileWorkers, Files!Crash(w) PROVE FilesTypeInv'
  BY <1>12 DEF Files!Crash
<1>13. CASE UNCHANGED filesPart
  BY <1>13 DEF filesPart
<1> QED
  BY <1>1, <1>2, <1>3, <1>4, <1>5, <1>6, <1>7, <1>8, <1>9, <1>10, <1>11, <1>12, <1>13
  DEF Files!Next, Files!Work

(***************************************************************************)
(* The lock of the SFTP service. An upload is in the folder under one name *)
(* and has not been handed out while it is there; between list and rename  *)
(* a worker holds a name only, and the rename takes the upload away.       *)
(***************************************************************************)
LockInv ==
  transport = "sftp" =>
    /\ \A u \in Files!Uploads :
         /\ locks[u] =< 1
         /\ u > uploads \/ (\E n \in Files!Names : inbox[n] = u) => locks[u] = 0
    /\ \A n, k \in Files!Names : inbox[n] = inbox[k] /\ inbox[n] # 0 => n = k

LEMMA LockStep == FilesTypeInv /\ LockInv /\ [Files!Next]_filesPart => LockInv'
<1> SUFFICES ASSUME FilesTypeInv, LockInv, [Files!Next]_filesPart PROVE LockInv'
  OBVIOUS
<1> USE FilesAssumption
    DEF LockInv, FilesTypeInv, Files!ConstantsFit, Files!store, Files!ghosts, Files!Nothing
<1>1. ASSUME UNCHANGED <<transport, inbox, uploads, locks>> PROVE LockInv'
  BY <1>1
<1>2. ASSUME NEW w \in FileWorkers, Files!SftpLock(w) PROVE LockInv'
  <2> DEFINE n == file[w]
             u == inbox[n]
  <2>1. n \in Files!Names /\ u \in 0..uploads /\ transport = "sftp" /\ transport' = transport
    BY <1>2 DEF Files!SftpLock, Files!Steps
  <2>2. CASE Files!CanRename(inbox, wip, n)
    <3>1. /\ inbox' = [inbox EXCEPT ![n] = 0] /\ locks' = [locks EXCEPT ![u] = @ + 1]
          /\ uploads' = uploads
      BY <1>2, <2>2 DEF Files!SftpLock, Files!Renamed, Files!Lock
    <3>2. u \in Files!Uploads /\ u # 0
      BY <2>1, <2>2 DEF Files!CanRename, Files!Uploads
    <3>3. locks[u] = 0
      BY <2>1, <3>2
    <3>4. \A k \in Files!Names : inbox'[k] # u
      BY <2>1, <3>1, <3>2
    <3>5. \A k \in Files!Names : inbox'[k] \in {0, inbox[k]}
      BY <3>1
    <3>6. ~(u > uploads)
      BY <2>1
    <3> HIDE DEF n, u
    <3>7. \A v \in Files!Uploads : locks'[v] = IF v = u THEN 1 ELSE locks[v]
      BY <3>1, <3>3
    <3>8. \A v \in Files!Uploads : v # 0
      BY DEF Files!Uploads
    <3> QED BY <2>1, <3>1, <3>2, <3>4, <3>5, <3>6, <3>7, <3>8
  <2>3. CASE ~Files!CanRename(inbox, wip, n)
    BY <1>1, <1>2, <2>3 DEF Files!SftpLock
  <2> QED BY <2>2, <2>3
<1>3. ASSUME NEW n \in Files!Names, Files!Upload(n) PROVE LockInv'
  <2>1. /\ inbox' = [inbox EXCEPT ![n] = uploads + 1] /\ uploads' = uploads + 1
        /\ UNCHANGED <<transport, locks>>
    BY <1>3 DEF Files!Upload
  <2>2. \A k \in Files!Names : inbox[k] \in 0..uploads
    OBVIOUS
  <2> QED BY <2>1, <2>2 DEF Files!Uploads
<1>4. ASSUME NEW w \in FileWorkers, Files!S3Copy(w) \/ Files!S3Archive(w) \/ Files!S3ReadFile(w)
      PROVE  LockInv'
  BY <1>4 DEF Files!S3Copy, Files!S3Archive, Files!S3ReadFile, Files!Reads
<1>5. ASSUME NEW w \in FileWorkers, Files!S3Delete(w) PROVE LockInv'
  BY <1>5, \A k \in Files!Names : inbox'[k] \in {0, inbox[k]}
  DEF Files!S3Delete, Files!Uploads
<1>6. CASE \/ UNCHANGED filesPart
           \/ \E u \in Files!Uploads : Files!GrowsOld(u)
           \/ \E w \in FileWorkers :
                \/ Files!ListFiles(w) \/ Files!NextFileNameForWip(w) \/ Files!SftpReadFile(w)
                \/ Files!SftpArchive(w) \/ Files!S3Remove(w) \/ Files!Crash(w)
  BY <1>1, <1>6
  DEF filesPart, Files!GrowsOld, Files!ListFiles, Files!NextFileNameForWip, Files!Takes,
      Files!SftpNextFileNameForWip, Files!S3NextFileNameForWip, Files!SftpReadFile, Files!Reads,
      Files!SftpArchive, Files!S3Remove, Files!Crash
<1> QED BY <1>2, <1>3, <1>4, <1>5, <1>6 DEF Files!Next, Files!Work

(***************************************************************************)
(* No upload is lost. A rename moves it in one step. S3 copies and deletes *)
(* in two, so what a worker is about to delete must have its copy: under   *)
(* one name there is one upload, as long as no name has been used twice.   *)
(***************************************************************************)
KeepInv ==
  /\ transport = "s3" /\ ~reused =>
       /\ \A n \in Files!Names :
            /\ inbox[n] # 0 /\ wip[n] # 0 => inbox[n] = wip[n]
            /\ inbox[n] # 0 /\ archived[n] # 0 => inbox[n] = archived[n]
            /\ wip[n] # 0 /\ archived[n] # 0 => wip[n] = archived[n]
       /\ \A w \in FileWorkers :
            /\ filePc[w] = "unlisting" => wip[file[w]] # 0 \/ archived[file[w]] # 0
            /\ filePc[w] = "removing" => archived[file[w]] # 0
  /\ transport = "sftp" => \A w \in FileWorkers : filePc[w] \notin {"unlisting", "removing"}
  /\ Files!NothingLost

\* What keeps the uploads: every one that is under some name before the step is under
\* some name after it.
LEMMA StillThere ==
  ASSUME Files!NothingLost, transport' = transport, ~reused' => ~reused, uploads' = uploads,
         \A n \in Files!Names : \A u \in {inbox[n], wip[n], archived[n]} \ {0} :
           u \in {inbox'[n], wip'[n], archived'[n]} \/ (transport = "s3" /\ reused),
         uploads \in Nat
  PROVE  Files!NothingLost'
BY DEF Files!NothingLost

LEMMA KeepStep == FilesTypeInv /\ KeepInv /\ [Files!Next]_filesPart => KeepInv'
<1> SUFFICES ASSUME FilesTypeInv, KeepInv, [Files!Next]_filesPart PROVE KeepInv'
  OBVIOUS
<1> USE DEF Files!Goto, Files!store, Files!ghosts, Files!Nothing
<1>t. /\ transport \in {"sftp", "s3"} /\ uploads \in Nat /\ reused \in BOOLEAN
      /\ inbox \in [Files!Names -> 0..uploads] /\ wip \in [Files!Names -> 0..uploads]
      /\ archived \in [Files!Names -> 0..uploads]
      /\ filePc \in [FileWorkers -> Files!Steps] /\ DOMAIN file = FileWorkers
      /\ \A w \in FileWorkers : filePc[w] # "idle" => file[w] \in Files!Names
  BY DEF FilesTypeInv
<1>1. ASSUME UNCHANGED <<transport, inbox, wip, archived, uploads, reused>>,
             \A w \in FileWorkers : filePc'[w] \in {"unlisting", "removing"} =>
               filePc[w] = filePc'[w] /\ file'[w] = file[w]
      PROVE  KeepInv'
  BY <1>1, <1>t DEF KeepInv, Files!NothingLost
<1>2. ASSUME NEW w \in FileWorkers, Files!ListFiles(w) PROVE KeepInv'
  BY <1>1, <1>2, <1>t DEF Files!ListFiles
<1>3. ASSUME NEW w \in FileWorkers, Files!NextFileNameForWip(w) PROVE KeepInv'
  BY <1>1, <1>3, <1>t
  DEF Files!NextFileNameForWip, Files!SftpNextFileNameForWip, Files!S3NextFileNameForWip, Files!Takes
<1>4. ASSUME NEW w \in FileWorkers, Files!SftpReadFile(w) \/ Files!S3ReadFile(w) PROVE KeepInv'
  BY <1>1, <1>4, <1>t DEF Files!SftpReadFile, Files!S3ReadFile, Files!Reads
<1>5. ASSUME NEW w \in FileWorkers, Files!Crash(w) PROVE KeepInv'
  BY <1>1, <1>5, <1>t DEF Files!Crash
<1>6. ASSUME NEW u \in Files!Uploads, Files!GrowsOld(u) PROVE KeepInv'
  BY <1>1, <1>6, <1>t DEF Files!GrowsOld
<1>7. ASSUME NEW w \in FileWorkers, Files!SftpLock(w) PROVE KeepInv'
  <2>1. file[w] \in Files!Names /\ transport = "sftp" /\ UNCHANGED <<transport, uploads, reused, archived>>
    BY <1>7, <1>t DEF Files!SftpLock
  <2>2. Files!NothingLost'
    BY <1>7, <1>t, <2>1, StillThere DEF KeepInv, Files!SftpLock, Files!CanRename, Files!Renamed
  <2> QED BY <1>7, <1>t, <2>1, <2>2 DEF KeepInv, Files!SftpLock
<1>8. ASSUME NEW w \in FileWorkers, Files!SftpArchive(w) PROVE KeepInv'
  <2>1. file[w] \in Files!Names /\ transport = "sftp" /\ UNCHANGED <<transport, uploads, reused, inbox>>
    BY <1>8, <1>t DEF Files!SftpArchive
  <2>2. Files!NothingLost'
    BY <1>8, <1>t, <2>1, StillThere DEF KeepInv, Files!SftpArchive, Files!CanRename
  <2> QED BY <1>8, <1>t, <2>1, <2>2 DEF KeepInv, Files!SftpArchive
<1>9. ASSUME NEW w \in FileWorkers, Files!S3Copy(w) PROVE KeepInv'
  <2>1. /\ file[w] \in Files!Names /\ transport = "s3"
        /\ UNCHANGED <<transport, uploads, reused, archived, inbox, file>>
    BY <1>9, <1>t DEF Files!S3Copy
  <2>2. CASE inbox[file[w]] = 0
    BY <1>1, <1>9, <1>t, <2>1, <2>2 DEF Files!S3Copy
  <2>3. CASE inbox[file[w]] # 0
    <3>1. /\ wip' = [wip EXCEPT ![file[w]] = inbox[file[w]]]
          /\ filePc' = [filePc EXCEPT ![w] = "unlisting"]
      BY <1>9, <2>3 DEF Files!S3Copy
    <3>2. Files!NothingLost'
      BY <1>t, <2>1, <2>3, <3>1, StillThere DEF KeepInv
    <3> QED BY <1>t, <2>1, <2>3, <3>1, <3>2 DEF KeepInv
  <2> QED BY <2>2, <2>3
<1>10. ASSUME NEW w \in FileWorkers, Files!S3Delete(w) PROVE KeepInv'
  <2>1. /\ file[w] \in Files!Names /\ transport = "s3" /\ filePc[w] = "unlisting"
        /\ UNCHANGED <<transport, uploads, reused, archived, wip, file>>
        /\ inbox' = [inbox EXCEPT ![file[w]] = 0]
        /\ filePc' = [filePc EXCEPT ![w] = "reading"]
    BY <1>10, <1>t DEF Files!S3Delete, KeepInv
  <2>2. Files!NothingLost'
    BY <1>t, <2>1, StillThere DEF KeepInv
  <2> QED BY <1>t, <2>1, <2>2 DEF KeepInv
<1>11. ASSUME NEW w \in FileWorkers, Files!S3Archive(w) PROVE KeepInv'
  <2>1. /\ file[w] \in Files!Names /\ transport = "s3"
        /\ UNCHANGED <<transport, uploads, reused, inbox, wip, file>>
    BY <1>11, <1>t DEF Files!S3Archive
  <2>2. CASE wip[file[w]] = 0
    <3>1. archived' = archived
      BY <1>11, <1>t, <2>2 DEF Files!S3Archive
    <3> QED BY <1>1, <1>11, <1>t, <2>1, <2>2, <3>1 DEF Files!S3Archive
  <2>3. CASE wip[file[w]] # 0
    <3>1. /\ archived' = [archived EXCEPT ![file[w]] = wip[file[w]]]
          /\ filePc' = [filePc EXCEPT ![w] = "removing"]
      BY <1>11, <2>3 DEF Files!S3Archive
    <3>2. Files!NothingLost'
      BY <1>t, <2>1, <2>3, <3>1, StillThere DEF KeepInv
    <3> QED BY <1>t, <2>1, <2>3, <3>1, <3>2 DEF KeepInv
  <2> QED BY <2>2, <2>3
<1>12. ASSUME NEW w \in FileWorkers, Files!S3Remove(w) PROVE KeepInv'
  <2>1. /\ file[w] \in Files!Names /\ transport = "s3" /\ filePc[w] = "removing"
        /\ UNCHANGED <<transport, uploads, reused, archived, inbox, file>>
        /\ wip' = [wip EXCEPT ![file[w]] = 0]
        /\ filePc' = [filePc EXCEPT ![w] = "idle"]
    BY <1>12, <1>t DEF Files!S3Remove, KeepInv
  <2>2. Files!NothingLost'
    BY <1>t, <2>1, StillThere DEF KeepInv
  <2> QED BY <1>t, <2>1, <2>2 DEF KeepInv
<1>13. ASSUME NEW n \in Files!Names, Files!Upload(n) PROVE KeepInv'
  <2>1. /\ inbox[n] = 0 /\ uploads' = uploads + 1 /\ inbox' = [inbox EXCEPT ![n] = uploads + 1]
        /\ reused' = (reused \/ wip[n] # 0 \/ archived[n] # 0)
        /\ UNCHANGED <<transport, wip, archived, filePc, file>>
    BY <1>13 DEF Files!Upload
  <2>2. Files!NothingLost'
    <3> SUFFICES ASSUME transport = "sftp" \/ ~reused, NEW u \in 1..(uploads + 1)
                 PROVE  \E k \in Files!Names : u \in {inbox'[k], wip'[k], archived'[k]}
      BY <2>1, <1>t DEF Files!NothingLost
    <3>1. CASE u = uploads + 1
      BY <1>t, <2>1, <3>1
    <3>2. CASE u \in 1..uploads
      <4>1. PICK k \in Files!Names : u \in {inbox[k], wip[k], archived[k]}
        BY <3>2 DEF KeepInv, Files!NothingLost
      <4> QED BY <1>t, <2>1, <3>2, <4>1
    <3> QED BY <1>t, <3>1, <3>2
  <2> QED BY <1>t, <2>1, <2>2 DEF KeepInv
<1>14. CASE UNCHANGED filesPart
  BY <1>1, <1>14 DEF filesPart
<1> QED
  BY <1>2, <1>3, <1>4, <1>5, <1>6, <1>7, <1>8, <1>9, <1>10, <1>11, <1>12, <1>13, <1>14
  DEF Files!Next, Files!Work

(***************************************************************************)
(* The behaviours of the run: the files' part takes steps of FileTransfer, *)
(* the other parts leave it alone.                                         *)
(***************************************************************************)
FilesInv == FilesTypeInv /\ LockInv /\ KeepInv

LEMMA FilesInvariant == RecoverySpec => []FilesInv
<1>1. RecoveryInit => FilesInv
  <2> SUFFICES ASSUME Files!Init PROVE FilesInv
    BY DEF RecoveryInit
  <2>1. LockInv
    BY DEF LockInv, Files!Init, Files!Nothing
  <2>2. KeepInv
    BY DEF KeepInv, Files!Init, Files!Nothing, Files!NothingLost
  <2> QED BY <2>1, <2>2, FilesTypeInit DEF FilesInv
<1>2. FilesInv /\ [RecoveryNext]_<<part, vars, filesPart, gidsPart>> => FilesInv'
  <2>1. [RecoveryNext]_<<part, vars, filesPart, gidsPart>> => [Files!Next]_filesPart
    BY DEF RecoveryNext
  <2> QED BY <2>1, FilesTypeStep, LockStep, KeepStep DEF FilesInv
<1> QED BY <1>1, <1>2, PTL DEF RecoverySpec

\* The SFTP service hands an upload out at most once, although list and rename are two
\* calls and workers die between them.
THEOREM FilesLockedOnce == RecoverySpec => []LockedOnce
<1>1. FilesInv => LockedOnce
  BY DEF FilesInv, LockInv, LockedOnce, Files!LockedOnce
<1> QED BY <1>1, FilesInvariant, PTL

\* Every upload is in the folder, in work or in the archive, whatever workers crash or
\* take over; under S3 while no name is used twice.
THEOREM FilesNotLost == RecoverySpec => []NothingLost
<1>1. FilesInv => NothingLost
  BY DEF FilesInv, KeepInv, NothingLost
<1> QED BY <1>1, FilesInvariant, PTL

(***************************************************************************)
(* Global ids.                                                             *)
(***************************************************************************)
GidsTypeInv ==
  /\ kind \in Gids!Kinds /\ step \in {"idle", "fetching", "putting"} /\ hasNext \in BOOLEAN
  /\ listed \subseteq Gids!Ids /\ gidRows \subseteq Gids!Ids /\ asked \subseteq gidRows
  /\ gid \subseteq gidRows /\ got \subseteq Gids!Ids
  /\ cursor \in Nat /\ cursor =< MaxId
  /\ kind = "inventoryItem" => ~hasNext

\* What is done with an id that was asked for: behind the cursor it is fetched or has its
\* global id, and so is every id once no page is to come.
Behind(i) ==
  /\ step = "idle" => asked = {} /\ got = {} /\ cursor = 0 /\ ~hasNext
  /\ kind = "fulfillmentOrder" /\ step = "fetching" => got = {}
  /\ i \in asked /\ (i =< cursor \/ (step = "putting" /\ ~hasNext)) => i \in got \union gid

\* A page of what matches holds the first ids after the cursor, so it passes none, and it
\* is empty only if nothing is left.
LEMMA PagePassesNone ==
  ASSUME GidsTypeInv
  PROVE  LET page == Gids!getMetaInfo(cursor)
             ahead == {i \in Gids!Matching : i > cursor}
         IN  /\ page \subseteq ahead /\ ahead \subseteq Gids!Ids
             /\ ahead # {} => page # {}
             /\ page # {} => /\ Gids!Max(page) \in page
                             /\ \A i \in ahead : i =< Gids!Max(page) => i \in page
<1> DEFINE ahead == {i \in Gids!Matching : i > cursor}
           before(i) == {j \in ahead : j < i}
           page == {i \in ahead : Cardinality(before(i)) < PageLimit}
<1>t. /\ MaxId \in Nat /\ PageLimit \in Nat /\ PageLimit > 0 /\ cursor \in Nat
  BY GidsAssumption DEF Gids!ConstantsFit, GidsTypeInv
<1>1. Gids!getMetaInfo(cursor) = page
  BY Zenon DEF Gids!getMetaInfo, Gids!FirstOf, Gids!Cardinality, Cardinality
<1>2. ahead \in SUBSET (1..MaxId)
  BY DEF Gids!Matching, GidsTypeInv, Gids!Ids
<1> HIDE DEF ahead
<1>3. IsFiniteSet(1..MaxId) /\ IsFiniteSet(ahead) /\ ahead \subseteq Nat /\ ahead \subseteq Int
  <2>1. IsFiniteSet(1..MaxId)
    BY <1>t, FS_Interval
  <2>2. ahead \in SUBSET (1..MaxId) /\ ahead \subseteq Nat /\ ahead \subseteq Int
    BY <1>2, <1>t
  <2> QED BY <2>1, <2>2, FS_Subset
<1>7. \A i \in ahead : IsFiniteSet(before(i)) /\ Cardinality(before(i)) \in Nat
  BY <1>3, FS_Subset, FS_CardinalityType
<1>4. ASSUME ahead # {} PROVE page # {}
  <2>1. ahead \in SUBSET Nat
    BY <1>3
  <2>2. PICK least \in ahead : \A m \in ahead : least =< m
    BY <1>4, <2>1, LeastNat
  <2>3. before(least) = {}
    <3> SUFFICES ASSUME NEW j \in ahead, j < least PROVE FALSE
      OBVIOUS
    <3>1. j \in Nat /\ least \in Nat /\ least =< j
      BY <2>1, <2>2
    <3> QED BY <3>1
  <2>4. Cardinality(before(least)) = 0
    BY <2>3, FS_EmptySet
  <2>5. Cardinality(before(least)) < PageLimit
    BY <1>t, <2>4
  <2> QED BY <2>5
<1>8. page \subseteq ahead
  OBVIOUS
<1>5. ASSUME page # {} PROVE Gids!Max(page) \in page /\ \A i \in page : i =< Gids!Max(page)
  <2> HIDE DEF page
  <2>1. \A m \in page : m \in Nat /\ m =< MaxId
    BY <1>2, <1>8, <1>t
  <2> DEFINE S == {n \in Nat : \E m \in page : n = MaxId - m}
  <2>2. S \in SUBSET Nat
    OBVIOUS
  <2>3. \A m \in page : MaxId - m \in S
    BY <2>1, <1>t
  <2>4. \A n \in S : \E m \in page : n = MaxId - m
    OBVIOUS
  <2>5. S # {}
    BY <1>5, <2>3
  <2> HIDE DEF S
  <2>6. PICK n \in S : \A m \in S : n =< m
    BY <2>2, <2>5, LeastNat
  <2>7. PICK last \in page : n = MaxId - last
    BY <2>4
  <2>8. \A m \in page : last >= m
    BY <1>t, <2>1, <2>3, <2>6, <2>7
  <2>9. Gids!Max(page) \in page /\ \A m \in page : Gids!Max(page) >= m
    BY <2>8 DEF Gids!Max
  <2> QED BY <2>1, <2>9
<1>6. ASSUME NEW m \in page, NEW i \in ahead, i =< m PROVE i \in page
  <2>1. i \in Nat /\ m \in Nat /\ m \in ahead /\ Cardinality(before(m)) < PageLimit
    BY <1>3, <1>6
  <2>2. before(i) \in SUBSET before(m)
    <3>1. \A j \in ahead : j \in Nat
      BY <1>3
    <3> SUFFICES ASSUME NEW j \in ahead, j < i PROVE j < m
      BY Zenon
    <3> QED BY <1>6, <2>1, <3>1
  <2>3. Cardinality(before(i)) =< Cardinality(before(m))
    BY <1>7, <2>1, <2>2, FS_Subset
  <2>4. Cardinality(before(i)) < PageLimit
    BY <1>7, <1>t, <2>1, <2>3
  <2> QED BY <2>4
<1> QED BY <1>1, <1>2, <1>4, <1>5, <1>6 DEF ahead, Gids!Ids

LEMMA GidsTypeInit == Gids!Init => GidsTypeInv
<1> SUFFICES ASSUME Gids!Init PROVE GidsTypeInv
  OBVIOUS
<1>1. MaxId \in Nat
  BY GidsAssumption DEF Gids!ConstantsFit
<1>2. hasNext \in BOOLEAN
  BY Zenon DEF Gids!Init
<1> QED BY <1>1, <1>2 DEF Gids!Init, GidsTypeInv, Gids!Start

LEMMA GidsTypeStep == GidsTypeInv /\ [Gids!Next]_gidsPart => GidsTypeInv'
<1> SUFFICES ASSUME GidsTypeInv, [Gids!Next]_gidsPart PROVE GidsTypeInv'
  OBVIOUS
<1>7. Gids!Idle => /\ step' = "idle" /\ asked' = {} /\ got' = {} /\ cursor' = 0
                  /\ hasNext' \in BOOLEAN /\ ~hasNext'
  BY Zenon DEF Gids!Idle, Gids!Start
<1> USE DEF Gids!run
<1>0. MaxId \in Nat /\ Gids!Ids = 1..MaxId
  BY GidsAssumption DEF Gids!ConstantsFit, Gids!Ids
<1>1. CASE Gids!Begin
  BY <1>0, <1>1 DEF Gids!Begin, GidsTypeInv, Gids!WithoutGid
<1>2. CASE Gids!FetchVariants \/ Gids!FetchFulfillmentOrders
  <2> DEFINE page == Gids!getMetaInfo(cursor)
  <2>1. page \subseteq Gids!Ids /\ (page # {} => Gids!Max(page) \in page)
    BY PagePassesNone
  <2>2. page # {} => Gids!Max(page) \in Nat /\ Gids!Max(page) =< MaxId
    BY <1>0, <2>1
  <2>3. ASSUME Gids!Follows(page, cursor) PROVE page # {}
    BY <2>3, PagePassesNone DEF Gids!Follows
  <2>4. Gids!Follows(page, cursor) \in BOOLEAN
    BY DEF Gids!Follows
  <2> HIDE DEF page
  <2>5. CASE Gids!FetchVariants
    <3>1. \/ got' = got \union page /\ cursor' \in {cursor, Gids!Max(page)} /\ (cursor' = cursor \/ page # {})
             /\ UNCHANGED <<asked, hasNext>> /\ step' \in {step, "putting"}
          \/ Gids!Idle
      BY <2>3, <2>5 DEF Gids!FetchVariants, page
    <3>2. UNCHANGED <<kind, listed, gidRows, gid>>
      BY <2>5 DEF Gids!FetchVariants
    <3>3. CASE Gids!Idle
      BY <1>0, <1>7, <3>2, <3>3 DEF GidsTypeInv
    <3>4. CASE ~Gids!Idle
      <4>1. got' \subseteq Gids!Ids /\ cursor' \in Nat /\ cursor' =< MaxId
        BY <2>1, <2>2, <3>1, <3>4 DEF GidsTypeInv
      <4> QED BY <3>1, <3>2, <3>4, <4>1 DEF GidsTypeInv
    <3> QED BY <3>3, <3>4
  <2>6. CASE Gids!FetchFulfillmentOrders
    <3>1. \/ /\ page # {} /\ got' = page /\ cursor' = Gids!Max(page)
             /\ hasNext' = Gids!Follows(page, cursor) /\ step' = "putting" /\ UNCHANGED asked
          \/ Gids!Idle
      BY <2>6 DEF Gids!FetchFulfillmentOrders, page
    <3>2. kind = "fulfillmentOrder" /\ UNCHANGED <<kind, listed, gidRows, gid>>
      BY <2>6 DEF Gids!FetchFulfillmentOrders
    <3>3. CASE Gids!Idle
      BY <1>0, <1>7, <3>2, <3>3 DEF GidsTypeInv
    <3>4. CASE ~Gids!Idle
      <4>1. hasNext' \in BOOLEAN
        BY Zenon, <2>4, <3>1, <3>4
      <4>2. got' \subseteq Gids!Ids /\ cursor' \in Nat /\ cursor' =< MaxId
        BY <2>1, <2>2, <3>1, <3>4
      <4> QED BY <3>1, <3>2, <3>4, <4>1, <4>2 DEF GidsTypeInv
    <3> QED BY <3>3, <3>4
  <2> QED BY <1>2, <2>5, <2>6
<1>3. CASE Gids!Put
  <2>1. /\ UNCHANGED <<kind, listed, gidRows>> /\ gid' = gid \union (got \intersect gidRows)
        /\ \/ step' = "fetching" /\ got' = {} /\ UNCHANGED <<asked, cursor, hasNext>>
           \/ Gids!Idle
    BY <1>3 DEF Gids!Put
  <2>2. CASE Gids!Idle
    BY <1>0, <1>7, <2>1, <2>2 DEF GidsTypeInv
  <2>3. CASE ~Gids!Idle
    BY <2>1, <2>3 DEF GidsTypeInv
  <2> QED BY <2>2, <2>3
<1>4. ASSUME NEW i \in Gids!Ids, Gids!Change(i) \/ Gids!AddRow(i) PROVE GidsTypeInv'
  BY <1>4 DEF Gids!Change, Gids!AddRow, GidsTypeInv
<1>5. CASE Gids!BreakOff
  BY <1>0, <1>7, <1>5 DEF Gids!BreakOff, GidsTypeInv
<1>6. CASE UNCHANGED gidsPart
  BY <1>6 DEF gidsPart, GidsTypeInv
<1> QED BY <1>1, <1>2, <1>3, <1>4, <1>5, <1>6 DEF Gids!Next, Gids!Work

(***************************************************************************)
(* One run is enough for what the shop lists all along, and every lookup   *)
(* brings the run nearer to its end.                                       *)
(***************************************************************************)
LEMMA BehindInit == ASSUME NEW i, Gids!Init PROVE Behind(i)
BY DEF Gids!Init, Behind, Gids!Start

LEMMA BehindIdle == ASSUME NEW i, Gids!Idle PROVE Behind(i)'
BY DEF Gids!Idle, Behind, Gids!Start

LEMMA Matches ==
  ASSUME NEW i \in Gids!Ids \ Manual, i \in listed, i \in asked
  PROVE  i \in Gids!Matching
BY DEF Gids!Matching

\* What a lookup that sees i leaves undone of it: nothing, if it ends the run.
LEMMA BehindFetch ==
  ASSUME GidsTypeInv, NEW i \in Gids!Ids \ Manual, i \in listed, Behind(i),
         Gids!FetchVariants \/ Gids!FetchFulfillmentOrders
  PROVE  /\ Behind(i)'
         /\ Gids!Idle /\ i \in asked => i \in gid'
<1> DEFINE page == Gids!getMetaInfo(cursor)
           ahead == {j \in Gids!Matching : j > cursor}
<1>1. /\ page \subseteq ahead /\ (ahead # {} => page # {})
      /\ page # {} => /\ Gids!Max(page) \in page
                      /\ \A j \in ahead : j =< Gids!Max(page) => j \in page
  BY PagePassesNone
<1>2. i \in asked /\ ~(i =< cursor) => i \in ahead
  <2>1. i \in Nat /\ cursor \in Nat
    BY GidsAssumption DEF GidsTypeInv, Gids!Ids, Gids!ConstantsFit
  <2> QED BY <2>1, Matches
<1>3. ~Gids!Follows(page, cursor) => ahead \subseteq page
  BY DEF Gids!Follows
<1>4. /\ step = "fetching" /\ UNCHANGED <<kind, gid>>
  BY DEF Gids!FetchVariants, Gids!FetchFulfillmentOrders
<1>5. i \in asked /\ i =< cursor => i \in got \union gid
  BY DEF Behind
<1>f. Gids!Follows(page, cursor) => page # {}
  BY <1>1 DEF Gids!Follows
<1> HIDE DEF page, ahead
<1>6. CASE Gids!FetchVariants
  <2>1. kind = "inventoryItem" /\ ~hasNext
    BY <1>6 DEF Gids!FetchVariants, GidsTypeInv
  <2>2. CASE Gids!Follows(page, cursor)
    <3>1. /\ got' = got \union page /\ cursor' = Gids!Max(page)
          /\ UNCHANGED <<step, asked, hasNext>>
      BY <1>6, <2>2 DEF Gids!FetchVariants, page
    <3>2. i \in asked /\ i =< cursor' => i \in got' \union gid
      BY <1>1, <1>2, <1>5, <1>f, <2>2, <3>1
    <3> QED BY <1>4, <2>1, <3>1, <3>2 DEF Behind, Gids!Idle
  <2>3. CASE ~Gids!Follows(page, cursor)
    <3>1. i \in asked => i \in (got \union page) \union gid
      BY <1>2, <1>3, <1>5, <2>3
    <3>2. CASE got \union page = {}
      <4>1. Gids!Idle
        BY <1>6, <2>3, <3>2 DEF Gids!FetchVariants, page
      <4> QED BY <1>4, <3>1, <3>2, <4>1, BehindIdle
    <3>3. CASE got \union page # {}
      <4>1. /\ got' = got \union page /\ step' = "putting" /\ UNCHANGED <<asked, cursor, hasNext>>
        BY <1>6, <2>3, <3>3 DEF Gids!FetchVariants, page
      <4> QED BY <1>4, <2>1, <3>1, <4>1 DEF Behind, Gids!Idle
    <3> QED BY <3>2, <3>3
  <2> QED BY <2>2, <2>3
<1>7. CASE Gids!FetchFulfillmentOrders
  <2>1. kind = "fulfillmentOrder" /\ got = {}
    BY <1>7 DEF Gids!FetchFulfillmentOrders, Behind
  <2>2. CASE page = {}
    <3>1. Gids!Idle
      BY <1>7, <2>2 DEF Gids!FetchFulfillmentOrders, page
    <3> QED BY <1>1, <1>2, <1>4, <1>5, <2>1, <2>2, <3>1, BehindIdle
  <2>3. CASE page # {}
    <3>1. /\ got' = page /\ cursor' = Gids!Max(page) /\ step' = "putting" /\ asked' = asked
          /\ hasNext' = Gids!Follows(page, cursor)
      BY <1>7, <2>3 DEF Gids!FetchFulfillmentOrders, page
    <3>2. i \in asked /\ i =< cursor' => i \in got' \union gid
      BY <1>1, <1>2, <1>5, <2>1, <2>3, <3>1
    <3>3. i \in asked /\ ~hasNext' => i \in got' \union gid
      BY <1>2, <1>3, <1>5, <2>1, <3>1
    <3> QED BY <1>4, <2>1, <3>1, <3>2, <3>3 DEF Behind, Gids!Idle
  <2> QED BY <2>2, <2>3
<1> QED BY <1>6, <1>7

\* A run that asked for i, and was not interrupted, has ended.
Ends(i) == step # "idle" /\ step' = "idle" /\ breaks' = breaks /\ i \in asked

LEMMA BehindStep ==
  ASSUME GidsTypeInv, NEW i \in Gids!Ids \ Manual, i \in listed, Behind(i), [Gids!Next]_gidsPart
  PROVE  Behind(i)' /\ (Ends(i) => i \in gid')
<1> USE DEF Gids!run
<1>1. CASE Gids!Begin
  <2>1. cursor = 0 /\ i > 0 /\ ~(i =< 0)
    BY <1>1, GidsAssumption DEF Gids!Begin, Behind, Gids!Ids, Gids!ConstantsFit
  <2> QED BY <1>1, <2>1 DEF Gids!Begin, Behind, Ends
<1>2. CASE Gids!FetchVariants \/ Gids!FetchFulfillmentOrders
  <2>1. Behind(i)' /\ (Gids!Idle /\ i \in asked => i \in gid')
    BY <1>2, BehindFetch
  <2>2. step' = "idle" => Gids!Idle
    BY <1>2 DEF Gids!FetchVariants, Gids!FetchFulfillmentOrders
  <2> QED BY <2>1, <2>2 DEF Ends
<1>3. CASE Gids!Put
  <2>1. /\ UNCHANGED <<kind, listed, gidRows>> /\ gid' = gid \union (got \intersect gidRows)
        /\ IF hasNext THEN step' = "fetching" /\ got' = {} /\ UNCHANGED <<asked, cursor, hasNext>>
                      ELSE Gids!Idle
        /\ step = "putting"
    BY <1>3 DEF Gids!Put
  <2>2. i \in asked /\ i \in got \union gid => i \in gid'
    BY <2>1 DEF GidsTypeInv
  <2>3. CASE hasNext
    BY <2>1, <2>2, <2>3 DEF Behind, Ends
  <2>4. CASE ~hasNext
    <3>1. i \in asked => i \in gid'
      BY <2>1, <2>2, <2>4 DEF Behind
    <3> QED BY <2>1, <2>4, <3>1, BehindIdle DEF Ends
  <2> QED BY <2>3, <2>4
<1>4. ASSUME NEW j \in Gids!Ids, Gids!Change(j) \/ Gids!AddRow(j) PROVE Behind(i)' /\ ~Ends(i)
  BY <1>4 DEF Gids!Change, Gids!AddRow, Behind, Ends
<1>5. CASE Gids!BreakOff
  <2>1. breaks' # breaks
    BY <1>5, GidsAssumption DEF Gids!BreakOff, Gids!ConstantsFit
  <2> QED BY <1>5, <2>1, BehindIdle DEF Gids!BreakOff, Ends
<1>6. CASE UNCHANGED gidsPart
  BY <1>6 DEF gidsPart, Behind, Ends
<1> QED BY <1>1, <1>2, <1>3, <1>4, <1>5, <1>6 DEF Gids!Next, Gids!Work

LEMMA GidsInvariant == RecoverySpec => []GidsTypeInv
<1>1. RecoveryInit => GidsTypeInv
  BY GidsTypeInit DEF RecoveryInit
<1>2. GidsTypeInv /\ [RecoveryNext]_<<part, vars, filesPart, gidsPart>> => GidsTypeInv'
  <2>1. [RecoveryNext]_<<part, vars, filesPart, gidsPart>> => [Gids!Next]_gidsPart
    BY DEF RecoveryNext
  <2> QED BY <2>1, GidsTypeStep
<1> QED BY <1>1, <1>2, PTL DEF RecoverySpec

\* The lookup of global ids passes no row (getMetaInfo, shopify.service.ts:2778, :2862): an id
\* the shop lists all along has its global id once a run that asked for it ends without a
\* fault, whatever else the shop lists or drops and whatever rows are added under the paging.
THEOREM OneRunSuffices ==
  ASSUME NEW i \in Gids!Ids \ Manual
  PROVE  RecoverySpec /\ [](i \in listed) => [][Ends(i) => i \in gid']_gidsPart
<1>1. RecoveryInit => Behind(i)
  BY BehindInit DEF RecoveryInit
<1>2. [RecoveryNext]_<<part, vars, filesPart, gidsPart>> => [Gids!Next]_gidsPart
  BY DEF RecoveryNext
<1>3. GidsTypeInv /\ i \in listed /\ Behind(i) /\ [RecoveryNext]_<<part, vars, filesPart, gidsPart>>
      => Behind(i)' /\ [Ends(i) => i \in gid']_gidsPart
  BY <1>2, BehindStep
<1> QED BY <1>1, <1>3, GidsInvariant, PTL DEF RecoverySpec

\* The paging ends (shopify.service.ts:2778, :2862): every lookup moves the cursor on, which
\* stays within the ids, or is the last of its run.
Advances ==
  Gids!FetchVariants \/ Gids!FetchFulfillmentOrders =>
    cursor' > cursor \/ step' = "idle" \/ (step' = "putting" /\ ~hasNext')
THEOREM LookupsEnd ==
  RecoverySpec => [](cursor \in 0..MaxId) /\ [][Advances]_gidsPart
<1>1. GidsTypeInv => cursor \in 0..MaxId
  BY GidsAssumption DEF GidsTypeInv, Gids!ConstantsFit
<1>2. ASSUME GidsTypeInv PROVE Advances
  <2> DEFINE page == Gids!getMetaInfo(cursor)
  <2>1. page # {} => Gids!Max(page) > cursor
    BY <1>2, PagePassesNone
  <2>2. Gids!Follows(page, cursor) => page # {}
    BY <1>2, PagePassesNone DEF Gids!Follows
  <2> HIDE DEF page
  <2>3. CASE Gids!FetchVariants
    BY <1>2, <2>1, <2>2, <2>3 DEF Advances, GidsTypeInv, Gids!FetchVariants, Gids!Idle, page
  <2>4. CASE Gids!FetchFulfillmentOrders
    BY <2>1, <2>4 DEF Advances, Gids!FetchFulfillmentOrders, Gids!Idle, page
  <2> QED BY <2>3, <2>4 DEF Advances
<1>3. GidsTypeInv /\ [RecoveryNext]_<<part, vars, filesPart, gidsPart>> => [Advances]_gidsPart
  BY <1>2
<1> QED BY <1>1, <1>3, GidsInvariant, PTL DEF RecoverySpec
=================================================================================
