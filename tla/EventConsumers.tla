----------------------------- MODULE EventConsumers -----------------------------
(***************************************************************************)
(* The consumers of one process: EventTriggerService.onModuleInit starts   *)
(* one per topic, one after the other; ConsumerService keeps the newest of *)
(* each topic in a map, watches the heartbeats with one timer per consumer *)
(* and restarts what has gone silent; messages of SFTP connections are     *)
(* published again on a topic of their own.                                *)
(*                                                                         *)
(* kafkajs and the broker are external: a consumer connects while the      *)
(* broker is up and fails to while it is down, a running one may crash for *)
(* good, and one that has not connected yet ignores a disconnect.          *)
(***************************************************************************)
EXTENDS Naturals, Sequences, FiniteSets, FiniteSetsExt

CONSTANTS
  StartOrder,    \* the topics in the order of onModuleInit
  NoReroute,     \* topics whose eachMessage does not look at the connection
  Msgs,          \* messages other parts publish
  Published,     \* what they can be: [topic, sftp, cron]
  MaxConsumers,  \* bound, by topic: its consumers that are in use at a time
  MaxFaults      \* bound: faults, at most one of a kind

sftpDedicatedTopic == "sftp-messages"
Topics == {StartOrder[i] : i \in DOMAIN StartOrder}
Slots(t) == 1..MaxConsumers[t]   \* consumer objects of a topic
NoConsumer == 0

ASSUME EventConsumersAssumption ==
  /\ StartOrder \in Seq(Topics)
  /\ \A i, j \in DOMAIN StartOrder : StartOrder[i] = StartOrder[j] => i = j
  /\ sftpDedicatedTopic \in NoReroute
  /\ NoReroute \subseteq Topics
  /\ Published \subseteq [topic : Topics, sftp : BOOLEAN, cron : BOOLEAN]
  /\ MaxConsumers \in [Topics -> Nat \ {0}]
  /\ MaxFaults \in Nat

VARIABLES
  started,     \* topics whose consume has been called by onModuleInit
  startup,     \* "running", "complete", "failed" or "stopping"
  con,         \* con[t][c]: "connecting", "running" or "off"
  consumers,   \* the map: the consumer of each topic
  timers,      \* the intervals of startHeartbeatCheck, by their consumer
  heartbeat,   \* lastHeartbeat: "never", "fresh", or "stale" (3 minutes old)
  up,          \* the broker answers
  msg,         \* each message: topic, sftp connection, is_cron, and where it is:
               \* "unsent", "emitting", "queued", "handled" or "lost"
  faults       \* what has happened: "outage", "crash" or "manual" restart

vars == <<started, startup, con, consumers, timers, heartbeat, up, msg, faults>>
conVars == <<con, consumers, timers, heartbeat>>
initVars == <<started, startup>>

Init ==
  /\ started = 0
  /\ startup = "running"
  /\ con = [t \in Topics |-> [c \in Slots(t) |-> "off"]]
  /\ consumers = [t \in Topics |-> NoConsumer]
  /\ timers = [t \in Topics |-> {}]
  /\ heartbeat = [t \in Topics |-> "never"]
  /\ up = TRUE
  /\ \E sent \in [Msgs -> Published] :
       msg = [m \in Msgs |-> [topic |-> sent[m].topic, sftp |-> sent[m].sftp,
                              cron |-> sent[m].cron, at |-> "unsent"]]
  /\ faults = {}

Fault(kind) ==
  /\ kind \notin faults /\ Cardinality(faults) < MaxFaults
  /\ faults' = faults \union {kind}

----------------------------------------------------------------------------
(* ConsumerService.                                                        *)

\* A consumer object nobody refers to any more can stand for the next one.
Free(t) == {c \in Slots(t) : /\ con[t][c] = "off"
                          /\ c \notin timers[t]
                          /\ c # consumers[t]}

\* consume up to its first await: a new consumer becomes the topic's entry.
\* `others` is con[t] as the caller leaves it.
consume(t, others) ==
  /\ Free(t) # {}
  /\ LET new == Min(Free(t)) IN
       /\ con' = [con EXCEPT ![t] = [others EXCEPT ![new] = "connecting"]]
       /\ consumers' = [consumers EXCEPT ![t] = new]

AwaitedByStartup(t, c) ==
  startup = "running" /\ started > 0 /\ t = StartOrder[started] /\ c = consumers[t]

startHeartbeatCheck(t, c) == timers' = [timers EXCEPT ![t] = @ \union {c}]

\* connect, subscribe and run went through.
ConsumerRuns(t, c) ==
  /\ con[t][c] = "connecting" /\ up
  /\ con' = [con EXCEPT ![t][c] = "running"]
  /\ startHeartbeatCheck(t, c)
  /\ UNCHANGED <<initVars, consumers, heartbeat, up, msg, faults>>

\* Variant: a topic that cannot be consumed does not keep the others waiting.
KeepsStarting(t, c) == startup' = startup

\* The catch of onModuleInit: no later topic is consumed.
StartupFails(t, c) ==
  startup' = IF AwaitedByStartup(t, c) THEN "failed" ELSE startup

\* One of them throws: the entry stays, without a timer.
ConsumeThrows(t, c) ==
  /\ con[t][c] = "connecting" /\ ~up
  /\ con' = [con EXCEPT ![t][c] = "off"]
  /\ StartupFails(t, c)
  /\ UNCHANGED <<started, consumers, timers, heartbeat, up, msg, faults>>

\* instrumentEvents: only the heartbeat of the topic's entry finds its topic.
Heartbeat(t) ==
  /\ consumers[t] # NoConsumer /\ con[t][consumers[t]] = "running" /\ up
  /\ heartbeat[t] # "fresh"
  /\ heartbeat' = [heartbeat EXCEPT ![t] = "fresh"]
  /\ UNCHANGED <<initVars, con, consumers, timers, up, msg, faults>>

\* HEARTBEAT_CHECK_IN_MS without a heartbeat.
GoesStale(t) ==
  /\ heartbeat[t] = "fresh"
  /\ ~(con[t][consumers[t]] = "running" /\ up)
  /\ heartbeat' = [heartbeat EXCEPT ![t] = "stale"]
  /\ UNCHANGED <<initVars, con, consumers, timers, up, msg, faults>>

\* Variant: the restart does not disconnect.
NotDisconnected(t, c) == con[t]

Disconnected(t, c) ==
  IF con[t][c] = "running" THEN [con[t] EXCEPT ![c] = "off"] ELSE con[t]

\* restartConsumer(c): disconnect, delete the topic's entry (whichever consumer
\* it is by then) and consume again. A disconnect that throws changes nothing.
\* What happens during the disconnect is overwritten by the rest, so that the
\* call is one step up to the connect of the new consumer.
restartConsumer(t, c) == consume(t, Disconnected(t, c))

\* The interval of consumer c finds the topic's heartbeat stale.
HeartbeatCheck(t, c) ==
  /\ c \in timers[t] /\ heartbeat[t] = "stale"
  /\ restartConsumer(t, c)
  /\ UNCHANGED <<initVars, timers, heartbeat, up, msg, faults>>

findAndRestartConsumer(t) ==
  /\ consumers[t] # NoConsumer
  /\ Fault("manual")
  /\ restartConsumer(t, consumers[t])
  /\ UNCHANGED <<initVars, timers, heartbeat, up, msg>>

\* onApplicationShutdown disconnects the entries of the map, one by one.
onApplicationShutdown ==
  /\ startup \in {"complete", "failed"}
  /\ startup' = "stopping"
  /\ UNCHANGED <<started, conVars, up, msg, faults>>

ShutDownConsumer(t) ==
  /\ startup = "stopping"
  /\ consumers[t] # NoConsumer /\ con[t][consumers[t]] = "running"
  /\ con' = [con EXCEPT ![t][consumers[t]] = "off"]
  /\ UNCHANGED <<initVars, consumers, timers, heartbeat, up, msg, faults>>

----------------------------------------------------------------------------
(* EventTriggerService.                                                    *)

\* onModuleInit awaits each consume before the next.
StartNext ==
  /\ startup = "running" /\ started < Len(StartOrder)
  /\ started > 0 => LET t == StartOrder[started] IN con[t][consumers[t]] # "connecting"
  /\ started' = started + 1
  /\ LET t == StartOrder[started + 1] IN consume(t, con[t])
  /\ UNCHANGED <<startup, timers, heartbeat, up, msg, faults>>

StartedAll ==
  /\ startup = "running" /\ started = Len(StartOrder)
  /\ LET t == StartOrder[started] IN con[t][consumers[t]] # "connecting"
  /\ startup' = "complete"
  /\ UNCHANGED <<started, conVars, up, msg, faults>>

\* createEventTrigger publishes and returns.
createEventTrigger(m) ==
  /\ msg[m].at = "unsent"
  /\ msg' = [msg EXCEPT ![m].at = "emitting"]
  /\ UNCHANGED <<initVars, conVars, up, faults>>

\* publishEvent: the answer of an emit, after publishEvent has returned.
Emitted(m) ==
  /\ msg[m].at = "emitting"
  /\ msg' = [msg EXCEPT ![m].at = IF up THEN "queued" ELSE "lost"]
  /\ UNCHANGED <<initVars, conVars, up, faults>>

\* Variant: a message on the dedicated topic is looked at again.
LooksAgain(m, found) == ~msg[m].cron /\ found /\ msg[m].sftp

\* reRouteMessageToDedicatedTopic; `found`: the connection could be read.
reRoute(m, found) ==
  /\ msg[m].topic \notin NoReroute /\ ~msg[m].cron
  /\ found /\ msg[m].sftp

eachMessage(m) ==
  /\ msg[m].at = "queued" /\ up
  /\ \E c \in Slots(msg[m].topic) : con[msg[m].topic][c] = "running"
  /\ \E found \in BOOLEAN :
       msg' = [msg EXCEPT ![m] =
         IF reRoute(m, found)
         THEN [@ EXCEPT !.topic = sftpDedicatedTopic, !.at = "emitting"]
         ELSE [@ EXCEPT !.at = "handled"]]
  /\ UNCHANGED <<initVars, conVars, up, faults>>

----------------------------------------------------------------------------
(* The broker and kafkajs.                                                 *)

BrokerGoes  == up /\ Fault("outage") /\ up' = FALSE /\ UNCHANGED <<initVars, conVars, msg>>
BrokerComes == ~up /\ up' = TRUE /\ UNCHANGED <<initVars, conVars, msg, faults>>

ConsumerCrashes(t, c) ==
  /\ con[t][c] = "running"
  /\ Fault("crash")
  /\ con' = [con EXCEPT ![t][c] = "off"]
  /\ UNCHANGED <<initVars, consumers, timers, heartbeat, up, msg>>

Consumer(t, c) ==
  \/ ConsumerRuns(t, c) \/ ConsumeThrows(t, c)
  \/ HeartbeatCheck(t, c) \/ ConsumerCrashes(t, c)

Next ==
  \/ StartNext \/ StartedAll \/ onApplicationShutdown
  \/ BrokerGoes \/ BrokerComes
  \/ \E t \in Topics :
       \/ Heartbeat(t) \/ GoesStale(t) \/ findAndRestartConsumer(t) \/ ShutDownConsumer(t)
       \/ \E c \in Slots(t) : Consumer(t, c)
  \/ \E m \in Msgs : createEventTrigger(m) \/ Emitted(m) \/ eachMessage(m)

Spec == Init /\ [][Next]_vars

\* Timers fire, promises settle, an outage ends, a fetched message is handled.
\* Nobody has to crash, to shut down or to restart a consumer by hand.
Fairness ==
  /\ WF_vars(StartNext) /\ WF_vars(StartedAll) /\ WF_vars(BrokerComes)
  /\ \A t \in Topics :
       /\ WF_vars(Heartbeat(t)) /\ WF_vars(GoesStale(t))
       /\ \A c \in Slots(t) :
            /\ WF_vars(ConsumerRuns(t, c) \/ ConsumeThrows(t, c))
            /\ WF_vars(HeartbeatCheck(t, c))
  /\ \A m \in Msgs : WF_vars(Emitted(m)) /\ WF_vars(eachMessage(m))

FairSpec == Spec /\ Fairness

----------------------------------------------------------------------------
(* Properties.                                                             *)

\* A consumer that runs outside the map is not disconnected at shutdown and its
\* heartbeats count for no topic (consumer.service.ts:43, :68). It always has a
\* timer of its own, which disconnects it at the next silence, and it takes
\* overlapping restarts: the topic has a second timer, or somebody restarted it by
\* hand while it was connecting. Until then what runs is what the map says.
OrphansAreWatched ==
  \A t \in Topics : \A c \in Slots(t) :
    con[t][c] = "running" /\ c # consumers[t] =>
      /\ c \in timers[t]
      /\ Cardinality(timers[t]) >= 2 \/ "manual" \in faults

\* The timers see the topic: one is running, and a heartbeat has been recorded.
Watched(t) == timers[t] # {} /\ heartbeat[t] # "never"

\* No room for another consumer within the bound, or nobody is to be kept alive.
Excused(t) == Free(t) = {} \/ startup = "stopping"

\* A message is on its way: once the timers see its topic and the dedicated one,
\* it is handled, whatever outages, crashes and overlapping restarts happen, or
\* its emit was rejected (event-bus.service.ts:36 only logs that).
MessagesHandled ==
  \A m \in Msgs :
    /\ msg[m].at = "queued"
    /\ \A t \in {msg[m].topic, sftpDedicatedTopic} : Watched(t)
    ~> \/ msg[m].at \in {"handled", "lost"}
       \/ \E t \in {msg[m].topic, sftpDedicatedTopic} : Excused(t)

\* onModuleInit awaits the topics one by one inside one try: when it stops early,
\* every topic it reached but the last is watched, and no later topic has a
\* consumer or can be given one by findAndRestartConsumer.
StartsInOrder ==
  \A i \in DOMAIN StartOrder :
    /\ i < started => timers[StartOrder[i]] # {}
    /\ i > started => consumers[StartOrder[i]] = NoConsumer
=================================================================================
