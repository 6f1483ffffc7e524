-------------------------- MODULE EventConsumersProofs --------------------------
(***************************************************************************)
(* Proofs about the consumers of a process, for any number of topics,      *)
(* consumers, messages and faults.                                         *)
(***************************************************************************)
EXTENDS MCEventConsumers, CommonTheorems

LEMMA Starts ==
  /\ DOMAIN StartOrder = 1..Len(StartOrder) /\ Len(StartOrder) \in Nat
  /\ \A i \in DOMAIN StartOrder : StartOrder[i] \in Topics
  /\ \A i, j \in DOMAIN StartOrder : StartOrder[i] = StartOrder[j] => i = j
  /\ \A t \in Topics : Slots(t) \subseteq Nat /\ NoConsumer \notin Slots(t)
BY EventConsumersAssumption DEF Topics, Slots, NoConsumer

----------------------------------------------------------------------------
TypeInv ==
  /\ started \in 0..Len(StartOrder)
  /\ startup \in {"running", "complete", "failed", "stopping"}
  /\ DOMAIN con = Topics
  /\ \A t \in Topics : con[t] \in [Slots(t) -> {"connecting", "running", "off"}]
  /\ DOMAIN consumers = Topics
  /\ \A t \in Topics : consumers[t] \in Slots(t) \cup {NoConsumer}
  /\ DOMAIN timers = Topics
  /\ \A t \in Topics : timers[t] \subseteq Slots(t)

\* A consumer has its timer from the moment it runs, and never before.
Timed ==
  \A t \in Topics : \A c \in Slots(t) :
    /\ con[t][c] = "running" => c \in timers[t]
    /\ con[t][c] = "connecting" => c \notin timers[t]

\* What onModuleInit has left behind at each topic: nothing at those it has not
\* reached, a timer at those it has passed, and at the one it stands at a consumer that
\* connects or a timer.
Passed(i) == timers[StartOrder[i]] # {}
Waits(i) ==
  /\ consumers[StartOrder[i]] # NoConsumer
  /\ con[StartOrder[i]][consumers[StartOrder[i]]] = "connecting"
Untouched(i) ==
  /\ consumers[StartOrder[i]] = NoConsumer
  /\ timers[StartOrder[i]] = {}
  /\ \A c \in Slots(StartOrder[i]) : con[StartOrder[i]][c] = "off"
InOrder ==
  \A i \in DOMAIN StartOrder :
    /\ i < started => Passed(i)
    /\ i = started /\ startup = "running" => Waits(i) \/ Passed(i)
    /\ i > started => Untouched(i)

\* A consumer the map has lost, and that still runs or may yet run, has lost it to the
\* timer of another.
LostToAnother ==
  "manual" \notin faults =>
    \A t \in Topics : \A c \in Slots(t) :
      c # consumers[t] /\ con[t][c] # "off" => \E d \in timers[t] : d # c

ConsumersInv == TypeInv /\ Timed /\ InOrder /\ LostToAnother

LEMMA ConsumersInit == Init => ConsumersInv
<1> SUFFICES ASSUME Init PROVE ConsumersInv
  OBVIOUS
<1>1. TypeInv
  BY Starts DEF Init, TypeInv
<1>2. Timed /\ LostToAnother
  BY DEF Init, Timed, LostToAnother
<1>3. InOrder
  BY Starts DEF Init, InOrder, Untouched
<1> QED BY <1>1, <1>2, <1>3 DEF ConsumersInv

\* The step of consume: a consumer that nobody refers to becomes the entry, and connects.
LEMMA ConsumeIs ==
  ASSUME TypeInv, NEW t \in Topics, NEW others, consume(t, others),
         others \in [Slots(t) -> {"connecting", "running", "off"}]
  PROVE  \E new \in Slots(t) :
           /\ new \notin timers[t] /\ new # consumers[t] /\ con[t][new] = "off"
           /\ con' = [con EXCEPT ![t] = [others EXCEPT ![new] = "connecting"]]
           /\ consumers' = [consumers EXCEPT ![t] = new]
           /\ con'[t][new] = "connecting" /\ consumers'[t] = new
           /\ \A c \in Slots(t) : c # new => con'[t][c] = others[c]
           /\ \A s \in Topics : s # t => con'[s] = con[s] /\ consumers'[s] = consumers[s]
<1>1. Free(t) \subseteq Nat /\ Free(t) # {}
  BY Starts DEF consume, Free
<1>2. \E n \in Free(t) : \A m \in Free(t) : n =< m
  BY <1>1, LeastNat
<1>3. Min(Free(t)) \in Free(t)
  BY <1>2 DEF Min
<1>4. PICK new \in Slots(t) : new = Min(Free(t))
  BY <1>3 DEF Free
<1>5. new \notin timers[t] /\ new # consumers[t] /\ con[t][new] = "off"
  BY <1>3, <1>4 DEF Free
<1>6. /\ con' = [con EXCEPT ![t] = [others EXCEPT ![new] = "connecting"]]
      /\ consumers' = [consumers EXCEPT ![t] = new]
  BY <1>4 DEF consume
<1>7. con'[t] = [others EXCEPT ![new] = "connecting"] /\ consumers'[t] = new
  BY <1>6 DEF TypeInv
<1>8. \A s \in Topics : s # t => con'[s] = con[s] /\ consumers'[s] = consumers[s]
  BY <1>6 DEF TypeInv
<1>9. con'[t][new] = "connecting" /\ \A c \in Slots(t) : c # new => con'[t][c] = others[c]
  <2> DEFINE f == [others EXCEPT ![new] = "connecting"]
  <2>1. f[new] = "connecting" /\ \A c \in Slots(t) : c # new => f[c] = others[c]
    OBVIOUS
  <2> QED BY <1>7, <2>1
<1>10. new \notin timers[t] /\ new # consumers[t]
  BY <1>5
<1>11. con[t][new] = "off" /\ consumers'[t] = new
  BY <1>5, <1>7
<1> QED BY <1>6, <1>8, <1>9, <1>10, <1>11

\* restartConsumer(t, c), by the heartbeat check of c or by hand.
LEMMA RestartKeeps ==
  ASSUME ConsumersInv, NEW t \in Topics, NEW c \in Slots(t), restartConsumer(t, c),
         UNCHANGED <<initVars, timers>>,
         \/ c \in timers[t] /\ faults' = faults
         \/ c = consumers[t] /\ "manual" \in faults'
  PROVE  ConsumersInv'
<1>t. TypeInv
  BY DEF ConsumersInv
<1> DEFINE others == Disconnected(t, c)
<1>1. /\ others \in [Slots(t) -> {"connecting", "running", "off"}]
      /\ \A d \in Slots(t) : /\ others[d] # "off" => others[d] = con[t][d]
                             /\ d = c => others[d] # "running"
  BY <1>t DEF TypeInv, Disconnected
<1>2. consume(t, others)
  BY DEF restartConsumer
<1> HIDE DEF others
<1>3. PICK new \in Slots(t) :
        /\ new \notin timers[t] /\ new # consumers[t] /\ con[t][new] = "off"
        /\ con' = [con EXCEPT ![t] = [others EXCEPT ![new] = "connecting"]]
        /\ consumers' = [consumers EXCEPT ![t] = new]
        /\ con'[t][new] = "connecting" /\ consumers'[t] = new
        /\ \A d \in Slots(t) : d # new => con'[t][d] = others[d]
        /\ \A s \in Topics : s # t => con'[s] = con[s] /\ consumers'[s] = consumers[s]
  BY <1>t, <1>1, <1>2, ConsumeIs
<1>4. started' = started /\ startup' = startup /\ timers' = timers
  BY DEF initVars
<1>5. TypeInv'
  <2>1. [others EXCEPT ![new] = "connecting"] \in [Slots(t) -> {"connecting", "running", "off"}]
    BY <1>1
  <2>2. con'[t] = [others EXCEPT ![new] = "connecting"] /\ DOMAIN con' = Topics
    BY <1>3, <1>t DEF TypeInv
  <2>3. DOMAIN consumers' = Topics
    BY <1>3, <1>t DEF TypeInv
  <2> QED BY <1>t, <1>3, <1>4, <2>1, <2>2, <2>3 DEF TypeInv
<1>6. Timed'
  <2> SUFFICES ASSUME NEW s \in Topics, NEW d \in Slots(s)
               PROVE  /\ con'[s][d] = "running" => d \in timers[s]
                      /\ con'[s][d] = "connecting" => d \notin timers[s]
    BY <1>4 DEF Timed
  <2>1. \/ con'[s][d] = con[s][d]
        \/ con'[s][d] = "off"
        \/ s = t /\ d = new /\ con'[s][d] = "connecting"
    BY <1>1, <1>3
  <2> QED BY <1>3, <2>1 DEF ConsumersInv, Timed
<1>7. InOrder'
  <2> SUFFICES ASSUME NEW i \in DOMAIN StartOrder
               PROVE  /\ i < started => Passed(i)'
                      /\ i = started /\ startup = "running" => Waits(i)' \/ Passed(i)'
                      /\ i > started => Untouched(i)'
    BY <1>4 DEF InOrder
  <2>1. CASE StartOrder[i] = t
    <3>1. Waits(i)'
      BY <2>1, <1>3, Starts DEF Waits
    <3>2. ~Untouched(i)
      BY <2>1, <1>3, Starts DEF Untouched
    <3> QED BY <1>4, <3>1, <3>2 DEF ConsumersInv, InOrder, Passed
  <2>2. CASE StartOrder[i] # t
    BY <2>2, <1>3, <1>4, Starts DEF ConsumersInv, InOrder, Passed, Waits, Untouched
  <2> QED BY <2>1, <2>2
<1>8. LostToAnother'
  <2> SUFFICES ASSUME "manual" \notin faults', NEW s \in Topics, NEW d \in Slots(s),
                      d # consumers'[s], con'[s][d] # "off"
               PROVE  \E e \in timers[s] : e # d
    BY <1>4 DEF LostToAnother
  <2>1. c \in timers[t] /\ "manual" \notin faults
    OBVIOUS
  <2>2. CASE s # t
    BY <2>1, <2>2, <1>3 DEF ConsumersInv, LostToAnother
  <2>3. CASE s = t
    <3>1. con'[t][d] = con[t][d] /\ (d = c => con[t][d] = "connecting")
      <4>1. d # new /\ con'[t][d] = others[d]
        BY <2>3, <1>3
      <4> QED BY <4>1, <2>3, <1>1, <1>t DEF TypeInv
    <3>2. d # c
      BY <2>1, <2>3, <3>1 DEF ConsumersInv, Timed
    <3> QED BY <2>1, <2>3, <3>2
  <2> QED BY <2>2, <2>3
<1> QED BY <1>5, <1>6, <1>7, <1>8 DEF ConsumersInv

\* A step that at most switches consumers off, and never the one onModuleInit awaits as
\* long as it goes on, keeps the invariant.
LEMMA QuietKeeps ==
  ASSUME ConsumersInv, started' = started, consumers' = consumers, timers' = timers,
         startup' \in {"running", "complete", "failed", "stopping"},
         startup' = "running" => startup = "running",
         "manual" \in faults => "manual" \in faults',
         DOMAIN con' = Topics,
         \A t \in Topics : con'[t] \in [Slots(t) -> {"connecting", "running", "off"}],
         \A t \in Topics : \A c \in Slots(t) : con'[t][c] = con[t][c] \/ con'[t][c] = "off",
         startup' = "running" => \A i \in DOMAIN StartOrder : i = started /\ Waits(i) => Waits(i)'
  PROVE  ConsumersInv'
<1>1. TypeInv'
  BY DEF ConsumersInv, TypeInv
<1>2. Timed'
  BY DEF ConsumersInv, Timed
<1>3. InOrder'
  <2> SUFFICES ASSUME NEW i \in DOMAIN StartOrder
               PROVE  /\ i < started => Passed(i)'
                      /\ i = started /\ startup' = "running" => Waits(i)' \/ Passed(i)'
                      /\ i > started => Untouched(i)'
    BY DEF InOrder
  <2>1. i < started => Passed(i)'
    BY DEF ConsumersInv, InOrder, Passed
  <2>2. i = started /\ startup' = "running" => Waits(i)' \/ Passed(i)'
    BY DEF ConsumersInv, InOrder, Passed
  <2>3. i > started => Untouched(i)'
    BY Starts DEF ConsumersInv, InOrder, Untouched
  <2> QED BY <2>1, <2>2, <2>3
<1>4. LostToAnother'
  BY DEF ConsumersInv, LostToAnother
<1> QED BY <1>1, <1>2, <1>3, <1>4 DEF ConsumersInv

\* One consumer goes off.
LEMMA OffIs ==
  ASSUME TypeInv, NEW t \in Topics, NEW c \in Slots(t), con' = [con EXCEPT ![t][c] = "off"]
  PROVE  /\ DOMAIN con' = Topics
         /\ \A s \in Topics : con'[s] \in [Slots(s) -> {"connecting", "running", "off"}]
         /\ con'[t][c] = "off"
         /\ \A d \in Slots(t) : d # c => con'[t][d] = con[t][d]
         /\ \A s \in Topics : s # t => con'[s] = con[s]
<1>1. con'[t] = [con[t] EXCEPT ![c] = "off"] /\ DOMAIN con' = Topics
  BY DEF TypeInv
<1>2. con[t] \in [Slots(t) -> {"connecting", "running", "off"}]
  BY DEF TypeInv
<1>3. \A s \in Topics : s # t => con'[s] = con[s]
  BY DEF TypeInv
<1>4. con'[t] \in [Slots(t) -> {"connecting", "running", "off"}]
  BY <1>1, <1>2
<1>5. con'[t][c] = "off"
  BY <1>1, <1>2
<1>6. \A d \in Slots(t) : d # c => con'[t][d] = con[t][d]
  BY <1>1, <1>2
<1>7. \A s \in Topics : con'[s] \in [Slots(s) -> {"connecting", "running", "off"}]
  BY <1>3, <1>4 DEF TypeInv
<1> QED BY <1>1, <1>3, <1>5, <1>6, <1>7

\* onModuleInit goes on with the next topic.
LEMMA StartNextKeeps ==
  ASSUME ConsumersInv, StartNext
  PROVE  ConsumersInv'
<1>t. TypeInv
  BY DEF ConsumersInv
<1> DEFINE t == StartOrder[started + 1]
<1>1. /\ started \in Nat /\ started + 1 \in DOMAIN StartOrder /\ t \in Topics
      /\ started' = started + 1 /\ startup' = "running" /\ startup = "running"
      /\ timers' = timers /\ faults' = faults
  BY <1>t, Starts DEF StartNext, TypeInv
<1>2. Untouched(started + 1)
  BY <1>1 DEF ConsumersInv, InOrder
<1>3. consume(t, con[t]) /\ con[t] \in [Slots(t) -> {"connecting", "running", "off"}]
  BY <1>1, <1>t DEF StartNext, TypeInv
<1>4. PICK new \in Slots(t) :
        /\ new \notin timers[t] /\ new # consumers[t] /\ con[t][new] = "off"
        /\ con' = [con EXCEPT ![t] = [con[t] EXCEPT ![new] = "connecting"]]
        /\ consumers' = [consumers EXCEPT ![t] = new]
        /\ con'[t][new] = "connecting" /\ consumers'[t] = new
        /\ \A d \in Slots(t) : d # new => con'[t][d] = con[t][d]
        /\ \A s \in Topics : s # t => con'[s] = con[s] /\ consumers'[s] = consumers[s]
  BY <1>t, <1>1, <1>3, ConsumeIs
<1>5. \A d \in Slots(t) : d # new => con'[t][d] = "off"
  BY <1>2, <1>4 DEF Untouched
<1>6. started > 0 => ~Waits(started)
  BY DEF StartNext, Waits
<1> HIDE DEF t
<1>7. TypeInv'
  <2>1. [con[t] EXCEPT ![new] = "connecting"] \in [Slots(t) -> {"connecting", "running", "off"}]
    BY <1>3
  <2>2. con'[t] = [con[t] EXCEPT ![new] = "connecting"] /\ DOMAIN con' = Topics
    BY <1>1, <1>4, <1>t DEF TypeInv
  <2>3. DOMAIN consumers' = Topics
    BY <1>4, <1>t DEF TypeInv
  <2>4. started' \in 0..Len(StartOrder)
    BY <1>1, Starts
  <2> QED BY <1>1, <1>t, <1>4, <2>1, <2>2, <2>3, <2>4 DEF TypeInv
<1>8. Timed'
  <2> SUFFICES ASSUME NEW s \in Topics, NEW d \in Slots(s)
               PROVE  /\ con'[s][d] = "running" => d \in timers[s]
                      /\ con'[s][d] = "connecting" => d \notin timers[s]
    BY <1>1 DEF Timed
  <2>1. CASE s = t
    BY <2>1, <1>4, <1>5
  <2>2. CASE s # t
    BY <2>2, <1>4 DEF ConsumersInv, Timed
  <2> QED BY <2>1, <2>2
<1>9. InOrder'
  <2> SUFFICES ASSUME NEW i \in DOMAIN StartOrder
               PROVE  /\ i < started + 1 => Passed(i)'
                      /\ i = started + 1 => Waits(i)' \/ Passed(i)'
                      /\ i > started + 1 => Untouched(i)'
    BY <1>1 DEF InOrder
  <2>0. i \in Nat /\ i > 0 /\ (i = started + 1 \/ StartOrder[i] # t) /\ StartOrder[i] \in Topics
    BY <1>1, Starts DEF t
  <2>1. CASE i < started
    BY <2>0, <2>1, <1>1 DEF ConsumersInv, InOrder, Passed
  <2>2. CASE i = started
    BY <2>0, <2>2, <1>1, <1>6 DEF ConsumersInv, InOrder, Passed
  <2>3. CASE i = started + 1
    BY <2>3, <1>1, <1>4, Starts DEF Waits, t
  <2>4. CASE i > started + 1
    <3>1. Untouched(i)
      BY <2>4, <1>1, <2>0 DEF ConsumersInv, InOrder
    <3>2. con'[StartOrder[i]] = con[StartOrder[i]]
          /\ consumers'[StartOrder[i]] = consumers[StartOrder[i]]
      BY <2>0, <2>4, <1>1, <1>4
    <3> QED BY <2>0, <2>4, <1>1, <3>1, <3>2 DEF Untouched
  <2> QED BY <1>1, <2>0, <2>1, <2>2, <2>3, <2>4
<1>10. LostToAnother'
  <2> SUFFICES ASSUME "manual" \notin faults, NEW s \in Topics, NEW d \in Slots(s),
                      d # consumers'[s], con'[s][d] # "off"
               PROVE  \E e \in timers[s] : e # d
    BY <1>1 DEF LostToAnother
  <2>1. s # t
    BY <1>4, <1>5
  <2> QED BY <2>1, <1>4 DEF ConsumersInv, LostToAnother
<1> QED BY <1>7, <1>8, <1>9, <1>10 DEF ConsumersInv

\* A consumer has connected.
LEMMA ConsumerRunsKeeps ==
  ASSUME ConsumersInv, NEW t \in Topics, NEW c \in Slots(t), ConsumerRuns(t, c)
  PROVE  ConsumersInv'
<1>t. TypeInv
  BY DEF ConsumersInv
<1>1. /\ con[t][c] = "connecting" /\ con' = [con EXCEPT ![t][c] = "running"]
      /\ timers' = [timers EXCEPT ![t] = @ \union {c}]
      /\ started' = started /\ startup' = startup /\ consumers' = consumers /\ faults' = faults
  BY DEF ConsumerRuns, startHeartbeatCheck, initVars
<1>2. /\ DOMAIN con' = Topics /\ con'[t] = [con[t] EXCEPT ![c] = "running"]
      /\ \A s \in Topics : s # t => con'[s] = con[s]
      /\ con[t] \in [Slots(t) -> {"connecting", "running", "off"}]
  BY <1>1, <1>t DEF TypeInv
<1>3. con'[t][c] = "running" /\ \A d \in Slots(t) : d # c => con'[t][d] = con[t][d]
  BY <1>2
<1>4. /\ DOMAIN timers' = Topics /\ timers'[t] = timers[t] \union {c}
      /\ \A s \in Topics : s # t => timers'[s] = timers[s]
  BY <1>1, <1>t DEF TypeInv
<1>5. TypeInv'
  <2>1. con'[t] \in [Slots(t) -> {"connecting", "running", "off"}]
    BY <1>2
  <2> QED BY <1>t, <1>1, <1>2, <1>4, <2>1 DEF TypeInv
<1>6. Timed'
  <2> SUFFICES ASSUME NEW s \in Topics, NEW d \in Slots(s)
               PROVE  /\ con'[s][d] = "running" => d \in timers'[s]
                      /\ con'[s][d] = "connecting" => d \notin timers'[s]
    BY DEF Timed
  <2>1. CASE s = t /\ d = c
    BY <2>1, <1>3, <1>4
  <2>2. CASE s = t /\ d # c
    BY <2>2, <1>3, <1>4 DEF ConsumersInv, Timed
  <2>3. CASE s # t
    BY <2>3, <1>2, <1>4 DEF ConsumersInv, Timed
  <2> QED BY <2>1, <2>2, <2>3
<1>7. InOrder'
  <2> SUFFICES ASSUME NEW i \in DOMAIN StartOrder
               PROVE  /\ i < started => Passed(i)'
                      /\ i = started /\ startup = "running" => Waits(i)' \/ Passed(i)'
                      /\ i > started => Untouched(i)'
    BY <1>1 DEF InOrder
  <2>0. StartOrder[i] \in Topics
    BY Starts
  <2>1. CASE StartOrder[i] = t
    <3>1. Passed(i)'
      BY <2>1, <1>4 DEF Passed
    <3>2. ~Untouched(i)
      BY <2>1, <1>1 DEF Untouched
    <3> QED BY <3>1, <3>2 DEF ConsumersInv, InOrder
  <2>2. CASE StartOrder[i] # t
    BY <2>0, <2>2, <1>1, <1>2, <1>4 DEF ConsumersInv, InOrder, Passed, Waits, Untouched
  <2> QED BY <2>1, <2>2
<1>8. LostToAnother'
  <2> SUFFICES ASSUME "manual" \notin faults, NEW s \in Topics, NEW d \in Slots(s),
                      d # consumers[s], con'[s][d] # "off"
               PROVE  \E e \in timers'[s] : e # d
    BY <1>1 DEF LostToAnother
  <2>1. con[s][d] # "off"
    BY <1>1, <1>2, <1>3
  <2>2. PICK e \in timers[s] : e # d
    BY <2>1 DEF ConsumersInv, LostToAnother
  <2> QED BY <2>2, <1>4
<1> QED BY <1>5, <1>6, <1>7, <1>8 DEF ConsumersInv

LEMMA ConsumersStep ==
  ASSUME ConsumersInv, [Next]_vars
  PROVE  ConsumersInv'
<1>t. TypeInv
  BY DEF ConsumersInv
<1>w. \A i \in DOMAIN StartOrder : StartOrder[i] \in Topics
  BY Starts
<1>1. CASE StartNext
  BY <1>1, StartNextKeeps
<1>2. CASE StartedAll
  BY <1>2, <1>t, QuietKeeps DEF StartedAll, conVars, TypeInv
<1>3. CASE onApplicationShutdown
  BY <1>3, <1>t, QuietKeeps DEF onApplicationShutdown, conVars, TypeInv
<1>4. CASE \/ BrokerGoes \/ BrokerComes \/ \E t \in Topics : Heartbeat(t) \/ GoesStale(t)
           \/ \E m \in Msgs : createEventTrigger(m) \/ Emitted(m) \/ eachMessage(m)
           \/ UNCHANGED vars
  <2>1. /\ started' = started /\ startup' = startup /\ con' = con
        /\ consumers' = consumers /\ timers' = timers
        /\ "manual" \in faults => "manual" \in faults'
    BY <1>4 DEF BrokerGoes, BrokerComes, Heartbeat, GoesStale, createEventTrigger, Emitted,
                eachMessage, Fault, initVars, conVars, vars
  <2>2. \A i \in DOMAIN StartOrder : Waits(i) => Waits(i)'
    BY <2>1 DEF Waits
  <2> QED BY <1>t, <2>1, <2>2, QuietKeeps DEF TypeInv
<1>5. CASE \E t \in Topics : findAndRestartConsumer(t)
  <2>1. PICK t \in Topics : findAndRestartConsumer(t)
    BY <1>5
  <2>2. consumers[t] \in Slots(t) /\ restartConsumer(t, consumers[t])
    BY <2>1, <1>t DEF findAndRestartConsumer, TypeInv
  <2>3. UNCHANGED <<initVars, timers>> /\ "manual" \in faults'
    BY <2>1 DEF findAndRestartConsumer, Fault
  <2> QED BY <2>2, <2>3, RestartKeeps
<1>6. CASE \E t \in Topics : ShutDownConsumer(t)
  <2>1. PICK t \in Topics : ShutDownConsumer(t)
    BY <1>6
  <2>2. consumers[t] \in Slots(t)
    BY <2>1, <1>t DEF ShutDownConsumer, TypeInv
  <2>3. /\ started' = started /\ startup' = startup /\ startup = "stopping"
        /\ consumers' = consumers /\ timers' = timers /\ faults' = faults
        /\ con' = [con EXCEPT ![t][consumers[t]] = "off"]
    BY <2>1 DEF ShutDownConsumer, initVars
  <2>4. /\ DOMAIN con' = Topics
        /\ \A s \in Topics : con'[s] \in [Slots(s) -> {"connecting", "running", "off"}]
        /\ \A s \in Topics : \A d \in Slots(s) : con'[s][d] = con[s][d] \/ con'[s][d] = "off"
    BY <1>t, <2>2, <2>3, OffIs
  <2> QED BY <2>3, <2>4, QuietKeeps
<1>7. CASE \E t \in Topics : \E c \in Slots(t) : ConsumerRuns(t, c)
  BY <1>7, ConsumerRunsKeeps
<1>8. CASE \E t \in Topics : \E c \in Slots(t) : HeartbeatCheck(t, c)
  <2>1. PICK t \in Topics : \E c \in Slots(t) : HeartbeatCheck(t, c)
    BY <1>8
  <2>2. PICK c \in Slots(t) : HeartbeatCheck(t, c)
    BY <2>1
  <2>3. restartConsumer(t, c) /\ UNCHANGED <<initVars, timers>> /\ c \in timers[t] /\ faults' = faults
    BY <2>2 DEF HeartbeatCheck
  <2> QED BY <2>3, RestartKeeps
<1>9. CASE \E t \in Topics : \E c \in Slots(t) : ConsumeThrows(t, c)
  <2>1. PICK t \in Topics : \E c \in Slots(t) : ConsumeThrows(t, c)
    BY <1>9
  <2>2. PICK c \in Slots(t) : ConsumeThrows(t, c)
    BY <2>1
  <2>3. /\ started' = started /\ consumers' = consumers /\ timers' = timers /\ faults' = faults
        /\ con' = [con EXCEPT ![t][c] = "off"]
        /\ startup' = IF AwaitedByStartup(t, c) THEN "failed" ELSE startup
    BY <2>2 DEF ConsumeThrows, StartupFails
  <2>4. /\ DOMAIN con' = Topics
        /\ \A s \in Topics : con'[s] \in [Slots(s) -> {"connecting", "running", "off"}]
        /\ \A d \in Slots(t) : d # c => con'[t][d] = con[t][d]
        /\ \A s \in Topics : s # t => con'[s] = con[s]
        /\ con'[t][c] = "off"
    BY <1>t, <2>3, OffIs
  <2>5. \A s \in Topics : \A d \in Slots(s) : con'[s][d] = con[s][d] \/ con'[s][d] = "off"
    BY <2>4
  <2>6. startup' = "running" =>
          \A i \in DOMAIN StartOrder : i = started /\ Waits(i) => Waits(i)'
    <3> SUFFICES ASSUME startup' = "running", started \in DOMAIN StartOrder, Waits(started)
                 PROVE  Waits(started)'
      BY <2>3 DEF Waits
    <3>1. startup = "running" /\ ~AwaitedByStartup(t, c)
      BY <2>3
    <3>2. started > 0
      BY Starts
    <3>3. ~(t = StartOrder[started] /\ c = consumers[t])
      BY <3>1, <3>2 DEF AwaitedByStartup
    <3>4. con'[StartOrder[started]][consumers[StartOrder[started]]] = "connecting"
      <4>1. CASE StartOrder[started] # t
        BY <4>1, <1>w, <2>4 DEF Waits
      <4>2. CASE StartOrder[started] = t
        <5>1. timers[t] = {} => consumers[t] \in Slots(t) \cup {NoConsumer}
          BY <1>t DEF TypeInv
        <5>2. consumers[t] # NoConsumer => consumers[t] \in Slots(t)
          BY <1>t DEF TypeInv
        <5> QED BY <4>2, <3>3, <5>2, <2>4, <2>3 DEF Waits
      <4> QED BY <4>1, <4>2
    <3> QED BY <2>3, <3>4 DEF Waits
  <2>7. startup' \in {"running", "complete", "failed", "stopping"}
        /\ (startup' = "running" => startup = "running")
    BY <2>3, <1>t DEF TypeInv
  <2> QED BY <2>3, <2>4, <2>5, <2>6, <2>7, QuietKeeps
<1>10. CASE \E t \in Topics : \E c \in Slots(t) : ConsumerCrashes(t, c)
  <2>1. PICK t \in Topics : \E c \in Slots(t) : ConsumerCrashes(t, c)
    BY <1>10
  <2>2. PICK c \in Slots(t) : ConsumerCrashes(t, c)
    BY <2>1
  <2>3. /\ started' = started /\ consumers' = consumers /\ timers' = timers
        /\ startup' = startup /\ con[t][c] = "running"
        /\ con' = [con EXCEPT ![t][c] = "off"]
        /\ "manual" \in faults => "manual" \in faults'
    BY <2>2 DEF ConsumerCrashes, Fault, initVars
  <2>4. /\ DOMAIN con' = Topics
        /\ \A s \in Topics : con'[s] \in [Slots(s) -> {"connecting", "running", "off"}]
        /\ \A d \in Slots(t) : d # c => con'[t][d] = con[t][d]
        /\ \A s \in Topics : s # t => con'[s] = con[s]
        /\ con'[t][c] = "off"
    BY <1>t, <2>3, OffIs
  <2>5. \A s \in Topics : \A d \in Slots(s) : con'[s][d] = con[s][d] \/ con'[s][d] = "off"
    BY <2>4
  <2>6. \A i \in DOMAIN StartOrder : Waits(i) => Waits(i)'
    <3>1. con' = [s \in Topics |-> IF s = t THEN [con[t] EXCEPT ![c] = "off"] ELSE con[s]]
      BY <2>3, <1>t DEF TypeInv
    <3> QED BY <3>1, <2>3, <1>w, <1>t DEF Waits, TypeInv
  <2> QED BY <1>t, <2>3, <2>4, <2>5, <2>6, QuietKeeps DEF TypeInv
<1> QED BY <1>1, <1>2, <1>3, <1>4, <1>5, <1>6, <1>7, <1>8, <1>9, <1>10 DEF Next, Consumer

LEMMA ConsumersAlways == Spec => []ConsumersInv
<1>1. ConsumersInv /\ [Next]_vars => ConsumersInv'
  BY ConsumersStep
<1> QED BY ConsumersInit, <1>1, PTL DEF Spec

\* Theorem: onModuleInit leaves the topics in order. However the broker fails while it
\* goes through them and whoever restarts a consumer meanwhile, every topic it has passed
\* has a timer, and one it has not reached has no consumer that could be restarted.
THEOREM TopicsInOrder == Spec => []StartsInOrder
<1>1. ConsumersInv => StartsInOrder
  BY DEF ConsumersInv, InOrder, Passed, Untouched, StartsInOrder
<1> QED BY <1>1, ConsumersAlways, PTL

\* Theorem: a consumer that runs outside the map has a timer that disconnects it at the
\* next silence, and without a restart by hand it got there by the timer of another: for
\* any number of topics, consumers, outages and crashes.
THEOREM OrphansSeen == Spec => []OrphansAreWatched
<1>1. ConsumersInv => OrphansAreWatched
  <2> SUFFICES ASSUME ConsumersInv, NEW t \in Topics, NEW c \in Slots(t),
                      con[t][c] = "running", c # consumers[t]
               PROVE  /\ c \in timers[t]
                      /\ Cardinality(timers[t]) >= 2 \/ "manual" \in faults
    BY DEF OrphansAreWatched
  <2>1. c \in timers[t]
    BY DEF ConsumersInv, Timed
  <2>2. ASSUME "manual" \notin faults PROVE Cardinality(timers[t]) >= 2
    <3>1. PICK d \in timers[t] : d # c
      BY <2>2 DEF ConsumersInv, LostToAnother
    <3>2. IsFiniteSet(timers[t])
      <4>1. IsFiniteSet(Slots(t))
        BY FS_Interval, EventConsumersAssumption DEF Slots
      <4> QED BY <4>1, FS_Subset DEF ConsumersInv, TypeInv
    <3>3. Cardinality({c, d}) = 2 /\ IsFiniteSet({c, d})
      <4>1. IsFiniteSet({c}) /\ Cardinality({c}) = 1
        BY FS_Singleton
      <4>2. d \notin {c} /\ {c, d} = {c} \cup {d}
        BY <3>1
      <4>3. IsFiniteSet({c} \cup {d}) /\ Cardinality({c} \cup {d}) = 1 + 1
        BY <4>1, <4>2, FS_AddElement
      <4> QED BY <4>2, <4>3
    <3>4. Cardinality({c, d}) <= Cardinality(timers[t])
      BY <2>1, <3>1, <3>2, FS_Subset
    <3>5. Cardinality(timers[t]) \in Nat
      BY <3>2, FS_CardinalityType
    <3> QED BY <3>3, <3>4, <3>5
  <2> QED BY <2>1, <2>2
<1> QED BY <1>1, ConsumersAlways, PTL

----------------------------------------------------------------------------
(* The handlers of open and cancel events (FulfillmentOrders), which the    *)
(* consumers of two topics run: types, that an open event ends only with    *)
(* all of its fulfillment orders answered, and that what was reported as    *)
(* cancelled is not fulfilled, for all messages, consumers, failures and    *)
(* crashes.                                                                 *)

USE DEF FO!Acceptable, FO!Unread, FO!Refused

OpenSteps == {"openGet", "accept"}
PcOK == pc \in [Workers -> {"idle", "openGet", "accept", "getOrder", "cancelGet",
                           "request", "close", "cancelOrder"}]

\* A busy worker has a message of the kind its step is about, and stands at one
\* of its entries when it is past the head of the loop.
Busy ==
  \A w \in Workers : pc[w] # "idle" =>
    /\ job[w] \in FO!MsgIds
    /\ k[w] # 0
    /\ pc[w] \in OpenSteps <=> Messages[job[w]].action = "open"
    /\ pc[w] \notin {"openGet", "getOrder"} => k[w] =< Len(Messages[job[w]].fos)

\* What the loop of updateOpenedOrders has passed is answered or on its list of
\* failures.
Walked ==
  \A w \in Workers : pc[w] \in OpenSteps =>
    \A i \in DOMAIN Messages[job[w]].fos :
      i < k[w] => \/ status[Messages[job[w]].fos[i]] # "OPEN"
                  \/ Messages[job[w]].fos[i] \in failed[w]

IInv == FO!TypeOK /\ Busy /\ Walked /\ FO!OpenedIsSettled

----------------------------------------------------------------------------
\* The fulfillment orders of a message, entry by entry.
LEMMA Entries ==
  ASSUME NEW m \in FO!MsgIds
  PROVE  /\ Messages[m].action \in FO!Actions
         /\ Messages[m].fos \in Seq(FOs)
         /\ Len(Messages[m].fos) \in Nat
         /\ DOMAIN Messages[m].fos = 1..Len(Messages[m].fos)
         /\ \A i \in DOMAIN Messages[m].fos : Messages[m].fos[i] \in FOs
<1> DEFINE M == [action : FO!Actions, fos : Seq(FOs)]
<1>1. Messages \in Seq(M) /\ m \in DOMAIN Messages
  BY FulfillmentOrdersAssumption DEF FO!ConstantsFit, FO!MsgIds
<1>2. Messages[m] \in M
  <2> HIDE DEF M
  <2> QED BY <1>1
<1> QED
  BY <1>2

\* The entry a worker stands at is a fulfillment order of its message.
LEMMA Here ==
  ASSUME FO!TypeOK, Busy, NEW w \in Workers, pc[w] # "idle", FO!More(w)
  PROVE  /\ job[w] \in FO!MsgIds
         /\ k[w] \in 1..Len(Messages[job[w]].fos)
         /\ FO!At(w) = Messages[job[w]].fos[k[w]]
         /\ FO!At(w) \in FOs
<1>1. job[w] \in FO!MsgIds /\ k[w] \in Nat \ {0}
  BY DEF FO!TypeOK, Busy
<1>2. k[w] \in DOMAIN Messages[job[w]].fos
  BY <1>1, Entries DEF FO!More, FO!fos
<1> QED
  BY <1>1, <1>2, Entries DEF FO!At, FO!fos

\* Every step of the loops past its head is at an entry.
LEMMA AtEntry ==
  ASSUME FO!TypeOK, Busy, NEW w \in Workers, pc[w] \notin {"idle", "openGet", "getOrder"}
  PROVE  FO!More(w)
BY DEF FO!TypeOK, Busy, FO!More, FO!fos

\* Next taken apart, one case per action.
LEMMA Steps ==
  ASSUME FO!Next
  PROVE  \/ \E w \in Workers, m \in FO!MsgIds : FO!deliver(w, m)
         \/ \E w \in Workers : FO!openGet(w)
         \/ \E w \in Workers : FO!acceptFulfillment(w)
         \/ \E w \in Workers : FO!openReturns(w)
         \/ \E w \in Workers : FO!getOrder(w)
         \/ \E w \in Workers : FO!cancelGet(w)
         \/ \E w \in Workers : FO!requestCancellation(w)
         \/ \E w \in Workers : FO!cancelFulfillmentOrder(w)
         \/ \E w \in Workers : FO!cancelOrder(w)
         \/ \E w \in Workers : FO!cancelReturns(w)
         \/ \E w \in Workers : FO!throws(w)
         \/ \E w \in Workers : FO!crash(w)
         \/ \E m \in FO!MsgIds : FO!retry(m)
         \/ \E g \in FOs : FO!ship(g)
BY Zenon DEF FO!Next, FO!updateOpenedOrders, FO!updateCancelledOrders

----------------------------------------------------------------------------
\* The initial state.
LEMMA InitIInv ==
  ASSUME FO!Init
  PROVE  IInv
BY FulfillmentOrdersAssumption
DEF FO!ConstantsFit, FO!Supportable, FO!Init, IInv, FO!TypeOK, Busy, Walked,
   FO!OpenedIsSettled, OpenSteps

\* The head of the loop fits the kind of the message.
LEMMA HeadFits ==
  ASSUME NEW m \in FO!MsgIds
  PROVE  /\ FO!FirstCall(m) \in {"openGet", "getOrder"}
         /\ FO!FirstCall(m) \in OpenSteps <=> Messages[m].action = "open"
BY DEF FO!FirstCall, OpenSteps

\* No fulfillment order becomes open again.
LEMMA NeverReopened ==
  ASSUME FO!TypeOK, FO!Next, NEW g \in FOs, status[g] # "OPEN"
  PROVE  status'[g] # "OPEN"
<1> USE DEF FO!TypeOK
<1>1. UNCHANGED FO!shop \/ (\E h \in FOs : FO!Accept(h) \/ FO!Close(h) \/ FO!ship(h))
                      \/ (\E o \in Orders : FO!Cancel(o))
                      \/ (\E w \in Workers : \/ FO!Accept(FO!At(w)) \/ FO!Close(FO!At(w))
                                              \/ FO!Cancel(orderOf[FO!At(w)]))
  <2>1. CASE \E w \in Workers : FO!acceptFulfillment(w)
    BY <2>1 DEF FO!acceptFulfillment, FO!AcceptCall, FO!Request
  <2>2. CASE \E w \in Workers : FO!cancelFulfillmentOrder(w)
    BY <2>2 DEF FO!cancelFulfillmentOrder, FO!CloseCall, FO!Request
  <2>3. CASE \E w \in Workers : FO!cancelOrder(w)
    BY <2>3 DEF FO!cancelOrder, FO!CancelCall, FO!Request
  <2>4. CASE \E h \in FOs : FO!ship(h)
    BY <2>4
  <2>5. CASE \E w \in Workers : \/ FO!openGet(w) \/ FO!getOrder(w)
                                \/ FO!cancelGet(w) \/ FO!requestCancellation(w)
    BY <2>5 DEF FO!openGet, FO!getOrder, FO!cancelGet, FO!requestCancellation, FO!GetCall,
       FO!RequestCall, FO!Request
  <2>6. CASE \E w \in Workers : \/ FO!openReturns(w) \/ FO!cancelReturns(w)
                                \/ FO!throws(w) \/ FO!crash(w)
    BY <2>6 DEF FO!openReturns, FO!cancelReturns, FO!throws, FO!crash, FO!Leave
  <2>7. CASE \/ \E w \in Workers, m \in FO!MsgIds : FO!deliver(w, m)
             \/ \E m \in FO!MsgIds : FO!retry(m)
    BY <2>7 DEF FO!deliver, FO!retry
  <2> QED BY <2>1, <2>2, <2>3, <2>4, <2>5, <2>6, <2>7, Steps
<1> QED BY <1>1 DEF FO!Accept, FO!Close, FO!Cancel, FO!ship, FO!shop

----------------------------------------------------------------------------
(* TypeOK and Busy.                                                        *)

\* The loop goes on: its worker stays with its message, one entry further.
LEMMA NextEntryBusy ==
  ASSUME FO!TypeOK, Busy, NEW w \in Workers, pc[w] # "idle", FO!More(w), FO!NextEntry(w),
         job' = job
  PROVE  /\ Busy'
         /\ PcOK'
         /\ k' \in [Workers -> Nat]
         /\ supported' \in [Workers -> SUBSET FO!Supportable]
<1> USE DEF FO!TypeOK, PcOK
<1>1. k[w] \in Nat /\ job[w] \in FO!MsgIds
  BY DEF Busy
<1>2. FO!FirstCall(job[w]) \in {"openGet", "getOrder"}
      /\ (FO!FirstCall(job[w]) \in OpenSteps <=> Messages[job[w]].action = "open")
  BY <1>1, HeadFits
<1>3. /\ pc' = [pc EXCEPT ![w] = FO!FirstCall(job[w])]
      /\ k' = [k EXCEPT ![w] = k[w] + 1]
      /\ supported' = [supported EXCEPT ![w] = {}]
  BY DEF FO!NextEntry, FO!Goto
<1> QED BY <1>1, <1>2, <1>3 DEF Busy

\* A worker moves on at the same entry.
LEMMA GotoBusy ==
  ASSUME FO!TypeOK, Busy, NEW w \in Workers, pc[w] # "idle", FO!More(w),
         NEW step, FO!Goto(w, step), k' = k, job' = job,
         step \in {"accept", "cancelGet", "request", "close", "cancelOrder"},
         step = "accept" <=> pc[w] \in OpenSteps
  PROVE  /\ Busy'
         /\ PcOK'
BY DEF FO!TypeOK, PcOK, Busy, FO!Goto, FO!More, FO!fos, OpenSteps

\* A worker that leaves its message.
LEMMA LeaveBusy ==
  ASSUME FO!TypeOK, Busy, NEW w \in Workers, pc[w] # "idle",
         NEW p \in {"queued", "due", "done"}, FO!Leave(w, p),
         budget' \in [failure : Nat, crash : Nat]
  PROVE  FO!TypeOK' /\ Busy'
BY DEF FO!TypeOK, Busy, FO!Leave, FO!shop, FO!NoMsg

\* The types and the place of every worker are kept by every step.
LEMMA TypesKept ==
  ASSUME FO!TypeOK, Busy, [FO!Next]_(FO!vars)
  PROVE  FO!TypeOK' /\ Busy'
<1>1. CASE UNCHANGED FO!vars
  BY <1>1 DEF FO!vars, FO!shop, FO!local, FO!TypeOK, Busy
<1>2. CASE \E w \in Workers, m \in FO!MsgIds : FO!deliver(w, m)
  <2> PICK w \in Workers, m \in FO!MsgIds : FO!deliver(w, m)
    BY <1>2
  <2>1. FO!FirstCall(m) \in {"openGet", "getOrder"}
        /\ (FO!FirstCall(m) \in OpenSteps <=> Messages[m].action = "open")
    BY HeadFits
  <2> QED BY <2>1 DEF FO!deliver, FO!Goto, FO!TypeOK, Busy, FO!shop
<1>3. CASE \E w \in Workers : FO!openGet(w)
  <2> PICK w \in Workers : FO!openGet(w)
    BY <1>3
  <2>1. pc[w] = "openGet" /\ FO!More(w) /\ job' = job /\ FO!At(w) \in FOs
    BY Here DEF FO!openGet, FO!local, FO!GetCall, FO!Request
  <2>2. failed' \in [Workers -> SUBSET FOs] /\ budget' \in [failure : Nat, crash : Nat]
    BY <2>1 DEF FO!openGet, FO!EntryFailed, FO!Fail, FO!local, FO!TypeOK, FO!GetCall,
       FO!Request
  <2>3. CASE FO!Goto(w, "accept") /\ UNCHANGED <<FO!local, budget>>
    <3>1. Busy' /\ PcOK'
      BY <2>1, <2>3, GotoBusy DEF FO!local, OpenSteps
    <3> QED BY <2>2, <2>3, <3>1 DEF FO!openGet, FO!TypeOK, PcOK, FO!shop, FO!local,
               FO!GetCall, FO!Request
  <2>4. CASE FO!NextEntry(w)
    <3>1. /\ Busy'
          /\ PcOK'
          /\ k' \in [Workers -> Nat]
          /\ supported' \in [Workers -> SUBSET FO!Supportable]
      BY <2>1, <2>4, NextEntryBusy
    <3> QED BY <2>1, <2>2, <3>1 DEF FO!openGet, FO!TypeOK, PcOK, FO!shop, FO!GetCall,
               FO!Request
  <2> QED BY <2>3, <2>4 DEF FO!openGet, FO!EntryFailed, FO!GetCall, FO!Request
<1>4. CASE \E w \in Workers : FO!acceptFulfillment(w)
  <2> PICK w \in Workers : FO!acceptFulfillment(w)
    BY <1>4
  <2>1. pc[w] = "accept" /\ FO!More(w) /\ job' = job /\ FO!At(w) \in FOs
    BY Here, AtEntry DEF FO!acceptFulfillment, FO!AcceptCall, FO!Request
  <2>2. FO!NextEntry(w)
    BY DEF FO!acceptFulfillment, FO!EntryFailed, FO!AcceptCall, FO!Request
  <2>3. /\ Busy' /\ PcOK' /\ k' \in [Workers -> Nat]
        /\ supported' \in [Workers -> SUBSET FO!Supportable]
    BY <2>1, <2>2, NextEntryBusy
  <2>4. failed' \in [Workers -> SUBSET FOs] /\ budget' \in [failure : Nat, crash : Nat]
    BY <2>1 DEF FO!acceptFulfillment, FO!EntryFailed, FO!Fail, FO!TypeOK, FO!AcceptCall,
       FO!Request
  <2> QED BY <2>1, <2>3, <2>4 DEF FO!acceptFulfillment, FO!Accept, FO!TypeOK, PcOK,
             FO!shop, FO!AcceptCall, FO!Request
<1>5. CASE \E w \in Workers : FO!openReturns(w)
  <2> PICK w \in Workers : FO!openReturns(w)
    BY <1>5
  <2>1. CASE failed[w] = {}
    <3>1. pc[w] # "idle" /\ FO!Leave(w, "done") /\ budget' = budget
      BY <2>1 DEF FO!openReturns
    <3> QED BY <3>1, LeaveBusy DEF FO!TypeOK
  <2>2. CASE failed[w] # {}
    <3>1. pc[w] # "idle" /\ FO!Leave(w, "due") /\ budget' = budget
      BY <2>2 DEF FO!openReturns
    <3> QED BY <3>1, LeaveBusy DEF FO!TypeOK
  <2> QED BY <2>1, <2>2
<1>6. CASE \E w \in Workers : FO!getOrder(w)
  <2> PICK w \in Workers : FO!getOrder(w)
    BY <1>6
  <2>1. pc[w] = "getOrder" /\ FO!More(w) /\ job' = job /\ FO!At(w) \in FOs
    BY Here DEF FO!getOrder
  <2>2. CASE FO!Report(w)
    <3>1. /\ Busy' /\ PcOK' /\ k' \in [Workers -> Nat]
          /\ supported' \in [Workers -> SUBSET FO!Supportable]
      BY <2>1, <2>2, NextEntryBusy DEF FO!Report
    <3> QED BY <2>1, <2>2, <3>1 DEF FO!getOrder, FO!Report, FO!TypeOK, PcOK, FO!shop
  <2>3. CASE FO!Goto(w, "cancelGet") /\ UNCHANGED <<reported, k, supported>>
    <3>1. Busy' /\ PcOK'
      BY <2>1, <2>3, GotoBusy DEF OpenSteps
    <3> QED BY <2>1, <2>3, <3>1 DEF FO!getOrder, FO!TypeOK, PcOK, FO!shop
  <2> QED BY <2>2, <2>3 DEF FO!getOrder
<1>7. CASE \E w \in Workers : FO!cancelGet(w)
  <2> PICK w \in Workers : FO!cancelGet(w)
    BY <1>7
  <2>1. pc[w] = "cancelGet" /\ FO!More(w) /\ job' = job /\ FO!At(w) \in FOs
    BY Here, AtEntry DEF FO!cancelGet, FO!CallFails, FO!GetCall, FO!Request
  <2>2. CASE FO!NextEntry(w)
    <3>1. /\ Busy' /\ PcOK' /\ k' \in [Workers -> Nat]
          /\ supported' \in [Workers -> SUBSET FO!Supportable]
      BY <2>1, <2>2, NextEntryBusy
    <3>2. /\ failed' \in [Workers -> SUBSET FOs] /\ budget' \in [failure : Nat, crash : Nat]
          /\ reported' \subseteq FOs /\ phase' = phase
      BY <2>1 DEF FO!cancelGet, FO!Report, FO!CallFails, FO!EntryFailed, FO!Fail,
         FO!TypeOK, FO!GetCall, FO!Request
    <3> QED BY <2>1, <3>1, <3>2 DEF FO!cancelGet, FO!TypeOK, PcOK, FO!shop, FO!GetCall,
               FO!Request
  <2>3. CASE /\ supported' = [supported EXCEPT ![w] = FO!SupportedActions(FO!At(w))]
             /\ FO!Goto(w, FO!AfterDetails(FO!SupportedActions(FO!At(w))))
             /\ UNCHANGED <<reported, phase, job, k, failed, budget>>
    <3>1. FO!AfterDetails(FO!SupportedActions(FO!At(w))) \in {"request", "close", "cancelOrder"}
      BY DEF FO!AfterDetails
    <3>2. Busy' /\ PcOK'
      BY <2>1, <2>3, <3>1, GotoBusy DEF OpenSteps
    <3>3. FO!SupportedActions(FO!At(w)) \subseteq FO!Supportable
      BY DEF FO!SupportedActions, FO!Supportable
    <3> QED BY <2>1, <2>3, <3>2, <3>3 DEF FO!cancelGet, FO!TypeOK, PcOK, FO!shop,
               FO!GetCall, FO!Request
  <2> QED BY <2>2, <2>3 DEF FO!cancelGet, FO!Report, FO!CallFails, FO!EntryFailed,
             FO!GetCall, FO!Request
<1>8. CASE \E w \in Workers : FO!requestCancellation(w)
  <2> PICK w \in Workers : FO!requestCancellation(w)
    BY <1>8
  <2>1. pc[w] = "request" /\ FO!More(w) /\ job' = job /\ FO!At(w) \in FOs
    BY Here, AtEntry DEF FO!requestCancellation, FO!CallFails, FO!RequestCall, FO!Request
  <2>2. CASE FO!CallFails(w)
    <3>1. /\ Busy' /\ PcOK' /\ k' \in [Workers -> Nat]
          /\ supported' \in [Workers -> SUBSET FO!Supportable]
      BY <2>1, <2>2, NextEntryBusy DEF FO!CallFails, FO!EntryFailed
    <3>2. failed' \in [Workers -> SUBSET FOs] /\ budget' \in [failure : Nat, crash : Nat]
      BY <2>1, <2>2 DEF FO!requestCancellation, FO!CallFails, FO!EntryFailed, FO!Fail,
         FO!TypeOK, FO!RequestCall, FO!Request
    <3> QED BY <2>1, <2>2, <3>1, <3>2 DEF FO!requestCancellation, FO!CallFails, FO!TypeOK,
               PcOK, FO!shop, FO!RequestCall, FO!Request
  <2>3. CASE \E s \in {{}, {"CANCEL_FULFILLMENT_ORDER"}} :
               /\ supported' = [supported EXCEPT ![w] = s]
               /\ FO!Goto(w, FO!AfterRequest(s))
               /\ UNCHANGED <<reported, phase, job, k, failed, budget>>
    <3> PICK s \in {{}, {"CANCEL_FULFILLMENT_ORDER"}} :
               /\ supported' = [supported EXCEPT ![w] = s]
               /\ FO!Goto(w, FO!AfterRequest(s))
               /\ UNCHANGED <<reported, phase, job, k, failed, budget>>
      BY <2>3
    <3>1. FO!AfterRequest(s) \in {"close", "cancelOrder"} /\ s \subseteq FO!Supportable
      BY DEF FO!AfterRequest, FO!Supportable
    <3>2. Busy' /\ PcOK'
      BY <2>1, <3>1, GotoBusy DEF OpenSteps
    <3> QED BY <2>1, <3>1, <3>2 DEF FO!requestCancellation, FO!TypeOK, PcOK, FO!shop,
               FO!RequestCall, FO!Request
  <2> QED BY <2>2, <2>3 DEF FO!requestCancellation, FO!RequestCall, FO!Request
<1>9. CASE \E w \in Workers : FO!cancelFulfillmentOrder(w)
  <2> PICK w \in Workers : FO!cancelFulfillmentOrder(w)
    BY <1>9
  <2>1. pc[w] = "close" /\ FO!More(w) /\ job' = job /\ FO!At(w) \in FOs
    BY Here, AtEntry DEF FO!cancelFulfillmentOrder, FO!CallFails, FO!CloseCall, FO!Request
  <2>2. status' \in [FOs -> {"OPEN", "IN_PROGRESS", "CLOSED"}]
        /\ UNCHANGED <<shippedOut, cancelled, reported, phase>>
    BY <2>1 DEF FO!cancelFulfillmentOrder, FO!Close, FO!CallFails, FO!TypeOK, FO!shop,
       FO!CloseCall, FO!Request
  <2>3. CASE FO!CallFails(w)
    <3>1. /\ Busy' /\ PcOK' /\ k' \in [Workers -> Nat]
          /\ supported' \in [Workers -> SUBSET FO!Supportable]
      BY <2>1, <2>3, NextEntryBusy DEF FO!CallFails, FO!EntryFailed
    <3>2. failed' \in [Workers -> SUBSET FOs] /\ budget' \in [failure : Nat, crash : Nat]
      BY <2>1, <2>3 DEF FO!cancelFulfillmentOrder, FO!CallFails, FO!EntryFailed, FO!Fail,
         FO!TypeOK, FO!CloseCall, FO!Request
    <3> QED BY <2>1, <2>2, <3>1, <3>2 DEF FO!TypeOK, PcOK
  <2>4. CASE /\ supported' = [supported EXCEPT ![w] = {}]
             /\ FO!Goto(w, "cancelOrder")
             /\ UNCHANGED <<reported, phase, job, k, failed, budget>>
    <3>1. Busy' /\ PcOK'
      BY <2>1, <2>4, GotoBusy DEF OpenSteps
    <3> QED BY <2>1, <2>2, <2>4, <3>1 DEF FO!TypeOK, PcOK
  <2> QED BY <2>3, <2>4 DEF FO!cancelFulfillmentOrder, FO!CloseCall, FO!Request
<1>10. CASE \E w \in Workers : FO!cancelOrder(w)
  <2> PICK w \in Workers : FO!cancelOrder(w)
    BY <1>10
  <2>1. pc[w] = "cancelOrder" /\ FO!More(w) /\ job' = job /\ FO!At(w) \in FOs
    BY Here, AtEntry DEF FO!cancelOrder, FO!CallFails, FO!CancelCall, FO!Request
  <2>2. FO!NextEntry(w)
    BY DEF FO!cancelOrder, FO!Report, FO!CallFails, FO!EntryFailed, FO!CancelCall,
       FO!Request
  <2>3. /\ Busy' /\ PcOK' /\ k' \in [Workers -> Nat]
        /\ supported' \in [Workers -> SUBSET FO!Supportable]
    BY <2>1, <2>2, NextEntryBusy
  <2>4. /\ failed' \in [Workers -> SUBSET FOs] /\ budget' \in [failure : Nat, crash : Nat]
        /\ reported' \subseteq FOs /\ phase' = phase
    BY <2>1 DEF FO!cancelOrder, FO!Report, FO!CallFails, FO!EntryFailed, FO!Fail,
       FO!TypeOK, FO!CancelCall, FO!Request
  <2>5. orderOf[FO!At(w)] \in Orders
    BY <2>1, FulfillmentOrdersAssumption DEF FO!ConstantsFit
  <2>6. /\ status' \in [FOs -> {"OPEN", "IN_PROGRESS", "CLOSED"}]
        /\ shippedOut' = shippedOut /\ cancelled' \subseteq Orders
    BY <2>5 DEF FO!cancelOrder, FO!Cancel, FO!TypeOK, FO!shop, FO!CancelCall, FO!Request
  <2> QED BY <2>1, <2>3, <2>4, <2>6 DEF FO!TypeOK, PcOK
<1>11. CASE \E w \in Workers : FO!cancelReturns(w)
  <2> PICK w \in Workers : FO!cancelReturns(w)
    BY <1>11
  <2>1. pc[w] # "idle" /\ FO!Leave(w, "done") /\ budget' = budget
    BY DEF FO!cancelReturns
  <2> QED BY <2>1, LeaveBusy DEF FO!TypeOK
<1>12. CASE \E w \in Workers : FO!throws(w)
  <2> PICK w \in Workers : FO!throws(w)
    BY <1>12
  <2>1. pc[w] # "idle" /\ FO!Leave(w, "due") /\ budget' \in [failure : Nat, crash : Nat]
    BY DEF FO!throws, FO!Fail, FO!TypeOK
  <2> QED BY <2>1, LeaveBusy
<1>13. CASE \E w \in Workers : FO!crash(w)
  <2> PICK w \in Workers : FO!crash(w)
    BY <1>13
  <2>1. pc[w] # "idle" /\ FO!Leave(w, "queued") /\ budget' \in [failure : Nat, crash : Nat]
    BY DEF FO!crash, FO!TypeOK
  <2> QED BY <2>1, LeaveBusy
<1>14. CASE \E m \in FO!MsgIds : FO!retry(m)
  BY <1>14 DEF FO!retry, FO!TypeOK, Busy, FO!shop, FO!local
<1>15. CASE \E g \in FOs : FO!ship(g)
  BY <1>15 DEF FO!ship, FO!TypeOK, Busy, FO!local
<1> QED BY <1>1, <1>2, <1>3, <1>4, <1>5, <1>6, <1>7, <1>8, <1>9, <1>10, <1>11,
           <1>12, <1>13, <1>14, <1>15, Steps

----------------------------------------------------------------------------
(* What the open loop has passed is settled.                               *)

\* A step of another worker, or of the environment, leaves a walk as it is.
LEMMA WalkKept ==
  ASSUME FO!TypeOK, Busy, Walked, FO!Next, NEW v \in Workers,
         pc'[v] = "accept" => pc[v] \in OpenSteps,
         pc'[v] = "openGet" => pc[v] \in OpenSteps,
         UNCHANGED <<job[v], k[v]>>, failed[v] \subseteq failed'[v],
         pc'[v] \in OpenSteps,
         NEW i \in DOMAIN Messages[job'[v]].fos, i < k'[v]
  PROVE  \/ status'[Messages[job'[v]].fos[i]] # "OPEN"
         \/ Messages[job'[v]].fos[i] \in failed'[v]
<1>1. pc[v] \in OpenSteps /\ job'[v] = job[v] /\ k'[v] = k[v]
  BY DEF OpenSteps
<1>2. job[v] \in FO!MsgIds
  BY <1>1 DEF Busy, OpenSteps
<1>3. Messages[job[v]].fos[i] \in FOs
  BY <1>1, <1>2, Entries
<1>4. status[Messages[job[v]].fos[i]] # "OPEN" \/ Messages[job[v]].fos[i] \in failed[v]
  BY <1>1 DEF Walked
<1> QED BY <1>1, <1>3, <1>4, NeverReopened

\* The loop passes an entry that is answered or that it puts on its list.
LEMMA WalkOn ==
  ASSUME FO!TypeOK, Busy, Walked, FO!Next, NEW w \in Workers,
         pc[w] \in OpenSteps, FO!More(w),
         FO!NextEntry(w), job' = job, failed[w] \subseteq failed'[w],
         status'[FO!At(w)] # "OPEN" \/ FO!At(w) \in failed'[w],
         NEW i \in DOMAIN Messages[job'[w]].fos, i < k'[w]
  PROVE  \/ status'[Messages[job'[w]].fos[i]] # "OPEN"
         \/ Messages[job'[w]].fos[i] \in failed'[w]
<1>1. /\ job[w] \in FO!MsgIds /\ k[w] \in Nat /\ FO!At(w) = Messages[job[w]].fos[k[w]]
  BY Here DEF OpenSteps, FO!TypeOK
<1>2. i \in Nat /\ Messages[job[w]].fos[i] \in FOs
  BY <1>1, Entries
<1>3. k'[w] = k[w] + 1
  BY DEF FO!NextEntry, FO!TypeOK
<1>4. CASE i = k[w]
  BY <1>1, <1>4
<1>5. CASE i < k[w]
  <2>1. status[Messages[job[w]].fos[i]] # "OPEN" \/ Messages[job[w]].fos[i] \in failed[w]
    BY <1>5 DEF Walked
  <2> QED BY <2>1, <1>2, NeverReopened
<1> QED BY <1>1, <1>2, <1>3, <1>4, <1>5

\* Every step keeps the walks.
LEMMA WalkedKept ==
  ASSUME FO!TypeOK, Busy, Walked, FO!Next
  PROVE  Walked'
<1> SUFFICES ASSUME NEW v \in Workers, pc'[v] \in OpenSteps,
                    NEW i \in DOMAIN Messages[job'[v]].fos, i < k'[v]
             PROVE  \/ status'[Messages[job'[v]].fos[i]] # "OPEN"
                    \/ Messages[job'[v]].fos[i] \in failed'[v]
  BY DEF Walked
<1> DEFINE Still == /\ pc'[v] = "accept" => pc[v] \in OpenSteps
                    /\ pc'[v] = "openGet" => pc[v] \in OpenSteps
                    /\ UNCHANGED <<job[v], k[v]>>
                    /\ failed[v] \subseteq failed'[v]
           PassesOn == /\ pc[v] \in OpenSteps /\ FO!More(v) /\ FO!NextEntry(v) /\ job' = job
                       /\ failed[v] \subseteq failed'[v]
                       /\ status'[FO!At(v)] # "OPEN" \/ FO!At(v) \in failed'[v]
<1>1. CASE Still
  BY <1>1, WalkKept
<1>2. CASE PassesOn
  BY <1>2, WalkOn
<1>3. CASE \E w \in Workers, m \in FO!MsgIds : FO!deliver(w, m)
  <2> PICK w \in Workers, m \in FO!MsgIds : FO!deliver(w, m)
    BY <1>3
  <2>1. CASE v = w
    <3>1. k'[v] = 1 /\ job'[v] = m /\ i \in 1..Len(Messages[m].fos)
      BY <2>1, Entries DEF FO!deliver, FO!TypeOK
    <3> QED BY <3>1, Entries
  <2>2. CASE v # w
    BY <2>2, <1>1 DEF FO!deliver, FO!Goto, FO!TypeOK, OpenSteps
  <2> QED BY <2>1, <2>2
<1>4. CASE \E w \in Workers : FO!openGet(w)
  <2> PICK w \in Workers : FO!openGet(w)
    BY <1>4
  <2>1. CASE v # w
    <3>1. Still
      BY <2>1 DEF FO!openGet, FO!Goto, FO!NextEntry, FO!EntryFailed, FO!TypeOK, OpenSteps,
         FO!local, FO!GetCall, FO!Request
    <3> QED BY <3>1, <1>1
  <2>2. CASE v = w /\ FO!Goto(w, "accept") /\ UNCHANGED <<FO!local, budget>>
    <3>1. Still
      BY <2>2 DEF FO!openGet, OpenSteps, FO!local, FO!GetCall, FO!Request
    <3> QED BY <3>1, <1>1
  <2>3. CASE v = w /\ FO!NextEntry(w) /\ UNCHANGED job
    <3>1. /\ pc[v] = "openGet" /\ FO!More(v) /\ UNCHANGED status
          /\ FO!At(v) \in FOs /\ k[v] \in Nat
      BY <2>3, Here DEF FO!openGet, FO!TypeOK, FO!shop, FO!GetCall, FO!Request
    <3>2. k'[v] # k[v]
      BY <2>3, <3>1 DEF FO!NextEntry, FO!TypeOK
    <3>3. \/ status[FO!At(v)] # "OPEN" /\ failed' = failed
          \/ failed' = [failed EXCEPT ![v] = @ \union {FO!At(v)}]
      BY <2>3, <3>2 DEF FO!openGet, FO!EntryFailed, FO!local, FO!GetCall, FO!Request
    <3>4. failed[v] \subseteq failed'[v] /\ (status[FO!At(v)] # "OPEN" \/ FO!At(v) \in failed'[v])
      BY <3>3 DEF FO!TypeOK
    <3>5. PassesOn
      BY <2>3, <3>1, <3>4 DEF OpenSteps
    <3> QED BY <3>5, <1>2
  <2> QED BY <2>1, <2>2, <2>3 DEF FO!openGet, FO!EntryFailed, FO!GetCall, FO!Request
<1>5. CASE \E w \in Workers : FO!acceptFulfillment(w)
  <2> PICK w \in Workers : FO!acceptFulfillment(w)
    BY <1>5
  <2>1. CASE v # w
    <3>1. Still
      BY <2>1 DEF FO!acceptFulfillment, FO!NextEntry, FO!EntryFailed, FO!Goto, FO!TypeOK,
         OpenSteps, FO!AcceptCall, FO!Request
    <3> QED BY <3>1, <1>1
  <2>2. CASE v = w
    <3>1. FO!More(v) /\ FO!At(v) \in FOs
      BY <2>2, Here, AtEntry DEF FO!acceptFulfillment, FO!AcceptCall, FO!Request
    <3>2. PassesOn
      BY <2>2, <3>1 DEF FO!acceptFulfillment, FO!EntryFailed, FO!Accept, FO!TypeOK,
         OpenSteps, FO!AcceptCall, FO!Request
    <3> QED BY <3>2, <1>2
  <2> QED BY <2>1, <2>2
<1>6. CASE \E w \in Workers : \/ FO!openReturns(w) \/ FO!cancelReturns(w)
                              \/ FO!throws(w) \/ FO!crash(w)
  <2>1. Still
    BY <1>6 DEF FO!openReturns, FO!cancelReturns, FO!throws, FO!crash, FO!Leave,
       FO!TypeOK, OpenSteps
  <2> QED BY <2>1, <1>1
<1>7. CASE \E w \in Workers : \/ FO!getOrder(w) \/ FO!cancelGet(w) \/ FO!requestCancellation(w)
                              \/ FO!cancelFulfillmentOrder(w) \/ FO!cancelOrder(w)
  <2> PICK w \in Workers : \/ FO!getOrder(w) \/ FO!cancelGet(w) \/ FO!requestCancellation(w)
                          \/ FO!cancelFulfillmentOrder(w) \/ FO!cancelOrder(w)
    BY <1>7
  <2>1. CASE v # w
    <3>1. Still
      BY <2>1 DEF FO!getOrder, FO!cancelGet, FO!requestCancellation,
         FO!cancelFulfillmentOrder, FO!cancelOrder,
         FO!GetCall, FO!RequestCall, FO!CloseCall, FO!CancelCall, FO!Request,
        FO!Report, FO!CallFails, FO!NextEntry, FO!EntryFailed, FO!Goto, FO!TypeOK, OpenSteps
    <3> QED BY <3>1, <1>1
  <2>2. CASE v = w
    <3>1. pc[w] \notin OpenSteps /\ pc[w] # "idle" /\ job' = job
      BY DEF FO!getOrder, FO!cancelGet, FO!requestCancellation, FO!cancelFulfillmentOrder,
         FO!cancelOrder,
         FO!GetCall, FO!RequestCall, FO!CloseCall, FO!CancelCall, FO!Request,
        FO!Report, FO!CallFails, OpenSteps
    <3>2. Busy'
      BY TypesKept
    <3>3. job[w] \in FO!MsgIds /\ Messages[job[w]].action # "open"
      BY <3>1 DEF Busy
    <3>4. pc'[w] \notin OpenSteps
      BY <3>1, <3>2, <3>3, <2>2 DEF Busy, OpenSteps
    <3> QED BY <3>4, <2>2
  <2> QED BY <2>1, <2>2
<1>8. CASE (\E m \in FO!MsgIds : FO!retry(m)) \/ (\E g \in FOs : FO!ship(g))
  <2>1. Still
    BY <1>8 DEF FO!retry, FO!ship, FO!local, OpenSteps
  <2> QED BY <2>1, <1>1
<1> QED BY <1>3, <1>4, <1>5, <1>6, <1>7, <1>8, Steps

\* An open event that ends has walked past all its entries and failed at none.
LEMMA SettledKept ==
  ASSUME FO!TypeOK, Busy, Walked, FO!OpenedIsSettled, FO!Next
  PROVE  FO!OpenedIsSettled'
<1> SUFFICES ASSUME NEW m \in FO!MsgIds, phase'[m] = "done", Messages[m].action = "open",
                    NEW i \in DOMAIN Messages[m].fos
             PROVE  status'[Messages[m].fos[i]] # "OPEN"
  BY DEF FO!OpenedIsSettled
<1>1. Messages[m].fos[i] \in FOs
  BY Entries
<1>2. CASE phase[m] = "done"
  BY <1>1, <1>2, NeverReopened DEF FO!OpenedIsSettled
<1>3. CASE phase[m] # "done"
  <2>1. \E w \in Workers : (FO!openReturns(w) \/ FO!cancelReturns(w)) /\ job[w] = m
    BY <1>3, Steps DEF FO!deliver, FO!openGet, FO!acceptFulfillment, FO!openReturns,
       FO!getOrder, FO!cancelGet,
      FO!requestCancellation, FO!cancelFulfillmentOrder, FO!cancelOrder, FO!cancelReturns,
      FO!throws, FO!crash,
      FO!GetCall, FO!AcceptCall, FO!RequestCall, FO!CloseCall, FO!CancelCall, FO!Request,
      FO!retry, FO!ship, FO!Leave, FO!CallFails, FO!TypeOK
  <2> PICK w \in Workers : (FO!openReturns(w) \/ FO!cancelReturns(w)) /\ job[w] = m
    BY <2>1
  <2>2. FO!openReturns(w)
    BY DEF FO!cancelReturns, Busy, OpenSteps
  <2>3. failed[w] = {}
    BY <1>3, <2>2 DEF FO!openReturns, FO!Leave, FO!TypeOK
  <2>4. k[w] \in Nat /\ i \in 1..Len(Messages[m].fos) /\ Len(Messages[m].fos) \in Nat
    BY Entries DEF FO!TypeOK
  <2>5. i < k[w]
    BY <2>2, <2>4 DEF FO!openReturns, FO!More, FO!fos
  <2>6. status[Messages[m].fos[i]] # "OPEN"
    BY <2>2, <2>3, <2>5 DEF FO!openReturns, Walked, OpenSteps
  <2> QED BY <1>1, <2>6, NeverReopened
<1> QED BY <1>2, <1>3

\* The invariant is inductive.
LEMMA NextIInv ==
  ASSUME IInv, [FO!Next]_(FO!vars)
  PROVE  IInv'
<1>1. CASE FO!Next
  BY <1>1, TypesKept, WalkedKept, SettledKept DEF IInv
<1>2. CASE UNCHANGED FO!vars
  <2>1. FO!TypeOK' /\ Busy'
    BY <1>2, TypesKept DEF IInv
  <2> QED BY <1>2, <2>1 DEF IInv, FO!vars, FO!shop, FO!local, Walked, FO!OpenedIsSettled
<1> QED BY <1>1, <1>2

----------------------------------------------------------------------------
(* What is reported as cancelled is closed, and stays so.                  *)

Stopped == \A g \in reported \ Manual : status[g] = "CLOSED"

\* A closed fulfillment order stays closed.
LEMMA NeverRevived ==
  ASSUME FO!TypeOK, FO!Next, NEW g \in FOs, status[g] = "CLOSED"
  PROVE  status'[g] = "CLOSED"
<1> USE DEF FO!TypeOK
<1>1. CASE \E w \in Workers : FO!acceptFulfillment(w)
  BY <1>1 DEF FO!acceptFulfillment, FO!Accept, FO!shop, FO!AcceptCall, FO!Request
<1>2. CASE \E w \in Workers : FO!cancelFulfillmentOrder(w) \/ FO!cancelOrder(w)
  BY <1>2 DEF FO!cancelFulfillmentOrder, FO!cancelOrder, FO!Close, FO!Cancel, FO!shop,
     FO!CloseCall, FO!CancelCall, FO!Request
<1>3. CASE \E h \in FOs : FO!ship(h)
  BY <1>3 DEF FO!ship
<1>4. CASE \E w \in Workers : \/ FO!openGet(w) \/ FO!getOrder(w)
                              \/ FO!cancelGet(w) \/ FO!requestCancellation(w)
  BY <1>4 DEF FO!openGet, FO!getOrder, FO!cancelGet, FO!requestCancellation, FO!shop,
     FO!GetCall, FO!RequestCall, FO!Request
<1>5. CASE \E w \in Workers : \/ FO!openReturns(w) \/ FO!cancelReturns(w)
                              \/ FO!throws(w) \/ FO!crash(w)
  BY <1>5 DEF FO!openReturns, FO!cancelReturns, FO!throws, FO!crash, FO!Leave, FO!shop
<1>6. CASE \/ \E w \in Workers, m \in FO!MsgIds : FO!deliver(w, m)
           \/ \E m \in FO!MsgIds : FO!retry(m)
  BY <1>6 DEF FO!deliver, FO!retry, FO!shop
<1> QED BY <1>1, <1>2, <1>3, <1>4, <1>5, <1>6, Steps

\* A fulfillment order is reported when it is found closed or when its order has
\* just been cancelled.
LEMMA ReportedAreClosed ==
  ASSUME FO!TypeOK, Busy, Stopped, FO!Next
  PROVE  Stopped'
<1> SUFFICES ASSUME NEW g \in reported' \ Manual PROVE status'[g] = "CLOSED"
  BY DEF Stopped
<1>1. CASE g \in reported
  BY <1>1, NeverRevived DEF Stopped, FO!TypeOK
<1>2. CASE g \notin reported
  <2>1. \E w \in Workers : /\ FO!getOrder(w) \/ FO!cancelGet(w) \/ FO!cancelOrder(w)
                           /\ FO!Report(w) /\ g = FO!At(w)
    BY <1>2, Steps DEF FO!deliver, FO!openGet, FO!acceptFulfillment, FO!openReturns,
       FO!getOrder, FO!cancelGet,
      FO!requestCancellation, FO!cancelFulfillmentOrder, FO!cancelOrder, FO!cancelReturns,
      FO!throws, FO!crash,
      FO!GetCall, FO!AcceptCall, FO!RequestCall, FO!CloseCall, FO!CancelCall, FO!Request,
      FO!retry, FO!ship, FO!Leave, FO!CallFails, FO!Report
  <2> PICK w \in Workers : /\ FO!getOrder(w) \/ FO!cancelGet(w) \/ FO!cancelOrder(w)
                           /\ FO!Report(w) /\ g = FO!At(w)
    BY <2>1
  <2>2. pc[w] \notin {"idle", "openGet"} /\ FO!More(w)
    BY AtEntry DEF FO!getOrder, FO!cancelGet, FO!cancelOrder, FO!GetCall, FO!CancelCall,
       FO!Request
  <2>3. g \in FOs
    BY <2>2, Here
  <2>4. reported' # reported
    BY <1>2
  <2>5. CASE FO!getOrder(w)
    BY <2>4, <2>5 DEF FO!getOrder
  <2>6. CASE FO!cancelGet(w)
    <3>1. status[g] = "CLOSED"
      BY <2>4, <2>6 DEF FO!cancelGet, FO!CallFails, FO!GetCall, FO!Request
    <3> QED BY <3>1, <2>3, NeverRevived
  <2>7. CASE FO!cancelOrder(w)
    BY <2>3, <2>4, <2>7 DEF FO!cancelOrder, FO!Cancel, FO!CallFails, FO!CancelCall,
       FO!Request
  <2> QED BY <2>5, <2>6, <2>7
<1> QED BY <1>1, <1>2

\* cancelFulfillmentAndOrder: what was reported as cancelled is not fulfilled
\* afterwards.
THEOREM NotShipped == FO!Spec => NotShippedOnceCancelled
<1> DEFINE SInv == FO!TypeOK /\ Busy /\ Stopped
           Keeps == \A g \in FOs \ Manual :
                      g \in reported => (g \in shippedOut' <=> g \in shippedOut)
<1>1. FO!Init => SInv
  BY InitIInv DEF IInv, FO!Init, Stopped
<1>2. SInv /\ [FO!Next]_(FO!vars) => SInv'
  <2> SUFFICES ASSUME SInv, [FO!Next]_(FO!vars) PROVE SInv'
    OBVIOUS
  <2>1. FO!TypeOK' /\ Busy'
    BY TypesKept
  <2>2. Stopped'
    BY ReportedAreClosed DEF FO!vars, FO!shop, Stopped
  <2> QED BY <2>1, <2>2
<1>3. SInv /\ [FO!Next]_(FO!vars) => [Keeps]_(FO!vars)
  <2> SUFFICES ASSUME SInv, FO!Next, NEW g \in FOs \ Manual, g \in reported
               PROVE  g \in shippedOut' <=> g \in shippedOut
    OBVIOUS
  <2>1. status[g] = "CLOSED"
    BY DEF Stopped
  <2> QED BY <2>1, Steps DEF FO!deliver, FO!openGet, FO!acceptFulfillment, FO!openReturns,
             FO!getOrder, FO!cancelGet,
      FO!requestCancellation, FO!cancelFulfillmentOrder, FO!cancelOrder, FO!cancelReturns,
      FO!throws, FO!crash,
      FO!GetCall, FO!AcceptCall, FO!RequestCall, FO!CloseCall, FO!CancelCall, FO!Request,
      FO!retry, FO!ship, FO!Leave, FO!CallFails, FO!Report, FO!Accept, FO!Close,
      FO!Cancel, FO!shop
<1> QED BY <1>1, <1>2, <1>3, PTL DEF FO!Spec, FO!NotShippedOnceCancelled, NotShippedOnceCancelled

----------------------------------------------------------------------------
\* The variables keep their types (FulfillmentOrders' state).
THEOREM Typing == FO!Spec => []FO!TypeOK
<1>1. IInv => FO!TypeOK
  BY DEF IInv
<1> QED BY <1>1, InitIInv, NextIInv, PTL DEF FO!Spec

\* updateOpenedOrders: an open event ends only when Shopify waits for no answer to
\* any of its fulfillment orders.
THEOREM Settled == FO!Spec => []OpenedIsSettled
<1>1. IInv => OpenedIsSettled
  BY DEF IInv, OpenedIsSettled
<1> QED BY <1>1, InitIInv, NextIInv, PTL DEF FO!Spec

----------------------------------------------------------------------------
\* The runs' specifications are those the theorems are about, with the other's variables.
LEMMA OnlyConsumers == ConsumersSpec => Spec
<1>1. BothInit => Init
  BY DEF BothInit
<1>2. [Next /\ UNCHANGED foVars]_<<vars, foVars>> => [Next]_vars
  BY DEF foVars
<1> QED BY <1>1, <1>2, PTL DEF ConsumersSpec, Spec

LEMMA OnlyHandlers == HandlersSpec => FO!Spec
<1>1. BothInit => FO!Init
  BY DEF BothInit
<1>2. [FO!Next /\ UNCHANGED vars]_<<vars, foVars>> => [FO!Next]_(FO!vars)
  BY DEF foVars, FO!vars, FO!shop, FO!local
<1> QED BY <1>1, <1>2, PTL DEF HandlersSpec, FO!Spec
================================================================================
