---------------------------- MODULE RateLimitProofs ----------------------------
(***************************************************************************)
(* Proofs about the two rate limiters, GraphQLRateLimit for any number of  *)
(* requests, costs and rates, and RestRateLimit, as MCGraphQLRateLimit     *)
(* composes it, for any number of callers, plans and step.                 *)
(***************************************************************************)
EXTENDS MCGraphQLRateLimit, CommonTheorems

(***************************************************************************)
(* Arithmetic.                                                             *)
(***************************************************************************)

LEMMA CeilIs ==
  ASSUME NEW n \in Nat, NEW d \in Nat \ {0}
  PROVE  /\ Ceil(n, d) \in Nat
         /\ n =< d * Ceil(n, d)
         /\ n > 0 => Ceil(n, d) > 0
<1> DEFINE q == (n + d - 1) \div d
<1>1. q \in Int /\ d * q =< n + d - 1 /\ n + d - 1 < d * q + d
  OBVIOUS
<1>2. q >= 0
  OBVIOUS
<1>3. n > 0 => q > 0
  OBVIOUS
<1> QED BY <1>1, <1>2, <1>3 DEF Ceil

LEMMA LeastOfTwo ==
  ASSUME NEW i \in Nat, NEW j \in Nat
  PROVE  Min({i, j}) = IF i =< j THEN i ELSE j
<1>1. \E x \in {i, j} : \A y \in {i, j} : x =< y
  OBVIOUS
<1>2. Min({i, j}) \in {i, j} /\ \A y \in {i, j} : Min({i, j}) =< y
  BY <1>1 DEF Min
<1> QED BY <1>2

LEMMA TimesMonotone ==
  ASSUME NEW k \in Nat, NEW i \in Nat, NEW j \in Nat, i =< j
  PROVE  k * i \in Nat /\ k * i =< k * j
OBVIOUS

LEMMA TimesNext ==
  ASSUME NEW k \in Nat, NEW i \in Nat
  PROVE  k * (i + 1) = k * i + k
OBVIOUS

(***************************************************************************)
(* Types of the GraphQL limiter, and the sums of its costs.                *)
(***************************************************************************)

LEMMA Rates ==
  /\ MaximumAvailable \in Nat \ {0} /\ RestoreRate \in Nat \ {0} /\ PlanRate \in Nat \ {0}
  /\ LockTimeout \in Nat \ {0} /\ MaxStalls \in Nat
  /\ IsFiniteSet(Requests) /\ Nobody \notin Requests
  /\ \A c \in Costs : c \in Nat /\ c > 0 /\ c =< MaximumAvailable
BY RateAssumption

\* What the requests of a set cost together.
LEMMA Together ==
  ASSUME TypeOK, NEW S \in SUBSET Requests
  PROVE  /\ Sum(cost, S) \in Nat
         /\ \A T \in SUBSET S : Sum(cost, T) =< Sum(cost, S)
         /\ \A r \in S : Sum(cost, S) = cost[r] + Sum(cost, S \ {r})
         /\ \A r \in Requests : r \notin S => Sum(cost, S \cup {r}) = cost[r] + Sum(cost, S)
<1>1. IsFiniteSet(S) /\ \A x \in Requests : cost[x] \in Nat
  BY Rates, FS_Subset DEF TypeOK
<1>2. Sum(cost, S) \in Nat
  BY <1>1, SumType
<1>3. \A T \in SUBSET S : Sum(cost, T) =< Sum(cost, S)
  BY <1>1, SumPart
<1>4. \A r \in S : Sum(cost, S) = cost[r] + Sum(cost, S \ {r})
  BY <1>1, SumRemove
<1>5. ASSUME NEW r \in Requests, r \notin S PROVE Sum(cost, S \cup {r}) = cost[r] + Sum(cost, S)
  BY <1>1, <1>5, SumAdd
<1> QED BY <1>2, <1>3, <1>4, <1>5

\* What setKey(r) computes.
LEMMA Times ==
  ASSUME TypeOK, NEW r \in Requests
  PROVE  /\ Needed(r) \in Nat /\ Needed(r) > 0
         /\ waitTime(r) \in Nat
         /\ waitTime(r) = 0 <=> Needed(r) =< MaximumAvailable
         /\ keyTtl(r) \in Nat /\ keyTtl(r) > waitTime(r)
         /\ Needed(r) =< RestoreRate * (keyTtl(r) - waitTime(r))
<1>1. Needed(r) \in Nat /\ Needed(r) > 0
  BY Rates DEF TypeOK, Needed
<1>2. /\ Restore(Needed(r)) \in Nat /\ Restore(Needed(r)) > 0
      /\ Needed(r) =< RestoreRate * Restore(Needed(r))
  BY <1>1, Rates, CeilIs DEF Restore
<1>3. waitTime(r) \in Nat /\ (waitTime(r) = 0 <=> Needed(r) =< MaximumAvailable)
  <2>1. CASE Needed(r) =< MaximumAvailable
    BY <2>1, <1>1, Rates DEF waitTime
  <2>2. CASE ~(Needed(r) =< MaximumAvailable)
    <3>1. Needed(r) - MaximumAvailable \in Nat /\ Needed(r) - MaximumAvailable > 0
      BY <2>2, <1>1, Rates
    <3>2. /\ Restore(Needed(r) - MaximumAvailable) \in Nat
          /\ Restore(Needed(r) - MaximumAvailable) > 0
      BY <3>1, Rates, CeilIs DEF Restore
    <3> QED BY <2>2, <3>2 DEF waitTime
  <2> QED BY <2>1, <2>2
<1>4. /\ keyTtl(r) = waitTime(r) + Restore(Needed(r))
      /\ keyTtl(r) - waitTime(r) = Restore(Needed(r))
  BY <1>2, <1>3 DEF keyTtl
<1> QED BY <1>1, <1>2, <1>3, <1>4

LEMMA LimiterTyping ==
  /\ Init => TypeOK
  /\ TypeOK /\ [Next]_vars => TypeOK'
<1>1. Init => TypeOK
  BY Rates, RateAssumption DEF Init, TypeOK, Steps
<1>2. ASSUME TypeOK, [Next]_vars PROVE TypeOK'
  <2> USE DEF Goto, Steps
  <2>t. TypeOK BY <1>2
  <2>1. ASSUME NEW r \in Requests, getConfig(r) PROVE TypeOK'
    BY <2>1, <2>t DEF TypeOK, getConfig
  <2>2. ASSUME NEW r \in Requests, setUnconfiguredKey(r) PROVE TypeOK'
    <3>1. Ceil(cost[r], PlanRate) \in Nat
      BY <2>t, Rates, CeilIs DEF TypeOK
    <3> QED BY <2>2, <2>t, <3>1 DEF TypeOK, setUnconfiguredKey
  <2>3. ASSUME NEW r \in Requests, lock(r) PROVE TypeOK'
    BY <2>3, <2>t, Rates DEF TypeOK, lock
  <2>4. ASSUME NEW r \in Requests, readCosts(r) PROVE TypeOK'
    <3>1. Sum(cost, Live) \in Nat
      <4>1. Live \in SUBSET Requests
        BY DEF Live
      <4> QED BY <4>1, <2>t, Together
    <3> QED BY <2>4, <2>t, <3>1 DEF TypeOK, readCosts
  <2>5. ASSUME NEW r \in Requests, setKey(r) PROVE TypeOK'
    <3>1. waitTime(r) \in Nat /\ keyTtl(r) \in Nat
      BY <2>t, Times
    <3> QED BY <2>5, <2>t, <3>1, Rates DEF TypeOK, setKey
  <2>6. ASSUME NEW r \in Requests, wakeUp(r) PROVE TypeOK'
    BY <2>6, <2>t DEF TypeOK, wakeUp
  <2>7. ASSUME NEW r \in Requests, post(r) PROVE TypeOK'
    <3>1. cost[r] \in Nat
      BY <2>t, Rates DEF TypeOK
    <3>2. bucket' \in 0..MaximumAvailable
      BY <2>7, <2>t, <3>1, Rates DEF TypeOK, post
    <3> QED BY <2>7, <2>t, <3>2 DEF TypeOK, post
  <2>8. ASSUME Tick PROVE TypeOK'
    <3>1. bucket' \in 0..MaximumAvailable
      <4>1. bucket + RestoreRate \in Nat /\ MaximumAvailable \in Nat
        BY <2>t, Rates DEF TypeOK
      <4>2. bucket' = Min({bucket + RestoreRate, MaximumAvailable})
        BY <2>8 DEF Tick
      <4> QED BY <4>1, <4>2, LeastOfTwo
    <3>2. /\ keys' \in [Requests -> Nat] /\ sleep' \in [Requests -> Nat]
          /\ lockLeft' \in 0..LockTimeout /\ stalls' \in 0..MaxStalls
          /\ holder' \in Requests \union {Nobody}
      BY <2>8, <2>t, Rates DEF TypeOK, Tick, Down
    <3> QED BY <2>8, <2>t, <3>1, <3>2 DEF TypeOK, Tick
  <2>9. ASSUME UNCHANGED vars PROVE TypeOK'
    BY <2>9, <2>t DEF TypeOK, vars
  <2> QED BY <1>2, <2>1, <2>2, <2>3, <2>4, <2>5, <2>6, <2>7, <2>8, <2>9 DEF Next, handle
<1> QED BY <1>1, <1>2

(***************************************************************************)
(* The inductive invariant of the GraphQL limiter.                         *)
(***************************************************************************)

\* The lock of a request outlives whatever Redis keeps it waiting.
LockOutlivesStalls == MaxStalls < LockTimeout

\* A request has no key before it writes one, has slept its time when it is ready, and
\* sleeps only when it has to.
Placed ==
  \A r \in Requests :
    /\ pc[r] \in {"new", "unconfigured", "locking", "reading", "writing"} => keys[r] = 0
    /\ pc[r] = "ready" => sleep[r] = 0
    /\ pc[r] = "sleeping" => Needed(r) > MaximumAvailable

\* Who is between its reading of the keys and the writing of its own has the lock.
Locked == \A r \in Requests : pc[r] \in InRedis => holder = r /\ lockLeft > stalls

\* So what it has read is still all there is to read.
ReadsAll == \A r \in Requests : pc[r] = "writing" => Sum(cost, Live) =< total[r]

\* At any time ahead, what is left of the debt and of what the sleepers will spend is
\* covered by the keys that are still there: of the debt and all that is pending, if
\* Shopify restores from now on, and of those who sleep u seconds at least, if it
\* restores only from then on, since it has nothing to restore before.
KeptAfter(t) == {r \in Requests : keys[r] > t}
AsleepFor(u) == {r \in Pending : sleep[r] >= u}
Owed == MaximumAvailable - bucket
Covered ==
  \A t \in Nat :
    /\ Owed + Sum(cost, Pending) =< RestoreRate * t + Sum(cost, KeptAfter(t))
    /\ \A u \in 0..t :
         Sum(cost, AsleepFor(u)) =< RestoreRate * (t - u) + Sum(cost, KeptAfter(t))

\* While somebody is admitted without sleep, there is room for all who may go now.
Admitted(r) == pc[r] = "ready" /\ Needed(r) =< MaximumAvailable
GoNow == {r \in Pending : sleep[r] = 0}
Room == (\E r \in Requests : Admitted(r)) => Owed + Sum(cost, GoNow) =< MaximumAvailable

NobodyRefused == \A r \in Requests : pc[r] = "throttled" => Needed(r) > MaximumAvailable

LimiterInv ==
  /\ TypeOK /\ Placed /\ Locked
  /\ AllConfigured => ReadsAll /\ Covered /\ Room /\ NobodyRefused

LEMMA LimiterInit == Init => LimiterInv
<1> SUFFICES ASSUME Init PROVE LimiterInv
  OBVIOUS
<1>t. TypeOK
  BY LimiterTyping
<1>1. Placed /\ Locked /\ ReadsAll /\ Room /\ NobodyRefused
  BY DEF Init, Placed, Locked, ReadsAll, Room, NobodyRefused, Admitted, InRedis
<1>2. Covered
  <2>1. Pending = {} /\ Owed = 0 /\ \A u : AsleepFor(u) = {}
    BY Rates DEF Init, Pending, Owed, AsleepFor
  <2>2. Sum(cost, {}) = 0
    BY FS_EmptySet, SumEmpty
  <2>3. \A t \in Nat : KeptAfter(t) \in SUBSET Requests
    BY DEF KeptAfter
  <2>4. \A t \in Nat : Sum(cost, KeptAfter(t)) \in Nat
    BY <2>3, <1>t, Together
  <2>5. ASSUME NEW t \in Nat
        PROVE  /\ Owed + Sum(cost, Pending) =< RestoreRate * t + Sum(cost, KeptAfter(t))
               /\ \A u \in 0..t :
                    Sum(cost, AsleepFor(u)) =< RestoreRate * (t - u) + Sum(cost, KeptAfter(t))
    <3>1. \A n \in Nat : RestoreRate * n \in Nat
      BY Rates
    <3>2. RestoreRate * t \in Nat /\ \A u \in 0..t : RestoreRate * (t - u) \in Nat
      BY <3>1
    <3>3. Owed + Sum(cost, Pending) = 0 /\ \A u : Sum(cost, AsleepFor(u)) = 0
      BY <2>1, <2>2
    <3>4. Sum(cost, KeptAfter(t)) \in Nat
      BY <2>4
    <3> QED BY <3>2, <3>3, <3>4
  <2> QED BY <2>5 DEF Covered
<1> QED BY <1>t, <1>1, <1>2 DEF LimiterInv

LEMMA PlacedStep == TypeOK /\ Placed /\ [Next]_vars => Placed'
<1> SUFFICES ASSUME TypeOK, Placed, [Next]_vars PROVE Placed'
  OBVIOUS
<1> USE DEF Goto
<1>t. TypeOK'
  BY LimiterTyping
<1>n. /\ cost' = cost
      /\ \A r \in Requests : pc[r] = "sleeping" => total'[r] = total[r]
  BY DEF TypeOK, Next, handle, getConfig, setUnconfiguredKey, lock, readCosts, setKey, wakeUp,
         post, Tick, vars
<1>1. ASSUME NEW r \in Requests, getConfig(r) PROVE Placed'
  BY <1>1 DEF TypeOK, getConfig, Placed, Needed
<1>2. ASSUME NEW r \in Requests, setUnconfiguredKey(r) PROVE Placed'
  BY <1>2 DEF TypeOK, setUnconfiguredKey, Placed, Needed
<1>3. ASSUME NEW r \in Requests, lock(r) PROVE Placed'
  BY <1>3 DEF TypeOK, lock, Placed, Needed
<1>4. ASSUME NEW r \in Requests, readCosts(r) PROVE Placed'
  BY <1>4 DEF TypeOK, readCosts, Placed, Needed
<1>5. ASSUME NEW r \in Requests, setKey(r) PROVE Placed'
  <2>1. waitTime(r) = 0 <=> Needed(r) =< MaximumAvailable
    BY Times
  <2>2. Needed(r) \in Nat
    BY Times
  <2> HIDE DEF waitTime, keyTtl
  <2> QED BY <1>5, <2>1, <2>2, Rates DEF TypeOK, setKey, Placed, Needed
<1>6. ASSUME NEW r \in Requests, wakeUp(r) PROVE Placed'
  BY <1>6 DEF TypeOK, wakeUp, Placed, Needed
<1>7. ASSUME NEW r \in Requests, post(r) PROVE Placed'
  BY <1>7 DEF TypeOK, post, Placed, Needed
<1>8. ASSUME Tick PROVE Placed'
  BY <1>8 DEF TypeOK, Tick, Down, Placed, Needed
<1>9. ASSUME UNCHANGED vars PROVE Placed'
  BY <1>9 DEF vars, Placed, Needed
<1> QED BY <1>1, <1>2, <1>3, <1>4, <1>5, <1>6, <1>7, <1>8, <1>9 DEF Next, handle

LEMMA LockedStep == LockOutlivesStalls /\ TypeOK /\ Locked /\ [Next]_vars => Locked'
<1> SUFFICES ASSUME LockOutlivesStalls, TypeOK, Locked, [Next]_vars PROVE Locked'
  OBVIOUS
<1> USE DEF Goto, InRedis
<1>1. ASSUME NEW r \in Requests, getConfig(r) PROVE Locked'
  BY <1>1 DEF TypeOK, getConfig, Locked
<1>2. ASSUME NEW r \in Requests, setUnconfiguredKey(r) PROVE Locked'
  BY <1>2 DEF TypeOK, setUnconfiguredKey, Locked
<1>3. ASSUME NEW r \in Requests, lock(r) PROVE Locked'
  BY <1>3, Rates DEF TypeOK, lock, Locked, LockOutlivesStalls
<1>4. ASSUME NEW r \in Requests, readCosts(r) PROVE Locked'
  BY <1>4 DEF TypeOK, readCosts, Locked
<1>5. ASSUME NEW r \in Requests, setKey(r) PROVE Locked'
  BY <1>5 DEF TypeOK, setKey, Locked
<1>6. ASSUME NEW r \in Requests, wakeUp(r) PROVE Locked'
  BY <1>6 DEF TypeOK, wakeUp, Locked
<1>7. ASSUME NEW r \in Requests, post(r) PROVE Locked'
  BY <1>7 DEF TypeOK, post, Locked
<1>8. ASSUME Tick PROVE Locked'
  BY <1>8, Rates DEF TypeOK, Tick, Down, Locked
<1>9. ASSUME UNCHANGED vars PROVE Locked'
  BY <1>9 DEF vars, Locked
<1> QED BY <1>1, <1>2, <1>3, <1>4, <1>5, <1>6, <1>7, <1>8, <1>9 DEF Next, handle

\* Once a request has gone without the config, nothing is claimed any more.
LEMMA StaysUnconfigured == TypeOK /\ [Next]_vars /\ AllConfigured' => AllConfigured
BY DEF TypeOK, Next, handle, getConfig, setUnconfiguredKey, lock, readCosts, setKey, wakeUp,
       post, Tick, vars, Goto, AllConfigured

\* Steps that only move a request between places that nothing is said of.
LEMMA Elsewhere ==
  ASSUME ReadsAll /\ Covered /\ Room /\ NobodyRefused,
         UNCHANGED <<cost, sleep, keys, bucket>>,
         Pending' = Pending,
         \A r \in Requests : pc'[r] = "writing" => pc[r] = "writing" /\ total'[r] = total[r],
         \A r \in Requests : pc'[r] \in {"ready", "throttled"} =>
                               pc'[r] = pc[r] /\ total'[r] = total[r]
  PROVE  (ReadsAll /\ Covered /\ Room /\ NobodyRefused)'
<1>1. Live' = Live /\ Owed' = Owed /\ GoNow' = GoNow
  BY DEF Live, Owed, GoNow
<1>2. \A t : KeptAfter(t)' = KeptAfter(t) /\ AsleepFor(t)' = AsleepFor(t)
  BY DEF KeptAfter, AsleepFor
<1>3. ReadsAll'
  BY <1>1 DEF ReadsAll
<1>4. Covered'
  BY <1>1, <1>2 DEF Covered
<1>5. Room'
  BY <1>1 DEF Room, Admitted, Needed
<1>6. NobodyRefused'
  BY DEF NobodyRefused, Needed
<1> QED BY <1>3, <1>4, <1>5, <1>6

\* setKey: the new key outlives the sleep by as long as everything takes that was on
\* record, and its own cost.
LEMMA CoveredBySetKey ==
  ASSUME TypeOK, Placed, ReadsAll, Covered, NEW r \in Requests, setKey(r)
  PROVE  /\ Covered'
         /\ Pending' = Pending \cup {r} /\ r \notin Pending
         /\ Owed + Sum(cost, Pending) =< total[r]
<1> DEFINE w == waitTime(r)
           l == keyTtl(r)
<1>1. /\ Needed(r) \in Nat /\ w \in Nat /\ l \in Nat /\ l > w
      /\ Needed(r) =< RestoreRate * (l - w)
  BY Times
<1>2. /\ cost' = cost /\ bucket' = bucket /\ pc[r] = "writing"
      /\ keys' = [keys EXCEPT ![r] = l] /\ sleep' = [sleep EXCEPT ![r] = w]
      /\ \E step \in {"ready", "sleeping"} : pc' = [pc EXCEPT ![r] = step]
  BY DEF setKey, Goto
<1> HIDE DEF w, l
<1>3. keys[r] = 0 /\ Sum(cost, Live) =< total[r]
  BY <1>2 DEF Placed, ReadsAll
<1>4. /\ cost[r] \in Nat /\ total[r] \in Nat /\ Owed \in Nat
      /\ Needed(r) = total[r] + cost[r]
  BY Rates DEF TypeOK, Owed, Needed
<1>5. Pending' = Pending \cup {r} /\ r \notin Pending /\ Pending \in SUBSET Requests
  BY <1>2 DEF TypeOK, Pending
<1>6. ASSUME NEW t \in Nat
      PROVE  /\ KeptAfter(t) \in SUBSET Requests /\ r \notin KeptAfter(t)
             /\ t < l => KeptAfter(t)' = KeptAfter(t) \cup {r}
             /\ ~(t < l) => KeptAfter(t)' = KeptAfter(t)
  BY <1>1, <1>2, <1>3 DEF TypeOK, KeptAfter
<1>7. ASSUME NEW u \in Nat
      PROVE  /\ AsleepFor(u) \in SUBSET Pending /\ r \notin AsleepFor(u)
             /\ u =< w => AsleepFor(u)' = AsleepFor(u) \cup {r}
             /\ ~(u =< w) => AsleepFor(u)' = AsleepFor(u)
  BY <1>1, <1>2, <1>5 DEF TypeOK, AsleepFor
<1>8. Owed + Sum(cost, Pending) =< total[r]
  <2>1. KeptAfter(0) = Live
    BY DEF KeptAfter, Live
  <2>2. Owed + Sum(cost, Pending) =< RestoreRate * 0 + Sum(cost, KeptAfter(0))
    BY DEF Covered
  <2>3. Live \in SUBSET Requests /\ Sum(cost, Live) \in Nat /\ Sum(cost, Pending) \in Nat
    BY <1>5, Together DEF Live
  <2>4. RestoreRate * 0 = 0
    BY Rates
  <2> QED BY <1>3, <1>4, <2>1, <2>2, <2>3, <2>4
<1>9. ASSUME NEW t \in Nat
      PROVE  /\ Owed + Sum(cost, Pending \cup {r})
                  =< RestoreRate * t + Sum(cost, KeptAfter(t)')
             /\ \A u \in 0..t : Sum(cost, AsleepFor(u)')
                                  =< RestoreRate * (t - u) + Sum(cost, KeptAfter(t)')
  <2>1. /\ Sum(cost, Pending) \in Nat /\ Sum(cost, KeptAfter(t)) \in Nat
        /\ Sum(cost, Pending \cup {r}) = cost[r] + Sum(cost, Pending)
        /\ Sum(cost, KeptAfter(t) \cup {r}) = cost[r] + Sum(cost, KeptAfter(t))
    BY <1>5, <1>6, Together
  <2>2. ASSUME NEW u \in 0..t
        PROVE  /\ Sum(cost, AsleepFor(u)) \in Nat
               /\ Sum(cost, AsleepFor(u)) =< Sum(cost, Pending)
               /\ Sum(cost, AsleepFor(u) \cup {r}) = cost[r] + Sum(cost, AsleepFor(u))
    BY <1>5, <1>7, Together
  <2>3. RestoreRate * t \in Nat /\ \A u \in 0..t : RestoreRate * (t - u) \in Nat
    <3>1. \A n \in Nat : RestoreRate * n \in Nat
      BY Rates
    <3> QED BY <3>1
  <2>4. /\ Owed + Sum(cost, Pending) =< RestoreRate * t + Sum(cost, KeptAfter(t))
        /\ \A u \in 0..t :
             Sum(cost, AsleepFor(u)) =< RestoreRate * (t - u) + Sum(cost, KeptAfter(t))
    BY DEF Covered
  <2>5. CASE t < l
    <3>1. Sum(cost, KeptAfter(t)') = cost[r] + Sum(cost, KeptAfter(t))
      BY <2>1, <2>5, <1>6
    <3>2. ASSUME NEW u \in 0..t
          PROVE  Sum(cost, AsleepFor(u)') =< RestoreRate * (t - u) + Sum(cost, KeptAfter(t)')
      <4>1. \/ Sum(cost, AsleepFor(u)') = cost[r] + Sum(cost, AsleepFor(u))
            \/ Sum(cost, AsleepFor(u)') = Sum(cost, AsleepFor(u))
        BY <1>7, <2>2
      <4>2. /\ RestoreRate * (t - u) \in Nat /\ Sum(cost, AsleepFor(u)) \in Nat
            /\ Sum(cost, AsleepFor(u)) =< RestoreRate * (t - u) + Sum(cost, KeptAfter(t))
        BY <2>2, <2>3, <2>4
      <4> QED BY <4>1, <4>2, <3>1, <1>4, <2>1
    <3> QED BY <1>4, <2>1, <2>3, <2>4, <3>1, <3>2
  <2>6. CASE ~(t < l)
    <3>1. Sum(cost, KeptAfter(t)') = Sum(cost, KeptAfter(t))
      BY <2>6, <1>6
    <3>2. \A u \in 0..t : u =< w => Needed(r) =< RestoreRate * (t - u)
      <4> SUFFICES ASSUME NEW u \in 0..t, u =< w PROVE Needed(r) =< RestoreRate * (t - u)
        OBVIOUS
      <4>1. l - w \in Nat /\ t - u \in Nat /\ l - w =< t - u
        BY <1>1, <2>6
      <4>2. RestoreRate * (l - w) \in Nat /\ RestoreRate * (l - w) =< RestoreRate * (t - u)
        BY <4>1, Rates, TimesMonotone
      <4>3. RestoreRate * (t - u) \in Nat
        BY <2>3
      <4> QED BY <1>1, <4>2, <4>3
    <3>3. Owed + Sum(cost, Pending \cup {r}) =< RestoreRate * t + Sum(cost, KeptAfter(t)')
      <4>1. Needed(r) =< RestoreRate * (t - 0) /\ t - 0 = t
        BY <1>1, <3>2
      <4> QED BY <1>4, <1>8, <2>1, <2>3, <3>1, <4>1
    <3>4. ASSUME NEW u \in 0..t
          PROVE  Sum(cost, AsleepFor(u)') =< RestoreRate * (t - u) + Sum(cost, KeptAfter(t)')
      <4>0. RestoreRate * (t - u) \in Nat
        BY <2>3
      <4>1. CASE u =< w
        <5>1. Needed(r) =< RestoreRate * (t - u)
          BY <3>2, <4>1
        <5>2. Sum(cost, AsleepFor(u)') = cost[r] + Sum(cost, AsleepFor(u))
          BY <4>1, <1>7, <2>2
        <5>3. Sum(cost, AsleepFor(u)) \in Nat /\ Sum(cost, AsleepFor(u)) =< Sum(cost, Pending)
          BY <2>2
        <5> QED BY <1>4, <1>8, <2>1, <3>1, <4>0, <5>1, <5>2, <5>3
      <4>2. CASE ~(u =< w)
        BY <4>2, <1>7, <2>4, <3>1
      <4> QED BY <4>1, <4>2
    <3> QED BY <3>3, <3>4
  <2> QED BY <2>5, <2>6
<1>10. Covered'
  <2>1. Owed' = Owed /\ Pending' = Pending \cup {r}
    BY <1>2, <1>5 DEF Owed
  <2> QED BY <1>2, <1>9, <2>1 DEF Covered
<1> QED BY <1>5, <1>8, <1>10

LEMMA AfterSetKey ==
  ASSUME TypeOK, Placed, Locked, ReadsAll, Covered, Room, NobodyRefused,
         NEW r \in Requests, setKey(r)
  PROVE  (ReadsAll /\ Covered /\ Room /\ NobodyRefused)'
<1>1. /\ Needed(r) \in Nat /\ waitTime(r) \in Nat
      /\ waitTime(r) = 0 <=> Needed(r) =< MaximumAvailable
  BY Times
<1> DEFINE w == waitTime(r)
<1>2. /\ cost' = cost /\ bucket' = bucket /\ total' = total /\ pc[r] = "writing"
      /\ sleep' = [sleep EXCEPT ![r] = w]
      /\ pc' = [pc EXCEPT ![r] = IF w = 0 THEN "ready" ELSE "sleeping"]
  BY DEF setKey, Goto
<1> HIDE DEF w
<1>3. /\ Covered'
      /\ Pending' = Pending \cup {r} /\ r \notin Pending
      /\ Owed + Sum(cost, Pending) =< total[r]
  BY CoveredBySetKey
<1>4. ReadsAll'
  BY <1>2 DEF Locked, InRedis, ReadsAll, TypeOK
<1>5. NobodyRefused'
  BY <1>2 DEF TypeOK, NobodyRefused, Needed
<1>6. Room'
  <2>1. Pending \in SUBSET Requests /\ GoNow \in SUBSET Pending
    BY DEF Pending, GoNow
  <2>2. /\ cost[r] \in Nat /\ total[r] \in Nat /\ Owed \in Nat
        /\ Needed(r) = total[r] + cost[r] /\ Owed' = Owed
    BY <1>2, Rates DEF TypeOK, Owed, Needed
  <2>3. CASE w = 0
    <3>1. GoNow' = GoNow \cup {r} /\ r \notin GoNow
      BY <1>2, <1>3, <2>1, <2>3 DEF TypeOK, GoNow
    <3>2. /\ Sum(cost, GoNow \cup {r}) = cost[r] + Sum(cost, GoNow)
          /\ Sum(cost, GoNow) \in Nat /\ Sum(cost, Pending) \in Nat
          /\ Sum(cost, GoNow) =< Sum(cost, Pending)
      BY <2>1, <3>1, Together
    <3>3. Needed(r) =< MaximumAvailable
      BY <1>1, <2>3 DEF w
    <3>4. Owed + (cost[r] + Sum(cost, GoNow)) =< MaximumAvailable
      BY <1>3, <2>2, <3>2, <3>3, Rates
    <3>5. (Owed + Sum(cost, GoNow))' =< MaximumAvailable
      BY <1>2, <2>2, <3>1, <3>2, <3>4
    <3> QED BY <3>5 DEF Room
  <2>4. CASE w # 0
    <3>1. GoNow' = GoNow
      BY <1>2, <1>3, <2>1, <2>4 DEF TypeOK, GoNow
    <3>2. \A q \in Requests : Admitted(q)' => Admitted(q)
      BY <1>2, <2>4 DEF TypeOK, Admitted, Needed
    <3> QED BY <1>2, <2>2, <3>1, <3>2 DEF Room
  <2> QED BY <2>3, <2>4
<1> QED BY <1>3, <1>4, <1>5, <1>6

LEMMA AfterPost ==
  ASSUME TypeOK, Placed, ReadsAll, Covered, Room, NobodyRefused,
         NEW r \in Requests, pc[r] = "ready", post(r)
  PROVE  (ReadsAll /\ Covered /\ Room /\ NobodyRefused)'
<1>1. UNCHANGED <<cost, total, sleep, keys>>
  BY DEF post
<1>2. Pending' = Pending \ {r} /\ r \in Pending /\ Pending \in SUBSET Requests
  BY DEF TypeOK, Pending, post, Goto
<1>3. r \in GoNow /\ GoNow \in SUBSET Pending /\ GoNow' = GoNow \ {r}
  BY <1>1, <1>2 DEF Placed, GoNow
<1>4. /\ \A t : KeptAfter(t)' = KeptAfter(t) /\ AsleepFor(t)' \in SUBSET AsleepFor(t)
      /\ \A t : AsleepFor(t) \in SUBSET Requests
      /\ Live' = Live
  BY <1>1, <1>2 DEF KeptAfter, AsleepFor, Live
<1>5. /\ cost[r] \in Nat /\ Owed \in Nat /\ bucket \in Nat /\ bucket = MaximumAvailable - Owed
      /\ MaximumAvailable \in Nat
  BY Rates DEF TypeOK, Owed
<1>6. /\ Sum(cost, Pending) = cost[r] + Sum(cost, Pending \ {r})
      /\ Sum(cost, GoNow) = cost[r] + Sum(cost, GoNow \ {r})
      /\ Sum(cost, Pending \ {r}) \in Nat /\ Sum(cost, GoNow \ {r}) \in Nat
  BY <1>2, <1>3, Together
<1>7. /\ cost[r] =< bucket => Owed' = Owed + cost[r]
      /\ cost[r] > bucket => Owed' = Owed
  BY <1>5 DEF post, Owed
<1>8. Owed' =< Owed + cost[r] /\ Owed' \in Nat
  BY <1>5, <1>7
<1>9. ReadsAll'
  BY <1>1, <1>4 DEF TypeOK, ReadsAll, post, Goto
<1>10. Covered'
  <2> SUFFICES ASSUME NEW t \in Nat
               PROVE  /\ (Owed + Sum(cost, Pending))' =< RestoreRate * t + Sum(cost, KeptAfter(t))
                      /\ \A u \in 0..t : Sum(cost, AsleepFor(u)')
                                           =< RestoreRate * (t - u) + Sum(cost, KeptAfter(t))
    BY <1>1, <1>4 DEF Covered
  <2>1. KeptAfter(t) \in SUBSET Requests
    BY DEF KeptAfter
  <2>2. Sum(cost, KeptAfter(t)) \in Nat
    BY <2>1, Together
  <2>3. RestoreRate * t \in Nat /\ \A u \in 0..t : RestoreRate * (t - u) \in Nat
    <3>1. \A n \in Nat : RestoreRate * n \in Nat
      BY Rates
    <3> QED BY <3>1
  <2>4. (Owed + Sum(cost, Pending))' =< RestoreRate * t + Sum(cost, KeptAfter(t))
    <3>1. Owed + Sum(cost, Pending) =< RestoreRate * t + Sum(cost, KeptAfter(t))
      BY DEF Covered
    <3>2. (Owed + Sum(cost, Pending))' = Owed' + Sum(cost, Pending \ {r})
      BY <1>1, <1>2
    <3> QED BY <1>5, <1>6, <1>8, <2>2, <2>3, <3>1, <3>2
  <2>5. ASSUME NEW u \in 0..t
        PROVE  Sum(cost, AsleepFor(u)') =< RestoreRate * (t - u) + Sum(cost, KeptAfter(t))
    <3>1. Sum(cost, AsleepFor(u)) =< RestoreRate * (t - u) + Sum(cost, KeptAfter(t))
      BY DEF Covered
    <3>2. AsleepFor(u)' \in SUBSET AsleepFor(u) /\ AsleepFor(u) \in SUBSET Requests
      BY <1>4
    <3>3. /\ Sum(cost, AsleepFor(u)') =< Sum(cost, AsleepFor(u))
          /\ Sum(cost, AsleepFor(u)) \in Nat /\ Sum(cost, AsleepFor(u)') \in Nat
      BY <3>2, Together
    <3> QED BY <2>2, <2>3, <3>1, <3>3
  <2> QED BY <2>4, <2>5
<1>11. Room'
  <2>1. \A q \in Requests : Admitted(q)' => Admitted(q)
    BY <1>1 DEF TypeOK, Admitted, Needed, post, Goto
  <2>2. (Owed + Sum(cost, GoNow))' = Owed' + Sum(cost, GoNow \ {r})
    BY <1>1, <1>3
  <2> QED BY <1>5, <1>6, <1>8, <2>1, <2>2 DEF Room
<1>12. NobodyRefused'
  <2>1. ASSUME Needed(r) =< MaximumAvailable PROVE cost[r] =< bucket
    <3>1. Owed + Sum(cost, GoNow) =< MaximumAvailable
      BY <2>1 DEF Room, Admitted
    <3> QED BY <1>5, <1>6, <3>1
  <2>2. Needed(r) \in Nat
    BY Times
  <2>3. \A q \in Requests : /\ Needed(q)' = Needed(q)
                            /\ q # r => pc'[q] = pc[q]
                            /\ pc'[r] = "throttled" => cost[r] > bucket
    BY <1>1, <1>5 DEF TypeOK, Needed, post, Goto
  <2> QED BY <1>5, <2>1, <2>2, <2>3 DEF NobodyRefused
<1> QED BY <1>9, <1>10, <1>11, <1>12

\* Whoever wakes has slept because it had to, and was counted among those who go now.
LEMMA AfterWakeUp ==
  ASSUME TypeOK, Placed, ReadsAll, Covered, Room, NobodyRefused,
         NEW r \in Requests, wakeUp(r)
  PROVE  (ReadsAll /\ Covered /\ Room /\ NobodyRefused)'
<1>1. /\ UNCHANGED <<cost, total, sleep, keys, bucket>>
      /\ pc[r] = "sleeping" /\ pc' = [pc EXCEPT ![r] = "ready"]
  BY DEF wakeUp, Goto
<1>2. Pending' = Pending
  BY <1>1 DEF TypeOK, Pending
<1>3. Live' = Live /\ Owed' = Owed /\ GoNow' = GoNow
  BY <1>1, <1>2 DEF Live, Owed, GoNow
<1>4. \A t : KeptAfter(t)' = KeptAfter(t) /\ AsleepFor(t)' = AsleepFor(t)
  BY <1>1, <1>2 DEF KeptAfter, AsleepFor
<1>5. ReadsAll'
  BY <1>1, <1>3 DEF TypeOK, ReadsAll
<1>6. Covered'
  BY <1>1, <1>2, <1>3, <1>4 DEF Covered
<1>7. Room'
  <2>1. Needed(r) > MaximumAvailable /\ Needed(r) \in Nat /\ MaximumAvailable \in Nat
    BY <1>1, Times, Rates DEF Placed
  <2>2. \A q \in Requests : Admitted(q)' => Admitted(q)
    BY <1>1, <2>1 DEF TypeOK, Admitted, Needed
  <2> QED BY <1>1, <1>3, <2>2 DEF Room
<1>8. NobodyRefused'
  BY <1>1 DEF TypeOK, NobodyRefused, Needed
<1> QED BY <1>5, <1>6, <1>7, <1>8

\* A second later everything that was so at t + 1 is so at t.
LEMMA AfterTick ==
  ASSUME TypeOK, Placed, ReadsAll, Covered, NobodyRefused, Tick
  PROVE  (ReadsAll /\ Covered /\ Room /\ NobodyRefused)'
<1>1. /\ UNCHANGED <<cost, pc, total>>
      /\ keys' = [r \in Requests |-> Down(keys[r])]
      /\ sleep' = [r \in Requests |-> Down(sleep[r])]
      /\ bucket' = Min({bucket + RestoreRate, MaximumAvailable})
      /\ \A r \in Requests : pc[r] # "ready" /\ (pc[r] = "sleeping" => sleep[r] > 0)
  BY DEF Tick, Passing
<1>2. /\ Pending' = Pending /\ Pending \in SUBSET Requests
      /\ \A r \in Pending : sleep[r] \in Nat /\ sleep[r] > 0 /\ sleep'[r] = sleep[r] - 1
  BY <1>1 DEF TypeOK, Pending, Down
<1>3. \A t \in Nat : /\ KeptAfter(t)' = KeptAfter(t + 1) /\ AsleepFor(t)' = AsleepFor(t + 1)
                     /\ KeptAfter(t + 1) \in SUBSET Requests
  <2> SUFFICES ASSUME NEW t \in Nat
               PROVE  /\ KeptAfter(t)' = KeptAfter(t + 1) /\ AsleepFor(t)' = AsleepFor(t + 1)
                      /\ KeptAfter(t + 1) \in SUBSET Requests
    OBVIOUS
  <2>1. \A r \in Requests : keys'[r] > t <=> keys[r] > t + 1
    BY <1>1 DEF TypeOK, Down
  <2>2. \A r \in Pending : sleep'[r] >= t <=> sleep[r] >= t + 1
    BY <1>2
  <2> QED BY <1>2, <2>1, <2>2 DEF KeptAfter, AsleepFor
<1>4. AsleepFor(1) = Pending
  BY <1>2 DEF AsleepFor
<1>5. /\ Owed \in Nat /\ RestoreRate \in Nat
      /\ Owed' \in Nat
      /\ Owed' = 0 \/ Owed' = Owed - RestoreRate
  <2>1. bucket \in Nat /\ RestoreRate \in Nat /\ MaximumAvailable \in Nat
        /\ bucket =< MaximumAvailable
    BY Rates DEF TypeOK
  <2>2. bucket' = IF bucket + RestoreRate =< MaximumAvailable
                    THEN bucket + RestoreRate ELSE MaximumAvailable
    BY <1>1, <2>1, LeastOfTwo
  <2> QED BY <2>1, <2>2 DEF Owed
<1>6. ReadsAll'
  <2>1. Live \in SUBSET Requests /\ Live' \in SUBSET Live
    BY <1>1 DEF TypeOK, Live, Down
  <2>2. /\ Sum(cost, Live') =< Sum(cost, Live)
        /\ Sum(cost, Live) \in Nat /\ Sum(cost, Live') \in Nat
    BY <2>1, Together
  <2>3. \A r \in Requests : total[r] \in Nat
    BY DEF TypeOK
  <2> QED BY <1>1, <2>2, <2>3 DEF ReadsAll
<1>7. Covered'
  <2> SUFFICES ASSUME NEW t \in Nat
               PROVE  /\ Owed' + Sum(cost, Pending)
                           =< RestoreRate * t + Sum(cost, KeptAfter(t + 1))
                      /\ \A u \in 0..t : Sum(cost, AsleepFor(u + 1))
                                           =< RestoreRate * (t - u) + Sum(cost, KeptAfter(t + 1))
    BY <1>1, <1>2, <1>3 DEF Covered
  <2>1. t + 1 \in Nat
    OBVIOUS
  <2>2. /\ Owed + Sum(cost, Pending) =< RestoreRate * (t + 1) + Sum(cost, KeptAfter(t + 1))
        /\ \A u \in 0..(t + 1) : Sum(cost, AsleepFor(u))
             =< RestoreRate * ((t + 1) - u) + Sum(cost, KeptAfter(t + 1))
    BY <2>1 DEF Covered
  <2>3. \A u \in 0..t : u + 1 \in 0..(t + 1) /\ (t + 1) - (u + 1) = t - u
    OBVIOUS
  <2>4. \A u \in 0..t :
          Sum(cost, AsleepFor(u + 1)) =< RestoreRate * (t - u) + Sum(cost, KeptAfter(t + 1))
    BY <2>2, <2>3
  <2>5. Sum(cost, Pending) =< RestoreRate * t + Sum(cost, KeptAfter(t + 1))
    <3>1. 0 \in 0..t /\ 0 + 1 = 1 /\ t - 0 = t
      OBVIOUS
    <3>2. Sum(cost, AsleepFor(0 + 1)) =< RestoreRate * (t - 0) + Sum(cost, KeptAfter(t + 1))
      BY <2>4
    <3> QED BY <3>1, <3>2, <1>4
  <2>6. /\ RestoreRate * (t + 1) = RestoreRate * t + RestoreRate /\ RestoreRate * t \in Nat
        /\ Sum(cost, Pending) \in Nat /\ Sum(cost, KeptAfter(t + 1)) \in Nat
    <3>1. RestoreRate * (t + 1) = RestoreRate * t + RestoreRate
      BY Rates, TimesNext
    <3>2. RestoreRate * t \in Nat
      BY Rates
    <3> QED BY <3>1, <3>2, <1>2, <1>3, Together
  <2>7. Owed' + Sum(cost, Pending) =< RestoreRate * t + Sum(cost, KeptAfter(t + 1))
    <3>1. CASE Owed' = 0
      BY <3>1, <2>5, <2>6
    <3>2. CASE Owed' = Owed - RestoreRate
      BY <3>2, <2>2, <2>6, <1>5
    <3> QED BY <1>5, <3>1, <3>2
  <2> QED BY <2>4, <2>7
<1>8. Room'
  BY <1>1 DEF Room, Admitted
<1>9. NobodyRefused'
  BY <1>1 DEF NobodyRefused, Needed
<1> QED BY <1>6, <1>7, <1>8, <1>9

LEMMA LimiterStep == LockOutlivesStalls /\ LimiterInv /\ [Next]_vars => LimiterInv'
<1> SUFFICES ASSUME LockOutlivesStalls, LimiterInv, [Next]_vars PROVE LimiterInv'
  OBVIOUS
<1>t. TypeOK /\ Placed /\ Locked
  BY DEF LimiterInv
<1>1. TypeOK' /\ Placed' /\ Locked'
  BY <1>t, LimiterTyping, PlacedStep, LockedStep
<1>2. ASSUME AllConfigured' PROVE (ReadsAll /\ Covered /\ Room /\ NobodyRefused)'
  <2>1. AllConfigured /\ ReadsAll /\ Covered /\ Room /\ NobodyRefused
    BY <1>2, <1>t, StaysUnconfigured DEF LimiterInv
  <2> USE DEF Goto
  <2>2. ASSUME NEW r \in Requests, getConfig(r) \/ lock(r)
        PROVE  (ReadsAll /\ Covered /\ Room /\ NobodyRefused)'
    <3>1. UNCHANGED <<cost, sleep, keys, bucket, total>> /\ Pending' = Pending
      BY <2>2, <1>t DEF TypeOK, getConfig, lock, Pending
    <3>2. \A q \in Requests : pc'[q] = "writing" \/ pc'[q] \in {"ready", "throttled"}
                                => pc'[q] = pc[q]
      BY <2>2, <1>t DEF TypeOK, getConfig, lock
    <3> QED BY <2>1, <3>1, <3>2, Elsewhere
  <2>3. ASSUME NEW r \in Requests, setUnconfiguredKey(r) PROVE FALSE
    BY <2>1, <2>3 DEF setUnconfiguredKey, AllConfigured
  <2>4. ASSUME NEW r \in Requests, readCosts(r)
        PROVE  (ReadsAll /\ Covered /\ Room /\ NobodyRefused)'
    <3>1. /\ UNCHANGED <<cost, sleep, keys, bucket>> /\ pc[r] = "reading"
          /\ pc' = [pc EXCEPT ![r] = "writing"]
          /\ total' = [total EXCEPT ![r] = Sum(cost, Live)]
      BY <2>4 DEF readCosts
    <3>2. Pending' = Pending /\ Live' = Live /\ Owed' = Owed /\ GoNow' = GoNow
      BY <3>1, <1>t DEF TypeOK, Pending, Live, Owed, GoNow
    <3>3. \A t : KeptAfter(t)' = KeptAfter(t) /\ AsleepFor(t)' = AsleepFor(t)
      BY <3>1, <3>2 DEF KeptAfter, AsleepFor
    <3>4. ReadsAll'
      <4>1. Live \in SUBSET Requests
        BY DEF Live
      <4>2. Sum(cost, Live) \in Nat
        BY <4>1, <1>t, Together
      <4> QED BY <2>1, <3>1, <3>2, <4>2, <1>t DEF TypeOK, ReadsAll
    <3>5. Covered'
      BY <2>1, <3>1, <3>2, <3>3 DEF Covered
    <3>6. Room'
      <4>1. \A q \in Requests : Admitted(q)' => Admitted(q)
        BY <3>1, <1>t DEF TypeOK, Admitted, Needed
      <4> QED BY <2>1, <3>1, <3>2, <4>1 DEF Room
    <3>7. NobodyRefused'
      BY <2>1, <3>1, <1>t DEF TypeOK, NobodyRefused, Needed
    <3> QED BY <3>4, <3>5, <3>6, <3>7
  <2>5. ASSUME NEW r \in Requests, post(r)
        PROVE  (ReadsAll /\ Covered /\ Room /\ NobodyRefused)'
    <3>1. pc[r] = "ready"
      BY <2>1, <2>5 DEF post, AllConfigured
    <3> QED BY <2>1, <2>5, <3>1, <1>t, AfterPost
  <2>6. CASE UNCHANGED vars
    BY <2>1, <2>6 DEF vars, ReadsAll, Live, Covered, Owed, Pending, KeptAfter, AsleepFor, Room,
                      Admitted, Needed, GoNow, NobodyRefused
  <2> QED BY <1>t, <2>1, <2>2, <2>3, <2>4, <2>5, <2>6, AfterSetKey, AfterWakeUp, AfterTick
      DEF Next, handle
<1> QED BY <1>1, <1>2 DEF LimiterInv

LEMMA LimiterInvariant == LockOutlivesStalls => (Spec => []LimiterInv)
<1> SUFFICES ASSUME LockOutlivesStalls PROVE Spec => []LimiterInv
  OBVIOUS
<1>1. LimiterInv /\ [Next]_vars => LimiterInv'
  BY LimiterStep
<1> QED BY LimiterInit, <1>1, PTL DEF Spec

\* What Shopify has not restored, and what sleepers are about to spend, is covered by
\* live keys: no key expires too early and no reading of the keys misses one, for
\* whatever requests, costs and rates (keyTtl and waitTime of rate-limit.util.ts, read
\* and written under the lock).
THEOREM DebtCovered == LockOutlivesStalls => (Spec => []DebtIsOnRecord)
<1> SUFFICES ASSUME LockOutlivesStalls PROVE Spec => []DebtIsOnRecord
  OBVIOUS
<1>1. LimiterInv => DebtIsOnRecord
  <2> SUFFICES ASSUME LimiterInv, AllConfigured
               PROVE  (MaximumAvailable - bucket) + Sum(cost, Pending) =< Sum(cost, Live)
    BY DEF DebtIsOnRecord
  <2>1. Owed + Sum(cost, Pending) =< RestoreRate * 0 + Sum(cost, KeptAfter(0))
    BY DEF LimiterInv, Covered
  <2>2. KeptAfter(0) = Live /\ Live \in SUBSET Requests
    BY DEF KeptAfter, Live
  <2>3. RestoreRate * 0 = 0 /\ Sum(cost, Live) \in Nat
    BY <2>2, Rates, Together DEF LimiterInv
  <2> QED BY <2>1, <2>2, <2>3 DEF Owed
<1> QED BY LimiterInvariant, <1>1, PTL

\* A request that was told it need not wait is not refused (the admission at once of
\* rate-limit.util.ts), whoever else was admitted, put to sleep or woken since.
THEOREM AdmittedGo == LockOutlivesStalls => (Spec => []AdmittedNotRefused)
<1> SUFFICES ASSUME LockOutlivesStalls PROVE Spec => []AdmittedNotRefused
  OBVIOUS
<1>1. LimiterInv => AdmittedNotRefused
  BY DEF LimiterInv, NobodyRefused, AdmittedNotRefused, Needed
<1> QED BY LimiterInvariant, <1>1, PTL

(***************************************************************************)
(* How long a request sleeps.                                              *)
(***************************************************************************)
\* What all requests cost together.
Demand == Sum(cost, Requests)

\* A sleep is no longer than Shopify takes to restore what is asked for beyond a full bucket.
SleepsInTime ==
  \A r \in Requests :
    sleep[r] > 0 => RestoreRate * (sleep[r] - 1) < Demand - MaximumAvailable
ReadsWithin == \A r \in Requests : pc[r] = "writing" => Needed(r) =< Demand
SleepInv == TypeOK /\ Placed /\ SleepsInTime /\ ReadsWithin

\* A second less of it would not do.
LEMMA CeilTight ==
  ASSUME NEW n \in Nat, NEW d \in Nat \ {0}, n > 0
  PROVE  d * (Ceil(n, d) - 1) < n
<1> DEFINE q == (n + d - 1) \div d
<1>1. q \in Int /\ d * q =< n + d - 1
  OBVIOUS
<1>2. d * (q - 1) = d * q - d
  BY <1>1
<1> HIDE DEF q
<1>3. d * q \in Int
  BY <1>1
<1>4. d * (q - 1) < n
  BY <1>1, <1>2, <1>3
<1> QED BY <1>4 DEF Ceil, q

LEMMA SleepStep == SleepInv /\ [Next]_vars => SleepInv'
<1> SUFFICES ASSUME SleepInv, [Next]_vars PROVE SleepInv'
  OBVIOUS
<1>t. /\ TypeOK /\ Placed /\ TypeOK' /\ Placed' /\ SleepsInTime /\ ReadsWithin
  BY LimiterTyping, PlacedStep DEF SleepInv
<1>c. cost' = cost /\ Demand' = Demand
  BY DEF Next, handle, getConfig, setUnconfiguredKey, lock, readCosts, setKey, wakeUp, post, Tick,
         vars, Demand
<1>d. Demand \in Nat
  BY <1>t, Together DEF Demand
<1>0. ASSUME UNCHANGED <<sleep, total>>,
             \A r \in Requests : pc'[r] = "writing" => pc[r] = "writing"
      PROVE  SleepInv'
  BY <1>0, <1>t, <1>c DEF SleepInv, SleepsInTime, ReadsWithin, Needed
<1>1. ASSUME NEW r \in Requests,
             getConfig(r) \/ setUnconfiguredKey(r) \/ lock(r) \/ wakeUp(r) \/ post(r)
      PROVE  SleepInv'
  <2>1. UNCHANGED <<sleep, total>>
    BY <1>1 DEF getConfig, setUnconfiguredKey, lock, wakeUp, post
  <2>2. \A q \in Requests : pc'[q] = "writing" => pc[q] = "writing"
    BY <1>1, <1>t DEF TypeOK, getConfig, setUnconfiguredKey, lock, wakeUp, post, Goto
  <2> QED BY <1>0, <2>1, <2>2
<1>2. ASSUME NEW r \in Requests, readCosts(r) PROVE SleepInv'
  <2>1. /\ pc[r] = "reading" /\ total' = [total EXCEPT ![r] = Sum(cost, Live)]
        /\ pc' = [pc EXCEPT ![r] = "writing"] /\ sleep' = sleep
    BY <1>2 DEF readCosts, Goto
  <2>2. Sum(cost, Live) + cost[r] =< Demand
    <3>1. Live \in SUBSET (Requests \ {r}) /\ Requests \ {r} \in SUBSET Requests
      BY <1>t, <2>1 DEF Live, Placed
    <3>2. Sum(cost, Live) =< Sum(cost, Requests \ {r})
      BY <1>t, <3>1, Together
    <3>3. Demand = cost[r] + Sum(cost, Requests \ {r})
      BY <1>t, Together DEF Demand
    <3>4. cost[r] \in Nat /\ Sum(cost, Live) \in Nat /\ Sum(cost, Requests \ {r}) \in Nat
      <4>1. Live \in SUBSET Requests /\ cost[r] \in Nat
        BY <1>t, Rates DEF Live, TypeOK
      <4> QED BY <1>t, <3>1, <4>1, Together
    <3> QED BY <3>2, <3>3, <3>4
  <2>3. ReadsWithin'
    BY <1>t, <1>c, <2>1, <2>2 DEF ReadsWithin, Needed, TypeOK
  <2>4. SleepsInTime'
    BY <1>t, <1>c, <2>1 DEF SleepsInTime
  <2> QED BY <1>t, <2>3, <2>4 DEF SleepInv
<1>3. ASSUME NEW r \in Requests, setKey(r) PROVE SleepInv'
  <2>1. /\ pc[r] = "writing" /\ sleep' = [sleep EXCEPT ![r] = waitTime(r)] /\ total' = total
        /\ pc' = [pc EXCEPT ![r] = IF waitTime(r) = 0 THEN "ready" ELSE "sleeping"]
    BY <1>3 DEF setKey, Goto
  <2>2. Needed(r) \in Nat /\ Needed(r) =< Demand
    BY <1>t, <2>1, Times DEF ReadsWithin
  <2>3. waitTime(r) > 0 => RestoreRate * (waitTime(r) - 1) < Demand - MaximumAvailable
    <3> SUFFICES ASSUME waitTime(r) > 0
                 PROVE  RestoreRate * (waitTime(r) - 1) < Demand - MaximumAvailable
      OBVIOUS
    <3>1. Needed(r) > MaximumAvailable
      BY <1>t, Times, <2>2, Rates
    <3> DEFINE n == Needed(r) - MaximumAvailable
    <3>2. n \in Nat /\ n > 0 /\ n =< Demand - MaximumAvailable
      BY <1>d, <2>2, <3>1, Rates
    <3>3. waitTime(r) = Ceil(n, RestoreRate)
      BY <2>2, <3>1, Rates DEF waitTime, Restore
    <3> HIDE DEF n
    <3>4. RestoreRate * (waitTime(r) - 1) < n
      BY <3>2, <3>3, Rates, CeilTight
    <3>5. waitTime(r) \in Nat /\ RestoreRate * (waitTime(r) - 1) \in Int
      BY <1>t, Times, Rates
    <3> QED BY <1>d, <3>2, <3>4, <3>5, Rates
  <2> HIDE DEF waitTime
  <2>4. SleepsInTime'
    BY <1>t, <1>c, <2>1, <2>3 DEF SleepsInTime, TypeOK
  <2>5. ReadsWithin'
    BY <1>t, <1>c, <2>1 DEF ReadsWithin, Needed, TypeOK
  <2> QED BY <1>t, <2>4, <2>5 DEF SleepInv
<1>4. CASE Tick
  <2>1. /\ UNCHANGED <<pc, total>> /\ sleep' = [r \in Requests |-> Down(sleep[r])]
    BY <1>4 DEF Tick
  <2>2. ReadsWithin'
    BY <1>t, <1>c, <2>1 DEF ReadsWithin, Needed
  <2>3. SleepsInTime'
    <3> SUFFICES ASSUME NEW r \in Requests, sleep'[r] > 0
                 PROVE  RestoreRate * (sleep'[r] - 1) < Demand - MaximumAvailable
      BY <1>c DEF SleepsInTime
    <3>1. sleep[r] \in Nat /\ sleep'[r] = sleep[r] - 1
      BY <1>t, <2>1 DEF TypeOK, Down
    <3>2. RestoreRate * (sleep[r] - 1) < Demand - MaximumAvailable
      BY <1>t, <3>1 DEF SleepsInTime
    <3>3. /\ RestoreRate * (sleep'[r] - 1) =< RestoreRate * (sleep[r] - 1)
          /\ RestoreRate * (sleep'[r] - 1) \in Nat /\ RestoreRate * (sleep[r] - 1) \in Nat
      <4>1. sleep'[r] - 1 \in Nat /\ sleep[r] - 1 \in Nat /\ sleep'[r] - 1 =< sleep[r] - 1
        BY <3>1
      <4>2. RestoreRate * (sleep[r] - 1) \in Nat
        BY <4>1, Rates
      <4> QED BY <4>1, <4>2, Rates, TimesMonotone
    <3> QED BY <1>d, <3>2, <3>3, Rates
  <2> QED BY <1>t, <2>2, <2>3 DEF SleepInv
<1>5. CASE UNCHANGED vars
  BY <1>0, <1>5 DEF vars
<1> QED BY <1>1, <1>2, <1>3, <1>4, <1>5 DEF Next, handle

\* Nobody sleeps behind others for longer than Shopify takes to restore what all of them
\* cost (waitTime of rate-limit.util.ts), however they come in and with or without the lock: a
\* request adds its cost to those of others, each counted once, so that waiting times do not
\* pile up.
THEOREM WaitsBounded == Spec => []SleepsInTime
<1>1. Init => SleepInv
  <2> SUFFICES ASSUME Init PROVE SleepInv
    OBVIOUS
  <2>1. TypeOK /\ Placed
    BY LimiterTyping, LimiterInit DEF LimiterInv
  <2> QED BY <2>1 DEF SleepInv, Init, SleepsInTime, ReadsWithin
<1>2. SleepInv => SleepsInTime
  BY DEF SleepInv
<1> QED BY <1>1, <1>2, SleepStep, PTL DEF Spec

(***************************************************************************)
(* The REST limiter.                                                       *)
(***************************************************************************)
limit == Rest!getRateLimit

Counted == [pc : {"counted"}, count : Nat]
Asleep  == [pc : {"asleep"}, left : Nat]

RestTypeInv ==
  /\ limit \in Nat \ {0}
  /\ counter \in Nat /\ life \in Nat /\ quiet \in 0..Step
  /\ close \in BOOLEAN /\ crowded \in BOOLEAN
  /\ caller \in [Clients -> {Rest!Idle} \cup Counted \cup Asleep]

\* The next ones are about a life of the counter in which no more were counted than are
\* allowed.  A sleeper wakes before the counter expires, and not sooner than a step
\* after the last request.
Awaited ==
  \A c \in Clients :
    /\ caller[c].pc = "counted" => caller[c].count > 0 /\ caller[c].count =< counter
    /\ caller[c].pc = "asleep" =>
         /\ caller[c].left =< life
         /\ caller[c].left =< Step * counter
         /\ caller[c].left + quiet >= Step

\* Any two wait, or are going to wait, for times that are a step apart.
StepApart(i, j) == i + Step =< j \/ j + Step =< i
Spaced ==
  \A c, d \in Clients : c # d =>
    /\ caller[c].pc = "counted" /\ caller[d].pc = "counted" => caller[c].count # caller[d].count
    /\ caller[c].pc = "asleep" /\ caller[d].pc = "asleep" =>
         StepApart(caller[c].left, caller[d].left)
    /\ caller[c].pc = "counted" /\ caller[d].pc = "asleep" =>
         StepApart(Step * caller[c].count, caller[d].left)

RestInv ==
  /\ RestTypeInv
  /\ ~crowded => counter =< limit /\ ~close /\ Awaited /\ Spaced

LEMMA RestConstants ==
  /\ Plans \subseteq Nat /\ Default \in Nat \ {0} /\ Step \in Nat \ {0} /\ MaxCount \in Nat
BY RestAssumption DEF Rest!ConstantsFit

LEMMA RestInit == Rest!Init => RestInv
<1> SUFFICES ASSUME Rest!Init PROVE RestInv
  OBVIOUS
<1> USE RestConstants DEF Rest!Init, Rest!Idle
<1>1. limit \in Nat \ {0}
  <2>1. plan \in Nat
    OBVIOUS
  <2> QED BY <2>1 DEF limit, Rest!getRateLimit
<1>2. RestTypeInv
  <2>1. caller \in [Clients -> {Rest!Idle} \cup Counted \cup Asleep]
    BY DEF Rest!Idle
  <2>2. counter \in Nat /\ life \in Nat /\ quiet \in 0..Step
    OBVIOUS
  <2>3. close \in BOOLEAN /\ crowded \in BOOLEAN
    OBVIOUS
  <2> QED BY <1>1, <2>1, <2>2, <2>3 DEF RestTypeInv
<1>3. counter =< limit
  BY <1>1
<1> QED BY <1>2, <1>3 DEF RestInv, Awaited, Spaced

\* What a caller is doing, by its pc.
LEMMA CallerKinds ==
  ASSUME RestTypeInv, NEW c \in Clients
  PROVE  /\ caller[c] = Rest!Idle <=> caller[c].pc = "idle"
         /\ caller[c].pc = "counted" => caller[c] \in Counted
         /\ caller[c].pc = "asleep" => caller[c] \in Asleep
         /\ caller[c].pc \in {"idle", "counted", "asleep"}
BY DEF RestTypeInv, Rest!Idle, Counted, Asleep

\* Whatever happens to c, the others keep what they have.
LEMMA CallerChanges ==
  ASSUME RestTypeInv, NEW c \in Clients, NEW x \in {Rest!Idle} \cup Counted \cup Asleep,
         caller' = [caller EXCEPT ![c] = x]
  PROVE  /\ caller' \in [Clients -> {Rest!Idle} \cup Counted \cup Asleep]
         /\ caller'[c] = x /\ \A d \in Clients \ {c} : caller'[d] = caller[d]
BY DEF RestTypeInv

LEMMA AfterCount ==
  ASSUME RestInv, NEW c \in Clients, Rest!Count(c)
  PROVE  RestInv'
<1> USE RestConstants
<1> DEFINE x == [pc |-> "counted", count |-> counter']
<1>t. RestTypeInv
  BY DEF RestInv
<1>1. /\ counter' = counter + 1 /\ limit' = limit
      /\ UNCHANGED <<life, quiet, close>>
      /\ crowded' = (crowded \/ counter' > limit)
      /\ caller' = [caller EXCEPT ![c] = x] /\ x \in Counted
  BY <1>t DEF Rest!Count, limit, Rest!getRateLimit, RestTypeInv, Counted
<1>2. /\ caller' \in [Clients -> {Rest!Idle} \cup Counted \cup Asleep]
      /\ caller'[c] = x /\ \A d \in Clients \ {c} : caller'[d] = caller[d]
  BY <1>t, <1>1, CallerChanges
<1>3. x.pc = "counted" /\ x.count = counter + 1
  BY <1>1
<1> HIDE DEF x
<1>4. RestTypeInv'
  BY <1>t, <1>1, <1>2 DEF RestTypeInv
<1>5. ASSUME ~crowded' PROVE (counter =< limit /\ ~close /\ Awaited /\ Spaced)'
  <2>0. ~crowded /\ ~(counter + 1 > limit) /\ counter \in Nat /\ limit \in Nat
    BY <1>t, <1>1, <1>5 DEF RestTypeInv
  <2>1. ~crowded /\ counter + 1 =< limit /\ ~close /\ Awaited /\ Spaced
    BY <2>0 DEF RestInv
  <2>2. Step * (counter + 1) = Step * counter + Step /\ Step * counter \in Nat
    BY <1>t, TimesNext DEF RestTypeInv
  <2>3. \A d \in Clients : caller[d].pc = "asleep" => caller[d].left \in Nat
    BY <1>t, CallerKinds DEF Asleep
  <2>4. \A d \in Clients : caller[d].pc = "counted" => caller[d].count \in Nat
    BY <1>t, CallerKinds DEF Counted
  <2>5. Awaited'
    BY <1>t, <1>1, <1>2, <1>3, <2>1, <2>2, <2>3, <2>4 DEF Awaited, RestTypeInv
  <2>6. ASSUME NEW d \in Clients, d # c, caller[d].pc = "asleep"
        PROVE  StepApart(Step * (counter + 1), caller[d].left)
    <3>1. caller[d].left =< Step * counter
      BY <2>1, <2>6 DEF Awaited
    <3> QED BY <2>2, <2>3, <2>6, <3>1 DEF StepApart
  <2>7. \A d \in Clients : d # c /\ caller[d].pc = "counted" => caller[d].count # counter + 1
    BY <1>t, <2>1, <2>4 DEF Awaited, RestTypeInv
  <2>8. Spaced'
    BY <1>2, <1>3, <2>1, <2>6, <2>7 DEF Spaced
  <2> QED BY <1>1, <2>1, <2>5, <2>8
<1> QED BY <1>4, <1>5 DEF RestInv

LEMMA AfterSleep ==
  ASSUME RestInv, NEW c \in Clients, Rest!Sleep(c)
  PROVE  RestInv'
<1> USE RestConstants
<1> DEFINE x == [pc |-> "asleep", left |-> Step * caller[c].count]
<1>t. RestTypeInv
  BY DEF RestInv
<1>k. /\ caller[c] \in Counted /\ caller[c].pc = "counted" /\ caller[c].count \in Nat
      /\ Step * caller[c].count \in Nat
  <2>1. caller[c] \in Counted /\ caller[c].pc = "counted" /\ caller[c].count \in Nat
    BY <1>t, CallerKinds DEF Rest!Sleep, Counted
  <2> QED BY <2>1
<1>1. /\ UNCHANGED <<counter, quiet, close, crowded>> /\ limit' = limit
      /\ life' = IF counter = 0 THEN 0 ELSE limit * Step
      /\ caller' = [caller EXCEPT ![c] = x] /\ x \in Asleep
  BY <1>t, <1>k DEF Rest!Sleep, Rest!NewLife, Rest!ttl, limit, Rest!getRateLimit, RestTypeInv,
                    Asleep
<1>2. /\ caller' \in [Clients -> {Rest!Idle} \cup Counted \cup Asleep]
      /\ caller'[c] = x /\ \A d \in Clients \ {c} : caller'[d] = caller[d]
  BY <1>t, <1>1, CallerChanges
<1>3. x.pc = "asleep" /\ x.left = Step * caller[c].count
  OBVIOUS
<1> HIDE DEF x
<1>4. RestTypeInv'
  <2>1. limit * Step \in Nat
    BY <1>t DEF RestTypeInv
  <2> QED BY <1>t, <1>1, <1>2, <2>1 DEF RestTypeInv
<1>5. ASSUME ~crowded' PROVE (counter =< limit /\ ~close /\ Awaited /\ Spaced)'
  <2>1. ~crowded /\ counter =< limit /\ ~close /\ Awaited /\ Spaced
    BY <1>1, <1>5 DEF RestInv
  <2>2. caller[c].count > 0 /\ caller[c].count =< counter
    BY <1>k, <2>1 DEF Awaited
  <2>3. /\ Step =< Step * caller[c].count
        /\ Step * caller[c].count =< Step * counter
        /\ Step * counter =< limit * Step
        /\ Step * counter \in Nat /\ limit * Step \in Nat
    <3>1. counter \in Nat /\ limit \in Nat
      BY <1>t DEF RestTypeInv
    <3>2. Step * caller[c].count =< Step * counter
      BY <1>k, <2>2, <3>1, TimesMonotone
    <3>3. Step * counter =< Step * limit /\ Step * limit = limit * Step
      BY <2>1, <3>1, TimesMonotone
    <3>4. Step * 1 =< Step * caller[c].count
      BY <1>k, <2>2, TimesMonotone
    <3> QED BY <3>1, <3>2, <3>3, <3>4
  <2>4. life' = limit * Step
    BY <1>t, <1>k, <1>1, <2>2 DEF RestTypeInv
  <2>5. \A d \in Clients : /\ caller[d].pc = "asleep" => caller[d].left \in Nat
                           /\ caller[d].pc = "counted" => caller[d].count \in Nat
    BY <1>t, CallerKinds DEF Asleep, Counted
  <2>6. Awaited'
    <3> SUFFICES ASSUME NEW d \in Clients
                 PROVE  /\ caller'[d].pc = "counted" =>
                              caller'[d].count > 0 /\ caller'[d].count =< counter
                        /\ caller'[d].pc = "asleep" =>
                             /\ caller'[d].left =< life'
                             /\ caller'[d].left =< Step * counter
                             /\ caller'[d].left + quiet >= Step
      BY <1>1 DEF Awaited
    <3>q. quiet \in Nat
      BY <1>t DEF RestTypeInv
    <3>1. CASE d = c
      BY <3>1, <3>q, <1>2, <1>3, <1>k, <2>3, <2>4
    <3>2. CASE d # c
      <4>1. caller'[d] = caller[d]
        BY <3>2, <1>2
      <4>2. /\ caller[d].pc = "counted" => caller[d].count > 0 /\ caller[d].count =< counter
            /\ caller[d].pc = "asleep" => /\ caller[d].left =< Step * counter
                                          /\ caller[d].left + quiet >= Step
        BY <2>1 DEF Awaited
      <4> QED BY <4>1, <4>2, <2>3, <2>4, <2>5
    <3> QED BY <3>1, <3>2
  <2>7. ASSUME NEW d \in Clients, d # c, caller[d].pc = "counted"
        PROVE  StepApart(Step * caller[d].count, Step * caller[c].count)
    <3> DEFINE i == caller[c].count
               j == caller[d].count
    <3>1. i \in Nat /\ j \in Nat /\ i # j
      BY <1>k, <2>1, <2>5, <2>7 DEF Spaced
    <3>2. \/ i + 1 =< j
          \/ j + 1 =< i
      BY <3>1
    <3>3. /\ Step * (i + 1) = Step * i + Step /\ Step * (j + 1) = Step * j + Step
          /\ Step * i \in Nat /\ Step * j \in Nat
      BY <3>1, TimesNext
    <3>4. /\ i + 1 =< j => Step * (i + 1) =< Step * j
          /\ j + 1 =< i => Step * (j + 1) =< Step * i
      <4>1. i + 1 \in Nat /\ j + 1 \in Nat /\ Step \in Nat
        BY <3>1
      <4> HIDE DEF i, j
      <4> QED BY <3>1, <4>1, TimesMonotone
    <3> HIDE DEF i, j
    <3>5. Step * i + Step =< Step * j \/ Step * j + Step =< Step * i
      BY <3>2, <3>3, <3>4
    <3> QED BY <3>5 DEF StepApart, i, j
  <2>8. \A d \in Clients : d # c /\ caller[d].pc = "asleep" =>
          StepApart(Step * caller[c].count, caller[d].left)
    BY <1>k, <2>1 DEF Spaced
  <2>9. \A i, j : StepApart(i, j) <=> StepApart(j, i)
    BY DEF StepApart
  <2>10. Spaced'
    <3> SUFFICES ASSUME NEW e \in Clients, NEW d \in Clients, e # d
                 PROVE  /\ caller'[e].pc = "counted" /\ caller'[d].pc = "counted" =>
                             caller'[e].count # caller'[d].count
                        /\ caller'[e].pc = "asleep" /\ caller'[d].pc = "asleep" =>
                             StepApart(caller'[e].left, caller'[d].left)
                        /\ caller'[e].pc = "counted" /\ caller'[d].pc = "asleep" =>
                             StepApart(Step * caller'[e].count, caller'[d].left)
      BY DEF Spaced
    <3>1. CASE e # c /\ d # c
      BY <3>1, <1>2, <2>1 DEF Spaced
    <3>2. CASE e = c
      BY <3>2, <1>2, <1>3, <2>8
    <3>3. CASE d = c
      BY <3>3, <1>2, <1>3, <2>7, <2>8, <2>9
    <3> QED BY <3>1, <3>2, <3>3
  <2> QED BY <1>1, <2>1, <2>6, <2>10
<1> QED BY <1>4, <1>5 DEF RestInv

\* A request goes out, or its process dies.
LEMMA AfterGo ==
  ASSUME RestInv, NEW c \in Clients, Rest!Go(c) \/ Rest!Crash(c)
  PROVE  RestInv'
<1> USE RestConstants
<1>t. RestTypeInv
  BY DEF RestInv
<1>1. /\ UNCHANGED <<counter, life, crowded>> /\ limit' = limit
      /\ caller' = [caller EXCEPT ![c] = Rest!Idle]
  BY DEF Rest!Go, Rest!Crash, limit, Rest!getRateLimit
<1>2. /\ caller' \in [Clients -> {Rest!Idle} \cup Counted \cup Asleep]
      /\ caller'[c] = Rest!Idle /\ \A d \in Clients \ {c} : caller'[d] = caller[d]
  BY <1>t, <1>1, CallerChanges
<1>3. Rest!Idle.pc = "idle"
  BY DEF Rest!Idle
<1>4. /\ quiet' \in 0..Step /\ close' \in BOOLEAN
      /\ \/ quiet' = quiet /\ close' = close
         \/ /\ quiet' = 0 /\ close' = (close \/ quiet < Step)
            /\ caller[c].pc = "asleep" /\ caller[c].left = 0
  <2>1. \/ quiet' = quiet /\ close' = close
        \/ /\ quiet' = 0 /\ close' = (close \/ quiet < Step)
           /\ caller[c].pc = "asleep" /\ caller[c].left = 0
    BY Zenon DEF Rest!Go, Rest!Crash
  <2>2. quiet' \in 0..Step
    BY <1>t, <2>1 DEF RestTypeInv
  <2>3. close' \in BOOLEAN
    BY <1>t, <2>1 DEF RestTypeInv
  <2> QED BY <2>1, <2>2, <2>3
<1>5. RestTypeInv'
  BY <1>t, <1>1, <1>2, <1>4 DEF RestTypeInv
<1>6. ASSUME ~crowded' PROVE (counter =< limit /\ ~close /\ Awaited /\ Spaced)'
  <2>1. ~crowded /\ counter =< limit /\ ~close /\ Awaited /\ Spaced
    BY <1>1, <1>6 DEF RestInv
  <2>2. ~close'
    BY <1>4, <1>t, <2>1 DEF Awaited, RestTypeInv
  <2>3. ASSUME NEW d \in Clients, d # c, caller[d].pc = "asleep"
        PROVE  caller[d].left + quiet' >= Step
    <3>1. caller[d].left \in Nat /\ quiet \in Nat
      BY <1>t, <2>3, CallerKinds DEF Asleep, RestTypeInv
    <3>2. CASE quiet' = quiet
      BY <3>2, <2>1, <2>3 DEF Awaited
    <3>3. CASE quiet' = 0 /\ caller[c].pc = "asleep" /\ caller[c].left = 0
      <4>1. StepApart(0, caller[d].left)
        BY <2>1, <2>3, <3>3 DEF Spaced
      <4> QED BY <3>1, <3>3, <4>1 DEF StepApart
    <3> QED BY <1>4, <3>2, <3>3
  <2>4. Awaited'
    BY <1>1, <1>2, <1>3, <2>1, <2>3 DEF Awaited
  <2>5. Spaced'
    BY <1>2, <1>3, <2>1 DEF Spaced
  <2> QED BY <1>1, <2>1, <2>2, <2>4, <2>5
<1> QED BY <1>5, <1>6 DEF RestInv

LEMMA AfterRestTick ==
  ASSUME RestInv, Rest!Tick
  PROVE  RestInv'
<1> USE RestConstants
<1>t. RestTypeInv
  BY DEF RestInv
<1>1. /\ UNCHANGED <<close, crowded>> /\ limit' = limit
      /\ life' = IF life > 0 THEN life - 1 ELSE 0
      /\ counter' = IF life = 1 THEN 0 ELSE counter
      /\ quiet' = IF quiet < Step THEN quiet + 1 ELSE quiet
      /\ \A c \in Clients : /\ caller[c].pc = "asleep" => caller[c].left > 0
                            /\ caller[c].pc # "counted"
  BY DEF Rest!Tick, limit, Rest!getRateLimit
<1>2. /\ DOMAIN caller' = Clients
      /\ \A c \in Clients :
           caller'[c] = IF caller[c].pc = "asleep"
                          THEN [caller[c] EXCEPT !.left = caller[c].left - 1] ELSE caller[c]
  BY DEF Rest!Tick
<1>3. ASSUME NEW c \in Clients, caller[c].pc = "asleep"
      PROVE  /\ caller[c].left \in Nat /\ caller[c].left > 0
             /\ caller'[c] \in Asleep /\ caller'[c].pc = "asleep"
             /\ caller'[c].left = caller[c].left - 1
  <2>1. caller[c] \in Asleep /\ caller[c].left > 0
    BY <1>t, <1>1, <1>3, CallerKinds
  <2>2. caller'[c] = [caller[c] EXCEPT !.left = caller[c].left - 1]
    BY <1>2, <1>3
  <2> QED BY <2>1, <2>2 DEF Asleep
<1>4. ASSUME NEW c \in Clients, caller[c].pc # "asleep"
      PROVE  caller'[c] = Rest!Idle /\ caller'[c].pc = "idle"
  BY <1>t, <1>1, <1>2, <1>4, CallerKinds
<1>5. RestTypeInv'
  <2>1. \A c \in Clients : caller'[c] \in {Rest!Idle} \cup Counted \cup Asleep
    BY <1>3, <1>4
  <2>2. caller' \in [Clients -> {Rest!Idle} \cup Counted \cup Asleep]
    <3>1. caller' = [c \in Clients |-> caller'[c]]
      BY DEF Rest!Tick
    <3> QED BY <2>1, <3>1
  <2>3. counter' \in Nat /\ life' \in Nat /\ quiet' \in 0..Step
    BY <1>t, <1>1 DEF RestTypeInv
  <2> QED BY <1>t, <1>1, <2>2, <2>3 DEF RestTypeInv
<1>6. ASSUME ~crowded' PROVE (counter =< limit /\ ~close /\ Awaited /\ Spaced)'
  <2>1. ~crowded /\ counter =< limit /\ ~close /\ Awaited /\ Spaced
    BY <1>1, <1>6 DEF RestInv
  <2>2. counter' =< limit'
    BY <1>t, <1>1, <2>1 DEF RestTypeInv
  <2>3. ASSUME NEW c \in Clients, caller[c].pc = "asleep"
        PROVE  /\ caller'[c].left =< life'
               /\ caller'[c].left =< Step * counter'
               /\ caller'[c].left + quiet' >= Step
    <3>1. /\ caller[c].left =< life /\ caller[c].left =< Step * counter
          /\ caller[c].left + quiet >= Step
      BY <2>1, <2>3 DEF Awaited
    <3>2. /\ caller[c].left \in Nat /\ caller[c].left > 0
          /\ caller'[c].left = caller[c].left - 1
      BY <1>3, <2>3
    <3>3. life \in Nat /\ quiet \in 0..Step /\ counter \in Nat
      BY <1>t DEF RestTypeInv
    <3>4. caller'[c].left =< life' /\ caller'[c].left + quiet' >= Step
      BY <1>1, <3>1, <3>2, <3>3
    <3>5. caller'[c].left =< Step * counter'
      <4>1. CASE life = 1
        <5>1. counter' = 0 /\ Step * 0 = 0 /\ caller'[c].left = 0
          BY <4>1, <1>1, <3>1, <3>2
        <5> QED BY <5>1
      <4>2. CASE life # 1
        <5>1. counter' = counter /\ Step * counter \in Nat
          BY <4>2, <1>1, <3>3
        <5> QED BY <5>1, <3>1, <3>2
      <4> QED BY <4>1, <4>2
    <3> QED BY <3>4, <3>5
  <2>4. Awaited'
    BY <1>3, <1>4, <2>3 DEF Awaited
  <2>5. Spaced'
    <3> SUFFICES ASSUME NEW e \in Clients, NEW d \in Clients, e # d,
                        caller'[e].pc = "asleep", caller'[d].pc = "asleep"
                 PROVE  StepApart(caller'[e].left, caller'[d].left)
      BY <1>3, <1>4 DEF Spaced
    <3>1. caller[e].pc = "asleep" /\ caller[d].pc = "asleep"
      BY <1>4
    <3>2. StepApart(caller[e].left, caller[d].left)
      BY <2>1, <3>1 DEF Spaced
    <3>3. /\ caller[e].left \in Nat /\ caller'[e].left = caller[e].left - 1
          /\ caller[d].left \in Nat /\ caller'[d].left = caller[d].left - 1
      BY <1>3, <3>1
    <3> QED BY <3>2, <3>3 DEF StepApart
  <2> QED BY <1>1, <2>1, <2>2, <2>4, <2>5
<1> QED BY <1>5, <1>6 DEF RestInv

\* Requests to the REST interface go out a step apart, unless more than are allowed were
\* counted in one life of the counter (handleRateLimit of rate-limit.util.ts, its ttl
\* and its sleep).
THEOREM RequestsApart == LimitersSpec => []RequestsSpaced
<1>1. LimitersInit => (part = "rest" => RestInv)
  BY RestInit DEF LimitersInit
<1>2. (part = "rest" => RestInv) /\ [LimitersNext]_<<part, vars, restPart>>
        => (part = "rest" => RestInv)'
  <2> SUFFICES ASSUME part = "rest" => RestInv, [LimitersNext]_<<part, vars, restPart>>,
                      part' = "rest"
               PROVE  RestInv'
    OBVIOUS
  <2>1. CASE LimitersNext
    <3>1. part = "rest" /\ Rest!Next
      BY <2>1 DEF LimitersNext
    <3> QED BY <3>1, AfterCount, AfterSleep, AfterGo, AfterRestTick DEF Rest!Next
  <2>2. CASE UNCHANGED <<part, vars, restPart>>
    BY <2>2 DEF restPart, RestInv, RestTypeInv, Awaited, Spaced, limit, Rest!getRateLimit
  <2> QED BY <2>1, <2>2
<1>3. (part = "rest" => RestInv) => RequestsSpaced
  BY DEF RestInv, RequestsSpaced, Rest!RequestsSpaced
<1> QED BY <1>1, <1>2, <1>3, PTL DEF LimitersSpec
================================================================================
