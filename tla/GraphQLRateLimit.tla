--------------------------- MODULE GraphQLRateLimit ---------------------------
(***************************************************************************)
(* RateLimitUtil.handleShopifyGraphQLRateLimit: before a GraphQL request   *)
(* is sent its cost is written to Redis under a key of its own that        *)
(* expires when the cost has been restored. A request that does not fit    *)
(* beside the live keys sleeps first. Shopify's side is a bucket of        *)
(* MaximumAvailable points that regains RestoreRate points a second and    *)
(* refuses what it cannot pay for.                                         *)
(*                                                                         *)
(* One tick is one second, the unit of every expiry the code computes. The *)
(* 10 ms it adds to a sleep put the request after the tick. A request that *)
(* may go is sent before the next tick: a slower network would let a key   *)
(* expire before its cost is spent.                                        *)
(***************************************************************************)
EXTENDS Integers, FiniteSets, FiniteSetsExt, Sums

CONSTANTS
  Requests,          \* the requests of one implementation
  Costs,             \* the query costs they may have
  MaximumAvailable,  \* throttleStatus.maximumAvailable
  RestoreRate,       \* throttleStatus.restoreRate
  PlanRate,          \* restoreRate of the plan, used before the config is known
  StartsConfigured,  \* may the config be in Redis from the start, may it not?
  LockTimeout,       \* seconds after which Redis drops the lock
  MaxStalls          \* bound: seconds Redis keeps a holder of the lock waiting

Nobody == "nobody"   \* holds the lock when no request does

ASSUME RateAssumption ==
  /\ IsFiniteSet(Requests) /\ Nobody \notin Requests
  /\ MaximumAvailable \in Nat \ {0}
  /\ RestoreRate \in Nat \ {0}
  /\ PlanRate \in Nat \ {0}
  /\ Costs \subseteq 1..MaximumAvailable
  /\ StartsConfigured \subseteq BOOLEAN
  /\ LockTimeout \in Nat \ {0}
  /\ MaxStalls \in Nat

VARIABLES
  cost,        \* requireQueryCost of each request
  pc,          \* where each request is
  total,       \* totalRequestedCost as each request has read it
  sleep,       \* seconds each request still sleeps
  keys,        \* seconds each request's cost key has to live; 0: no key
  holder,      \* who holds the lock
  lockLeft,    \* seconds until Redis drops it
  configured,  \* is the rate limit config stored?
  bucket,      \* points Shopify has for us
  stalls       \* stalls left

vars == <<cost, pc, total, sleep, keys, holder, lockLeft, configured, bucket, stalls>>

Steps == {"new", "unconfigured", "locking", "reading", "writing", "sleeping",
          "ready", "readyUnconfigured", "sent", "sentUnconfigured",
          "throttled", "throttledUnconfigured"}
Throttled == {"throttled", "throttledUnconfigured"}
Answered == {"sent", "sentUnconfigured"} \union Throttled

Ceil(n, d) == (n + d - 1) \div d

Live == {r \in Requests : keys[r] > 0}

Init ==
  /\ cost \in [Requests -> Costs]
  /\ pc = [r \in Requests |-> "new"]
  /\ total = [r \in Requests |-> 0]
  /\ sleep = [r \in Requests |-> 0]
  /\ keys = [r \in Requests |-> 0]
  /\ holder = Nobody
  /\ lockLeft = 0
  /\ configured \in StartsConfigured
  /\ bucket = MaximumAvailable
  /\ stalls = MaxStalls

Goto(r, step) == pc' = [pc EXCEPT ![r] = step]

----------------------------------------------------------------------------
\* get(rateLimitConfigKey)
getConfig(r) ==
  /\ pc[r] = "new"
  /\ Goto(r, IF configured THEN "locking" ELSE "unconfigured")
  /\ UNCHANGED <<cost, total, sleep, keys, holder, lockLeft, configured, bucket, stalls>>

\* No config yet: the key lives as long as this cost alone takes to come back,
\* and the request goes at once.
setUnconfiguredKey(r) ==
  /\ pc[r] = "unconfigured"
  /\ keys' = [keys EXCEPT ![r] = Ceil(cost[r], PlanRate)]
  /\ Goto(r, "readyUnconfigured")
  /\ UNCHANGED <<cost, total, sleep, holder, lockLeft, configured, bucket, stalls>>

\* Variant: no lock is taken.
lockNothing(r) ==
  /\ pc[r] = "locking"
  /\ Goto(r, "reading")
  /\ UNCHANGED <<cost, total, sleep, keys, holder, lockLeft, configured, bucket, stalls>>

lock(r) ==
  /\ pc[r] = "locking"
  /\ holder = Nobody
  /\ holder' = r
  /\ lockLeft' = LockTimeout
  /\ Goto(r, "reading")
  /\ UNCHANGED <<cost, total, sleep, keys, configured, bucket, stalls>>

\* keys(pattern) and mGet(keys): a key that expires between the two counts 0.
readCosts(r) ==
  /\ pc[r] = "reading"
  /\ total' = [total EXCEPT ![r] = Sum(cost, Live)]
  /\ Goto(r, "writing")
  /\ UNCHANGED <<cost, sleep, keys, holder, lockLeft, configured, bucket, stalls>>

Needed(r)  == total[r] + cost[r]
Restore(n) == Ceil(n, RestoreRate)

waitTime(r) == IF Needed(r) =< MaximumAvailable THEN 0
               ELSE Restore(Needed(r) - MaximumAvailable)

\* Variant: the key lives only until its own cost is back.
ownCostTtl(r) == waitTime(r) + Restore(cost[r])

keyTtl(r) == waitTime(r) + Restore(Needed(r))

\* set(key, cost, PX), and releaseLock() on the way out: it drops the lock only
\* if it is still ours. Nobody waits for it.
setKey(r) ==
  /\ pc[r] = "writing"
  /\ keys' = [keys EXCEPT ![r] = keyTtl(r)]
  /\ sleep' = [sleep EXCEPT ![r] = waitTime(r)]
  /\ Goto(r, IF waitTime(r) = 0 THEN "ready" ELSE "sleeping")
  /\ holder' = IF holder = r THEN Nobody ELSE holder
  /\ lockLeft' = IF holder = r THEN 0 ELSE lockLeft
  /\ UNCHANGED <<cost, total, configured, bucket, stalls>>

\* Variant: a request that has slept asks once more, beside its own key.
askAgain(r) ==
  /\ pc[r] = "sleeping"
  /\ sleep[r] = 0
  /\ Goto(r, "locking")
  /\ UNCHANGED <<cost, total, sleep, keys, holder, lockLeft, configured, bucket, stalls>>

wakeUp(r) ==
  /\ pc[r] = "sleeping"
  /\ sleep[r] = 0
  /\ Goto(r, "ready")
  /\ UNCHANGED <<cost, total, sleep, keys, holder, lockLeft, configured, bucket, stalls>>

\* The request itself. The first answers bring the config
\* (setShopifyGraphQLConfigToRedis), unless the request was refused.
post(r) ==
  /\ pc[r] \in {"ready", "readyUnconfigured"}
  /\ \/ /\ cost[r] =< bucket
        /\ bucket' = bucket - cost[r]
        /\ Goto(r, IF pc[r] = "ready" THEN "sent" ELSE "sentUnconfigured")
        /\ configured' = (configured \/ pc[r] = "readyUnconfigured")
     \/ /\ cost[r] > bucket
        /\ Goto(r, IF pc[r] = "ready" THEN "throttled" ELSE "throttledUnconfigured")
        /\ UNCHANGED <<bucket, configured>>
  /\ UNCHANGED <<cost, total, sleep, keys, holder, lockLeft, stalls>>

\* A second passes. Redis calls take no time to speak of, except MaxStalls
\* seconds in all.
Passing == {"ready", "readyUnconfigured", "unconfigured"}
InRedis == {"reading", "writing"}
Down(n) == IF n = 0 THEN 0 ELSE n - 1

Tick ==
  /\ \A r \in Requests : pc[r] \notin Passing /\ (pc[r] = "sleeping" => sleep[r] > 0)
  /\ \/ /\ \A r \in Requests : pc[r] \notin InRedis
        /\ stalls' = stalls
     \/ /\ \E r \in Requests : pc[r] \in InRedis
        /\ stalls > 0
        /\ stalls' = stalls - 1
  /\ Live # {} \/ bucket < MaximumAvailable
  /\ keys' = [r \in Requests |-> Down(keys[r])]
  /\ sleep' = [r \in Requests |-> Down(sleep[r])]
  /\ lockLeft' = Down(lockLeft)
  /\ holder' = IF lockLeft = 1 THEN Nobody ELSE holder
  /\ bucket' = Min({bucket + RestoreRate, MaximumAvailable})
  /\ UNCHANGED <<cost, pc, total, configured>>

handle(r) ==
  \/ getConfig(r)
  \/ setUnconfiguredKey(r)
  \/ lock(r)
  \/ readCosts(r)
  \/ setKey(r)
  \/ wakeUp(r)
  \/ post(r)

Next == Tick \/ \E r \in Requests : handle(r)

Spec == Init /\ [][Next]_vars

\* The clock runs and every call returns. A waiting lock() polls; each request
\* takes the lock once, so no request is passed over for ever.
Fairness == WF_vars(Tick) /\ \A r \in Requests : WF_vars(handle(r))

FairSpec == Spec /\ Fairness

----------------------------------------------------------------------------
TypeOK ==
  /\ cost \in [Requests -> Costs]
  /\ pc \in [Requests -> Steps]
  /\ total \in [Requests -> Nat]
  /\ sleep \in [Requests -> Nat]
  /\ keys \in [Requests -> Nat]
  /\ holder \in Requests \union {Nobody}
  /\ lockLeft \in 0..LockTimeout
  /\ configured \in BOOLEAN
  /\ bucket \in 0..MaximumAvailable
  /\ stalls \in 0..MaxStalls

\* What Shopify has not restored yet, and what others are about to spend, is
\* covered by live keys at all times: a key that expires too early, or a reading
\* of the keys that misses one, shows here before any request is refused. While
\* the config is not known nobody counts, and nothing is claimed.
Pending == {r \in Requests : pc[r] \in {"sleeping", "ready"}}
AllConfigured == \A r \in Requests :
  pc[r] \notin {"unconfigured", "readyUnconfigured", "sentUnconfigured", "throttledUnconfigured"}
DebtIsOnRecord ==
  AllConfigured => (MaximumAvailable - bucket) + Sum(cost, Pending) =< Sum(cost, Live)

\* A request that was told it need not wait is not refused, whoever else was
\* admitted, put to sleep or woken since.
AdmittedNotRefused ==
  AllConfigured => \A r \in Requests :
    pc[r] = "throttled" => total[r] + cost[r] > MaximumAvailable

\* Nobody sleeps for ever behind the others.
EveryRequestGoes == \A r \in Requests : <>(pc[r] \in Answered)
================================================================================
