----------------------------- MODULE RestRateLimit -----------------------------
(***************************************************************************)
(* handleRateLimit of rate-limit.util.ts, which every REST request of a    *)
(* connection passes: it increments a counter in Redis, gives it a new     *)
(* life of ttl, and sleeps for as many steps as it counted, of which       *)
(* allowedRequest make up the ttl.  (The GraphQL requests have a limiter   *)
(* of their own, GraphQLRateLimit.)                                        *)
(*                                                                         *)
(* Time passes in ticks, Step to a step, and not between the two calls of  *)
(* Redis.  The ten milliseconds added to every sleep and the statistics of *)
(* trackRateLimit are left out.                                            *)
(***************************************************************************)
EXTENDS Naturals

CONSTANTS
  Clients,   \* callers, each with one request at a time
  Plans,     \* allowedRequest of the plans, 0 for one that does not say
  Default,   \* of mainConfigs.rateLimit
  Step,      \* ticks of a step
  MaxCount   \* bound: the counter

\* Assumed by the modules that instantiate this one.
ConstantsFit ==
  /\ Plans \subseteq Nat
  /\ {Default, Step} \subseteq Nat \ {0}
  /\ MaxCount \in Nat

VARIABLES
  system,   \* targetSystem
  plan,     \* metaInfo.shopifyPlan.rateLimit
  counter,  \* of the connection, 0 when the key is not there
  life,     \* ticks until it expires, 0 for never
  caller,
  quiet,    \* ghost: ticks since a request last went out, at most Step
  close,    \* ghost: one went out less than a step after another
  crowded   \* ghost: one counted more than are allowed

vars == <<system, plan, counter, life, caller, quiet, close, crowded>>

Idle == [pc |-> "idle"]

Init ==
  /\ system \in {"shopify", "dhl"}
  /\ plan \in Plans
  /\ counter = 0 /\ life = 0
  /\ caller = [c \in Clients |-> Idle]
  /\ quiet = Step
  /\ close = FALSE /\ crowded = FALSE

\* A plan that does not say both numbers is not used.
getRateLimit ==
  CASE system = "dhl" -> 1
    [] system # "dhl" /\ plan # 0 -> plan
    [] OTHER -> Default

ttl == getRateLimit * Step

\* INCR
Count(c) ==
  /\ caller[c] = Idle /\ counter < MaxCount
  /\ counter' = counter + 1
  /\ caller' = [caller EXCEPT ![c] = [pc |-> "counted", count |-> counter']]
  /\ crowded' = (crowded \/ counter' > getRateLimit)
  /\ UNCHANGED <<system, plan, life, quiet, close>>

\* Variant: the first request of a window sets its end.
FixedWindow == IF life # 0 THEN life ELSE ttl
NewLife == ttl

\* PEXPIRE, and the sleep.  A key that has expired stays so.
Sleep(c) ==
  /\ caller[c].pc = "counted"
  /\ life' = IF counter = 0 THEN 0 ELSE NewLife
  /\ caller' = [caller EXCEPT ![c] = [pc |-> "asleep", left |-> Step * @.count]]
  /\ UNCHANGED <<system, plan, counter, quiet, close, crowded>>

\* The timer fires, and the request goes out.
Go(c) ==
  /\ caller[c].pc = "asleep" /\ caller[c].left = 0
  /\ caller' = [caller EXCEPT ![c] = Idle]
  /\ close' = (close \/ quiet < Step)
  /\ quiet' = 0
  /\ UNCHANGED <<system, plan, counter, life, crowded>>

\* The process dies.
Crash(c) ==
  /\ caller[c].pc # "idle"
  /\ caller' = [caller EXCEPT ![c] = Idle]
  /\ UNCHANGED <<system, plan, counter, life, quiet, close, crowded>>

Tick ==
  /\ \A c \in Clients : caller[c].pc = "asleep" => caller[c].left > 0
  /\ \A c \in Clients : caller[c].pc # "counted"
  /\ caller' = [c \in Clients |-> IF caller[c].pc = "asleep"
                                    THEN [caller[c] EXCEPT !.left = @ - 1] ELSE caller[c]]
  /\ life' = IF life > 0 THEN life - 1 ELSE 0
  /\ counter' = IF life = 1 THEN 0 ELSE counter
  /\ quiet' = IF quiet < Step THEN quiet + 1 ELSE quiet
  /\ UNCHANGED <<system, plan, close, crowded>>

Next ==
  \/ \E c \in Clients : Count(c) \/ Sleep(c) \/ Go(c) \/ Crash(c)
  \/ Tick

Spec == Init /\ [][Next]_vars

----------------------------------------------------------------------------
\* Requests go out a step apart, and so never more than are allowed in a ttl, also
\* when some come while others sleep, after the counter has expired, or after one
\* that died without setting its life: unless more than are allowed were counted,
\* the last of which outlive the counter (rate-limit.util.ts:80).
RequestsSpaced == close => crowded
================================================================================
