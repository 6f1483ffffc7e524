-------------------------- MODULE MCGraphQLRateLimit --------------------------
(***************************************************************************)
(* The two rate limiters, GraphQLRateLimit for three requests and          *)
(* RestRateLimit for two callers.  They share no key of Redis, so a        *)
(* behaviour explores one of them: in one of the REST limiter every        *)
(* GraphQL request has been answered, and no action of theirs is enabled.  *)
(***************************************************************************)
EXTENDS GraphQLRateLimit

CONSTANTS r1, r2, r3,
          Clients, Plans, Default, Step, MaxCount

VARIABLES part, system, plan, counter, life, caller, quiet, close, crowded

Rest == INSTANCE RestRateLimit

ASSUME RestAssumption == Rest!ConstantsFit

AllCosts == 1..MaximumAvailable

restPart == <<system, plan, counter, life, caller, quiet, close, crowded>>
NoRest == /\ system = 0 /\ plan = 0 /\ counter = 0 /\ life = 0 /\ caller = 0
          /\ quiet = 0 /\ close = 0 /\ crowded = 0

AllAnswered ==
  /\ cost = [r \in Requests |-> 1]
  /\ pc = [r \in Requests |-> "sent"]
  /\ total = [r \in Requests |-> 0]
  /\ sleep = [r \in Requests |-> 0]
  /\ keys = [r \in Requests |-> 0]
  /\ holder = Nobody /\ lockLeft = 0
  /\ configured = TRUE
  /\ bucket = MaximumAvailable
  /\ stalls = 0

LimitersInit ==
  \/ part = "graphql" /\ Init /\ NoRest
  \/ part = "rest" /\ AllAnswered /\ Rest!Init

LimitersNext ==
  \/ part = "graphql" /\ Next /\ UNCHANGED <<part, restPart>>
  \/ part = "rest" /\ Rest!Next /\ UNCHANGED <<part, vars>>

LimitersSpec ==
  LimitersInit /\ [][LimitersNext]_<<part, vars, restPart>> /\ Fairness

----------------------------------------------------------------------------
\* RestRateLimit: requests go out a step apart unless more than are allowed are
\* waiting (rate-limit.util.ts:80).
RequestsSpaced == part = "rest" => Rest!RequestsSpaced
================================================================================
