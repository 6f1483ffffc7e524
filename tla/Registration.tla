----------------------------- MODULE Registration -----------------------------
(***************************************************************************)
(* auth.service.ts: a tenant registers users of the shops, an              *)
(* administrator also other tenants.  registerUser creates the account,    *)
(* makes its password permanent and, for a tenant, overwrites the tenant's *)
(* implementationIds with those of its token and the new one.  A token     *)
(* keeps what the tenant had when it was issued (jwt.strategy.ts).  The    *)
(* user pool is external, each of its calls is awaited, and nothing is     *)
(* undone when one fails.                                                  *)
(***************************************************************************)
EXTENDS Naturals, FiniteSets

CONSTANTS
  Calls,       \* registrations in flight
  Emails,      \* of those who are registered
  Ids,         \* implementations
  MaxTokens,   \* bound: logins of the tenant
  MaxAttempts, \* bound: registrations
  MaxFaults    \* bound: calls of the pool that fail

\* Assumed by the modules that instantiate this one.
ConstantsFit == {MaxTokens, MaxAttempts, MaxFaults} \subseteq Nat

VARIABLES
  tenantIds,  \* custom:implementationIds of the tenant
  account,    \* their accounts in the pool
  tokens,     \* the tenant's tokens that are still accepted
  reg,        \* registerUser
  clock,      \* ghost: logins and writes of tenantIds so far
  granted,    \* ghost: when an id was last added
  writes,     \* ghost: writes of tenantIds, with the age of the token
  attempts, faults

vars == <<tenantIds, account, tokens, reg, clock, granted, writes, attempts, faults>>

Idle == [pc |-> "idle"]
NoAccount == [state |-> "none"]

----------------------------------------------------------------------------
(* Attributes.                                                             *)

\* validate: the claims of a token issued now
validate(role, ids, now) == [entityRole |-> role, implementationIds |-> ids, issued |-> now]

Admin == validate("Admin", {}, 0)   \* the token of an administrator
IsTenant(t) == t.entityRole = "TenantUser"

\* getCognitoUserAttributes refuses an account without implementations, unless it is
\* a tenant's, ...
Refused(role, ids) == role # "TenantUser" /\ ids = {}
\* ... and leaves out what has no value.
getCognitoUserAttributes(ids, own) == IF ids = {} THEN own ELSE ids

----------------------------------------------------------------------------
Init ==
  /\ tenantIds = {}
  /\ account = [e \in Emails |-> NoAccount]
  /\ tokens = {}
  /\ reg = [c \in Calls |-> Idle]
  /\ clock = 0
  /\ granted = [i \in Ids |-> 0]
  /\ writes = {}
  /\ attempts = 0 /\ faults = 0

\* authenticateUser, and the claims validate takes from the token
Login ==
  /\ Cardinality(tokens) < MaxTokens
  /\ clock' = clock + 1
  /\ tokens' = tokens \cup {validate("TenantUser", tenantIds, clock')}
  /\ UNCHANGED <<tenantIds, account, reg, granted, writes, attempts, faults>>

\* registerUser, for an e-mail address, a role, at most one implementation and a token
Register(c, e, role, ids, t) ==
  /\ reg[c] = Idle /\ attempts < MaxAttempts
  /\ IsTenant(t) => role = "ShopUser"
  /\ ~Refused(role, ids)
  /\ reg' = [reg EXCEPT ![c] = [pc |-> "create", email |-> e, role |-> role, ids |-> ids, token |-> t]]
  /\ attempts' = attempts + 1
  /\ UNCHANGED <<tenantIds, account, tokens, clock, granted, writes, faults>>

\* AdminCreateUserCommand: an address that is known is answered with an error, and
\* the tenant is left as it is.
CreateUser(c) ==
  /\ reg[c].pc = "create"
  /\ IF account[reg[c].email] # NoAccount
     THEN /\ reg' = [reg EXCEPT ![c] = Idle]
          /\ UNCHANGED account
     ELSE /\ account' = [account EXCEPT ![reg[c].email] =
                        [state |-> "temporary", role |-> reg[c].role, ids |-> reg[c].ids,
                         by |-> reg[c].token]]
          /\ reg' = [reg EXCEPT ![c].pc = "password"]
  /\ UNCHANGED <<tenantIds, tokens, clock, granted, writes, attempts, faults>>

\* Variant: a tenant that has no implementations yet is left as it is.
UpdatesKnown(t) == IsTenant(t) /\ t.implementationIds # {}
\* Only a tenant's registration updates a tenant.
UpdatesTenant(t) == IsTenant(t)

\* AdminSetUserPasswordCommand, which is the last call for an administrator
SetUserPassword(c) ==
  /\ reg[c].pc = "password"
  /\ account' = [account EXCEPT ![reg[c].email].state = "permanent"]
  /\ reg' = [reg EXCEPT ![c] = IF UpdatesTenant(@.token) THEN [@ EXCEPT !.pc = "tenant"] ELSE Idle]
  /\ UNCHANGED <<tenantIds, tokens, clock, granted, writes, attempts, faults>>

implementationIds(t, ids) == t.implementationIds \cup ids

\* updateUser, for the tenant
UpdateUser(c) ==
  /\ reg[c].pc = "tenant"
  /\ tenantIds' = getCognitoUserAttributes(implementationIds(reg[c].token, reg[c].ids), tenantIds)
  /\ clock' = clock + 1
  /\ granted' = [i \in Ids |-> IF i \in reg[c].ids THEN clock' ELSE granted[i]]
  /\ writes' = writes \cup {[at |-> clock', issued |-> reg[c].token.issued]}
  /\ reg' = [reg EXCEPT ![c] = Idle]
  /\ UNCHANGED <<account, tokens, attempts, faults>>

\* A call of the pool fails, or the process dies.
BreakOff(c) ==
  /\ reg[c] # Idle /\ faults < MaxFaults
  /\ reg' = [reg EXCEPT ![c] = Idle]
  /\ faults' = faults + 1
  /\ UNCHANGED <<tenantIds, account, tokens, clock, granted, writes, attempts>>

Next ==
  \/ Login
  \/ \E c \in Calls :
       \/ \E e \in Emails, role \in {"ShopUser", "TenantUser"},
             ids \in {{}} \cup {{i} : i \in Ids}, t \in tokens \cup {Admin} :
            Register(c, e, role, ids, t)
       \/ CreateUser(c) \/ SetUserPassword(c) \/ UpdateUser(c) \/ BreakOff(c)

Spec == Init /\ [][Next]_vars

----------------------------------------------------------------------------
\* A tenant loses an implementation it was given only to a registration under a
\* token that is older (auth.service.ts:117), and keeps one that no registration
\* has taken so away: the ids of a fresh token are never lost.
AccessKept ==
  \A i \in Ids : granted[i] > 0 /\ i \notin tenantIds =>
    \E w \in writes : w.at > granted[i] /\ w.issued < granted[i]

\* A shop user whose tenant was not given the implementation, although it asked for
\* the user, is one whose registration still runs or broke off (auth.service.ts:79);
\* no second attempt repairs that.
TenantHasItsUsers ==
  \A e \in Emails :
    /\ account[e] # NoAccount /\ IsTenant(account[e].by)
    /\ \E i \in account[e].ids : granted[i] = 0
    =>
      \/ faults > 0
      \/ \E c \in Calls : reg[c] # Idle /\ reg[c].email = e /\ reg[c].pc # "create"

UsersAndTenantAgree == AccessKept /\ TenantHasItsUsers
================================================================================
