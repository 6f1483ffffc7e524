--------------------------- MODULE ConnectionRecords ---------------------------
(***************************************************************************)
(* A connection as connection-auths.service.ts stores it: its secret,      *)
(* encrypted if the process has a key (encryption-util.ts), the login of   *)
(* an SFTP server, which one connection only may use, and the              *)
(* implementations it is shared with.  Connections are written by create   *)
(* and by update, from a form that shows what findOne gives, decrypted.    *)
(* The processes are restarted, and at some time they are given a key.     *)
(*                                                                         *)
(* Secrets are texts; of a text only matters whether it holds a colon,     *)
(* which decrypt takes for the mark between vector and cipher.  The checks *)
(* and the save of a request are awaited one by one.                       *)
(***************************************************************************)
EXTENDS Naturals, FiniteSets, Sequences, SequencesExt

CONSTANTS
  Requests,     \* requests in flight
  Owners,       \* implementations
  Logins,       \* host, port and user name
  Texts,        \* secrets
  Colon,        \* those with a colon
  Keep,         \* a field that an update does not give
  MaxRecords,   \* bound: connections
  MaxForms      \* bound: requests

\* Assumed by the modules that instantiate this one.
ConstantsFit ==
  /\ Colon \subseteq Texts
  /\ {MaxRecords, MaxForms} \subseteq Nat
  /\ Keep \notin Owners \cup Logins \cup Texts
  /\ Keep \notin BOOLEAN /\ \A shared \in SUBSET Owners : shared # Keep

VARIABLES
  table,   \* connection_auth: the index is the id
  keyed,   \* whether the processes have an encryption key
  form,    \* the requests
  forms

vars == <<table, keyed, form, forms>>

Garbage == "garbage"   \* a text decrypted that was never encrypted
Plain(t) == [text |-> t, cipher |-> FALSE]
Cipher(t) == [text |-> t, cipher |-> TRUE]
NoForm == [pc |-> "idle"]

Init ==
  /\ table = <<>>
  /\ keyed \in BOOLEAN
  /\ form = [r \in Requests |-> NoForm]
  /\ forms = 0

----------------------------------------------------------------------------
(* Encryption.                                                             *)

\* Variant: a text with a colon is taken for a cipher.
SparesCiphers(t) == IF keyed /\ t \notin Colon THEN Cipher(t) ELSE Plain(t)
encryptConnectionAuth(t) == IF keyed THEN Cipher(t) ELSE Plain(t)

\* decrypt, null for a text without a colon, which stays as it is
decryptConnectionAuth(v) ==
  IF keyed /\ ~v.cipher /\ v.text \in Colon THEN Garbage ELSE v.text

----------------------------------------------------------------------------
(* Lookups.                                                                *)
SharedWith(i, o) == o \in table[i].shared

findByImplementationId(o) == {i \in DOMAIN table : table[i].owner = o}
findForChangeableTimestamp(o) ==
  {i \in DOMAIN table : table[i].owner = o /\ table[i].system = "shopify"}
findByImplementationIdAndTargetType(o, system) ==
  {i \in DOMAIN table : /\ table[i].owner = o \/ SharedWith(i, o)
                        /\ table[i].system = system}

TypeOf(system) == IF system = "shopify" THEN "shop" ELSE "warehouse"

\* What the lookups give: each record with the secret as the caller sees it.
Shown(i) == [id |-> i, secret |-> decryptConnectionAuth(table[i].stored)]
Stored(i) == [id |-> i, secret |-> table[i].stored]

findAll == {Stored(i) : i \in DOMAIN table}
findByFacilityAndCustomerId(owner) == {Stored(i) : i \in findByImplementationId(owner)}

findByTargetTypes(types) == {Shown(i) : i \in {k \in DOMAIN table : TypeOf(table[k].system) \in types}}
findByTargetType(type) == findByTargetTypes({type})
findByTargetTypeAndTargetSystem(type, system) ==
  {x \in findByTargetType(type) : table[x.id].system = system}
findByFilter(query, shared) ==
  {Shown(i) : i \in {k \in DOMAIN table : /\ \A f \in DOMAIN query : table[k][f] = query[f]
                                         /\ shared \subseteq table[k].shared}}
\* Only a shop can be asked for an order; of another system nothing is tested.
connectionTestForTargetSystem(id) == IF table[id].system = "shopify" THEN {Shown(id)} ELSE {}
testConnection(id) == connectionTestForTargetSystem(id)

Listed == findByTargetTypes({"shop", "warehouse"}) \cup findByTargetType("shop")
            \cup findByTargetTypeAndTargetSystem("warehouse", "sigloch")
            \cup findByFilter(<<>>, {}) \cup UNION {testConnection(i) : i \in DOMAIN table}

FoundFor(o) == findByImplementationId(o) \cup findForChangeableTimestamp(o)
                 \cup findByImplementationIdAndTargetType(o, "shopify")
                 \cup findByImplementationIdAndTargetType(o, "sigloch")
                 \cup {x.id : x \in findByFilter([owner |-> o], {}) \cup findByFilter(<<>>, {o})}

----------------------------------------------------------------------------
(* Requests.  A dto holds the fields that are written, Keep where an update *)
(* gives none.  Ghosts of a record: meant, the secret that was entered;    *)
(* openly, that it was once stored without a key; left, the owners the     *)
(* record was moved away from; unseen, that another request had looked for *)
(* its login before it was written; late, that an update wrote it which    *)
(* had read it before another one wrote.                                   *)

\* addImplementationIdInSharedImplementationsIfNotExists
SharedImplementations(system, owner, shared, leaving) ==
  IF system = "sigloch" THEN (shared \cup {owner}) \ leaving ELSE shared

\* checkAuthObject: an authObject has all its keys.
checkAuthObject(dto) == dto.secret \in Texts

\* checkMetaInfo: subClientInfo has an entry for each implementation that shares.
checkMetaInfo(dto, shared) == dto.system = "sigloch" => dto.clients = Cardinality(shared)

\* A shop's connection, and one to a warehouse that several implementations share.
NewRecord ==
  [system : {"shopify"}, owner : Owners, shared : {{}}, clients : {0},
   sftp : {FALSE}, login : Logins, secret : Texts] \cup
  [system : {"sigloch"}, owner : Owners, shared : SUBSET Owners, clients : 1..Cardinality(Owners),
   sftp : BOOLEAN, login : Logins, secret : Texts]

\* An update of whom the record serves, or of its strategy or its authObject, which
\* is given as a whole.
Change ==
  [owner : Owners \cup {Keep}, shared : ((SUBSET Owners) \ {{}}) \cup {Keep},
   sftp : {Keep}, login : {Keep}, secret : {Keep}] \cup
  [owner : {Keep}, shared : {Keep}, sftp : BOOLEAN, login : {Keep}, secret : {Keep}] \cup
  [owner : {Keep}, shared : {Keep}, sftp : {Keep}, login : Logins, secret : Texts \cup {Keep}]

\* The query of checkSftpRecords is for SFTP only.
After(sftp) == IF sftp THEN "login" ELSE "save"

\* create, up to checkSftpRecords
Create(r) ==
  /\ form[r] = NoForm /\ forms < MaxForms
  /\ \E dto \in NewRecord :
       LET shared == SharedImplementations(dto.system, dto.owner, dto.shared, {})
       IN /\ ~\E i \in DOMAIN table : /\ table[i].owner = dto.owner
                                      /\ table[i].system = dto.system
          /\ checkAuthObject(dto) /\ checkMetaInfo(dto, shared)
          /\ form' = [form EXCEPT ![r] =
               [pc |-> After(dto.sftp), id |-> 0, login |-> dto.login,
                dto |-> [system |-> dto.system, owner |-> dto.owner, shared |-> shared,
                         sftp |-> dto.sftp, login |-> dto.login, secret |-> dto.secret],
                meant |-> dto.secret, given |-> {}, stale |-> FALSE]]
  /\ forms' = forms + 1
  /\ UNCHANGED <<table, keyed>>

\* findOne, for a form or for what a service will write back
OpenForm(r, i) ==
  /\ form[r] = NoForm /\ forms < MaxForms
  /\ form' = [form EXCEPT ![r] =
       [pc |-> "open", id |-> i, shown |-> decryptConnectionAuth(table[i].stored),
        meant |-> table[i].meant]]
  /\ forms' = forms + 1
  /\ UNCHANGED <<table, keyed>>

Given(field, own) == IF field = Keep THEN own ELSE field

\* The three cases of update that write sharedImplementations.
NewShared(dto, old) ==
  CASE dto.shared = Keep /\ dto.owner = Keep -> Keep
    [] dto.shared # Keep /\ dto.owner = Keep -> SharedImplementations(old.system, old.owner, dto.shared, {})
    [] OTHER -> SharedImplementations(old.system, dto.owner, Given(dto.shared, old.shared), {old.owner})

\* update, up to checkSftpRecords: it reads the record once more, and what it
\* checks and shares is of that reading.  The secret is the one shown, or a new one.
Update(r) ==
  /\ form[r].pc = "open"
  /\ \E dto \in Change :
       LET old == table[form[r].id]
       IN form' = [form EXCEPT ![r] =
            [pc |-> After(Given(dto.sftp, old.sftp)), id |-> form[r].id,
             login |-> Given(dto.login, old.login),
             dto |-> [owner |-> dto.owner, shared |-> NewShared(dto, old),
                      sftp |-> dto.sftp, login |-> dto.login,
                      secret |-> CASE dto.login = Keep -> Keep
                                   [] dto.secret = Keep -> form[r].shown
                                   [] OTHER -> dto.secret],
             meant |-> Given(dto.secret, form[r].meant),
             given |-> IF dto.shared = Keep THEN {} ELSE dto.shared,
             stale |-> FALSE]]
  /\ UNCHANGED <<table, keyed, forms>>

SameLogin(login, id) == {i \in DOMAIN table \ {id} : table[i].login = login}

checkSftpRecords(r) ==
  /\ form[r].pc = "login"
  /\ form' = [form EXCEPT ![r] = IF SameLogin(form[r].login, form[r].id) # {}
                                   THEN NoForm ELSE [@ EXCEPT !.pc = "save"]]
  /\ UNCHANGED <<table, keyed, forms>>

Looked(r) == \E q \in Requests \ {r} : form[q].pc = "save"

\* Requests that have read a record are stale once another one has written it.
Closed(r, i) ==
  [q \in Requests |-> CASE q = r -> NoForm
                        [] q # r /\ form[q].pc \in {"login", "save"} ->
                             [form[q] EXCEPT !.stale = @ \/ form[q].id = i]
                        [] OTHER -> form[q]]

Insert(r) ==
  /\ form[r].pc = "save" /\ form[r].id = 0
  /\ LET dto == form[r].dto
     IN /\ Len(table) < MaxRecords
        /\ table' = Append(table,
             [owner |-> dto.owner, system |-> dto.system, shared |-> dto.shared,
              sftp |-> dto.sftp, login |-> dto.login,
              stored |-> encryptConnectionAuth(dto.secret),
              meant |-> form[r].meant, openly |-> ~keyed, left |-> {},
              unseen |-> Looked(r), late |-> FALSE])
        /\ form' = Closed(r, Len(table) + 1)
  /\ UNCHANGED <<keyed, forms>>

\* repository.update: the fields of the dto
Save(r) ==
  /\ form[r].pc = "save" /\ form[r].id # 0
  /\ LET i == form[r].id
         old == table[i]
         dto == form[r].dto
         owner == Given(dto.owner, old.owner)
         logs == dto.login # Keep \/ dto.sftp # Keep
     IN /\ table' = [table EXCEPT ![i] =
             [old EXCEPT !.owner = owner, !.shared = Given(dto.shared, @),
                !.sftp = Given(dto.sftp, @), !.login = Given(dto.login, @),
                !.stored = IF dto.secret = Keep THEN @ ELSE encryptConnectionAuth(dto.secret),
                !.meant = IF dto.secret = Keep THEN @ ELSE form[r].meant,
                !.openly = IF dto.secret = Keep THEN @ ELSE @ \/ ~keyed,
                !.left = ((@ \ form[r].given) \cup {old.owner}) \ {owner},
                !.unseen = IF logs THEN Looked(r) ELSE @,
                !.late = @ \/ form[r].stale]]
        /\ form' = Closed(r, i)
  /\ UNCHANGED <<keyed, forms>>

----------------------------------------------------------------------------
\* A deployment: the requests in flight are gone, the forms in the browsers are
\* not.  It may bring a key, and takes none away.
Restart ==
  /\ \E k \in BOOLEAN : (keyed => k) /\ keyed' = k
  /\ form' = [r \in Requests |-> IF form[r].pc = "open" THEN form[r] ELSE NoForm]
  /\ UNCHANGED <<table, forms>>

Next ==
  \/ \E r \in Requests :
       \/ Create(r)
       \/ \E i \in DOMAIN table : OpenForm(r, i)
       \/ Update(r)
       \/ checkSftpRecords(r)
       \/ Insert(r)
       \/ Save(r)
  \/ Restart

Spec == Init /\ [][Next]_vars

----------------------------------------------------------------------------
(* Properties.                                                             *)

\* Every list gives all connections asked for with the secret that was entered,
\* whatever forms it has been through and although old records were stored without a
\* key (encryption-util.ts:42): all but one with a colon stored without. The two
\* lookups that do not decrypt show no secret that was only ever stored with a key.
SecretsReadable ==
  /\ {x.id : x \in Listed} = DOMAIN table
  /\ \A x \in Listed :
       LET conn == table[x.id]
       IN x.secret = conn.meant \/ (conn.openly /\ conn.meant \in Colon)
  /\ \A x \in findAll \cup UNION {findByFacilityAndCustomerId(o) : o \in Owners} :
       x.secret.cipher \/ table[x.id].openly

\* No lookup finds a Sigloch connection for an implementation it was moved away
\* from (connection-auths.service.ts:454), unless an update wrote it that had read
\* it before the move.
LeftBehind ==
  \A i \in DOMAIN table :
    table[i].system = "sigloch" /\ ~table[i].late =>
      \A o \in table[i].left : i \notin FoundFor(o)

\* Two connections use one SFTP login only if the requests of both had looked for
\* it before either wrote, or an update wrote what it had read too early
\* (connection-auths.service.ts:122).
OneLogin ==
  \A i, k \in DOMAIN table :
    LET a == table[i]
        b == table[k]
    IN i # k /\ a.sftp /\ b.sftp /\ a.login = b.login =>
         a.late \/ b.late \/ a.unseen \/ b.unseen

ConnectionsHold == SecretsReadable /\ LeftBehind /\ OneLogin
================================================================================
