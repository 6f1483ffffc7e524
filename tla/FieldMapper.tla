----------------------------- MODULE FieldMapper -----------------------------
(***************************************************************************)
(* field-mapper.service.ts: the rows that translate values between shop    *)
(* and warehouse.  A kind is an implementation, an entity type and a       *)
(* field; a kind may have one default row, used for the values that have   *)
(* no row of their own, and create and update keep that by two writes:     *)
(* toggleIsDefaultRecords takes the flag from every row of the kind, then  *)
(* the row itself is written.  Of a shipping method of orders the listener *)
(* (field-mapper.listener.ts) tells the orders service, which is external. *)
(* Its call is started by an event that nobody awaits: the request ends    *)
(* before the call is carried out, the calls of later requests may be      *)
(* carried out before it, and a call that fails is only logged.            *)
(***************************************************************************)
EXTENDS Naturals

CONSTANTS Rows,        \* rows that can be created
          Kinds,
          Keep,        \* a field that an update leaves as it is
          Editors,     \* requests in flight
          MaxRequests, \* bound on the requests
          MaxBroken    \* bound on the requests that break off and the calls that fail

VARIABLES mapper,   \* the field_mapper table
          request,  \* what an editor is about to write
          shipping, \* kinds that are the shipping methods of an implementation's orders
          telling,  \* calls of the orders service that are on their way
          told,     \* what the orders service was told of each row last
          requests, broken,
          unchecked,\* ghost: kinds in which a default was written beside the toggle of another
          unheard,  \* ghost: rows of whose last write there is no call, or one of what had been read too early
          sent,     \* ghost: the number of calls started of each row
          arrived,  \* ghost: the number, in the order they were started, of the call told is from
          due       \* ghost: kinds whose default was set and not taken back

ordersVars == <<telling, told, unheard, sent, arrived>>
vars == <<mapper, request, shipping, requests, broken, unchecked, due, ordersVars>>

NoRow == [kind |-> "none", isDefault |-> FALSE]
Row(k, d) == [kind |-> k, isDefault |-> d]
NoRequest == [pc |-> "idle"]
Nothing == {}   \* otherwise the flag, as a set

Init ==
  /\ mapper = [r \in Rows |-> NoRow]
  /\ request = [e \in Editors |-> NoRequest]
  /\ shipping \in SUBSET Kinds
  /\ telling = {} /\ told = [r \in Rows |-> Nothing]
  /\ sent = [r \in Rows |-> 0] /\ arrived = [r \in Rows |-> 0]
  /\ requests = 0 /\ broken = 0
  /\ unchecked = {} /\ unheard = {} /\ due = {}

Exists(r) == mapper[r] # NoRow
Defaults(k) == {r \in Rows : mapper[r] = Row(k, TRUE)}

----------------------------------------------------------------------------
\* A request: dto holds the fields it writes (Keep: the row's own), of the kind
\* whose flags are taken before, if dto sets the flag.
Starts(e, r, isNew, of, dto) ==
  /\ request[e] = NoRequest /\ requests < MaxRequests
  /\ requests' = requests + 1
  /\ request' = [request EXCEPT ![e] =
       [pc |-> IF dto.isDefault = TRUE THEN "toggle" ELSE "write",
        isNew |-> isNew, row |-> r, of |-> of, dto |-> dto, read |-> mapper[r]]]
  /\ UNCHANGED <<mapper, shipping, broken, unchecked, due, ordersVars>>

\* create: a row nobody else knows of yet
create(e, r, k, d) ==
  /\ ~Exists(r) /\ \A f \in Editors : request[f] # NoRequest => request[f].row # r
  /\ Starts(e, r, TRUE, k, Row(k, d))

\* update: findOne, then the toggle for the kind of the row it has read
update(e, r, k, d) ==
  /\ Exists(r)
  /\ Starts(e, r, FALSE, mapper[r].kind, [kind |-> k, isDefault |-> d])

\* Variant: the toggle forgets the field.
EveryKind(k) == {r \in Rows : mapper[r].isDefault}
\* The rows toggleIsDefaultRecords writes
Toggled(k) == Defaults(k)

toggleIsDefaultRecords(e) ==
  /\ request[e].pc = "toggle"
  /\ mapper' = [r \in Rows |-> IF r \in Toggled(request[e].of)
                                 THEN [mapper[r] EXCEPT !.isDefault = FALSE] ELSE mapper[r]]
  /\ request' = [request EXCEPT ![e].pc = "write"]
  /\ unchecked' = unchecked \ {request[e].of}
  /\ due' = due \ {request[e].of}
  /\ UNCHANGED <<shipping, requests, broken, ordersVars>>

Value(field, own) == IF field = Keep THEN own ELSE field
Merged(row, dto) == [kind |-> Value(dto.kind, row.kind),
                     isDefault |-> Value(dto.isDefault, row.isDefault)]

\* e leaves a default in kind k: nobody has taken k's flags for it, or another
\* request has taken them and will write a default of its own.
Races(e, k) ==
  \/ request[e].of # k
  \/ request[e].dto.isDefault = Keep /\ mapper[request[e].row].kind # k
  \/ \E f \in Editors \ {e} : /\ request[f].pc = "write" /\ request[f].of = k
                              /\ request[f].dto.isDefault = TRUE

\* Variant: update sends the row it has read, without the fields it has written.
TellsWhatItRead(e) == IF request[e].isNew THEN request[e].dto ELSE request[e].read
\* field_mapper.after_save: the row as it was read, with the fields of the dto
AfterSave(e) == Merged(request[e].read, request[e].dto)

\* Created or updated, the listener speaks of shipping methods only.
handleOrderAfterSaveEvent(event) == event.kind \in shipping

\* The event starts a call, and the request does not wait for it.  nth is only for arrived.
emit(e, r, to) ==
  /\ IF handleOrderAfterSaveEvent(AfterSave(e))
       THEN /\ sent' = [sent EXCEPT ![r] = @ + 1]
            /\ telling' = telling \cup
                 {[row |-> r, isDefault |-> AfterSave(e).isDefault, nth |-> sent[r] + 1]}
       ELSE UNCHANGED <<sent, telling>>
  /\ unheard' = IF Merged(request[e].read, request[e].dto) = to
                  THEN unheard \ {r} ELSE unheard \cup {r}

\* The process dies when the row is written, before the event.
DiesUnheard(r) ==
  /\ broken < MaxBroken
  /\ broken' = broken + 1
  /\ unheard' = unheard \cup {r}
  /\ UNCHANGED <<sent, telling>>

\* save, or update by id: of a row that was removed meanwhile nothing is written
Write(e) ==
  /\ request[e].pc = "write"
  /\ LET r == request[e].row
         to == Merged(mapper[r], request[e].dto)
     IN IF ~request[e].isNew /\ ~Exists(r)
          THEN UNCHANGED <<mapper, broken, unchecked, due, telling, unheard, sent>>
          ELSE /\ mapper' = [mapper EXCEPT ![r] = to]
               /\ unchecked' = IF to.isDefault /\ Races(e, to.kind)
                                 THEN unchecked \cup {to.kind} ELSE unchecked
               /\ due' = (due \ (IF mapper[r].isDefault THEN {mapper[r].kind} ELSE {}))
                           \cup (IF to.isDefault THEN {to.kind} ELSE {})
               /\ \/ emit(e, r, to) /\ UNCHANGED broken
                  \/ DiesUnheard(r)
  /\ request' = [request EXCEPT ![e] = NoRequest]
  /\ UNCHANGED <<shipping, requests, told, arrived>>

\* The orders service carries out a call, in whatever order they reach it.
updateOrdersMetaInfoIsShippingMethodUnknown(c) ==
  /\ telling' = telling \ {c}
  /\ told' = [told EXCEPT ![c.row] = {c.isDefault}]
  /\ arrived' = [arrived EXCEPT ![c.row] = c.nth]
  /\ UNCHANGED <<mapper, request, shipping, requests, broken, unchecked, due, unheard, sent>>

\* A call fails, or its process dies: the request has been answered, and nobody calls again.
CallFails(c) ==
  /\ broken < MaxBroken
  /\ broken' = broken + 1
  /\ telling' = telling \ {c}
  /\ UNCHANGED <<mapper, request, shipping, requests, unchecked, due, told, unheard, sent, arrived>>

\* The process dies, or the database refuses the second write.
BreakOff(e) ==
  /\ request[e] # NoRequest /\ broken < MaxBroken
  /\ request' = [request EXCEPT ![e] = NoRequest]
  /\ broken' = broken + 1
  /\ UNCHANGED <<mapper, shipping, requests, unchecked, due, ordersVars>>

\* remove tells the orders service nothing; a row that is created again stands for one
\* of the same shop value, by which that service goes.
remove(r) ==
  /\ Exists(r)
  /\ mapper' = [mapper EXCEPT ![r] = NoRow]
  /\ due' = due \ (IF mapper[r].isDefault THEN {mapper[r].kind} ELSE {})
  /\ UNCHANGED <<request, shipping, requests, broken, unchecked, ordersVars>>

----------------------------------------------------------------------------
Next ==
  \/ \E e \in Editors :
       \/ \E r \in Rows, k \in Kinds, d \in BOOLEAN : create(e, r, k, d)
       \/ \E r \in Rows, k \in Kinds \cup {Keep}, d \in BOOLEAN \cup {Keep} : update(e, r, k, d)
       \/ toggleIsDefaultRecords(e)
       \/ Write(e)
       \/ BreakOff(e)
  \/ \E c \in telling : updateOrdersMetaInfoIsShippingMethodUnknown(c) \/ CallFails(c)
  \/ \E r \in Rows : remove(r)

Spec == Init /\ [][Next]_vars

----------------------------------------------------------------------------
\* getValueFromFieldMapper takes the first default row it finds.  A kind has two
\* only if two requests overlapped or an update moved a default into it, and a
\* kind whose default was set has one until it is taken away or a request breaks
\* off after the toggle.
OneDefault ==
  \A k \in Kinds :
    /\ k \notin unchecked => \A r, s \in Defaults(k) : r = s
    /\ k \in due => Defaults(k) # {}

\* Nobody waits for the calls of the orders service (field-mapper.service.ts:68, :155),
\* and what they say was read before the write.  Still it takes a default shipping
\* method for one that is not only if the last call of that row failed, is on its way
\* or was carried out before an older one, or if the last request that wrote the row
\* had read it before another changed it or died before its event.
DefaultsTold ==
  \A r \in Rows \ unheard :
    mapper[r].isDefault /\ mapper[r].kind \in shipping /\ arrived[r] = sent[r]
      => told[r] = {TRUE}
================================================================================
