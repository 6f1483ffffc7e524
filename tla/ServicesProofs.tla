---------------------------- MODULE ServicesProofs ----------------------------
(***************************************************************************)
(* Proofs about the services that share no state.  A behaviour of          *)
(* ServicesSpec runs one of them, so the invariant of each is one of all:  *)
(* it holds where its service is the part that runs.                       *)
(***************************************************************************)
EXTENDS MCServices, CommonTheorems

----------------------------------------------------------------------------
(* FieldMapper.                                                            *)

RowType == [kind : Kinds \cup {"none"}, isDefault : BOOLEAN]
DtoType == [kind : Kinds \cup {Keep}, isDefault : BOOLEAN \cup {Keep}]
EditType == [pc : {"toggle", "write"}, isNew : BOOLEAN, row : Rows,
             of : Kinds \cup {"none"}, dto : DtoType, read : RowType]

TellType == [row : Rows, isDefault : BOOLEAN, nth : Nat]

\* A request names a row, and the fields it writes; a call names a row.
MapperTypeInv ==
  /\ mapper \in [Rows -> RowType]
  /\ request \in [Editors -> EditType \cup {Mapper!NoRequest}]
  /\ telling \in SUBSET TellType
  /\ told \in [Rows -> SUBSET BOOLEAN]
  /\ sent \in [Rows -> Nat]
  /\ arrived \in [Rows -> Nat]

\* Editor e has taken the flags of kind k and is about to set one.
AboutToSet(e, k) ==
  /\ request[e].pc = "write"
  /\ request[e].of = k
  /\ request[e].dto.isDefault = TRUE

\* What makes "one default" inductive: while a request that took the flags of a kind
\* waits for its second write, the kind has no default, unless somebody wrote one
\* beside it.
FlagsTaken ==
  \A k \in Kinds : k \notin unchecked =>
    \A e \in Editors : AboutToSet(e, k) => Mapper!Defaults(k) = {}

\* No call is newer than the last that was started.
CallsCounted ==
  /\ \A r \in Rows : arrived[r] <= sent[r]
  /\ \A c \in telling : c.nth <= sent[c.row]

\* The orders service has to be told that r is a default.
MustKnow(r) == r \notin unheard /\ mapper[r].isDefault /\ mapper[r].kind \in shipping

\* What makes "defaults are told" inductive, whatever the order in which calls arrive:
\* the last call of a default says so while it is still on its way.
LastCallTells ==
  \A c \in telling : c.nth = sent[c.row] /\ MustKnow(c.row) => c.isDefault = TRUE

CallsInv == CallsCounted /\ LastCallTells /\ Mapper!DefaultsTold

MapperInv == MapperTypeInv /\ FlagsTaken /\ Mapper!OneDefault /\ CallsInv

\* What a request writes is a row again.
LEMMA MergedRow ==
  ASSUME NEW row \in RowType, NEW dto \in DtoType
  PROVE  Mapper!Merged(row, dto) \in RowType
  BY DEF Mapper!Merged, Mapper!Value, RowType, DtoType

\* A row is a default of kind k if it has the flag and the kind.
LEMMA DefaultRow ==
  ASSUME NEW row \in RowType, NEW k
  PROVE  row = Mapper!Row(k, TRUE) <=> row.isDefault /\ row.kind = k
<1>1. row = [kind |-> row.kind, isDefault |-> row.isDefault] /\ row.isDefault \in BOOLEAN
  BY DEF RowType
<1>2. [kind |-> k, isDefault |-> TRUE].kind = k /\ [kind |-> k, isDefault |-> TRUE].isDefault
  OBVIOUS
<1> QED BY <1>1, <1>2 DEF Mapper!Row

\* The invariant of the field mapper holds at the start.
LEMMA MapperBegins == ASSUME Mapper!Init PROVE MapperInv
<1>1. MapperTypeInv /\ FlagsTaken /\ Mapper!OneDefault
  BY DEF Mapper!Init, MapperTypeInv, FlagsTaken, AboutToSet, Mapper!OneDefault,
         Mapper!Defaults, Mapper!NoRow, Mapper!NoRequest, RowType, EditType, Mapper!Row,
         Mapper!Nothing
<1>2. CallsCounted /\ LastCallTells
  BY DEF Mapper!Init, CallsCounted, LastCallTells
<1>3. Mapper!DefaultsTold
  <2>1. \A r \in Rows : ~mapper[r].isDefault BY DEF Mapper!Init, Mapper!NoRow
  <2> QED BY <2>1 DEF Mapper!DefaultsTold
<1> QED BY <1>1, <1>2, <1>3 DEF MapperInv, CallsInv

\* A step that starts and ends no call leaves the calls as they must be if every row that
\* is a default has been one of its kind before.
LEMMA CallsStay ==
  ASSUME MapperTypeInv, CallsInv, UNCHANGED <<shipping, Mapper!ordersVars>>,
         \A r \in Rows : MustKnow(r)' => MustKnow(r)
  PROVE  CallsInv'
<1>1. UNCHANGED <<shipping, telling, told, unheard, sent, arrived>>
  BY DEF Mapper!ordersVars
<1>2. CallsCounted' BY <1>1 DEF CallsInv, CallsCounted
<1>3. LastCallTells'
  <2> SUFFICES ASSUME NEW c \in telling, c.nth = sent[c.row], MustKnow(c.row)'
               PROVE  c.isDefault = TRUE
    BY <1>1 DEF LastCallTells
  <2>1. c.row \in Rows BY DEF MapperTypeInv, TellType
  <2> QED BY <2>1 DEF CallsInv, LastCallTells
<1>4. Mapper!DefaultsTold'
  <2> SUFFICES ASSUME NEW r \in Rows, MustKnow(r)', arrived[r] = sent[r]
               PROVE  told[r] = {TRUE}
    BY <1>1 DEF Mapper!DefaultsTold, MustKnow
  <2>1. MustKnow(r) OBVIOUS
  <2> QED BY <2>1 DEF CallsInv, Mapper!DefaultsTold, MustKnow
<1> QED BY <1>2, <1>3, <1>4 DEF CallsInv

\* A request that starts writes nothing yet, and if it sets a flag it goes to the
\* toggle first.
LEMMA StartsStep ==
  ASSUME MapperInv, NEW e \in Editors, NEW r \in Rows, NEW isNew \in BOOLEAN,
         NEW of \in Kinds \cup {"none"}, NEW dto \in DtoType,
         Mapper!Starts(e, r, isNew, of, dto)
  PROVE  MapperInv'
<1>1. MapperTypeInv'
  BY DEF MapperInv, MapperTypeInv, Mapper!Starts, EditType, Mapper!ordersVars
<1>2. FlagsTaken'
  BY DEF MapperInv, MapperTypeInv, Mapper!Starts, FlagsTaken, AboutToSet, Mapper!Defaults,
         EditType, Mapper!ordersVars
<1>3. Mapper!OneDefault'
  BY DEF MapperInv, Mapper!Starts, Mapper!OneDefault, Mapper!Defaults
<1>4. CallsInv'
  BY CallsStay DEF MapperInv, Mapper!Starts, MustKnow, Mapper!ordersVars
<1> QED BY <1>1, <1>2, <1>3, <1>4 DEF MapperInv

\* The toggle leaves its kind without a default, and every other kind as it is.
LEMMA ToggleStep ==
  ASSUME MapperInv, NEW e \in Editors, Mapper!toggleIsDefaultRecords(e)
  PROVE  MapperInv'
<1>t. MapperTypeInv BY DEF MapperInv
<1>k. PICK k : k = request[e].of OBVIOUS
<1>1. request[e] \in EditType
  BY <1>t DEF MapperTypeInv, Mapper!toggleIsDefaultRecords, Mapper!NoRequest
<1>2. mapper' \in [Rows -> RowType] /\ \A r \in Rows : mapper'[r] = IF r \in Mapper!Defaults(k)
                                     THEN [mapper[r] EXCEPT !.isDefault = FALSE] ELSE mapper[r]
  BY <1>k, <1>t DEF Mapper!toggleIsDefaultRecords, Mapper!Toggled, MapperTypeInv, RowType
<1>3. MapperTypeInv'
  BY <1>t, <1>1, <1>2 DEF MapperTypeInv, Mapper!toggleIsDefaultRecords, EditType,
                    Mapper!NoRequest, Mapper!ordersVars
<1>d. \A r \in Rows : \A j :
        /\ r \in Mapper!Defaults(j) <=> mapper[r].isDefault /\ mapper[r].kind = j
        /\ r \in Mapper!Defaults(j)' <=> mapper'[r].isDefault /\ mapper'[r].kind = j
  BY <1>2, <1>t, DefaultRow DEF Mapper!Defaults, MapperTypeInv
<1>s. \A j : Mapper!Defaults(j) \subseteq Rows /\ Mapper!Defaults(j)' \subseteq Rows
  BY DEF Mapper!Defaults
<1>e. \A r \in Rows : mapper[r] \in RowType BY <1>t DEF MapperTypeInv
<1>4. Mapper!Defaults(k)' = {}
  BY <1>2, <1>d, <1>s, <1>e DEF RowType
<1>5. \A j \in Kinds : j # k => Mapper!Defaults(j)' = Mapper!Defaults(j)
  <2>1. ASSUME NEW j \in Kinds, j # k, NEW r \in Rows
        PROVE  r \in Mapper!Defaults(j)' <=> r \in Mapper!Defaults(j)
    <3>1. mapper'[r].kind = mapper[r].kind BY <1>2, <1>e DEF RowType
    <3>2. mapper[r].kind = j => mapper'[r] = mapper[r] BY <2>1, <1>2, <1>d
    <3> QED BY <3>1, <3>2, <1>d
  <2> QED BY <2>1, <1>s
<1>6. /\ unchecked' = unchecked \ {k} /\ due' = due \ {k}
      /\ \A f \in Editors \ {e} : request'[f] = request[f]
      /\ request'[e].of = k
  BY <1>k, <1>t, <1>1 DEF Mapper!toggleIsDefaultRecords, MapperTypeInv, EditType
<1>7. FlagsTaken'
  <2> SUFFICES ASSUME NEW j \in Kinds, j \notin unchecked', NEW f \in Editors, AboutToSet(f, j)'
               PROVE  Mapper!Defaults(j)' = {}
    BY DEF FlagsTaken
  <2>1. CASE j = k BY <1>4, <2>1
  <2>2. CASE j # k
    <3>1. f # e BY <2>2, <1>6 DEF AboutToSet
    <3>2. AboutToSet(f, j) BY <3>1, <1>6 DEF AboutToSet
    <3> QED BY <3>2, <2>2, <1>5, <1>6 DEF MapperInv, FlagsTaken
  <2> QED BY <2>1, <2>2
<1>8. Mapper!OneDefault'
  <2>1. ASSUME NEW j \in Kinds
        PROVE  /\ j \notin unchecked' => \A r, s \in Mapper!Defaults(j)' : r = s
               /\ j \in due' => Mapper!Defaults(j)' # {}
    BY <1>4, <1>5, <1>6 DEF MapperInv, Mapper!OneDefault
  <2> QED BY <2>1 DEF Mapper!OneDefault
<1>9. CallsInv'
  <2>1. UNCHANGED <<shipping, Mapper!ordersVars>> /\ unheard' = unheard
    BY DEF Mapper!toggleIsDefaultRecords, Mapper!ordersVars
  <2>2. ASSUME NEW r \in Rows, MustKnow(r)' PROVE MustKnow(r)
    <3>1. mapper'[r] = [mapper[r] EXCEPT !.isDefault = FALSE] => ~mapper'[r].isDefault
      BY <1>e DEF RowType
    <3>2. mapper'[r] = mapper[r] BY <2>2, <3>1, <1>2 DEF MustKnow
    <3> QED BY <2>1, <2>2, <3>2 DEF MustKnow
  <2> QED BY <2>1, <2>2, CallsStay DEF MapperInv
<1> QED BY <1>3, <1>7, <1>8, <1>9 DEF MapperInv

\* The second write: a default it leaves in a kind is the only one there, unless the
\* kind is noted as unchecked; the orders are told of it, or it is noted as unheard.
LEMMA WriteStep ==
  ASSUME MapperInv, NEW e \in Editors, Mapper!Write(e)
  PROVE  MapperInv'
<1> DEFINE r == request[e].row
           dto == request[e].dto
           to == Mapper!Merged(mapper[r], dto)
           event == Mapper!Merged(request[e].read, dto)
<1>t. MapperTypeInv BY DEF MapperInv
<1>1. request[e] \in EditType /\ r \in Rows /\ dto \in DtoType
  BY <1>t DEF MapperTypeInv, Mapper!Write, Mapper!NoRequest, EditType
<1>2. to \in RowType /\ event \in RowType /\ mapper[r] \in RowType
  BY <1>t, <1>1, MergedRow DEF MapperTypeInv, EditType
<1>3. /\ request'[e] = Mapper!NoRequest
      /\ \A f \in Editors \ {e} : request'[f] = request[f]
      /\ request' \in [Editors -> EditType \cup {Mapper!NoRequest}]
      /\ shipping' = shipping
  BY <1>t DEF Mapper!Write, MapperTypeInv
<1>4. \A f \in Editors : \A k : AboutToSet(f, k)' => f # e /\ AboutToSet(f, k)
  BY <1>3 DEF AboutToSet, Mapper!NoRequest
<1>w. told' = told /\ arrived' = arrived BY DEF Mapper!Write
<1>5. CASE UNCHANGED <<mapper, broken, unchecked, due, telling, unheard, sent>>
  <2>1. MapperTypeInv' BY <1>3, <1>5, <1>w, <1>t DEF MapperTypeInv
  <2>2. FlagsTaken' BY <1>4, <1>5 DEF MapperInv, FlagsTaken, Mapper!Defaults
  <2>3. Mapper!OneDefault'
    BY <1>5 DEF MapperInv, Mapper!OneDefault, Mapper!Defaults
  <2>4. CallsInv'
    BY <1>3, <1>5, <1>w, CallsStay DEF MapperInv, MustKnow, Mapper!ordersVars
  <2> QED BY <2>1, <2>2, <2>3, <2>4 DEF MapperInv
<1>6. CASE /\ mapper' = [mapper EXCEPT ![r] = to]
           /\ unchecked' = IF to.isDefault /\ Mapper!Races(e, to.kind)
                             THEN unchecked \cup {to.kind} ELSE unchecked
           /\ due' = (due \ (IF mapper[r].isDefault THEN {mapper[r].kind} ELSE {}))
                       \cup (IF to.isDefault THEN {to.kind} ELSE {})
           /\ \/ Mapper!emit(e, r, to) /\ UNCHANGED broken
              \/ Mapper!DiesUnheard(r)
  <2>1. /\ mapper'[r] = to
        /\ \A s \in Rows \ {r} : mapper'[s] = mapper[s]
    BY <1>1, <1>6, <1>t DEF MapperTypeInv
  \* the event starts no call, or one that is newer than all others
  <2>2. \/ UNCHANGED <<telling, sent>>
        \/ \E c \in TellType : /\ c.row = r /\ c.isDefault = event.isDefault
                              /\ c.nth = sent[r] + 1
                              /\ telling' = telling \cup {c}
                              /\ sent' = [sent EXCEPT ![r] = @ + 1]
    <3>1. [row |-> r, isDefault |-> event.isDefault, nth |-> sent[r] + 1] \in TellType
      BY <1>1, <1>2, <1>t DEF TellType, RowType, MapperTypeInv
    <3> QED BY <1>6, <3>1 DEF Mapper!emit, Mapper!AfterSave, Mapper!DiesUnheard
  <2>u. telling' \in SUBSET TellType /\ sent' \in [Rows -> Nat]
    BY <2>2, <1>1, <1>t DEF MapperTypeInv
  <2>3. MapperTypeInv' BY <1>2, <1>3, <1>w, <1>6, <1>t, <2>u DEF MapperTypeInv
  <2>4. /\ to.isDefault \in BOOLEAN /\ mapper[r].isDefault \in BOOLEAN
        /\ \A k : to = Mapper!Row(k, TRUE) <=> to.isDefault /\ to.kind = k
        /\ \A k : mapper[r] = Mapper!Row(k, TRUE) <=> mapper[r].isDefault /\ mapper[r].kind = k
    BY <1>2, DefaultRow DEF RowType
  <2>5. \A k, s : s \in Mapper!Defaults(k)' <=>
           \/ s = r /\ to.isDefault /\ to.kind = k
           \/ s # r /\ s \in Mapper!Defaults(k)
    BY <1>1, <2>1, <2>4 DEF Mapper!Defaults
  \* a default that nobody raced: the row's own, or one whose kind had none
  <2>6. ASSUME NEW k \in Kinds, k \notin unchecked', to.isDefault, to.kind = k
        PROVE  /\ k \notin unchecked
               /\ \/ r \in Mapper!Defaults(k)
                  \/ Mapper!Defaults(k) = {}
               /\ \A f \in Editors \ {e} : ~AboutToSet(f, k)
    <3>1. k \notin unchecked /\ ~Mapper!Races(e, k) BY <1>6, <2>6
    <3>2. request[e].of = k /\ \A f \in Editors \ {e} : ~AboutToSet(f, k)
      BY <3>1 DEF Mapper!Races, AboutToSet
    <3>3. CASE dto.isDefault = Keep
      <4>1. mapper[r].kind = k BY <3>1, <3>3 DEF Mapper!Races
      <4>2. mapper[r].isDefault BY <3>3, <2>6 DEF Mapper!Merged, Mapper!Value
      <4> QED BY <4>1, <4>2, <3>1, <3>2, <2>4, <1>1 DEF Mapper!Defaults
    <3>4. CASE dto.isDefault # Keep
      <4>1. dto.isDefault = TRUE
        BY <3>4, <2>6, <1>1 DEF Mapper!Merged, Mapper!Value, DtoType
      <4>2. AboutToSet(e, k) BY <4>1, <3>2 DEF AboutToSet, Mapper!Write
      <4> QED BY <4>2, <3>1, <3>2 DEF MapperInv, FlagsTaken
    <3> QED BY <3>3, <3>4
  <2>7. FlagsTaken'
    <3> SUFFICES ASSUME NEW k \in Kinds, k \notin unchecked', NEW f \in Editors, AboutToSet(f, k)'
                 PROVE  Mapper!Defaults(k)' = {}
      BY DEF FlagsTaken
    <3>1. f # e /\ AboutToSet(f, k) BY <1>4
    <3>2. ~(to.isDefault /\ to.kind = k) BY <2>6, <3>1
    <3>3. Mapper!Defaults(k) = {} BY <3>1, <1>6 DEF MapperInv, FlagsTaken
    <3> QED BY <3>2, <3>3, <2>5
  <2>8. Mapper!OneDefault'
    <3>1. ASSUME NEW k \in Kinds, k \notin unchecked'
          PROVE  \A q, s \in Mapper!Defaults(k)' : q = s
      <4>1. k \notin unchecked BY <3>1, <1>6
      <4>2. \A q, s \in Mapper!Defaults(k) : q = s
        BY <4>1 DEF MapperInv, Mapper!OneDefault
      <4> QED BY <2>5, <2>6, <3>1, <4>2
    <3>2. ASSUME NEW k \in Kinds, k \in due' PROVE Mapper!Defaults(k)' # {}
      <4>1. CASE to.isDefault /\ to.kind = k BY <4>1, <2>5
      <4>2. CASE ~(to.isDefault /\ to.kind = k)
        <5>1. k \in due /\ ~(mapper[r].isDefault /\ mapper[r].kind = k)
          BY <4>2, <3>2, <1>6, <2>4
        <5>2. PICK s : s \in Mapper!Defaults(k)
          BY <5>1 DEF MapperInv, Mapper!OneDefault
        <5>3. s # r BY <5>1, <5>2, <2>4 DEF Mapper!Defaults
        <5> QED BY <5>2, <5>3, <2>5
      <4> QED BY <4>1, <4>2
    <3> QED BY <3>1, <3>2 DEF Mapper!OneDefault
  <2>9. CallsInv'
    <3>1. CallsCounted'
      BY <2>2, <1>1, <1>w, <1>t DEF MapperInv, CallsInv, CallsCounted, MapperTypeInv, TellType
    <3>2. \A s \in Rows \ {r} : /\ MustKnow(s)' <=> MustKnow(s)
                              /\ sent'[s] = sent[s]
                              /\ \A c \in telling' : c.row = s => c \in telling
      <4>1. \A s \in Rows \ {r} : s \in unheard' <=> s \in unheard
        BY <1>6 DEF Mapper!emit, Mapper!DiesUnheard
      <4> QED BY <4>1, <2>1, <2>2, <1>3, <1>t DEF MustKnow, MapperTypeInv
    \* a row the orders service must know of was written together with a call
    <3>3. ASSUME NEW s \in Rows, s = r, MustKnow(s)'
          PROVE  \E c \in TellType : /\ c.row = r /\ c.isDefault = TRUE
                                    /\ c.nth = sent[r] + 1
                                    /\ telling' = telling \cup {c}
                                    /\ sent' = [sent EXCEPT ![r] = @ + 1]
      <4>1. /\ Mapper!emit(e, r, to) /\ event = to
            /\ to.isDefault = TRUE /\ to.kind \in shipping
        <5>1. s \notin unheard' /\ to.isDefault /\ to.kind \in shipping
          BY <3>3, <2>1, <1>3 DEF MustKnow
        <5>2. Mapper!emit(e, r, to) BY <3>3, <5>1, <1>6 DEF Mapper!DiesUnheard
        <5>3. event = to BY <3>3, <5>1, <5>2 DEF Mapper!emit
        <5> QED BY <5>1, <5>2, <5>3, <2>4
      <4>2. PICK c : c = [row |-> r, isDefault |-> TRUE, nth |-> sent[r] + 1] OBVIOUS
      <4>3. c \in TellType BY <4>2, <1>1, <1>t DEF TellType, MapperTypeInv
      <4>4. /\ telling' = telling \cup {c}
            /\ sent' = [sent EXCEPT ![r] = @ + 1]
        BY <4>1, <4>2 DEF Mapper!emit, Mapper!AfterSave, Mapper!handleOrderAfterSaveEvent
      <4> QED BY <4>2, <4>3, <4>4
    <3>4. LastCallTells'
      <4> SUFFICES ASSUME NEW c \in telling', c.nth = sent'[c.row], MustKnow(c.row)'
                   PROVE  c.isDefault = TRUE
        BY DEF LastCallTells
      <4>0. c \in TellType BY <2>u
      <4>1. CASE c.row # r
        BY <4>0, <4>1, <3>2 DEF MapperInv, CallsInv, LastCallTells, TellType
      <4>2. CASE c.row = r
        <5>1. PICK n \in TellType :
                 /\ n.row = r /\ n.isDefault = TRUE /\ n.nth = sent[r] + 1
                 /\ telling' = telling \cup {n} /\ sent' = [sent EXCEPT ![r] = @ + 1]
          BY <4>0, <4>2, <3>3 DEF TellType
        <5>2. sent'[r] = sent[r] + 1 /\ sent[r] \in Nat BY <5>1, <1>1, <1>t DEF MapperTypeInv
        <5>3. c \in telling => c.nth <= sent[r]
          BY <4>2 DEF MapperInv, CallsInv, CallsCounted
        <5>4. c.nth \in Nat BY <4>0 DEF TellType
        <5> QED BY <5>1, <5>2, <5>3, <5>4, <4>2
      <4> QED BY <4>1, <4>2
    <3>5. Mapper!DefaultsTold'
      <4> SUFFICES ASSUME NEW s \in Rows, MustKnow(s)', arrived[s] = sent'[s]
                   PROVE  told[s] = {TRUE}
        BY <1>w DEF Mapper!DefaultsTold, MustKnow
      <4>1. CASE s # r
        BY <4>1, <3>2 DEF MapperInv, CallsInv, Mapper!DefaultsTold, MustKnow
      <4>2. CASE s = r
        <5>1. sent'[r] = sent[r] + 1 BY <4>2, <3>3, <1>1, <1>t DEF MapperTypeInv
        <5>2. arrived[r] <= sent[r] /\ arrived[r] \in Nat /\ sent[r] \in Nat
          BY <1>1, <1>t DEF MapperInv, CallsInv, CallsCounted, MapperTypeInv
        <5> QED BY <4>2, <5>1, <5>2
      <4> QED BY <4>1, <4>2
    <3> QED BY <3>1, <3>4, <3>5 DEF CallsInv
  <2> QED BY <2>3, <2>7, <2>8, <2>9 DEF MapperInv
<1> QED BY <1>5, <1>6 DEF Mapper!Write

\* A row that is removed takes its flag with it.
LEMMA RemoveStep ==
  ASSUME MapperInv, NEW r \in Rows, Mapper!remove(r)
  PROVE  MapperInv'
<1>t. MapperTypeInv BY DEF MapperInv
<1>1. /\ mapper'[r] = Mapper!NoRow
      /\ \A s \in Rows \ {r} : mapper'[s] = mapper[s]
      /\ UNCHANGED <<request, unchecked, shipping, Mapper!ordersVars>>
  BY <1>t DEF Mapper!remove, MapperTypeInv
<1>2. MapperTypeInv'
  BY <1>t DEF Mapper!remove, MapperTypeInv, Mapper!ordersVars, Mapper!NoRow, RowType
<1>3. \A k, s : s \in Mapper!Defaults(k)' <=> s # r /\ s \in Mapper!Defaults(k)
  BY <1>1 DEF Mapper!Defaults, Mapper!Row, Mapper!NoRow
<1>4. FlagsTaken'
  BY <1>1, <1>3 DEF MapperInv, FlagsTaken, AboutToSet
<1>5. Mapper!OneDefault'
  <2>1. ASSUME NEW k \in Kinds, k \in due' PROVE Mapper!Defaults(k)' # {}
    <3>1. k \in due /\ mapper[r] # Mapper!Row(k, TRUE)
      BY <2>1 DEF Mapper!remove, Mapper!Row
    <3>2. PICK s : s \in Mapper!Defaults(k) BY <3>1 DEF MapperInv, Mapper!OneDefault
    <3> QED BY <3>1, <3>2, <1>3 DEF Mapper!Defaults
  <2> QED BY <2>1, <1>1, <1>3 DEF MapperInv, Mapper!OneDefault
<1>6. CallsInv'
  <2>1. \A s \in Rows : MustKnow(s)' => MustKnow(s)
    BY <1>1 DEF MustKnow, Mapper!NoRow, Mapper!ordersVars
  <2> QED BY <2>1, <1>1, CallsStay DEF MapperInv
<1> QED BY <1>2, <1>4, <1>5, <1>6 DEF MapperInv

\* A call that ends, carried out or not, is the last of its row or changes nothing that
\* the row's last call says.
LEMMA TellStep ==
  ASSUME MapperInv, NEW c \in telling,
         \/ Mapper!updateOrdersMetaInfoIsShippingMethodUnknown(c)
         \/ Mapper!CallFails(c)
  PROVE  MapperInv'
<1>t. MapperTypeInv BY DEF MapperInv
<1>c. c \in TellType BY <1>t DEF MapperTypeInv
<1>1. /\ UNCHANGED <<mapper, request, shipping, unchecked, due, unheard, sent>>
      /\ telling' = telling \ {c}
      /\ \/ UNCHANGED <<told, arrived>>
         \/ /\ told' = [told EXCEPT ![c.row] = {c.isDefault}]
            /\ arrived' = [arrived EXCEPT ![c.row] = c.nth]
  BY DEF Mapper!updateOrdersMetaInfoIsShippingMethodUnknown, Mapper!CallFails
<1>2. MapperTypeInv'
  BY <1>1, <1>c, <1>t DEF MapperTypeInv, TellType
<1>3. FlagsTaken' /\ Mapper!OneDefault'
  BY <1>1 DEF MapperInv, FlagsTaken, AboutToSet, Mapper!OneDefault, Mapper!Defaults
<1>4. CallsCounted'
  BY <1>1, <1>c, <1>t DEF MapperInv, CallsInv, CallsCounted, MapperTypeInv, TellType
<1>5. LastCallTells'
  BY <1>1 DEF MapperInv, CallsInv, LastCallTells, MustKnow
<1>6. Mapper!DefaultsTold'
  <2> SUFFICES ASSUME NEW r \in Rows, MustKnow(r), arrived'[r] = sent[r]
               PROVE  told'[r] = {TRUE}
    BY <1>1 DEF Mapper!DefaultsTold, MustKnow
  <2>1. CASE told'[r] = told[r] /\ arrived'[r] = arrived[r]
    BY <2>1 DEF MapperInv, CallsInv, Mapper!DefaultsTold, MustKnow
  <2>2. CASE r = c.row /\ told'[r] = {c.isDefault} /\ arrived'[r] = c.nth
    BY <2>2 DEF MapperInv, CallsInv, LastCallTells
  <2> QED BY <2>1, <2>2, <1>1, <1>c, <1>t DEF MapperTypeInv, TellType
<1> QED BY <1>2, <1>3, <1>4, <1>5, <1>6 DEF MapperInv, CallsInv

\* Every step of the field mapper keeps its invariant.
LEMMA MapperStep == ASSUME MapperInv, Mapper!Next PROVE MapperInv'
<1>t. MapperTypeInv BY DEF MapperInv
<1>1. ASSUME NEW e \in Editors, NEW r \in Rows, NEW k \in Kinds, NEW d \in BOOLEAN,
             Mapper!create(e, r, k, d)
      PROVE  MapperInv'
  BY <1>1, StartsStep DEF Mapper!create, Mapper!Row, DtoType
<1>2. ASSUME NEW e \in Editors, NEW r \in Rows, NEW k \in Kinds \cup {Keep},
             NEW d \in BOOLEAN \cup {Keep}, Mapper!update(e, r, k, d)
      PROVE  MapperInv'
  BY <1>2, <1>t, StartsStep DEF Mapper!update, DtoType, MapperTypeInv, RowType
<1>3. ASSUME NEW e \in Editors, Mapper!BreakOff(e) PROVE MapperInv'
  <2>1. MapperTypeInv'
    BY <1>3, <1>t DEF Mapper!BreakOff, MapperTypeInv, Mapper!ordersVars
  <2>2. FlagsTaken'
    BY <1>3, <1>t DEF Mapper!BreakOff, MapperInv, MapperTypeInv, FlagsTaken, AboutToSet,
                 Mapper!Defaults, Mapper!NoRequest
  <2>3. Mapper!OneDefault'
    BY <1>3 DEF MapperInv, Mapper!BreakOff, Mapper!OneDefault, Mapper!Defaults
  <2>4. CallsInv'
    BY <1>3, CallsStay DEF MapperInv, Mapper!BreakOff, MustKnow, Mapper!ordersVars
  <2> QED BY <2>1, <2>2, <2>3, <2>4 DEF MapperInv
<1> QED BY <1>1, <1>2, <1>3, ToggleStep, WriteStep, TellStep, RemoveStep DEF Mapper!Next

\* The invariant holds throughout, where the field mapper is the part that runs.
LEMMA MapperAlways == ServicesSpec => [](part = "mapper" => MapperInv)
<1> DEFINE Inv == part = "mapper" => MapperInv
<1>1. ServicesInit => Inv
  BY MapperBegins DEF ServicesInit
<1>2. Inv /\ [ServicesNext]_servicesVars => Inv'
  <2>1. ASSUME Inv, ServicesNext PROVE Inv'
    BY <2>1, MapperStep DEF ServicesNext
  <2>2. ASSUME Inv, UNCHANGED part, UNCHANGED mapperPart PROVE Inv'
    <3>1. CASE part = "mapper"
      <4>1. MapperTypeInv' /\ FlagsTaken' /\ Mapper!OneDefault'
        BY <2>2, <3>1 DEF mapperPart, MapperInv, MapperTypeInv, FlagsTaken, AboutToSet,
                          Mapper!OneDefault, Mapper!Defaults
      <4>2. CallsInv'
        BY <2>2, <3>1, CallsStay DEF mapperPart, MapperInv, MustKnow, Mapper!ordersVars
      <4> QED BY <4>1, <4>2 DEF MapperInv
    <3> QED BY <2>2, <3>1
  <2> QED BY <2>1, <2>2 DEF servicesVars
<1> QED BY <1>1, <1>2, PTL DEF ServicesSpec

\* FieldMapper: each kind has one default, in whatever order the requests write and
\* wherever one breaks off, but for the races the property names
\* (field-mapper.service.ts:143).  In whatever order the calls that nobody waits for are
\* carried out, a default shipping method of which the orders service was told something
\* else has a last call that failed, is on its way or was overtaken by an older one, or a
\* last write that had read what another changed or died before its event (:155).
THEOREM MapperKept == ServicesSpec => []OneDefaultMapper
<1>1. (part = "mapper" => MapperInv) => OneDefaultMapper
  BY DEF OneDefaultMapper, MapperInv, CallsInv
<1> QED BY <1>1, MapperAlways, PTL

----------------------------------------------------------------------------
(* Registration.                                                           *)

TokenType == [entityRole : {"Admin", "TenantUser"}, implementationIds : SUBSET Shops, issued : Nat]
RegType == [pc : {"create", "password", "tenant"}, email : Jobs, role : {"ShopUser", "TenantUser"},
            ids : SUBSET Shops, token : TokenType]
AccountType == [state : {"temporary", "permanent"}, role : {"ShopUser", "TenantUser"},
                ids : SUBSET Shops, by : TokenType]

\* A registration that has passed AdminCreateUserCommand
Created(c) == reg[c] # Users!Idle /\ reg[c].pc # "create"

UserTypeInv ==
  /\ tenantIds \in SUBSET Shops
  /\ account \in [Jobs -> AccountType \cup {Users!NoAccount}]
  /\ tokens \in SUBSET TokenType
  /\ reg \in [Calls -> RegType \cup {Users!Idle}]
  /\ clock \in Nat /\ poolFaults \in Nat
  /\ granted \in [Shops -> Nat]
  /\ writes \in SUBSET [at : Nat, issued : Nat]

\* A registration has its account, and only a tenant's goes on to the tenant.
RegInv ==
  \A c \in Calls : reg[c] # Users!Idle =>
    /\ reg[c].token \in tokens \cup {Users!Admin}
    /\ Created(c) => account[reg[c].email] # Users!NoAccount
    /\ reg[c].pc = "tenant" => Users!IsTenant(reg[c].token)

\* Logins and writes have different times, none of which lies ahead.
ClockInv ==
  /\ \A t \in tokens : 0 < t.issued /\ t.issued <= clock
  /\ \A i \in Shops : granted[i] <= clock
  /\ \A t \in tokens, i \in Shops : granted[i] # t.issued

\* An implementation given before a time was taken away by a write under an older token.
TakenAway(i) == \E w \in writes : w.at > granted[i] /\ w.issued < granted[i]

\* What makes AccessKept inductive: a token has all that the tenant was given before
\* the token was issued and that was not taken away.
TokensKnow ==
  \A t \in tokens, i \in Shops :
    granted[i] > 0 /\ granted[i] < t.issued /\ i \notin t.implementationIds => TakenAway(i)

\* What makes TenantHasItsUsers inductive: the registration that is to give the tenant
\* the ids of account e is the one that created it, and is on its way.
OnItsWay(c, e) ==
  /\ Created(c) /\ reg[c].email = e
  /\ reg[c].ids = account[e].ids /\ reg[c].token = account[e].by

AccountsGranted ==
  \A e \in Jobs : account[e] # Users!NoAccount /\ Users!IsTenant(account[e].by) =>
    \/ \A i \in account[e].ids : granted[i] > 0
    \/ poolFaults > 0
    \/ \E c \in Calls : OnItsWay(c, e)

UserInv == /\ UserTypeInv /\ RegInv /\ ClockInv /\ TokensKnow
           /\ AccountsGranted /\ Users!AccessKept

\* Nobody is registered at the start.
LEMMA UsersBegin == ASSUME Users!Init PROVE UserInv
  BY DEF Users!Init, UserInv, UserTypeInv, RegInv, ClockInv, TokensKnow, AccountsGranted,
         Users!AccessKept, Users!NoAccount, Users!Idle

\* A new token has what the tenant has by then.
LEMMA LoginStep == ASSUME UserInv, Users!Login PROVE UserInv'
<1>t. UserTypeInv /\ RegInv /\ ClockInv BY DEF UserInv
<1> DEFINE t == Users!validate("TenantUser", tenantIds, clock + 1)
<1>1. /\ tokens' = tokens \cup {t} /\ clock' = clock + 1
      /\ UNCHANGED <<tenantIds, account, reg, granted, writes, attempts, poolFaults>>
  BY DEF Users!Login
<1>2. /\ t \in TokenType /\ t.issued = clock + 1 /\ t.implementationIds = tenantIds
  BY <1>t DEF Users!validate, TokenType, UserTypeInv
<1> HIDE DEF t
<1>3. UserTypeInv' BY <1>t, <1>1, <1>2 DEF UserTypeInv
<1>4. RegInv' BY <1>t, <1>1 DEF RegInv, Created
<1>5. ClockInv'
  <2>1. \A i \in Shops : granted[i] <= clock /\ granted[i] \in Nat
    BY <1>t DEF ClockInv, UserTypeInv
  <2>2. clock \in Nat BY <1>t DEF UserTypeInv
  <2>3. \A s \in tokens : s.issued \in Nat BY <1>t DEF UserTypeInv, TokenType
  <2> QED BY <2>1, <2>2, <2>3, <1>t, <1>1, <1>2 DEF ClockInv
<1>6. TokensKnow'
  BY <1>1, <1>2 DEF UserInv, TokensKnow, TakenAway, Users!AccessKept
<1>7. AccountsGranted' /\ Users!AccessKept'
  BY <1>1 DEF UserInv, AccountsGranted, OnItsWay, Created, Users!AccessKept
<1> QED BY <1>3, <1>4, <1>5, <1>6, <1>7 DEF UserInv

\* A step that gives nobody anything: the times and the grants stay.
LEMMA GrantsStay ==
  ASSUME UserInv, UNCHANGED <<tenantIds, tokens, clock, granted, writes>>
  PROVE  ClockInv' /\ TokensKnow' /\ Users!AccessKept'
  BY DEF UserInv, ClockInv, TokensKnow, TakenAway, Users!AccessKept

LEMMA RegisterStep ==
  ASSUME UserInv, NEW c \in Calls, NEW e \in Jobs, NEW role \in {"ShopUser", "TenantUser"},
         NEW ids \in SUBSET Shops, NEW t \in tokens \cup {Users!Admin},
         Users!Register(c, e, role, ids, t)
  PROVE  UserInv'
<1>t. UserTypeInv /\ RegInv BY DEF UserInv
<1>1. /\ reg[c] = Users!Idle
      /\ reg'[c] = [pc |-> "create", email |-> e, role |-> role, ids |-> ids, token |-> t]
      /\ \A d \in Calls \ {c} : reg'[d] = reg[d]
      /\ reg' = [reg EXCEPT ![c] = reg'[c]]
      /\ UNCHANGED <<tenantIds, account, tokens, clock, granted, writes, poolFaults>>
  BY <1>t DEF Users!Register, UserTypeInv
<1>2. reg'[c] \in RegType
  BY <1>1, <1>t DEF RegType, UserTypeInv, TokenType, Users!Admin, Users!validate
<1>3. UserTypeInv' BY <1>1, <1>2, <1>t DEF UserTypeInv
<1>4. \A d \in Calls : Created(d)' <=> Created(d)
  BY <1>1 DEF Created
<1>5. RegInv'
  <2>1. ~Created(c)' /\ reg'[c].token = t /\ reg'[c].pc = "create" BY <1>1 DEF Created
  <2> QED BY <1>1, <1>4, <1>t, <2>1 DEF RegInv
<1>6. AccountsGranted'
  <2>1. ASSUME NEW f \in Jobs, NEW d \in Calls, OnItsWay(d, f) PROVE OnItsWay(d, f)'
    <3>1. d # c BY <2>1, <1>1 DEF OnItsWay, Created
    <3> QED BY <3>1, <2>1, <1>1 DEF OnItsWay, Created
  <2> QED BY <1>1, <2>1 DEF UserInv, AccountsGranted
<1> QED BY <1>1, <1>3, <1>5, <1>6, GrantsStay DEF UserInv

\* The account is created under the token of its registration, or it is left as it is.
LEMMA CreateStep == ASSUME UserInv, NEW c \in Calls, Users!CreateUser(c) PROVE UserInv'
<1>t. UserTypeInv /\ RegInv BY DEF UserInv
<1>1. /\ reg[c] \in RegType /\ reg[c].pc = "create" /\ ~Created(c) /\ reg[c] # Users!Idle
      /\ reg[c].email \in Jobs
      /\ UNCHANGED <<tenantIds, tokens, clock, granted, writes, poolFaults>>
  BY <1>t DEF Users!CreateUser, UserTypeInv, Users!Idle, RegType, Created
<1>2. CASE /\ account[reg[c].email] # Users!NoAccount
           /\ reg' = [reg EXCEPT ![c] = Users!Idle] /\ UNCHANGED account
  <2>1. reg'[c] = Users!Idle /\ \A d \in Calls \ {c} : reg'[d] = reg[d]
    BY <1>2, <1>t DEF UserTypeInv
  <2>2. UserTypeInv' BY <1>1, <1>2, <1>t DEF UserTypeInv
  <2>3. RegInv' BY <1>1, <1>2, <1>t, <2>1 DEF RegInv, Created
  <2>4. ASSUME NEW f \in Jobs, NEW d \in Calls, OnItsWay(d, f) PROVE OnItsWay(d, f)'
    <3>1. d # c BY <2>4, <1>1 DEF OnItsWay
    <3> QED BY <3>1, <2>1, <2>4, <1>2 DEF OnItsWay, Created
  <2>5. AccountsGranted' BY <1>1, <1>2, <2>4 DEF UserInv, AccountsGranted
  <2> QED BY <1>1, <2>2, <2>3, <2>5, GrantsStay DEF UserInv
<1>3. CASE /\ account[reg[c].email] = Users!NoAccount
           /\ account' = [account EXCEPT ![reg[c].email] =
                [state |-> "temporary", role |-> reg[c].role, ids |-> reg[c].ids,
                 by |-> reg[c].token]]
           /\ reg' = [reg EXCEPT ![c].pc = "password"]
  <2> DEFINE new == [state |-> "temporary", role |-> reg[c].role, ids |-> reg[c].ids,
                     by |-> reg[c].token]
  <2>1. /\ reg'[c] = [reg[c] EXCEPT !.pc = "password"] /\ \A d \in Calls \ {c} : reg'[d] = reg[d]
        /\ reg' = [reg EXCEPT ![c] = reg'[c]]
    BY <1>3, <1>t DEF UserTypeInv
  <2>2. /\ reg'[c] \in RegType /\ reg'[c].pc = "password" /\ reg'[c] # Users!Idle
        /\ reg'[c].email = reg[c].email /\ reg'[c].ids = reg[c].ids /\ reg'[c].token = reg[c].token
    BY <1>1, <2>1 DEF RegType, Users!Idle
  <2>3. /\ account'[reg[c].email] = new
        /\ \A f \in Jobs : f # reg[c].email => account'[f] = account[f]
        /\ new \in AccountType /\ new # Users!NoAccount
        /\ new.ids = reg[c].ids /\ new.by = reg[c].token
    BY <1>1, <1>3, <1>t DEF UserTypeInv, AccountType, RegType, Users!NoAccount
  <2> HIDE DEF new
  <2>4. UserTypeInv' BY <1>1, <1>3, <1>t, <2>1, <2>2, <2>3 DEF UserTypeInv
  <2>5. Created(c)' BY <2>2 DEF Created
  <2>6. \A d \in Calls \ {c} : Created(d)' <=> Created(d) BY <2>1 DEF Created
  <2>7. RegInv'
    <3>1. ASSUME NEW d \in Calls \ {c}, reg[d] # Users!Idle
          PROVE  /\ reg[d].token \in tokens \cup {Users!Admin}
                 /\ Created(d)' => account'[reg[d].email] # Users!NoAccount
                 /\ reg[d].pc = "tenant" => Users!IsTenant(reg[d].token)
      BY <1>1, <1>t, <2>3, <2>6, <3>1 DEF RegInv, UserTypeInv, RegType
    <3>2. /\ reg[c].token \in tokens \cup {Users!Admin}
          /\ account'[reg[c].email] # Users!NoAccount
      BY <1>1, <1>t, <2>3 DEF RegInv
    <3>3. tokens' = tokens BY <1>1
    <3>4. ASSUME NEW d \in Calls, reg'[d] # Users!Idle
          PROVE  /\ reg'[d].token \in tokens \cup {Users!Admin}
                 /\ Created(d)' => account'[reg'[d].email] # Users!NoAccount
                 /\ reg'[d].pc = "tenant" => Users!IsTenant(reg'[d].token)
      <4>1. CASE d = c BY <4>1, <2>2, <3>2
      <4>2. CASE d # c
        <5>1. reg'[d] = reg[d] /\ d \in Calls \ {c} BY <4>2, <2>1
        <5> QED BY <5>1, <3>1, <3>4
      <4> QED BY <4>1, <4>2
    <3> QED BY <3>3, <3>4 DEF RegInv, Users!IsTenant
  <2>8. AccountsGranted'
    <3> SUFFICES ASSUME NEW f \in Jobs, account'[f] # Users!NoAccount,
                        Users!IsTenant(account'[f].by)
                 PROVE  \/ \A i \in account'[f].ids : granted'[i] > 0
                        \/ poolFaults' > 0
                        \/ \E d \in Calls : OnItsWay(d, f)'
      BY DEF AccountsGranted, Users!IsTenant
    <3>1. CASE f = reg[c].email
      BY <3>1, <2>2, <2>3, <2>5 DEF OnItsWay
    <3>2. CASE f # reg[c].email
      <4>1. ASSUME NEW d \in Calls, OnItsWay(d, f) PROVE OnItsWay(d, f)'
        <5>1. d # c BY <4>1, <1>1 DEF OnItsWay
        <5> QED BY <5>1, <3>2, <4>1, <2>1, <2>3, <2>6 DEF OnItsWay
      <4> QED BY <3>2, <2>3, <4>1, <1>1 DEF UserInv, AccountsGranted
    <3> QED BY <3>1, <3>2
  <2> QED BY <1>1, <2>4, <2>7, <2>8, GrantsStay DEF UserInv
<1> QED BY <1>2, <1>3 DEF Users!CreateUser

\* The password changes nothing of what an account says; a tenant's registration goes
\* on, any other is over.
LEMMA PasswordStep == ASSUME UserInv, NEW c \in Calls, Users!SetUserPassword(c) PROVE UserInv'
<1>t. UserTypeInv /\ RegInv BY DEF UserInv
<1>1. /\ reg[c] \in RegType /\ reg[c].pc = "password" /\ Created(c) /\ reg[c] # Users!Idle
      /\ reg[c].email \in Jobs /\ account[reg[c].email] \in AccountType
      /\ UNCHANGED <<tenantIds, tokens, clock, granted, writes, poolFaults>>
  BY <1>t DEF Users!SetUserPassword, UserTypeInv, Users!Idle, RegType, Created, RegInv
<1>2. \A f \in Jobs :
        /\ account'[f] = Users!NoAccount <=> account[f] = Users!NoAccount
        /\ account[f] # Users!NoAccount =>
             account'[f].ids = account[f].ids /\ account'[f].by = account[f].by
        /\ account' \in [Jobs -> AccountType \cup {Users!NoAccount}]
  BY <1>1, <1>t DEF Users!SetUserPassword, UserTypeInv, AccountType, Users!NoAccount
<1>3. /\ \A d \in Calls \ {c} : reg'[d] = reg[d]
      /\ reg' = [reg EXCEPT ![c] = reg'[c]]
      /\ reg'[c] = IF Users!IsTenant(reg[c].token) THEN [reg[c] EXCEPT !.pc = "tenant"]
                                                   ELSE Users!Idle
  BY <1>t DEF Users!SetUserPassword, UserTypeInv, Users!UpdatesTenant
<1>4. CASE Users!IsTenant(reg[c].token)
  <2>1. /\ reg'[c] \in RegType /\ reg'[c] # Users!Idle /\ reg'[c].pc = "tenant"
        /\ reg'[c].email = reg[c].email /\ reg'[c].ids = reg[c].ids /\ reg'[c].token = reg[c].token
    BY <1>1, <1>3, <1>4 DEF RegType, Users!Idle
  <2>2. UserTypeInv' BY <1>1, <1>2, <1>3, <1>t, <2>1 DEF UserTypeInv
  <2>3. \A d \in Calls : Created(d)' <=> Created(d) BY <1>1, <1>3, <2>1 DEF Created
  <2>4. RegInv'
    <3>1. \A d \in Calls : reg[d] # Users!Idle => reg[d].email \in Jobs
      BY <1>t DEF UserTypeInv, RegType
    <3>2. tokens' = tokens BY <1>1
    <3>3. ASSUME NEW d \in Calls, reg'[d] # Users!Idle
          PROVE  /\ reg'[d].token \in tokens \cup {Users!Admin}
                 /\ Created(d)' => account'[reg'[d].email] # Users!NoAccount
                 /\ reg'[d].pc = "tenant" => Users!IsTenant(reg'[d].token)
      <4>1. CASE d = c
        BY <4>1, <2>1, <1>1, <1>2, <1>4, <1>t DEF RegInv
      <4>2. CASE d # c
        <5>1. reg'[d] = reg[d] BY <4>2, <1>3
        <5> QED BY <5>1, <3>1, <3>3, <1>t, <1>2, <2>3 DEF RegInv
      <4> QED BY <4>1, <4>2
    <3> QED BY <3>2, <3>3 DEF RegInv, Users!IsTenant
  <2>5. \A d \in Calls, f \in Jobs : account[f] # Users!NoAccount /\ OnItsWay(d, f) => OnItsWay(d, f)'
    BY <1>2, <1>3, <2>1, <2>3 DEF OnItsWay
  <2>6. AccountsGranted' BY <1>1, <1>2, <2>5 DEF UserInv, AccountsGranted, Users!IsTenant
  <2> QED BY <1>1, <2>2, <2>4, <2>6, GrantsStay DEF UserInv
<1>5. CASE ~Users!IsTenant(reg[c].token)
  <2>1. reg'[c] = Users!Idle BY <1>3, <1>5
  <2>2. UserTypeInv' BY <1>1, <1>2, <1>3, <1>t, <2>1 DEF UserTypeInv
  <2>3. RegInv'
    <3>1. \A d \in Calls : reg[d] # Users!Idle => reg[d].email \in Jobs
      BY <1>t DEF UserTypeInv, RegType
    <3> QED BY <1>1, <1>2, <1>3, <1>t, <2>1, <3>1 DEF RegInv, Created
  <2>4. ASSUME NEW d \in Calls, NEW f \in Jobs, account[f] # Users!NoAccount,
               Users!IsTenant(account[f].by), OnItsWay(d, f)
        PROVE  OnItsWay(d, f)'
    <3>1. d # c BY <2>4, <1>5 DEF OnItsWay
    <3> QED BY <3>1, <1>2, <1>3, <2>4 DEF OnItsWay, Created
  <2>5. AccountsGranted' BY <1>1, <1>2, <2>4 DEF UserInv, AccountsGranted, Users!IsTenant
  <2> QED BY <1>1, <2>2, <2>3, <2>5, GrantsStay DEF UserInv
<1> QED BY <1>4, <1>5

\* The write of the tenant's attributes: what it takes away it was given after the
\* token was issued, or had been taken from it before.
LEMMA UpdateStep == ASSUME UserInv, NEW c \in Calls, Users!UpdateUser(c) PROVE UserInv'
<1>t. UserTypeInv /\ RegInv /\ ClockInv BY DEF UserInv
<1> DEFINE t == reg[c].token
           ids == reg[c].ids
           w == [at |-> clock + 1, issued |-> t.issued]
<1>1. /\ reg[c] \in RegType /\ reg[c].pc = "tenant" /\ Created(c) /\ reg[c] # Users!Idle
      /\ t \in TokenType /\ ids \in SUBSET Shops /\ t \in tokens
      /\ UNCHANGED <<account, tokens, attempts, poolFaults>>
  <2>1. reg[c] \in RegType /\ reg[c].pc = "tenant" /\ reg[c] # Users!Idle
    BY <1>t DEF Users!UpdateUser, UserTypeInv, Users!Idle
  <2>2. t \in tokens
    BY <2>1, <1>t DEF RegInv, Users!IsTenant, Users!Admin, Users!validate
  <2> QED BY <2>1, <2>2 DEF Users!UpdateUser, RegType, Created
<1>2. /\ clock' = clock + 1 /\ clock \in Nat
      /\ writes' = writes \cup {w} /\ w \in [at : Nat, issued : Nat]
      /\ w.at = clock + 1 /\ w.issued = t.issued
  BY <1>1, <1>t DEF Users!UpdateUser, UserTypeInv, TokenType
<1>3. \A i \in Shops : /\ granted'[i] = IF i \in ids THEN clock + 1 ELSE granted[i]
                       /\ granted[i] \in Nat /\ granted[i] <= clock
  BY <1>t DEF Users!UpdateUser, UserTypeInv, ClockInv
<1>4. reg'[c] = Users!Idle /\ \A d \in Calls \ {c} : reg'[d] = reg[d]
  BY <1>t DEF Users!UpdateUser, UserTypeInv
<1>5. tenantIds' = IF t.implementationIds \cup ids = {} THEN tenantIds
                                                       ELSE t.implementationIds \cup ids
  BY DEF Users!UpdateUser, Users!getCognitoUserAttributes, Users!implementationIds
<1>6. UserTypeInv'
  <2>1. granted' \in [Shops -> Nat] BY <1>1, <1>2, <1>3 DEF Users!UpdateUser
  <2>2. reg' \in [Calls -> RegType \cup {Users!Idle}]
    BY <1>t DEF Users!UpdateUser, UserTypeInv
  <2>3. tenantIds' \in SUBSET Shops BY <1>1, <1>5, <1>t DEF TokenType, UserTypeInv
  <2> QED BY <2>1, <2>2, <2>3, <1>1, <1>2, <1>t DEF UserTypeInv
<1> HIDE DEF t, ids, w
<1>7. RegInv' BY <1>1, <1>4, <1>t DEF RegInv, Created
<1>8. ClockInv'
  <2>1. \A s \in tokens : s.issued \in Nat BY <1>t DEF UserTypeInv, TokenType
  <2> QED BY <1>1, <1>2, <1>3, <1>t, <2>1 DEF ClockInv
<1>9. \A i \in Shops : TakenAway(i) /\ i \notin ids => TakenAway(i)'
  BY <1>2, <1>3 DEF TakenAway
<1>10. TokensKnow'
  <2> SUFFICES ASSUME NEW s \in tokens, NEW i \in Shops, granted'[i] > 0, granted'[i] < s.issued,
                      i \notin s.implementationIds
               PROVE  TakenAway(i)'
    BY <1>1 DEF TokensKnow
  <2>1. s.issued <= clock /\ s.issued \in Nat BY <1>t DEF ClockInv, UserTypeInv, TokenType
  <2>2. i \notin ids BY <2>1, <1>2, <1>3
  <2> QED BY <2>2, <1>3, <1>9 DEF UserInv, TokensKnow
<1>11. Users!AccessKept'
  <2> SUFFICES ASSUME NEW i \in Shops, granted'[i] > 0, i \notin tenantIds'
               PROVE  TakenAway(i)'
    BY DEF Users!AccessKept, TakenAway
  <2>1. i \notin ids /\ granted'[i] = granted[i] BY <1>3, <1>5
  <2>2. CASE t.implementationIds \cup ids = {}
    <3>1. TakenAway(i) BY <2>1, <2>2, <1>5 DEF UserInv, Users!AccessKept, TakenAway
    <3> QED BY <3>1, <2>1, <1>9
  <2>3. CASE i \notin t.implementationIds /\ granted[i] < t.issued
    <3>1. TakenAway(i) BY <2>1, <2>3, <1>1 DEF UserInv, TokensKnow
    <3> QED BY <3>1, <2>1, <1>9
  <2>4. CASE ~(granted[i] < t.issued)
    <3>1. t.issued < granted[i]
      BY <2>4, <1>1, <1>3, <1>t DEF ClockInv, TokenType
    <3> QED BY <3>1, <2>1, <1>2, <1>3 DEF TakenAway
  <2> QED BY <2>2, <2>3, <2>4, <1>5
<1>12. AccountsGranted'
  <2> SUFFICES ASSUME NEW e \in Jobs, account[e] # Users!NoAccount, Users!IsTenant(account[e].by),
                      poolFaults <= 0, \A d \in Calls : ~OnItsWay(d, e)'
               PROVE  \A i \in account[e].ids : granted'[i] > 0
    BY <1>1, <1>6 DEF AccountsGranted, Users!IsTenant, UserTypeInv
  <2>0. account[e].ids \subseteq Shops BY <1>t DEF UserTypeInv, AccountType
  <2>1. CASE \A i \in account[e].ids : granted[i] > 0
    BY <2>0, <2>1, <1>2, <1>3
  <2>2. CASE \E d \in Calls : OnItsWay(d, e)
    <3>1. PICK d \in Calls : OnItsWay(d, e) BY <2>2
    <3>2. d = c BY <3>1, <1>1, <1>4 DEF OnItsWay, Created
    <3>3. account[e].ids = ids BY <3>1, <3>2 DEF OnItsWay, ids
    <3> QED BY <2>0, <3>3, <1>2, <1>3
  <2> QED BY <2>1, <2>2, <1>t DEF UserInv, AccountsGranted, UserTypeInv
<1> QED BY <1>6, <1>7, <1>8, <1>10, <1>11, <1>12 DEF UserInv

\* A registration that breaks off leaves all as it is; from then on a call has failed.
LEMMA RegistrationBreaksOff == ASSUME UserInv, NEW c \in Calls, Users!BreakOff(c) PROVE UserInv'
<1>t. UserTypeInv /\ RegInv BY DEF UserInv
<1>1. /\ reg'[c] = Users!Idle /\ \A d \in Calls \ {c} : reg'[d] = reg[d]
      /\ poolFaults' = poolFaults + 1
      /\ UNCHANGED <<tenantIds, account, tokens, clock, granted, writes>>
  BY <1>t DEF Users!BreakOff, UserTypeInv
<1>2. UserTypeInv' BY <1>t, <1>1 DEF Users!BreakOff, UserTypeInv
<1>3. RegInv' BY <1>t, <1>1 DEF RegInv, Created
<1>4. AccountsGranted' BY <1>t, <1>1 DEF UserTypeInv, AccountsGranted
<1> QED BY <1>1, <1>2, <1>3, <1>4, GrantsStay DEF UserInv

\* Every step of a registration keeps the invariant.
LEMMA UsersStep == ASSUME UserInv, Users!Next PROVE UserInv'
<1>1. ASSUME NEW c \in Calls, NEW e \in Jobs, NEW role \in {"ShopUser", "TenantUser"},
             NEW ids \in {{}} \cup {{i} : i \in Shops}, NEW t \in tokens \cup {Users!Admin},
             Users!Register(c, e, role, ids, t)
      PROVE  UserInv'
  <2>1. ids \in SUBSET Shops OBVIOUS
  <2> QED BY <1>1, <2>1, RegisterStep
<1> QED BY <1>1, LoginStep, CreateStep, PasswordStep, UpdateStep, RegistrationBreaksOff
        DEF Users!Next

\* Registration: a tenant loses an implementation it was given only to a registration
\* under an older token, and has the implementations of the users it registered, but
\* for registrations that run or broke off (auth.service.ts:79, :117).
THEOREM UsersKept == ServicesSpec => []RegisteredUsersHold
<1> DEFINE Inv == part = "user" => UserInv
<1>1. ServicesInit => Inv
  BY UsersBegin DEF ServicesInit
<1>2. Inv /\ [ServicesNext]_servicesVars => Inv'
  <2>1. ASSUME Inv, ServicesNext PROVE Inv'
    BY <2>1, UsersStep DEF ServicesNext
  <2>2. ASSUME Inv, UNCHANGED part, UNCHANGED userPart PROVE Inv'
    BY <2>2 DEF userPart, UserInv, UserTypeInv, RegInv, ClockInv, TokensKnow, TakenAway,
                AccountsGranted, OnItsWay, Created, Users!AccessKept
  <2> QED BY <2>1, <2>2 DEF servicesVars
<1>3. Inv => RegisteredUsersHold
  <2>1. ASSUME UserInv PROVE Users!TenantHasItsUsers
    <3>1. \A e \in Jobs : account[e] # Users!NoAccount => account[e].ids \subseteq Shops
      BY <2>1 DEF UserInv, UserTypeInv, AccountType
    <3>2. \A i \in Shops : granted[i] \in Nat BY <2>1 DEF UserInv, UserTypeInv
    <3> QED BY <2>1, <3>1, <3>2 DEF UserInv, AccountsGranted, OnItsWay, Created,
                                    Users!TenantHasItsUsers, Users!Idle
  <2> QED BY <2>1 DEF RegisteredUsersHold, Users!UsersAndTenantAgree, UserInv
<1> QED BY <1>1, <1>2, <1>3, PTL DEF ServicesSpec

----------------------------------------------------------------------------
(* SftpSession.                                                            *)

ClientType == [host : Shops \cup {Nobody}, up : BOOLEAN, listens : BOOLEAN,
               left : BOOLEAN, crossed : BOOLEAN]
HandlerType == [pc : {"cache", "asking", "waiting", "save", "use", "put", "wrote", "threw"},
                host : Shops, on : Nat, attempts : Nat, path : Shops \cup {Nobody},
                alone : BOOLEAN]

\* A handler that was called on a client was called on one that was made.
SftpTypeInv ==
  /\ config \in Shops \cup {Nobody}
  /\ clients \in Seq(ClientType)
  /\ client \in 0 .. Len(clients)
  /\ handler \in [Calls -> HandlerType \cup {Sftp!Idle}]
  /\ \A h \in Calls : handler[h] # Sftp!Idle => handler[h].on \in 0 .. Len(clients)
  /\ forgetting \in Nat

\* Handler h waits for the cache, and will make a client whatever there is by then; it
\* holds a client, which it was called on.
AtCache(h) == handler[h].pc = "cache"
Holds(h) == handler[h].pc \in {"asking", "waiting", "save"}

\* What makes OwnHost inductive: between handlers there is no connection that nobody
\* left; a handler alone finds its own server and its own folder.
LeftBehind ==
  (\A h \in Calls : handler[h] = Sftp!Idle) /\ Sftp!isConnected => clients[client].left

AloneInv ==
  \A h \in Calls : handler[h] # Sftp!Idle /\ handler[h].alone =>
    /\ \A g \in Calls \ {h} : handler[g] = Sftp!Idle
    /\ config = handler[h].host
    /\ handler[h].path \in {handler[h].host, Nobody}
    /\ Sftp!isConnected => clients[client].host = handler[h].host

\* What makes NoneLost inductive: of the client a handler holds and the one the service
\* holds, both are crossed or they are the same; one that a handler at the cache is
\* about to replace is crossed as soon as it can be connected.
HeldInv ==
  \A g \in Calls : Holds(g) =>
    /\ handler[g].on # 0 /\ handler[g].on # client => clients[handler[g].on].crossed
    /\ client # 0 /\ client # handler[g].on => clients[client].crossed

CacheInv ==
  \A h \in Calls : AtCache(h) =>
    /\ Sftp!isConnected => clients[client].crossed
    /\ \A g \in Calls : Holds(g) /\ handler[g].on # 0 => clients[handler[g].on].crossed

SftpInv == /\ SftpTypeInv /\ LeftBehind /\ AloneInv /\ HeldInv /\ CacheInv
           /\ Sftp!OwnHost /\ Sftp!NoneLost

\* Nothing is connected at the start.
LEMMA SftpBegins == ASSUME Sftp!Init PROVE SftpInv
<1>1. clients = <<>> /\ client = 0 /\ Len(clients) = 0 BY DEF Sftp!Init
<1>2. clients \in Seq(ClientType) BY <1>1
<1> QED BY <1>1, <1>2 DEF Sftp!Init, SftpInv, SftpTypeInv, LeftBehind, AloneInv, HeldInv,
           CacheInv, AtCache, Holds, Sftp!OwnHost, Sftp!NoneLost, Sftp!Idle, Sftp!isConnected

\* What a step leaves of the clients that were made: who it serves, and what is noted.
ClientsKept ==
  /\ clients' \in Seq(ClientType) /\ Len(clients') = Len(clients)
  /\ \A c \in DOMAIN clients :
       /\ clients'[c].host = clients[c].host /\ clients'[c].up = clients[c].up
       /\ clients'[c].left = clients[c].left /\ clients'[c].crossed = clients[c].crossed

\* A handler goes on with what it has: not to the cache, and it holds no client it did
\* not hold.
LEMMA GoesOn ==
  ASSUME SftpInv, NEW h \in Calls, handler[h] # Sftp!Idle,
         handler' = [handler EXCEPT ![h] = handler'[h]], handler'[h] \in HandlerType,
         handler'[h].host = handler[h].host, handler'[h].alone = handler[h].alone,
         handler'[h].on = handler[h].on,
         handler'[h].path \in {handler[h].path, config, Nobody},
         ~AtCache(h)', Holds(h)' => Holds(h),
         ClientsKept, UNCHANGED <<config, client, forgetting, stray>>
  PROVE  SftpInv'
<1>t. SftpTypeInv BY DEF SftpInv
<1>1. \A g \in Calls \ {h} : handler'[g] = handler[g]
  BY <1>t DEF SftpTypeInv
<1>2. handler'[h] # Sftp!Idle BY DEF HandlerType, Sftp!Idle
<1>3. SftpTypeInv'
  BY <1>t, <1>1, <1>2 DEF SftpTypeInv, ClientsKept
<1>4. Sftp!isConnected' <=> Sftp!isConnected
  BY <1>t DEF Sftp!isConnected, SftpTypeInv, ClientsKept
<1>5. LeftBehind' BY <1>2 DEF LeftBehind
<1>6. client # 0 => clients'[client].host = clients[client].host
                    /\ clients'[client].crossed = clients[client].crossed
  BY <1>t DEF SftpTypeInv, ClientsKept
<1>7. AloneInv'
  <2> SUFFICES ASSUME NEW f \in Calls, handler'[f] # Sftp!Idle, handler'[f].alone
               PROVE  /\ \A g \in Calls \ {f} : handler'[g] = Sftp!Idle
                      /\ config = handler'[f].host
                      /\ handler'[f].path \in {handler'[f].host, Nobody}
                      /\ Sftp!isConnected' => clients'[client].host = handler'[f].host
    BY DEF AloneInv
  <2>1. f = h BY <1>1 DEF SftpInv, AloneInv
  <2> QED BY <2>1, <1>1, <1>4, <1>6 DEF SftpInv, AloneInv, Sftp!isConnected
<1>8. \A g \in Calls : Holds(g)' => Holds(g) /\ handler'[g].on = handler[g].on
                                    /\ handler[g].on \in 0 .. Len(clients)
  BY <1>1, <1>t DEF Holds, SftpTypeInv, Sftp!Idle
<1>9. \A g \in Calls : AtCache(g)' => AtCache(g) BY <1>1 DEF AtCache
<1>10. HeldInv' BY <1>6, <1>8 DEF SftpInv, HeldInv, ClientsKept
<1>11. CacheInv' BY <1>4, <1>6, <1>8, <1>9 DEF SftpInv, CacheInv, ClientsKept, Sftp!isConnected
<1>12. Sftp!OwnHost' /\ Sftp!NoneLost'
  BY <1>t DEF SftpInv, Sftp!OwnHost, Sftp!NoneLost, ClientsKept, SftpTypeInv
<1> QED BY <1>3, <1>5, <1>7, <1>10, <1>11, <1>12 DEF SftpInv

\* A handler that only changes its pc, to one that is not the cache.
LEMMA GotoStep ==
  ASSUME SftpInv, NEW h \in Calls, handler[h] # Sftp!Idle,
         NEW pc \in {"asking", "waiting", "save", "use", "put", "wrote", "threw"},
         Sftp!Goto(h, pc), pc \in {"asking", "waiting", "save"} => Holds(h),
         ClientsKept, UNCHANGED <<config, client, forgetting, stray>>
  PROVE  SftpInv'
<1>t. SftpTypeInv BY DEF SftpInv
<1>1. handler[h] \in HandlerType BY <1>t DEF SftpTypeInv
<1>2. handler'[h] = [handler[h] EXCEPT !.pc = pc] /\ handler' = [handler EXCEPT ![h] = handler'[h]]
  BY <1>t DEF Sftp!Goto, SftpTypeInv
<1>3. /\ handler'[h] \in HandlerType /\ handler'[h].pc = pc
      /\ handler'[h].host = handler[h].host /\ handler'[h].alone = handler[h].alone
      /\ handler'[h].on = handler[h].on /\ handler'[h].path = handler[h].path
  BY <1>1, <1>2 DEF HandlerType
<1> QED BY <1>1, <1>2, <1>3, GoesOn DEF AtCache, Holds

\* connectWithRetry is refused, and waits or gives up.
LEMMA RefusedStep == ASSUME SftpInv, NEW h \in Calls, Sftp!Refused(h) PROVE SftpInv'
<1>1. handler[h] # Sftp!Idle /\ Holds(h) BY DEF Sftp!Refused, Sftp!Idle, Holds
<1>2. ClientsKept /\ UNCHANGED <<config, client, forgetting, stray>>
  BY DEF Sftp!Refused, ClientsKept, SftpInv, SftpTypeInv
<1>3. Sftp!Goto(h, "threw") \/ Sftp!Goto(h, "waiting")
  BY DEF Sftp!Refused
<1> QED BY <1>1, <1>2, <1>3, GotoStep

\* The listeners are added to the client the service holds.
LEMMA ListenStep == ASSUME SftpInv, NEW h \in Calls, Sftp!addListeners(h) PROVE SftpInv'
<1>t. SftpTypeInv BY DEF SftpInv
<1>1. handler[h] # Sftp!Idle BY DEF Sftp!addListeners, Sftp!Idle
<1>2. UNCHANGED <<config, client, forgetting, stray>> BY DEF Sftp!addListeners
<1>3. CASE client = 0
  <2>1. ClientsKept BY <1>3, <1>t DEF Sftp!addListeners, ClientsKept, SftpTypeInv
  <2> QED BY <1>1, <1>2, <1>3, <2>1, GotoStep DEF Sftp!addListeners
<1>4. CASE client # 0
  <2>1. clients' = [clients EXCEPT ![client].listens = TRUE] /\ Sftp!Goto(h, "use")
    BY <1>4 DEF Sftp!addListeners
  <2>2. client \in DOMAIN clients /\ clients[client] \in ClientType
    BY <1>4, <1>t DEF SftpTypeInv
  <2>3. [clients[client] EXCEPT !.listens = TRUE] \in ClientType BY <2>2 DEF ClientType
  <2>4. ClientsKept BY <1>t, <2>1, <2>2, <2>3 DEF SftpTypeInv, ClientsKept, ClientType
  <2> QED BY <1>1, <1>2, <2>1, <2>4, GotoStep
<1> QED BY <1>3, <1>4

\* A path is the one of the configuration, or empty.
LEMMA PathStep == ASSUME SftpInv, NEW h \in Calls, Sftp!getFullPathOrFail(h) PROVE SftpInv'
<1>t. SftpTypeInv BY DEF SftpInv
<1>1. handler[h] \in HandlerType /\ handler[h] # Sftp!Idle
  BY <1>t DEF Sftp!getFullPathOrFail, SftpTypeInv, Sftp!Idle
<1>2. PICK path \in {Nobody, config} : handler' = [handler EXCEPT ![h].pc = "put", ![h].path = path]
  BY DEF Sftp!getFullPathOrFail
<1>3. path \in Shops \cup {Nobody} BY <1>2, <1>t DEF SftpTypeInv
<1>4. /\ handler'[h] = [handler[h] EXCEPT !.pc = "put", !.path = path]
      /\ handler' = [handler EXCEPT ![h] = handler'[h]]
  BY <1>1, <1>2, <1>t DEF SftpTypeInv
<1>5. /\ handler'[h] \in HandlerType /\ handler'[h].pc = "put" /\ handler'[h].path = path
      /\ handler'[h].host = handler[h].host /\ handler'[h].alone = handler[h].alone
      /\ handler'[h].on = handler[h].on
  BY <1>1, <1>3, <1>4 DEF HandlerType
<1>6. ClientsKept /\ UNCHANGED <<config, client, forgetting, stray>>
  BY <1>t DEF Sftp!getFullPathOrFail, ClientsKept, SftpTypeInv
<1> QED BY <1>1, <1>2, <1>4, <1>5, <1>6, GoesOn DEF AtCache, Holds

\* A handler that is alone writes to its own server, and under its own folder.
LEMMA WriteFileStep == ASSUME SftpInv, NEW h \in Calls, Sftp!writeFile(h) PROVE SftpInv'
<1>t. SftpTypeInv BY DEF SftpInv
<1>1. handler[h] # Sftp!Idle BY DEF Sftp!writeFile, Sftp!Idle
<1>2. stray = FALSE BY DEF SftpInv, Sftp!OwnHost, Sftp!Init
<1>3. Sftp!isConnected /\ handler[h].alone => ~Sftp!Elsewhere(h)
  BY <1>1 DEF SftpInv, AloneInv, Sftp!Elsewhere
<1>4. ClientsKept /\ UNCHANGED <<config, client, forgetting>>
  BY <1>t DEF Sftp!writeFile, ClientsKept, SftpTypeInv
<1>5. CASE Sftp!isConnected
  <2>1. Sftp!Goto(h, "wrote") /\ stray' = (stray \/ (handler[h].alone /\ Sftp!Elsewhere(h)))
    BY <1>5 DEF Sftp!writeFile
  <2>2. stray' = FALSE BY <1>2, <1>3, <1>5, <2>1
  <2> QED BY <1>1, <1>2, <1>4, <2>1, <2>2, GotoStep
<1>6. CASE ~Sftp!isConnected
  <2>1. Sftp!Goto(h, "threw") /\ stray' = stray BY <1>6 DEF Sftp!writeFile
  <2> QED BY <1>1, <1>4, <2>1, GotoStep
<1> QED BY <1>5, <1>6

\* connect: a handler that is alone finds nothing connected, and one that goes to the
\* cache crosses the clients of those that are connecting.
LEMMA ConnectStep ==
  ASSUME SftpInv, NEW h \in Calls, NEW host \in Shops, Sftp!Connect(h, host)
  PROVE  SftpInv'
<1>t. SftpTypeInv BY DEF SftpInv
<1> DEFINE new == [pc |-> IF Sftp!isConnected THEN "use" ELSE "cache", host |-> host,
                   on |-> 0, attempts |-> 0, path |-> Nobody, alone |-> Sftp!Alone(h)]
<1>1. /\ handler[h] = Sftp!Idle /\ handler'[h] = new /\ new \in HandlerType
      /\ config' = host /\ UNCHANGED <<client, forgetting, stray>>
      /\ new.on = 0 /\ new.alone = Sftp!Alone(h) /\ new.host = host /\ new.path = Nobody
      /\ new.pc = IF Sftp!isConnected THEN "use" ELSE "cache"
  BY DEF Sftp!Connect, HandlerType, Sftp!Alone
<1> HIDE DEF new
<1>2. \A g \in Calls \ {h} :
        /\ handler[g] = Sftp!Idle => handler'[g] = Sftp!Idle
        /\ handler[g] # Sftp!Idle => handler'[g] = [handler[g] EXCEPT !.alone = FALSE]
  BY DEF Sftp!Connect
<1>3. \A g \in Calls \ {h} : handler[g] # Sftp!Idle =>
        /\ handler'[g] \in HandlerType /\ ~handler'[g].alone
        /\ handler'[g].pc = handler[g].pc /\ handler'[g].on = handler[g].on
  BY <1>2, <1>t DEF SftpTypeInv, HandlerType
<1>4. \A c \in DOMAIN clients :
        /\ clients[c] \in ClientType
        /\ clients'[c] = [clients[c] EXCEPT !.crossed =
             clients[c].crossed \/ \E g \in Calls : Sftp!Connecting(g) /\ handler[g].on = c]
  BY <1>t DEF Sftp!Connect, SftpTypeInv
<1>5. \A c \in DOMAIN clients :
        /\ clients'[c] \in ClientType /\ clients'[c].host = clients[c].host
        /\ clients'[c].up = clients[c].up /\ clients'[c].left = clients[c].left
        /\ clients[c].crossed => clients'[c].crossed
        /\ \A g \in Calls : Holds(g) /\ handler[g].on = c => clients'[c].crossed
  <2> SUFFICES ASSUME NEW c \in DOMAIN clients
               PROVE  /\ clients'[c] \in ClientType /\ clients'[c].host = clients[c].host
                      /\ clients'[c].up = clients[c].up /\ clients'[c].left = clients[c].left
                      /\ clients[c].crossed => clients'[c].crossed
                      /\ \A g \in Calls : Holds(g) /\ handler[g].on = c => clients'[c].crossed
    OBVIOUS
  <2>1. PICK x \in BOOLEAN : x <=> clients[c].crossed \/ \E g \in Calls : Sftp!Connecting(g) /\ handler[g].on = c
    OBVIOUS
  <2>2. x = (clients[c].crossed \/ \E g \in Calls : Sftp!Connecting(g) /\ handler[g].on = c)
    BY <2>1, <1>4 DEF ClientType
  <2>3. clients'[c] = [clients[c] EXCEPT !.crossed = x] /\ clients[c] \in ClientType
    BY <2>2, <1>4
  <2>4. \A g \in Calls : Holds(g) => Sftp!Connecting(g) BY DEF Holds, Sftp!Connecting
  <2> QED BY <2>1, <2>3, <2>4 DEF ClientType
<1>6. clients' \in Seq(ClientType) /\ Len(clients') = Len(clients) /\ DOMAIN clients' = DOMAIN clients
  <2>1. clients' = [c \in DOMAIN clients |-> clients'[c]] BY DEF Sftp!Connect
  <2>2. \A c \in DOMAIN clients : clients'[c] \in ClientType BY <1>5
  <2>3. clients \in Seq(ClientType) BY <1>t DEF SftpTypeInv
  <2> QED BY <2>1, <2>2, <2>3
<1>7. SftpTypeInv'
  <2>1. handler' \in [Calls -> HandlerType \cup {Sftp!Idle}]
    <3>1. \A g \in Calls : handler'[g] \in HandlerType \cup {Sftp!Idle} BY <1>1, <1>2, <1>3
    <3>2. handler' = [g \in Calls |-> handler'[g]] BY DEF Sftp!Connect
    <3> QED BY <3>1, <3>2
  <2>2. \A g \in Calls : handler'[g] # Sftp!Idle => handler'[g].on \in 0 .. Len(clients')
    <3>1. Len(clients') = Len(clients) /\ Len(clients) \in Nat BY <1>6, <1>t DEF SftpTypeInv
    <3>2. ASSUME NEW g \in Calls, handler[g] # Sftp!Idle, g # h
          PROVE  handler'[g].on \in 0 .. Len(clients)
      <4>1. handler[g].on \in 0 .. Len(clients) BY <3>2, <1>t DEF SftpTypeInv
      <4> QED BY <3>2, <4>1, <1>3
    <3>3. handler'[h].on = 0 BY <1>1
    <3>4. \A g \in Calls \ {h} : handler[g] = Sftp!Idle => handler'[g] = Sftp!Idle BY <1>2
    <3> QED BY <3>1, <3>2, <3>3, <3>4
  <2> QED BY <2>1, <2>2, <1>1, <1>6, <1>t DEF SftpTypeInv
<1>8. Sftp!isConnected' <=> Sftp!isConnected
  BY <1>1, <1>5, <1>t DEF Sftp!isConnected, SftpTypeInv
<1>9. handler'[h] # Sftp!Idle BY <1>1 DEF HandlerType, Sftp!Idle
<1>10. LeftBehind' BY <1>9 DEF LeftBehind
<1>11. AloneInv'
  <2> SUFFICES ASSUME NEW f \in Calls, handler'[f] # Sftp!Idle, handler'[f].alone
               PROVE  /\ \A g \in Calls \ {f} : handler'[g] = Sftp!Idle
                      /\ config' = handler'[f].host
                      /\ handler'[f].path \in {handler'[f].host, Nobody}
                      /\ ~Sftp!isConnected'
    BY DEF AloneInv
  <2>1. f = h BY <1>2, <1>3
  <2>2. Sftp!Alone(h) BY <2>1, <1>1
  <2>3. ~Sftp!isConnected BY <2>2, <1>1 DEF Sftp!Alone, SftpInv, LeftBehind
  <2> QED BY <2>1, <2>2, <2>3, <1>1, <1>2, <1>8 DEF Sftp!Alone
<1>12. \A g \in Calls : Holds(g)' => g # h /\ Holds(g) /\ handler'[g].on = handler[g].on
                                   /\ handler[g].on \in 0 .. Len(clients)
  BY <1>1, <1>2, <1>3, <1>t DEF Holds, Sftp!Idle, SftpTypeInv
<1>13. HeldInv'
  <2>1. client' = client /\ client \in 0 .. Len(clients) BY <1>1, <1>t DEF SftpTypeInv
  <2> QED BY <2>1, <1>5, <1>12, <1>t DEF SftpInv, HeldInv, SftpTypeInv
<1>14. CacheInv'
  <2> SUFFICES ASSUME NEW f \in Calls, AtCache(f)'
               PROVE  /\ Sftp!isConnected' => clients'[client].crossed
                      /\ \A g \in Calls : Holds(g)' /\ handler'[g].on # 0 =>
                           clients'[handler'[g].on].crossed
    BY <1>1 DEF CacheInv
  <2>1. ASSUME NEW g \in Calls, Holds(g)', handler'[g].on # 0
        PROVE  clients'[handler'[g].on].crossed
    BY <2>1, <1>5, <1>12, <1>t DEF SftpTypeInv
  <2>2. CASE f = h BY <2>1, <2>2, <1>1, <1>8 DEF AtCache
  <2>3. CASE f # h
    <3>1. AtCache(f) BY <2>3, <1>2, <1>3 DEF AtCache, Sftp!Idle
    <3>2. Sftp!isConnected => clients[client].crossed /\ client \in DOMAIN clients
      BY <3>1, <1>t DEF SftpInv, CacheInv, Sftp!isConnected, SftpTypeInv
    <3> QED BY <2>1, <3>2, <1>5, <1>8
  <2> QED BY <2>2, <2>3
<1>15. Sftp!OwnHost' /\ Sftp!NoneLost'
  BY <1>1, <1>5, <1>6 DEF SftpInv, Sftp!OwnHost, Sftp!NoneLost
<1> QED BY <1>7, <1>10, <1>11, <1>13, <1>14, <1>15 DEF SftpInv

\* A new client is crossed if others are connecting; those who wait for the cache have
\* crossed the one it replaces.
LEMMA NewClientStep == ASSUME SftpInv, NEW h \in Calls, Sftp!NewClient(h) PROVE SftpInv'
<1>t. SftpTypeInv BY DEF SftpInv
<1> DEFINE n == Len(clients) + 1
           x == \E g \in Calls \ {h} : Sftp!Connecting(g)
           new == [host |-> Nobody, up |-> FALSE, listens |-> FALSE, left |-> FALSE, crossed |-> x]
<1>1. /\ AtCache(h) /\ handler[h] # Sftp!Idle /\ handler[h] \in HandlerType
      /\ clients' = Append(clients, new) /\ client' = n
      /\ UNCHANGED <<config, forgetting, stray>>
  BY <1>t DEF Sftp!NewClient, AtCache, Sftp!Idle, SftpTypeInv
<1>2. new \in ClientType /\ new.up = FALSE /\ new.crossed = x
  BY DEF ClientType
<1>3. /\ clients' \in Seq(ClientType) /\ Len(clients') = n /\ clients'[n] = new
      /\ n \in Nat \ {0} /\ Len(clients) \in Nat
      /\ \A c \in 1 .. Len(clients) : clients'[c] = clients[c]
  <2> HIDE DEF new
  <2> QED BY <1>1, <1>2, <1>t DEF SftpTypeInv
<1> HIDE DEF new, x
<1>4. /\ handler'[h] = [handler[h] EXCEPT !.pc = "asking", !.on = n, !.attempts = 1]
      /\ \A g \in Calls \ {h} : handler'[g] = handler[g]
      /\ handler' = [handler EXCEPT ![h] = handler'[h]]
  BY <1>1, <1>t DEF Sftp!NewClient, SftpTypeInv
<1>5. /\ handler'[h] \in HandlerType /\ handler'[h].pc = "asking" /\ handler'[h].on = n
      /\ handler'[h].host = handler[h].host /\ handler'[h].alone = handler[h].alone
      /\ handler'[h].path = handler[h].path /\ handler'[h] # Sftp!Idle
  <2>1. n \in Nat BY <1>3
  <2>2. handler'[h] = [pc |-> "asking", host |-> handler[h].host, on |-> n, attempts |-> 1,
                       path |-> handler[h].path, alone |-> handler[h].alone]
    BY <1>1, <1>4 DEF HandlerType
  <2> HIDE DEF n
  <2> QED BY <1>1, <2>1, <2>2 DEF HandlerType, Sftp!Idle
<1>6. SftpTypeInv'
  <2>1. handler' \in [Calls -> HandlerType \cup {Sftp!Idle}] BY <1>4, <1>5, <1>t DEF SftpTypeInv
  <2>2. ASSUME NEW g \in Calls, handler'[g] # Sftp!Idle PROVE handler'[g].on \in 0 .. n
    <3>1. CASE g = h BY <3>1, <1>3, <1>5
    <3>2. CASE g # h
      <4>1. handler[g].on \in 0 .. Len(clients) /\ handler'[g] = handler[g]
        BY <3>2, <2>2, <1>4, <1>t DEF SftpTypeInv
      <4> QED BY <4>1, <1>3
    <3> QED BY <3>1, <3>2
  <2> QED BY <2>1, <2>2, <1>1, <1>3, <1>t DEF SftpTypeInv
<1>7. ~Sftp!isConnected' BY <1>1, <1>2, <1>3 DEF Sftp!isConnected
<1>8. AloneInv'
  <2> SUFFICES ASSUME NEW f \in Calls, handler'[f] # Sftp!Idle, handler'[f].alone
               PROVE  /\ \A g \in Calls \ {f} : handler'[g] = Sftp!Idle
                      /\ config' = handler'[f].host
                      /\ handler'[f].path \in {handler'[f].host, Nobody}
    BY <1>7 DEF AloneInv
  <2>1. f = h BY <1>1, <1>4 DEF SftpInv, AloneInv
  <2> QED BY <2>1, <1>1, <1>4, <1>5 DEF SftpInv, AloneInv
<1>9. \A g \in Calls \ {h} : Holds(g)' =>
        /\ Holds(g) /\ handler'[g].on = handler[g].on /\ handler[g].on \in 0 .. Len(clients) /\ x
        /\ handler[g].on # 0 => clients[handler[g].on].crossed
  <2> SUFFICES ASSUME NEW g \in Calls \ {h}, Holds(g)'
               PROVE  /\ Holds(g) /\ handler'[g].on = handler[g].on
                      /\ handler[g].on \in 0 .. Len(clients) /\ x
                      /\ handler[g].on # 0 => clients[handler[g].on].crossed
    OBVIOUS
  <2>1. Holds(g) /\ handler'[g].on = handler[g].on BY <1>4 DEF Holds
  <2>2. handler[g] # Sftp!Idle BY <2>1 DEF Holds, Sftp!Idle
  <2>3. x BY <2>1 DEF x, Holds, Sftp!Connecting
  <2> QED BY <2>1, <2>2, <2>3, <1>1, <1>t DEF SftpInv, CacheInv, SftpTypeInv
<1>10. HeldInv'
  <2> SUFFICES ASSUME NEW g \in Calls, Holds(g)'
               PROVE  /\ handler'[g].on # 0 /\ handler'[g].on # n => clients'[handler'[g].on].crossed
                      /\ n # handler'[g].on => clients'[n].crossed
    BY <1>1 DEF HeldInv
  <2>1. CASE g = h BY <2>1, <1>5
  <2>2. CASE g # h BY <2>2, <1>2, <1>3, <1>9
  <2> QED BY <2>1, <2>2
<1>11. CacheInv'
  <2> SUFFICES ASSUME NEW f \in Calls, AtCache(f)', NEW g \in Calls, Holds(g)', handler'[g].on # 0
               PROVE  clients'[handler'[g].on].crossed
    BY <1>7 DEF CacheInv
  <2>1. f # h /\ Sftp!Connecting(f)
    BY <1>4, <1>5 DEF AtCache, Sftp!Connecting
  <2>2. x BY <2>1 DEF x
  <2>3. CASE g = h BY <2>2, <2>3, <1>2, <1>3, <1>5
  <2>4. CASE g # h BY <2>4, <1>3, <1>9
  <2> QED BY <2>3, <2>4
<1>12. Sftp!NoneLost'
  <2> SUFFICES ASSUME NEW c \in 1 .. n, clients'[c].up, c # n PROVE clients'[c].crossed
    BY <1>1, <1>3 DEF Sftp!NoneLost
  <2>1. c \in 1 .. Len(clients) /\ clients'[c] = clients[c] BY <1>3
  <2>2. CASE c = client BY <2>1, <2>2, <1>1 DEF SftpInv, CacheInv, Sftp!isConnected
  <2>3. CASE c # client BY <2>1, <2>3, <1>t DEF SftpInv, Sftp!NoneLost, SftpTypeInv
  <2> QED BY <2>2, <2>3
<1>13. LeftBehind' BY <1>5 DEF LeftBehind
<1>14. Sftp!OwnHost' BY <1>1 DEF SftpInv, Sftp!OwnHost
<1> QED BY <1>6, <1>8, <1>10, <1>11, <1>12, <1>13, <1>14 DEF SftpInv

\* The server answers on the client the handler was called on, which is that handler's
\* own server from then on.
LEMMA AnsweredStep == ASSUME SftpInv, NEW h \in Calls, Sftp!Answered(h) PROVE SftpInv'
<1>t. SftpTypeInv BY DEF SftpInv
<1>k. PICK o : o = handler[h].on OBVIOUS
<1>1. /\ Holds(h) /\ handler[h] # Sftp!Idle /\ handler[h] \in HandlerType
      /\ o \in 1 .. Len(clients) /\ ~clients[o].up /\ clients[o] \in ClientType
      /\ UNCHANGED <<config, client, forgetting, stray>>
  <2>1. handler[h].pc = "asking" /\ handler[h].on # 0 /\ ~clients[handler[h].on].up
    BY DEF Sftp!Answered
  <2>2. handler[h] # Sftp!Idle BY <2>1 DEF Sftp!Idle
  <2> QED BY <1>k, <1>t, <2>1, <2>2 DEF Sftp!Answered, SftpTypeInv, Holds
<1>2. /\ handler'[h] = [handler[h] EXCEPT !.pc = "save"]
      /\ \A g \in Calls \ {h} : handler'[g] = handler[g]
      /\ handler' = [handler EXCEPT ![h] = handler'[h]]
  BY <1>t DEF Sftp!Answered, Sftp!Goto, SftpTypeInv
<1>3. /\ handler'[h] \in HandlerType /\ handler'[h].pc = "save" /\ handler'[h].on = o
      /\ handler'[h].host = handler[h].host /\ handler'[h].alone = handler[h].alone
      /\ handler'[h].path = handler[h].path /\ handler'[h] # Sftp!Idle
      /\ handler[h].host \in Shops
  BY <1>k, <1>1, <1>2 DEF HandlerType, Sftp!Idle
<1>4. /\ clients' = [clients EXCEPT ![o] = clients'[o]]
      /\ clients'[o] = [clients[o] EXCEPT !.up = TRUE, !.host = handler[h].host]
      /\ \A c \in 1 .. Len(clients) : c # o => clients'[c] = clients[c]
  <2>1. clients' = [clients EXCEPT ![o].up = TRUE, ![o].host = handler[h].host]
    BY <1>k DEF Sftp!Answered
  <2>2. o \in DOMAIN clients BY <1>1, <1>t DEF SftpTypeInv
  <2>3. clients'[o] = [clients[o] EXCEPT !.up = TRUE, !.host = handler[h].host]
    BY <2>1, <2>2
  <2>4. clients' = [c \in DOMAIN clients |-> IF c = o THEN clients'[o] ELSE clients[c]]
    BY <2>1, <2>2
  <2>5. DOMAIN clients = 1 .. Len(clients) BY <1>t DEF SftpTypeInv
  <2> QED BY <2>3, <2>4, <2>5
<1>5. /\ clients'[o] \in ClientType /\ clients'[o].crossed = clients[o].crossed
      /\ clients'[o].host = handler[h].host
  BY <1>1, <1>3, <1>4 DEF ClientType
<1>6. clients' \in Seq(ClientType) /\ Len(clients') = Len(clients) /\ Len(clients) \in Nat
  BY <1>1, <1>4, <1>5, <1>t DEF SftpTypeInv
<1>7. SftpTypeInv'
  <2>1. handler' \in [Calls -> HandlerType \cup {Sftp!Idle}] BY <1>2, <1>3, <1>t DEF SftpTypeInv
  <2>2. \A g \in Calls : handler'[g] # Sftp!Idle => handler'[g].on \in 0 .. Len(clients)
    <3>1. ASSUME NEW g \in Calls \ {h}, handler[g] # Sftp!Idle PROVE handler[g].on \in 0 .. Len(clients)
      BY <3>1, <1>t DEF SftpTypeInv
    <3>2. handler'[h].on \in 0 .. Len(clients) BY <1>1, <1>3, <1>6
    <3> QED BY <1>2, <3>1, <3>2
  <2> QED BY <2>1, <2>2, <1>1, <1>6, <1>t DEF SftpTypeInv
<1>8. \A c \in 1 .. Len(clients) : clients'[c].crossed = clients[c].crossed
  BY <1>4, <1>5
<1>9. \A g \in Calls : Holds(g)' =>
        Holds(g) /\ handler'[g].on = handler[g].on /\ handler[g].on \in 0 .. Len(clients)
  <2>1. \A g \in Calls : Holds(g) => handler[g] # Sftp!Idle BY DEF Holds, Sftp!Idle
  <2>2. \A g \in Calls : Holds(g) => handler[g].on \in 0 .. Len(clients) BY <2>1, <1>t DEF SftpTypeInv
  <2>3. \A g \in Calls \ {h} : Holds(g)' => Holds(g) BY <1>2 DEF Holds
  <2> QED BY <1>k, <1>1, <1>2, <1>3, <2>2, <2>3
<1>10. \A g \in Calls : AtCache(g)' => AtCache(g) BY <1>2, <1>3 DEF AtCache
<1>11. LeftBehind' BY <1>3 DEF LeftBehind
<1>12. AloneInv'
  <2> SUFFICES ASSUME NEW f \in Calls, handler'[f] # Sftp!Idle, handler'[f].alone
               PROVE  /\ \A g \in Calls \ {f} : handler'[g] = Sftp!Idle
                      /\ config' = handler'[f].host
                      /\ handler'[f].path \in {handler'[f].host, Nobody}
                      /\ Sftp!isConnected' => clients'[client].host = handler'[f].host
    BY <1>1 DEF AloneInv
  <2>1. f = h BY <1>1, <1>2 DEF SftpInv, AloneInv
  <2>2. CASE client = o BY <2>1, <2>2, <1>1, <1>2, <1>3, <1>5 DEF SftpInv, AloneInv
  <2>3. CASE client # o
    <3>1. Sftp!isConnected' => Sftp!isConnected /\ clients'[client] = clients[client]
      BY <2>3, <1>1, <1>4, <1>t DEF Sftp!isConnected, SftpTypeInv
    <3> QED BY <2>1, <3>1, <1>1, <1>2, <1>3 DEF SftpInv, AloneInv
  <2> QED BY <2>2, <2>3
<1>13. HeldInv'
  <2>1. client \in 0 .. Len(clients) BY <1>t DEF SftpTypeInv
  <2> QED BY <2>1, <1>1, <1>8, <1>9 DEF SftpInv, HeldInv
<1>14. CacheInv'
  <2> SUFFICES ASSUME NEW f \in Calls, AtCache(f)'
               PROVE  /\ Sftp!isConnected' => clients'[client].crossed
                      /\ \A g \in Calls : Holds(g)' /\ handler'[g].on # 0 =>
                           clients'[handler'[g].on].crossed
    BY <1>1 DEF CacheInv
  <2>1. AtCache(f) BY <1>10
  <2>2. ASSUME NEW g \in Calls, Holds(g)', handler'[g].on # 0 PROVE clients'[handler'[g].on].crossed
    BY <2>1, <2>2, <1>8, <1>9 DEF SftpInv, CacheInv
  <2>3. ASSUME Sftp!isConnected' PROVE clients'[client].crossed
    <3>1. CASE client = o BY <3>1, <2>1, <1>k, <1>1, <1>5 DEF SftpInv, CacheInv
    <3>2. CASE client # o
      <4>1. Sftp!isConnected /\ client \in 1 .. Len(clients)
        BY <3>2, <2>3, <1>1, <1>4, <1>t DEF Sftp!isConnected, SftpTypeInv
      <4> QED BY <4>1, <2>1, <1>8 DEF SftpInv, CacheInv
    <3> QED BY <3>1, <3>2
  <2> QED BY <2>2, <2>3
<1>15. Sftp!NoneLost'
  <2> SUFFICES ASSUME NEW c \in 1 .. Len(clients), clients'[c].up, c # client
               PROVE  clients'[c].crossed
    BY <1>1, <1>6 DEF Sftp!NoneLost
  <2>1. CASE c = o BY <2>1, <1>k, <1>1, <1>5 DEF SftpInv, HeldInv
  <2>2. CASE c # o BY <2>2, <1>4, <1>t DEF SftpInv, Sftp!NoneLost, SftpTypeInv
  <2> QED BY <2>1, <2>2
<1>16. Sftp!OwnHost' BY <1>1 DEF SftpInv, Sftp!OwnHost
<1> QED BY <1>7, <1>11, <1>12, <1>13, <1>14, <1>15, <1>16 DEF SftpInv

\* A second attempt is made on the client the service holds by then.
LEMMA RetryStep == ASSUME SftpInv, NEW h \in Calls, Sftp!Retry(h) PROVE SftpInv'
<1>t. SftpTypeInv BY DEF SftpInv
<1>1. /\ Holds(h) /\ handler[h] # Sftp!Idle /\ handler[h] \in HandlerType
      /\ UNCHANGED <<config, client, clients, forgetting, stray>>
  BY <1>t DEF Sftp!Retry, SftpTypeInv, Holds, Sftp!Idle
<1>2. /\ handler'[h] = [handler[h] EXCEPT !.pc = "asking", !.on = client,
                                          !.attempts = handler[h].attempts + 1]
      /\ \A g \in Calls \ {h} : handler'[g] = handler[g]
      /\ handler' = [handler EXCEPT ![h] = handler'[h]]
  BY <1>t DEF Sftp!Retry, SftpTypeInv
<1>3. /\ handler'[h] \in HandlerType /\ handler'[h].pc = "asking" /\ handler'[h].on = client
      /\ handler'[h].host = handler[h].host /\ handler'[h].alone = handler[h].alone
      /\ handler'[h].path = handler[h].path /\ handler'[h] # Sftp!Idle
  <2>1. client \in Nat BY <1>t DEF SftpTypeInv
  <2>2. handler'[h] = [pc |-> "asking", host |-> handler[h].host, on |-> client,
                       attempts |-> handler[h].attempts + 1,
                       path |-> handler[h].path, alone |-> handler[h].alone]
    BY <1>1, <1>2 DEF HandlerType
  <2> QED BY <1>1, <2>1, <2>2 DEF HandlerType, Sftp!Idle
<1>4. SftpTypeInv'
  <2>1. handler' \in [Calls -> HandlerType \cup {Sftp!Idle}] BY <1>2, <1>3, <1>t DEF SftpTypeInv
  <2>2. \A g \in Calls : handler'[g] # Sftp!Idle => handler'[g].on \in 0 .. Len(clients)
    BY <1>2, <1>3, <1>t DEF SftpTypeInv
  <2> QED BY <2>1, <2>2, <1>1, <1>t DEF SftpTypeInv
<1>5. Sftp!isConnected' <=> Sftp!isConnected BY <1>1 DEF Sftp!isConnected
<1>6. \A g \in Calls \ {h} : Holds(g)' <=> Holds(g) BY <1>2 DEF Holds
<1>7. \A g \in Calls : AtCache(g)' => AtCache(g) BY <1>2, <1>3 DEF AtCache
<1>8. AloneInv'
  <2> SUFFICES ASSUME NEW f \in Calls, handler'[f] # Sftp!Idle, handler'[f].alone
               PROVE  /\ \A g \in Calls \ {f} : handler'[g] = Sftp!Idle
                      /\ config = handler'[f].host
                      /\ handler'[f].path \in {handler'[f].host, Nobody}
                      /\ Sftp!isConnected => clients[client].host = handler'[f].host
    BY <1>1, <1>5 DEF AloneInv
  <2>1. f = h BY <1>1, <1>2 DEF SftpInv, AloneInv
  <2> QED BY <2>1, <1>1, <1>2, <1>3 DEF SftpInv, AloneInv
<1>9. HeldInv'
  <2> SUFFICES ASSUME NEW g \in Calls, Holds(g)'
               PROVE  /\ handler'[g].on # 0 /\ handler'[g].on # client => clients[handler'[g].on].crossed
                      /\ client # 0 /\ client # handler'[g].on => clients[client].crossed
    BY <1>1 DEF HeldInv
  <2> QED BY <1>2, <1>3, <1>6 DEF SftpInv, HeldInv
<1>10. CacheInv'
  <2> SUFFICES ASSUME NEW f \in Calls, AtCache(f)'
               PROVE  /\ Sftp!isConnected => clients[client].crossed
                      /\ \A g \in Calls : Holds(g)' /\ handler'[g].on # 0 =>
                           clients[handler'[g].on].crossed
    BY <1>1, <1>5 DEF CacheInv
  <2>1. AtCache(f) BY <1>7
  <2>2. client # 0 => clients[client].crossed
    BY <2>1, <1>1 DEF SftpInv, CacheInv, HeldInv
  <2> QED BY <2>1, <2>2, <1>2, <1>3, <1>6 DEF SftpInv, CacheInv
<1>11. LeftBehind' BY <1>3 DEF LeftBehind
<1>12. Sftp!OwnHost' /\ Sftp!NoneLost' BY <1>1 DEF SftpInv, Sftp!OwnHost, Sftp!NoneLost
<1> QED BY <1>4, <1>8, <1>9, <1>10, <1>11, <1>12 DEF SftpInv

\* A handler ends: it takes the connection with it, or leaves one that is noted as left.
LEMMA EndStep ==
  ASSUME SftpInv, NEW h \in Calls, handler[h] # Sftp!Idle,
         handler' = [handler EXCEPT ![h] = Sftp!Idle],
         clients' \in Seq(ClientType), Len(clients') = Len(clients),
         \A c \in DOMAIN clients : /\ clients'[c].host = clients[c].host
                                   /\ clients'[c].crossed = clients[c].crossed
                                   /\ clients'[c].up => clients[c].up,
         Sftp!isConnected' => clients'[client].left,
         UNCHANGED <<config, client, forgetting, stray>>
  PROVE  SftpInv'
<1>t. SftpTypeInv BY DEF SftpInv
<1>1. /\ handler'[h] = Sftp!Idle
      /\ \A g \in Calls \ {h} : handler'[g] = handler[g]
  BY <1>t DEF SftpTypeInv
<1>2. SftpTypeInv' BY <1>t, <1>1 DEF SftpTypeInv
<1>3. Sftp!isConnected' => /\ Sftp!isConnected /\ clients'[client].host = clients[client].host
                           /\ clients'[client].crossed = clients[client].crossed
  BY <1>t DEF Sftp!isConnected, SftpTypeInv
<1>4. AloneInv' BY <1>1, <1>3 DEF SftpInv, AloneInv
<1>5. \A g \in Calls : Holds(g)' => /\ Holds(g) /\ handler'[g].on = handler[g].on
                                    /\ handler[g].on \in 0 .. Len(clients)
  <2>1. \A g \in Calls : Holds(g) => handler[g] # Sftp!Idle BY DEF Holds, Sftp!Idle
  <2>2. \A g \in Calls : Holds(g) => handler[g].on \in 0 .. Len(clients) BY <2>1, <1>t DEF SftpTypeInv
  <2>3. ~Holds(h)' BY <1>1 DEF Holds, Sftp!Idle
  <2>4. \A g \in Calls \ {h} : Holds(g)' => Holds(g) BY <1>1 DEF Holds
  <2> QED BY <1>1, <2>2, <2>3, <2>4
<1>6. \A c \in 1 .. Len(clients) : clients'[c].crossed = clients[c].crossed
  BY <1>t DEF SftpTypeInv
<1>7. HeldInv'
  <2>1. client \in 0 .. Len(clients) BY <1>t DEF SftpTypeInv
  <2> QED BY <2>1, <1>5, <1>6 DEF SftpInv, HeldInv
<1>8. \A g \in Calls : AtCache(g)' => AtCache(g) BY <1>1 DEF AtCache, Sftp!Idle
<1>9. CacheInv' BY <1>3, <1>5, <1>6, <1>8 DEF SftpInv, CacheInv
<1>10. Sftp!OwnHost' /\ Sftp!NoneLost'
  <2>1. Sftp!OwnHost' BY DEF SftpInv, Sftp!OwnHost
  <2>2. clients \in Seq(ClientType) BY <1>t DEF SftpTypeInv
  <2>3. DOMAIN clients' = DOMAIN clients BY <2>2
  <2>4. ASSUME NEW c \in DOMAIN clients, clients'[c].up, c # client PROVE clients'[c].crossed
    <3>1. clients[c].up BY <2>4
    <3>2. clients[c].crossed BY <3>1, <2>4 DEF SftpInv, Sftp!NoneLost
    <3> QED BY <3>2
  <2>5. Sftp!NoneLost' BY <2>3, <2>4 DEF Sftp!NoneLost
  <2> QED BY <2>1, <2>5
<1>11. LeftBehind' BY DEF LeftBehind
<1> QED BY <1>2, <1>4, <1>7, <1>9, <1>10, <1>11 DEF SftpInv

\* What disconnect and Leave make of the client the service holds, and Break of any.
LEMMA OneChanged ==
  ASSUME SftpInv, NEW c \in DOMAIN clients, NEW d \in ClientType,
         clients' = [clients EXCEPT ![c] = d],
         d.host = clients[c].host, d.crossed = clients[c].crossed, d.up => clients[c].up
  PROVE  /\ clients' \in Seq(ClientType) /\ Len(clients') = Len(clients)
         /\ clients'[c] = d
         /\ \A b \in DOMAIN clients : /\ clients'[b].host = clients[b].host
                                      /\ clients'[b].crossed = clients[b].crossed
                                      /\ clients'[b].up => clients[b].up
                                      /\ b # c => clients'[b] = clients[b]
  BY DEF SftpInv, SftpTypeInv

LEMMA DisconnectStep == ASSUME SftpInv, NEW h \in Calls, Sftp!disconnect(h) PROVE SftpInv'
<1>t. SftpTypeInv BY DEF SftpInv
<1>1. /\ handler[h] # Sftp!Idle /\ handler' = [handler EXCEPT ![h] = Sftp!Idle]
      /\ UNCHANGED <<config, client, forgetting, stray>>
  BY DEF Sftp!disconnect, Sftp!Idle
<1>2. CASE Sftp!isConnected
  <2> DEFINE d == [clients[client] EXCEPT !.up = FALSE]
  <2>1. clients' = [clients EXCEPT ![client] = d]
    BY <1>2 DEF Sftp!disconnect, Sftp!End
  <2>2. client \in DOMAIN clients /\ clients[client] \in ClientType
    BY <1>2, <1>t DEF Sftp!isConnected, SftpTypeInv
  <2>3. d \in ClientType /\ d.host = clients[client].host /\ d.crossed = clients[client].crossed /\ ~d.up
    BY <2>2 DEF ClientType
  <2> HIDE DEF d
  <2>4. ~Sftp!isConnected' BY <1>1, <2>1, <2>2, <2>3, OneChanged DEF Sftp!isConnected
  <2> QED BY <1>1, <2>1, <2>2, <2>3, <2>4, OneChanged, EndStep
<1>3. CASE ~Sftp!isConnected
  <2>1. clients' = clients BY <1>3 DEF Sftp!disconnect, Sftp!End
  <2>2. ~Sftp!isConnected' BY <1>1, <1>3, <2>1 DEF Sftp!isConnected
  <2>3. clients' \in Seq(ClientType) /\ Len(clients') = Len(clients) BY <2>1, <1>t DEF SftpTypeInv
  <2> QED BY <1>1, <2>1, <2>2, <2>3, EndStep
<1> QED BY <1>2, <1>3

LEMMA LeaveStep == ASSUME SftpInv, NEW h \in Calls, Sftp!Leave(h) PROVE SftpInv'
<1>t. SftpTypeInv BY DEF SftpInv
<1>1. /\ handler[h] # Sftp!Idle /\ handler' = [handler EXCEPT ![h] = Sftp!Idle]
      /\ UNCHANGED <<config, client, forgetting, stray>>
  BY DEF Sftp!Leave, Sftp!Idle
<1>2. CASE Sftp!isConnected
  <2> DEFINE d == [clients[client] EXCEPT !.left = TRUE]
  <2>1. clients' = [clients EXCEPT ![client] = d]
    BY <1>2 DEF Sftp!Leave
  <2>2. client \in DOMAIN clients /\ clients[client] \in ClientType
    BY <1>2, <1>t DEF Sftp!isConnected, SftpTypeInv
  <2>3. /\ d \in ClientType /\ d.host = clients[client].host /\ d.crossed = clients[client].crossed
        /\ d.up = clients[client].up /\ d.left
    BY <2>2 DEF ClientType
  <2> HIDE DEF d
  <2>4. clients'[client].left BY <2>1, <2>2, <2>3, OneChanged
  <2> QED BY <1>1, <2>1, <2>2, <2>3, <2>4, OneChanged, EndStep
<1>3. CASE ~Sftp!isConnected
  <2>1. clients' = clients BY <1>3 DEF Sftp!Leave
  <2>2. ~Sftp!isConnected' BY <1>1, <1>3, <2>1 DEF Sftp!isConnected
  <2>3. clients' \in Seq(ClientType) /\ Len(clients') = Len(clients) BY <2>1, <1>t DEF SftpTypeInv
  <2> QED BY <1>1, <2>1, <2>2, <2>3, EndStep
<1> QED BY <1>2, <1>3

\* The handlers stay where they are, the clients serve whom they served, and those whose
\* client is given up are crossed.
LEMMA AroundStep ==
  ASSUME SftpInv, UNCHANGED <<config, handler, stray>>, forgetting' \in Nat,
         clients' \in Seq(ClientType), Len(clients') = Len(clients),
         \A c \in DOMAIN clients : /\ clients'[c].host = clients[c].host
                                   /\ clients[c].crossed => clients'[c].crossed
                                   /\ clients'[c].left = clients[c].left
                                   /\ clients'[c].up => clients[c].up,
         \/ client' = client
         \/ client' = 0 /\ (client # 0 => clients'[client].crossed)
  PROVE  SftpInv'
<1>t. SftpTypeInv BY DEF SftpInv
<1>1. SftpTypeInv' BY <1>t DEF SftpTypeInv
<1>2. Sftp!isConnected' => /\ Sftp!isConnected /\ client' = client
                           /\ clients'[client].host = clients[client].host
                           /\ clients'[client].left = clients[client].left
                           /\ clients[client].crossed => clients'[client].crossed
  BY <1>t DEF Sftp!isConnected, SftpTypeInv
<1>3. LeftBehind' BY <1>2 DEF SftpInv, LeftBehind
<1>4. AloneInv' BY <1>2 DEF SftpInv, AloneInv
<1>5. \A g \in Calls : Holds(g) => handler[g].on \in 0 .. Len(clients)
  <2>1. \A g \in Calls : Holds(g) => handler[g] # Sftp!Idle BY DEF Holds, Sftp!Idle
  <2> QED BY <2>1, <1>t DEF SftpTypeInv
<1>6. \A c \in 1 .. Len(clients) : clients[c].crossed => clients'[c].crossed
  BY <1>t DEF SftpTypeInv
<1>7. client \in 0 .. Len(clients) BY <1>t DEF SftpTypeInv
<1>8. HeldInv'
  <2> SUFFICES ASSUME NEW g \in Calls, Holds(g)
               PROVE  /\ handler[g].on # 0 /\ handler[g].on # client' => clients'[handler[g].on].crossed
                      /\ client' # 0 /\ client' # handler[g].on => clients'[client'].crossed
    BY DEF HeldInv, Holds
  <2>1. CASE client' = client BY <2>1, <1>5, <1>6, <1>7 DEF SftpInv, HeldInv
  <2>2. CASE client' = 0 /\ (client # 0 => clients'[client].crossed)
    BY <2>2, <1>5, <1>6, <1>7 DEF SftpInv, HeldInv
  <2> QED BY <2>1, <2>2
<1>9. CacheInv' BY <1>2, <1>5, <1>6 DEF SftpInv, CacheInv, AtCache, Holds
<1>10. Sftp!OwnHost' /\ Sftp!NoneLost'
  BY <1>t DEF SftpInv, Sftp!OwnHost, Sftp!NoneLost, SftpTypeInv
<1> QED BY <1>1, <1>3, <1>4, <1>8, <1>9, <1>10 DEF SftpInv

\* A connection breaks; a listener forgets the client.
LEMMA WorldStep ==
  ASSUME SftpInv, (\E c \in DOMAIN clients : Sftp!Break(c)) \/ Sftp!Forget
  PROVE  SftpInv'
<1>t. SftpTypeInv BY DEF SftpInv
<1>1. ASSUME NEW c \in DOMAIN clients, Sftp!Break(c) PROVE SftpInv'
  <2> DEFINE d == [clients[c] EXCEPT !.up = FALSE]
  <2>1. clients' = [clients EXCEPT ![c] = d] /\ UNCHANGED <<config, handler, stray, client>>
    BY <1>1 DEF Sftp!Break
  <2>2. clients[c] \in ClientType BY <1>t DEF SftpTypeInv
  <2>3. /\ d \in ClientType /\ d.host = clients[c].host /\ d.crossed = clients[c].crossed
        /\ ~d.up /\ d.left = clients[c].left
    BY <2>2 DEF ClientType
  <2>4. forgetting' \in Nat BY <1>1, <1>t DEF Sftp!Break, SftpTypeInv
  <2> HIDE DEF d
  <2>5. \A b \in DOMAIN clients : clients'[b].left = clients[b].left
    BY <2>1, <2>3, OneChanged
  <2> QED BY <2>1, <2>3, <2>4, <2>5, OneChanged, AroundStep
<1>2. ASSUME Sftp!Forget PROVE SftpInv'
  <2>1. /\ UNCHANGED <<config, handler, stray>> /\ client' = 0 /\ forgetting' \in Nat
        /\ clients' = Sftp!CrossedAt(client)
    BY <1>2, <1>t DEF Sftp!Forget, SftpTypeInv
  <2>2. CASE client \in DOMAIN clients
    <3>1. clients' = [clients EXCEPT ![client].crossed = TRUE] BY <2>1, <2>2 DEF Sftp!CrossedAt
    <3>2. clients[client] \in ClientType BY <2>2, <1>t DEF SftpTypeInv
    <3>3. /\ clients'[client] = [clients[client] EXCEPT !.crossed = TRUE]
          /\ \A c \in DOMAIN clients : c # client => clients'[c] = clients[c]
      BY <2>2, <3>1, <1>t DEF SftpTypeInv
    <3>4. /\ clients'[client] \in ClientType /\ clients'[client].crossed
          /\ clients'[client].host = clients[client].host /\ clients'[client].up = clients[client].up
          /\ clients'[client].left = clients[client].left
      BY <3>2, <3>3 DEF ClientType
    <3>5. clients' \in Seq(ClientType) /\ Len(clients') = Len(clients)
      <4>1. clients' = [clients EXCEPT ![client] = clients'[client]] BY <3>1, <3>3
      <4> QED BY <4>1, <2>2, <3>4, <1>t DEF SftpTypeInv
    <3> QED BY <2>1, <3>3, <3>4, <3>5, AroundStep
  <2>3. CASE client \notin DOMAIN clients
    <3>1. clients' = clients /\ client = 0
      BY <2>1, <2>3, <1>t DEF Sftp!CrossedAt, SftpTypeInv
    <3>2. clients' \in Seq(ClientType) BY <3>1, <1>t DEF SftpTypeInv
    <3> QED BY <2>1, <3>1, <3>2, AroundStep
  <2> QED BY <2>2, <2>3
<1> QED BY <1>1, <1>2

\* Every step of a session keeps the invariant.
LEMMA SftpStep == ASSUME SftpInv, Sftp!Next PROVE SftpInv'
  BY ConnectStep, NewClientStep, AnsweredStep, RefusedStep, RetryStep, ListenStep, PathStep,
     WriteFileStep, DisconnectStep, LeaveStep, WorldStep DEF Sftp!Next

\* SftpSession: a handler that meets no other writes to its own server and folder, and
\* no connection is lost that was not crossed, for any number of handlers and clients
\* (sftp-middleware.service.ts:83, :97, :123).
THEOREM SessionsKept == ServicesSpec => []SessionsHold
<1> DEFINE Inv == part = "sftp" => SftpInv
<1>1. ServicesInit => Inv
  BY SftpBegins DEF ServicesInit
<1>2. Inv /\ [ServicesNext]_servicesVars => Inv'
  <2>1. ASSUME Inv, ServicesNext PROVE Inv'
    BY <2>1, SftpStep DEF ServicesNext
  <2>2. ASSUME Inv, UNCHANGED part, UNCHANGED sftpPart PROVE Inv'
    BY <2>2 DEF sftpPart, SftpInv, SftpTypeInv, LeftBehind, AloneInv, HeldInv, CacheInv,
                AtCache, Holds, Sftp!isConnected, Sftp!OwnHost, Sftp!NoneLost
  <2> QED BY <2>1, <2>2 DEF servicesVars
<1>3. Inv => SessionsHold
  BY DEF SessionsHold, SftpInv, Sftp!SessionsHold
<1> QED BY <1>1, <1>2, <1>3, PTL DEF ServicesSpec

----------------------------------------------------------------------------
(* ShopIntegration.                                                        *)

RowOf == [imp : Imps, system : Systems, shop : Shops, shared : SUBSET Imps, active : BOOLEAN,
          settings : Nat, by : Calls, unseenBy : SUBSET Calls, missedBy : SUBSET Calls,
          edits : Nat, overtaken : BOOLEAN, moved : BOOLEAN]
CallPcs == {"idle", "implementation", "shop", "exchange", "check", "save", "list", "add",
            "locate", "ended", "broken"}
CallType == [pc : CallPcs, kind : {"none", "integration", "direct"}, imp : Imps \cup {Nobody},
             shop : Shops \cup {Nobody}, system : Systems, shared : SUBSET Imps,
             code : Calls \cup {Nobody}, found : Nat]
Names == {TenantName, OtherName}

\* A request that has arrived names an implementation and a shop.
Arrived(r) == r.imp \in Imps /\ r.shop \in Shops /\ r.kind \in {"integration", "direct"}

ShopTypeInv ==
  /\ connections \in Seq(RowOf)
  /\ implementation \in [Imps -> [shop : Shops \cup {Nobody}, at : Nat]]
  /\ services \in [Shops -> Seq(Names)]
  /\ call \in [Calls -> CallType]
  /\ \A c \in Calls : IF call[c].pc = "idle" THEN call[c].kind = "none" ELSE Arrived(call[c])
  /\ job \in [Jobs -> [pc : {"idle", "ask", "write"}, id : Nat, settings : Nat]]

\* The pcs of a call that has saved its connection
HasSaved == {"list", "add", "locate", "ended", "broken"}
\* ... and goes on to the location
OnToLocation == {"list", "add", "locate"}

\* A connection was made by a call that has gone on since.
Attributed == \A i \in Ids : call[connections[i].by].pc \in HasSaved

\* What makes NoDuplicates inductive: what a call did not find when it looked, it is
\* noted to have missed, from the check until its save.
Missed(c, i, imp) ==
  connections[i].imp = imp => c \in connections[i].missedBy \/ connections[i].moved
Unseen(c, i, shop) ==
  connections[i].shop = shop /\ connections[i].system = "shopify" => c \in connections[i].unseenBy

PastCreateCheck ==
  \A c \in Calls : call[c].pc = "save" => \A i \in Ids : Missed(c, i, call[c].imp)
PastUrlCheck ==
  \A c \in Calls : call[c].kind = "integration" /\ call[c].pc \in {"exchange", "check", "save"} =>
    \A i \in Ids : Unseen(c, i, call[c].shop)

\* What makes LocationOfTheShop inductive: a call that goes on to the location has its
\* connection, and the service it found is ours.
FoundOurs(shop, k) == k \in DOMAIN services[shop] /\ services[shop][k] = TenantName

ConnectedInv ==
  \A c \in Calls : call[c].pc \in OnToLocation =>
    call[c].kind = "integration" /\ \E i \in Ids : connections[i].by = c
FoundInv ==
  /\ \A c \in Calls : call[c].pc = "locate" => FoundOurs(call[c].shop, call[c].found)
  /\ \A imp \in Imps : implementation[imp] # NoLocation =>
       /\ implementation[imp].shop \in Shops
       /\ FoundOurs(implementation[imp].shop, implementation[imp].at)

\* What makes SettingsKept inductive: a job carries the settings of its connection.
JobInv ==
  \A j \in Jobs : job[j].pc \in {"ask", "write"} =>
    /\ job[j].id \in Ids
    /\ ~connections[job[j].id].overtaken => job[j].settings = connections[job[j].id].edits

ShopInv == /\ ShopTypeInv /\ Attributed /\ PastCreateCheck /\ PastUrlCheck
           /\ ConnectedInv /\ FoundInv /\ JobInv
           /\ NoDuplicates /\ LocationOfTheShop /\ SettingsKept

\* There is no connection at the start.
LEMMA ShopBegins == ASSUME Init PROVE ShopInv
<1>1. connections = <<>> /\ Ids = {} BY DEF Init, Ids
<1>2. ShopTypeInv
  <2>1. connections \in Seq(RowOf) BY <1>1
  <2>2. services \in [Shops -> Seq(Names)] BY DEF Init, Names
  <2> QED BY <2>1, <2>2 DEF Init, ShopTypeInv, NoLocation, NoCall, NoJob, CallType, CallPcs, Systems
<1>3. Attributed /\ PastCreateCheck /\ PastUrlCheck /\ SettingsKept /\ NoDuplicates
  BY <1>1 DEF Attributed, PastCreateCheck, PastUrlCheck, SettingsKept, NoDuplicates
<1>4. ConnectedInv /\ FoundInv /\ JobInv
  BY DEF Init, ConnectedInv, FoundInv, JobInv, NoCall, NoJob, OnToLocation
<1>5. LocationOfTheShop BY <1>1 DEF Init, LocationOfTheShop
<1> QED BY <1>2, <1>3, <1>4, <1>5 DEF ShopInv

\* A call moves, and nothing else.  What it has to show at its new place is what it
\* found or was found of it.
LEMMA CallMoves ==
  ASSUME ShopInv, NEW c \in Calls, NEW n \in CallType, n.pc # "idle", Arrived(n),
         call' = [call EXCEPT ![c] = n],
         UNCHANGED <<connections, implementation, services, job>>,
         call[c].pc # "idle" => /\ n.kind = call[c].kind /\ n.imp = call[c].imp
                                /\ n.shop = call[c].shop,
         n.pc \in OnToLocation => call[c].pc \in OnToLocation,
         n.pc = "ended" => call[c].pc \notin HasSaved,
         call[c].pc \in HasSaved => n.pc \in HasSaved,
         n.pc = "save" => \A i \in Ids : Missed(c, i, n.imp),
         n.kind = "integration" /\ n.pc \in {"exchange", "check", "save"} =>
           \A i \in Ids : Unseen(c, i, n.shop),
         n.pc = "locate" => FoundOurs(n.shop, n.found)
  PROVE  ShopInv'
<1>t. ShopTypeInv BY DEF ShopInv
<1>1. call'[c] = n /\ \A d \in Calls \ {c} : call'[d] = call[d]
  BY <1>t DEF ShopTypeInv
<1>2. Ids' = Ids BY DEF Ids
<1>3. ShopTypeInv' BY <1>t, <1>1 DEF ShopTypeInv, Arrived
<1>4. \A i \in Ids : connections[i].by \in Calls /\ connections[i] \in RowOf
  <2>1. \A i \in Ids : connections[i] \in RowOf BY <1>t DEF ShopTypeInv, Ids
  <2> QED BY <2>1 DEF RowOf
<1>5. Attributed' BY <1>1, <1>2, <1>4 DEF ShopInv, Attributed
<1>6. PastCreateCheck' BY <1>1, <1>2 DEF ShopInv, PastCreateCheck, Missed
<1>7. PastUrlCheck' BY <1>1, <1>2 DEF ShopInv, PastUrlCheck, Unseen
<1>8. ConnectedInv'
  <2> SUFFICES ASSUME NEW d \in Calls, call'[d].pc \in OnToLocation
               PROVE  call'[d].kind = "integration" /\ \E i \in Ids : connections[i].by = d
    BY <1>2 DEF ConnectedInv
  <2>1. call[d].pc \in OnToLocation /\ call'[d].kind = call[d].kind
    BY <1>1 DEF OnToLocation
  <2> QED BY <2>1 DEF ShopInv, ConnectedInv
<1>9. FoundInv'
  <2>1. \A shop, k : FoundOurs(shop, k)' <=> FoundOurs(shop, k) BY DEF FoundOurs
  <2>2. \A d \in Calls : call'[d].pc = "locate" => FoundOurs(call'[d].shop, call'[d].found)
    BY <1>1 DEF ShopInv, FoundInv
  <2>3. \A imp \in Imps : implementation[imp] # NoLocation =>
          /\ implementation[imp].shop \in Shops
          /\ FoundOurs(implementation[imp].shop, implementation[imp].at)
    BY DEF ShopInv, FoundInv
  <2> QED BY <2>2, <2>3 DEF FoundInv, FoundOurs
<1>10. JobInv' BY <1>2 DEF ShopInv, JobInv
<1>11. SettingsKept' BY <1>2 DEF ShopInv, SettingsKept
\* The calls that made the connections ask for what they asked for.
<1>12. \A i \in Ids : LET b == connections[i].by
                      IN call'[b].kind = call[b].kind /\ call'[b].imp = call[b].imp
                         /\ call'[b].shop = call[b].shop
                         /\ (call'[b].pc = "ended" => call[b].pc = "ended")
  BY <1>1, <1>4 DEF ShopInv, Attributed, HasSaved
<1>13. NoDuplicates'
  <2>1. \A k \in Ids : \A i \in 1 .. (k - 1) : i \in Ids BY <1>t DEF Ids, ShopTypeInv
  <2> QED BY <1>2, <1>12, <2>1 DEF ShopInv, NoDuplicates
<1>14. LocationOfTheShop'
  <2>1. ASSUME NEW imp \in Imps, implementation[imp] # NoLocation
        PROVE  LET l == implementation[imp]
               IN /\ services[l.shop][l.at] = TenantName
                  /\ \E i \in Ids : LET b == call'[connections[i].by]
                                    IN b.kind = "integration" /\ b.imp = imp /\ b.shop = l.shop
    BY <2>1, <1>12 DEF ShopInv, LocationOfTheShop
  <2>2. ASSUME NEW i \in Ids, call'[connections[i].by].kind = "integration",
               call'[connections[i].by].pc = "ended"
        PROVE  implementation[call'[connections[i].by].imp] # NoLocation
    BY <2>2, <1>12 DEF ShopInv, LocationOfTheShop
  <2> QED BY <2>1, <2>2, <1>2 DEF LocationOfTheShop
<1> QED BY <1>3, <1>5, <1>6, <1>7, <1>8, <1>9, <1>10, <1>11, <1>13, <1>14 DEF ShopInv

\* The first of some ids is one of them.
LEMMA FirstId == ASSUME NEW S \in SUBSET Nat, S # {} PROVE First(S) \in S
<1>1. PICK x \in S : \A y \in S : ~(<<y, x>> \in OpToRel(<, Nat))
  BY NatLessThanWellFounded, WFMin
<1>2. \A y \in S : ~(y < x) BY <1>1 DEF OpToRel
<1>3. \A y \in S : x =< y BY <1>2
<1> QED BY <1>3 DEF First

\* What a call may do with the pc alone.
LEMMA GotoMoves ==
  ASSUME ShopInv, NEW c \in Calls, call[c].pc # "idle", NEW pc \in CallPcs \ {"idle"}, Goto(c, pc),
         UNCHANGED <<connections, implementation, services, job>>,
         pc \in OnToLocation => call[c].pc \in OnToLocation,
         pc = "ended" => call[c].pc \notin HasSaved,
         call[c].pc \in HasSaved => pc \in HasSaved,
         pc = "save" => \A i \in Ids : Missed(c, i, call[c].imp),
         call[c].kind = "integration" /\ pc \in {"exchange", "check", "save"} =>
           \A i \in Ids : Unseen(c, i, call[c].shop),
         pc # "locate"
  PROVE  ShopInv'
<1>t. ShopTypeInv BY DEF ShopInv
<1> DEFINE n == [call[c] EXCEPT !.pc = pc]
<1>1. call' = [call EXCEPT ![c] = n] /\ call[c] \in CallType /\ Arrived(call[c])
  BY <1>t DEF Goto, ShopTypeInv
<1>2. /\ n \in CallType /\ n.pc = pc /\ n.kind = call[c].kind /\ n.imp = call[c].imp
      /\ n.shop = call[c].shop /\ n.found = call[c].found
  BY <1>1 DEF CallType
<1>3. Arrived(n) BY <1>1, <1>2 DEF Arrived
<1> HIDE DEF n
<1> QED BY <1>1, <1>2, <1>3, CallMoves

\* A request arrives.
LEMMA ArrivalStep ==
  ASSUME ShopInv, NEW c \in Calls,
         \/ \E imp \in Imps, shop \in Shops : Integrate(c, imp, shop)
         \/ \E d \in Calls : Reload(c, d)
         \/ \E imp \in Imps, shop \in Shops, system \in Systems, shared \in SUBSET Shared :
              PostConnection(c, imp, shop, system, shared)
  PROVE  ShopInv'
<1>t. ShopTypeInv BY DEF ShopInv
<1>0. Shared \subseteq Imps BY ShopIntegrationAssumption
<1>1. NoCall \in CallType BY DEF NoCall, CallType, CallPcs, Systems
<1>2. ASSUME NEW n \in CallType, Arrived(n), n.pc \in {"implementation", "check"},
             n.pc = "check" => n.kind = "direct",
             call[c].pc = "idle", call' = [call EXCEPT ![c] = n],
             UNCHANGED <<connections, implementation, services, job>>
      PROVE  ShopInv'
  BY <1>2, CallMoves DEF OnToLocation, HasSaved
<1>3. ASSUME NEW imp \in Imps, NEW shop \in Shops, NEW code \in Calls \cup {Nobody},
             call[c].pc = "idle", UNCHANGED <<connections, implementation, services, job>>,
             call' = [call EXCEPT ![c] =
               [NoCall EXCEPT !.pc = "implementation", !.kind = "integration", !.imp = imp,
                              !.shop = shop, !.code = code]]
      PROVE  ShopInv'
  <2> DEFINE n == [NoCall EXCEPT !.pc = "implementation", !.kind = "integration", !.imp = imp,
                                 !.shop = shop, !.code = code]
  <2>1. /\ n \in CallType /\ n.pc = "implementation" /\ n.kind = "integration"
        /\ n.imp = imp /\ n.shop = shop
    BY DEF NoCall, CallType, CallPcs, Systems
  <2>2. Arrived(n) BY <2>1 DEF Arrived
  <2> HIDE DEF n
  <2> QED BY <1>3, <2>1, <2>2, <1>2 DEF n
<1>4. ASSUME NEW imp \in Imps, NEW shop \in Shops, Integrate(c, imp, shop) PROVE ShopInv'
  BY <1>4, <1>3 DEF Integrate
<1>5. ASSUME NEW d \in Calls, Reload(c, d) PROVE ShopInv'
  <2>1. Arrived(call[d]) /\ call[d] \in CallType BY <1>5, <1>t DEF Reload, ShopTypeInv
  <2>2. /\ call[d].imp \in Imps /\ call[d].shop \in Shops /\ call[d].code \in Calls \cup {Nobody}
    BY <2>1 DEF Arrived, CallType
  <2> QED BY <1>5, <2>2, <1>3 DEF Reload
<1>6. ASSUME NEW imp \in Imps, NEW shop \in Shops, NEW system \in Systems,
             NEW shared \in SUBSET Shared, PostConnection(c, imp, shop, system, shared)
      PROVE  ShopInv'
  <2> DEFINE n == [NoCall EXCEPT !.pc = "check", !.kind = "direct", !.imp = imp,
                !.shop = shop, !.system = system, !.shared = shared]
  <2>1. /\ n \in CallType /\ n.pc = "check" /\ n.kind = "direct" /\ n.imp = imp /\ n.shop = shop
    BY <1>0 DEF NoCall, CallType, CallPcs
  <2>2. Arrived(n) BY <2>1 DEF Arrived
  <2>3. call[c].pc = "idle" /\ call' = [call EXCEPT ![c] = n]
    BY <1>6 DEF PostConnection
  <2>4. UNCHANGED <<connections, implementation, services, job>> BY <1>6 DEF PostConnection
  <2> HIDE DEF n
  <2> QED BY <2>1, <2>2, <2>3, <2>4, <1>2
<1> QED BY <1>4, <1>5, <1>6

\* The checks: what a call did not find, it has missed or does not see.
LEMMA CheckStep ==
  ASSUME ShopInv, NEW c \in Calls,
         \/ CheckImplementation(c) \/ CheckShop(c)
         \/ exchangeOAuthCodeForToken(c) \/ CheckConnection(c)
  PROVE  ShopInv'
<1> USE DEF CallPcs, OnToLocation, HasSaved
<1>1. CASE CheckImplementation(c)
  <2>1. call[c].pc = "implementation" /\ (Goto(c, "ended") \/ Goto(c, "shop"))
    BY <1>1 DEF CheckImplementation, Ended
  <2> QED BY <1>1, <2>1, GotoMoves DEF CheckImplementation
<1>2. CASE CheckShop(c)
  <2>1. call[c].pc = "shop" BY <1>2 DEF CheckShop
  <2>2. CASE OfShop(call[c].shop, "shopify") # {}
    BY <1>2, <2>1, <2>2, GotoMoves DEF CheckShop, Ended
  <2>3. CASE OfShop(call[c].shop, "shopify") = {}
    <3>1. \A i \in Ids : Unseen(c, i, call[c].shop) BY <2>3 DEF Unseen, OfShop
    <3> QED BY <1>2, <2>1, <2>3, <3>1, GotoMoves DEF CheckShop
  <2> QED BY <2>2, <2>3
<1>3. CASE exchangeOAuthCodeForToken(c)
  <2>1. call[c].pc = "exchange" /\ (Goto(c, "check") \/ Goto(c, "ended"))
    BY <1>3 DEF exchangeOAuthCodeForToken, Ended
  <2>2. call[c].kind = "integration" => \A i \in Ids : Unseen(c, i, call[c].shop)
    BY <2>1 DEF ShopInv, PastUrlCheck
  <2> QED BY <1>3, <2>1, <2>2, GotoMoves DEF exchangeOAuthCodeForToken
<1>4. CASE CheckConnection(c)
  <2>1. call[c].pc = "check" BY <1>4 DEF CheckConnection
  <2>2. call[c].kind = "integration" => \A i \in Ids : Unseen(c, i, call[c].shop)
    BY <2>1 DEF ShopInv, PastUrlCheck
  <2>3. CASE OfTargetType(call[c].imp) # {}
    BY <1>4, <2>1, <2>3, GotoMoves DEF CheckConnection, Ended
  <2>4. CASE OfTargetType(call[c].imp) = {}
    <3>1. \A i \in Ids : Missed(c, i, call[c].imp) BY <2>4 DEF Missed, OfTargetType
    <3> QED BY <1>4, <2>1, <2>2, <2>4, <3>1, GotoMoves DEF CheckConnection
  <2> QED BY <2>3, <2>4
<1> QED BY <1>1, <1>2, <1>3, <1>4

\* The services of the shop are listed; one of them is ours, or is to be added.
LEMMA ListStep == ASSUME ShopInv, NEW c \in Calls, ReusesService(c) PROVE ShopInv'
<1>t. ShopTypeInv BY DEF ShopInv
<1> DEFINE ours == Named(call[c].shop)
           found == IF ours = {} THEN 0 ELSE First(ours)
           pc == IF ours = {} THEN "add" ELSE "locate"
           n == [call[c] EXCEPT !.pc = pc, !.found = found]
<1>1. /\ call[c].pc = "list" /\ call[c] \in CallType /\ Arrived(call[c])
      /\ call' = [call EXCEPT ![c] = n]
      /\ UNCHANGED <<connections, implementation, services, job>>
  BY <1>t DEF ReusesService, ShopTypeInv
<1>2. services[call[c].shop] \in Seq(Names) BY <1>1, <1>t DEF ShopTypeInv, Arrived
<1>3. ours \subseteq DOMAIN services[call[c].shop] /\ ours \subseteq Nat
  BY <1>2 DEF Named, getFulfillmentServices
<1>4. found \in Nat /\ (ours # {} => found \in ours)
  BY <1>3, FirstId
<1>5. /\ n \in CallType /\ n.pc = pc /\ n.found = found /\ n.kind = call[c].kind
      /\ n.imp = call[c].imp /\ n.shop = call[c].shop
  <2> HIDE DEF found
  <2>1. pc \in CallPcs BY DEF CallPcs
  <2> HIDE DEF pc
  <2> QED BY <1>1, <1>4, <2>1 DEF CallType
<1>6. n.pc = "locate" => FoundOurs(n.shop, n.found)
  BY <1>3, <1>4, <1>5 DEF FoundOurs, Named, getFulfillmentServices
<1>7. Arrived(n) BY <1>1, <1>5 DEF Arrived
<1>8. n.pc \in {"add", "locate"} BY <1>5
<1> HIDE DEF n
<1> QED BY <1>1, <1>5, <1>6, <1>7, <1>8, CallMoves DEF OnToLocation, HasSaved

\* A call that is under way breaks off.
LEMMA CallBreaksOff == ASSUME ShopInv, NEW c \in Calls, BreakOff(c) PROVE ShopInv'
<1>1. /\ call[c].pc # "idle" /\ Goto(c, "broken")
      /\ UNCHANGED <<connections, implementation, services, job>>
  BY DEF BreakOff
<1>2. "broken" \in CallPcs \ {"idle"} /\ "broken" \in HasSaved /\ "broken" \notin OnToLocation
  BY DEF CallPcs, HasSaved, OnToLocation
<1> QED BY <1>1, <1>2, GotoMoves

\* A row is written: who made it, for which shop, and what was noted stay, and one that
\* goes to another implementation is noted as moved.
LEMMA RowStep ==
  ASSUME ShopInv, NEW i \in Ids, NEW n \in RowOf, connections' = [connections EXCEPT ![i] = n],
         UNCHANGED <<call, implementation, services>>,
         job' \in [Jobs -> [pc : {"idle", "ask", "write"}, id : Nat, settings : Nat]],
         n.by = connections[i].by, n.system = connections[i].system, n.shop = connections[i].shop,
         n.unseenBy = connections[i].unseenBy, n.missedBy = connections[i].missedBy,
         connections[i].moved => n.moved, n.imp # connections[i].imp => n.moved,
         ~n.overtaken => n.settings = n.edits,
         JobInv'
  PROVE  ShopInv'
<1>t. ShopTypeInv BY DEF ShopInv
<1>1. /\ connections' \in Seq(RowOf) /\ Ids' = Ids /\ connections'[i] = n
      /\ \A k \in Ids \ {i} : connections'[k] = connections[k]
  BY <1>t DEF ShopTypeInv, Ids
<1>2. \A k \in Ids : /\ connections'[k].by = connections[k].by
                     /\ connections'[k].system = connections[k].system
                     /\ connections'[k].shop = connections[k].shop
                     /\ connections'[k].unseenBy = connections[k].unseenBy
                     /\ connections'[k].missedBy = connections[k].missedBy
                     /\ connections[k].moved => connections'[k].moved
                     /\ connections'[k].imp # connections[k].imp => connections'[k].moved
  BY <1>1
<1>3. ShopTypeInv' BY <1>t, <1>1 DEF ShopTypeInv
<1>4. Attributed' BY <1>1, <1>2 DEF ShopInv, Attributed
<1>5. PastCreateCheck'
  BY <1>1, <1>2 DEF ShopInv, PastCreateCheck, Missed
<1>6. PastUrlCheck' BY <1>1, <1>2 DEF ShopInv, PastUrlCheck, Unseen
<1>7. ConnectedInv' BY <1>1, <1>2 DEF ShopInv, ConnectedInv
<1>8. FoundInv' BY DEF ShopInv, FoundInv, FoundOurs
<1>9. SettingsKept' BY <1>1 DEF ShopInv, SettingsKept
<1>10. NoDuplicates'
  <2>1. \A k \in Ids : \A h \in 1 .. (k - 1) : h \in Ids BY <1>t DEF Ids, ShopTypeInv
  <2> QED BY <1>1, <1>2, <2>1 DEF ShopInv, NoDuplicates
<1>11. LocationOfTheShop' BY <1>1, <1>2 DEF ShopInv, LocationOfTheShop
<1> QED BY <1>3, <1>4, <1>5, <1>6, <1>7, <1>8, <1>9, <1>10, <1>11 DEF ShopInv

\* An administrator saves a setting, switches a connection on or off, or moves it.
LEMMA PatchStep ==
  ASSUME ShopInv, NEW i \in Ids,
         SaveSettings(i) \/ SetActive(i) \/ \E imp \in Imps : MoveTo(i, imp)
  PROVE  ShopInv'
<1>t. ShopTypeInv BY DEF ShopInv
<1>r. connections[i] \in RowOf BY <1>t DEF ShopTypeInv, Ids
<1>i. Ids = DOMAIN connections BY DEF Ids
<1>s. ~connections[i].overtaken => connections[i].settings = connections[i].edits
  BY DEF ShopInv, SettingsKept
<1>j. job \in [Jobs -> [pc : {"idle", "ask", "write"}, id : Nat, settings : Nat]]
  BY <1>t DEF ShopTypeInv
<1>1. CASE SaveSettings(i)
  <2>0. PICK o \in BOOLEAN : o = (connections[i].overtaken \/ Reading(i))
    BY <1>r DEF RowOf, Reading
  <2> DEFINE n == [connections[i] EXCEPT !.settings = connections[i].edits + 1,
                     !.edits = connections[i].edits + 1, !.overtaken = o]
  <2>1. connections' = [connections EXCEPT ![i] = n] /\ UNCHANGED <<call, implementation, services, job>>
    <3>1. /\ connections' = [connections EXCEPT ![i].settings = connections[i].edits + 1, ![i].edits = @ + 1,
                                                ![i].overtaken = @ \/ Reading(i)]
          /\ UNCHANGED <<call, implementation, services, job>>
      BY <1>1 DEF SaveSettings
    <3>2. i \in DOMAIN connections BY <1>i
    <3> QED BY <1>r, <2>0, <3>1, <3>2 DEF RowOf
  <2>3. /\ n \in RowOf /\ n.by = connections[i].by /\ n.system = connections[i].system
        /\ n.shop = connections[i].shop /\ n.unseenBy = connections[i].unseenBy
        /\ n.missedBy = connections[i].missedBy /\ n.moved = connections[i].moved
        /\ n.imp = connections[i].imp /\ n.settings = n.edits
        /\ n.overtaken = o
    <3>1. PICK e \in Nat : e = connections[i].edits + 1 BY <1>r DEF RowOf
    <3>2. n = [connections[i] EXCEPT !.settings = e, !.edits = e, !.overtaken = o] BY <3>1
    <3>3. n \in RowOf
      <4> HIDE DEF n
      <4> QED BY <1>r, <3>1, <3>2 DEF RowOf
    <3>4. n.settings = n.edits /\ n.overtaken = o
      <4> HIDE DEF n
      <4> QED BY <1>r, <3>2 DEF RowOf
    <3>5. /\ n.by = connections[i].by /\ n.system = connections[i].system
          /\ n.shop = connections[i].shop /\ n.unseenBy = connections[i].unseenBy
          /\ n.missedBy = connections[i].missedBy /\ n.moved = connections[i].moved
          /\ n.imp = connections[i].imp
      OBVIOUS
    <3> HIDE DEF n
    <3> QED BY <3>3, <3>4, <3>5
  <2> HIDE DEF n
  <2>4. JobInv'
    <3> SUFFICES ASSUME NEW j \in Jobs, job[j].pc \in {"ask", "write"}
                 PROVE  /\ job[j].id \in Ids'
                        /\ ~connections'[job[j].id].overtaken =>
                             job[j].settings = connections'[job[j].id].edits
      BY <2>1 DEF JobInv
    <3>1. job[j].id = i => Reading(i) BY DEF Reading
    <3>2. /\ Ids' = Ids /\ connections'[i] = n
          /\ \A k \in Ids \ {i} : connections'[k] = connections[k]
      BY <2>1, <1>t DEF Ids, ShopTypeInv
    <3>3. Reading(i) => n.overtaken BY <2>0, <2>3
    <3> QED BY <3>1, <3>2, <3>3 DEF ShopInv, JobInv
  <2> QED BY <2>1, <2>3, <2>4, <1>j, RowStep
<1>2. ASSUME NEW n \in RowOf, connections' = [connections EXCEPT ![i] = n],
             UNCHANGED <<call, implementation, services, job>>,
             n.by = connections[i].by, n.system = connections[i].system,
             n.shop = connections[i].shop, n.unseenBy = connections[i].unseenBy,
             n.missedBy = connections[i].missedBy, n.settings = connections[i].settings,
             n.edits = connections[i].edits, n.overtaken = connections[i].overtaken,
             connections[i].moved => n.moved, n.imp # connections[i].imp => n.moved
      PROVE  ShopInv'
  <2>1. /\ Ids' = Ids /\ connections'[i] = n
        /\ \A k \in Ids \ {i} : connections'[k] = connections[k]
    BY <1>2, <1>t DEF Ids, ShopTypeInv
  <2>2. JobInv' BY <1>2, <2>1 DEF ShopInv, JobInv
  <2> QED BY <1>2, <1>j, <1>s, <2>2, RowStep
<1>3. CASE SetActive(i)
  <2> DEFINE n == [connections[i] EXCEPT !.active = ~connections[i].active]
  <2>1. connections' = [connections EXCEPT ![i] = n] /\ UNCHANGED <<call, implementation, services, job>>
    BY <1>3, <1>i DEF SetActive
  <2>2. /\ n \in RowOf /\ n.by = connections[i].by /\ n.system = connections[i].system
        /\ n.shop = connections[i].shop /\ n.unseenBy = connections[i].unseenBy
        /\ n.missedBy = connections[i].missedBy /\ n.moved = connections[i].moved
        /\ n.imp = connections[i].imp /\ n.settings = connections[i].settings
        /\ n.edits = connections[i].edits /\ n.overtaken = connections[i].overtaken
    BY <1>r DEF RowOf
  <2> HIDE DEF n
  <2> QED BY <2>1, <2>2, <1>2
<1>4. ASSUME NEW imp \in Imps, MoveTo(i, imp) PROVE ShopInv'
  <2> DEFINE n == [connections[i] EXCEPT !.imp = imp, !.moved = TRUE]
  <2>1. connections' = [connections EXCEPT ![i] = n] /\ UNCHANGED <<call, implementation, services, job>>
    BY <1>4, <1>i DEF MoveTo
  <2>2. /\ n \in RowOf /\ n.by = connections[i].by /\ n.system = connections[i].system
        /\ n.shop = connections[i].shop /\ n.unseenBy = connections[i].unseenBy
        /\ n.missedBy = connections[i].missedBy /\ n.moved
        /\ n.settings = connections[i].settings
        /\ n.edits = connections[i].edits /\ n.overtaken = connections[i].overtaken
    BY <1>r DEF RowOf
  <2> HIDE DEF n
  <2> QED BY <2>1, <2>2, <1>2
<1> QED BY <1>1, <1>3, <1>4

\* getShopDetails: a job reads a connection, asks, and writes back what it has read.
LEMMA JobStep ==
  ASSUME ShopInv, NEW j \in Jobs,
         (\E imp \in Imps : ReadConnection(j, imp)) \/ AskShop(j) \/ WritePlan(j)
  PROVE  ShopInv'
<1> DEFINE JobType == [pc : {"idle", "ask", "write"}, id : Nat, settings : Nat]
<1>t. ShopTypeInv BY DEF ShopInv
<1>0. job \in [Jobs -> JobType] /\ Ids \subseteq Nat /\ \A i \in Ids : connections[i] \in RowOf
  BY <1>t DEF ShopTypeInv, Ids
<1>1. ASSUME NEW n \in JobType, job' = [job EXCEPT ![j] = n],
             UNCHANGED <<connections, call, implementation, services>>,
             n.pc \in {"ask", "write"} => /\ n.id \in Ids
                                          /\ ~connections[n.id].overtaken =>
                                               n.settings = connections[n.id].edits
      PROVE  ShopInv'
  <2>1. job' \in [Jobs -> JobType] /\ job'[j] = n /\ \A k \in Jobs \ {j} : job'[k] = job[k]
    BY <1>0, <1>1
  <2>2. ShopTypeInv' BY <1>t, <1>1, <2>1 DEF ShopTypeInv
  <2>3. JobInv' BY <1>1, <2>1 DEF ShopInv, JobInv, Ids
  <2> QED BY <1>1, <2>2, <2>3 DEF ShopInv, Attributed, PastCreateCheck, PastUrlCheck, ConnectedInv,
             FoundInv, FoundOurs, Missed, Unseen, Ids, NoDuplicates, LocationOfTheShop, SettingsKept
<1>2. ASSUME NEW imp \in Imps, ReadConnection(j, imp) PROVE ShopInv'
  <2> DEFINE i == First(getConnectionPool(imp))
             n == [NoJob EXCEPT !.pc = "ask", !.id = i, !.settings = connections[i].settings]
  <2>1. getConnectionPool(imp) # {} /\ getConnectionPool(imp) \subseteq Ids
    BY <1>2 DEF ReadConnection, getConnectionPool
  <2>2. i \in Ids BY <2>1, <1>0, FirstId
  <2>3. job' = [job EXCEPT ![j] = n] /\ UNCHANGED <<connections, call, implementation, services>>
    BY <1>2 DEF ReadConnection
  <2> HIDE DEF i
  <2>4. n \in JobType /\ n.id = i /\ n.settings = connections[i].settings
    BY <1>0, <2>2 DEF NoJob, RowOf
  <2>5. ~connections[i].overtaken => connections[i].settings = connections[i].edits
    BY <2>2 DEF ShopInv, SettingsKept
  <2> HIDE DEF n
  <2> QED BY <1>1, <2>2, <2>3, <2>4, <2>5
<1>3. CASE AskShop(j)
  <2> DEFINE n == [job[j] EXCEPT !.pc = "write"]
  <2>1. job[j].pc = "ask" /\ job' = [job EXCEPT ![j] = n]
        /\ UNCHANGED <<connections, call, implementation, services>>
    BY <1>3, <1>0 DEF AskShop
  <2>2. n \in JobType /\ n.id = job[j].id /\ n.settings = job[j].settings BY <1>0
  <2> HIDE DEF n
  <2> QED BY <1>1, <2>1, <2>2 DEF ShopInv, JobInv
<1>4. CASE WritePlan(j)
  <2>k. PICK i : i = job[j].id OBVIOUS
  <2> DEFINE n == [connections[i] EXCEPT !.settings = job[j].settings]
  <2>1. /\ i \in Ids
        /\ ~connections[i].overtaken => job[j].settings = connections[i].edits
    BY <1>4, <2>k DEF WritePlan, ShopInv, JobInv
  <2>2. /\ connections' = [connections EXCEPT ![i] = n]
        /\ job' = [job EXCEPT ![j] = NoJob] /\ UNCHANGED <<call, implementation, services>>
    <3>1. /\ connections' = [connections EXCEPT ![i] = WithPlan(@, job[j])]
          /\ job' = [job EXCEPT ![j] = NoJob] /\ UNCHANGED <<call, implementation, services>>
      BY <1>4, <2>k DEF WritePlan
    <3>2. WithPlan(connections[i], job[j]) = n BY DEF WithPlan
    <3> HIDE DEF n
    <3> QED BY <3>1, <3>2, <2>1 DEF Ids
  <2>3. /\ n \in RowOf /\ n.by = connections[i].by /\ n.system = connections[i].system
        /\ n.shop = connections[i].shop /\ n.unseenBy = connections[i].unseenBy
        /\ n.missedBy = connections[i].missedBy /\ n.moved = connections[i].moved
        /\ n.imp = connections[i].imp /\ n.settings = job[j].settings
        /\ n.edits = connections[i].edits /\ n.overtaken = connections[i].overtaken
    <3>1. connections[i] \in RowOf /\ job[j].settings \in Nat BY <1>0, <2>1
    <3> QED BY <3>1 DEF RowOf
  <2> HIDE DEF n
  <2>4. /\ Ids' = Ids /\ connections'[i] = n
        /\ \A k \in Ids \ {i} : connections'[k] = connections[k]
    <3>1. connections \in Seq(RowOf) BY <1>t DEF ShopTypeInv
    <3> QED BY <2>1, <2>2, <2>3, <3>1 DEF Ids
  <2>5. job' \in [Jobs -> JobType] BY <1>0, <2>2 DEF NoJob
  <2>6. JobInv'
    <3>1. \A k \in Jobs : job'[k].pc \in {"ask", "write"} => job'[k] = job[k]
      BY <1>0, <2>2 DEF NoJob
    <3>2. \A k \in Ids : /\ connections'[k].overtaken = connections[k].overtaken
                         /\ connections'[k].edits = connections[k].edits
      BY <2>3, <2>4
    <3> QED BY <3>1, <3>2, <2>4 DEF ShopInv, JobInv
  <2> QED BY <2>1, <2>2, <2>3, <2>5, <2>6, RowStep
<1> QED BY <1>2, <1>3, <1>4

\* ConnectionAuthsService.create saves: those that have looked in vain are noted, and
\* the call itself has looked in vain, or is noted with what it did not see.
LEMMA SaveConnectionStep == ASSUME ShopInv, NEW c \in Calls, SaveConnection(c) PROVE ShopInv'
<1>t. ShopTypeInv BY DEF ShopInv
<1> DEFINE m == Len(connections) + 1
           new == Connection(c, call[c], PastShopCheck \ {c}, PastCheck \ {c})
<1>k. PICK pc \in {"list", "ended"} : pc = IF call[c].kind = "integration" THEN "list" ELSE "ended"
  OBVIOUS
<1>1. /\ call[c].pc = "save" /\ call[c] \in CallType /\ Arrived(call[c])
      /\ connections' = Append(connections, new)
      /\ call' = [call EXCEPT ![c].pc = pc]
      /\ UNCHANGED <<implementation, services, job>>
  BY <1>k, <1>t DEF SaveConnection, Goto, ShopTypeInv
<1>2. /\ new \in RowOf /\ new.imp = call[c].imp /\ new.shop = call[c].shop /\ new.by = c
      /\ new.unseenBy = PastShopCheck \ {c} /\ new.missedBy = PastCheck \ {c}
      /\ new.settings = new.edits
  BY <1>1 DEF Connection, RowOf, CallType, Arrived, PastShopCheck, PastCheck
<1> HIDE DEF new
<1>3. /\ connections' \in Seq(RowOf) /\ Len(connections) \in Nat
      /\ Ids = 1 .. Len(connections) /\ Ids' = 1 .. m
      /\ connections'[m] = new /\ \A i \in Ids : connections'[i] = connections[i] /\ i # m
  BY <1>1, <1>2, <1>t DEF ShopTypeInv, Ids
<1>4. /\ \A d \in Calls \ {c} : call'[d] = call[d]
      /\ call'[c] = [call[c] EXCEPT !.pc = pc]
  BY <1>1, <1>t DEF ShopTypeInv
<1>5. /\ call'[c] \in CallType /\ call'[c].pc = pc /\ call'[c].kind = call[c].kind
      /\ call'[c].imp = call[c].imp /\ call'[c].shop = call[c].shop
  BY <1>1, <1>4 DEF CallType, CallPcs
<1>6. \A i \in Ids : connections[i].by # c /\ connections[i].by \in Calls
  <2>1. \A i \in Ids : connections[i] \in RowOf BY <1>t DEF ShopTypeInv, Ids
  <2> QED BY <2>1, <1>1 DEF ShopInv, Attributed, HasSaved, RowOf
<1>7. ShopTypeInv'
  <2>1. call' = [call EXCEPT ![c] = call'[c]] BY <1>1, <1>4
  <2>2. call' \in [Calls -> CallType] BY <2>1, <1>5, <1>t DEF ShopTypeInv
  <2>3. \A d \in Calls : IF call'[d].pc = "idle" THEN call'[d].kind = "none" ELSE Arrived(call'[d])
    BY <1>1, <1>4, <1>5, <1>t DEF ShopTypeInv, Arrived
  <2>4. \A d \in Calls : (IF call[d].pc = "idle" THEN call[d].kind = "none" ELSE Arrived(call[d]))'
    BY <2>3 DEF Arrived
  <2>5. /\ implementation' \in [Imps -> [shop : Shops \cup {Nobody}, at : Nat]]
        /\ services' \in [Shops -> Seq(Names)]
        /\ job' \in [Jobs -> [pc : {"idle", "ask", "write"}, id : Nat, settings : Nat]]
    BY <1>1, <1>t DEF ShopTypeInv
  <2>6. connections' \in Seq(RowOf) BY <1>3
  <2> QED BY <2>2, <2>4, <2>5, <2>6 DEF ShopTypeInv
<1>8. Attributed'
  <2> SUFFICES ASSUME NEW i \in 1 .. m PROVE call'[connections'[i].by].pc \in HasSaved
    BY <1>3 DEF Attributed
  <2>1. CASE i = m BY <2>1, <1>2, <1>3, <1>5 DEF HasSaved
  <2>2. CASE i \in Ids BY <2>2, <1>3, <1>4, <1>6 DEF ShopInv, Attributed
  <2> QED BY <2>1, <2>2, <1>3
<1>9. PastCreateCheck'
  <2> SUFFICES ASSUME NEW d \in Calls, call'[d].pc = "save", NEW i \in 1 .. m,
                      connections'[i].imp = call'[d].imp
               PROVE  d \in connections'[i].missedBy \/ connections'[i].moved
    BY <1>3 DEF PastCreateCheck, Missed
  <2>1. d # c /\ call'[d] = call[d] BY <1>4, <1>5
  <2>2. CASE i \in Ids
    BY <2>1, <2>2, <1>3 DEF ShopInv, PastCreateCheck, Missed
  <2>3. CASE i = m BY <2>1, <2>3, <1>2, <1>3 DEF PastCheck
  <2> QED BY <2>2, <2>3, <1>3
<1>10. PastUrlCheck'
  <2> SUFFICES ASSUME NEW d \in Calls, call'[d].kind = "integration",
                      call'[d].pc \in {"exchange", "check", "save"}, NEW i \in 1 .. m,
                      connections'[i].shop = call'[d].shop, connections'[i].system = "shopify"
               PROVE  d \in connections'[i].unseenBy
    BY <1>3 DEF PastUrlCheck, Unseen
  <2>1. d # c /\ call'[d] = call[d] BY <1>4, <1>5
  <2>2. CASE i \in Ids
    BY <2>1, <2>2, <1>3 DEF ShopInv, PastUrlCheck, Unseen
  <2>3. CASE i = m BY <2>1, <2>3, <1>2, <1>3 DEF PastShopCheck
  <2> QED BY <2>2, <2>3, <1>3
<1>11. ConnectedInv'
  <2> SUFFICES ASSUME NEW d \in Calls, call'[d].pc \in OnToLocation
               PROVE  call'[d].kind = "integration" /\ \E i \in 1 .. m : connections'[i].by = d
    BY <1>3 DEF ConnectedInv
  <2>1. CASE d = c
    <3>1. call[c].kind = "integration" BY <2>1, <1>k, <1>5 DEF OnToLocation
    <3> QED BY <2>1, <3>1, <1>2, <1>3, <1>5
  <2>2. CASE d # c
    <3>1. call[d].kind = "integration" /\ \E i \in Ids : connections[i].by = d
      BY <2>2, <1>4 DEF ShopInv, ConnectedInv
    <3> QED BY <2>2, <3>1, <1>3, <1>4
  <2> QED BY <2>1, <2>2
<1>12. FoundInv'
  <2>1. \A d \in Calls : call'[d].pc = "locate" => d # c BY <1>5
  <2> QED BY <2>1, <1>1, <1>4 DEF ShopInv, FoundInv, FoundOurs
<1>13. JobInv' BY <1>1, <1>3 DEF ShopInv, JobInv
<1>14. SettingsKept'
  <2>1. \A i \in 1 .. m : i \in Ids \/ i = m BY <1>3
  <2> QED BY <2>1, <1>2, <1>3 DEF ShopInv, SettingsKept
<1>15. \A d \in Calls : call[d].pc \in HasSaved => call'[d] = call[d]
  BY <1>1, <1>4 DEF HasSaved
<1>16. NoDuplicates'
  <2> SUFFICES ASSUME NEW k \in 1 .. m, NEW i \in 1 .. (k - 1)
               PROVE  LET a == connections'[i]
                          b == connections'[k]
                      IN /\ a.imp = b.imp => b.by \in a.missedBy \/ a.moved \/ b.moved
                         /\ /\ a.shop = b.shop
                            /\ a.system = "shopify"
                            /\ call'[b.by].kind = "integration"
                            => b.by \in a.unseenBy
    BY <1>3 DEF NoDuplicates
  <2>0. i \in Ids /\ connections'[i] = connections[i] BY <1>3
  <2>1. CASE k \in Ids
    <3>1. connections'[k] = connections[k] /\ call'[connections[k].by] = call[connections[k].by]
      BY <2>1, <1>3, <1>6, <1>4
    <3> QED BY <2>0, <2>1, <3>1 DEF ShopInv, NoDuplicates
  <2>2. CASE k = m
    <3>1. Missed(c, i, call[c].imp) BY <2>0, <1>1 DEF ShopInv, PastCreateCheck
    <3>2. call[c].kind = "integration" => Unseen(c, i, call[c].shop)
      BY <2>0, <1>1 DEF ShopInv, PastUrlCheck
    <3> QED BY <2>0, <2>2, <3>1, <3>2, <1>2, <1>3, <1>5 DEF Missed, Unseen
  <2> QED BY <2>1, <2>2, <1>3
<1>17. LocationOfTheShop'
  <2>1. ASSUME NEW imp \in Imps, implementation[imp] # NoLocation
        PROVE  LET l == implementation[imp]
               IN /\ services[l.shop][l.at] = TenantName
                  /\ \E i \in 1 .. m : LET b == call'[connections'[i].by]
                                    IN b.kind = "integration" /\ b.imp = imp /\ b.shop = l.shop
    <3>1. services[implementation[imp].shop][implementation[imp].at] = TenantName
      BY <2>1 DEF ShopInv, LocationOfTheShop
    <3>2. PICK i \in Ids : LET b == call[connections[i].by]
                           IN b.kind = "integration" /\ b.imp = imp /\ b.shop = implementation[imp].shop
      BY <2>1 DEF ShopInv, LocationOfTheShop
    <3>3. call'[connections[i].by] = call[connections[i].by] /\ connections'[i] = connections[i]
          /\ i \in 1 .. m
      BY <1>3, <1>4, <1>6
    <3> QED BY <3>1, <3>2, <3>3
  <2>2. ASSUME NEW i \in 1 .. m, call'[connections'[i].by].kind = "integration",
               call'[connections'[i].by].pc = "ended"
        PROVE  implementation[call'[connections'[i].by].imp] # NoLocation
    <3>1. CASE i = m BY <3>1, <2>2, <1>2, <1>3, <1>k, <1>5
    <3>2. CASE i \in Ids
      <4>1. call'[connections[i].by] = call[connections[i].by] /\ connections'[i] = connections[i]
        BY <3>2, <1>3, <1>4, <1>6
      <4> QED BY <2>2, <3>2, <4>1 DEF ShopInv, LocationOfTheShop
    <3> QED BY <3>1, <3>2, <1>3
  <2>3. Ids' = 1 .. m /\ implementation' = implementation /\ services' = services
    BY <1>1, <1>3
  <2> QED BY <2>1, <2>2, <2>3 DEF LocationOfTheShop
<1> QED BY <1>7, <1>8, <1>9, <1>10, <1>11, <1>12, <1>13, <1>14, <1>16, <1>17 DEF ShopInv

\* The service is added at the end, and leaves the places of the others as they are.
LEMMA AddStep == ASSUME ShopInv, NEW c \in Calls, AddsService(c) PROVE ShopInv'
<1>t. ShopTypeInv BY DEF ShopInv
<1>k. PICK shop : shop = call[c].shop OBVIOUS
<1>1. /\ call[c].pc = "add" /\ call[c] \in CallType /\ Arrived(call[c]) /\ shop \in Shops
      /\ UNCHANGED <<connections, implementation, job>>
  BY <1>k, <1>t DEF AddsService, ShopTypeInv, Arrived
<1>2. PICK at \in Nat : at = Len(services[shop]) + 1 BY <1>1, <1>t DEF ShopTypeInv
<1>3. services' = [services EXCEPT ![shop] = Append(services[shop], TenantName)]
  BY <1>k DEF AddsService, fulfillmentServiceCreate
<1>4. /\ services' \in [Shops -> Seq(Names)]
      /\ \A s \in Shops : \A k \in DOMAIN services[s] :
           k \in DOMAIN services'[s] /\ services'[s][k] = services[s][k]
      /\ at \in DOMAIN services'[shop] /\ services'[shop][at] = TenantName
  <2>1. services[shop] \in Seq(Names) /\ TenantName \in Names BY <1>1, <1>t DEF ShopTypeInv, Names
  <2>2. /\ Append(services[shop], TenantName) \in Seq(Names)
        /\ \A k \in DOMAIN services[shop] :
             /\ k \in DOMAIN Append(services[shop], TenantName)
             /\ Append(services[shop], TenantName)[k] = services[shop][k]
        /\ at \in DOMAIN Append(services[shop], TenantName)
        /\ Append(services[shop], TenantName)[at] = TenantName
    BY <2>1, <1>2
  <2>3. /\ services'[shop] = Append(services[shop], TenantName)
        /\ \A s \in Shops \ {shop} : services'[s] = services[s]
    BY <1>1, <1>3, <1>t DEF ShopTypeInv
  <2> QED BY <2>2, <2>3, <1>1, <1>3, <1>t DEF ShopTypeInv
<1>5. /\ \A d \in Calls \ {c} : call'[d] = call[d]
      /\ call'[c] = [call[c] EXCEPT !.pc = "locate", !.found = at]
      /\ call' = [call EXCEPT ![c] = call'[c]]
  BY <1>k, <1>2, <1>t DEF AddsService, ShopTypeInv
<1>6. /\ call'[c] \in CallType /\ call'[c].pc = "locate" /\ call'[c].kind = call[c].kind
      /\ call'[c].imp = call[c].imp /\ call'[c].shop = shop /\ call'[c].found = at
  BY <1>k, <1>1, <1>5 DEF CallType, CallPcs
<1>7. ShopTypeInv'
  <2>1. \A d \in Calls : IF call'[d].pc = "idle" THEN call'[d].kind = "none" ELSE Arrived(call'[d])
    BY <1>k, <1>1, <1>5, <1>6, <1>t DEF ShopTypeInv, Arrived
  <2>4. \A d \in Calls : (IF call[d].pc = "idle" THEN call[d].kind = "none" ELSE Arrived(call[d]))'
    BY <2>1 DEF Arrived
  <2>5. call' \in [Calls -> CallType] BY <1>5, <1>6, <1>t DEF ShopTypeInv
  <2> QED BY <2>4, <2>5, <1>1, <1>4, <1>t DEF ShopTypeInv
<1>8. Ids' = Ids /\ \A i \in Ids : connections[i].by \in Calls
  <2>1. \A i \in Ids : connections[i] \in RowOf BY <1>t DEF ShopTypeInv, Ids
  <2> QED BY <2>1, <1>1 DEF Ids, RowOf
<1>9. /\ Attributed' /\ PastCreateCheck' /\ PastUrlCheck' /\ JobInv' /\ SettingsKept'
  <2>0. \A d \in Calls : /\ call'[d].pc \in {"exchange", "check", "save"} => call'[d] = call[d]
                         /\ call[d].pc \in HasSaved => call'[d].pc \in HasSaved
    BY <1>5, <1>6 DEF HasSaved
  <2>1. Attributed' BY <1>1, <1>8, <2>0 DEF ShopInv, Attributed
  <2>2. PastCreateCheck' BY <1>1, <1>8, <2>0 DEF ShopInv, PastCreateCheck, Missed
  <2>3. PastUrlCheck' BY <1>1, <1>8, <2>0 DEF ShopInv, PastUrlCheck, Unseen
  <2>4. JobInv' /\ SettingsKept' BY <1>1, <1>8 DEF ShopInv, JobInv, SettingsKept
  <2> QED BY <2>1, <2>2, <2>3, <2>4
<1>10. ConnectedInv'
  BY <1>1, <1>5, <1>6, <1>8 DEF ShopInv, ConnectedInv, OnToLocation
<1>11. FoundInv'
  <2>0. ASSUME NEW imp \in Imps, implementation[imp] # NoLocation
        PROVE  /\ implementation[imp].shop \in Shops
               /\ FoundOurs(implementation[imp].shop, implementation[imp].at)'
    <3>1. implementation[imp].shop \in Shops
          /\ FoundOurs(implementation[imp].shop, implementation[imp].at)
      BY <2>0 DEF ShopInv, FoundInv
    <3> QED BY <3>1, <1>1, <1>4 DEF FoundOurs
  <2>1. ASSUME NEW d \in Calls, call'[d].pc = "locate"
        PROVE  /\ call'[d].found \in DOMAIN services'[call'[d].shop]
               /\ services'[call'[d].shop][call'[d].found] = TenantName
    <3>1. CASE d = c BY <3>1, <1>4, <1>6
    <3>2. CASE d # c
      <4>1. FoundOurs(call[d].shop, call[d].found) /\ call'[d] = call[d]
        BY <2>1, <3>2, <1>5 DEF ShopInv, FoundInv
      <4>2. call[d].shop \in Shops BY <2>1, <4>1, <1>t DEF ShopTypeInv, Arrived
      <4> QED BY <4>1, <4>2, <1>4 DEF FoundOurs
    <3> QED BY <3>1, <3>2
  <2> QED BY <2>0, <2>1, <1>1 DEF FoundInv, FoundOurs
<1>12. \A d \in Calls : /\ call'[d].kind = call[d].kind /\ call'[d].imp = call[d].imp
                        /\ call'[d].shop = call[d].shop
                        /\ call'[d].pc = "ended" => call[d].pc = "ended"
  BY <1>k, <1>5, <1>6
<1>13. NoDuplicates'
  <2>1. \A k \in Ids : \A i \in 1 .. (k - 1) : i \in Ids BY <1>t DEF Ids, ShopTypeInv
  <2> QED BY <1>1, <1>8, <1>12, <2>1 DEF ShopInv, NoDuplicates
<1>14. LocationOfTheShop'
  <2>1. ASSUME NEW imp \in Imps, implementation[imp] # NoLocation
        PROVE  LET l == implementation[imp]
               IN /\ services'[l.shop][l.at] = TenantName
                  /\ \E i \in Ids : LET b == call'[connections[i].by]
                                    IN b.kind = "integration" /\ b.imp = imp /\ b.shop = l.shop
    <3>1. implementation[imp].shop \in Shops
          /\ FoundOurs(implementation[imp].shop, implementation[imp].at)
      BY <2>1 DEF ShopInv, FoundInv
    <3>2. services'[implementation[imp].shop][implementation[imp].at] = TenantName
      BY <3>1, <1>4 DEF FoundOurs
    <3> QED BY <3>2, <2>1, <1>8, <1>12 DEF ShopInv, LocationOfTheShop
  <2>2. ASSUME NEW i \in Ids, call'[connections[i].by].kind = "integration",
               call'[connections[i].by].pc = "ended"
        PROVE  implementation[call'[connections[i].by].imp] # NoLocation
    BY <2>2, <1>8, <1>12 DEF ShopInv, LocationOfTheShop
  <2> QED BY <2>1, <2>2, <1>1, <1>8 DEF LocationOfTheShop
<1> QED BY <1>7, <1>9, <1>10, <1>11, <1>13, <1>14 DEF ShopInv

\* The implementation is given the location that was found.
LEMMA LocateStep == ASSUME ShopInv, NEW c \in Calls, UpdateImplementation(c) PROVE ShopInv'
<1>t. ShopTypeInv BY DEF ShopInv
<1>k. PICK imp, shop, at : imp = call[c].imp /\ shop = call[c].shop /\ at = call[c].found
  OBVIOUS
<1> DEFINE l == [shop |-> shop, at |-> at]
<1>1. /\ call[c].pc = "locate" /\ call[c] \in CallType /\ Arrived(call[c])
      /\ imp \in Imps /\ shop \in Shops /\ at \in Nat
      /\ implementation' = [implementation EXCEPT ![imp] = l]
      /\ UNCHANGED <<connections, services, job>>
  BY <1>k, <1>t DEF UpdateImplementation, ShopTypeInv, Arrived, CallType
<1>2. /\ l # NoLocation /\ l.shop = shop /\ l.at = at
      /\ l \in [shop : Shops \cup {Nobody}, at : Nat]
  BY <1>1, ShopIntegrationAssumption DEF NoLocation
<1> HIDE DEF l
<1>3. /\ implementation' \in [Imps -> [shop : Shops \cup {Nobody}, at : Nat]]
      /\ implementation'[imp] = l
      /\ \A m \in Imps \ {imp} : implementation'[m] = implementation[m]
  BY <1>1, <1>2, <1>t DEF ShopTypeInv
<1>4. /\ \A d \in Calls \ {c} : call'[d] = call[d]
      /\ call'[c] = [call[c] EXCEPT !.pc = "ended"]
      /\ call' = [call EXCEPT ![c] = call'[c]]
  BY <1>t DEF UpdateImplementation, Ended, Goto, ShopTypeInv
<1>5. /\ call'[c] \in CallType /\ call'[c].pc = "ended" /\ call'[c].kind = call[c].kind
      /\ call'[c].imp = imp /\ call'[c].shop = shop
  BY <1>k, <1>1, <1>4 DEF CallType, CallPcs
<1>6. ShopTypeInv'
  <2>1. \A d \in Calls : IF call'[d].pc = "idle" THEN call'[d].kind = "none" ELSE Arrived(call'[d])
    BY <1>k, <1>1, <1>4, <1>5, <1>t DEF ShopTypeInv, Arrived
  <2>4. \A d \in Calls : (IF call[d].pc = "idle" THEN call[d].kind = "none" ELSE Arrived(call[d]))'
    BY <2>1 DEF Arrived
  <2>5. call' \in [Calls -> CallType] BY <1>4, <1>5, <1>t DEF ShopTypeInv
  <2> QED BY <2>4, <2>5, <1>1, <1>3, <1>t DEF ShopTypeInv
<1>7. Ids' = Ids /\ \A i \in Ids : connections[i].by \in Calls
  <2>1. \A i \in Ids : connections[i] \in RowOf BY <1>t DEF ShopTypeInv, Ids
  <2> QED BY <2>1, <1>1 DEF Ids, RowOf
<1>8. Attributed'
  <2>1. \A d \in Calls : call[d].pc \in HasSaved => call'[d].pc \in HasSaved
    BY <1>4, <1>5 DEF HasSaved
  <2> QED BY <2>1, <1>1, <1>7 DEF ShopInv, Attributed
<1>d. \A d \in Calls : call'[d].pc # "ended" => call'[d] = call[d]
  BY <1>4, <1>5
<1>9. PastCreateCheck' BY <1>1, <1>7, <1>d DEF ShopInv, PastCreateCheck, Missed
<1>10. PastUrlCheck' BY <1>1, <1>7, <1>d DEF ShopInv, PastUrlCheck, Unseen
<1>11. JobInv' /\ SettingsKept' BY <1>1, <1>7 DEF ShopInv, JobInv, SettingsKept
<1>12. ConnectedInv' BY <1>1, <1>7, <1>d DEF ShopInv, ConnectedInv, OnToLocation
<1>13. FoundOurs(shop, at) BY <1>k, <1>1 DEF ShopInv, FoundInv
<1>14. FoundInv'
  <2>1. \A d \in Calls : call'[d].pc = "locate" => d # c BY <1>5
  <2>2. ASSUME NEW m \in Imps, implementation'[m] # NoLocation
        PROVE  /\ implementation'[m].shop \in Shops
               /\ FoundOurs(implementation'[m].shop, implementation'[m].at)
    BY <2>2, <1>1, <1>2, <1>3, <1>13 DEF ShopInv, FoundInv
  <2> QED BY <2>1, <2>2, <1>1, <1>4 DEF ShopInv, FoundInv, FoundOurs
<1>15. \A d \in Calls : /\ call'[d].kind = call[d].kind /\ call'[d].imp = call[d].imp
                        /\ call'[d].shop = call[d].shop
                        /\ call'[d].pc = "ended" => d = c \/ call[d].pc = "ended"
  BY <1>k, <1>4, <1>5
<1>16. NoDuplicates'
  <2>1. \A k \in Ids : \A i \in 1 .. (k - 1) : i \in Ids BY <1>t DEF Ids, ShopTypeInv
  <2> QED BY <1>1, <1>7, <1>15, <2>1 DEF ShopInv, NoDuplicates
<1>17. LocationOfTheShop'
  <2>1. ASSUME NEW m \in Imps, implementation'[m] # NoLocation
        PROVE  LET n == implementation'[m]
               IN /\ services[n.shop][n.at] = TenantName
                  /\ \E i \in Ids : LET b == call'[connections[i].by]
                                    IN b.kind = "integration" /\ b.imp = m /\ b.shop = n.shop
    <3>1. CASE m = imp
      <4>1. PICK i \in Ids : connections[i].by = c
        BY <1>1 DEF ShopInv, ConnectedInv, OnToLocation
      <4>2. call'[c].kind = "integration"
        BY <1>1, <1>5 DEF ShopInv, ConnectedInv, OnToLocation
      <4> QED BY <3>1, <4>1, <4>2, <1>2, <1>3, <1>5, <1>13 DEF FoundOurs
    <3>2. CASE m # imp
      <4>1. implementation'[m] = implementation[m] BY <3>2, <1>3
      <4> QED BY <2>1, <4>1, <1>7, <1>15 DEF ShopInv, LocationOfTheShop
    <3> QED BY <3>1, <3>2
  <2>2. ASSUME NEW i \in Ids, call'[connections[i].by].kind = "integration",
               call'[connections[i].by].pc = "ended"
        PROVE  implementation'[call'[connections[i].by].imp] # NoLocation
    <3>1. CASE connections[i].by = c BY <3>1, <1>2, <1>3, <1>5
    <3>2. CASE connections[i].by # c
      <4>1. implementation[call[connections[i].by].imp] # NoLocation /\ connections[i].by \in Calls
        BY <2>2, <3>2, <1>7, <1>15 DEF ShopInv, LocationOfTheShop
      <4>2. call[connections[i].by].imp \in Imps
        BY <2>2, <4>1, <1>15, <1>t DEF ShopTypeInv, Arrived
      <4> QED BY <4>1, <4>2, <1>2, <1>3, <1>15
    <3> QED BY <3>1, <3>2
  <2> QED BY <2>1, <2>2, <1>1, <1>7 DEF LocationOfTheShop
<1> QED BY <1>6, <1>8, <1>9, <1>10, <1>11, <1>12, <1>14, <1>16, <1>17 DEF ShopInv

\* Every step of the connections of shops keeps the invariant.
LEMMA ShopStep == ASSUME ShopInv, Next PROVE ShopInv'
<1>1. CASE \E c \in Calls :
              \/ \E imp \in Imps, shop \in Shops : Integrate(c, imp, shop)
              \/ \E d \in Calls : Reload(c, d)
              \/ \E imp \in Imps, shop \in Shops, system \in Systems, shared \in SUBSET Shared :
                   PostConnection(c, imp, shop, system, shared)
  BY <1>1, ArrivalStep
<1>2. CASE \E c \in Calls : \/ CheckImplementation(c) \/ CheckShop(c)
                           \/ exchangeOAuthCodeForToken(c) \/ CheckConnection(c)
  BY <1>2, CheckStep
<1>3. CASE \E c \in Calls : \/ SaveConnection(c) \/ ReusesService(c) \/ AddsService(c)
                           \/ UpdateImplementation(c) \/ BreakOff(c)
  BY <1>3, SaveConnectionStep, ListStep, AddStep, LocateStep, CallBreaksOff
<1>4. CASE \E i \in Ids : SaveSettings(i) \/ SetActive(i) \/ \E imp \in Imps : MoveTo(i, imp)
  BY <1>4, PatchStep
<1>5. CASE \E j \in Jobs : (\E imp \in Imps : ReadConnection(j, imp)) \/ AskShop(j) \/ WritePlan(j)
  BY <1>5, JobStep
<1> QED BY <1>1, <1>2, <1>3, <1>4, <1>5 DEF Next

\* The connections of shops keep their invariant where they are the part that runs.
LEMMA ShopInvariant == ServicesSpec => [](part = "shop" => ShopInv)
<1> DEFINE Inv == part = "shop" => ShopInv
<1>1. ServicesInit => Inv
  BY ShopBegins DEF ServicesInit
<1>2. Inv /\ [ServicesNext]_servicesVars => Inv'
  <2>1. ASSUME Inv, ServicesNext PROVE Inv'
    BY <2>1, ShopStep DEF ServicesNext
  <2>2. ASSUME Inv, UNCHANGED part, UNCHANGED shopPart PROVE Inv'
    <3>1. UNCHANGED <<connections, implementation, services, call, job>>
      BY <2>2 DEF shopPart, vars
    <3>2. ASSUME ShopInv PROVE ShopInv'
      <4>1. /\ ShopTypeInv' /\ Attributed' /\ PastCreateCheck' /\ PastUrlCheck'
            /\ ConnectedInv' /\ FoundInv' /\ JobInv'
        BY <3>1, <3>2 DEF ShopInv, ShopTypeInv, Attributed, PastCreateCheck, PastUrlCheck,
           ConnectedInv, FoundInv, FoundOurs, Missed, Unseen, JobInv, Ids
      <4>2. NoDuplicates' /\ LocationOfTheShop' /\ SettingsKept'
        BY <3>1, <3>2 DEF ShopInv, NoDuplicates, LocationOfTheShop, SettingsKept, Ids
      <4> QED BY <4>1, <4>2 DEF ShopInv
    <3> QED BY <2>2, <3>2
  <2> QED BY <2>1, <2>2 DEF servicesVars
<1> QED BY <1>1, <1>2, PTL DEF ServicesSpec

\* ShopIntegration: however many requests overlap and break off, of two connections of
\* one implementation or one shop the later one had made its check before the earlier
\* was saved, or an administrator moved one (connection-auths.service.ts:301).
THEOREM DuplicatesExplained == ServicesSpec => []NoDuplicateConnections
<1>1. (part = "shop" => ShopInv) => NoDuplicateConnections
  BY DEF ShopInv, NoDuplicateConnections
<1> QED BY <1>1, ShopInvariant, PTL

\* ShopIntegration: the location of an implementation is one of ours in a shop that was
\* connected to it, and a saved setting is lost only to a job that had read the row
\* before (shopify.service.ts:3013, :2097).
THEOREM IntegrationsKept == ServicesSpec => []IntegrationsHold
<1>1. (part = "shop" => ShopInv) => IntegrationsHold
  BY DEF ShopInv, IntegrationsHold
<1> QED BY <1>1, ShopInvariant, PTL

----------------------------------------------------------------------------
(* ConnectionRecords.                                                      *)

StoredType == [text : Texts \cup {Record!Garbage}, cipher : BOOLEAN]
ConnectionType ==
  [owner : Shops, system : {"shopify", "sigloch"}, shared : SUBSET Shops, sftp : BOOLEAN,
   login : Jobs, stored : StoredType, meant : Texts, openly : BOOLEAN,
   left : SUBSET Shops, unseen : BOOLEAN, late : BOOLEAN]
OpenType == [pc : {"open"}, id : Nat \ {0}, shown : Texts \cup {Record!Garbage}, meant : Texts]
NewDto == [system : {"shopify", "sigloch"}, owner : Shops, shared : SUBSET Shops,
           sftp : BOOLEAN, login : Jobs, secret : Texts]
NewType == [pc : {"login", "save"}, id : {0}, login : Jobs, dto : NewDto, meant : Texts,
            given : SUBSET Shops, stale : BOOLEAN]
ChangeDto == [owner : Shops \cup {Keep}, shared : (SUBSET Shops) \cup {Keep},
              sftp : BOOLEAN \cup {Keep}, login : Jobs \cup {Keep},
              secret : Texts \cup {Record!Garbage, Keep}]
ChangeType == [pc : {"login", "save"}, id : Nat \ {0}, login : Jobs, dto : ChangeDto,
               meant : Texts, given : SUBSET Shops, stale : BOOLEAN]
FormType == {Record!NoForm} \cup OpenType \cup NewType \cup ChangeType

RecordTypeInv ==
  /\ table \in Seq(ConnectionType)
  /\ keyed \in BOOLEAN
  /\ form \in [Calls -> FormType]

\* The stored secret is the one entered, up to a colon in one stored without a key.
Readable(conn) ==
  /\ conn.stored.text = conn.meant \/ (conn.openly /\ conn.meant \in Colon)
  /\ ~conn.stored.cipher => conn.openly

\* A connection is not shared with those it was moved away from.
Apart(conn) ==
  conn.system = "sigloch" /\ ~conn.late =>
    conn.left \cap conn.shared = {} /\ conn.owner \notin conn.left

Opened(f) ==
  f.pc = "open" =>
    /\ f.id \in DOMAIN table
    /\ f.shown = f.meant \/ (table[f.id].openly /\ f.meant \in Colon)

\* A request to create a connection: its secret is the one entered, and the login it
\* has looked for is free but for those written meanwhile, which know of it.
Free(f, login) ==
  \A k \in DOMAIN table \ {f.id} :
    table[k].sftp /\ table[k].login = login => table[k].late \/ table[k].unseen
New(f) ==
  f.pc \in {"login", "save"} /\ f.id = 0 =>
    /\ f.dto.secret = f.meant /\ f.login = f.dto.login
    /\ f.pc = "save" /\ f.dto.sftp => Free(f, f.dto.login)

\* A request to update one: nobody else has written it since its reading, or it is
\* stale.
SharedThen(f) == Record!Given(f.dto.shared, table[f.id].shared)
OwnerThen(f) == Record!Given(f.dto.owner, table[f.id].owner)
LoginThen(f) == Record!Given(f.dto.login, table[f.id].login)
SftpThen(f) == Record!Given(f.dto.sftp, table[f.id].sftp)
LeftThen(f) == ((table[f.id].left \ f.given) \cup {table[f.id].owner}) \ {OwnerThen(f)}
Changes(f) ==
  f.pc \in {"login", "save"} /\ f.id # 0 =>
    /\ f.id \in DOMAIN table
    /\ f.dto.secret # Keep =>
         f.dto.secret = f.meant \/ (table[f.id].openly /\ f.meant \in Colon)
    /\ ~f.stale /\ table[f.id].system = "sigloch" /\ ~table[f.id].late =>
         LeftThen(f) \cap SharedThen(f) = {}
    /\ ~f.stale => f.login = LoginThen(f)
    /\ ~f.stale /\ f.pc = "save" /\ SftpThen(f) = TRUE => Free(f, f.login)

FormHolds(f) == Opened(f) /\ New(f) /\ Changes(f)

RecordInv ==
  /\ RecordTypeInv
  /\ \A i \in DOMAIN table : Readable(table[i]) /\ Apart(table[i])
  /\ Record!OneLogin
  /\ \A r \in Calls : FormHolds(form[r])

\* The invariant implies the property: a lookup decrypts what is stored or says that it
\* is a cipher, and finds the owner and those it is shared with.
LEMMA RecordsRead == RecordInv => Record!ConnectionsHold
<1> SUFFICES ASSUME RecordInv PROVE Record!ConnectionsHold
  OBVIOUS
<1>1. Record!LeftBehind
  <2> SUFFICES ASSUME NEW i \in DOMAIN table, table[i].system = "sigloch", ~table[i].late,
                      NEW o \in table[i].left
               PROVE  i \notin Record!FoundFor(o)
    BY DEF Record!LeftBehind
  <2>1. o \notin table[i].shared /\ o # table[i].owner
    BY DEF RecordInv, Apart
  <2>2. i \notin Record!findByImplementationId(o)
        /\ i \notin Record!findForChangeableTimestamp(o)
    BY <2>1 DEF Record!findByImplementationId, Record!findForChangeableTimestamp
  <2>3. \A system : i \notin Record!findByImplementationIdAndTargetType(o, system)
    BY <2>1 DEF Record!findByImplementationIdAndTargetType, Record!SharedWith
  <2>4. \A x \in Record!findByFilter([owner |-> o], {}) : x.id # i
    <3> SUFFICES ASSUME NEW k \in DOMAIN table,
                        \A f \in DOMAIN [owner |-> o] : table[k][f] = [owner |-> o][f]
                 PROVE  Record!Shown(k).id # i
      BY DEF Record!findByFilter
    <3>1. "owner" \in DOMAIN [owner |-> o] /\ [owner |-> o]["owner"] = o
      OBVIOUS
    <3>2. table[k]["owner"] = o
      BY <3>1
    <3> QED BY <3>2, <2>1 DEF Record!Shown
  <2>5. \A x \in Record!findByFilter(<<>>, {o}) : x.id # i
    BY <2>1 DEF Record!findByFilter, Record!Shown
  <2> QED BY <2>2, <2>3, <2>4, <2>5 DEF Record!FoundFor
<1>2. \A i \in DOMAIN table :
        LET shown == Record!decryptConnectionAuth(table[i].stored) IN
          shown = table[i].meant \/ (table[i].openly /\ table[i].meant \in Colon)
  BY DEF RecordInv, Readable, Record!decryptConnectionAuth
<1>3. \A x \in Record!Listed :
        \E i \in DOMAIN table : x.id = i /\ x.secret = Record!decryptConnectionAuth(table[i].stored)
  <2>1. \A i \in DOMAIN table :
          Record!Shown(i).id = i
          /\ Record!Shown(i).secret = Record!decryptConnectionAuth(table[i].stored)
    BY DEF Record!Shown
  <2>2. \A x \in Record!Listed : \E i \in DOMAIN table : x = Record!Shown(i)
    <3>1. \A types : \A x \in Record!findByTargetTypes(types) :
            \E i \in DOMAIN table : x = Record!Shown(i)
      BY DEF Record!findByTargetTypes
    <3>2. \A type : \A x \in Record!findByTargetType(type) :
            \E i \in DOMAIN table : x = Record!Shown(i)
      BY <3>1 DEF Record!findByTargetType
    <3>3. \A type, system : \A x \in Record!findByTargetTypeAndTargetSystem(type, system) :
            \E i \in DOMAIN table : x = Record!Shown(i)
      BY <3>2 DEF Record!findByTargetTypeAndTargetSystem
    <3>4. \A query, shared : \A x \in Record!findByFilter(query, shared) :
            \E i \in DOMAIN table : x = Record!Shown(i)
      BY DEF Record!findByFilter
    <3>5. \A i \in DOMAIN table : \A x \in Record!testConnection(i) : x = Record!Shown(i)
      BY DEF Record!testConnection, Record!connectionTestForTargetSystem
    <3> QED BY <3>1, <3>2, <3>3, <3>4, <3>5 DEF Record!Listed
  <2> QED BY <2>1, <2>2
<1>4. \A i \in DOMAIN table : \E x \in Record!Listed : x.id = i
  <2> SUFFICES ASSUME NEW i \in DOMAIN table PROVE \E x \in Record!Listed : x.id = i
    OBVIOUS
  <2>1. Record!Shown(i) \in Record!findByFilter(<<>>, {})
    BY DEF Record!findByFilter
  <2>2. Record!Shown(i).id = i
    BY DEF Record!Shown
  <2> QED BY <2>1, <2>2 DEF Record!Listed
<1>5. \A x \in Record!findAll \cup UNION {Record!findByFacilityAndCustomerId(o) : o \in Shops} :
        x.secret.cipher \/ table[x.id].openly
  <2>1. \A x \in Record!findAll \cup UNION {Record!findByFacilityAndCustomerId(o) : o \in Shops} :
          \E i \in DOMAIN table : x = Record!Stored(i)
    BY DEF Record!findAll, Record!findByFacilityAndCustomerId, Record!findByImplementationId
  <2>2. \A i \in DOMAIN table :
          Record!Stored(i).id = i /\ Record!Stored(i).secret = table[i].stored
    BY DEF Record!Stored
  <2>3. \A i \in DOMAIN table : table[i].stored.cipher \/ table[i].openly
    BY DEF RecordInv, Readable
  <2> QED BY <2>1, <2>2, <2>3
<1>6. Record!SecretsReadable
  <2>1. {x.id : x \in Record!Listed} = DOMAIN table
    BY <1>3, <1>4
  <2>2. \A x \in Record!Listed :
          x.secret = table[x.id].meant \/ (table[x.id].openly /\ table[x.id].meant \in Colon)
    BY <1>2, <1>3
  <2> QED BY <2>1, <2>2, <1>5 DEF Record!SecretsReadable
<1> QED BY <1>1, <1>6 DEF RecordInv, Record!ConnectionsHold

LEMMA Keeps ==
  /\ Keep \notin Shops /\ Keep \notin Jobs /\ Keep \notin Texts /\ Keep \notin BOOLEAN
  /\ \A S \in SUBSET Shops : S # Keep
  /\ Colon \subseteq Texts
BY RecordAssumption DEF Record!ConstantsFit

LEMMA RecordBegins == ASSUME Record!Init PROVE RecordInv
<1>1. /\ table = <<>> /\ DOMAIN table = {} /\ keyed \in BOOLEAN
      /\ form = [r \in Calls |-> Record!NoForm]
  BY DEF Record!Init
<1>2. RecordTypeInv
  BY <1>1 DEF RecordTypeInv, FormType
<1>3. \A r \in Calls : form[r] = Record!NoForm
  BY <1>1
<1>4. FormHolds(Record!NoForm)
  BY DEF FormHolds, Opened, New, Changes, Record!NoForm
<1> QED BY <1>1, <1>2, <1>3, <1>4 DEF RecordInv, Record!OneLogin

\* A step of one request that writes nothing.
LEMMA FormStep ==
  ASSUME RecordInv, NEW r \in Calls, NEW f \in FormType, FormHolds(f),
         form' = [form EXCEPT ![r] = f], table' = table, keyed' = keyed
  PROVE  RecordInv'
<1>1. form' \in [Calls -> FormType] /\ \A q \in Calls : form'[q] = form[q] \/ form'[q] = f
  BY DEF RecordInv, RecordTypeInv
<1>2. RecordTypeInv'
  BY <1>1 DEF RecordInv, RecordTypeInv
<1>3. \A q \in Calls : FormHolds(form[q])
  BY DEF RecordInv
<1>4. \A q \in Calls : FormHolds(form[q])'
  BY <1>1, <1>3 DEF FormHolds, Opened, New, Changes, Free, SharedThen, OwnerThen, LoginThen,
     SftpThen, LeftThen
<1>5. \A i \in DOMAIN table' : Readable(table[i])' /\ Apart(table[i])'
  BY DEF RecordInv, Readable, Apart
<1>6. Record!OneLogin'
  BY DEF RecordInv, Record!OneLogin
<1> QED BY <1>2, <1>4, <1>5, <1>6 DEF RecordInv

\* A field of a connection.
LEMMA Stored ==
  ASSUME RecordTypeInv, NEW i \in DOMAIN table
  PROVE  /\ table[i] \in ConnectionType /\ i \in Nat \ {0}
         /\ table[i].owner \in Shops /\ table[i].shared \in SUBSET Shops
         /\ table[i].system \in {"shopify", "sigloch"} /\ table[i].sftp \in BOOLEAN
         /\ table[i].login \in Jobs /\ table[i].meant \in Texts
         /\ table[i].stored \in StoredType /\ table[i].left \in SUBSET Shops
         /\ table[i].openly \in BOOLEAN
<1>1. table[i] \in ConnectionType /\ i \in Nat \ {0}
  BY DEF RecordTypeInv
<1> QED BY <1>1 DEF ConnectionType

LEMMA CreateRecordStep == ASSUME RecordInv, NEW r \in Calls, Record!Create(r) PROVE RecordInv'
<1>1. PICK dto \in Record!NewRecord :
        LET shared == Record!SharedImplementations(dto.system, dto.owner, dto.shared, {})
        IN form' = [form EXCEPT ![r] =
               [pc |-> Record!After(dto.sftp), id |-> 0, login |-> dto.login,
                dto |-> [system |-> dto.system, owner |-> dto.owner, shared |-> shared,
                         sftp |-> dto.sftp, login |-> dto.login, secret |-> dto.secret],
                meant |-> dto.secret, given |-> {}, stale |-> FALSE]]
  BY DEF Record!Create
<1>2. /\ dto.system \in {"shopify", "sigloch"} /\ dto.owner \in Shops /\ dto.shared \in SUBSET Shops
      /\ dto.sftp \in BOOLEAN /\ dto.login \in Jobs /\ dto.secret \in Texts
  BY DEF Record!NewRecord
<1> DEFINE shared == Record!SharedImplementations(dto.system, dto.owner, dto.shared, {})
           new == [system |-> dto.system, owner |-> dto.owner, shared |-> shared,
                   sftp |-> dto.sftp, login |-> dto.login, secret |-> dto.secret]
           f == [pc |-> Record!After(dto.sftp), id |-> 0, login |-> dto.login, dto |-> new,
                 meant |-> dto.secret, given |-> {}, stale |-> FALSE]
<1>3. shared \in SUBSET Shops
  BY <1>2 DEF Record!SharedImplementations
<1>4. new \in NewDto
  BY <1>2, <1>3 DEF NewDto
<1>5. f \in NewType
  BY <1>2, <1>4 DEF NewType, Record!After
<1>6. FormHolds(f)
  <2>1. f.pc = "save" => ~f.dto.sftp
    BY <1>2 DEF Record!After
  <2> QED BY <1>2, <2>1 DEF FormHolds, Opened, New, Changes, Record!After
<1>7. form' = [form EXCEPT ![r] = f] /\ table' = table /\ keyed' = keyed
  BY <1>1 DEF Record!Create
<1>8. f \in FormType
  BY <1>5 DEF FormType
<1> HIDE DEF f
<1> QED BY <1>6, <1>7, <1>8, FormStep

LEMMA OpenStep ==
  ASSUME RecordInv, NEW r \in Calls, NEW i \in DOMAIN table, Record!OpenForm(r, i)
  PROVE  RecordInv'
<1> DEFINE f == [pc |-> "open", id |-> i, shown |-> Record!decryptConnectionAuth(table[i].stored),
                 meant |-> table[i].meant]
<1>1. form' = [form EXCEPT ![r] = f] /\ table' = table /\ keyed' = keyed
  BY DEF Record!OpenForm
<1>2. /\ i \in Nat \ {0} /\ table[i].meant \in Texts /\ table[i].stored \in StoredType
      /\ table[i].stored.text \in Texts \cup {Record!Garbage}
  BY Stored DEF RecordInv, StoredType
<1>3. f \in OpenType
  BY <1>2 DEF OpenType, Record!decryptConnectionAuth
<1>4. f.shown = f.meant \/ (table[f.id].openly /\ f.meant \in Colon)
  BY DEF RecordInv, Readable, Record!decryptConnectionAuth
<1>5. FormHolds(f) /\ f \in FormType
  BY <1>3, <1>4 DEF FormHolds, Opened, New, Changes, FormType
<1> HIDE DEF f
<1> QED BY <1>1, <1>5, FormStep

LEMMA FormIs ==
  ASSUME RecordTypeInv, NEW r \in Calls
  PROVE  /\ form[r] \in FormType
         /\ form[r].pc = "open" => form[r] \in OpenType
         /\ form[r].pc \in {"login", "save"} /\ form[r].id = 0 => form[r] \in NewType
         /\ form[r].pc \in {"login", "save"} /\ form[r].id # 0 => form[r] \in ChangeType
<1>1. form[r] \in FormType
  BY DEF RecordTypeInv
<1>2. CASE form[r] = Record!NoForm
  BY <1>1, <1>2 DEF Record!NoForm
<1>3. CASE form[r] \in OpenType
  BY <1>1, <1>3 DEF OpenType
<1>4. CASE form[r] \in NewType
  BY <1>1, <1>4 DEF NewType
<1>5. CASE form[r] \in ChangeType
  BY <1>1, <1>5 DEF ChangeType
<1> QED BY <1>1, <1>2, <1>3, <1>4, <1>5 DEF FormType

LEMMA ChangeIs ==
  ASSUME NEW dto \in Record!Change
  PROVE  /\ dto.owner \in Shops \cup {Keep} /\ dto.shared \in (SUBSET Shops) \cup {Keep}
         /\ dto.sftp \in BOOLEAN \cup {Keep} /\ dto.login \in Jobs \cup {Keep}
         /\ dto.secret \in Texts \cup {Keep} /\ (dto.login = Keep => dto.secret = Keep)
BY Keeps DEF Record!Change

LEMMA UpdateRecordStep == ASSUME RecordInv, NEW r \in Calls, Record!Update(r) PROVE RecordInv'
<1> DEFINE i == form[r].id
           was == table[i]
           Secret(dto) == CASE dto.login = Keep -> Keep
                            [] dto.secret = Keep -> form[r].shown
                            [] OTHER -> dto.secret
           Dto(dto) == [owner |-> dto.owner, shared |-> Record!NewShared(dto, was),
                        sftp |-> dto.sftp, login |-> dto.login, secret |-> Secret(dto)]
           F(dto) == [pc |-> Record!After(Record!Given(dto.sftp, was.sftp)), id |-> i,
                      login |-> Record!Given(dto.login, was.login), dto |-> Dto(dto),
                      meant |-> Record!Given(dto.secret, form[r].meant),
                      given |-> IF dto.shared = Keep THEN {} ELSE dto.shared, stale |-> FALSE]
<1>1. PICK dto \in Record!Change : form' = [form EXCEPT ![r] = F(dto)]
  BY DEF Record!Update
<1>2. form[r].pc = "open" /\ table' = table /\ keyed' = keyed
  BY DEF Record!Update
<1>3. form[r] \in OpenType
  BY <1>2, FormIs DEF RecordInv
<1>4. /\ i \in Nat \ {0} /\ form[r].shown \in Texts \cup {Record!Garbage} /\ form[r].meant \in Texts
  BY <1>3 DEF OpenType
<1>5. i \in DOMAIN table
      /\ (form[r].shown = form[r].meant \/ (was.openly /\ form[r].meant \in Colon))
  BY <1>2 DEF RecordInv, FormHolds, Opened
<1>6. /\ was.owner \in Shops /\ was.shared \in SUBSET Shops /\ was.left \in SUBSET Shops
      /\ was.sftp \in BOOLEAN /\ was.login \in Jobs
  BY <1>5, Stored DEF RecordInv
<1>7. /\ dto.owner \in Shops \cup {Keep} /\ dto.shared \in (SUBSET Shops) \cup {Keep}
      /\ dto.sftp \in BOOLEAN \cup {Keep} /\ dto.login \in Jobs \cup {Keep}
      /\ dto.secret \in Texts \cup {Keep} /\ (dto.login = Keep => dto.secret = Keep)
  BY ChangeIs
<1> DEFINE f == F(dto)
<1>8. Record!NewShared(dto, was) \in (SUBSET Shops) \cup {Keep}
  BY <1>6, <1>7 DEF Record!NewShared, Record!SharedImplementations, Record!Given
<1>9. f \in ChangeType
  <2>1. Secret(dto) \in Texts \cup {Record!Garbage, Keep}
    BY <1>4, <1>7
  <2> HIDE DEF Secret
  <2>2. Dto(dto) \in ChangeDto
    BY <1>7, <1>8, <2>1 DEF ChangeDto
  <2> HIDE DEF Dto
  <2>3. Record!After(Record!Given(dto.sftp, was.sftp)) \in {"login", "save"}
    BY DEF Record!After
  <2>4. /\ Record!Given(dto.login, was.login) \in Jobs
        /\ Record!Given(dto.secret, form[r].meant) \in Texts
        /\ (IF dto.shared = Keep THEN {} ELSE dto.shared) \in SUBSET Shops
    BY <1>4, <1>6, <1>7 DEF Record!Given
  <2> QED BY <1>4, <2>2, <2>3, <2>4 DEF ChangeType
<1>10. f.id = i /\ f.stale = FALSE /\ f.dto.shared = Record!NewShared(dto, was)
       /\ f.dto.owner = dto.owner /\ f.dto.sftp = dto.sftp /\ f.dto.login = dto.login
       /\ f.login = Record!Given(dto.login, was.login) /\ f.dto.secret = Secret(dto)
       /\ f.given = (IF dto.shared = Keep THEN {} ELSE dto.shared)
       /\ f.meant = Record!Given(dto.secret, form[r].meant)
       /\ f.pc = Record!After(Record!Given(dto.sftp, was.sftp))
  OBVIOUS
<1>11. f.dto.secret # Keep => f.dto.secret = f.meant \/ (was.openly /\ f.meant \in Colon)
  BY <1>5, <1>7, <1>10 DEF Record!Given
<1> HIDE DEF F
<1>12. was.system = "sigloch" /\ ~was.late => LeftThen(f) \cap SharedThen(f) = {}
  <2> SUFFICES ASSUME was.system = "sigloch", ~was.late PROVE LeftThen(f) \cap SharedThen(f) = {}
    OBVIOUS
  <2>1. was.left \cap was.shared = {} /\ was.owner \notin was.left
    BY <1>5 DEF RecordInv, Apart
  <2>2. LeftThen(f) = ((was.left \ f.given) \cup {was.owner}) \ {Record!Given(dto.owner, was.owner)}
    BY <1>10 DEF LeftThen, OwnerThen
  <2>3. SharedThen(f) = Record!Given(Record!NewShared(dto, was), was.shared)
    BY <1>10 DEF SharedThen
  <2>4. CASE dto.shared = Keep /\ dto.owner = Keep
    <3>1. Record!NewShared(dto, was) = Keep
      BY <2>4 DEF Record!NewShared
    <3> QED BY <2>1, <2>2, <2>3, <2>4, <3>1, <1>10 DEF Record!Given
  <2>5. CASE dto.shared # Keep /\ dto.owner = Keep
    <3>1. Record!NewShared(dto, was) = dto.shared \cup {was.owner}
      BY <2>5 DEF Record!NewShared, Record!SharedImplementations
    <3>2. Record!NewShared(dto, was) # Keep
      BY <3>1, <2>5, <1>6, <1>7, Keeps
    <3>3. SharedThen(f) = dto.shared \cup {was.owner}
      BY <2>3, <3>1, <3>2 DEF Record!Given
    <3> QED BY <2>2, <2>5, <3>3, <1>10 DEF Record!Given
  <2>6. CASE dto.owner # Keep
    <3>1. Record!NewShared(dto, was) =
            (Record!Given(dto.shared, was.shared) \cup {dto.owner}) \ {was.owner}
      BY <2>6 DEF Record!NewShared, Record!SharedImplementations
    <3>2. Record!NewShared(dto, was) # Keep
      BY <3>1, <2>6, <1>6, <1>7, Keeps DEF Record!Given
    <3>3. SharedThen(f) = (Record!Given(dto.shared, was.shared) \cup {dto.owner}) \ {was.owner}
      BY <2>3, <3>1, <3>2 DEF Record!Given
    <3>4. Record!Given(dto.owner, was.owner) = dto.owner
      BY <2>6 DEF Record!Given
    <3>5. (was.left \ f.given) \cap Record!Given(dto.shared, was.shared) = {}
      BY <2>1, <1>10 DEF Record!Given
    <3> QED BY <2>2, <3>3, <3>4, <3>5
  <2> QED BY <2>4, <2>5, <2>6
<1>13. f.login = LoginThen(f)
  BY <1>10 DEF LoginThen
<1>14. f.pc = "save" => SftpThen(f) # TRUE
  BY <1>6, <1>7, <1>10 DEF SftpThen, Record!After
<1>15. Changes(f)
  BY <1>5, <1>10, <1>11, <1>12, <1>13, <1>14 DEF Changes
<1>16. f.pc \in {"login", "save"}
  BY <1>10 DEF Record!After
<1> HIDE DEF f
<1>17. Opened(f) /\ New(f)
  BY <1>16, <1>9 DEF Opened, New, ChangeType
<1>18. FormHolds(f) /\ f \in FormType
  BY <1>9, <1>15, <1>17 DEF FormHolds, FormType
<1>19. form' = [form EXCEPT ![r] = f]
  BY <1>1 DEF f
<1> QED BY <1>2, <1>18, <1>19, FormStep

LEMMA LookStep == ASSUME RecordInv, NEW r \in Calls, Record!checkSftpRecords(r) PROVE RecordInv'
<1>1. form[r].pc = "login" /\ table' = table /\ keyed' = keyed
  BY DEF Record!checkSftpRecords
<1>2. CASE Record!SameLogin(form[r].login, form[r].id) # {}
  <2>1. form' = [form EXCEPT ![r] = Record!NoForm]
    BY <1>2 DEF Record!checkSftpRecords
  <2>2. FormHolds(Record!NoForm) /\ Record!NoForm \in FormType
    BY DEF FormHolds, Opened, New, Changes, Record!NoForm, FormType
  <2> QED BY <1>1, <2>1, <2>2, FormStep
<1>3. CASE Record!SameLogin(form[r].login, form[r].id) = {}
  <2> DEFINE f == [form[r] EXCEPT !.pc = "save"]
  <2>1. form' = [form EXCEPT ![r] = f]
    BY <1>3 DEF Record!checkSftpRecords
  <2>2. \/ form[r] \in NewType /\ form[r].id = 0
        \/ form[r] \in ChangeType /\ form[r].id # 0
    BY <1>1, FormIs DEF RecordInv
  <2>3. f \in FormType
    BY <2>2 DEF FormType, NewType, ChangeType
  <2>4. /\ f.pc = "save" /\ f.id = form[r].id /\ f.login = form[r].login /\ f.dto = form[r].dto
        /\ f.meant = form[r].meant /\ f.given = form[r].given /\ f.stale = form[r].stale
    BY <2>2 DEF NewType, ChangeType
  <2> HIDE DEF f
  <2>5. Free(f, f.login)
    BY <1>3, <2>4 DEF Free, Record!SameLogin
  <2>6. FormHolds(form[r])
    BY DEF RecordInv
  <2>7. New(f)
    BY <1>1, <2>4, <2>5, <2>6 DEF FormHolds, New
  <2>8. Changes(f)
    BY <1>1, <2>4, <2>5, <2>6 DEF FormHolds, Changes, LeftThen, SharedThen, LoginThen,
       SftpThen, OwnerThen
  <2>9. Opened(f)
    BY <2>4 DEF Opened
  <2> QED BY <1>1, <2>1, <2>3, <2>7, <2>8, <2>9, FormStep DEF FormHolds
<1> QED BY <1>2, <1>3

\* What the requests are after r has written connection i.
LEMMA ClosedIs ==
  ASSUME RecordTypeInv, NEW r \in Calls, NEW i \in Nat, form' = Record!Closed(r, i)
  PROVE  /\ form' \in [Calls -> FormType] /\ form'[r] = Record!NoForm
         /\ \A q \in Calls \ {r} :
              /\ form[q].pc \notin {"login", "save"} => form'[q] = form[q]
              /\ form[q].pc \in {"login", "save"} =>
                   /\ form'[q].pc = form[q].pc /\ form'[q].id = form[q].id
                   /\ form'[q].login = form[q].login /\ form'[q].dto = form[q].dto
                   /\ form'[q].meant = form[q].meant /\ form'[q].given = form[q].given
                   /\ form'[q].stale = (form[q].stale \/ form[q].id = i)
<1> DEFINE Marked(q) == [form[q] EXCEPT !.stale = @ \/ form[q].id = i]
<1>1. ASSUME NEW q \in Calls, form[q].pc \in {"login", "save"}
      PROVE  /\ Marked(q) \in FormType
             /\ Marked(q).pc = form[q].pc /\ Marked(q).id = form[q].id
             /\ Marked(q).login = form[q].login /\ Marked(q).dto = form[q].dto
             /\ Marked(q).meant = form[q].meant /\ Marked(q).given = form[q].given
             /\ Marked(q).stale = (form[q].stale \/ form[q].id = i)
  <2>1. CASE form[q] \in NewType
    <3>1. (form[q].stale \/ form[q].id = i) \in BOOLEAN
      OBVIOUS
    <3>2. Marked(q) \in NewType
      BY <2>1, <3>1 DEF NewType
    <3> QED BY <2>1, <3>2 DEF FormType, NewType
  <2>2. CASE form[q] \in ChangeType
    <3>1. (form[q].stale \/ form[q].id = i) \in BOOLEAN
      OBVIOUS
    <3>2. Marked(q) \in ChangeType
      BY <2>2, <3>1 DEF ChangeType
    <3> QED BY <2>2, <3>2 DEF FormType, ChangeType
  <2> QED BY <1>1, <2>1, <2>2, FormIs
<1>2. form' = [q \in Calls |-> IF q = r THEN Record!NoForm
                               ELSE IF form[q].pc \in {"login", "save"} THEN Marked(q) ELSE form[q]]
  BY DEF Record!Closed
<1> HIDE DEF Marked
<1>3. \A q \in Calls : form[q] \in FormType
  BY DEF RecordTypeInv
<1>4. Record!NoForm \in FormType
  BY DEF FormType
<1>5. form' \in [Calls -> FormType]
  BY <1>1, <1>2, <1>3, <1>4
<1> QED BY <1>1, <1>2, <1>5

\* A step that writes connection i.
LEMMA TableStep ==
  ASSUME RecordInv, NEW r \in Calls, NEW i \in Nat, i \in DOMAIN table', form' = Record!Closed(r, i),
         keyed' = keyed, table' \in Seq(ConnectionType),
         DOMAIN table' = DOMAIN table \cup {i},
         \A k \in DOMAIN table \ {i} : table'[k] = table[k],
         Readable(table'[i]), Apart(table'[i]),
         i \in DOMAIN table /\ table[i].openly => table'[i].openly,
         \A k \in DOMAIN table \ {i} :
           table'[i].sftp /\ table[k].sftp /\ table[k].login = table'[i].login =>
             table'[i].late \/ table'[i].unseen \/ table[k].late \/ table[k].unseen,
         \/ Record!Looked(r) => table'[i].unseen
         \/ /\ i \in DOMAIN table
            /\ table'[i].sftp = table[i].sftp /\ table'[i].login = table[i].login
            /\ table'[i].unseen = table[i].unseen
            /\ table[i].late => table'[i].late
  PROVE  RecordInv'
<1>t. RecordTypeInv
  BY DEF RecordInv
<1>1. /\ form' \in [Calls -> FormType] /\ form'[r] = Record!NoForm
      /\ \A q \in Calls \ {r} :
           /\ form[q].pc \notin {"login", "save"} => form'[q] = form[q]
           /\ form[q].pc \in {"login", "save"} =>
                /\ form'[q].pc = form[q].pc /\ form'[q].id = form[q].id
                /\ form'[q].login = form[q].login /\ form'[q].dto = form[q].dto
                /\ form'[q].meant = form[q].meant /\ form'[q].given = form[q].given
                /\ form'[q].stale = (form[q].stale \/ form[q].id = i)
  BY <1>t, ClosedIs
<1>2. RecordTypeInv'
  BY <1>t, <1>1 DEF RecordTypeInv
<1>3. \A k \in DOMAIN table' : Readable(table'[k]) /\ Apart(table'[k])
  <2>1. \A k \in DOMAIN table : Readable(table[k]) /\ Apart(table[k])
    BY DEF RecordInv
  <2> QED BY <2>1
<1>4. Record!OneLogin'
  BY DEF RecordInv, Record!OneLogin
<1>5. \A k \in DOMAIN table : table[k].openly => table'[k].openly
  OBVIOUS
<1>6. ASSUME NEW q \in Calls, q # r, form[q].pc = "save"
      PROVE  \A k \in DOMAIN table' :
               \/ table'[k].unseen
               \/ /\ k \in DOMAIN table
                  /\ table'[k].sftp = table[k].sftp /\ table'[k].login = table[k].login
                  /\ table'[k].unseen = table[k].unseen
                  /\ table[k].late => table'[k].late
  <2>1. Record!Looked(r)
    BY <1>6 DEF Record!Looked
  <2> QED BY <2>1
<1>7. ASSUME NEW q \in Calls PROVE FormHolds(form[q])'
  <2>1. CASE q = r
    BY <2>1, <1>1 DEF FormHolds, Opened, New, Changes, Record!NoForm
  <2>2. CASE q # r /\ form[q].pc \notin {"login", "save"}
    <3>1. form'[q] = form[q]
      BY <2>2, <1>1
    <3>2. Opened(form[q])
      BY DEF RecordInv, FormHolds
    <3>3. Opened(form[q])'
      BY <3>1, <3>2, <1>5 DEF Opened
    <3> QED BY <2>2, <3>1, <3>3 DEF FormHolds, New, Changes
  <2>3. CASE q # r /\ form[q].pc \in {"login", "save"}
    <3>1. /\ form'[q].pc = form[q].pc /\ form'[q].id = form[q].id
          /\ form'[q].login = form[q].login /\ form'[q].dto = form[q].dto
          /\ form'[q].meant = form[q].meant /\ form'[q].given = form[q].given
          /\ form'[q].stale = (form[q].stale \/ form[q].id = i)
      BY <2>3, <1>1
    <3>2. New(form[q]) /\ Changes(form[q])
      BY DEF RecordInv, FormHolds
    <3>3. New(form[q])'
      <4> SUFFICES ASSUME form[q].id = 0
                   PROVE  /\ form[q].dto.secret = form[q].meant /\ form[q].login = form[q].dto.login
                          /\ form[q].pc = "save" /\ form[q].dto.sftp =>
                               Free(form[q], form[q].dto.login)'
        BY <3>1 DEF New, Free
      <4>1. form[q].dto.secret = form[q].meant /\ form[q].login = form[q].dto.login
        BY <2>3, <3>2 DEF New
      <4>2. ASSUME form[q].pc = "save", form[q].dto.sftp
            PROVE  Free(form[q], form[q].dto.login)'
        <5>1. Free(form[q], form[q].dto.login)
          BY <4>2, <3>2 DEF New
        <5>2. \A k \in DOMAIN table \ {form[q].id} :
                table[k].sftp /\ table[k].login = form[q].dto.login =>
                  table[k].late \/ table[k].unseen
          BY <5>1 DEF Free
        <5>3. \A k \in DOMAIN table' \ {form[q].id} :
                table'[k].sftp /\ table'[k].login = form[q].dto.login =>
                  table'[k].late \/ table'[k].unseen
          BY <2>3, <4>2, <5>2, <1>6
        <5> QED BY <5>3, <3>1 DEF Free
      <4> QED BY <4>1, <4>2
    <3>4. Changes(form[q])'
      <4> SUFFICES ASSUME form[q].id # 0 PROVE Changes(form[q])'
        BY <3>1 DEF Changes
      <4>1. /\ form[q].id \in DOMAIN table
            /\ form[q].dto.secret # Keep =>
                 form[q].dto.secret = form[q].meant
                 \/ (table'[form[q].id].openly /\ form[q].meant \in Colon)
        BY <2>3, <3>2, <1>5 DEF Changes
      <4>2. CASE form'[q].stale
        BY <4>1, <4>2, <3>1 DEF Changes
      <4>3. CASE ~form'[q].stale
        <5>1. ~form[q].stale /\ form[q].id # i /\ table'[form[q].id] = table[form[q].id]
          BY <4>1, <4>3, <3>1
        <5>2. /\ LeftThen(form[q])' = LeftThen(form[q]) /\ SharedThen(form[q])' = SharedThen(form[q])
              /\ LoginThen(form[q])' = LoginThen(form[q]) /\ SftpThen(form[q])' = SftpThen(form[q])
          BY <5>1, <3>1 DEF LeftThen, SharedThen, LoginThen, SftpThen, OwnerThen
        <5>3. ASSUME form[q].pc = "save", SftpThen(form[q]) = TRUE
              PROVE  Free(form[q], form[q].login)'
          <6>1. Free(form[q], form[q].login)
            BY <5>1, <5>3, <3>2, <2>3 DEF Changes
          <6>2. \A k \in DOMAIN table \ {form[q].id} :
                  table[k].sftp /\ table[k].login = form[q].login =>
                    table[k].late \/ table[k].unseen
            BY <6>1 DEF Free
          <6>3. \A k \in DOMAIN table' \ {form[q].id} :
                  table'[k].sftp /\ table'[k].login = form[q].login =>
                    table'[k].late \/ table'[k].unseen
            BY <2>3, <5>3, <6>2, <1>6
          <6> QED BY <6>3, <3>1 DEF Free
        <5> QED BY <4>1, <5>1, <5>2, <5>3, <3>1, <3>2, <2>3 DEF Changes
      <4> QED BY <4>2, <4>3
    <3>5. Opened(form[q])'
      BY <2>3, <3>1 DEF Opened
    <3> QED BY <3>3, <3>4, <3>5 DEF FormHolds
  <2> QED BY <2>1, <2>2, <2>3
<1> QED BY <1>2, <1>3, <1>4, <1>7 DEF RecordInv, Readable, Apart

LEMMA InsertStep == ASSUME RecordInv, NEW r \in Calls, Record!Insert(r) PROVE RecordInv'
<1>t. RecordTypeInv
  BY DEF RecordInv
<1> DEFINE dto == form[r].dto
           i == Len(table) + 1
           new == [owner |-> dto.owner, system |-> dto.system, shared |-> dto.shared,
                   sftp |-> dto.sftp, login |-> dto.login,
                   stored |-> Record!encryptConnectionAuth(dto.secret),
                   meant |-> form[r].meant, openly |-> ~keyed, left |-> {},
                   unseen |-> Record!Looked(r), late |-> FALSE]
<1>1. /\ form[r].pc = "save" /\ form[r].id = 0 /\ keyed' = keyed
      /\ table' = Append(table, new) /\ form' = Record!Closed(r, i)
  BY DEF Record!Insert
<1>2. form[r] \in NewType
  BY <1>1, <1>t, FormIs
<1>3. /\ dto \in NewDto /\ form[r].meant \in Texts
  BY <1>2 DEF NewType
<1>4. dto.secret = form[r].meant /\ (dto.sftp => Free(form[r], dto.login))
  BY <1>1 DEF RecordInv, FormHolds, New
<1>5. keyed \in BOOLEAN /\ Record!Looked(r) \in BOOLEAN
  BY <1>t DEF RecordTypeInv, Record!Looked
<1>6. /\ dto.owner \in Shops /\ dto.system \in {"shopify", "sigloch"} /\ dto.shared \in SUBSET Shops
      /\ dto.sftp \in BOOLEAN /\ dto.login \in Jobs /\ dto.secret \in Texts
  BY <1>3 DEF NewDto
<1>7. Record!encryptConnectionAuth(dto.secret) \in StoredType
      /\ Record!encryptConnectionAuth(dto.secret).text = dto.secret
      /\ (~Record!encryptConnectionAuth(dto.secret).cipher => ~keyed)
  BY <1>6 DEF Record!encryptConnectionAuth, Record!Cipher, Record!Plain, StoredType
<1>8. new \in ConnectionType
  BY <1>3, <1>5, <1>6, <1>7 DEF ConnectionType
<1>9. Readable(new) /\ Apart(new) /\ new.unseen = Record!Looked(r) /\ new.login = dto.login
      /\ new.sftp = dto.sftp
  BY <1>4, <1>7 DEF Readable, Apart
<1> HIDE DEF new
<1>10. /\ table' \in Seq(ConnectionType) /\ i \in Nat /\ i \notin DOMAIN table
       /\ DOMAIN table' = DOMAIN table \cup {i} /\ table'[i] = new
       /\ \A k \in DOMAIN table : table'[k] = table[k]
  BY <1>1, <1>8, <1>t DEF RecordTypeInv
<1>11. \A k \in DOMAIN table \ {i} :
         table'[i].sftp /\ table[k].sftp /\ table[k].login = table'[i].login =>
           table'[i].late \/ table'[i].unseen \/ table[k].late \/ table[k].unseen
  <2>1. \A k \in DOMAIN table : k \in DOMAIN table \ {form[r].id}
    BY <1>1, <1>t DEF RecordTypeInv
  <2> QED BY <2>1, <1>4, <1>9, <1>10 DEF Free
<1> HIDE DEF i
<1> QED BY <1>1, <1>9, <1>10, <1>11, TableStep

LEMMA ConnectionIs ==
  ASSUME NEW conn \in ConnectionType, NEW owner \in Shops, NEW shared \in SUBSET Shops,
         NEW sftp \in BOOLEAN, NEW login \in Jobs, NEW stored \in StoredType,
         NEW meant \in Texts, NEW openly \in BOOLEAN, NEW left \in SUBSET Shops,
         NEW unseen \in BOOLEAN, NEW late \in BOOLEAN
  PROVE  [conn EXCEPT !.owner = owner, !.shared = shared, !.sftp = sftp, !.login = login,
                      !.stored = stored, !.meant = meant, !.openly = openly, !.left = left,
                      !.unseen = unseen, !.late = late] \in ConnectionType
BY DEF ConnectionType

LEMMA SaveStep == ASSUME RecordInv, NEW r \in Calls, Record!Save(r) PROVE RecordInv'
<1>t. RecordTypeInv
  BY DEF RecordInv
<1> DEFINE f == form[r]
           dto == f.dto
           i == f.id
           was == table[i]
           owner == Record!Given(dto.owner, was.owner)
           logs == dto.login # Keep \/ dto.sftp # Keep
           shared == Record!Given(dto.shared, was.shared)
           sftp == Record!Given(dto.sftp, was.sftp)
           login == Record!Given(dto.login, was.login)
           stored == IF dto.secret = Keep THEN was.stored
                     ELSE Record!encryptConnectionAuth(dto.secret)
           meant == IF dto.secret = Keep THEN was.meant ELSE f.meant
           openly == IF dto.secret = Keep THEN was.openly ELSE was.openly \/ ~keyed
           left == ((was.left \ f.given) \cup {was.owner}) \ {owner}
           unseen == IF logs THEN Record!Looked(r) ELSE was.unseen
           late == was.late \/ f.stale
           new == [was EXCEPT !.owner = owner, !.shared = shared, !.sftp = sftp, !.login = login,
                              !.stored = stored, !.meant = meant, !.openly = openly, !.left = left,
                              !.unseen = unseen, !.late = late]
<1>1. /\ f.pc = "save" /\ i # 0 /\ keyed' = keyed
      /\ table' = [table EXCEPT ![i] = new] /\ form' = Record!Closed(r, i)
  BY DEF Record!Save
<1>2. f \in ChangeType
  BY <1>1, <1>t, FormIs
<1>3. Changes(f)
  BY DEF RecordInv, FormHolds
<1>4. /\ i \in DOMAIN table /\ i \in Nat
      /\ dto.secret # Keep => dto.secret = f.meant \/ (was.openly /\ f.meant \in Colon)
  BY <1>1, <1>2, <1>3 DEF Changes, ChangeType
<1>5. /\ dto \in ChangeDto /\ f.meant \in Texts /\ f.stale \in BOOLEAN /\ f.given \in SUBSET Shops
  BY <1>2 DEF ChangeType
<1>6. /\ dto.owner \in Shops \cup {Keep} /\ dto.shared \in (SUBSET Shops) \cup {Keep}
      /\ dto.sftp \in BOOLEAN \cup {Keep} /\ dto.login \in Jobs \cup {Keep}
      /\ dto.secret \in Texts \cup {Record!Garbage, Keep}
  BY <1>5 DEF ChangeDto
<1>7. was \in ConnectionType
  BY <1>4, <1>t, Stored
<1>8. /\ was.owner \in Shops /\ was.shared \in SUBSET Shops /\ was.sftp \in BOOLEAN
      /\ was.login \in Jobs /\ was.stored \in StoredType /\ was.meant \in Texts
      /\ was.openly \in BOOLEAN /\ was.left \in SUBSET Shops /\ was.unseen \in BOOLEAN
      /\ was.late \in BOOLEAN /\ was.system \in {"shopify", "sigloch"}
  BY <1>7 DEF ConnectionType
<1>9. keyed \in BOOLEAN /\ Record!Looked(r) \in BOOLEAN
  BY <1>t DEF RecordTypeInv, Record!Looked
<1>10. dto.secret # Keep =>
         /\ Record!encryptConnectionAuth(dto.secret) \in StoredType
         /\ Record!encryptConnectionAuth(dto.secret).text = dto.secret
         /\ ~Record!encryptConnectionAuth(dto.secret).cipher => ~keyed
  BY <1>6 DEF Record!encryptConnectionAuth, Record!Cipher, Record!Plain, StoredType
<1>11. /\ new.owner = owner /\ new.shared = shared /\ new.sftp = sftp /\ new.login = login
       /\ new.stored = stored /\ new.meant = meant /\ new.openly = openly /\ new.left = left
       /\ new.unseen = unseen /\ new.late = late /\ new.system = was.system
  <2> HIDE DEF owner, shared, sftp, login, stored, meant, openly, left, unseen, late, was
  <2> QED BY <1>7 DEF ConnectionType
<1>12. new \in ConnectionType
  <2>1. owner \in Shops /\ shared \in SUBSET Shops /\ sftp \in BOOLEAN /\ login \in Jobs
    BY <1>6, <1>8 DEF Record!Given
  <2>2. stored \in StoredType /\ meant \in Texts /\ openly \in BOOLEAN
    BY <1>5, <1>8, <1>9, <1>10
  <2>3. left \in SUBSET Shops /\ unseen \in BOOLEAN /\ late \in BOOLEAN
    BY <1>5, <1>8, <1>9
  <2> HIDE DEF owner, shared, sftp, login, stored, meant, openly, left, unseen, late, was
  <2> HIDE DEF f, dto, i, logs
  <2> DEFINE a1 == [was EXCEPT !.owner = owner]
             a2 == [a1 EXCEPT !.shared = shared]
             a3 == [a2 EXCEPT !.sftp = sftp]
             a4 == [a3 EXCEPT !.login = login]
             a5 == [a4 EXCEPT !.stored = stored]
             a6 == [a5 EXCEPT !.meant = meant]
             a7 == [a6 EXCEPT !.openly = openly]
             a8 == [a7 EXCEPT !.left = left]
             a9 == [a8 EXCEPT !.unseen = unseen]
             a10 == [a9 EXCEPT !.late = late]
  <2>4. new = a10
    OBVIOUS
  <2> HIDE DEF new
  <2>a1. a1 \in ConnectionType
    BY <1>7, <2>1 DEF ConnectionType
  <2> HIDE DEF a1
  <2>a2. a2 \in ConnectionType
    BY <2>a1, <2>1 DEF ConnectionType
  <2> HIDE DEF a2
  <2>a3. a3 \in ConnectionType
    BY <2>a2, <2>1 DEF ConnectionType
  <2> HIDE DEF a3
  <2>a4. a4 \in ConnectionType
    BY <2>a3, <2>1 DEF ConnectionType
  <2> HIDE DEF a4
  <2>a5. a5 \in ConnectionType
    BY <2>a4, <2>2 DEF ConnectionType
  <2> HIDE DEF a5
  <2>a6. a6 \in ConnectionType
    BY <2>a5, <2>2 DEF ConnectionType
  <2> HIDE DEF a6
  <2>a7. a7 \in ConnectionType
    BY <2>a6, <2>2 DEF ConnectionType
  <2> HIDE DEF a7
  <2>a8. a8 \in ConnectionType
    BY <2>a7, <2>3 DEF ConnectionType
  <2> HIDE DEF a8
  <2>a9. a9 \in ConnectionType
    BY <2>a8, <2>3 DEF ConnectionType
  <2> HIDE DEF a9
  <2>a10. a10 \in ConnectionType
    BY <2>a9, <2>3 DEF ConnectionType
  <2> HIDE DEF a10
  <2> QED BY <2>4, <2>a10
<1> HIDE DEF new
<1>13. /\ table' \in Seq(ConnectionType) /\ DOMAIN table' = DOMAIN table /\ table'[i] = new
       /\ \A k \in DOMAIN table \ {i} : table'[k] = table[k]
  BY <1>1, <1>4, <1>12, <1>t DEF RecordTypeInv
<1>14. Readable(new)
  <2>1. Readable(was)
    BY <1>4 DEF RecordInv
  <2>2. CASE dto.secret = Keep
    BY <2>1, <2>2, <1>11 DEF Readable
  <2>3. CASE dto.secret # Keep
    BY <2>3, <1>4, <1>10, <1>11 DEF Readable
  <2> QED BY <2>2, <2>3
<1>15. Apart(new)
  <2> SUFFICES ASSUME was.system = "sigloch", ~was.late, ~f.stale
               PROVE  new.left \cap new.shared = {} /\ new.owner \notin new.left
    BY <1>11 DEF Apart
  <2>1. LeftThen(f) \cap SharedThen(f) = {}
    BY <1>1, <1>3 DEF Changes
  <2> QED BY <2>1, <1>11 DEF LeftThen, SharedThen, OwnerThen
<1>16. was.openly => new.openly
  BY <1>11
<1>17. \A k \in DOMAIN table \ {i} :
         new.sftp /\ table[k].sftp /\ table[k].login = new.login =>
           new.late \/ new.unseen \/ table[k].late \/ table[k].unseen
  <2> SUFFICES ASSUME new.sftp, ~f.stale, NEW k \in DOMAIN table \ {i}, table[k].sftp,
                      table[k].login = new.login
               PROVE  table[k].late \/ table[k].unseen
    BY <1>11
  <2>1. SftpThen(f) = TRUE /\ f.login = new.login
    <3>1. f.login = LoginThen(f)
      BY <1>1, <1>3 DEF Changes
    <3>2. SftpThen(f) \in BOOLEAN
      BY <1>6, <1>8 DEF SftpThen, Record!Given
    <3> QED BY <3>1, <3>2, <1>11 DEF LoginThen, SftpThen
  <2>2. Free(f, f.login)
    BY <1>1, <1>3, <2>1 DEF Changes
  <2> QED BY <2>1, <2>2 DEF Free
<1>18. \/ Record!Looked(r) => new.unseen
       \/ /\ new.sftp = was.sftp /\ new.login = was.login
          /\ new.unseen = was.unseen /\ (was.late => new.late)
  BY <1>11 DEF Record!Given
<1> HIDE DEF f, i, was
<1>19. i \in DOMAIN table' /\ DOMAIN table' = DOMAIN table \cup {i}
  BY <1>4, <1>13
<1>20. was = table[i]
  BY DEF was, i
<1> QED BY <1>1, <1>4, <1>13, <1>14, <1>15, <1>16, <1>17, <1>18, <1>19, <1>20, TableStep

\* A restart forgets the requests that were under way.
LEMMA RestartStep == ASSUME RecordInv, Record!Restart PROVE RecordInv'
<1>1. /\ keyed' \in BOOLEAN /\ table' = table
      /\ form' = [r \in Calls |-> IF form[r].pc = "open" THEN form[r] ELSE Record!NoForm]
  BY DEF Record!Restart
<1>2. \A r \in Calls : form[r] \in FormType /\ Opened(form[r])
  BY DEF RecordInv, RecordTypeInv, FormHolds
<1>3. RecordTypeInv'
  <2>1. form' \in [Calls -> FormType]
    BY <1>1, <1>2 DEF FormType
  <2> QED BY <2>1, <1>1 DEF RecordInv, RecordTypeInv
<1>4. \A r \in Calls : form'[r] = Record!NoForm \/ (form'[r] = form[r] /\ form[r].pc = "open")
  BY <1>1
<1>5. \A r \in Calls : FormHolds(form[r])'
  BY <1>1, <1>2, <1>4 DEF FormHolds, Opened, New, Changes, Record!NoForm
<1>6. \A i \in DOMAIN table' : Readable(table[i])' /\ Apart(table[i])'
  BY <1>1 DEF RecordInv, Readable, Apart
<1>7. Record!OneLogin'
  BY <1>1 DEF RecordInv, Record!OneLogin
<1> QED BY <1>3, <1>5, <1>6, <1>7 DEF RecordInv

LEMMA RecordStep == ASSUME RecordInv, Record!Next PROVE RecordInv'
BY CreateRecordStep, OpenStep, UpdateRecordStep, LookStep, InsertStep, SaveStep, RestartStep
   DEF Record!Next

\* ConnectionRecords: every lookup gives the secret that was entered, up to a colon in
\* one that was stored without a key; a warehouse connection is not found by those it was
\* moved away from; and two connections share a login only if they were looked for
\* together or written from an old reading (encryption-util.ts:42,
\* connection-auths.service.ts:122, :454).
THEOREM RecordsKept == ServicesSpec => []RecordsHold
<1> DEFINE Inv == part = "record" => RecordInv
<1>1. ServicesInit => Inv
  BY RecordBegins DEF ServicesInit
<1>2. Inv /\ [ServicesNext]_servicesVars => Inv'
  <2>1. ASSUME Inv, ServicesNext PROVE Inv'
    BY <2>1, RecordStep DEF ServicesNext
  <2>2. ASSUME Inv, UNCHANGED part, UNCHANGED recordPart PROVE Inv'
    <3>1. table' = table /\ keyed' = keyed /\ form' = form
      BY <2>2 DEF recordPart
    <3>2. ASSUME RecordInv PROVE RecordInv'
      <4>1. \A r \in Calls : FormHolds(form[r])'
        BY <3>1, <3>2 DEF RecordInv, FormHolds, Opened, New, Changes, Free, SharedThen, OwnerThen,
           LoginThen, SftpThen, LeftThen
      <4> QED BY <3>1, <3>2, <4>1 DEF RecordInv, RecordTypeInv, Readable, Apart, Record!OneLogin
    <3> QED BY <2>2, <3>2
  <2> QED BY <2>1, <2>2 DEF servicesVars
<1>3. Inv => RecordsHold
  BY RecordsRead DEF RecordsHold
<1> QED BY <1>1, <1>2, <1>3, PTL DEF ServicesSpec

----------------------------------------------------------------------------
(* Refunds.                                                                *)

RunPcs == {"idle", "calculate", "create", "record", "done", "threw"}
RunType == [kind : {"none", "message", "user"}, pc : RunPcs, entries : Seq(Refund!Entry),
            at : Nat, runs : Nat]
Counted == [Refund!Positions -> Nat]

\* A job and what became of its entries: refunded f times, recorded c times, refunded
\* without a record l times.
Manual(r, k) == order[r.entries[k].order].manual
Under(r) == r.pc \in {"calculate", "create", "record"}
RunTypes(r, f, c, l) ==
  /\ r \in RunType /\ f \in Counted /\ c \in Counted /\ l \in Counted
  /\ Len(r.entries) =< MaxEntries
  /\ IF r.pc = "idle" THEN r.entries = <<>> /\ r.runs = 0 ELSE r.at \in 1..Len(r.entries)

\* Refunds and records; the entry between the two calls.
AddUp(r, f, c, l) ==
  \A k \in Refund!Positions :
    f[k] = c[k] + l[k] + (IF r.pc = "record" /\ r.at = k THEN 1 ELSE 0)

\* A delivery refunds an entry at most once: those still ahead have a refund less than
\* there were deliveries.
OncePerRun(r, f) ==
  \A k \in Refund!Positions :
    /\ f[k] =< r.runs
    /\ Under(r) /\ k > r.at => f[k] < r.runs
    /\ r.pc \in {"calculate", "create"} /\ k = r.at => f[k] < r.runs

\* What a delivery has passed is recorded, unless it is manual and not refunded.
Passed(r, c) ==
  \A k \in DOMAIN r.entries :
    (Under(r) /\ k < r.at) \/ r.pc = "done" => Manual(r, k) \/ c[k] > 0
NoneManual(r, f) ==
  \A k \in DOMAIN r.entries : Manual(r, k) => f[k] = 0 /\ ~(r.pc = "record" /\ r.at = k)

RunHolds(r, f, c, l) ==
  RunTypes(r, f, c, l) /\ AddUp(r, f, c, l) /\ OncePerRun(r, f) /\ Passed(r, c) /\ NoneManual(r, f)

RefundInv ==
  /\ refundJob = [j \in Jobs |-> refundJob[j]] /\ refunds = [j \in Jobs |-> refunds[j]]
  /\ records = [j \in Jobs |-> records[j]] /\ lost = [j \in Jobs |-> lost[j]]
  /\ \A j \in Jobs : RunHolds(refundJob[j], refunds[j], records[j], lost[j])

\* The bound is a number.
LEMMA Entries ==
  /\ MaxEntries \in Nat /\ MaxEntries > 0
  /\ Refund!Positions \subseteq Nat
  /\ \A r : r.entries \in Seq(Refund!Entry) /\ Len(r.entries) =< MaxEntries =>
              /\ Len(r.entries) \in Nat /\ DOMAIN r.entries = 1..Len(r.entries)
              /\ DOMAIN r.entries \subseteq Refund!Positions
BY RefundAssumption DEF Refund!ConstantsFit, Refund!Positions

LEMMA RefundBegins == ASSUME Refund!Init PROVE RefundInv
<1>1. \A j \in Jobs : /\ refundJob[j] = Refund!NoJob /\ refunds[j] = Refund!NoEntries
                      /\ records[j] = Refund!NoEntries /\ lost[j] = Refund!NoEntries
  BY DEF Refund!Init
<1>2. Refund!NoEntries \in Counted /\ \A k \in Refund!Positions : Refund!NoEntries[k] = 0
  BY DEF Refund!NoEntries, Counted
<1>3. /\ Refund!NoJob \in RunType /\ Refund!NoJob.pc = "idle" /\ Refund!NoJob.entries = <<>>
      /\ Refund!NoJob.runs = 0
  BY DEF Refund!NoJob, RunType, RunPcs
<1>4. RunHolds(Refund!NoJob, Refund!NoEntries, Refund!NoEntries, Refund!NoEntries)
  BY <1>2, <1>3, Entries
     DEF RunHolds, RunTypes, AddUp, OncePerRun, Passed, NoneManual, Under
<1> QED BY <1>1, <1>4 DEF RefundInv, Refund!Init

\* A step is one of one job.
Becomes(j, r, f, c, l) ==
  /\ order' = order
  /\ refundJob' = [refundJob EXCEPT ![j] = r] /\ refunds' = [refunds EXCEPT ![j] = f]
  /\ records' = [records EXCEPT ![j] = c] /\ lost' = [lost EXCEPT ![j] = l]

LEMMA OneRun ==
  ASSUME RefundInv, NEW j \in Jobs, NEW r, NEW f, NEW c, NEW l,
         Becomes(j, r, f, c, l), RunHolds(r, f, c, l)
  PROVE  RefundInv'
<1>1. /\ refundJob' = [i \in Jobs |-> refundJob'[i]] /\ refunds' = [i \in Jobs |-> refunds'[i]]
      /\ records' = [i \in Jobs |-> records'[i]] /\ lost' = [i \in Jobs |-> lost'[i]]
  BY DEF RefundInv, Becomes
<1>2. ASSUME NEW i \in Jobs
      PROVE  /\ i = j => /\ refundJob'[i] = r /\ refunds'[i] = f
                         /\ records'[i] = c /\ lost'[i] = l
             /\ i # j => /\ refundJob'[i] = refundJob[i] /\ refunds'[i] = refunds[i]
                         /\ records'[i] = records[i] /\ lost'[i] = lost[i]
  BY DEF RefundInv, Becomes
<1>3. ASSUME NEW i \in Jobs
      PROVE  RunHolds(refundJob'[i], refunds'[i], records'[i], lost'[i])
  BY <1>2, <1>3 DEF RefundInv
<1>4. ASSUME NEW i \in Jobs
      PROVE  RunHolds(refundJob[i], refunds[i], records[i], lost[i])'
  BY <1>3, <1>4 DEF Becomes, RunHolds, RunTypes, AddUp, OncePerRun, Passed, NoneManual, Manual, Under
<1> QED BY <1>1, <1>4 DEF RefundInv

\* An unchanged function is itself with the old value at j.
LEMMA Unchanged ==
  ASSUME RefundInv, NEW j \in Jobs
  PROVE  /\ refunds = [refunds EXCEPT ![j] = refunds[j]]
         /\ records = [records EXCEPT ![j] = records[j]]
         /\ lost = [lost EXCEPT ![j] = lost[j]]
         /\ RunHolds(refundJob[j], refunds[j], records[j], lost[j])
BY DEF RefundInv

\* A job is published or clicked.
LEMMA BeginStep ==
  ASSUME RefundInv, NEW j \in Jobs,
         \/ \E n \in Refund!Positions : \E entries \in [1..n -> Refund!Entry] :
              Refund!Publish(j, n, entries)
         \/ \E e \in Refund!Entry : Refund!Click(j, e)
  PROVE  RefundInv'
<1>1. \E n \in Refund!Positions : \E es \in [1..n -> Refund!Entry] :
        \E what \in {"message", "user"} :
          /\ refundJob[j].pc = "idle"
          /\ refundJob' = [refundJob EXCEPT ![j] =
               [kind |-> what, pc |-> "calculate", at |-> 1, runs |-> 1, entries |-> es]]
          /\ UNCHANGED <<order, refunds, records, lost>>
  <2>1. CASE \E n \in Refund!Positions : \E entries \in [1..n -> Refund!Entry] :
               Refund!Publish(j, n, entries)
    <3>1. PICK n \in Refund!Positions :
            \E entries \in [1..n -> Refund!Entry] : Refund!Publish(j, n, entries)
      BY <2>1
    <3>2. PICK es \in [1..n -> Refund!Entry] : Refund!Publish(j, n, es)
      BY <3>1
    <3>3. es = [k \in 1..n |-> es[k]]
      OBVIOUS
    <3> QED BY <3>2, <3>3 DEF Refund!Publish
  <2>2. CASE \E e \in Refund!Entry : Refund!Click(j, e)
    <3>1. PICK e \in Refund!Entry : Refund!Click(j, e)
      BY <2>2
    <3>2. PICK es : es = [k \in 1..1 |-> e]
      OBVIOUS
    <3>3. es \in [1..1 -> Refund!Entry] /\ MaxEntries >= 1
      BY <3>2, Entries
    <3>4. 1 \in Refund!Positions
      BY <3>3, Entries DEF Refund!Positions
    <3> QED BY <3>1, <3>2, <3>3, <3>4 DEF Refund!Click
  <2> QED BY <2>1, <2>2
<1>2. PICK n \in Refund!Positions : \E es \in [1..n -> Refund!Entry] :
        \E what \in {"message", "user"} :
          /\ refundJob[j].pc = "idle"
          /\ refundJob' = [refundJob EXCEPT ![j] =
               [kind |-> what, pc |-> "calculate", at |-> 1, runs |-> 1, entries |-> es]]
          /\ UNCHANGED <<order, refunds, records, lost>>
  BY <1>1
<1>3. PICK es \in [1..n -> Refund!Entry], what \in {"message", "user"} :
        /\ refundJob[j].pc = "idle"
        /\ refundJob' = [refundJob EXCEPT ![j] =
             [kind |-> what, pc |-> "calculate", at |-> 1, runs |-> 1, entries |-> es]]
        /\ UNCHANGED <<order, refunds, records, lost>>
  BY <1>2
<1> PICK r : r = [kind |-> what, pc |-> "calculate", at |-> 1, runs |-> 1, entries |-> es]
  OBVIOUS
<1>4. r \in RunType /\ r.pc = "calculate" /\ r.at = 1 /\ r.runs = 1 /\ r.entries = es
  BY Entries DEF RunType, RunPcs
<1>5. Len(es) = n /\ n \in 1..MaxEntries /\ n \in Nat
  BY Entries DEF Refund!Positions
<1>6. RunHolds(refundJob[j], refunds[j], records[j], lost[j])
  BY Unchanged
<1>7. \A k \in Refund!Positions : refunds[j][k] = 0
  <2>1. \A k \in Refund!Positions : refunds[j][k] \in Nat /\ refunds[j][k] =< refundJob[j].runs
    BY <1>6 DEF RunHolds, RunTypes, OncePerRun, Counted
  <2>2. refundJob[j].runs = 0
    BY <1>3, <1>6 DEF RunHolds, RunTypes
  <2> QED BY <2>1, <2>2
<1>8. RunHolds(r, refunds[j], records[j], lost[j])
  BY <1>3, <1>4, <1>5, <1>6, <1>7, Entries
     DEF RunHolds, RunTypes, AddUp, OncePerRun, Passed, NoneManual, Under
<1>9. Becomes(j, r, refunds[j], records[j], lost[j])
  BY <1>3, Unchanged DEF Becomes
<1> QED BY <1>8, <1>9, OneRun

\* The job goes on to another call, with the entry it is at.
LEMMA CallStep ==
  ASSUME RefundInv, NEW j \in Jobs, NEW pc \in RunPcs \ {"idle", "record", "done"},
         refundJob[j].pc \in {"calculate", "create"}, Refund!Goto(j, pc),
         UNCHANGED <<order, refunds, records, lost>>
  PROVE  RefundInv'
<1> PICK o : o = refundJob[j]
  OBVIOUS
<1> PICK r : r = [o EXCEPT !.pc = pc]
  OBVIOUS
<1>1. RunHolds(o, refunds[j], records[j], lost[j])
  BY Unchanged
<1>2. refundJob' = [refundJob EXCEPT ![j] = r]
  BY DEF Refund!Goto
<1>3. /\ r \in RunType /\ r.pc = pc /\ r.at = o.at /\ r.entries = o.entries /\ r.runs = o.runs
  BY <1>1 DEF RunHolds, RunTypes, RunType
<1>4. RunHolds(r, refunds[j], records[j], lost[j])
  BY <1>1, <1>3 DEF RunHolds, RunTypes, AddUp, OncePerRun, Passed, NoneManual, Under, Manual
<1>5. Becomes(j, r, refunds[j], records[j], lost[j])
  BY <1>2, Unchanged DEF Becomes
<1> QED BY <1>4, <1>5, OneRun

\* ... or passes it, when it is recorded or left out, to the next or to its end.
LEMMA PassStep ==
  ASSUME RefundInv, NEW j \in Jobs, NEW c, Refund!NextEntry(j),
         refundJob[j].pc \in {"create", "record"},
         UNCHANGED <<order, refunds, lost>>,
         records' = [records EXCEPT ![j] = c], c \in Counted,
         \A k \in Refund!Positions :
           c[k] = records[j][k]
                    + (IF refundJob[j].pc = "record" /\ refundJob[j].at = k THEN 1 ELSE 0),
         Manual(refundJob[j], refundJob[j].at) \/ c[refundJob[j].at] > 0
  PROVE  RefundInv'
<1> PICK o : o = refundJob[j]
  OBVIOUS
<1> PICK at : at = IF o.at < Len(o.entries) THEN o.at + 1 ELSE o.at
  OBVIOUS
<1> PICK pc : pc = IF o.at < Len(o.entries) THEN "calculate" ELSE "done"
  OBVIOUS
<1> PICK r : r = [o EXCEPT !.at = at, !.pc = pc]
  OBVIOUS
<1>1. RunHolds(o, refunds[j], records[j], lost[j])
  BY Unchanged
<1>2. refundJob' = [refundJob EXCEPT ![j] = r]
  BY DEF Refund!NextEntry
<1>3. /\ o \in RunType /\ o.at \in 1..Len(o.entries) /\ Len(o.entries) \in Nat
      /\ DOMAIN o.entries = 1..Len(o.entries) /\ DOMAIN o.entries \subseteq Refund!Positions
      /\ Refund!Positions \subseteq Nat
  BY <1>1, Entries DEF RunHolds, RunTypes, RunType
<1>4. at \in Nat /\ pc \in RunPcs /\ pc \in {"calculate", "done"}
  BY <1>3 DEF RunPcs
<1>5. /\ r \in RunType /\ r.pc = pc /\ r.at = at /\ r.entries = o.entries /\ r.runs = o.runs
  <2> PICK g : g = [o EXCEPT !.at = at]
    OBVIOUS
  <2>1. g \in RunType /\ g.at = at /\ g.entries = o.entries /\ g.runs = o.runs
    BY <1>3, <1>4 DEF RunType
  <2>2. r = [g EXCEPT !.pc = pc]
    OBVIOUS
  <2> QED BY <1>4, <2>1, <2>2 DEF RunType
<1>6. RunTypes(r, refunds[j], c, lost[j])
  BY <1>1, <1>3, <1>5 DEF RunHolds, RunTypes
<1>7. AddUp(r, refunds[j], c, lost[j])
  <2> SUFFICES ASSUME NEW k \in Refund!Positions PROVE refunds[j][k] = c[k] + lost[j][k] + 0
    BY <1>4, <1>5 DEF AddUp
  <2>1. records[j][k] \in Nat /\ lost[j][k] \in Nat /\ c[k] \in Nat
    BY <1>1 DEF RunHolds, RunTypes, Counted
  <2>2. refunds[j][k] = records[j][k] + lost[j][k]
                          + (IF o.pc = "record" /\ o.at = k THEN 1 ELSE 0)
    BY <1>1 DEF RunHolds, AddUp
  <2>3. c[k] = records[j][k] + (IF o.pc = "record" /\ o.at = k THEN 1 ELSE 0)
    OBVIOUS
  <2> QED BY <2>1, <2>2, <2>3
<1>8. OncePerRun(r, refunds[j])
  BY <1>1, <1>3, <1>5 DEF RunHolds, OncePerRun, Under
<1>9. Passed(r, c)
  <2>3. \A k \in 1..Len(o.entries) : k < at \/ pc = "done" => k =< o.at
    BY <1>3
  <2>4. \A k : Manual(r, k) <=> Manual(o, k)
    BY <1>5 DEF Manual
  <2>5. \A k \in DOMAIN o.entries : (Under(r) /\ k < r.at) \/ r.pc = "done" => k =< o.at
    BY <1>3, <1>5, <2>3
  <2> SUFFICES ASSUME NEW k \in DOMAIN o.entries, k =< o.at
               PROVE  Manual(o, k) \/ c[k] > 0
    <3>1. r.entries = o.entries BY <1>5
    <3> QED BY <3>1, <2>4, <2>5 DEF Passed
  <2>1. CASE k = o.at
    BY <2>1
  <2>2. CASE k < o.at
    <3>1. Manual(o, k) \/ records[j][k] > 0
      BY <1>1, <2>2 DEF RunHolds, Passed, Under
    <3>2. c[k] >= records[j][k] /\ c[k] \in Nat /\ records[j][k] \in Nat
      BY <1>1, <1>3 DEF RunHolds, RunTypes, Counted
    <3> QED BY <3>1, <3>2
  <2> QED BY <1>3, <2>1, <2>2
<1>10. NoneManual(r, refunds[j])
  BY <1>1, <1>4, <1>5 DEF RunHolds, NoneManual, Manual
<1>11. RunHolds(r, refunds[j], c, lost[j])
  BY <1>6, <1>7, <1>8, <1>9, <1>10 DEF RunHolds
<1>12. Becomes(j, r, refunds[j], c, lost[j])
  BY <1>2, Unchanged DEF Becomes
<1> QED BY <1>11, <1>12, OneRun

\* calculateRefundOrder: on to the refund, or an exception.
LEMMA CalculateStep ==
  ASSUME RefundInv, NEW j \in Jobs, Refund!calculateRefundOrder(j)
  PROVE  RefundInv'
<1>1. /\ refundJob[j].pc = "calculate" /\ UNCHANGED <<order, refunds, records, lost>>
      /\ Refund!Goto(j, "create") \/ Refund!Goto(j, "threw")
  BY DEF Refund!calculateRefundOrder
<1>2. {"create", "threw"} \subseteq RunPcs \ {"idle", "record", "done"}
  BY DEF RunPcs
<1> QED BY <1>1, <1>2, CallStep

\* createRefundOrder: a manual order is left out, a refusal is an exception, and what is
\* refunded is to be recorded next.
LEMMA CreateRefundStep ==
  ASSUME RefundInv, NEW j \in Jobs, Refund!createRefundOrder(j)
  PROVE  RefundInv'
<1> PICK o : o = refundJob[j]
  OBVIOUS
<1> PICK e : e = Refund!Current(j)
  OBVIOUS
<1>1. o.pc = "create" /\ UNCHANGED <<order, records, lost>> /\ e = o.entries[o.at]
  BY DEF Refund!createRefundOrder, Refund!Current
<1>2. RunHolds(o, refunds[j], records[j], lost[j])
  BY Unchanged
<1>3. /\ o \in RunType /\ o.at \in DOMAIN o.entries /\ o.at \in Nat
      /\ DOMAIN o.entries \subseteq Refund!Positions /\ Refund!Positions \subseteq Nat
  BY <1>1, <1>2, Entries DEF RunHolds, RunTypes, RunType
<1>4. CASE order[e.order].manual /\ Refund!SkipsManual(j) /\ UNCHANGED <<refunded, refunds>>
  <2>1. records[j] \in Counted /\ Manual(o, o.at) /\ Refund!NextEntry(j)
    BY <1>1, <1>2, <1>4 DEF RunHolds, RunTypes, Manual, Refund!SkipsManual
  <2>2. \A k \in Refund!Positions : records[j][k] = records[j][k] + 0 
    BY <2>1 DEF Counted
  <2>3. records' = [records EXCEPT ![j] = records[j]]
    BY <1>1, Unchanged
  <2> QED BY <1>1, <1>4, <2>1, <2>2, <2>3, PassStep
<1>5. CASE Refund!Throws(j) /\ UNCHANGED <<refunded, refunds>>
  <2>1. "threw" \in RunPcs \ {"idle", "record", "done"}
    BY DEF RunPcs
  <2> QED BY <1>1, <1>5, <2>1, CallStep DEF Refund!Throws
<1>6. CASE ~order[e.order].manual /\ Refund!createRefund(j, e) /\ Refund!Goto(j, "record")
  <2> PICK r : r = [o EXCEPT !.pc = "record"]
    OBVIOUS
  <2> PICK f : f = [refunds[j] EXCEPT ![o.at] = @ + 1]
    OBVIOUS
  <2>1. refundJob' = [refundJob EXCEPT ![j] = r] /\ refunds' = [refunds EXCEPT ![j] = f]
    BY <1>6 DEF Refund!Goto, Refund!createRefund
  <2>2. /\ r \in RunType /\ r.pc = "record" /\ r.at = o.at /\ r.entries = o.entries
        /\ r.runs = o.runs /\ o.runs \in Nat
    BY <1>3 DEF RunType, RunPcs
  <2>3. /\ f \in Counted
        /\ \A k \in Refund!Positions : f[k] = refunds[j][k] + (IF k = o.at THEN 1 ELSE 0)
    BY <1>2, <1>3 DEF RunHolds, RunTypes, Counted
  <2>4. RunTypes(r, f, records[j], lost[j])
    BY <1>2, <1>1, <2>2, <2>3 DEF RunHolds, RunTypes
  <2>5. AddUp(r, f, records[j], lost[j])
    BY <1>1, <1>2, <2>2, <2>3 DEF RunHolds, RunTypes, AddUp, Counted
  <2>6. OncePerRun(r, f)
    BY <1>1, <1>2, <1>3, <2>2, <2>3 DEF RunHolds, RunTypes, OncePerRun, Under, Counted
  <2>7. Passed(r, records[j])
    BY <1>1, <1>2, <2>2 DEF RunHolds, Passed, Under, Manual
  <2>8. NoneManual(r, f)
    <3> SUFFICES ASSUME NEW k \in DOMAIN o.entries, Manual(o, k)
                 PROVE  f[k] = 0 /\ k # o.at
      BY <2>2 DEF NoneManual, Manual
    <3>1. k # o.at
      BY <1>1, <1>6 DEF Manual
    <3>2. refunds[j][k] = 0 /\ k \in Refund!Positions
      BY <1>2, <1>3 DEF RunHolds, NoneManual
    <3> QED BY <2>3, <3>1, <3>2
  <2>9. RunHolds(r, f, records[j], lost[j])
    BY <2>4, <2>5, <2>6, <2>7, <2>8 DEF RunHolds
  <2>10. Becomes(j, r, f, records[j], lost[j])
    BY <1>1, <2>1, Unchanged DEF Becomes
  <2> QED BY <2>9, <2>10, OneRun
<1> QED BY <1>1, <1>4, <1>5, <1>6 DEF Refund!createRefundOrder

\* createRefundOrderAfterRefundCalculation: the refund is recorded.
LEMMA RecordRefundStep ==
  ASSUME RefundInv, NEW j \in Jobs, Refund!createRefundOrderAfterRefundCalculation(j)
  PROVE  RefundInv'
<1> PICK o : o = refundJob[j]
  OBVIOUS
<1> PICK c : c = [records[j] EXCEPT ![o.at] = @ + 1]
  OBVIOUS
<1>1. /\ o.pc = "record" /\ UNCHANGED <<order, refunds, lost>> /\ Refund!NextEntry(j)
      /\ records' = [records EXCEPT ![j] = c]
  BY DEF Refund!createRefundOrderAfterRefundCalculation
<1>2. RunHolds(o, refunds[j], records[j], lost[j])
  BY Unchanged
<1>3. /\ o.at \in DOMAIN o.entries /\ o.at \in Refund!Positions
  BY <1>1, <1>2, Entries DEF RunHolds, RunTypes, RunType
<1>4. /\ c \in Counted /\ c[o.at] > 0
      /\ \A k \in Refund!Positions : c[k] = records[j][k] + (IF o.at = k THEN 1 ELSE 0)
  BY <1>2, <1>3 DEF RunHolds, RunTypes, Counted
<1>5. Manual(refundJob[j], refundJob[j].at) \/ c[refundJob[j].at] > 0
  BY <1>4
<1>6. \A k \in Refund!Positions :
        c[k] = records[j][k]
                 + (IF refundJob[j].pc = "record" /\ refundJob[j].at = k THEN 1 ELSE 0)
  BY <1>1, <1>4
<1> QED BY <1>1, <1>4, <1>5, <1>6, PassStep

\* A call breaks off: the entry it was at may be refunded without a record.
LEMMA BreakOffStep ==
  ASSUME RefundInv, NEW j \in Jobs, Refund!BreakOff(j)
  PROVE  RefundInv'
<1> PICK o : o = refundJob[j]
  OBVIOUS
<1> PICK r : r = [o EXCEPT !.pc = "threw"]
  OBVIOUS
<1> PICK l : l = [lost[j] EXCEPT ![o.at] = IF o.pc = "record" THEN @ + 1 ELSE @]
  OBVIOUS
<1>1. /\ Under(o) /\ UNCHANGED <<order, refunds, records>>
      /\ refundJob' = [refundJob EXCEPT ![j] = r] /\ lost' = [lost EXCEPT ![j] = l]
  BY DEF Refund!BreakOff, Refund!Throws, Refund!Goto, Under
<1>2. RunHolds(o, refunds[j], records[j], lost[j])
  BY Unchanged
<1>3. o \in RunType /\ o.at \in DOMAIN o.entries /\ o.at \in Refund!Positions
  BY <1>1, <1>2, Entries DEF RunHolds, RunTypes, RunType, Under
<1>4. /\ r \in RunType /\ r.pc = "threw" /\ r.at = o.at /\ r.entries = o.entries
      /\ r.runs = o.runs
  BY <1>3 DEF RunType, RunPcs
<1>5. /\ l \in Counted
      /\ \A k \in Refund!Positions :
           l[k] = lost[j][k] + (IF o.pc = "record" /\ o.at = k THEN 1 ELSE 0)
  BY <1>2, <1>3 DEF RunHolds, RunTypes, Counted
<1>6. RunTypes(r, refunds[j], records[j], l)
  BY <1>1, <1>2, <1>4, <1>5 DEF RunHolds, RunTypes, Under
<1>7. AddUp(r, refunds[j], records[j], l)
  <2> SUFFICES ASSUME NEW k \in Refund!Positions PROVE refunds[j][k] = records[j][k] + l[k] + 0
    BY <1>4 DEF AddUp
  <2>1. records[j][k] \in Nat /\ lost[j][k] \in Nat /\ l[k] \in Nat
    BY <1>2, <1>5 DEF RunHolds, RunTypes, Counted
  <2>2. refunds[j][k] = records[j][k] + lost[j][k]
                          + (IF o.pc = "record" /\ o.at = k THEN 1 ELSE 0)
    BY <1>2 DEF RunHolds, AddUp
  <2> QED BY <1>5, <2>1, <2>2
<1>8. OncePerRun(r, refunds[j]) /\ Passed(r, records[j]) /\ NoneManual(r, refunds[j])
  BY <1>2, <1>4 DEF RunHolds, OncePerRun, Passed, NoneManual, Under, Manual
<1>9. RunHolds(r, refunds[j], records[j], l)
  BY <1>6, <1>7, <1>8 DEF RunHolds
<1>10. Becomes(j, r, refunds[j], records[j], l)
  BY <1>1, Unchanged DEF Becomes
<1> QED BY <1>9, <1>10, OneRun

\* Another delivery begins with the first entry; the deliveries before it account for
\* what was refunded.
LEMMA AgainStep ==
  ASSUME RefundInv, NEW j \in Jobs, Refund!Again(j)
  PROVE  RefundInv'
<1> PICK o : o = refundJob[j]
  OBVIOUS
<1> PICK pc : pc = IF o.kind = "user" THEN "create" ELSE "calculate"
  OBVIOUS
<1> PICK n : n = o.runs + 1
  OBVIOUS
<1> PICK r : r = [o EXCEPT !.pc = pc, !.at = 1, !.runs = n]
  OBVIOUS
<1>1. /\ o.pc \in {"threw", "done"} /\ UNCHANGED <<order, refunds, records, lost>>
      /\ refundJob' = [refundJob EXCEPT ![j] = r]
  BY DEF Refund!Again
<1>2. RunHolds(o, refunds[j], records[j], lost[j])
  BY Unchanged
<1>3. /\ o \in RunType /\ 1 \in 1..Len(o.entries) /\ Refund!Positions \subseteq Nat
      /\ DOMAIN o.entries \subseteq Nat
  BY <1>1, <1>2, Entries DEF RunHolds, RunTypes, RunType
<1>4. pc \in {"create", "calculate"} /\ pc \in RunPcs /\ n \in Nat /\ o.runs \in Nat
  BY <1>3 DEF RunPcs, RunType
<1>5. /\ r \in RunType /\ r.pc = pc /\ r.at = 1 /\ r.entries = o.entries /\ r.runs = n
  <2> PICK g : g = [o EXCEPT !.pc = pc]
    OBVIOUS
  <2> PICK h : h = [g EXCEPT !.at = 1]
    OBVIOUS
  <2>1. g \in RunType /\ g.pc = pc /\ g.entries = o.entries
    BY <1>3, <1>4 DEF RunType
  <2>2. h \in RunType /\ h.pc = pc /\ h.entries = o.entries /\ h.at = 1
    BY <2>1 DEF RunType
  <2>3. r = [h EXCEPT !.runs = n]
    OBVIOUS
  <2> QED BY <1>4, <2>2, <2>3 DEF RunType
<1>6. RunTypes(r, refunds[j], records[j], lost[j])
  BY <1>2, <1>3, <1>4, <1>5 DEF RunHolds, RunTypes
<1>7. OncePerRun(r, refunds[j])
  BY <1>2, <1>4, <1>5 DEF RunHolds, RunTypes, OncePerRun, Counted
<1>8. AddUp(r, refunds[j], records[j], lost[j]) /\ NoneManual(r, refunds[j])
  BY <1>1, <1>2, <1>4, <1>5 DEF RunHolds, AddUp, NoneManual, Manual
<1>9. Passed(r, records[j])
  BY <1>3, <1>4, <1>5, <1>2, Entries DEF Passed, RunHolds, RunTypes
<1>10. RunHolds(r, refunds[j], records[j], lost[j])
  BY <1>6, <1>7, <1>8, <1>9 DEF RunHolds
<1>11. Becomes(j, r, refunds[j], records[j], lost[j])
  BY <1>1, Unchanged DEF Becomes
<1> QED BY <1>10, <1>11, OneRun

LEMMA RefundStep == ASSUME RefundInv, Refund!Next PROVE RefundInv'
BY BeginStep, CalculateStep, CreateRefundStep, RecordRefundStep, BreakOffStep, AgainStep
   DEF Refund!Next

\* What RefundsAddUp says follows.
LEMMA RefundsMatch == ASSUME RefundInv PROVE Refund!RefundsAddUp
<1> SUFFICES ASSUME NEW j \in Jobs, NEW k \in DOMAIN refundJob[j].entries
             PROVE  /\ refunds[j][k] = records[j][k] + lost[j][k]
                                         + (IF Refund!InRecord(j, k) THEN 1 ELSE 0)
                    /\ refunds[j][k] =< refundJob[j].runs
                    /\ refundJob[j].pc = "done" /\ ~Manual(refundJob[j], k)
                         => records[j][k] > 0
                    /\ Manual(refundJob[j], k) => refunds[j][k] = 0
  BY DEF Refund!RefundsAddUp, Manual
<1>1. RunHolds(refundJob[j], refunds[j], records[j], lost[j])
  BY Unchanged
<1>2. k \in Refund!Positions
  BY <1>1, Entries DEF RunHolds, RunTypes, RunType
<1> QED BY <1>1, <1>2
      DEF RunHolds, AddUp, OncePerRun, Passed, NoneManual, Refund!InRecord

----------------------------------------------------------------------------
(* What a return is worth.                                                 *)

\* The sums of RefundAmounts are those of Sums.
LEMMA TotalIsSum == ASSUME NEW f, NEW S, DOMAIN f = S PROVE Amounts!Total(f) = Sum(f, S)
BY DEF Amounts!Total, Amounts!Sum, Amounts!MapThenSumSet, Amounts!MapThenFoldSet, Sum,
       MapThenSumSet, MapThenFoldSet

\* A smaller summand gives a smaller sum.
LEMMA SumBelow ==
  ASSUME NEW S, IsFiniteSet(S), NEW f, NEW g,
         \A x \in S : f[x] \in Nat /\ g[x] \in Nat /\ f[x] =< g[x]
  PROVE  Sum(f, S) =< Sum(g, S)
<1>1. PICK d : d = [x \in S |-> g[x] - f[x]]
  OBVIOUS
<1>2. \A x \in S : f[x] \in Nat /\ d[x] \in Nat /\ g[x] = f[x] + d[x]
  BY <1>1
<1>3. Sum(g, S) = Sum(f, S) + Sum(d, S)
  BY <1>2, SumPlus
<1>4. Sum(f, S) \in Nat /\ Sum(d, S) \in Nat
  BY <1>2, SumType
<1> QED BY <1>3, <1>4

\* A common factor.
LEMMA SumTimes ==
  ASSUME NEW S, IsFiniteSet(S), NEW c \in Nat, NEW f, NEW g,
         \A x \in S : g[x] \in Nat /\ f[x] = c * g[x]
  PROVE  Sum(f, S) = c * Sum(g, S)
<1>1. PICK h : h = [x \in S |-> x]
  OBVIOUS
<1>2. Scales(f, S, c, g, S, h)
  BY <1>1 DEF Scales
<1> QED BY <1>2, SumImage

\* A product divided by one of its factors.
LEMMA DivExact == ASSUME NEW a \in Nat, NEW n \in Nat, n > 0 PROVE (a * n) \div n = a
<1>1. \A m \in Nat : m \div n \in Int /\ n * (m \div n) =< m /\ m < n * (m \div n) + n
  OBVIOUS
<1>2. a * n \in Nat
  OBVIOUS
<1>3. PICK q \in Int : q = (a * n) \div n
  BY <1>1, <1>2
<1>4. n * q =< a * n /\ a * n < n * q + n
  BY <1>1, <1>2, <1>3
<1>5. ~(q >= a + 1)
  <2> SUFFICES ASSUME q >= a + 1 PROVE FALSE
    OBVIOUS
  <2>1. n * q >= n * (a + 1) /\ n * (a + 1) = a * n + n
    OBVIOUS
  <2> QED BY <1>2, <1>4, <2>1
<1>6. ~(q + 1 =< a)
  <2> SUFFICES ASSUME q + 1 =< a PROVE FALSE
    OBVIOUS
  <2>1. n * (q + 1) =< n * a /\ n * (q + 1) = n * q + n /\ n * a = a * n
    OBVIOUS
  <2> QED BY <1>2, <1>4, <2>1
<1> QED BY <1>3, <1>5, <1>6

----------------------------------------------------------------------------
\* What the order is, and what is requested of it.
Requested == Amounts!Requested
Kept == known \cap Requested
Item(i) == [sku |-> i, quantity |-> returned[i], unitPrice |-> price[i],
            unitTax |-> pieceTax, totalTax |-> pieceTax * returned[i]]
Items(S) == {Item(i) : i \in S}

AmountsInv == Amounts!Init

LEMMA OrderFacts ==
  ASSUME AmountsInv
  PROVE  /\ IsFiniteSet(Shops) /\ known \subseteq Shops /\ Requested \subseteq Shops
         /\ IsFiniteSet(known) /\ IsFiniteSet(Requested) /\ IsFiniteSet(Kept)
         /\ pieceTax \in Nat /\ pieceDiscount \in Nat /\ shippingCost \in Nat
         /\ \A i \in Shops : /\ price[i] \in Nat /\ pieceDiscount =< price[i]
                             /\ quantity[i] \in Nat /\ quantity[i] > 0
                             /\ returned[i] \in Nat /\ returned[i] =< quantity[i]
         /\ \A i \in Requested : returned[i] > 0
<1>1. /\ pieceTax \in Nat /\ pieceDiscount \in Nat /\ shippingCost \in Nat /\ MaxQuantity \in Nat
      /\ \A p \in Prices : p \in Nat /\ pieceDiscount =< p
  BY AmountsAssumption DEF Amounts!ConstantsFit
<1>2. /\ price \in [Shops -> Prices] /\ quantity \in [Shops -> 1..MaxQuantity]
      /\ returned \in [Shops -> 0..MaxQuantity] /\ \A i \in Shops : returned[i] =< quantity[i]
      /\ known \subseteq Shops
  BY DEF AmountsInv, Amounts!Init
<1>3. Requested \subseteq Shops /\ \A i \in Requested : returned[i] > 0
  BY DEF Requested, Amounts!Requested
<1>4. IsFiniteSet(Shops) /\ IsFiniteSet(known) /\ IsFiniteSet(Requested) /\ IsFiniteSet(Kept)
  BY <1>2, <1>3, AmountsAssumption, FS_Subset DEF Kept
<1>5. \A i \in Shops : price[i] \in Prices /\ quantity[i] \in 1..MaxQuantity
                       /\ returned[i] \in 0..MaxQuantity
  BY <1>2
<1> QED BY <1>1, <1>2, <1>3, <1>4, <1>5

\* A sum over what a function gives is one over what it is given.
LEMMA OverImage ==
  ASSUME NEW S, IsFiniteSet(S), NEW h, \A i, j \in S : h[i] = h[j] => i = j,
         NEW T, T = {h[i] : i \in S}, NEW f, NEW g,
         \A i \in S : f[h[i]] \in Nat /\ g[i] = f[h[i]]
  PROVE  Sum(f, T) = Sum(g, S)
<1>1. \A n \in Nat : 1 * n = n
  OBVIOUS
<1>2. \A i \in S : f[h[i]] \in Nat /\ g[i] = 1 * f[h[i]]
  BY <1>1
<1>3. Scales(g, S, 1, f, T, h)
  BY <1>2 DEF Scales
<1>4. Sum(g, S) = 1 * Sum(f, T) /\ IsFiniteSet(T)
  BY <1>3, SumImage
<1>5. \A x \in T : f[x] \in Nat
  OBVIOUS
<1>6. Sum(f, T) \in Nat
  BY <1>4, <1>5, SumType
<1> QED BY <1>1, <1>4, <1>6

\* The items of a refund, and the lines of a request.
LEMMA OverItems ==
  ASSUME NEW S, IsFiniteSet(S), NEW f, NEW g,
         \A i \in S : f[Item(i)] \in Nat /\ g[i] = f[Item(i)]
  PROVE  Sum(f, Items(S)) = Sum(g, S)
<1>1. PICK h : h = [i \in S |-> Item(i)]
  OBVIOUS
<1>2. \A i, j \in S : h[i] = h[j] => i = j
  BY <1>1 DEF Item
<1>3. Items(S) = {h[i] : i \in S}
  BY <1>1 DEF Items
<1>4. \A i \in S : f[h[i]] \in Nat /\ g[i] = f[h[i]]
  BY <1>1
<1> QED BY <1>2, <1>3, <1>4, OverImage

Line(i) == [lineItem |-> i, quantity |-> returned[i]]
Lines(S) == {Line(i) : i \in S}

LEMMA OverLines ==
  ASSUME NEW S, IsFiniteSet(S), NEW f, NEW g,
         \A i \in S : f[Line(i)] \in Nat /\ g[i] = f[Line(i)]
  PROVE  Sum(f, Lines(S)) = Sum(g, S)
<1>1. PICK h : h = [i \in S |-> Line(i)]
  OBVIOUS
<1>2. \A i, j \in S : h[i] = h[j] => i = j
  BY <1>1 DEF Line
<1>3. Lines(S) = {h[i] : i \in S}
  BY <1>1 DEF Lines
<1>4. \A i \in S : f[h[i]] \in Nat /\ g[i] = f[h[i]]
  BY <1>1
<1> QED BY <1>2, <1>3, <1>4, OverImage

----------------------------------------------------------------------------
\* What the pieces of each item come to.
Listed == [i \in Shops |-> price[i] * returned[i]]
Ordered == [i \in Shops |-> price[i] * quantity[i]]
TaxOf == [i \in Shops |-> pieceTax * returned[i]]
LineTax == [i \in Shops |-> pieceTax * quantity[i]]
Off == [i \in Shops |-> pieceDiscount * returned[i]]
Net == [i \in Shops |-> (price[i] - pieceDiscount) * returned[i]]

LEMMA PieceFacts ==
  ASSUME AmountsInv, NEW i \in Shops
  PROVE  /\ Listed[i] = price[i] * returned[i] /\ Listed[i] \in Nat
         /\ Listed[i] = returned[i] * price[i]
         /\ Ordered[i] = price[i] * quantity[i] /\ Ordered[i] \in Nat
         /\ TaxOf[i] = pieceTax * returned[i] /\ TaxOf[i] \in Nat
         /\ LineTax[i] = pieceTax * quantity[i] /\ LineTax[i] \in Nat
         /\ Off[i] = pieceDiscount * returned[i] /\ Off[i] \in Nat
         /\ Net[i] = (price[i] - pieceDiscount) * returned[i] /\ Net[i] \in Nat
         /\ TaxOf[i] =< LineTax[i] /\ Listed[i] = Net[i] + Off[i]
         /\ LineTax[i] \div quantity[i] = pieceTax
         /\ i \in Requested => TaxOf[i] \div returned[i] = pieceTax
<1> PICK p, q, r, t, d : p = price[i] /\ q = quantity[i] /\ r = returned[i] /\ t = pieceTax
                         /\ d = pieceDiscount
  OBVIOUS
<1>1. /\ p \in Nat /\ q \in Nat /\ r \in Nat /\ t \in Nat /\ d \in Nat
      /\ d =< p /\ r =< q /\ q > 0 /\ (i \in Requested => r > 0)
  BY OrderFacts
<1>2. p * r \in Nat /\ p * r = r * p /\ p * q \in Nat /\ t * r \in Nat /\ t * q \in Nat
      /\ d * r \in Nat
  BY <1>1
<1>3. p - d \in Nat
  BY <1>1
<1>4. (p - d) * r \in Nat /\ p * r = (p - d) * r + d * r
  BY <1>1, <1>3
<1>5. t * r =< t * q
  <2>1. q - r \in Nat
    BY <1>1
  <2>2. t * (q - r) \in Nat /\ t * q = t * r + t * (q - r)
    BY <1>1, <2>1
  <2> QED BY <1>2, <2>2
<1>6. (t * q) \div q = t /\ (r > 0 => (t * r) \div r = t)
  BY <1>1, DivExact
<1>7. /\ Listed[i] = p * r /\ Ordered[i] = p * q /\ TaxOf[i] = t * r /\ LineTax[i] = t * q
      /\ Off[i] = d * r /\ Net[i] = (p - d) * r
  BY DEF Listed, Ordered, TaxOf, LineTax, Off, Net
<1> QED BY <1>1, <1>2, <1>4, <1>5, <1>6, <1>7

\* The tax of the returned pieces.
LEMMA TaxOfItems ==
  ASSUME AmountsInv, NEW S \in SUBSET Shops
  PROVE  Amounts!Total([x \in Items(S) |-> x.totalTax]) = Sum(TaxOf, S)
<1> PICK f : f = [x \in Items(S) |-> x.totalTax]
  OBVIOUS
<1>1. ASSUME NEW i \in S PROVE f[Item(i)] \in Nat /\ TaxOf[i] = f[Item(i)]
  <2>1. f[Item(i)] = pieceTax * returned[i]
    BY DEF Items, Item
  <2> QED BY <2>1, PieceFacts
<1>2. IsFiniteSet(S)
  BY OrderFacts, FS_Subset
<1>3. Sum(f, Items(S)) = Sum(TaxOf, S)
  BY <1>1, <1>2, OverItems
<1> QED BY <1>3, TotalIsSum

\* What the middleware calculates.
LEMMA OwnSums ==
  ASSUME AmountsInv
  PROVE  /\ Amounts!OwnRefund.refundOrderItems = Items(Kept)
         /\ Amounts!OwnRefund.lineItemsTotal = Sum(Listed, Kept)
         /\ Amounts!OwnRefund.lineItemsTotalTax = Sum(LineTax, Kept)
         /\ Amounts!OwnRefund.discountTotal = pieceDiscount * Sum(returned, Kept)
         /\ Amounts!OwnRefund.total =
              Sum(Ordered, known) - pieceDiscount * Sum(quantity, known)
                + (IF refundShipping THEN shippingCost ELSE 0)
<1> USE DEF Requested
<1>1. Amounts!returnOrderItems = Kept /\ Kept \subseteq Shops
  BY OrderFacts DEF Amounts!returnOrderItems, Kept
<1>2. ASSUME NEW i \in Kept PROVE Amounts!RefundOrderItem(i) = Item(i)
  <2>1. Amounts!unitTax(i) = pieceTax
    BY <1>1, PieceFacts DEF Amounts!unitTax, Amounts!taxAmount
  <2> QED BY <2>1 DEF Amounts!RefundOrderItem, Item
<1>3. {Amounts!RefundOrderItem(i) : i \in Kept} = Items(Kept)
  BY <1>2 DEF Items
<1>4. Amounts!Total([i \in Kept |-> returned[i] * price[i]]) = Sum(Listed, Kept)
  <2> PICK f : f = [i \in Kept |-> returned[i] * price[i]]
    OBVIOUS
  <2>1. \A i \in Kept : f[i] = Listed[i]
    BY <1>1, PieceFacts
  <2> QED BY <2>1, TotalIsSum, SumSame, OrderFacts
<1>5. Amounts!Total([i \in Kept |-> Amounts!taxAmount(i)]) = Sum(LineTax, Kept)
  <2> PICK f : f = [i \in Kept |-> Amounts!taxAmount(i)]
    OBVIOUS
  <2>1. \A i \in Kept : f[i] = LineTax[i]
    BY <1>1, PieceFacts DEF Amounts!taxAmount
  <2> QED BY <2>1, TotalIsSum, SumSame, OrderFacts
<1>6. Amounts!Total([i \in Kept |-> returned[i]]) = Sum(returned, Kept)
  <2> PICK f : f = [i \in Kept |-> returned[i]]
    OBVIOUS
  <2>1. \A i \in Kept : f[i] = returned[i]
    OBVIOUS
  <2> QED BY <2>1, TotalIsSum, SumSame, OrderFacts
<1>7. Amounts!totalOrderItemQuantity = Sum(quantity, known)
  <2> PICK f : f = [i \in known |-> quantity[i]]
    OBVIOUS
  <2>1. \A i \in known : f[i] = quantity[i]
    OBVIOUS
  <2>2. Amounts!totalOrderItemQuantity = Amounts!Total(f)
    BY DEF Amounts!totalOrderItemQuantity
  <2> QED BY <2>1, <2>2, TotalIsSum, SumSame, OrderFacts
<1>8. Amounts!Total([i \in known |-> price[i] * quantity[i]]) = Sum(Ordered, known)
  <2> PICK f : f = [i \in known |-> price[i] * quantity[i]]
    OBVIOUS
  <2>1. \A i \in known : f[i] = Ordered[i]
    BY OrderFacts, PieceFacts
  <2> QED BY <2>1, TotalIsSum, SumSame, OrderFacts
<1>9. Amounts!discountTotal = pieceDiscount * Sum(returned, Kept)
  <2>1. CASE Kept = {}
    <3>1. Amounts!discountTotal = 0 /\ Sum(returned, Kept) = 0
      BY <1>1, <2>1, SumEmpty DEF Amounts!discountTotal
    <3>2. pieceDiscount * 0 = 0
      BY OrderFacts
    <3> QED BY <3>1, <3>2
  <2>2. CASE Kept # {}
    <3> PICK i \in Kept : TRUE
      BY <2>2
    <3>1. i \in known /\ known \subseteq Shops /\ IsFiniteSet(known) /\ IsFiniteSet(known \ {i})
      BY OrderFacts, FS_Subset DEF Kept
    <3>2. \A k \in known : quantity[k] \in Nat /\ quantity[k] > 0
      BY OrderFacts
    <3>3. Sum(quantity, known) = quantity[i] + Sum(quantity, known \ {i})
      BY <3>1, <3>2, SumRemove
    <3>4. Sum(quantity, known \ {i}) \in Nat
      BY <3>1, <3>2, SumType
    <3>5. Sum(quantity, known) \in Nat /\ Sum(quantity, known) > 0
      BY <3>1, <3>2, <3>3, <3>4
    <3>6. Amounts!orderDiscount \div Amounts!totalOrderItemQuantity = pieceDiscount
      BY <1>7, <3>5, DivExact, OrderFacts DEF Amounts!orderDiscount
    <3> QED BY <1>1, <1>6, <2>2, <3>6 DEF Amounts!discountTotal
  <2> QED BY <2>1, <2>2
<1>10. /\ Sum(Ordered, known) \in Nat /\ pieceDiscount * Sum(quantity, known) \in Nat
       /\ shippingCost \in Nat
  <2>1. \A k \in known : Ordered[k] \in Nat /\ quantity[k] \in Nat
    BY OrderFacts, PieceFacts
  <2>2. Sum(Ordered, known) \in Nat /\ Sum(quantity, known) \in Nat
    BY <2>1, OrderFacts, SumType
  <2> QED BY <2>2, OrderFacts
<1>11. Amounts!orderTotal = Sum(Ordered, known) - pieceDiscount * Sum(quantity, known) + shippingCost
  BY <1>7, <1>8 DEF Amounts!orderTotal, Amounts!orderDiscount
<1>12. (IF refundShipping THEN Amounts!orderTotal ELSE Amounts!orderTotal - shippingCost)
         = Sum(Ordered, known) - pieceDiscount * Sum(quantity, known)
             + (IF refundShipping THEN shippingCost ELSE 0)
  BY <1>10, <1>11
<1> QED BY <1>1, <1>3, <1>4, <1>5, <1>9, <1>12 DEF Amounts!OwnRefund

\* What Shopify calculates and the connector makes of it.
LEMMA ShopSums ==
  ASSUME AmountsInv
  PROVE  /\ Amounts!ShopRefund.refundOrderItems = Items(Requested)
         /\ Amounts!ShopRefund.lineItemsTotal = Sum(Listed, Requested)
         /\ Amounts!ShopRefund.totalTax = Sum(TaxOf, Requested)
         /\ Amounts!ShopRefund.discountTotal = pieceDiscount * Sum(returned, Requested)
         /\ voucher = 0 => Amounts!ShopRefund.total =
              Sum(Net, Requested) + (IF refundShipping THEN shippingCost ELSE 0)
<1> DEFINE dto == Amounts!mapTo
           response == Amounts!suggestedRefund(dto)
           Priced(l) == [lineItem |-> l.lineItem, quantity |-> l.quantity,
                         price |-> price[l.lineItem], totalTax |-> pieceTax * l.quantity]
           Mapped(l) == [sku |-> l.lineItem, quantity |-> l.quantity, unitPrice |-> l.price,
                         unitTax |-> l.totalTax \div l.quantity, totalTax |-> l.totalTax]
           due2 == Amounts!Total([l \in dto.refundLineItems |->
                                    (price[l.lineItem] - pieceDiscount) * l.quantity])
                     + (IF dto.isRefundShipping THEN shippingCost ELSE 0)
<1>1. dto.isRefundShipping = refundShipping /\ dto.refundLineItems = Lines(Requested)
  BY DEF Amounts!mapTo, Lines, Line, Requested
<1>2. /\ response.refundLineItems = {Priced(l) : l \in dto.refundLineItems}
      /\ response.totalCartDiscountAmount =
           Amounts!Total([l \in dto.refundLineItems |-> pieceDiscount * l.quantity])
      /\ response.suggestedTransactions = IF voucher = 0 THEN <<due2>> ELSE <<voucher, due2 - voucher>>
  BY DEF Amounts!suggestedRefund
<1> HIDE DEF response
<1>3. {Mapped(l) : l \in response.refundLineItems} = Items(Requested)
  <2>1. ASSUME NEW i \in Requested PROVE Mapped(Priced(Line(i))) = Item(i)
    <3>1. i \in Shops /\ TaxOf[i] = pieceTax * returned[i] /\ TaxOf[i] \div returned[i] = pieceTax
      BY OrderFacts, PieceFacts
    <3> QED BY <3>1 DEF Line, Item
  <2>2. response.refundLineItems = {Priced(l) : l \in Lines(Requested)}
    BY <1>1, <1>2
  <2> HIDE DEF Mapped, Priced
  <2>3. {Mapped(l) : l \in response.refundLineItems} = {Mapped(Priced(Line(i))) : i \in Requested}
    BY <2>2 DEF Lines
  <2> QED BY <2>1, <2>3 DEF Items
<1>4. Amounts!Total([l \in Lines(Requested) |-> pieceDiscount * l.quantity])
        = pieceDiscount * Sum(returned, Requested)
  <2> PICK f : f = [l \in Lines(Requested) |-> pieceDiscount * l.quantity]
    OBVIOUS
  <2>1. ASSUME NEW i \in Requested PROVE f[Line(i)] \in Nat /\ Off[i] = f[Line(i)]
    <3>1. f[Line(i)] = pieceDiscount * returned[i]
      BY DEF Lines, Line
    <3>2. i \in Shops
      BY OrderFacts
    <3> QED BY <3>1, <3>2, PieceFacts
  <2>2. Sum(f, Lines(Requested)) = Sum(Off, Requested)
    BY <2>1, OverLines, OrderFacts
  <2>3. \A i \in Requested : returned[i] \in Nat /\ Off[i] = pieceDiscount * returned[i]
    BY OrderFacts, PieceFacts
  <2>4. IsFiniteSet(Requested) /\ pieceDiscount \in Nat
    BY OrderFacts
  <2>5. Sum(Off, Requested) = pieceDiscount * Sum(returned, Requested)
    BY <2>3, <2>4, SumTimes
  <2> QED BY <2>2, <2>5, TotalIsSum
<1>5. Amounts!Total([l \in Lines(Requested) |-> (price[l.lineItem] - pieceDiscount) * l.quantity])
        = Sum(Net, Requested)
  <2> PICK f : f = [l \in Lines(Requested) |-> (price[l.lineItem] - pieceDiscount) * l.quantity]
    OBVIOUS
  <2>1. ASSUME NEW i \in Requested PROVE f[Line(i)] \in Nat /\ Net[i] = f[Line(i)]
    <3>1. f[Line(i)] = (price[i] - pieceDiscount) * returned[i]
      BY DEF Lines, Line
    <3>2. i \in Shops
      BY OrderFacts
    <3> QED BY <3>1, <3>2, PieceFacts
  <2>2. Sum(f, Lines(Requested)) = Sum(Net, Requested)
    BY <2>1, OverLines, OrderFacts
  <2> QED BY <2>2, TotalIsSum
<1>6. Amounts!Total([x \in Items(Requested) |-> x.unitPrice * x.quantity]) = Sum(Listed, Requested)
  <2> PICK f : f = [x \in Items(Requested) |-> x.unitPrice * x.quantity]
    OBVIOUS
  <2>1. ASSUME NEW i \in Requested PROVE f[Item(i)] \in Nat /\ Listed[i] = f[Item(i)]
    <3>1. f[Item(i)] = price[i] * returned[i]
      BY DEF Items, Item
    <3>2. i \in Shops
      BY OrderFacts
    <3> QED BY <3>1, <3>2, PieceFacts
  <2>2. Sum(f, Items(Requested)) = Sum(Listed, Requested)
    BY <2>1, OverItems, OrderFacts
  <2> QED BY <2>2, TotalIsSum
<1>7. Amounts!Total([x \in Items(Requested) |-> x.totalTax]) = Sum(TaxOf, Requested)
  BY OrderFacts, TaxOfItems
<1>8. voucher = 0 => Head(response.suggestedTransactions)
                       = Sum(Net, Requested) + (IF refundShipping THEN shippingCost ELSE 0)
  <2>1. due2 = Sum(Net, Requested) + (IF refundShipping THEN shippingCost ELSE 0)
    BY <1>1, <1>5
  <2> HIDE DEF due2
  <2> SUFFICES ASSUME voucher = 0 PROVE Head(response.suggestedTransactions) = due2
    BY <2>1
  <2>2. response.suggestedTransactions = <<due2>>
    BY <1>2
  <2> QED BY <2>2
<1>9. /\ Amounts!ShopRefund.refundOrderItems = {Mapped(l) : l \in response.refundLineItems}
      /\ Amounts!ShopRefund.lineItemsTotal =
           Amounts!Total([x \in Items(Requested) |-> x.unitPrice * x.quantity])
      /\ Amounts!ShopRefund.totalTax = Amounts!Total([x \in Items(Requested) |-> x.totalTax])
      /\ Amounts!ShopRefund.discountTotal = response.totalCartDiscountAmount
      /\ Amounts!ShopRefund.total = Head(response.suggestedTransactions)
  BY <1>3 DEF Amounts!ShopRefund, Amounts!mapFrom, response
<1> QED BY <1>1, <1>2, <1>3, <1>4, <1>6, <1>7, <1>8, <1>9

\* The two calculations of an order that fits agree.
LEMMA AmountsAgree == ASSUME AmountsInv PROVE Amounts!CalculationsAgree
<1> PICK own, shop : own = Amounts!OwnRefund /\ shop = Amounts!ShopRefund
  OBVIOUS
<1>0. Amounts!Requested = Requested /\ Requested \subseteq Shops /\ known \subseteq Shops
      /\ IsFiniteSet(Kept) /\ Kept \subseteq Shops
  BY OrderFacts DEF Requested, Kept
<1>1. /\ own.refundOrderItems = Items(Kept) /\ own.lineItemsTotal = Sum(Listed, Kept)
      /\ own.lineItemsTotalTax = Sum(LineTax, Kept)
      /\ own.discountTotal = pieceDiscount * Sum(returned, Kept)
      /\ own.total = Sum(Ordered, known) - pieceDiscount * Sum(quantity, known)
                       + (IF refundShipping THEN shippingCost ELSE 0)
  BY OwnSums
<1>2. /\ shop.refundOrderItems = Items(Requested)
      /\ shop.lineItemsTotal = Sum(Listed, Requested)
      /\ shop.totalTax = Sum(TaxOf, Requested)
      /\ shop.discountTotal = pieceDiscount * Sum(returned, Requested)
      /\ voucher = 0 => shop.total =
           Sum(Net, Requested) + (IF refundShipping THEN shippingCost ELSE 0)
  BY ShopSums
<1>3. own.refundOrderItems = {x \in shop.refundOrderItems : x.sku \in known}
  <2>1. \A i : Item(i).sku = i
    BY DEF Item
  <2> QED BY <1>1, <1>2, <2>1 DEF Items, Kept
<1>4. Sum(TaxOf, Kept) =< Sum(LineTax, Kept)
  <2>1. \A i \in Kept : TaxOf[i] \in Nat /\ LineTax[i] \in Nat /\ TaxOf[i] =< LineTax[i]
    BY <1>0, PieceFacts
  <2> QED BY <1>0, <2>1, SumBelow
<1>5. Sum(TaxOf, Kept) \in Nat /\ Sum(LineTax, Kept) \in Nat
  <2>1. \A i \in Kept : TaxOf[i] \in Nat /\ LineTax[i] \in Nat
    BY <1>0, PieceFacts
  <2> QED BY <1>0, <2>1, SumType
<1>6. own.lineItemsTotalTax >= Amounts!Total([x \in own.refundOrderItems |-> x.totalTax])
  BY <1>0, <1>1, <1>4, <1>5, TaxOfItems
<1>7. ASSUME Requested \subseteq known
      PROVE  /\ own.lineItemsTotal = shop.lineItemsTotal
             /\ own.discountTotal = shop.discountTotal
             /\ shop.totalTax =< own.lineItemsTotalTax
  <2>1. Kept = Requested
    BY <1>7 DEF Kept
  <2> QED BY <1>1, <1>2, <1>4, <2>1
<1>8. ASSUME known = Shops, returned = quantity
      PROVE  /\ own.lineItemsTotalTax = shop.totalTax
             /\ voucher = 0 => own.total = shop.total
  <2>1. Requested = Shops /\ Kept = Shops
    BY <1>0, <1>8, OrderFacts DEF Kept, Requested, Amounts!Requested
  <2>2. \A i \in Shops : TaxOf[i] = LineTax[i] /\ Ordered[i] = Listed[i]
    BY <1>8 DEF TaxOf, LineTax, Ordered, Listed
  <2>3. Sum(TaxOf, Shops) = Sum(LineTax, Shops) /\ Sum(Ordered, Shops) = Sum(Listed, Shops)
    BY <2>2, SumSame, OrderFacts
  <2>4. \A i \in Shops : Net[i] \in Nat /\ Off[i] \in Nat /\ Listed[i] = Net[i] + Off[i]
                         /\ returned[i] \in Nat /\ Off[i] = pieceDiscount * returned[i]
    BY PieceFacts, OrderFacts
  <2>5. IsFiniteSet(Shops) /\ pieceDiscount \in Nat
    BY OrderFacts
  <2>6. Sum(Listed, Shops) = Sum(Net, Shops) + Sum(Off, Shops)
    BY <2>4, <2>5, SumPlus
  <2>7. Sum(Off, Shops) = pieceDiscount * Sum(quantity, Shops)
    BY <1>8, <2>4, <2>5, SumTimes
  <2>8. Sum(Net, Shops) \in Nat /\ Sum(Off, Shops) \in Nat /\ shippingCost \in Nat
    BY <2>4, <2>5, SumType, OrderFacts
  <2>9. own.total = Sum(Net, Shops) + (IF refundShipping THEN shippingCost ELSE 0)
    <3>1. Sum(Ordered, known) - pieceDiscount * Sum(quantity, known) = Sum(Net, Shops)
      BY <1>8, <2>3, <2>6, <2>7, <2>8
    <3> QED BY <1>1, <3>1
  <2> QED BY <1>1, <1>2, <2>1, <2>3, <2>9
<1> HIDE DEF AmountsInv
<1> QED BY <1>0, <1>3, <1>6, <1>7, <1>8 DEF Amounts!CalculationsAgree

----------------------------------------------------------------------------
RefundsInv ==
  /\ part = "refund" => RefundInv
  /\ part = "amounts" => AmountsInv

LEMMA RefundsStep == ASSUME RefundsInv, [ServicesNext]_servicesVars PROVE RefundsInv'
<1>1. part' = part
  BY DEF ServicesNext, servicesVars
<1>2. CASE part = "refund"
  <2>1. RefundInv
    BY <1>2 DEF RefundsInv
  <2>2. CASE UNCHANGED servicesVars
    BY <1>1, <1>2, <2>1, <2>2
       DEF RefundsInv, servicesVars, refundPart, RefundInv, RunHolds, RunTypes, AddUp, OncePerRun,
           Passed, NoneManual, Manual
  <2>3. CASE ServicesNext
    <3>1. Refund!Next
      BY <1>2, <2>3 DEF ServicesNext
    <3> QED BY <1>1, <1>2, <2>1, <3>1, RefundStep DEF RefundsInv
  <2> QED BY <2>2, <2>3
<1>3. CASE part = "amounts"
  <2>1. UNCHANGED amountsPart
    BY DEF ServicesNext, servicesVars
  <2> QED BY <1>1, <1>3, <2>1 DEF RefundsInv, AmountsInv, amountsPart, Amounts!Init
<1> QED BY <1>1, <1>2, <1>3 DEF RefundsInv

\* What is refunded at Shopify and what is recorded agree up to the writes that failed,
\* for every sequence of jobs, deliveries and breakdowns; and the two calculations of a
\* return agree, whatever the order is (shopify.service.ts:1966,
\* refund-orders/mappers/refund-order.mapper.ts:46).
THEOREM RefundsKept == ServicesSpec => []RefundsAreRecorded
<1>1. ServicesInit => RefundsInv
  <2> SUFFICES ASSUME ServicesInit PROVE RefundsInv
    OBVIOUS
  <2>1. /\ part = "refund" => Refund!Init
        /\ part = "amounts" => Amounts!Init
    BY DEF ServicesInit
  <2> QED BY <2>1, RefundBegins DEF RefundsInv, AmountsInv
<1>2. RefundsInv /\ [ServicesNext]_servicesVars => RefundsInv'
  BY RefundsStep
<1>3. RefundsInv => RefundsAreRecorded
  BY RefundsMatch, AmountsAgree DEF RefundsInv, RefundsAreRecorded
<1> QED BY <1>1, <1>2, <1>3, PTL DEF ServicesSpec

----------------------------------------------------------------------------
(* Payloads of retried messages.                                           *)

\* A list of n different things.
DistinctList(s, n) ==
  n \in Nat /\ DOMAIN s = 1..n /\ s = [i \in 1..n |-> s[i]] /\ IsInjective(s)

\* There are as many of them as it is long ...
LEMMA DistinctSize ==
  ASSUME NEW n, NEW s, DistinctList(s, n)
  PROVE  IsFiniteSet(Range(s)) /\ Cardinality(Range(s)) = n
<1>1. s \in Bijection(1..n, Range(s))
  BY DEF DistinctList, Bijection, Injection, Surjection, IsInjective, Range
<1>2. n \in Nat /\ IsFiniteSet(1..n) /\ Cardinality(1..n) = n
  BY FS_Interval DEF DistinctList
<1>3. ExistsBijection(1..n, Range(s))
  BY <1>1 DEF ExistsBijection
<1> QED BY <1>2, <1>3, FS_Bijection

\* ... so that of two such lists, one part of the other, length decides.
LEMMA SameSize ==
  ASSUME NEW m, NEW s, DistinctList(s, m), NEW n, NEW t, DistinctList(t, n),
         Range(t) \subseteq Range(s)
  PROVE  m = n <=> Range(s) = Range(t)
<1>1. IsFiniteSet(Range(s)) /\ Cardinality(Range(s)) = m
  BY DistinctSize
<1>2. IsFiniteSet(Range(t)) /\ Cardinality(Range(t)) = n
  BY DistinctSize
<1> QED BY <1>1, <1>2, FS_Subset

\* A loop that pushes v[k] for the k that are kept.
Pushes(p, n, keep, v) ==
  p = [k \in 0..n |-> IF k = 0 THEN <<>>
                      ELSE IF k \in keep THEN Append(p[k - 1], v[k]) ELSE p[k - 1]]

LEMMA PushesExists ==
  ASSUME NEW n \in Nat, NEW keep, NEW v
  PROVE  \E p : Pushes(p, n, keep, v)
<1> DEFINE Bad == {m \in Nat : ~ \E p : Pushes(p, m, keep, v)}
<1>1. Bad = {}
  <2> SUFFICES ASSUME Bad # {} PROVE FALSE
    OBVIOUS
  <2>1. PICK m \in Bad : \A l \in Bad : m =< l
    BY LeastNat
  <2>2. m # 0
    <3>1. PICK p : p = [k \in 0..0 |-> <<>>]
      OBVIOUS
    <3>2. \A k \in 0..0 : k = 0
      OBVIOUS
    <3>3. Pushes(p, 0, keep, v)
      BY <3>1, <3>2 DEF Pushes
    <3> QED BY <3>3
  <2>3. m \in Nat /\ m - 1 \in Nat /\ m - 1 \notin Bad
    <3>1. m \in Nat /\ \A l \in Bad : m =< l
      BY <2>1
    <3> HIDE DEF Bad
    <3> QED BY <2>2, <3>1
  <2>4. PICK p : Pushes(p, m - 1, keep, v)
    BY <2>3
  <2>5. PICK q : q = [k \in 0..m |-> IF k # m THEN p[k]
                         ELSE IF m \in keep THEN Append(p[m - 1], v[m]) ELSE p[m - 1]]
    OBVIOUS
  <2>6. ASSUME NEW k \in 0..m
        PROVE  q[k] = IF k = 0 THEN <<>>
                      ELSE IF k \in keep THEN Append(q[k - 1], v[k]) ELSE q[k - 1]
    <3>1. k # 0 => k - 1 \in 0..m /\ k - 1 # m
      BY <2>3
    <3>2. CASE k = m
      BY <2>2, <2>5, <3>1, <3>2
    <3>3. CASE k # m
      <4>1. k \in 0..(m - 1)
        BY <2>3, <3>3
      <4>2. p[k] = IF k = 0 THEN <<>>
                   ELSE IF k \in keep THEN Append(p[k - 1], v[k]) ELSE p[k - 1]
        BY <2>4, <4>1 DEF Pushes
      <4>3. q[k] = p[k] /\ (k # 0 => q[k - 1] = p[k - 1])
        BY <2>5, <3>1, <3>3
      <4> QED BY <4>2, <4>3
    <3> QED BY <3>2, <3>3
  <2>7. q = [k \in 0..m |-> q[k]]
    BY <2>5
  <2>8. Pushes(q, m, keep, v)
    BY <2>6, <2>7 DEF Pushes
  <2> QED BY <2>1, <2>8
<1> QED BY <1>1

\* What it has pushed.
Pushed(s, k, keep, v, S) ==
  /\ s \in Seq(S) /\ IsInjective(s)
  /\ \A x : x \in Range(s) <=> \E j \in keep : j =< k /\ x = v[j]

LEMMA PushesAll ==
  ASSUME NEW n \in Nat, NEW keep \in SUBSET (1..n), NEW v, NEW S, NEW p, Pushes(p, n, keep, v),
         \A k \in keep : v[k] \in S,
         \A j, k \in keep : v[j] = v[k] => j = k
  PROVE  Pushed(p[n], n, keep, v, S)
<1> DEFINE Bad == {k \in 0..n : ~ Pushed(p[k], k, keep, v, S)}
<1>1. Bad = {}
  <2> SUFFICES ASSUME Bad # {} PROVE FALSE
    OBVIOUS
  <2>1. PICK k \in Bad : \A l \in Bad : k =< l
    <3>1. Bad \in SUBSET Nat
      OBVIOUS
    <3> HIDE DEF Bad
    <3> QED BY <3>1, LeastNat
  <2>2. k \in 0..n /\ ~ Pushed(p[k], k, keep, v, S)
    BY <2>1
  <2>3. p[k] = IF k = 0 THEN <<>> ELSE IF k \in keep THEN Append(p[k - 1], v[k]) ELSE p[k - 1]
    BY <2>2 DEF Pushes
  <2>4. k # 0
    <3> SUFFICES ASSUME k = 0 PROVE FALSE
      OBVIOUS
    <3>1. p[k] = <<>> /\ \A j \in keep : ~(j =< k)
      BY <2>3
    <3> QED BY <2>2, <3>1 DEF Pushed, IsInjective, Range
  <2>5. k - 1 \in 0..n /\ Pushed(p[k - 1], k - 1, keep, v, S)
    <3>1. \A l \in Bad : k =< l
      BY <2>1
    <3>2. k - 1 \in 0..n /\ ~(k =< k - 1)
      BY <2>2, <2>4
    <3>3. k - 1 \notin Bad
      BY <3>1, <3>2
    <3> QED BY <3>2, <3>3
  <2> HIDE DEF Bad
  <2> PICK s : s = p[k - 1]
    OBVIOUS
  <2>6. s \in Seq(S) /\ IsInjective(s) /\ \A x : x \in Range(s) <=> \E j \in keep : j =< k - 1 /\ x = v[j]
    BY <2>5 DEF Pushed
  <2>7. \A j \in keep : j \in Int /\ (j =< k <=> j =< k - 1 \/ j = k)
    BY <2>2
  <2>8. CASE k \notin keep
    BY <2>2, <2>3, <2>4, <2>6, <2>7, <2>8 DEF Pushed
  <2>9. CASE k \in keep
    <3>1. v[k] \in S /\ v[k] \notin Range(s)
      BY <2>6, <2>7, <2>9
    <3>2. PICK t : t = Append(s, v[k])
      OBVIOUS
    <3>3. t \in Seq(S) /\ Len(s) \in Nat /\ DOMAIN s = 1..Len(s) /\ DOMAIN t = 1..(Len(s) + 1)
          /\ t[Len(s) + 1] = v[k] /\ \A i \in 1..Len(s) : t[i] = s[i]
      BY <2>6, <3>1, <3>2
    <3>4. \A x : x \in Range(t) <=> x \in Range(s) \/ x = v[k]
      BY <3>3 DEF Range
    <3>5. IsInjective(t)
      <4>1. \A i \in 1..Len(s) : s[i] # v[k]
        BY <3>1, <3>3 DEF Range
      <4>2. \A i, j \in 1..Len(s) : s[i] = s[j] => i = j
        BY <2>6, <3>3 DEF IsInjective
      <4>3. ASSUME NEW i \in DOMAIN t, NEW j \in DOMAIN t, t[i] = t[j] PROVE i = j
        <5>1. /\ i \in 1..Len(s) \/ i = Len(s) + 1
              /\ j \in 1..Len(s) \/ j = Len(s) + 1
          BY <3>3, <4>3
        <5> QED BY <5>1, <4>1, <4>2, <4>3, <3>3
      <4> QED BY <4>3 DEF IsInjective
    <3>6. \A x : x \in Range(t) <=> \E j \in keep : j =< k /\ x = v[j]
      BY <2>6, <2>7, <2>9, <3>4
    <3> QED BY <2>2, <2>3, <2>4, <2>9, <3>2, <3>3, <3>5, <3>6 DEF Pushed
  <2> QED BY <2>8, <2>9
<1>2. n \in 0..n
  OBVIOUS
<1> QED BY <1>1, <1>2

\* A list of different ids, as the payloads have them.
Distinct(s) == s \in Seq(ItemIds) /\ DistinctList(s, Len(s))

LEMMA ListsDistinct == ASSUME NEW s \in Policy!DistinctLists PROVE Distinct(s)
<1>1. PICK n \in 0..MaxLen : s \in [1..n -> ItemIds]
  BY DEF Policy!DistinctLists, Policy!Lists
<1>2. n \in Nat
  BY PolicyAssumption
<1>3. IsInjective(s)
  BY DEF Policy!DistinctLists, Policy!IsInjective, IsInjective
<1> QED BY <1>1, <1>2, <1>3 DEF Distinct, DistinctList

LEMMA EmptyDistinct == Distinct(<<>>)
BY DEF Distinct, DistinctList, IsInjective

\* Comparing lengths and looking up ids is comparing sets.
LEMMA SameIdsSame ==
  ASSUME NEW s, NEW t, Distinct(s), Distinct(t), Range(t) \subseteq Range(s)
  PROVE  Policy!SameIds(s, t) <=> Range(s) = Range(t)
<1>1. Len(s) = Len(t) <=> Range(s) = Range(t)
  BY SameSize DEF Distinct
<1>2. Policy!Range(s) = Range(s) /\ Policy!Range(t) = Range(t)
  BY DEF Policy!Range, Range
<1>3. Policy!SameIds(s, t) <=> Len(s) = Len(t) /\ Policy!Range(t) \subseteq Policy!Range(s)
  BY DEF Policy!SameIds
<1> QED BY <1>1, <1>2, <1>3

\* The loop of sendCancelledOrdersToShop that reports the refund orders.
LEMMA FailedRefundsPush ==
  ASSUME NEW s, NEW r, Distinct(s)
  PROVE  LET mapping == Policy!getCustomerOrderIdToRefundOrderMapping(r)
             keep == {k \in 1..Len(s) : number[s[k]] \in DOMAIN mapping}
             v == [k \in 1..Len(s) |-> mapping[number[s[k]]]]
         IN \E p : Pushes(p, Len(s), keep, v) /\ Policy!FailedRefunds(s, r) = p[Len(s)]
<1> DEFINE mapping == Policy!getCustomerOrderIdToRefundOrderMapping(r)
           keep == {k \in 1..Len(s) : number[s[k]] \in DOMAIN mapping}
           v == [k \in 1..Len(s) |-> mapping[number[s[k]]]]
           Loop(p) == p = [k \in 0..Len(s) |->
                             IF k = 0 THEN <<>>
                             ELSE IF number[s[k]] \in DOMAIN mapping
                               THEN Append(p[k - 1], mapping[number[s[k]]])
                             ELSE p[k - 1]]
<1>1. Policy!FailedRefunds(s, r) = (CHOOSE p : Loop(p))[Len(s)]
  BY DEF Policy!FailedRefunds, Policy!getCustomerIdWithoutSuffix
<1>2. PICK q : Pushes(q, Len(s), keep, v)
  BY PushesExists DEF Distinct, DistinctList
<1>3. \A k \in 0..Len(s) : k # 0 => k \in 1..Len(s)
  BY DEF Distinct, DistinctList
<1>4. \A p : Loop(p) <=> Pushes(p, Len(s), keep, v)
  <2> SUFFICES ASSUME NEW p
               PROVE  [k \in 0..Len(s) |->
                             IF k = 0 THEN <<>>
                             ELSE IF number[s[k]] \in DOMAIN mapping
                               THEN Append(p[k - 1], mapping[number[s[k]]])
                             ELSE p[k - 1]]
                       = [k \in 0..Len(s) |-> IF k = 0 THEN <<>>
                      ELSE IF k \in keep THEN Append(p[k - 1], v[k]) ELSE p[k - 1]]
    BY DEF Pushes
  <2> HIDE DEF mapping
  <2> QED BY <1>3
<1> HIDE DEF Loop, mapping, keep, v
<1>5. Loop(CHOOSE p : Loop(p))
  BY <1>2, <1>4
<1> QED BY <1>1, <1>4, <1>5 DEF mapping, keep, v

\* The payloads of an event and of its failure fit together.
PolicyInv == Policy!Init

LEMMA PayloadFacts ==
  ASSUME PolicyInv
  PROVE  /\ kind \in Policy!RetriedKinds
         /\ Distinct(old.ids) /\ Distinct(old.more) /\ Distinct(curr.ids)
         /\ Range(curr.ids) \subseteq Range(old.ids)
         /\ kind # "cancel_order_Shop" =>
              Distinct(curr.more) /\ Range(curr.more) \subseteq Range(old.more)
         /\ kind \notin Policy!PairKinds => old.more = curr.more
         /\ kind = "cancel_order_Shop" =>
              /\ Range(old.more) \subseteq Range(old.ids)
              /\ curr.more = Policy!FailedRefunds(curr.ids, old.more)
<1>1. /\ kind \in Policy!RetriedKinds /\ old \in Policy!Payloads(kind)
      /\ kind = "cancel_order_Shop" => Policy!Cancellation(old)
      /\ curr \in Policy!Failures(old)
  BY DEF PolicyInv, Policy!Init
<1>2. \A m \in Policy!Payloads(kind) : m.ids \in Policy!DistinctLists
                                       /\ (m.more \in Policy!DistinctLists \/ m.more = <<>>)
  BY DEF Policy!Payloads
<1>3. \A m \in Policy!Payloads(kind) : Distinct(m.ids) /\ Distinct(m.more)
  BY <1>2, ListsDistinct, EmptyDistinct
<1>4. \A s : Policy!Range(s) = Range(s)
  BY DEF Policy!Range, Range
<1>5. CASE kind = "cancel_order_Shop"
  <2>1. PICK failed \in Policy!DistinctLists :
          /\ Policy!Range(failed) \subseteq Policy!Range(old.ids)
          /\ curr = [ids |-> failed, more |-> Policy!FailedRefunds(failed, old.more)]
    BY <1>1, <1>5 DEF Policy!Failures
  <2>2. curr.ids = failed /\ curr.more = Policy!FailedRefunds(curr.ids, old.more)
    BY <2>1
  <2>3. Distinct(curr.ids)
    BY <2>1, <2>2, ListsDistinct
  <2>4. Policy!Range(old.more) \subseteq Policy!Range(old.ids)
    BY <1>1, <1>5 DEF Policy!Cancellation
  <2>5. kind \in Policy!PairKinds
    BY <1>5 DEF Policy!PairKinds
  <2> QED BY <1>1, <1>3, <1>4, <1>5, <2>1, <2>2, <2>3, <2>4, <2>5
<1>6. CASE kind # "cancel_order_Shop"
  <2>1. /\ curr \in Policy!Payloads(kind)
        /\ Policy!Range(curr.ids) \subseteq Policy!Range(old.ids)
        /\ Policy!Range(curr.more) \subseteq Policy!Range(old.more)
    BY <1>1, <1>6 DEF Policy!Failures
  <2>2. kind \notin Policy!PairKinds => old.more = curr.more
    BY <1>1, <2>1 DEF Policy!Payloads
  <2> QED BY <1>1, <1>3, <1>4, <1>6, <2>1, <2>2
<1> QED BY <1>5, <1>6

\* If no two orders of a cancellation are of one shop order, what is reported are the
\* refund orders of the orders that failed, each once.
LEMMA RefundsOfFailed ==
  ASSUME PolicyInv, kind = "cancel_order_Shop", ~Policy!SharedNumber
  PROVE  /\ Distinct(curr.more)
         /\ \A x : x \in Range(curr.more) <=> x \in Range(curr.ids) /\ x \in Range(old.more)
<1> PICK s, r, n : s = curr.ids /\ r = old.more /\ n = Len(s)
  OBVIOUS
<1>1. /\ Distinct(s) /\ Distinct(r) /\ Range(s) \subseteq Range(old.ids)
      /\ Range(r) \subseteq Range(old.ids) /\ curr.more = Policy!FailedRefunds(s, r)
  BY PayloadFacts
<1>2. n \in Nat /\ DOMAIN s = 1..n
  BY <1>1 DEF Distinct, DistinctList
<1>3. \A i, k \in Range(old.ids) : number[i] = number[k] => i = k
  BY DEF Policy!SharedNumber, Policy!Range, Range
<1>m. PICK mapping : mapping = Policy!getCustomerOrderIdToRefundOrderMapping(r)
  OBVIOUS
<1>4. \A y : y \in DOMAIN mapping <=> \E x \in Range(r) : number[x] = y
  BY <1>m DEF Policy!getCustomerOrderIdToRefundOrderMapping, Policy!getCustomerIdWithoutSuffix,
         Policy!Range, Range
<1>5. ASSUME NEW x \in Range(r) PROVE mapping[number[x]] = x
  <2> DEFINE at == {k \in DOMAIN r : number[r[k]] = number[x]}
  <2>1. mapping[number[x]] = r[Policy!Max(at)]
    BY <1>m, <1>4 DEF Policy!getCustomerOrderIdToRefundOrderMapping, Policy!getCustomerIdWithoutSuffix,
                Policy!Range, Range
  <2>2. PICK k \in DOMAIN r : r[k] = x
    BY DEF Range
  <2>3. at = {k} /\ k \in Nat
    <3>1. \A l \in at : r[l] = x
      BY <1>1, <1>3 DEF Range
    <3> QED BY <1>1, <2>2, <3>1 DEF Distinct, DistinctList, IsInjective
  <2> HIDE DEF at
  <2>4. Policy!Max(at) = k
    BY <2>3 DEF Policy!Max
  <2> QED BY <2>1, <2>2, <2>4
<1>k. PICK keep, v : /\ keep = {k \in 1..n : number[s[k]] \in DOMAIN mapping}
                   /\ v = [k \in 1..n |-> mapping[number[s[k]]]]
  OBVIOUS
<1>6. PICK p : Pushes(p, n, keep, v) /\ Policy!FailedRefunds(s, r) = p[n]
  BY <1>m, <1>k, <1>1, FailedRefundsPush
<1>7. \A k \in 1..n : /\ k \in keep <=> s[k] \in Range(r)
                      /\ k \in keep => v[k] = s[k]
  <2> SUFFICES ASSUME NEW k \in 1..n
               PROVE  /\ k \in keep <=> s[k] \in Range(r)
                      /\ k \in keep => v[k] = s[k]
    OBVIOUS
  <2>1. s[k] \in Range(old.ids)
    BY <1>1, <1>2 DEF Range
  <2>2. k \in keep <=> \E x \in Range(r) : number[x] = number[s[k]]
    BY <1>k, <1>4
  <2>3. \A x \in Range(r) : number[x] = number[s[k]] <=> x = s[k]
    BY <1>1, <1>3, <2>1
  <2>4. v[k] = mapping[number[s[k]]]
    BY <1>k
  <2> QED BY <1>5, <2>2, <2>3, <2>4
<1>8. /\ keep \in SUBSET (1..n) /\ \A k \in keep : v[k] \in ItemIds
      /\ \A j, k \in keep : v[j] = v[k] => j = k
  <2>1. \A k \in 1..n : s[k] \in ItemIds
    BY <1>1, <1>2 DEF Distinct, DistinctList
  <2>2. \A j, k \in 1..n : s[j] = s[k] => j = k
    BY <1>1, <1>2 DEF Distinct, DistinctList, IsInjective
  <2>3. keep \subseteq 1..n
    BY <1>k
  <2>4. \A k \in keep : v[k] = s[k] /\ s[k] \in ItemIds
    BY <1>7, <2>1, <2>3
  <2>5. ASSUME NEW j \in keep, NEW k \in keep, v[j] = v[k] PROVE j = k
    BY <2>2, <2>3, <2>4, <2>5
  <2> QED BY <2>3, <2>4, <2>5
<1>9. Pushed(p[n], n, keep, v, ItemIds)
  BY <1>2, <1>6, <1>8, PushesAll
<1>10. \A x : x \in Range(p[n]) <=> x \in Range(s) /\ x \in Range(r)
  <2>0. \A k \in keep : k \in 1..n /\ k =< n
    BY <1>2, <1>8
  <2>1. \A x : x \in Range(p[n]) <=> \E k \in keep : x = v[k]
    BY <2>0, <1>9 DEF Pushed
  <2>2. \A x : x \in Range(s) <=> \E k \in 1..n : x = s[k]
    BY <1>2 DEF Range
  <2>3. \A x : (\E k \in keep : x = v[k])
                 <=> (\E k \in 1..n : x = s[k]) /\ x \in Range(r)
    <3> SUFFICES ASSUME NEW x
                 PROVE  (\E k \in keep : x = v[k])
                          <=> (\E k \in 1..n : x = s[k]) /\ x \in Range(r)
      OBVIOUS
    <3>1. ASSUME NEW k \in keep, x = v[k] PROVE k \in 1..n /\ x = s[k] /\ x \in Range(r)
      BY <1>7, <2>0, <3>1
    <3>2. ASSUME NEW k \in 1..n, x = s[k], x \in Range(r) PROVE k \in keep /\ x = v[k]
      BY <1>7, <3>2
    <3> QED BY <3>1, <3>2
  <2> QED BY <2>1, <2>2, <2>3
<1>11. Distinct(p[n])
  BY <1>9 DEF Pushed, Distinct, DistinctList
<1> QED BY <1>1, <1>6, <1>10, <1>11

LEMMA PolicyMatches == ASSUME PolicyInv PROVE Policy!MatchMeansNoProgress
<1> PICK matched : matched = Policy!checkIfDataAndRetryInfoMatch(kind, old, curr)
  OBVIOUS
<1>1. /\ kind \in Policy!RetriedKinds
      /\ Distinct(old.ids) /\ Distinct(old.more) /\ Distinct(curr.ids)
      /\ Range(curr.ids) \subseteq Range(old.ids)
  BY PayloadFacts
<1>2. Policy!SameIds(old.ids, curr.ids) <=> Range(old.ids) = Range(curr.ids)
  BY <1>1, SameIdsSame
<1>3. Policy!SameWork <=> Range(old.ids) = Range(curr.ids) /\ Range(old.more) = Range(curr.more)
  BY DEF Policy!SameWork, Policy!Range, Range
<1>4. CASE kind = "cancel_order_Shop"
  <2>1. matched <=> /\ Policy!SameIds(old.ids, curr.ids)
                    /\ Policy!SameIds(old.more, curr.more)
    BY <1>4 DEF Policy!checkIfDataAndRetryInfoMatch, Policy!PairMatches, Policy!PairKinds,
                Policy!ArrayKinds, Policy!OrderKinds
  <2>2. CASE Policy!SharedNumber
    <3>1. matched => Policy!Range(old.ids) = Policy!Range(curr.ids)
      BY <1>2, <2>1 DEF Policy!Range, Range
    <3> QED BY <1>4, <2>2, <3>1 DEF Policy!MatchMeansNoProgress
  <2>3. CASE ~Policy!SharedNumber
    <3>1. Distinct(curr.more) /\ Range(curr.more) \subseteq Range(old.more)
          /\ Range(curr.more) = Range(curr.ids) \cap Range(old.more)
      BY <1>4, <2>3, RefundsOfFailed
    <3>2. Policy!SameIds(old.more, curr.more) <=> Range(old.more) = Range(curr.more)
      BY <1>1, <3>1, SameIdsSame
    <3>3. matched <=> Policy!SameWork
      BY <1>2, <1>3, <2>1, <3>2
    <3> QED BY <1>4, <2>3, <3>3 DEF Policy!MatchMeansNoProgress
  <2> QED BY <2>2, <2>3
<1>5. CASE kind # "cancel_order_Shop"
  <2> SUFFICES ASSUME kind \notin Policy!PlainKinds PROVE matched <=> Policy!SameWork
    BY <1>5 DEF Policy!MatchMeansNoProgress
  <2>1. Distinct(curr.more) /\ Range(curr.more) \subseteq Range(old.more)
    BY <1>5, PayloadFacts
  <2>2. Policy!SameIds(old.more, curr.more) <=> Range(old.more) = Range(curr.more)
    BY <1>1, <2>1, SameIdsSame
  <2>3. CASE kind \in Policy!PairKinds
    <3>1. matched <=> /\ Policy!SameIds(old.ids, curr.ids)
                      /\ Policy!SameIds(old.more, curr.more)
      BY <2>3 DEF Policy!checkIfDataAndRetryInfoMatch, Policy!PairMatches, Policy!PairKinds,
                  Policy!ArrayKinds, Policy!OrderKinds
    <3> QED BY <1>2, <1>3, <2>2, <3>1
  <2>4. CASE kind \notin Policy!PairKinds
    <3>1. kind \in Policy!ArrayKinds \cup Policy!OrderKinds
      BY <1>1, <2>4 DEF Policy!RetriedKinds
    <3>2. matched <=> Policy!SameIds(old.ids, curr.ids)
      BY <3>1 DEF Policy!checkIfDataAndRetryInfoMatch, Policy!ArrayMatches, Policy!ShipmentsMatch,
                  Policy!ArrayKinds, Policy!OrderKinds, Policy!PairKinds
    <3>3. old.more = curr.more
      BY <2>4, PayloadFacts
    <3> QED BY <1>2, <1>3, <3>2, <3>3
  <2> QED BY <2>3, <2>4
<1> QED BY <1>4, <1>5

\* When the comparison of a retried message's payload with that of its failure says they
\* match, every id it carried has failed again, in whatever order, for lists of any length;
\* and when all have failed it says so, up to cancellations that share a shop order
\* (retry-event.service.ts:250).
THEOREM MatchesExact == ServicesSpec => []MatchMeansNoProgress
<1> DEFINE Inv == part = "policy" => Policy!MatchMeansNoProgress
<1>1. ServicesInit => Inv
  BY PolicyMatches DEF ServicesInit, PolicyInv
<1>2. Inv /\ [ServicesNext]_servicesVars => Inv'
  <2> SUFFICES ASSUME Inv, [ServicesNext]_servicesVars PROVE Inv'
    OBVIOUS
  <2>1. part' = part /\ kind' = kind /\ old' = old /\ curr' = curr /\ number' = number
    BY DEF ServicesNext, servicesVars, policyPart
  <2> QED BY <2>1 DEF Policy!MatchMeansNoProgress, Policy!SharedNumber, Policy!SameWork
<1>3. Inv => MatchMeansNoProgress
  BY DEF MatchMeansNoProgress
<1> QED BY <1>1, <1>2, <1>3, PTL DEF ServicesSpec
================================================================================
