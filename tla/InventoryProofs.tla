----------------------------- MODULE InventoryProofs -----------------------------
(***************************************************************************)
(* Proofs about the two directions of inventory. The import                *)
(* (InventorySync): an import and its retries bring every variant's        *)
(* current version over, or will, as long as a sweep takes less than half  *)
(* of the overlap of its window; any number of variants, any page size,    *)
(* any edits, lost messages and crashes. The quantities (StockLevels): the *)
(* shop offers what there is, and no more; any items and recipes.          *)
(***************************************************************************)
EXTENDS MCInventory, CommonTheorems

(***************************************************************************)
(* The pages of a list.                                                    *)
(***************************************************************************)
\* The bounds are numbers.
LEMMA Bounds ==
  /\ MaxVariant \in Nat /\ MaxVariant > 0 /\ PageLimit \in Nat /\ PageLimit > 0
  /\ Overlap \in Nat /\ MaxSweep \in Nat
BY InventorySyncAssumption

\* Sets of variants are finite sets of naturals.
LEMMA VariantSets ==
  ASSUME NEW S \in SUBSET Variants
  PROVE  /\ S \in SUBSET Nat /\ IsFiniteSet(S) /\ Cardinality(S) \in Nat
         /\ \A x \in S : x >= 1 /\ x =< MaxVariant
<1>1. IsFiniteSet(Variants) /\ Variants \subseteq Nat
  BY Bounds, FS_Interval DEF Variants
<1>2. IsFiniteSet(S)
  BY <1>1, FS_Subset
<1> QED BY <1>1, <1>2, Bounds, FS_CardinalityType DEF Variants

\* Max is what it says, on the variants.
LEMMA MaxOf ==
  ASSUME NEW S \in SUBSET Variants, S # {}
  PROVE  Max(S) \in S /\ \A x \in S : x =< Max(S)
<1> DEFINE D == {MaxVariant - x : x \in S}
<1>1. \A x \in S : x \in Nat /\ MaxVariant - x \in Nat
  BY VariantSets, Bounds
<1>2. D \in SUBSET Nat /\ D # {}
  BY <1>1
<1>3. PICK d \in D : \A e \in D : d =< e
  BY <1>2, LeastNat
<1>4. PICK m \in S : d = MaxVariant - m
  BY <1>3
<1>5. \A x \in S : MaxVariant - m =< MaxVariant - x
  BY <1>3, <1>4
<1> HIDE DEF D
<1>6. \A x \in S : m >= x
  BY <1>1, <1>5, Bounds
<1>7. Max(S) \in S /\ \A x \in S : Max(S) >= x
  BY <1>6 DEF Max
<1> QED BY <1>1, <1>7

\* The first page of a list is not empty if the list is not, and what it leaves out comes
\* behind it.
LEMMA PageOf ==
  ASSUME NEW S \in SUBSET Variants
  PROVE  /\ FirstOf(S) \in SUBSET S
         /\ S # {} => FirstOf(S) # {}
<1>1. FirstOf(S) \in SUBSET S
  BY DEF FirstOf
<1>2. ASSUME S # {} PROVE FirstOf(S) # {}
  <2>0. S \in SUBSET Nat /\ \A x \in S : x \in Nat
    BY VariantSets
  <2>1. PICK m \in S : \A x \in S : m =< x
    BY <1>2, <2>0, LeastNat
  <2>2. {w \in S : w < m} = {}
    <3>1. \A x \in S : ~(x < m)
      BY <2>0, <2>1
    <3> QED BY <3>1
  <2>3. Cardinality({w \in S : w < m}) = 0
    BY <2>2, FS_EmptySet
  <2>4. m \in FirstOf(S)
    BY <2>3, Bounds DEF FirstOf
  <2> QED BY <2>4
<1> QED BY <1>1, <1>2

\* What the first page of a list leaves out comes behind all of the page.
LEMMA Behind ==
  ASSUME NEW S \in SUBSET Variants, NEW v \in S, v \notin FirstOf(S)
  PROVE  \A w \in FirstOf(S) : w < v
<1> SUFFICES ASSUME NEW w \in FirstOf(S) PROVE w < v
  OBVIOUS
<1> DEFINE A == {x \in S : x < v}
           B == {x \in S : x < w}
<1>1. w \in S /\ w # v /\ \A x \in S : x \in Nat
  BY VariantSets DEF FirstOf
<1>2. ASSUME v < w PROVE FALSE
  <2>1. A \subseteq B
    <3>1. \A x \in S : x < v => x < w
      BY <1>1, <1>2
    <3> QED BY <3>1
  <2>5. A \in SUBSET Variants /\ B \in SUBSET Variants
    OBVIOUS
  <2>2. Cardinality(B) < PageLimit /\ ~(Cardinality(A) < PageLimit)
    BY <1>1 DEF FirstOf
  <2> HIDE DEF A, B
  <2>3. IsFiniteSet(B) /\ Cardinality(A) \in Nat /\ Cardinality(B) \in Nat
    BY <2>5, VariantSets
  <2>4. Cardinality(A) =< Cardinality(B)
    BY <2>1, <2>3, FS_Subset
  <2> QED BY <2>2, <2>3, <2>4, Bounds
<1> QED BY <1>1, <1>2

(***************************************************************************)
(* The customs codes of a page are asked for until Shopify has no more.    *)
(***************************************************************************)
Asks(ids, from) ==
  from = [after \in 0..MaxVariant |->
            LET items == getInventoryFilter(ids, after)
            IN items \cup (IF items = {} THEN {} ELSE from[Max(items)])]

\* The customs codes a page asks for, as the first entry of its recursive function.
LEMMA AskedFor ==
  ASSUME NEW ids
  PROVE  inventoryItemObj(ids) = (CHOOSE from : Asks(ids, from))[0]
BY DEF inventoryItemObj, Asks

\* The endCursor of a page is one of its variants.
LEMMA Maximum ==
  ASSUME NEW S \in SUBSET Variants, S # {}
  PROVE  /\ Max(S) \in S /\ Max(S) \in Nat /\ Max(S) \in 1..MaxVariant
         /\ \A x \in S : x \in Nat /\ x =< Max(S)
<1>1. Max(S) \in S /\ \A x \in S : x =< Max(S)
  BY MaxOf
<1>2. \A x \in S : x \in Nat /\ x >= 1 /\ x =< MaxVariant
  BY VariantSets
<1> QED BY <1>1, <1>2, Bounds

\* The answer without end: the customs codes of everything behind `after`.
Rest(ids, after) == {v \in ids : v > after}

\* A page of the customs codes takes the first of what is left and leaves the rest.
LEMMA RestOf ==
  ASSUME NEW ids \in SUBSET Variants, NEW after \in 0..MaxVariant,
         NEW items, items = getInventoryFilter(ids, after)
  PROVE  /\ items \in SUBSET Rest(ids, after) /\ items \in SUBSET Variants
         /\ items = {} => Rest(ids, after) = {}
         /\ items # {} => /\ Max(items) \in 0..MaxVariant /\ Max(items) > after
                          /\ Rest(ids, after) = items \cup Rest(ids, Max(items))
<1>1. Rest(ids, after) \in SUBSET Variants /\ items = FirstOf(Rest(ids, after))
  BY DEF Rest, getInventoryFilter
<1>2. /\ items \in SUBSET Rest(ids, after) /\ items \in SUBSET Variants
      /\ items = {} => Rest(ids, after) = {}
  BY <1>1, PageOf
<1>3. ASSUME items # {}
      PROVE  /\ Max(items) \in 0..MaxVariant /\ Max(items) > after
             /\ Rest(ids, after) = items \cup Rest(ids, Max(items))
  <2>1. /\ Max(items) \in items /\ Max(items) \in Nat /\ Max(items) \in 1..MaxVariant
        /\ \A x \in items : x \in Nat /\ x =< Max(items)
    BY <1>2, <1>3, Maximum
  <2>2. Max(items) > after
    BY <2>1, <1>2 DEF Rest
  <2>3. \A v \in ids : v \in Nat
    BY VariantSets
  <2>4. \A v \in Rest(ids, after) : v \in items \/ v > Max(items)
    <3> SUFFICES ASSUME NEW v \in Rest(ids, after), v \notin items
                 PROVE  v > Max(items)
      OBVIOUS
    <3>1. \A w \in items : w < v
      BY <1>1, Behind
    <3>2. Max(items) < v
      BY <3>1, <2>1
    <3> QED BY <3>2, <2>1, <2>3 DEF Rest
  <2>5. \A v \in ids : v > Max(items) => v > after
    BY <2>1, <2>2, <2>3
  <2> QED BY <1>2, <2>1, <2>2, <2>4, <2>5 DEF Rest
<1> QED BY <1>2, <1>3

\* The recursion over the pages of the customs codes has an answer.
LEMMA AnswerExists ==
  ASSUME NEW ids \in SUBSET Variants
  PROVE  \E from : Asks(ids, from)
<1> DEFINE from == [after \in 0..MaxVariant |-> Rest(ids, after)]
<1>1. ASSUME NEW after \in 0..MaxVariant
      PROVE  Rest(ids, after) =
               LET items == getInventoryFilter(ids, after)
               IN items \cup (IF items = {} THEN {} ELSE from[Max(items)])
  <2> DEFINE items == getInventoryFilter(ids, after)
  <2>1. /\ items = {} => Rest(ids, after) = {}
        /\ items # {} => /\ Max(items) \in 0..MaxVariant
                         /\ Rest(ids, after) = items \cup Rest(ids, Max(items))
    BY RestOf
  <2> HIDE DEF items
  <2>2. Rest(ids, after) = items \cup (IF items = {} THEN {} ELSE from[Max(items)])
    <3>1. CASE items = {}
      BY <2>1, <3>1
    <3>2. CASE items # {}
      BY <2>1, <3>2
    <3> QED BY <3>1, <3>2
  <2> QED BY <2>2 DEF items
<1>2. Asks(ids, from)
  BY <1>1 DEF Asks
<1> QED BY <1>2

\* All variants asked for get their customs codes, though Shopify answers page by page
\* (getInventoryItems, shopify.service.ts:1317).
THEOREM CustomsOfAll ==
  ASSUME NEW ids \in SUBSET Variants
  PROVE  \A v \in ids : v \in inventoryItemObj(ids)
<1> DEFINE from == CHOOSE f : Asks(ids, f)
<1>1. Asks(ids, from)
  BY AnswerExists
<1>2. inventoryItemObj(ids) = from[0]
  BY AskedFor
<1> HIDE DEF from
<1> DEFINE Missed(after) == \E v \in Rest(ids, after) : v \notin from[after]
           S == {n \in Nat : \E after \in 0..MaxVariant : Missed(after) /\ n = MaxVariant - after}
<1>3. ASSUME S # {} PROVE FALSE
  <2>1. PICK n \in S : \A m \in S : n =< m
    BY <1>3, LeastNat
  <2>2. PICK after \in 0..MaxVariant : Missed(after) /\ n = MaxVariant - after
    BY <2>1
  <2>3. \A a \in 0..MaxVariant : Missed(a) => a =< after
    <3> SUFFICES ASSUME NEW a \in 0..MaxVariant, Missed(a) PROVE a =< after
      OBVIOUS
    <3>1. MaxVariant - a \in S
      BY Bounds
    <3>2. n =< MaxVariant - a
      BY <3>1, <2>1
    <3> QED BY <3>2, <2>2, Bounds
  <2>4. PICK v \in Rest(ids, after) : v \notin from[after]
    BY <2>2
  <2> DEFINE items == getInventoryFilter(ids, after)
  <2>5. from[after] = items \cup (IF items = {} THEN {} ELSE from[Max(items)])
    BY <1>1 DEF Asks
  <2>6. /\ items = {} => Rest(ids, after) = {}
        /\ items # {} => /\ Max(items) \in 0..MaxVariant /\ Max(items) > after
                         /\ Rest(ids, after) = items \cup Rest(ids, Max(items))
    BY RestOf
  <2> HIDE DEF items
  <2>7. items # {} /\ v \in Rest(ids, Max(items)) /\ v \notin from[Max(items)]
    BY <2>4, <2>5, <2>6
  <2>8. Missed(Max(items)) /\ Max(items) \in 0..MaxVariant /\ Max(items) > after
    BY <2>6, <2>7
  <2> HIDE DEF Missed
  <2>9. Max(items) =< after
    BY <2>3, <2>8
  <2> QED BY <2>8, <2>9, Bounds
<1>4. ~Missed(0)
  <2>1. MaxVariant - 0 \in Nat /\ 0 \in 0..MaxVariant
    BY Bounds
  <2> QED BY <1>3, <2>1
<1>5. \A v \in ids : v \in Rest(ids, 0)
  <2>1. \A v \in ids : v >= 1 /\ v \in Nat
    BY VariantSets
  <2> QED BY <2>1 DEF Rest
<1> QED BY <1>2, <1>4, <1>5

(***************************************************************************)
(* The state of the import.                                                *)
(***************************************************************************)
Version == [date : Nat, customs : BOOLEAN]
Fetched == {NothingFetched} \cup UNION {[D -> Version] : D \in SUBSET Variants}
Page == [min : Int, after : 0..MaxVariant, got : Fetched, began : Nat, nr : Nat,
         next : BOOLEAN]

ImportTypes ==
  /\ now \in Nat /\ imports \in Nat
  /\ updatedAt \in [Variants -> Nat]
  /\ withSku \in SUBSET Variants
  /\ syncedAt \in Int /\ syncedAt >= NoCursor /\ syncedAt =< now
  /\ pages \in SUBSET Page
  /\ \A v \in Variants : updatedAt[v] =< now

\* What p lists: its updatedAtMin lets v through.
Lists(p, v) == p.min = NoCursor \/ updatedAt[v] > p.min

\* The updatedAtMin of p is final.
Known(p) == p.after > 0 \/ p.got # NothingFetched

\* What a fetched page holds of v.
Holds(p, v) == v \in DOMAIN p.got /\ p.got[v] = Current(v)

\* p brings the current version of v, or will list it.
Brings(p, v) == \/ p.got # NothingFetched /\ Holds(p, v)
                \/ p.got = NothingFetched /\ v \in Matching(p)

\* What a page has fetched is newer than the cursor it started from, and only a change since
\* its import began can have made it stale.
PageOk(p) ==
  /\ p.nr < imports
  /\ p.got = NothingFetched \/ DOMAIN p.got # {}
  /\ p.began =< now /\ now - p.began =< MaxSweep
  /\ Known(p) => p.min = NoCursor \/ (syncedAt # NoCursor /\ p.min =< syncedAt - Overlap)
  /\ \A v \in DOMAIN p.got : /\ v > p.after /\ Lists(p, v) /\ p.got[v].date =< now
                             /\ p.got[v] = Current(v) \/ updatedAt[v] >= p.began

\* The only page of an import has no companion, and a first page that is yet to be fetched
\* has not published a next one.
Alone(p) ==
  ~broken /\ p.after = 0 =>
    /\ ~p.next => \A q \in pages : q.nr = p.nr => q = p
    /\ p.got = NothingFetched => ~p.next

\* The pages of an import bring, or have brought, every variant it lists and that has not
\* changed for as long as another import may have carried an older version of it.
Settling(p, v) == updatedAt[v] + MaxSweep < p.began
Cover(p) ==
  ~broken /\ Known(p) =>
    \A v \in withSku : Settling(p, v) /\ Lists(p, v) =>
       saved[v] = Current(v) \/ \E q \in pages : q.nr = p.nr /\ Brings(q, v)

\* A single page may be lost: the cursor has not moved past what it brings.  One of several
\* must not.
Kept ==
  ~broken =>
    \A v \in withSku : \/ saved[v] = Current(v) \/ WouldBeFetched(v)
                       \/ \E p \in pages : OfSeveral(p) /\ Brings(p, v)

ImportInv ==
  /\ ImportTypes
  /\ \A p \in pages : PageOk(p)
  /\ \A p \in pages : Alone(p)
  /\ \A p \in pages : Cover(p)
  /\ Kept

\* Two imports in a row take less than the overlap.
Short == 2 * MaxSweep < Overlap

\* No variant has been fetched, and the next import asks for all.
LEMMA ImportInitially ==
  ASSUME Init
  PROVE  ImportInv
<1>1. /\ now = 0 /\ imports = 0 /\ broken = FALSE /\ syncedAt = -1 /\ pages = {}
      /\ updatedAt = [v \in Variants |-> 0] /\ withSku \in SUBSET Variants
  BY DEF Init, NoCursor
<1>3. updatedAt \in [Variants -> Nat] /\ \A v \in Variants : updatedAt[v] =< 0
  BY <1>1
<1>4. ImportTypes
  BY <1>1, <1>3 DEF ImportTypes, NoCursor
<1>2. Kept
  BY DEF Init, Kept, WouldBeFetched, StartDate, LastSync, NoCursor
<1> QED BY <1>1, <1>2, <1>4 DEF ImportInv

\* The facts the arithmetic below needs.
LEMMA PageFields ==
  ASSUME NEW p \in Page
  PROVE  /\ p.min \in Int /\ p.after \in 0..MaxVariant /\ p.after \in Nat
         /\ p.got \in Fetched /\ p.began \in Nat /\ p.nr \in Nat /\ p.next \in BOOLEAN
BY Bounds DEF Page

\* What a page has fetched gives versions of variants.
LEMMA FetchedMaps ==
  ASSUME NEW got \in Fetched
  PROVE  /\ DOMAIN got \in SUBSET Variants
         /\ \A v \in DOMAIN got : got[v] \in Version
<1>1. CASE got = NothingFetched
  <2>1. DOMAIN got = {}
    BY <1>1 DEF NothingFetched
  <2> QED BY <2>1
<1>2. CASE got \in UNION {[D -> Version] : D \in SUBSET Variants}
  <2>1. PICK D \in SUBSET Variants : got \in [D -> Version]
    BY <1>2
  <2> QED BY <2>1
<1> QED BY <1>1, <1>2 DEF Fetched

\* A new import starts with a page that knows no cursor yet.
LEMMA ImportKept ==
  ASSUME ImportInv, Import
  PROVE  ImportInv'
<1> PICK new : new = [min |-> NoCursor, after |-> 0, got |-> NothingFetched,
                      began |-> now, nr |-> imports, next |-> FALSE]
  OBVIOUS
<1>1. /\ pages' = pages \cup {new} /\ imports' = imports + 1
      /\ UNCHANGED <<now, updatedAt, withSku, saved, syncedAt, faults, broken>>
  BY DEF Import, shopVars
<1>2. /\ new \in Page /\ new.min = NoCursor /\ new.after = 0 /\ new.got = NothingFetched
      /\ new.began = now /\ new.nr = imports /\ new.next = FALSE
  BY Bounds DEF Page, Fetched, NoCursor, ImportInv, ImportTypes
<1>3. DOMAIN new.got = {}
  BY <1>2 DEF NothingFetched
<1>4. ImportTypes'
  <2>1. pages' \in SUBSET Page
    BY <1>1, <1>2 DEF ImportInv, ImportTypes
  <2>2. imports' \in Nat
    BY <1>1 DEF ImportInv, ImportTypes
  <2> QED BY <1>1, <2>1, <2>2 DEF ImportInv, ImportTypes
<1>5. \A p \in pages : p.nr \in Nat /\ p.nr < imports
  BY PageFields DEF ImportInv, ImportTypes, PageOk
<1>6. \A p \in pages' : PageOk(p)'
  <2>1. ASSUME NEW p \in pages PROVE PageOk(p)'
    BY <1>1, <1>5 DEF ImportInv, ImportTypes, PageOk, Known, Lists, Current
  <2>2. PageOk(new)'
    BY <1>1, <1>2, <1>3, Bounds DEF ImportInv, ImportTypes, PageOk, Known
  <2> QED BY <1>1, <2>1, <2>2
<1>7. \A p \in pages' : Alone(p)'
  <2>1. ASSUME NEW p \in pages PROVE Alone(p)'
    BY <1>1, <1>2, <1>5 DEF ImportInv, ImportTypes, Alone
  <2>2. Alone(new)'
    BY <1>1, <1>2, <1>5 DEF ImportInv, ImportTypes, Alone
  <2> QED BY <1>1, <2>1, <2>2
<1>8. \A q, v : Brings(q, v)' = Brings(q, v)
  BY <1>1 DEF Brings, Holds, Current, Matching, updatedAtMin, StartDate, LastSync
<1>9. \A p \in pages' : Cover(p)'
  <2>1. ASSUME NEW p \in pages PROVE Cover(p)'
    BY <1>1, <1>8 DEF ImportInv, Cover, Known, Settling, Lists, Current
  <2>2. Cover(new)'
    BY <1>2 DEF Cover, Known
  <2> QED BY <1>1, <2>1, <2>2
<1>10. Kept'
  BY <1>1, <1>8 DEF ImportInv, Kept, WouldBeFetched, StartDate, LastSync, Current, OfSeveral
<1> QED BY <1>4, <1>6, <1>7, <1>9, <1>10 DEF ImportInv

\* Time goes by: no page gets older than MaxSweep.
LEMMA TickKept ==
  ASSUME ImportInv, Tick
  PROVE  ImportInv'
<1>1. /\ now' = now + 1 /\ \A p \in pages : now - p.began < MaxSweep
      /\ UNCHANGED <<updatedAt, withSku, saved, syncedAt, pages, imports, faults, broken>>
  BY DEF Tick, faultVars
<1>2. \A p \in pages : p.began \in Nat
  BY PageFields DEF ImportInv, ImportTypes
<1>3. ImportTypes'
  <2>1. now \in Nat /\ \A v \in Variants : updatedAt[v] \in Nat /\ updatedAt[v] =< now
    BY DEF ImportInv, ImportTypes
  <2>2. now' \in Nat /\ \A v \in Variants : updatedAt[v] =< now'
    BY <1>1, <2>1
  <2>3. syncedAt =< now'
    BY <1>1 DEF ImportInv, ImportTypes
  <2> QED BY <1>1, <2>2, <2>3 DEF ImportInv, ImportTypes
<1>4. ASSUME NEW p \in pages PROVE PageOk(p)'
  <2>1. now' - p.began =< MaxSweep /\ p.began =< now'
    BY <1>1, <1>2, Bounds DEF ImportInv, ImportTypes, PageOk
  <2>2. \A v \in DOMAIN p.got : p.got[v].date =< now'
    <3>1. \A v \in DOMAIN p.got : p.got[v] \in Version /\ p.got[v].date =< now
      BY FetchedMaps, PageFields DEF ImportInv, ImportTypes, PageOk
    <3>2. \A v \in DOMAIN p.got : p.got[v].date \in Nat /\ p.got[v].date =< now
      BY <3>1 DEF Version
    <3> QED BY <1>1, <3>2 DEF ImportInv, ImportTypes
  <2> QED BY <1>1, <2>1, <2>2 DEF ImportInv, PageOk, Known, Lists, Current
<1>5. \A q, v : Brings(q, v)' = Brings(q, v)
  BY <1>1 DEF Brings, Holds, Current, Matching, updatedAtMin, StartDate, LastSync
<1>6. ASSUME NEW p \in pages PROVE Alone(p)'
  BY <1>1 DEF ImportInv, Alone
<1>7. ASSUME NEW p \in pages PROVE Cover(p)'
  BY <1>1, <1>5 DEF ImportInv, Cover, Known, Settling, Lists, Current
<1>8. Kept'
  BY <1>1, <1>5 DEF ImportInv, Kept, WouldBeFetched, StartDate, LastSync, Current, OfSeveral
<1> QED BY <1>1, <1>3, <1>4, <1>6, <1>7, <1>8 DEF ImportInv

\* A variant that changes is newer than every cursor.
LEMMA EditKept ==
  ASSUME ImportInv, Short, NEW e \in Variants, Edit(e)
  PROVE  ImportInv'
<1>1. /\ updatedAt[e] < now /\ updatedAt' = [updatedAt EXCEPT ![e] = now]
      /\ UNCHANGED <<now, withSku, saved, syncedAt, pages, imports, faults, broken>>
  BY DEF Edit, faultVars
<1>2. /\ now \in Nat /\ syncedAt \in Int /\ syncedAt =< now /\ updatedAt \in [Variants -> Nat]
      /\ \A v \in Variants : updatedAt[v] \in Nat /\ updatedAt[v] =< now
      /\ withSku \in SUBSET Variants /\ pages \in SUBSET Page
  BY DEF ImportInv, ImportTypes
<1>3. updatedAt'[e] = now /\ \A v \in Variants : v # e => updatedAt'[v] = updatedAt[v]
  BY <1>1, <1>2
<1>4. ImportTypes'
  <2>1. updatedAt' \in [Variants -> Nat] /\ \A v \in Variants : updatedAt'[v] =< now
    BY <1>1, <1>2, <1>3
  <2> QED BY <1>1, <2>1 DEF ImportInv, ImportTypes
<1>5. \A p \in pages : /\ p.min \in Int /\ p.began \in Nat /\ p.began =< now
                       /\ DOMAIN p.got \in SUBSET Variants
  BY <1>2, PageFields, FetchedMaps DEF ImportInv, PageOk
<1>6. ASSUME NEW p \in pages PROVE PageOk(p)'
  <2>1. ASSUME NEW v \in DOMAIN p.got
        PROVE  /\ v > p.after /\ Lists(p, v)' /\ p.got[v].date =< now
               /\ (p.got[v] = Current(v))' \/ updatedAt'[v] >= p.began
    <3>1. /\ v > p.after /\ Lists(p, v) /\ p.got[v].date =< now /\ v \in Variants
          /\ p.got[v] = Current(v) \/ updatedAt[v] >= p.began
      BY <1>5 DEF ImportInv, PageOk
    <3>2. CASE v = e
      BY <1>1, <1>2, <1>3, <1>5, <3>1, <3>2 DEF Lists
    <3>3. CASE v # e
      BY <1>1, <1>3, <3>1, <3>3 DEF Lists, Current
    <3> QED BY <3>2, <3>3
  <2> QED BY <1>1, <2>1 DEF ImportInv, PageOk, Known
<1>7. ASSUME NEW p \in pages PROVE Alone(p)'
  BY <1>1 DEF ImportInv, Alone
<1>8. ASSUME NEW q \in pages, NEW v \in Variants, v # e, Brings(q, v)
      PROVE  Brings(q, v)'
  BY <1>1, <1>3, <1>8
     DEF Brings, Holds, Current, Matching, updatedAtMin, StartDate, LastSync
<1>9. ASSUME NEW p \in pages PROVE Cover(p)'
  <2>1. SUFFICES ASSUME ~broken, Known(p), NEW v \in withSku, Settling(p, v)', Lists(p, v)'
                 PROVE  \/ saved[v] = Current(v)'
                        \/ \E q \in pages : q.nr = p.nr /\ Brings(q, v)'
    BY <1>1 DEF Cover, Known
  <2>2. v \in Variants /\ v # e
    BY <1>2, <1>3, <1>5, <2>1, Bounds DEF Settling
  <2>3. Settling(p, v) /\ Lists(p, v) /\ Current(v)' = Current(v)
    BY <1>3, <2>1, <2>2 DEF Settling, Lists, Current
  <2>4. saved[v] = Current(v) \/ \E q \in pages : q.nr = p.nr /\ Brings(q, v)
    BY <2>1, <2>3 DEF ImportInv, Cover
  <2> QED BY <1>8, <2>2, <2>3, <2>4
<1>10. Kept'
  <2>1. SUFFICES ASSUME ~broken, NEW v \in withSku
                 PROVE  \/ saved[v] = Current(v)' \/ WouldBeFetched(v)'
                        \/ \E q \in pages : OfSeveral(q) /\ Brings(q, v)'
    BY <1>1 DEF Kept, OfSeveral
  <2>2. v \in Variants
    BY <1>2
  <2>3. CASE v = e
    BY <1>1, <1>2, <1>3, <2>3, Bounds DEF WouldBeFetched, StartDate, LastSync, Short
  <2>4. CASE v # e
    <3>1. /\ Current(v)' = Current(v) /\ WouldBeFetched(v)' = WouldBeFetched(v)
      BY <1>1, <1>3, <2>2, <2>4 DEF Current, WouldBeFetched, StartDate, LastSync
    <3>2. \/ saved[v] = Current(v) \/ WouldBeFetched(v)
          \/ \E q \in pages : OfSeveral(q) /\ Brings(q, v)
      BY <2>1 DEF ImportInv, Kept
    <3> QED BY <1>8, <2>2, <2>4, <3>1, <3>2
  <2> QED BY <2>3, <2>4
<1> QED BY <1>1, <1>4, <1>6, <1>7, <1>9, <1>10 DEF ImportInv

\* A page is lost: the only one of its import, or the ghost is set.
LEMMA LoseKept ==
  ASSUME ImportInv, NEW p \in pages, Lose(p)
  PROVE  ImportInv'
<1>1. /\ pages' = pages \ {p} /\ broken' = (broken \/ OfSeveral(p))
      /\ UNCHANGED <<now, updatedAt, withSku, saved, syncedAt, imports>>
  BY DEF Lose, shopVars
<1>2. ~broken' => ~broken /\ p.after = 0 /\ ~p.next
  <2>1. p.after \in Nat
    BY PageFields DEF ImportInv, ImportTypes
  <2>2. ~OfSeveral(p) => p.after = 0 /\ ~p.next
    BY <2>1 DEF OfSeveral
  <2>3. ~broken' => ~broken /\ ~OfSeveral(p)
    BY <1>1, Zenon
  <2> QED BY <2>2, <2>3
<1>3. ~broken' => \A q \in pages' : q.nr # p.nr
  BY <1>1, <1>2 DEF ImportInv, Alone
<1>4. ImportTypes'
  <2>1. pages' \in SUBSET Page
    BY <1>1 DEF ImportInv, ImportTypes
  <2> QED BY <1>1, <2>1 DEF ImportInv, ImportTypes
<1>5. ASSUME NEW q \in pages' PROVE PageOk(q)'
  BY <1>1 DEF ImportInv, PageOk, Known, Lists, Current
<1>6. ASSUME NEW q \in pages' PROVE Alone(q)'
  BY <1>1, <1>2 DEF ImportInv, Alone
<1>7. \A q, v : Brings(q, v)' = Brings(q, v)
  BY <1>1 DEF Brings, Holds, Current, Matching, updatedAtMin, StartDate, LastSync
<1>8. ASSUME NEW q \in pages' PROVE Cover(q)'
  <2>1. ~broken' /\ Known(q) =>
          \A v \in withSku : Settling(q, v) /\ Lists(q, v) =>
            saved[v] = Current(v) \/ \E r \in pages : r.nr = q.nr /\ Brings(r, v)
    BY <1>1, <1>2 DEF ImportInv, Cover
  <2>2. ~broken' => \A r \in pages : r.nr = q.nr => r \in pages'
    BY <1>1, <1>3
  <2> QED BY <1>1, <1>7, <2>1, <2>2 DEF Cover, Known, Settling, Lists, Current
<1>9. Kept'
  <2>1. ~broken' => \A r \in pages : OfSeveral(r) => r \in pages'
    BY <1>1, <1>2 DEF OfSeveral
  <2> QED BY <1>1, <1>2, <1>7, <2>1
          DEF ImportInv, Kept, WouldBeFetched, StartDate, LastSync, Current, OfSeveral
<1> QED BY <1>4, <1>5, <1>6, <1>8, <1>9 DEF ImportInv

\* The message of a page that was fetched comes again.
LEMMA CrashKept ==
  ASSUME ImportInv, NEW p \in pages, Crash(p)
  PROVE  ImportInv'
<1> PICK c : c = [p EXCEPT !.got = NothingFetched]
  OBVIOUS
<1>1. /\ p.got # NothingFetched /\ pages' = (pages \ {p}) \cup {c}
      /\ broken' = (broken \/ (p.after = 0 /\ OfSeveral(p)))
      /\ UNCHANGED <<now, updatedAt, withSku, saved, syncedAt, imports>>
  BY DEF Crash, shopVars
<1>2. /\ p \in Page /\ p.min \in Int /\ p.after \in Nat /\ p.after \in 0..MaxVariant
      /\ p.began \in Nat /\ p.nr \in Nat /\ DOMAIN p.got \in SUBSET Variants
  BY PageFields, FetchedMaps DEF ImportInv, ImportTypes
<1>3. /\ c \in Page /\ c.min = p.min /\ c.after = p.after /\ c.got = NothingFetched
      /\ c.began = p.began /\ c.nr = p.nr /\ c.next = p.next
  BY <1>2 DEF Page, Fetched
<1>4. DOMAIN c.got = {}
  BY <1>3 DEF NothingFetched
<1>5. ~broken' => ~broken /\ (p.after = 0 => ~p.next)
  <2>1. ~broken' => ~broken /\ ~(p.after = 0 /\ OfSeveral(p))
    BY <1>1, Zenon
  <2> QED BY <2>1 DEF OfSeveral
<1>6. ~broken' /\ p.after = 0 => \A q \in pages : q.nr = p.nr => q = p
  BY <1>5 DEF ImportInv, Alone
<1>7. ImportTypes'
  <2>1. pages' \in SUBSET Page
    BY <1>1, <1>3 DEF ImportInv, ImportTypes
  <2> QED BY <1>1, <2>1 DEF ImportInv, ImportTypes
<1>8. PageOk(p)
  BY DEF ImportInv
<1>9. ASSUME NEW q \in pages' PROVE PageOk(q)'
  <2>1. CASE q \in pages
    BY <1>1, <2>1 DEF ImportInv, PageOk, Known, Lists, Current
  <2>2. CASE q = c
    BY <1>1, <1>3, <1>4, <1>8, <2>2 DEF PageOk, Known
  <2> QED BY <1>1, <2>1, <2>2
<1>10. ASSUME NEW q \in pages' PROVE Alone(q)'
  <2>1. CASE q \in pages /\ q # p
    <3>1. ~broken' /\ q.after = 0 =>
            /\ ~q.next => \A r \in pages : r.nr = q.nr => r = q
            /\ q.got = NothingFetched => ~q.next
      BY <1>5, <2>1 DEF ImportInv, Alone
    <3>2. ~broken' /\ q.after = 0 /\ ~q.next => c.nr # q.nr
      BY <1>3, <2>1, <3>1
    <3> QED BY <1>1, <3>1, <3>2 DEF Alone
  <2>2. CASE q = c
    BY <1>1, <1>3, <1>5, <1>6, <2>2 DEF Alone
  <2> QED BY <1>1, <2>1, <2>2
<1>11. ASSUME NEW v \in Variants, NEW q \in pages, q # p, Brings(q, v)
       PROVE  q \in pages' /\ Brings(q, v)'
  BY <1>1, <1>11 DEF Brings, Holds, Current, Matching, updatedAtMin, StartDate, LastSync
<1>12. ASSUME NEW v \in Variants, Brings(p, v), p.after > 0
       PROVE  c \in pages' /\ Brings(c, v)'
  <2>1. v \in DOMAIN p.got /\ v > p.after /\ Lists(p, v)
    BY <1>1, <1>8, <1>12 DEF Brings, Holds, PageOk
  <2>2. (v \in Matching(c))'
    BY <1>1, <1>3, <1>12, <2>1 DEF Matching, updatedAtMin, Lists
  <2> QED BY <1>1, <1>3, <2>2 DEF Brings
<1>13. \A v \in withSku : v \in Variants
  BY DEF ImportInv, ImportTypes
<1>14. ASSUME NEW q \in pages' PROVE Cover(q)'
  <2>1. SUFFICES ASSUME ~broken', Known(q), NEW v \in withSku, Settling(q, v), Lists(q, v)
                 PROVE  \/ saved[v] = Current(v)
                        \/ \E r \in pages' : r.nr = q.nr /\ Brings(r, v)'
    BY <1>1 DEF Cover, Known, Settling, Lists, Current
  <2>2. \/ saved[v] = Current(v)
        \/ \E r \in pages : r.nr = q.nr /\ Brings(r, v)
    <3>1. CASE q \in pages
      BY <1>5, <2>1, <3>1 DEF ImportInv, Cover
    <3>2. CASE q = c
      BY <1>1, <1>3, <1>5, <2>1, <3>2 DEF ImportInv, Cover, Known, Settling, Lists
    <3> QED BY <1>1, <3>1, <3>2
  <2>3. ASSUME NEW r \in pages, r.nr = q.nr, Brings(r, v)
        PROVE  \E s \in pages' : s.nr = q.nr /\ Brings(s, v)'
    <3>1. CASE r # p
      BY <1>11, <1>13, <2>1, <2>3, <3>1
    <3>2. CASE r = p /\ p.after > 0
      BY <1>12, <1>13, <1>3, <2>1, <2>3, <3>2
    <3>3. CASE r = p /\ p.after = 0
      <4>1. q \in pages => q = p
        BY <1>6, <2>1, <2>3, <3>3
      <4>2. q = c
        BY <1>1, <4>1
      <4> QED BY <1>3, <2>1, <3>3, <4>2 DEF Known
    <3> QED BY <1>2, <3>1, <3>2, <3>3
  <2> QED BY <2>2, <2>3
<1>15. Kept'
  <2>1. SUFFICES ASSUME ~broken', NEW v \in withSku
                 PROVE  \/ saved[v] = Current(v) \/ WouldBeFetched(v)
                        \/ \E r \in pages' : OfSeveral(r) /\ Brings(r, v)'
    BY <1>1 DEF Kept, WouldBeFetched, StartDate, LastSync, Current, OfSeveral
  <2>2. \/ saved[v] = Current(v) \/ WouldBeFetched(v)
        \/ \E r \in pages : OfSeveral(r) /\ Brings(r, v)
    BY <1>5, <2>1 DEF ImportInv, Kept
  <2>3. ASSUME NEW r \in pages, OfSeveral(r), Brings(r, v)
        PROVE  \E s \in pages' : OfSeveral(s) /\ Brings(s, v)'
    <3>1. CASE r # p
      BY <1>11, <1>13, <2>3, <3>1
    <3>2. CASE r = p
      <4>1. p.after > 0
        BY <1>2, <1>5, <2>1, <2>3, <3>2 DEF OfSeveral
      <4>2. c \in pages' /\ Brings(c, v)'
        BY <1>12, <1>13, <2>3, <3>2, <4>1
      <4> QED BY <1>3, <4>1, <4>2 DEF OfSeveral
    <3> QED BY <3>1, <3>2
  <2> QED BY <2>2, <2>3
<1> QED BY <1>7, <1>9, <1>10, <1>14, <1>15 DEF ImportInv

\* The newest date of a page.
LEMMA NewestDate ==
  ASSUME NEW got \in Fetched, DOMAIN got # {}, now \in Nat,
         \A v \in DOMAIN got : got[v].date =< now
  PROVE  /\ LastSyncedAtFromResponse(got) \in Nat /\ LastSyncedAtFromResponse(got) =< now
<1>1. \A v \in DOMAIN got : got[v].date \in Nat
  BY FetchedMaps DEF Version
<1> DEFINE S == {now - got[v].date : v \in DOMAIN got}
<1>2. S \in SUBSET Nat /\ S # {}
  BY <1>1
<1>3. PICK n \in S : \A m \in S : n =< m
  BY <1>2, LeastNat
<1>4. PICK v \in DOMAIN got : n = now - got[v].date
  BY <1>3
<1>5. \A w \in DOMAIN got : now - got[v].date =< now - got[w].date
  BY <1>3, <1>4
<1> HIDE DEF S
<1>6. \A w \in DOMAIN got : got[w].date =< got[v].date
  BY <1>1, <1>5
<1>7. getLastByDate(got) \in DOMAIN got
  BY <1>6 DEF getLastByDate
<1> QED BY <1>1, <1>7 DEF LastSyncedAtFromResponse

\* The cursor moves forward or stays.
LEMMA NewestCursor ==
  ASSUME NEW a \in Int, NEW b \in Int
  PROVE  Max({a, b}) = IF a < b THEN b ELSE a
<1>1. CASE a < b
  <2>1. \A x \in {a, b} : b >= x
    BY <1>1
  <2>2. \A y \in {a, b} : (\A x \in {a, b} : y >= x) => y = b
    BY <1>1
  <2> QED BY <1>1, <2>1, <2>2 DEF Max
<1>2. CASE ~(a < b)
  <2>1. \A x \in {a, b} : a >= x
    BY <1>2
  <2>2. \A y \in {a, b} : (\A x \in {a, b} : y >= x) => y = a
    BY <1>2
  <2> QED BY <1>2, <2>1, <2>2 DEF Max
<1> QED BY <1>1, <1>2

\* A page is saved: it may overwrite a newer version, and it moves the cursor.
LEMMA SendKept ==
  ASSUME ImportInv, Short, NEW p \in pages, SendToMiddleware(p)
  PROVE  ImportInv'
<1> DEFINE D == LastSyncedAtFromResponse(p.got)
<1>1. /\ p.got # NothingFetched /\ pages' = pages \ {p} /\ syncedAt' = Max({syncedAt, D})
      /\ saved' = [v \in Variants |-> IF v \in DOMAIN p.got THEN p.got[v] ELSE saved[v]]
      /\ UNCHANGED <<now, updatedAt, withSku, imports, faults, broken>>
  BY DEF SendToMiddleware, setLastSyncedAt, shopVars, faultVars
<1>2. /\ p \in Page /\ p.min \in Int /\ p.after \in Nat /\ p.got \in Fetched
      /\ p.began \in Nat /\ DOMAIN p.got \in SUBSET Variants
  BY PageFields, FetchedMaps DEF ImportInv, ImportTypes
<1>3. /\ now \in Nat /\ syncedAt \in Int /\ syncedAt >= NoCursor /\ syncedAt =< now
      /\ \A v \in Variants : updatedAt[v] \in Nat
      /\ \A v \in withSku : v \in Variants
  BY DEF ImportInv, ImportTypes
<1>4. /\ DOMAIN p.got # {} /\ p.began =< now /\ now - p.began =< MaxSweep
      /\ p.min = NoCursor \/ (syncedAt # NoCursor /\ p.min =< syncedAt - Overlap)
      /\ \A v \in DOMAIN p.got : /\ Lists(p, v) /\ p.got[v].date =< now
                                 /\ p.got[v] = Current(v) \/ updatedAt[v] >= p.began
  BY <1>1 DEF ImportInv, PageOk, Known
<1>5. D \in Nat /\ D =< now
  BY <1>2, <1>3, <1>4, NewestDate
<1>6. syncedAt' = IF syncedAt < D THEN D ELSE syncedAt
  BY <1>1, <1>3, <1>5, NewestCursor
<1> HIDE DEF D
<1>7. /\ syncedAt' \in Int /\ syncedAt' >= syncedAt /\ syncedAt' >= 0 /\ syncedAt' =< now
      /\ syncedAt' = syncedAt \/ syncedAt' = D
  BY <1>3, <1>5, <1>6
<1>8. \A v \in Variants :
        saved'[v] = IF v \in DOMAIN p.got THEN p.got[v] ELSE saved[v]
  BY <1>1
<1>9. ImportTypes'
  <2>1. pages' \in SUBSET Page
    BY <1>1 DEF ImportInv, ImportTypes
  <2>2. syncedAt' \in Int /\ syncedAt' >= NoCursor /\ syncedAt' =< now
    BY <1>7 DEF NoCursor
  <2> QED BY <1>1, <2>1, <2>2 DEF ImportInv, ImportTypes
<1>10. ASSUME NEW q \in pages' PROVE PageOk(q)'
  <2>1. q.min \in Int /\ PageOk(q)
    BY <1>1, PageFields DEF ImportInv, ImportTypes
  <2>2. syncedAt # NoCursor /\ q.min =< syncedAt - Overlap
          => syncedAt' # NoCursor /\ q.min =< syncedAt' - Overlap
    BY <1>3, <1>7, <2>1, Bounds DEF NoCursor
  <2> QED BY <1>1, <2>1, <2>2 DEF PageOk, Known, Lists, Current
<1>11. ASSUME NEW q \in pages' PROVE Alone(q)'
  BY <1>1 DEF ImportInv, Alone
\* Only the list of a first page that is yet to be fetched moves with the cursor.
<1>12. ASSUME NEW v \in Variants, v \notin DOMAIN p.got, NEW q \in pages, Brings(q, v),
              q.after > 0 \/ q.got # NothingFetched
       PROVE  q \in pages' /\ Brings(q, v)'
  <2>1. q # p
    BY <1>1, <1>12 DEF Brings, Holds
  <2> QED BY <1>1, <1>12, <2>1 DEF Brings, Holds, Current, Matching, updatedAtMin
<1>13. ASSUME ~broken, NEW q \in pages, OfSeveral(q)
       PROVE  q.after > 0 \/ q.got # NothingFetched
  <2>1. q.after \in Nat
    BY PageFields DEF ImportInv, ImportTypes
  <2> QED BY <1>13, <2>1 DEF ImportInv, Alone, OfSeveral
\* What p overwrites with an older version has changed since the import of p began.
<1>14. ASSUME NEW v \in Variants, v \in DOMAIN p.got
       PROVE  saved'[v] = Current(v) \/ updatedAt[v] + MaxSweep >= now
  <2>1. saved'[v] = p.got[v]
    BY <1>8, <1>14
  <2>2. updatedAt[v] >= p.began => updatedAt[v] + MaxSweep >= now
    BY <1>2, <1>3, <1>4, Bounds
  <2> QED BY <1>4, <1>14, <2>1, <2>2
<1>15. ASSUME NEW q \in pages' PROVE Cover(q)'
  <2>1. SUFFICES ASSUME ~broken, Known(q), NEW v \in withSku, Settling(q, v), Lists(q, v)
                 PROVE  \/ saved'[v] = Current(v)
                        \/ \E r \in pages' : r.nr = q.nr /\ Brings(r, v)'
    BY <1>1 DEF Cover, Known, Settling, Lists, Current
  <2>2. q \in pages /\ q # p /\ v \in Variants /\ q.began \in Nat /\ q.began =< now
    BY <1>1, <1>3, PageFields DEF ImportInv, ImportTypes, PageOk
  <2>3. CASE v \in DOMAIN p.got
    <3>1. ~(updatedAt[v] + MaxSweep >= now)
      BY <1>3, <2>1, <2>2, Bounds DEF Settling
    <3> QED BY <1>14, <2>2, <2>3, <3>1
  <2>4. CASE v \notin DOMAIN p.got
    <3>1. saved[v] = Current(v) \/ \E r \in pages : r.nr = q.nr /\ Brings(r, v)
      BY <2>1, <2>2 DEF ImportInv, Cover
    <3>2. ASSUME NEW r \in pages, r.nr = q.nr, Brings(r, v)
          PROVE  r \in pages' /\ Brings(r, v)'
      <4>1. r.after > 0 \/ r.got # NothingFetched
        <5>1. r.after \in Nat
          BY PageFields DEF ImportInv, ImportTypes
        <5>2. r.after = 0 /\ r.got = NothingFetched => q = r
          BY <2>1, <2>2, <3>2 DEF ImportInv, Alone
        <5> QED BY <2>1, <5>1, <5>2 DEF Known
      <4> QED BY <1>12, <2>2, <2>4, <3>2, <4>1
    <3> QED BY <1>8, <2>2, <2>4, <3>1, <3>2
  <2> QED BY <2>3, <2>4
<1>16. Kept'
  <2>1. SUFFICES ASSUME ~broken, NEW v \in withSku
                 PROVE  \/ saved'[v] = Current(v) \/ WouldBeFetched(v)'
                        \/ \E r \in pages' : OfSeveral(r) /\ Brings(r, v)'
    BY <1>1 DEF Kept, Current, OfSeveral
  <2>2. v \in Variants /\ updatedAt[v] \in Nat
    BY <1>3
  <2>3. updatedAt[v] > syncedAt' - Overlap => WouldBeFetched(v)'
    BY <1>1 DEF WouldBeFetched, StartDate, LastSync
  <2>4. CASE v \in DOMAIN p.got
    <3>1. updatedAt[v] + MaxSweep >= now => updatedAt[v] > syncedAt' - Overlap
      BY <1>3, <1>7, <2>2, Bounds DEF Short
    <3> QED BY <1>14, <2>2, <2>3, <2>4, <3>1
  <2>5. CASE v \notin DOMAIN p.got
    <3>1. saved[v] = Current(v) => saved'[v] = Current(v)
      BY <1>8, <2>2, <2>5
    <3>2. ASSUME NEW r \in pages, OfSeveral(r), Brings(r, v)
          PROVE  \E s \in pages' : OfSeveral(s) /\ Brings(s, v)'
      BY <1>12, <1>13, <2>1, <2>2, <2>5, <3>2
    <3>3. CASE WouldBeFetched(v) /\ ~(updatedAt[v] > syncedAt' - Overlap)
      <4>1. syncedAt = NoCursor \/ updatedAt[v] > syncedAt - Overlap
        BY <1>3, <2>2, <3>3, Bounds DEF WouldBeFetched, StartDate, LastSync, NoCursor
      <4>2. syncedAt' = D
        BY <1>3, <1>6, <1>7, <2>2, <3>3, <4>1, Bounds DEF NoCursor
      <4>3. Settling(p, v)
        BY <1>2, <1>3, <1>4, <1>5, <2>2, <3>3, <4>2, Bounds DEF Settling, Short
      <4>4. Lists(p, v)
        BY <1>2, <1>3, <1>4, <2>2, <4>1, Bounds DEF Lists
      <4>5. saved[v] = Current(v) \/ \E r \in pages : r.nr = p.nr /\ Brings(r, v)
        BY <1>1, <2>1, <4>3, <4>4 DEF ImportInv, Cover, Known
      <4>6. ASSUME NEW r \in pages, r.nr = p.nr, Brings(r, v)
            PROVE  OfSeveral(r)
        <5>1. r.after \in Nat /\ r # p
          BY <1>1, <2>5, <4>6, PageFields DEF ImportInv, ImportTypes, Brings, Holds
        <5>2. r.after = 0 /\ ~r.next => p = r
          BY <2>1, <4>6 DEF ImportInv, Alone
        <5> QED BY <5>1, <5>2 DEF OfSeveral
      <4> QED BY <3>1, <3>2, <4>5, <4>6
    <3>4. \/ saved[v] = Current(v) \/ WouldBeFetched(v)
          \/ \E r \in pages : OfSeveral(r) /\ Brings(r, v)
      BY <2>1 DEF ImportInv, Kept
    <3> QED BY <2>3, <3>1, <3>2, <3>3, <3>4
  <2> QED BY <2>4, <2>5
<1> QED BY <1>9, <1>10, <1>11, <1>15, <1>16 DEF ImportInv

\* A page is fetched: what it leaves out comes with the next one.
LEMMA GetKept ==
  ASSUME ImportInv, NEW p \in pages, GetInventoryItems(p)
  PROVE  ImportInv'
<1> PICK page : page = FirstOf(Matching(p))
  OBVIOUS
<1> PICK following : following = NextPage(p)
  OBVIOUS
<1> PICK f : f = [p EXCEPT !.min = updatedAtMin(p), !.got = Mapped(page),
                           !.next = following # {}]
  OBVIOUS
<1> PICK n : n = [p EXCEPT !.min = updatedAtMin(p), !.after = Max(page), !.next = FALSE]
  OBVIOUS
<1>1. /\ p.got = NothingFetched
      /\ pages' = (pages \ {p}) \cup following \cup (IF page \cap withSku = {} THEN {} ELSE {f})
      /\ UNCHANGED <<now, updatedAt, withSku, saved, syncedAt, imports, faults, broken>>
  BY DEF GetInventoryItems, shopVars, faultVars
<1>2. following = IF page = Matching(p) THEN {} ELSE {n}
  BY DEF NextPage
<1>3. /\ p \in Page /\ p.min \in Int /\ p.after \in Nat /\ p.after \in 0..MaxVariant
      /\ p.began \in Nat /\ p.nr \in Nat /\ p.next \in BOOLEAN
  BY PageFields DEF ImportInv, ImportTypes
<1>4. /\ now \in Nat /\ syncedAt \in Int /\ updatedAt \in [Variants -> Nat]
      /\ \A v \in Variants : updatedAt[v] =< now
      /\ withSku \in SUBSET Variants /\ \A v \in withSku : v \in Variants
  BY DEF ImportInv, ImportTypes
<1>5. /\ Matching(p) \in SUBSET Variants /\ page \in SUBSET Matching(p)
      /\ page \in SUBSET Variants /\ Matching(p) # {} => page # {}
  <2>1. Matching(p) \in SUBSET Variants
    BY DEF Matching
  <2> QED BY <2>1, PageOf
<1>6. updatedAtMin(p) \in Int
  BY <1>3, <1>4, Bounds DEF updatedAtMin, StartDate, LastSync, NoCursor
\* What is fetched is current, its customs codes included.
<1>7. /\ Mapped(page) \in Fetched /\ DOMAIN Mapped(page) = page \cap withSku
      /\ \A v \in page \cap withSku : Mapped(page)[v] = Current(v) /\ updatedAt[v] \in Nat
  <2>1. \A v \in page \cap withSku : Mapped(page)[v] = Current(v) /\ updatedAt[v] \in Nat
    BY <1>4, <1>5, CustomsOfAll DEF Mapped, Current
  <2>2. Mapped(page) = [v \in page \cap withSku |-> Current(v)]
    BY <1>5, CustomsOfAll DEF Mapped, Current
  <2>3. \A v \in page \cap withSku : Current(v) \in Version
    BY <2>1 DEF Current, Version
  <2>4. Mapped(page) \in [page \cap withSku -> Version]
    BY <2>2, <2>3
  <2>5. page \cap withSku \in SUBSET Variants
    BY <1>5
  <2> QED BY <2>1, <2>2, <2>4, <2>5 DEF Fetched
<1>8. page \cap withSku # {} => Mapped(page) # NothingFetched
  <2>1. DOMAIN NothingFetched = {}
    BY DEF NothingFetched
  <2> QED BY <1>7, <2>1
<1>9. /\ f \in Page /\ f.min = updatedAtMin(p) /\ f.after = p.after /\ f.got = Mapped(page)
      /\ f.began = p.began /\ f.nr = p.nr /\ f.next = (following # {})
  <2> DEFINE g == [p EXCEPT !.min = updatedAtMin(p)]
             h == [g EXCEPT !.got = Mapped(page)]
  <2>1. /\ g \in Page /\ g.min = updatedAtMin(p) /\ g.after = p.after
        /\ g.began = p.began /\ g.nr = p.nr
    BY <1>3, <1>6 DEF Page
  <2>2. f = [h EXCEPT !.next = following # {}]
    OBVIOUS
  <2> HIDE DEF g
  <2>3. /\ h \in Page /\ h.min = g.min /\ h.after = g.after /\ h.got = Mapped(page)
        /\ h.began = g.began /\ h.nr = g.nr
    BY <1>7, <2>1 DEF Page
  <2> HIDE DEF h
  <2>4. (following # {}) \in BOOLEAN
    OBVIOUS
  <2>5. /\ f \in Page /\ f.min = h.min /\ f.after = h.after /\ f.got = h.got
        /\ f.began = h.began /\ f.nr = h.nr /\ f.next = (following # {})
    BY <2>2, <2>3, <2>4 DEF Page
  <2> QED BY <2>1, <2>3, <2>5
<1>10. page # {} => /\ Max(page) \in 0..MaxVariant /\ Max(page) \in Nat /\ Max(page) > 0
  BY <1>5, Maximum, Bounds
<1>11. page # {} => /\ n \in Page /\ n.min = updatedAtMin(p) /\ n.after = Max(page)
                    /\ n.got = NothingFetched /\ n.began = p.began /\ n.nr = p.nr
                    /\ n.next = FALSE
  <2> DEFINE g == [p EXCEPT !.min = updatedAtMin(p)]
             h == [g EXCEPT !.after = Max(page)]
  <2>1. /\ g \in Page /\ g.min = updatedAtMin(p) /\ g.got = p.got
        /\ g.began = p.began /\ g.nr = p.nr
    BY <1>3, <1>6 DEF Page
  <2>2. n = [h EXCEPT !.next = FALSE]
    OBVIOUS
  <2> HIDE DEF g
  <2>3. page # {} => /\ h \in Page /\ h.min = g.min /\ h.after = Max(page)
                     /\ h.got = g.got /\ h.began = g.began /\ h.nr = g.nr
    BY <1>10, <2>1 DEF Page
  <2> HIDE DEF h
  <2>4. h \in Page => /\ n \in Page /\ n.min = h.min /\ n.after = h.after /\ n.got = h.got
                      /\ n.began = h.began /\ n.nr = h.nr /\ n.next = FALSE
    BY <2>2 DEF Page
  <2> QED BY <1>1, <2>1, <2>3, <2>4
<1>12. following # {} => page # {} /\ following = {n}
  BY <1>2, <1>5
<1>13. /\ DOMAIN n.got = {} \/ page = {}
  <2>1. DOMAIN NothingFetched = {}
    BY DEF NothingFetched
  <2> QED BY <1>11, <2>1
<1>14. ASSUME NEW q \in pages'
       PROVE  \/ q \in pages /\ q # p
              \/ q = n /\ page # {} /\ following = {n}
              \/ q = f /\ page \cap withSku # {}
  BY <1>1, <1>2, <1>12
<1>15. ImportTypes'
  <2>1. pages' \in SUBSET Page
    BY <1>1, <1>9, <1>11, <1>12 DEF ImportInv, ImportTypes
  <2> QED BY <1>1, <2>1 DEF ImportInv, ImportTypes
<1>16. PageOk(p) /\ Alone(p) /\ Cover(p)
  BY DEF ImportInv
\* The updatedAtMin of p, as the message has it or from the cursor.
<1>17. /\ updatedAtMin(p) = NoCursor \/ (syncedAt # NoCursor /\ updatedAtMin(p) =< syncedAt - Overlap)
       /\ \A v \in Variants : v \in Matching(p) =>
            v > p.after /\ (updatedAtMin(p) = NoCursor \/ updatedAt[v] > updatedAtMin(p))
  <2>1. updatedAtMin(p) = NoCursor \/ (syncedAt # NoCursor /\ updatedAtMin(p) =< syncedAt - Overlap)
    <3>1. CASE p.after > 0
      BY <1>16, <3>1 DEF PageOk, Known, updatedAtMin
    <3>2. CASE ~(p.after > 0)
      BY <1>4, <3>2, Bounds DEF updatedAtMin, StartDate, LastSync
    <3> QED BY <3>1, <3>2
  <2> QED BY <2>1 DEF Matching
<1>18. ASSUME NEW q \in pages', NEW v \in Variants PROVE PageOk(q)' /\ Lists(q, v)' = Lists(q, v)
  <2>1. CASE q \in pages /\ q # p
    BY <1>1, <2>1 DEF ImportInv, PageOk, Known, Lists, Current
  <2>2. CASE q = n /\ page # {} /\ following = {n}
    <3>1. DOMAIN n.got = {}
      BY <1>13, <2>2
    <3> QED BY <1>1, <1>11, <1>16, <1>17, <2>2, <3>1 DEF PageOk, Known, Lists
  <2>3. CASE q = f /\ page \cap withSku # {}
    <3>1. \A w \in DOMAIN f.got :
            /\ w > f.after /\ Lists(f, w) /\ f.got[w] = Current(w) /\ f.got[w].date =< now
      BY <1>4, <1>5, <1>7, <1>9, <1>17 DEF Lists, Current
    <3>2. DOMAIN f.got # {}
      BY <1>7, <1>9, <2>3
    <3> QED BY <1>1, <1>9, <1>16, <1>17, <2>3, <3>1, <3>2 DEF PageOk, Known, Lists, Current
  <2> QED BY <1>14, <2>1, <2>2, <2>3
<1>19. ASSUME NEW q \in pages' PROVE Alone(q)'
  <2>1. \A r \in pages' : (r \in pages /\ r # p) \/ r.nr = p.nr
    BY <1>9, <1>11, <1>14
  <2>2. CASE q \in pages /\ q # p
    <3>1. ~broken /\ q.after = 0 =>
            /\ ~q.next => \A r \in pages : r.nr = q.nr => r = q
            /\ q.got = NothingFetched => ~q.next
      BY <2>2 DEF ImportInv, Alone
    <3>2. ~broken /\ q.after = 0 /\ ~q.next => p.nr # q.nr
      BY <2>2, <3>1
    <3> QED BY <1>1, <2>1, <3>1, <3>2 DEF Alone
  <2>3. CASE q = n /\ page # {} /\ following = {n}
    BY <1>10, <1>11, <2>3 DEF Alone
  <2>4. CASE q = f /\ page \cap withSku # {}
    <3>2. ~broken /\ f.after = 0 /\ ~f.next =>
            /\ following = {}
            /\ \A r \in pages : r.nr = p.nr => r = p
      BY <1>1, <1>9, <1>16 DEF Alone
    <3>3. following = {} => \A r \in pages' : r = f \/ (r \in pages /\ r # p)
      BY <1>14
    <3>4. f.got # NothingFetched
      BY <1>8, <1>9, <2>4
    <3> QED BY <1>1, <1>9, <2>4, <3>2, <3>3, <3>4 DEF Alone
  <2> QED BY <1>14, <2>2, <2>3, <2>4
<1>20. ASSUME NEW v \in Variants, NEW q \in pages, q # p, Brings(q, v)
       PROVE  q \in pages' /\ Brings(q, v)'
  BY <1>1, <1>20 DEF Brings, Holds, Current, Matching, updatedAtMin, StartDate, LastSync
<1>21. ASSUME NEW v \in withSku, v \in Matching(p)
       PROVE  \E s \in pages' : /\ s.nr = p.nr /\ Brings(s, v)'
                                /\ p.after > 0 => s.after > 0
  <2>1. CASE v \in page
    <3>1. f \in pages' /\ f.got # NothingFetched
      BY <1>1, <1>8, <1>9, <2>1
    <3>2. v \in DOMAIN f.got /\ f.got[v] = Current(v)
      BY <1>7, <1>9, <2>1
    <3>3. Brings(f, v)'
      BY <1>1, <3>1, <3>2 DEF Brings, Holds, Current
    <3> QED BY <1>9, <3>1, <3>3
  <2>2. CASE v \notin page
    <3>1. following = {n} /\ n \in pages' /\ page # {}
      BY <1>1, <1>2, <1>12, <1>21, <2>2
    <3>2. v > Max(page)
      <4>1. Max(page) \in page
        BY <1>5, <3>1, Maximum
      <4>2. Max(page) < v
        BY <1>5, <1>21, <2>2, <4>1, Behind
      <4>3. Max(page) \in Nat /\ v \in Nat
        BY <1>4, <1>10, <3>1, VariantSets
      <4> QED BY <4>2, <4>3
    <3>3. (v \in Matching(n))'
      BY <1>1, <1>4, <1>10, <1>11, <1>17, <1>21, <3>1, <3>2 DEF Matching, updatedAtMin
    <3>4. Brings(n, v)'
      BY <1>1, <1>11, <3>1, <3>3 DEF Brings
    <3> QED BY <1>10, <1>11, <3>1, <3>4
  <2> QED BY <2>1, <2>2
<1>22. ASSUME NEW q \in pages' PROVE Cover(q)'
  <2>1. SUFFICES ASSUME ~broken, Known(q), NEW v \in withSku, Settling(q, v), Lists(q, v)
                 PROVE  \/ saved[v] = Current(v)
                        \/ \E r \in pages' : r.nr = q.nr /\ Brings(r, v)'
    BY <1>1 DEF Cover, Known, Settling, Lists, Current
  <2>2. v \in Variants
    BY <1>4
  <2>3. ASSUME NEW r \in pages, r.nr = q.nr, Brings(r, v)
        PROVE  \E s \in pages' : s.nr = q.nr /\ Brings(s, v)'
    <3>1. CASE r # p
      BY <1>20, <2>2, <2>3, <3>1
    <3>2. CASE r = p
      <4>1. v \in Matching(p)
        BY <1>1, <2>3, <3>2 DEF Brings
      <4> QED BY <1>21, <2>3, <3>2, <4>1
    <3> QED BY <3>1, <3>2
  <2>4. CASE q \in pages /\ q # p
    BY <2>1, <2>3, <2>4 DEF ImportInv, Cover
  <2>5. CASE ~(q \in pages /\ q # p)
    <3>1. q.min = updatedAtMin(p) /\ q.nr = p.nr /\ q.began = p.began
      BY <1>9, <1>11, <1>14, <2>5
    <3>2. CASE p.after > 0
      <4>1. Known(p) /\ Settling(p, v) /\ Lists(p, v)
        BY <2>1, <3>1, <3>2 DEF Known, Settling, Lists, updatedAtMin
      <4>2. saved[v] = Current(v) \/ \E r \in pages : r.nr = p.nr /\ Brings(r, v)
        BY <1>16, <2>1, <4>1 DEF Cover
      <4> QED BY <2>3, <3>1, <4>2
    <3>3. CASE ~(p.after > 0)
      <4>1. v >= 1 /\ p.after = 0
        BY <1>3, <2>2, <3>3, Bounds DEF Variants
      <4>2. v > p.after
        BY <2>2, <4>1, Bounds DEF Variants
      <4>3. v \in Matching(p)
        BY <2>1, <2>2, <3>1, <4>2 DEF Matching, Lists
      <4> QED BY <1>21, <3>1, <4>3
    <3> QED BY <3>2, <3>3
  <2> QED BY <2>4, <2>5
<1>23. Kept'
  <2>1. SUFFICES ASSUME ~broken, NEW v \in withSku
                 PROVE  \/ saved[v] = Current(v) \/ WouldBeFetched(v)
                        \/ \E r \in pages' : OfSeveral(r) /\ Brings(r, v)'
    BY <1>1 DEF Kept, WouldBeFetched, StartDate, LastSync, Current, OfSeveral
  <2>2. \/ saved[v] = Current(v) \/ WouldBeFetched(v)
        \/ \E r \in pages : OfSeveral(r) /\ Brings(r, v)
    BY <2>1 DEF ImportInv, Kept
  <2>3. ASSUME NEW r \in pages, OfSeveral(r), Brings(r, v)
        PROVE  \E s \in pages' : OfSeveral(s) /\ Brings(s, v)'
    <3>1. CASE r # p
      BY <1>4, <1>20, <2>3, <3>1
    <3>2. CASE r = p
      <4>1. p.after > 0
        <5>1. p.after = 0 => ~p.next
          BY <1>1, <1>16, <2>1 DEF Alone
        <5>2. p.after > 0 \/ p.next
          BY <2>3, <3>2 DEF OfSeveral
        <5>3. p.after \in Nat
          BY <1>3
        <5>4. p.after # 0
          BY <5>1, <5>2
        <5> QED BY <5>3, <5>4
      <4>2. v \in Matching(p)
        BY <1>1, <2>3, <3>2 DEF Brings
      <4> QED BY <1>21, <4>1, <4>2 DEF OfSeveral
    <3> QED BY <3>1, <3>2
  <2> QED BY <2>2, <2>3
<1>24. Variants # {}
  BY Bounds DEF Variants
<1> QED BY <1>15, <1>18, <1>19, <1>22, <1>23, <1>24 DEF ImportInv

\* A step of the other direction changes nothing here.
LEMMA ImportStutters ==
  ASSUME ImportInv, UNCHANGED vars
  PROVE  ImportInv'
BY DEF vars, ImportInv, ImportTypes, PageOk, Known, Lists, Current, Alone, Cover, Settling,
       Brings, Holds, Matching, updatedAtMin, StartDate, LastSync, Kept, WouldBeFetched,
       OfSeveral

(***************************************************************************)
(* No version is skipped.                                                  *)
(***************************************************************************)
\* The invariant holds while the import is what is explored.
OfVariants == part = "variants" => ImportInv

\* sendInventoryItemsToMiddleware, processLastSyncDate: no version of a variant is skipped,
\* with twice the time of a sweep below the overlap, for any number of variants, any page
\* size and any number of imports, edits, lost pages and crashes. TLC refutes it where the
\* two are equal.
THEOREM VariantsKept ==
  Short => (InventorySpec => []NoVariantSkipped)
<1> SUFFICES ASSUME Short PROVE InventorySpec => []NoVariantSkipped
  OBVIOUS
<1>1. InventoryInit => OfVariants
  BY ImportInitially DEF InventoryInit, OfVariants
<1>2. OfVariants /\ [InventoryNext]_<<part, vars, stockPart>> => OfVariants'
  <2> SUFFICES ASSUME OfVariants, [InventoryNext]_<<part, vars, stockPart>>,
                      part' = "variants"
               PROVE  ImportInv'
    BY DEF OfVariants
  <2>1. part = "variants" /\ ImportInv /\ [Next]_vars
    BY DEF InventoryNext, OfVariants
  <2>2. CASE UNCHANGED vars
    BY <2>1, <2>2, ImportStutters
  <2>3. CASE Next
    BY <2>1, <2>3, ImportKept, TickKept, EditKept, GetKept, SendKept, CrashKept, LoseKept
       DEF Next
  <2> QED BY <2>1, <2>2, <2>3
<1>3. OfVariants => NoVariantSkipped
  <2> SUFFICES ASSUME ImportInv, ~broken, NEW v \in withSku
               PROVE  saved[v] = Current(v) \/ WouldBeFetched(v) \/ OnItsWay(v)
    BY DEF OfVariants, NoVariantSkipped, NothingSkipped
  <2> QED BY DEF ImportInv, Kept, Brings, Holds, OnItsWay
<1> QED BY <1>1, <1>2, <1>3, PTL DEF InventorySpec
(***************************************************************************)
(* Stock levels: what is held of a component, directly and in bundles.     *)
(***************************************************************************)
LevelOK == [available : Int, committed : Nat, unavailable : Nat]
ItemsOf == Components \cup Bundles

\* What the constants are, spelled out.
LEMMA Stored ==
  /\ IsFiniteSet(Components) /\ IsFiniteSet(Bundles) /\ Components \cap Bundles = {}
  /\ IsFiniteSet(ItemsOf) /\ Stock!Items = ItemsOf
  /\ \A b \in Bundles, c \in Components : Recipe[b][c] \in Nat
  /\ \A b \in Bundles : Stock!ComponentsOf(b) \subseteq Components
                        /\ Stock!ComponentsOf(b) # {}
  /\ \A b \in Bundles : \A c \in Stock!ComponentsOf(b) : Recipe[b][c] > 0
  /\ \A c \in Components : Stock!BundlesOf(c) \subseteq Bundles
  /\ \A c \in Components : \A b \in Bundles \ Stock!BundlesOf(c) : Recipe[b][c] = 0
<1>1. IsFiniteSet(ItemsOf)
  BY ItemsAreFinite, FS_Union DEF ItemsOf
<1>2. \A b \in Bundles, c \in Components : Recipe[b][c] \in Nat
  <2> SUFFICES ASSUME NEW b \in Bundles, NEW c \in Components PROVE Recipe[b][c] \in Nat
    OBVIOUS
  <2>1. Recipe[b] \in [Components -> Nat]
    BY StockAssumption DEF Stock!ConstantsFit
  <2> QED BY <2>1
<1>3. \A b \in Bundles : Stock!ComponentsOf(b) # {}
  BY StockAssumption DEF Stock!ConstantsFit
<1>4. \A c \in Components : \A b \in Bundles \ Stock!BundlesOf(c) : Recipe[b][c] = 0
  BY <1>2 DEF Stock!BundlesOf
<1>5. IsFiniteSet(Components) /\ IsFiniteSet(Bundles) /\ Components \cap Bundles = {}
  BY ItemsAreFinite, StockAssumption DEF Stock!ConstantsFit
<1> QED BY <1>1, <1>2, <1>3, <1>4, <1>5
      DEF Stock!Items, ItemsOf, Stock!ComponentsOf, Stock!BundlesOf

\* The sums of StockLevels are those of Sums.
LEMMA SameSum == ASSUME NEW f, NEW S PROVE Stock!Sum(f, S) = Sum(f, S)
BY DEF Stock!Sum, Stock!MapThenSumSet, Stock!MapThenFoldSet, Sum, MapThenSumSet, MapThenFoldSet

\* A sum of zeros.
LEMMA SumOfZeros ==
  ASSUME NEW S, IsFiniteSet(S), NEW f, \A x \in S : f[x] = 0
  PROVE  Sum(f, S) = 0
<1>1. PICK g : g = [x \in S |-> 0]
  OBVIOUS
<1>2. \A x \in S : g[x] = 0
  BY <1>1
<1>3. Sum(g, S) = Sum(f, S)
  BY <1>2, SumSame
<1>4. PICK n \in Nat : n = Sum(g, S)
  BY <1>2, SumType
<1>5. Sum(g, S) = Sum(g, S) + Sum(g, S)
  BY <1>2, SumPlus
<1>6. n = n + n
  BY <1>4, <1>5
<1>7. n = 0
  BY <1>6
<1>8. Sum(g, S) = 0
  BY <1>4, <1>7
<1> QED BY <1>3, <1>8

\* Of a component, everything that is held of the items is what is held of itself and,
\* times the recipe, of its bundles.
HoldWeights(c, w, f, g) ==
  /\ \A i \in ItemsOf : w[i] \in Nat /\ f[i] = Stock!HoldsOf(i, c) * w[i]
  /\ \A b \in Stock!BundlesOf(c) : g[b] = w[b] * Recipe[b][c]

LEMMA HeldInBundles ==
  ASSUME NEW c \in Components, NEW w, NEW f, NEW g, HoldWeights(c, w, f, g)
  PROVE  Sum(f, ItemsOf) = w[c] + Sum(g, Stock!BundlesOf(c))
<1> DEFINE B == Stock!BundlesOf(c)
           others == Bundles \ B
           rest == Components \ {c}
<1>1. /\ \A i \in ItemsOf : w[i] \in Nat /\ f[i] = Stock!HoldsOf(i, c) * w[i]
      /\ \A b \in B : g[b] = w[b] * Recipe[b][c]
  BY DEF HoldWeights
<1>2. /\ IsFiniteSet(B) /\ IsFiniteSet(others) /\ IsFiniteSet(rest)
      /\ B \subseteq Bundles /\ ItemsOf = (B \cup others) \cup (rest \cup {c})
  BY Stored, FS_Subset DEF ItemsOf
<1>3. \A b \in Bundles : f[b] = Recipe[b][c] * w[b] /\ Recipe[b][c] \in Nat /\ w[b] \in Nat
  BY <1>1, Stored DEF Stock!HoldsOf, ItemsOf
<1>4. \A d \in rest : f[d] = 0
  BY <1>1, Stored DEF Stock!HoldsOf, ItemsOf
<1>5. f[c] = w[c] /\ w[c] \in Nat
  BY <1>1, Stored DEF Stock!HoldsOf, ItemsOf
<1>6. \A b \in others : f[b] = 0
  BY <1>3, Stored
<1>7. \A b \in B : f[b] = g[b] /\ f[b] \in Nat
  <2> SUFFICES ASSUME NEW b \in B PROVE f[b] = g[b] /\ f[b] \in Nat
    OBVIOUS
  <2>1. b \in Bundles /\ g[b] = w[b] * Recipe[b][c]
    BY <1>1, <1>2
  <2> QED BY <1>3, <2>1
<1> HIDE DEF others, rest, B
<1>8. \A i \in ItemsOf : f[i] \in Nat
  BY <1>2, <1>4, <1>5, <1>6, <1>7
<1>9. /\ (B \cup others) \cap (rest \cup {c}) = {} /\ B \cap others = {} /\ c \notin rest
      /\ IsFiniteSet(B \cup others) /\ IsFiniteSet(rest \cup {c})
  BY <1>2, Stored, FS_Union, FS_Singleton DEF others, rest, B
<1>10. Sum(f, ItemsOf) = Sum(f, B \cup others) + Sum(f, rest \cup {c})
  BY <1>2, <1>8, <1>9, SumUnion
<1>11. Sum(f, B \cup others) = Sum(f, B) + Sum(f, others)
  BY <1>2, <1>8, <1>9, SumUnion
<1>12. Sum(f, rest \cup {c}) = f[c] + Sum(f, rest)
  BY <1>2, <1>8, <1>9, SumAdd
<1>13. Sum(f, others) = 0 /\ Sum(f, rest) = 0 /\ Sum(f, B) = Sum(g, B) /\ Sum(f, B) \in Nat
  BY <1>2, <1>4, <1>6, <1>7, SumOfZeros, SumSame, SumType
<1> QED BY <1>5, <1>10, <1>11, <1>12, <1>13 DEF B

(***************************************************************************)
(* Rounding, and the least of finitely many quantities.                    *)
(***************************************************************************)
\* Math.floor and Math.ceil of a quotient, times the divisor.
LEMMA Rounding ==
  ASSUME NEW n \in Int, NEW q \in Nat, q > 0
  PROVE  /\ n \div q \in Int /\ q * (n \div q) =< n /\ n < q * (n \div q) + q
         /\ Stock!CeilDiv(n, q) \in Int
         /\ n =< q * Stock!CeilDiv(n, q) /\ q * Stock!CeilDiv(n, q) < n + q
<1>1. \A i \in Int : i \div q \in Int /\ q * (i \div q) =< i /\ i < q * (i \div q) + q
  OBVIOUS
<1>2. n + q - 1 \in Int
  OBVIOUS
<1>3. PICK m : m = n + q - 1
  OBVIOUS
<1>4. m \div q \in Int /\ q * (m \div q) =< m /\ m < q * (m \div q) + q
  BY <1>1, <1>2, <1>3
<1>5. Stock!CeilDiv(n, q) = m \div q
  BY <1>3 DEF Stock!CeilDiv
<1>6. PICK d \in Int : d = m \div q
  BY <1>4
<1>7. q * d \in Int /\ q * d =< n + q - 1 /\ n + q - 1 < q * d + q
  BY <1>3, <1>4, <1>6
<1>8. n =< q * d /\ q * d < n + q
  BY <1>7
<1> QED BY <1>1, <1>5, <1>6, <1>8

\* Rounding each of the three quantities the safe way leaves room for what is held, and
\* keeps back less than three bundles.
LEMMA RoundedSafely ==
  ASSUME NEW p \in Int, NEW held \in Int, NEW aside \in Int, NEW q \in Nat, q > 0,
         NEW a \in Int,
         NEW x \in Int, q * x =< p, p < q * x + q,
         NEW y \in Int, held =< q * y, q * y < held + q,
         NEW z \in Int, aside =< q * z, q * z < aside + q
  PROVE  /\ a =< x - y - z => held + aside + q * a =< p
         /\ a = x - y - z => held + aside + q * (a + 3) > p
<1>1. q * (x - y - z) = q * x - q * y - q * z /\ q * x \in Int /\ q * y \in Int /\ q * z \in Int
  OBVIOUS
<1>2. ASSUME a =< x - y - z PROVE held + aside + q * a =< p
  <2>1. q * a =< q * (x - y - z) /\ q * a \in Int
    BY <1>2
  <2> QED BY <1>1, <2>1
<1>3. ASSUME a = x - y - z PROVE held + aside + q * (a + 3) > p
  <2>1. q * (a + 3) = q * x - q * y - q * z + 3 * q
    BY <1>3
  <2> QED BY <1>1, <2>1
<1> QED BY <1>2, <1>3

\* Finitely many integers have a least one.
LEMMA LeastOf ==
  ASSUME NEW S, IsFiniteSet(S), S # {}, NEW f, \A x \in S : f[x] \in Int
  PROVE  \E x \in S : \A y \in S : f[x] =< f[y]
<1> DEFINE P == {u \in SUBSET S : u # {} => \E x \in u : \A y \in u : f[x] =< f[y]}
<1>1. ASSUME NEW u \in SUBSET S, \A x \in u : u \ {x} \in P
      PROVE  u \in P
  <2> SUFFICES ASSUME u # {} PROVE \E x \in u : \A y \in u : f[x] =< f[y]
    OBVIOUS
  <2>1. PICK a \in u : TRUE
    OBVIOUS
  <2>2. CASE u = {a}
    BY <2>2
  <2>3. CASE u # {a}
    <3>1. u \ {a} # {} /\ u \ {a} \in P
      BY <1>1, <2>1, <2>3
    <3>2. PICK b \in u \ {a} : \A y \in u \ {a} : f[b] =< f[y]
      BY <3>1
    <3>3. CASE f[a] =< f[b]
      BY <2>1, <3>2, <3>3
    <3>4. CASE f[b] =< f[a]
      BY <2>1, <3>2, <3>4
    <3> QED BY <3>2, <3>3, <3>4
  <2> QED BY <2>2, <2>3
<1> HIDE DEF P
<1>2. S \in P
  BY <1>1, SubsetInduction
<1> QED BY <1>2 DEF P

\* Min finds it.
LEMMA MinIsLeast ==
  ASSUME NEW S, IsFiniteSet(S), S # {}, NEW f, \A x \in S : f[x] \in Int
  PROVE  \E x \in S : /\ Stock!Min({f[y] : y \in S}) = f[x]
                      /\ \A y \in S : f[x] =< f[y]
<1> DEFINE V == {f[y] : y \in S}
<1>1. PICK x \in S : \A y \in S : f[x] =< f[y]
  BY LeastOf
<1>2. f[x] \in V /\ \A v \in V : f[x] =< v
  BY <1>1
<1>3. Stock!Min(V) \in V /\ \A v \in V : Stock!Min(V) =< v
  BY <1>2 DEF Stock!Min
<1> QED BY <1>3

(***************************************************************************)
(* What the shop may offer (calculateTotalSellableQuantity) and what there *)
(* is.                                                                     *)
(***************************************************************************)
\* What is committed of an item, or put aside, is a natural number.
LevelsOK == shop \in [ItemsOf -> LevelOK]
StockOK  == physical \in [Components -> Nat]

\* When the ids are known, the two quantities of a component are numbers and together
\* what is held of all items.
LEMMA HeldIs ==
  ASSUME LevelsOK, synced = ItemsOf, NEW c \in Components,
         NEW f, f = [j \in Stock!Items |->
                       Stock!HoldsOf(j, c) * (shop[j].committed + shop[j].unavailable)]
  PROVE  /\ Stock!Committed(c) \in Nat /\ Stock!Unavailable(c) \in Nat
         /\ Stock!Sum(f, Stock!Items) = Stock!Committed(c) + Stock!Unavailable(c)
<1> DEFINE B == Stock!BundlesOf(c)
<1> PICK w : w = [j \in ItemsOf |-> shop[j].committed + shop[j].unavailable]
  OBVIOUS
<1> PICK k : k = [b \in B |-> Stock!Seen(b)["committed"] * Recipe[b][c]]
  OBVIOUS
<1> PICK u : u = [b \in B |-> Stock!Seen(b)["unavailable"] * Recipe[b][c]]
  OBVIOUS
<1> PICK g : g = [b \in B |-> w[b] * Recipe[b][c]]
  OBVIOUS
<1>1. /\ IsFiniteSet(B) /\ B \subseteq ItemsOf /\ c \in ItemsOf /\ Stock!Items = ItemsOf
  BY Stored, FS_Subset DEF ItemsOf
<1>2. \A j \in ItemsOf : /\ shop[j].committed \in Nat /\ shop[j].unavailable \in Nat
                         /\ Stock!Seen(j) = shop[j]
                         /\ w[j] = shop[j].committed + shop[j].unavailable /\ w[j] \in Nat
  BY DEF LevelsOK, LevelOK, Stock!Seen, Stock!getManyInventoryItemsInventoryLevels
<1>3. \A b \in B : Recipe[b][c] \in Nat
  BY Stored
<1>4. \A b \in B : /\ k[b] = shop[b].committed * Recipe[b][c]
                   /\ u[b] = shop[b].unavailable * Recipe[b][c]
                   /\ g[b] = w[b] * Recipe[b][c]
  BY <1>1, <1>2
<1>5. \A b \in B : k[b] \in Nat /\ u[b] \in Nat /\ g[b] = k[b] + u[b]
  <2> SUFFICES ASSUME NEW b \in B PROVE k[b] \in Nat /\ u[b] \in Nat /\ g[b] = k[b] + u[b]
    OBVIOUS
  <2>1. PICK x \in Nat : x = shop[b].committed
    BY <1>1, <1>2
  <2>2. PICK y \in Nat : y = shop[b].unavailable
    BY <1>1, <1>2
  <2>3. PICK q \in Nat : q = Recipe[b][c]
    BY <1>3
  <2>4. k[b] = x * q /\ u[b] = y * q /\ g[b] = (x + y) * q
    BY <1>1, <1>2, <1>4, <2>1, <2>2, <2>3
  <2>5. (x + y) * q = x * q + y * q /\ x * q \in Nat /\ y * q \in Nat
    OBVIOUS
  <2> QED BY <2>4, <2>5
<1>6. /\ Stock!Committed(c) = shop[c].committed + Sum(k, B)
      /\ Stock!Unavailable(c) = shop[c].unavailable + Sum(u, B)
  BY <1>1, <1>2, SameSum DEF Stock!Committed, Stock!Unavailable, Stock!InBundles
<1> HIDE DEF B
<1>7. Sum(k, B) \in Nat /\ Sum(u, B) \in Nat /\ Sum(g, B) = Sum(k, B) + Sum(u, B)
  BY <1>1, <1>5, SumType, SumPlus
<1>8. \A j \in ItemsOf : f[j] = Stock!HoldsOf(j, c) * w[j]
  BY <1>1, <1>2
<1>9. \A b \in Stock!BundlesOf(c) : g[b] = w[b] * Recipe[b][c]
  BY <1>4 DEF B
<1>10. HoldWeights(c, w, f, g)
  BY <1>2, <1>8, <1>9 DEF HoldWeights
<1>11. Sum(f, ItemsOf) = w[c] + Sum(g, Stock!BundlesOf(c))
  BY <1>10, HeldInBundles
<1>12. Stock!Sum(f, Stock!Items) = Sum(f, ItemsOf)
  BY <1>1, SameSum
<1> QED BY <1>1, <1>2, <1>6, <1>7, <1>11, <1>12 DEF B

\* calculateTotalSellableQuantity is a number, of components what the message says is there.
Counts(m) == /\ m \in Stock!Message
             /\ m.item \in Components => m.physical = physical[m.item]

\* Of a regular item: what is not held.
LEMMA RegularCovers ==
  ASSUME LevelsOK, StockOK, synced = ItemsOf, NEW m, Counts(m), m.item \in Components,
         NEW a \in Int
  PROVE  /\ Stock!calculateTotalSellableQuantity(m) \in Int
         /\ a =< Stock!calculateTotalSellableQuantity(m)
              => Stock!Covers(m.item, m.item, a, m.manual)
         /\ a = Stock!calculateTotalSellableQuantity(m)
              => ~Stock!Covers(m.item, m.item, a + 1, m.manual)
<1> DEFINE c == m.item
<1>1. PICK f : f = [j \in Stock!Items |->
                      Stock!HoldsOf(j, c) * (shop[j].committed + shop[j].unavailable)]
  OBVIOUS
<1>2. PICK x \in Nat : x = Stock!Committed(c)
  BY <1>1, HeldIs
<1>3. PICK y \in Nat : y = Stock!Unavailable(c)
  BY <1>1, HeldIs
<1>4. Stock!Sum(f, Stock!Items) = x + y
  BY <1>1, <1>2, <1>3, HeldIs
<1>5. PICK n \in Nat : n = m.manual
  BY StockAssumption DEF Counts, Stock!Message, Stock!ConstantsFit
<1>6. PICK p \in Nat : p = physical[c]
  BY DEF StockOK
<1>7. c \notin Bundles /\ Stock!HoldsOf(c, c) = 1
  BY Stored DEF Stock!HoldsOf
<1>8. Stock!calculateTotalSellableQuantity(m) = p - x - y - n
  BY <1>2, <1>3, <1>5, <1>6, <1>7
     DEF Counts, Stock!calculateTotalSellableQuantity, Stock!RegularQuantity
<1>9. \A v \in Int : Stock!Covers(c, c, v, m.manual) <=> x + y + (v + n) =< p
  BY <1>1, <1>4, <1>5, <1>6, <1>7 DEF Stock!Covers
<1>10. a + 1 \in Int
  OBVIOUS
<1> QED BY <1>8, <1>9, <1>10

\* Of a bundle: what the scarcest component is enough for, less what three roundings take.
LEMMA BundleCovers ==
  ASSUME LevelsOK, StockOK, synced = ItemsOf, NEW m, Counts(m), m.item \in Bundles,
         NEW a \in Int
  PROVE  /\ Stock!calculateTotalSellableQuantity(m) \in Int
         /\ a =< Stock!calculateTotalSellableQuantity(m)
              => \A c \in Stock!ComponentsOf(m.item) :
                   Stock!Covers(c, m.item, a, m.manual)
         /\ a = Stock!calculateTotalSellableQuantity(m)
              => \E c \in Stock!ComponentsOf(m.item) :
                   ~Stock!Covers(c, m.item, a + 3, m.manual)
<1>1. PICK b \in Bundles : b = m.item
  OBVIOUS
<1>2. PICK n \in Nat : n = m.manual
  BY StockAssumption DEF Counts, Stock!Message, Stock!ConstantsFit
<1>3. PICK C : C = Stock!ComponentsOf(b)
  OBVIOUS
<1>4. PICK f : f = [c \in C |-> Stock!BundleQuantityFor(b, c, n)]
  OBVIOUS
<1>5. C \subseteq Components /\ IsFiniteSet(C) /\ C # {}
  BY <1>3, Stored, FS_Subset
<1>6. ASSUME NEW c \in C
      PROVE  /\ f[c] \in Int
             /\ \A v \in Int : v =< f[c] => Stock!Covers(c, b, v, n)
             /\ \A v \in Int : v = f[c] => ~Stock!Covers(c, b, v + 3, n)
  <2>1. PICK h : h = [j \in Stock!Items |->
                        Stock!HoldsOf(j, c) * (shop[j].committed + shop[j].unavailable)]
    OBVIOUS
  <2>2. c \in Components
    BY <1>5
  <2>3. PICK x \in Nat : x = Stock!Committed(c)
    BY <2>1, <2>2, HeldIs
  <2>4. PICK y \in Nat : y = Stock!Unavailable(c)
    BY <2>1, <2>2, HeldIs
  <2>5. Stock!Sum(h, Stock!Items) = x + y
    BY <2>1, <2>2, <2>3, <2>4, HeldIs
  <2>6. PICK p \in Nat : p = physical[c]
    BY <2>2 DEF StockOK
  <2>7. PICK q \in Nat : q = Recipe[b][c] /\ q > 0
    BY <1>3, <2>2, Stored
  <2>8. Stock!HoldsOf(b, c) = q
    BY <2>7 DEF Stock!HoldsOf
  <2>9. x \in Int /\ y \in Int /\ p \in Int
    OBVIOUS
  <2>10. /\ p \div q \in Int /\ q * (p \div q) =< p /\ p < q * (p \div q) + q
    BY <2>9, <2>7, Rounding
  <2>11. /\ Stock!CeilDiv(x, q) \in Int /\ x =< q * Stock!CeilDiv(x, q)
         /\ q * Stock!CeilDiv(x, q) < x + q
    BY <2>9, <2>7, Rounding
  <2>12. /\ Stock!CeilDiv(y, q) \in Int /\ y =< q * Stock!CeilDiv(y, q)
         /\ q * Stock!CeilDiv(y, q) < y + q
    BY <2>9, <2>7, Rounding
  <2>13. PICK px \in Int : px = p \div q /\ q * px =< p /\ p < q * px + q
    BY <2>10
  <2>14. PICK qx \in Int : qx = Stock!CeilDiv(x, q) /\ x =< q * qx /\ q * qx < x + q
    BY <2>11
  <2>15. PICK rx \in Int : rx = Stock!CeilDiv(y, q) /\ y =< q * rx /\ q * rx < y + q
    BY <2>12
  <2>16. f[c] = px - qx - rx - n
    BY <1>4, <2>3, <2>4, <2>6, <2>7, <2>13, <2>14, <2>15 DEF Stock!BundleQuantityFor
  <2>17. \A v \in Int : Stock!Covers(c, b, v, n) <=> x + y + q * (v + n) =< p
    BY <2>1, <2>5, <2>6, <2>8 DEF Stock!Covers
  <2>18. ASSUME NEW v \in Int, v =< f[c] PROVE x + y + q * (v + n) =< p
    <3>1. PICK t \in Int : t = v + n
      OBVIOUS
    <3>2. t =< px - qx - rx
      BY <2>16, <2>18, <3>1
    <3> QED BY <2>9, <2>7, <2>13, <2>14, <2>15, <3>1, <3>2, RoundedSafely
  <2>19. ASSUME NEW v \in Int, v = f[c] PROVE ~(x + y + q * ((v + 3) + n) =< p)
    <3>1. PICK t \in Int : t = v + n
      OBVIOUS
    <3>2. t = px - qx - rx
      BY <2>16, <2>19, <3>1
    <3>3. x + y + q * (t + 3) > p
      BY <2>9, <2>7, <2>13, <2>14, <2>15, <3>2, RoundedSafely
    <3>4. (v + 3) + n = t + 3
      BY <3>1
    <3> QED BY <3>3, <3>4
  <2>20. ASSUME NEW v \in Int, v = f[c] PROVE ~Stock!Covers(c, b, v + 3, n)
    <3>1. PICK t \in Int : t = v + 3
      OBVIOUS
    <3>2. ~(x + y + q * (t + n) =< p)
      BY <2>19, <2>20, <3>1
    <3> QED BY <2>17, <3>1, <3>2
  <2>21. \A v \in Int : v =< f[c] => Stock!Covers(c, b, v, n)
    BY <2>17, <2>18
  <2>22. f[c] \in Int
    BY <2>16
  <2> QED BY <2>20, <2>21, <2>22
<1>7. PICK least \in C : /\ Stock!Min({f[c] : c \in C}) = f[least]
                         /\ \A c \in C : f[least] =< f[c]
  BY <1>5, <1>6, MinIsLeast
<1>8. {f[c] : c \in C} = {Stock!BundleQuantityFor(b, c, n) : c \in C}
  BY <1>4
<1>9. Stock!calculateTotalSellableQuantity(m) = f[least]
  BY <1>1, <1>2, <1>3, <1>7, <1>8
     DEF Stock!calculateTotalSellableQuantity, Stock!calculateTotalSellableQuantityForBundle
<1>10. f[least] \in Int
  BY <1>6
<1>11. ASSUME a =< f[least], NEW c \in C PROVE Stock!Covers(c, b, a, n)
  <2>1. f[c] \in Int /\ f[least] =< f[c]
    BY <1>6, <1>7
  <2>2. a =< f[c]
    BY <1>10, <1>11, <2>1
  <2> QED BY <1>6, <2>2
<1>12. a = f[least] => ~Stock!Covers(least, b, a + 3, n)
  BY <1>6
<1> QED BY <1>1, <1>2, <1>3, <1>9, <1>10, <1>11, <1>12

\* The quantity computed for the item of a message, and what rounding may take of it.
Sellable(m) == Stock!calculateTotalSellableQuantity(m)
Slack(m)    == IF m.item \in Bundles THEN 3 ELSE 1

\* The sellable quantity of an item or bundle (calculateTotalSellableQuantity,
\* shopify.service.ts:2278): no more than every component covers, and no fewer than rounding
\* takes of one of them.
THEOREM SellableCovers ==
  ASSUME LevelsOK, StockOK, synced = ItemsOf, NEW m, Counts(m), NEW a \in Int
  PROVE  /\ Sellable(m) \in Int
         /\ a =< Sellable(m) => \A c \in Stock!MadeOf(m.item) :
                                  Stock!Covers(c, m.item, a, m.manual)
         /\ a = Sellable(m) => \E c \in Stock!MadeOf(m.item) :
                                 ~Stock!Covers(c, m.item, a + Slack(m), m.manual)
<1>1. m.item \in Components \/ m.item \in Bundles
  BY Stored DEF Counts, Stock!Message, ItemsOf
<1>2. CASE m.item \in Bundles
  BY <1>2, BundleCovers DEF Sellable, Slack, Stock!MadeOf
<1>3. CASE m.item \notin Bundles
  <2>1. m.item \in Components /\ Stock!MadeOf(m.item) = {m.item} /\ Slack(m) = 1
    BY <1>1, <1>3 DEF Stock!MadeOf, Slack
  <2> QED BY <2>1, RegularCovers DEF Sellable
<1> QED BY <1>2, <1>3

\* What the shop offers of an item takes no part in its quantity.
LEMMA SellableKept ==
  ASSUME LevelsOK, LevelsOK', synced = ItemsOf, NEW m, Counts(m),
         UNCHANGED <<physical, synced>>,
         \A i \in ItemsOf : /\ shop'[i].committed = shop[i].committed
                            /\ shop'[i].unavailable = shop[i].unavailable
  PROVE  Sellable(m)' = Sellable(m)
<1>1. \A i \in ItemsOf : /\ Stock!Seen(i) = shop[i] /\ Stock!Seen(i)' = shop'[i]
                         /\ Stock!Seen(i)["committed"] = Stock!Seen(i)'["committed"]
                         /\ Stock!Seen(i)["unavailable"] = Stock!Seen(i)'["unavailable"]
  BY DEF LevelsOK, Stock!Seen, Stock!getManyInventoryItemsInventoryLevels
<1>2. ASSUME NEW c \in Components
      PROVE  /\ Stock!Committed(c)' = Stock!Committed(c)
             /\ Stock!Unavailable(c)' = Stock!Unavailable(c)
  <2>1. c \in ItemsOf /\ Stock!BundlesOf(c) \subseteq ItemsOf
    BY Stored DEF ItemsOf
  <2>2. [b \in Stock!BundlesOf(c) |-> Stock!Seen(b)["committed"] * Recipe[b][c]]
          = [b \in Stock!BundlesOf(c) |-> Stock!Seen(b)'["committed"] * Recipe[b][c]]
    BY <1>1, <2>1
  <2>3. [b \in Stock!BundlesOf(c) |-> Stock!Seen(b)["unavailable"] * Recipe[b][c]]
          = [b \in Stock!BundlesOf(c) |-> Stock!Seen(b)'["unavailable"] * Recipe[b][c]]
    BY <1>1, <2>1
  <2> QED BY <1>1, <2>1, <2>2, <2>3
          DEF Stock!Committed, Stock!Unavailable, Stock!InBundles
<1>3. CASE m.item \in Bundles
  <2>1. PICK b \in Bundles : b = m.item
    BY <1>3
  <2>2. Stock!ComponentsOf(b) \subseteq Components
    BY Stored
  <2>3. \A c \in Stock!ComponentsOf(b) : Stock!BundleQuantityFor(b, c, m.manual)'
                                           = Stock!BundleQuantityFor(b, c, m.manual)
    BY <1>2, <2>2 DEF Stock!BundleQuantityFor
  <2>4. {Stock!BundleQuantityFor(b, c, m.manual) : c \in Stock!ComponentsOf(b)}
          = {Stock!BundleQuantityFor(b, c, m.manual)' : c \in Stock!ComponentsOf(b)}
    BY <2>3
  <2> QED BY <1>3, <2>1, <2>4
          DEF Sellable, Stock!calculateTotalSellableQuantity,
              Stock!calculateTotalSellableQuantityForBundle
<1>4. CASE m.item \notin Bundles
  <2>1. m.item \in Components
    BY <1>4, Stored DEF Counts, Stock!Message, ItemsOf
  <2> QED BY <1>2, <1>4, <2>1
          DEF Sellable, Stock!calculateTotalSellableQuantity, Stock!RegularQuantity
<1> QED BY <1>3, <1>4

(***************************************************************************)
(* The handler.                                                            *)
(***************************************************************************)
StockTypes ==
  /\ StockOK /\ LevelsOK
  /\ synced \in {{}, ItemsOf}
  /\ step \in {"idle", "reading", "writing"}
  /\ message # Stock!NoMessage => Counts(message)
  /\ message = Stock!NoMessage => step = "idle"
  /\ read.available \in Int /\ read.sellable \in Int
  /\ changed \in BOOLEAN

\* What has been computed is still true when it is written, unless somebody bought.
Written ==
  \A m \in Stock!Message :
    message = m /\ step = "writing" /\ ~changed /\ m.event # "inboundReceipt" =>
      /\ synced = ItemsOf
      /\ read.sellable = Sellable(m)
      /\ read.available = shop[m.item].available

\* ... and the shop has it afterwards, or less of a message that may only lower it.
Offered ==
  \A m \in Stock!Message :
    message = m /\ step = "idle" /\ ~changed /\ m.event # "inboundReceipt" =>
      /\ synced = ItemsOf
      /\ shop[m.item].available =< Sellable(m)
      /\ m.event \in Stock!ALLOWED_EVENTS_SHOPIFY => shop[m.item].available = Sellable(m)

StockInv == StockTypes /\ Written /\ Offered

LEMMA StockInitially ==
  ASSUME Stock!Init
  PROVE  StockInv
<1>1. \A m \in Stock!Message : m # Stock!NoMessage
  BY DEF Stock!Message, Stock!NoMessage
<1>2. StockOK
  <2>1. PICK M : M = Stock!Max(Stock!Range(MaxPhysical))
    OBVIOUS
  <2>2. physical \in [Components -> 0..M]
    BY <2>1 DEF Stock!Init
  <2> QED BY <2>2 DEF StockOK
<1>3. LevelsOK
  <2>1. PICK typed \in {0, MaxHeld}, h \in Stock!Held :
          shop = [i \in Stock!Items |-> [available |-> typed, committed |-> h[i][1],
                                         unavailable |-> h[i][2]]]
    BY DEF Stock!Init
  <2>2. h \in [ItemsOf -> (0..MaxHeld) \X (0..MaxHeld)] /\ typed \in Int
    BY <2>1, Stored, StockAssumption DEF Stock!Held, Stock!ConstantsFit
  <2>3. \A i \in ItemsOf : h[i][1] \in Nat /\ h[i][2] \in Nat
    BY <2>2, StockAssumption DEF Stock!ConstantsFit
  <2> QED BY <2>1, <2>2, <2>3, Stored DEF LevelsOK, LevelOK
<1>4. /\ synced = {} /\ step = "idle" /\ message = Stock!NoMessage /\ changed = FALSE
      /\ read.available = 0 /\ read.sellable = 0
  BY DEF Stock!Init, Stock!NothingRead
<1>5. StockTypes
  <2>1. changed \in BOOLEAN
    BY <1>4
  <2> QED BY <1>2, <1>3, <1>4, <2>1 DEF StockTypes
<1>6. Written /\ Offered
  BY <1>1, <1>4 DEF Written, Offered
<1> QED BY <1>5, <1>6 DEF StockInv

\* The levels are read, and the quantity computed.
LEMMA ReadLevelsKept ==
  ASSUME StockInv, Stock!ReadLevels
  PROVE  StockInv'
<1>1. /\ message # Stock!NoMessage /\ Counts(message) /\ message.item \in synced
      /\ step' = "writing" /\ UNCHANGED <<physical, synced, shop, message, changed>>
      /\ read' = [available |-> shop[message.item].available,
                  sellable |-> IF message.event = "inboundReceipt"
                               THEN message.sellable + shop[message.item].available
                               ELSE Sellable(message)]
  BY DEF Stock!ReadLevels, Stock!stockVars, StockInv, StockTypes, Stock!getInventoryLevels,
         Sellable
<1>2. synced = ItemsOf /\ message \in Stock!Message /\ message.item \in ItemsOf
  BY <1>1, Stored DEF StockInv, StockTypes, Counts
<1>3. shop[message.item].available \in Int /\ message.sellable \in Int
  BY <1>2 DEF StockInv, StockTypes, LevelsOK, LevelOK, Stock!Message
<1>4. Sellable(message) \in Int
  BY <1>1, <1>2, SellableCovers DEF StockInv, StockTypes
<1>5. StockTypes'
  BY <1>1, <1>3, <1>4 DEF StockInv, StockTypes, StockOK, LevelsOK, Counts
<1>6. ASSUME NEW m \in Stock!Message, message = m PROVE Sellable(m)' = Sellable(m)
  BY <1>1, <1>2, <1>5, <1>6, SellableKept DEF StockInv, StockTypes
<1>7. Written'
  BY <1>1, <1>2, <1>6 DEF Written
<1>8. Offered'
  BY <1>1 DEF Offered
<1> QED BY <1>5, <1>7, <1>8 DEF StockInv

LEMMA NotInShopKept ==
  ASSUME StockInv, Stock!NotInShop
  PROVE  StockInv'
<1>1. \A m \in Stock!Message : m # Stock!NoMessage
  BY DEF Stock!Message, Stock!NoMessage
<1> QED BY <1>1 DEF Stock!NotInShop, Stock!stockVars, StockInv, StockTypes, Written, Offered,
                    StockOK, LevelsOK, Counts

\* The quantity is written, or left alone where it is low enough.
LEMMA WriteKept ==
  ASSUME StockInv, Stock!updateInventoryLevel
  PROVE  StockInv'
<1>1. /\ step = "writing" /\ step' = "idle"
      /\ UNCHANGED <<physical, synced, message, read, changed>>
      /\ IF Stock!MustUpdate
         THEN shop' = [shop EXCEPT ![message.item].available = read.sellable]
         ELSE shop' = shop
  BY DEF Stock!updateInventoryLevel, Stock!stockVars, Stock!inventorySetQuantities
<1>2. Counts(message) /\ message \in Stock!Message /\ message.item \in ItemsOf
  BY <1>1, Stored DEF StockInv, StockTypes, Counts, Stock!Message
<1>3. PICK n \in Int : n = read.sellable
  BY DEF StockInv, StockTypes
<1>4. PICK l : l = [shop[message.item] EXCEPT !.available = n]
  OBVIOUS
<1>5. shop[message.item] \in LevelOK
  BY <1>2 DEF StockInv, StockTypes, LevelsOK
<1>6. /\ l \in LevelOK /\ l.available = n
      /\ l.committed = shop[message.item].committed
      /\ l.unavailable = shop[message.item].unavailable
  BY <1>4, <1>5 DEF LevelOK
<1>7. shop' = shop \/ shop' = [shop EXCEPT ![message.item] = l]
  BY <1>1, <1>3, <1>4
<1>8. LevelsOK'
  BY <1>2, <1>6, <1>7 DEF StockInv, StockTypes, LevelsOK
<1>9. \A i \in ItemsOf : /\ shop'[i].committed = shop[i].committed
                         /\ shop'[i].unavailable = shop[i].unavailable
  BY <1>2, <1>6, <1>7 DEF StockInv, StockTypes, LevelsOK
<1>10. StockTypes'
  BY <1>1, <1>8 DEF StockInv, StockTypes, StockOK, Counts
<1>11. Written'
  BY <1>1 DEF Written
<1>12. Offered'
  <2> SUFFICES ASSUME NEW m \in Stock!Message, message = m, ~changed,
                      m.event # "inboundReceipt"
               PROVE  /\ synced = ItemsOf
                      /\ shop'[m.item].available =< Sellable(m)'
                      /\ m.event \in Stock!ALLOWED_EVENTS_SHOPIFY
                           => shop'[m.item].available = Sellable(m)'
    BY <1>1 DEF Offered
  <2>1. synced = ItemsOf /\ n = Sellable(m) /\ read.available = shop[m.item].available
    BY <1>1, <1>3 DEF StockInv, Written
  <2>2. Sellable(m)' = n
    BY <1>1, <1>2, <1>8, <1>9, <2>1, SellableKept DEF StockInv, StockTypes
  <2>3. shop[m.item].available \in Int
    BY <1>5 DEF LevelOK
  <2>4. CASE Stock!MustUpdate
    <3>1. shop'[m.item] = l
      BY <1>1, <1>2, <1>3, <1>4, <2>4 DEF StockInv, StockTypes, LevelsOK
    <3> QED BY <1>6, <2>1, <2>2, <3>1
  <2>5. CASE ~Stock!MustUpdate
    <3>1. shop' = shop /\ m.event \notin Stock!ALLOWED_EVENTS_SHOPIFY
          /\ ~(read.available > read.sellable)
      BY <1>1, <2>5 DEF Stock!MustUpdate
    <3> QED BY <1>3, <2>1, <2>2, <2>3, <3>1
  <2> QED BY <2>4, <2>5
<1> QED BY <1>10, <1>11, <1>12 DEF StockInv

\* A message brings the stock of the moment.
LEMMA NotifyKept ==
  ASSUME StockInv, NEW i \in Stock!Items, NEW e \in Stock!EventType, NEW n \in 0..MaxManual,
         Stock!Notify(i, e, n)
  PROVE  StockInv'
<1>1. PICK p : p = IF i \in Components THEN physical[i] ELSE 0
  OBVIOUS
<1>2. PICK m : m = [item |-> i, physical |-> p, sellable |-> 0, manual |-> n, event |-> e]
  OBVIOUS
<1>3. message' = m /\ step' = "reading" /\ changed' = FALSE
      /\ UNCHANGED <<physical, synced, shop, read>>
  BY <1>1, <1>2 DEF Stock!Notify, Stock!stockVars
<1>4. p \in Nat /\ (i \in Components => p = physical[i])
  BY <1>1 DEF StockInv, StockTypes, StockOK
<1>5. m \in Stock!Message /\ m.item = i /\ m.physical = p
  BY <1>2, <1>4 DEF Stock!Message
<1>6. m # Stock!NoMessage
  BY <1>5 DEF Stock!Message, Stock!NoMessage
<1> QED BY <1>3, <1>4, <1>5, <1>6
      DEF StockInv, StockTypes, Written, Offered, StockOK, LevelsOK, Counts

LEMMA ReceiveKept ==
  ASSUME StockInv, NEW c \in Components, Stock!Receive(c)
  PROVE  StockInv'
<1>1. PICK p \in Nat : p = physical[c] + 1
  BY DEF StockInv, StockTypes, StockOK
<1>2. PICK m : m = [item |-> c, physical |-> p, sellable |-> 1, manual |-> 0,
                    event |-> "inboundReceipt"]
  OBVIOUS
<1>3. message' = m /\ step' = "reading" /\ changed' = FALSE
      /\ physical' = [physical EXCEPT ![c] = p] /\ UNCHANGED <<synced, shop, read>>
  BY <1>1, <1>2 DEF Stock!Receive
<1>4. c \in Stock!Items /\ 0 \in 0..MaxManual
  BY StockAssumption DEF Stock!Items, Stock!ConstantsFit
<1>5. m \in Stock!Message /\ m.item = c /\ m.physical = p
  BY <1>2, <1>4 DEF Stock!Message, Stock!EventType, Stock!ALLOWED_EVENTS_SHOPIFY
<1>6. m # Stock!NoMessage
  BY <1>5 DEF Stock!Message, Stock!NoMessage
<1>7. physical' \in [Components -> Nat] /\ physical'[c] = p
  BY <1>1, <1>3 DEF StockInv, StockTypes, StockOK
<1> QED BY <1>3, <1>5, <1>6, <1>7
      DEF StockInv, StockTypes, Written, Offered, StockOK, LevelsOK, Counts

\* A purchase voids what has been computed.
LEMMA PurchaseKept ==
  ASSUME StockInv, NEW i \in Stock!Items, Stock!Purchase(i)
  PROVE  StockInv'
<1>1. i \in ItemsOf /\ shop[i] \in LevelOK
  BY Stored DEF StockInv, StockTypes, LevelsOK
<1>2. PICK l : l = [shop[i] EXCEPT !.available = @ - 1, !.committed = @ + 1]
  OBVIOUS
<1>3. shop' = [shop EXCEPT ![i] = l] /\ changed' = TRUE
      /\ UNCHANGED <<physical, synced, message, step, read>>
  BY <1>2 DEF Stock!Purchase, Stock!stockVars
<1>4. l \in LevelOK
  <2>1. PICK a \in Int, n \in Nat : a = shop[i].available - 1 /\ n = shop[i].committed + 1
    BY <1>1 DEF LevelOK
  <2>2. l = [shop[i] EXCEPT !.available = a, !.committed = n]
    BY <1>2, <2>1
  <2> QED BY <1>1, <2>2 DEF LevelOK
<1>5. LevelsOK'
  BY <1>1, <1>3, <1>4 DEF StockInv, StockTypes, LevelsOK
<1> QED BY <1>3, <1>5 DEF StockInv, StockTypes, Written, Offered, StockOK, Counts

\* The ids become known before any quantity is written.
LEMMA SyncGidsKept ==
  ASSUME StockInv, Stock!SyncGids
  PROVE  StockInv'
<1>1. /\ synced = {} /\ step = "idle" /\ synced' = ItemsOf
      /\ UNCHANGED <<physical, shop, message, step, read, changed>>
  BY Stored DEF Stock!SyncGids
<1>2. ASSUME NEW m \in Stock!Message, message = m, ~changed, m.event # "inboundReceipt"
      PROVE  FALSE
  <2>1. synced = ItemsOf /\ m.item \in ItemsOf
    BY <1>1, <1>2, Stored DEF StockInv, Offered, Stock!Message
  <2> QED BY <1>1, <2>1
<1> QED BY <1>1, <1>2 DEF StockInv, StockTypes, Written, Offered, StockOK, LevelsOK, Counts

LEMMA StockStutters ==
  ASSUME StockInv, UNCHANGED Stock!vars
  PROVE  StockInv'
<1>1. UNCHANGED <<physical, shop, synced, message, step, read, changed>>
  BY DEF Stock!vars
<1>2. StockTypes'
  BY <1>1 DEF StockInv, StockTypes, StockOK, LevelsOK, Counts
<1>3. ASSUME NEW m \in Stock!Message, message = m, synced = ItemsOf
      PROVE  Sellable(m)' = Sellable(m)
  <2>1. Counts(m)
    BY <1>3 DEF StockInv, StockTypes, Counts, Stock!Message, Stock!NoMessage
  <2> QED BY <1>1, <1>2, <1>3, <2>1, SellableKept DEF StockInv, StockTypes
<1>4. Written' /\ Offered'
  BY <1>1, <1>3 DEF StockInv, Written, Offered
<1> QED BY <1>2, <1>4 DEF StockInv

(***************************************************************************)
(* The shop offers what there is.                                          *)
(***************************************************************************)
OfQuantities == part = "quantities" => StockInv

LEMMA QuantitiesInvariant == InventorySpec => []OfQuantities
<1>1. InventoryInit => OfQuantities
  BY StockInitially DEF InventoryInit, OfQuantities
<1>2. OfQuantities /\ [InventoryNext]_<<part, vars, stockPart>> => OfQuantities'
  <2> SUFFICES ASSUME OfQuantities, [InventoryNext]_<<part, vars, stockPart>>,
                      part' = "quantities"
               PROVE  StockInv'
    BY DEF OfQuantities
  <2>1. part = "quantities" /\ StockInv /\ (Stock!Next \/ UNCHANGED stockPart)
    BY DEF InventoryNext, OfQuantities
  <2>2. CASE UNCHANGED stockPart
    BY <2>1, <2>2, StockStutters DEF stockPart, Stock!vars
  <2>3. CASE Stock!Next
    BY <2>1, <2>3, ReadLevelsKept, NotInShopKept, WriteKept, NotifyKept, ReceiveKept,
       PurchaseKept, SyncGidsKept DEF Stock!Next
  <2> QED BY <2>1, <2>2, <2>3
<1> QED BY <1>1, <1>2, PTL DEF InventorySpec

\* calculateTotalSellableQuantity, updateInventoryLevels: whatever the items, the recipes of
\* the bundles and the levels, once a message that counts the stock is handled and nobody
\* bought meanwhile, what the shop has committed and offers of the item is covered by what
\* is there of each of its components.
THEOREM NeverOversold == InventorySpec => []ShopNeverOversells
<1>1. OfQuantities => ShopNeverOversells
  <2> SUFFICES ASSUME StockInv, Stock!Settled, message.event # "inboundReceipt",
                      NEW c \in Stock!MadeOf(message.item)
               PROVE  Stock!Covers(c, message.item, shop[message.item].available,
                                   message.manual)
    BY DEF OfQuantities, ShopNeverOversells, Stock!NeverOversells
  <2>1. PICK m \in Stock!Message : m = message
    BY DEF Stock!Settled, StockInv, StockTypes, Counts
  <2>2. Counts(m) /\ LevelsOK /\ StockOK
    BY <2>1 DEF Stock!Settled, StockInv, StockTypes
  <2>3. synced = ItemsOf /\ shop[m.item].available =< Sellable(m)
    BY <2>1 DEF Stock!Settled, StockInv, Offered
  <2>4. shop[m.item].available \in Int
    BY <2>2, Stored DEF LevelsOK, LevelOK, Stock!Message
  <2> QED BY <2>1, <2>2, <2>3, <2>4, SellableCovers
<1> QED BY <1>1, QuantitiesInvariant, PTL

\* ... and if the message may raise the quantity, a component would not be enough for one
\* more of a regular item, or for three more of a bundle.
THEOREM StockOffered == InventorySpec => []ShopOffersTheStock
<1>1. OfQuantities => ShopOffersTheStock
  <2> SUFFICES ASSUME StockInv, Stock!Settled,
                      message.event \in Stock!ALLOWED_EVENTS_SHOPIFY \ {"inboundReceipt"}
               PROVE  \E c \in Stock!MadeOf(message.item) :
                        ~Stock!Covers(c, message.item,
                                      shop[message.item].available + Slack(message),
                                      message.manual)
    BY DEF OfQuantities, ShopOffersTheStock, Stock!OffersTheStock, Slack
  <2>1. PICK m \in Stock!Message : m = message
    BY DEF Stock!Settled, StockInv, StockTypes, Counts
  <2>2. Counts(m) /\ LevelsOK /\ StockOK
    BY <2>1 DEF Stock!Settled, StockInv, StockTypes
  <2>3. synced = ItemsOf /\ shop[m.item].available = Sellable(m)
    BY <2>1 DEF Stock!Settled, StockInv, Offered
  <2>4. shop[m.item].available \in Int
    BY <2>2, Stored DEF LevelsOK, LevelOK, Stock!Message
  <2> QED BY <2>1, <2>2, <2>3, <2>4, SellableCovers
<1> QED BY <1>1, QuantitiesInvariant, PTL
=================================================================================
