------------------------- MODULE ShipmentsProofs -------------------------
(***************************************************************************)
(* Proofs about Shipments, whatever the order, the messages and the number *)
(* of consumers.                                                           *)
(*                                                                         *)
(* The record of an item stays within its order, however often calls fail  *)
(* or processes die. An update writes what was seen plus what was          *)
(* allocated. Neither is current when it is written, so the invariant      *)
(* bounds their sum for every item a worker has still to update, whatever  *)
(* the record holds by then.                                               *)
(*                                                                         *)
(* Undisturbed, the record, Shopify and the warehouse agree in the end.    *)
(* The invariant accounts for what has been shipped at every step: what is *)
(* recorded is what the messages that are done have shipped plus the       *)
(* shipments a worker has recorded of its own, and Shopify has what is     *)
(* recorded but for the dtos that are still to be sent. That the mapper    *)
(* leaves no rest of a shipment is a lemma about its allocation.           *)
(***************************************************************************)
EXTENDS Shipments, CommonTheorems

Lines(w) == lines[w] \in Seq([Items -> Nat])

\* Where a worker is in its list of shipments, and how many dtos it has built.
Progress(w) ==
  /\ pc[w] = "idle" => lines[w] = <<>>
  /\ pc[w] \in {"getOrder", "map"} => k[w] = Len(lines[w]) + 1
  /\ pc[w] = "record" => k[w] = Len(lines[w]) /\ k[w] \in DOMAIN lines[w]

\* What a worker has still to write is within the order.
Pending(w) ==
  pc[w] = "record" =>
    \A i \in todo[w] : seen[w][i] + lines[w][k[w]][i] =< quantity[i]

Shapes ==
  /\ shipped \in [Items -> Nat]
  /\ pc \in [Workers -> {"idle", "getOrder", "map", "record", "send"}]
  /\ k \in [Workers -> Nat]
  /\ seen \in [Workers -> [Items -> Nat]]
  /\ todo \in [Workers -> SUBSET Items]
  /\ DOMAIN lines = Workers
  /\ \A w \in Workers : Lines(w)

RecordInv ==
  /\ Shapes
  /\ RecordWithinOrder
  /\ \A w \in Workers, i \in Items : seen[w][i] =< quantity[i]
  /\ \A w \in Workers : Progress(w)
  /\ \A w \in Workers : Pending(w)

\* An allocation leaves every item within its order (the mapper's Math.min).
LEMMA AllocationFits ==
  ASSUME NEW ls \in [Items -> Nat], NEW had \in [Items -> Nat], NEW left,
         Allocated(ls, had, left),
         quantity \in [Items -> Nat],
         NEW i \in Items, ls[i] > 0
  PROVE  had[i] + ls[i] =< quantity[i]
<1>1. ls[i] \in Nat /\ had[i] \in Nat /\ quantity[i] \in Nat
  OBVIOUS
<1>2. had[i] < quantity[i]
  BY <1>1 DEF Allocated
<1> DEFINE rest == left[sku[i]] - Sum(ls, Before(i))
<1>3. ls[i] = Least(Room(i, had), rest)
  BY <1>2 DEF Allocated
<1>4. ls[i] = Room(i, had) \/ (ls[i] = rest /\ ~(Room(i, had) =< rest))
  BY <1>3 DEF Least
<1>5. CASE ls[i] = Room(i, had)
  BY <1>1, <1>5 DEF Room
<1>6. CASE ls[i] = rest /\ ~(Room(i, had) =< rest)
  <2> HIDE DEF rest
  <2> QED BY <1>1, <1>6 DEF Room
<1> QED BY <1>4, <1>5, <1>6

\* The initial record is empty.
LEMMA RecordInit == Init => RecordInv
  BY ShipmentsAssumption
  DEF Init, RecordInv, Shapes, Lines, RecordWithinOrder, Progress, Pending, Nothing

\* Every step of createShipments and of its environment keeps the bound.
LEMMA RecordStep == RecordInv /\ [Next]_vars => RecordInv'
<1> SUFFICES ASSUME RecordInv, [Next]_vars PROVE RecordInv'
  OBVIOUS
<1> USE ShipmentsAssumption
<1>1. ASSUME NEW w \in Workers, NEW m \in Msgs, deliver(w, m) PROVE RecordInv'
  BY <1>1 DEF deliver, RecordInv, Shapes, Lines, RecordWithinOrder, Progress, Pending, Goto, record
<1>2. ASSUME NEW w \in Workers, getOrder(w) PROVE RecordInv'
  BY <1>2 DEF getOrder, RecordInv, Shapes, Lines, RecordWithinOrder, Progress, Pending, Goto, record
<1>3. ASSUME NEW w \in Workers, getShopShipmentDto(w) PROVE RecordInv'
  <2>1. PICK ls \in [Items -> Nat] :
          /\ Allocated(ls, seen[w], ships[w][k[w]])
          /\ lines' = [lines EXCEPT ![w] = Append(@, ItemList(ls))]
          /\ todo' = [todo EXCEPT ![w] = {i \in Items : ItemList(ls)[i] > 0}]
    <3> DEFINE most == Max({quantity[i] : i \in Items})
    <3>1. PICK ls \in [Items -> 0..most] :
            /\ Allocated(ls, seen[w], ships[w][k[w]])
            /\ lines' = [lines EXCEPT ![w] = Append(@, ItemList(ls))]
            /\ todo' = [todo EXCEPT ![w] = {i \in Items : ItemList(ls)[i] > 0}]
      BY <1>3 DEF getShopShipmentDto
    <3> HIDE DEF most
    <3>2. ls \in [Items -> Nat]
      OBVIOUS
    <3> QED BY <3>1, <3>2
  <2>2. ItemList(ls) \in [Items -> Nat]
    BY DEF ItemList, Nothing
  <2>3. \A i \in Items : ItemList(ls)[i] > 0 => seen[w][i] + ItemList(ls)[i] =< quantity[i]
    <3> SUFFICES ASSUME NEW i \in Items, ItemList(ls)[i] > 0
                 PROVE  seen[w][i] + ItemList(ls)[i] =< quantity[i]
      OBVIOUS
    <3>1. ItemList(ls) = ls
      BY DEF ItemList, Nothing
    <3>2. seen[w] \in [Items -> Nat]
      BY DEF RecordInv, Shapes
    <3> QED BY <2>1, <3>1, <3>2, AllocationFits
  <2>4. /\ pc[w] = "map" /\ pc' = [pc EXCEPT ![w] = "record"]
        /\ UNCHANGED <<shipped, k, seen>>
    BY <1>3 DEF getShopShipmentDto, Goto, record
  <2>5. /\ lines'[w] = Append(lines[w], ItemList(ls))
        /\ lines'[w] \in Seq([Items -> Nat])
        /\ Len(lines'[w]) = Len(lines[w]) + 1
        /\ lines'[w][Len(lines[w]) + 1] = ItemList(ls)
    BY <2>1, <2>2 DEF RecordInv, Shapes, Lines
  <2>6. k'[w] = Len(lines'[w]) /\ k'[w] \in DOMAIN lines'[w] /\ lines'[w][k'[w]] = ItemList(ls)
    BY <2>4, <2>5 DEF RecordInv, Shapes, Lines, Progress
  <2>7. \A v \in Workers : v # w => /\ lines'[v] = lines[v] /\ todo'[v] = todo[v] /\ pc'[v] = pc[v]
                                    /\ k'[v] = k[v] /\ seen'[v] = seen[v]
    BY <2>1, <2>4 DEF RecordInv, Shapes
  <2>8. Shapes'
    BY <2>1, <2>4, <2>5, <2>7 DEF RecordInv, Shapes, Lines
  <2>9. \A v \in Workers : Progress(v)'
    BY <2>4, <2>6, <2>7 DEF RecordInv, Shapes, Progress
  <2>10. todo'[w] = {i \in Items : ItemList(ls)[i] > 0}
    BY <2>1 DEF RecordInv, Shapes
  <2>11. Pending(w)'
    BY <2>3, <2>4, <2>6, <2>10 DEF Pending, RecordInv, Shapes
  <2>12. \A v \in Workers : Pending(v)'
    BY <2>7, <2>11 DEF RecordInv, Pending
  <2> QED BY <2>4, <2>8, <2>9, <2>12 DEF RecordInv, RecordWithinOrder
<1>4. ASSUME NEW w \in Workers, updateOrderItem(w) PROVE RecordInv'
  <2>1. PICK i \in todo[w] :
          /\ shipped' = [shipped EXCEPT ![i] = seen[w][i] + lines[w][k[w]][i]]
          /\ todo' = [todo EXCEPT ![w] = @ \ {i}]
    BY <1>4 DEF updateOrderItem
  <2>2. /\ pc[w] = "record" /\ UNCHANGED <<pc, k, seen, lines>>
    BY <1>4 DEF updateOrderItem
  <2>3. /\ seen[w][i] + lines[w][k[w]][i] \in Nat
        /\ seen[w][i] + lines[w][k[w]][i] =< quantity[i]
        /\ i \in Items
    <3>1. lines[w][k[w]] \in [Items -> Nat] /\ i \in Items
      BY <2>1, <2>2 DEF RecordInv, Shapes, Lines, Progress
    <3> QED BY <2>1, <2>2, <3>1 DEF RecordInv, Shapes, Pending
  <2>4. shipped' \in [Items -> Nat] /\ RecordWithinOrder'
    BY <2>1, <2>3 DEF RecordInv, Shapes, RecordWithinOrder
  <2>5. \A v \in Workers : todo'[v] \subseteq todo[v]
    BY <2>1 DEF RecordInv, Shapes
  <2> QED BY <2>1, <2>2, <2>4, <2>5 DEF RecordInv, Shapes, Lines, Progress, Pending
<1>5. ASSUME NEW w \in Workers, nextShipment(w) PROVE RecordInv'
  <2>1. pc[w] = "record" /\ UNCHANGED <<shipped, seen, todo, lines>>
    BY <1>5 DEF nextShipment, record
  <2>2. \/ k' = [k EXCEPT ![w] = @ + 1] /\ pc' = [pc EXCEPT ![w] = "getOrder"]
        \/ k' = [k EXCEPT ![w] = 1] /\ pc' = [pc EXCEPT ![w] = "send"]
    BY <1>5 DEF nextShipment, Goto
  <2>3. /\ pc' \in [Workers -> {"idle", "getOrder", "map", "record", "send"}]
        /\ k' \in [Workers -> Nat]
        /\ \A v \in Workers : v # w => pc'[v] = pc[v] /\ k'[v] = k[v]
        /\ \/ pc'[w] = "getOrder" /\ k'[w] = k[w] + 1
           \/ pc'[w] = "send"
    <3>1. pc \in [Workers -> {"idle", "getOrder", "map", "record", "send"}] /\ k \in [Workers -> Nat]
      BY DEF RecordInv, Shapes
    <3>2. CASE k' = [k EXCEPT ![w] = @ + 1] /\ pc' = [pc EXCEPT ![w] = "getOrder"]
      BY <3>1, <3>2
    <3>3. CASE k' = [k EXCEPT ![w] = 1] /\ pc' = [pc EXCEPT ![w] = "send"]
      BY <3>1, <3>3
    <3> QED BY <2>2, <3>2, <3>3
  <2>4. Shapes' /\ RecordWithinOrder'
    BY <2>1, <2>3 DEF RecordInv, Shapes, Lines, RecordWithinOrder
  <2>5. \A v \in Workers : Progress(v)'
    BY <2>1, <2>3 DEF RecordInv, Shapes, Progress
  <2>6. \A v \in Workers : Pending(v)'
    BY <2>1, <2>3 DEF RecordInv, Pending
  <2> QED BY <2>1, <2>4, <2>5, <2>6 DEF RecordInv
<1>6. ASSUME NEW w \in Workers, createFulfillment(w) PROVE RecordInv'
  <2>1. pc[w] = "send" /\ k' = [k EXCEPT ![w] = @ + 1] /\ UNCHANGED <<shipped, pc, seen, todo, lines>>
    BY <1>6 DEF createFulfillment, fulfillmentCreate
  <2> QED BY <2>1 DEF RecordInv, Shapes, Lines, RecordWithinOrder, Progress, Pending
<1>7. ASSUME NEW w \in Workers, Forget(w), UNCHANGED shipped PROVE RecordInv'
  BY <1>7 DEF Forget, RecordInv, Shapes, Lines, RecordWithinOrder, Progress, Pending, Nothing
<1>8. ASSUME NEW w \in Workers, returns(w) PROVE RecordInv'
  BY <1>7, <1>8 DEF returns, record
<1>9. ASSUME NEW w \in Workers, throws(w) PROVE RecordInv'
  BY <1>7, <1>9 DEF throws, record
<1>10. ASSUME NEW m \in Msgs, retry(m) PROVE RecordInv'
  BY <1>10 DEF retry, record, local, RecordInv, Shapes, Lines, RecordWithinOrder, Progress, Pending
<1>11. ASSUME NEW w \in Workers, crash(w) PROVE RecordInv'
  BY <1>7, <1>11 DEF crash, record
<1>12. CASE UNCHANGED vars
  BY <1>12 DEF vars, record, local, RecordInv, Shapes, Lines, RecordWithinOrder, Progress, Pending
<1> QED BY <1>1, <1>2, <1>3, <1>4, <1>5, <1>6, <1>8, <1>9, <1>10, <1>11, <1>12
        DEF Next, createShipments

\* No item is ever recorded as shipped beyond what was ordered, for any order,
\* any messages, any number of consumers, failures and crashes.
THEOREM WithinOrder == Spec => []RecordWithinOrder
<1>1. RecordInv => RecordWithinOrder
  BY DEF RecordInv
<1> QED BY RecordInit, RecordStep, <1>1, PTL DEF Spec

(***************************************************************************)
(* AllAgree: what has been shipped so far, item by item and SKU by SKU.    *)
(***************************************************************************)
Of(s) == {i \in Items : sku[i] = s}
\* Of SKU s, in each shipment of message m; together; and in all that is done.
Contents(m, s) == [n \in DOMAIN Messages[m] |-> Messages[m][n][s]]
Sent(m, s) == Sum(Contents(m, s), DOMAIN Messages[m])
Done == {m \in Msgs : phase[m] = "done"}
DoneOf(s) == Sum([m \in Msgs |-> Sent(m, s)], Done)

\* What the theorem takes of the constants: every item is known to Shopify, no message
\* or shipment is empty, and the warehouse ships no more than was ordered.
Shippable ==
  /\ Linked = Items
  /\ \A m \in Msgs : /\ Messages[m] # <<>>
                     /\ \A n \in DOMAIN Messages[m] : \E s \in Skus : Messages[m][n][s] > 0
  /\ \A s \in Skus : ShippedBy(s) =< Sum(quantity, Of(s))

\* Of item i, in each dto that worker w has built.
Planned(w, i) == [n \in DOMAIN lines[w] |-> lines[w][n][i]]

\* Of the other variables; no message has failed, so none is due.
AgreeTypes ==
  /\ fulfilled \in [Items -> Nat]
  /\ phase \in [Msgs -> {"queued", "taken", "done"}]
  /\ DOMAIN job = Workers /\ DOMAIN ships = Workers
  /\ \A w \in Workers : pc[w] # "idle" => ships[w] \in Seq([Skus -> Int])

\* One worker at a time, and nothing has failed.
Alone ==
  /\ \A v, w \in Workers : pc[v] # "idle" /\ pc[w] # "idle" => v = w
  /\ \A w \in Workers : pc[w] # "idle" => job[w] \in Msgs /\ phase[job[w]] = "taken"
  /\ data = Messages
  /\ failed = [w \in Workers |-> {}]

\* Between two messages.
Settled ==
  (\A w \in Workers : pc[w] = "idle") =>
    /\ shipped = fulfilled
    /\ \A s \in Skus : Sum(shipped, Of(s)) = DoneOf(s)

\* Before shipment n, seen or recorded.
Until(w, n, had) ==
  /\ \A i \in Items : had[i] = fulfilled[i] + Sum(Planned(w, i), 1..n)
  /\ \A s \in Skus : Sum(had, Of(s)) = DoneOf(s) + Sum(Contents(job[w], s), 1..n)

\* A worker has left alone the shipments it has not mapped, and has split up the others.
Shipping(w) ==
  LET message == Messages[job[w]] IN
    /\ DOMAIN ships[w] = DOMAIN message
    /\ \A n \in DOMAIN message : n > Len(lines[w]) => ships[w][n] = message[n]
    /\ Len(lines[w]) =< Len(message)
    /\ \A n \in DOMAIN lines[w] : /\ lines[w][n] # Nothing
                                  /\ \A s \in Skus : Sum(lines[w][n], Of(s)) = message[n][s]

\* How far the record and Shopify are.
Accounts(w) ==
  LET message == Messages[job[w]] IN
    /\ pc[w] \in {"getOrder", "map"} =>
         k[w] =< Len(message) /\ Until(w, Len(lines[w]), shipped)
    /\ pc[w] = "map" => seen[w] = shipped
    /\ pc[w] = "record" =>
         /\ Until(w, k[w] - 1, seen[w])
         /\ \A i \in Items :
              shipped[i] = seen[w][i] + (IF i \in todo[w] THEN 0 ELSE lines[w][k[w]][i])
    /\ pc[w] = "send" =>
         /\ Len(lines[w]) = Len(message) /\ k[w] \in 1..(Len(message) + 1)
         /\ \A i \in Items : shipped[i] = fulfilled[i] + Sum(Planned(w, i), k[w]..Len(message))
         /\ \A s \in Skus : Sum(shipped, Of(s)) = DoneOf(s) + Sent(job[w], s)

Good ==
  /\ AgreeTypes /\ Alone /\ Settled
  /\ \A w \in Workers : pc[w] # "idle" => Shipping(w) /\ Accounts(w)

\* Failures and crashes are only ever used up.
Spent ==
  /\ budget \in [failure : 0..MaxFailures, crash : 0..MaxCrashes]
  /\ overlapped \in BOOLEAN

AgreeInv == Spent /\ (Undisturbed => Good)

(***************************************************************************)
(* The mapper's allocation.                                                *)
(***************************************************************************)

\* Where there is room for all that was shipped of a SKU, the mapper's loop allocates all of
\* it (outbound-shipment.mapper.ts:12), however many items share the SKU: each takes what is
\* left or fills up.
THEOREM AllocatesAll ==
  ASSUME NEW ls \in [Items -> Nat], NEW had \in [Items -> Nat], NEW left, Allocated(ls, had, left),
         quantity \in [Items -> Nat], NItems \in Nat,
         \A i \in Items : had[i] =< quantity[i],
         NEW s \in Skus, left[s] \in Nat,
         left[s] =< Sum([i \in Items |-> Room(i, had)], Of(s))
  PROVE  Sum(ls, Of(s)) = left[s]
<1> DEFINE room == [i \in Items |-> Room(i, had)]
           upto(j) == {i \in Items : i < j /\ sku[i] = s}
           all(j) == Sum(ls, upto(j)) = left[s]
           full(j) == Sum(ls, upto(j)) = Sum(room, upto(j)) /\ Sum(ls, upto(j)) =< left[s]
           Bad == {j \in Nat : 1 =< j /\ j =< NItems + 1 /\ ~(all(j) \/ full(j))}
<1>1. IsFiniteSet(Items) /\ \A i \in Items : room[i] \in Nat /\ ls[i] \in Nat
  <2>1. IsFiniteSet(Items)
    BY FS_Interval DEF Items
  <2>2. ASSUME NEW i \in Items PROVE room[i] \in Nat /\ ls[i] \in Nat
    <3>1. had[i] \in Nat /\ quantity[i] \in Nat /\ had[i] =< quantity[i]
      OBVIOUS
    <3> QED BY <3>1 DEF Room
  <2> QED BY <2>1, <2>2
<1>2. \A j : /\ IsFiniteSet(upto(j)) /\ upto(j) \subseteq Items
             /\ Sum(ls, upto(j)) \in Nat /\ Sum(room, upto(j)) \in Nat
  <2> SUFFICES ASSUME NEW j
               PROVE  /\ IsFiniteSet(upto(j)) /\ upto(j) \subseteq Items
                      /\ Sum(ls, upto(j)) \in Nat /\ Sum(room, upto(j)) \in Nat
    OBVIOUS
  <2> HIDE DEF room
  <2>1. upto(j) \subseteq Items
    OBVIOUS
  <2> HIDE DEF upto
  <2>2. IsFiniteSet(upto(j))
    BY <1>1, <2>1, FS_Subset
  <2> QED BY <1>1, <2>1, <2>2, SumType
<1>3. Bad = {}
  <2> SUFFICES ASSUME Bad # {} PROVE FALSE
    OBVIOUS
  <2>1. PICK n \in Bad : \A m \in Bad : n =< m
    BY LeastNat
  <2>2. n \in Nat /\ 1 =< n /\ n =< NItems + 1 /\ ~all(n) /\ ~full(n)
    OBVIOUS
  <2>3. n # 1
    <3>1. upto(1) = {}
      BY DEF Items
    <3>2. Sum(ls, upto(1)) = 0 /\ Sum(room, upto(1)) = 0
      BY <3>1, SumEmpty, Zenon
    <3>3. full(1)
      BY <3>2
    <3> HIDE DEF full
    <3> QED BY <2>2, <3>3
  <2> DEFINE i == n - 1
  <2>4. i \in Nat /\ i \in Items /\ 1 =< i /\ i =< NItems + 1 /\ n = i + 1
    BY <2>2, <2>3 DEF Items
  <2>5. all(i) \/ full(i)
    <3>1. i \notin Bad
      <4>1. ~(n =< i)
        BY <2>2
      <4> QED BY <2>1, <4>1
    <3> HIDE DEF i, all, full
    <3> QED BY <2>4, <3>1
  <2>6. CASE sku[i] # s
    <3>1. upto(n) = upto(i)
      BY <2>4, <2>6 DEF Items
    <3> QED BY <2>2, <2>5, <3>1
  <2>7. CASE sku[i] = s
    <3>1. upto(n) = upto(i) \cup {i} /\ i \notin upto(i)
      <4>1. \A j \in Items : j < n <=> j < i \/ j = i
        BY <2>4 DEF Items
      <4>2. ~(i < i)
        BY <2>4
      <4> HIDE DEF i
      <4> QED BY <2>4, <2>7, <4>1, <4>2
    <3>2. Before(i) = upto(i)
      BY <2>7 DEF Before
    <3>3. ls[i] = IF had[i] < quantity[i] THEN Least(room[i], left[s] - Sum(ls, upto(i))) ELSE 0
      BY <2>4, <2>7, <3>2 DEF Allocated
    <3>4. /\ Sum(ls, upto(n)) = ls[i] + Sum(ls, upto(i))
          /\ Sum(room, upto(n)) = room[i] + Sum(room, upto(i))
      <4> DEFINE S == upto(i)
      <4>1. IsFiniteSet(S) /\ S \subseteq Items
        BY <1>2
      <4> HIDE DEF S, room
      <4>2. Sum(ls, S \cup {i}) = ls[i] + Sum(ls, S) /\ Sum(room, S \cup {i}) = room[i] + Sum(room, S)
        <5>1. i \notin S /\ \A y \in S \cup {i} : ls[y] \in Nat /\ room[y] \in Nat
          BY <1>1, <2>4, <3>1, <4>1 DEF S
        <5> QED BY <4>1, <5>1, SumAdd
      <4> QED BY <3>1, <4>2 DEF S
    <3>5. had[i] \in Nat /\ quantity[i] \in Nat /\ had[i] =< quantity[i] /\ room[i] = quantity[i] - had[i]
      BY <2>4 DEF Room
    <3>6. ls[i] \in Nat /\ room[i] \in Nat
      BY <1>1, <2>4
    <3>7. /\ Sum(ls, upto(i)) \in Nat /\ Sum(room, upto(i)) \in Nat
      BY <1>2
    <3> DEFINE got == Sum(ls, upto(i))
               had1 == Sum(room, upto(i))
               gets == Sum(ls, upto(n))
               has == Sum(room, upto(n))
    <3>8. /\ ls[i] = IF 0 < room[i] THEN Least(room[i], left[s] - got) ELSE 0
          /\ gets = ls[i] + got /\ has = room[i] + had1
          /\ got = left[s] \/ (got = had1 /\ got =< left[s])
      BY <2>5, <3>3, <3>4, <3>5
    <3> HIDE DEF got, had1, gets, has, room, i
    <3>9. gets = left[s] \/ (gets = has /\ gets =< left[s])
      BY <3>6, <3>7, <3>8 DEF Least, got, had1
    <3> QED BY <2>2, <3>9 DEF gets, has
  <2> QED BY <2>6, <2>7
<1>4. upto(NItems + 1) = Of(s)
  BY DEF Of, Items
<1>5. all(NItems + 1) \/ full(NItems + 1)
  <2>1. NItems + 1 \in Nat /\ 1 =< NItems + 1 /\ NItems + 1 =< NItems + 1
    OBVIOUS
  <2> HIDE DEF all, full
  <2> QED BY <1>3, <2>1
<1>6. left[s] =< Sum(room, Of(s))
  OBVIOUS
<1>7. Sum(ls, Of(s)) = left[s] \/ (Sum(ls, Of(s)) = Sum(room, Of(s)) /\ Sum(ls, Of(s)) =< left[s])
  BY <1>4, <1>5
<1>8. Sum(ls, Of(s)) \in Nat
  BY <1>2, <1>4
<1> HIDE DEF room
<1> QED BY <1>6, <1>7, <1>8

(***************************************************************************)
(* The steps of a worker that is alone.                                    *)
(***************************************************************************)

LEMMA MessageType ==
  ASSUME NEW m \in Msgs
  PROVE  /\ Messages[m] \in Seq(Shipment) /\ DOMAIN Messages[m] = 1..Len(Messages[m])
         /\ Len(Messages[m]) \in Nat /\ IsFiniteSet(DOMAIN Messages[m])
         /\ \A s \in Skus : \A n \in DOMAIN Messages[m] :
              Messages[m][n][s] \in Nat /\ Contents(m, s)[n] = Messages[m][n][s]
         /\ \A s \in Skus : Sent(m, s) \in Nat
<1>1. Messages[m] \in Seq(Shipment)
  BY ShipmentsAssumption DEF Msgs
<1>2. DOMAIN Messages[m] = 1..Len(Messages[m]) /\ Len(Messages[m]) \in Nat
  BY <1>1
<1>3. \A s \in Skus : \A n \in DOMAIN Messages[m] :
        Messages[m][n][s] \in Nat /\ Contents(m, s)[n] = Messages[m][n][s]
  BY <1>1 DEF Shipment, Contents
<1>4. IsFiniteSet(DOMAIN Messages[m])
  BY <1>2, FS_Interval
<1>5. ASSUME NEW s \in Skus PROVE Sent(m, s) \in Nat
  <2>1. \A n \in DOMAIN Messages[m] : Contents(m, s)[n] \in Nat
    BY <1>3
  <2> QED BY <1>4, <2>1, SumType DEF Sent
<1> QED BY <1>1, <1>2, <1>3, <1>4, <1>5

LEMMA ItemsFinite == IsFiniteSet(Items) /\ \A s : IsFiniteSet(Of(s)) /\ Of(s) \subseteq Items
<1>1. IsFiniteSet(Items)
  BY ShipmentsAssumption, FS_Interval DEF Items
<1>2. \A s : Of(s) \subseteq Items
  BY DEF Of
<1> QED BY <1>1, <1>2, FS_Subset

LEMMA MsgsFinite == IsFiniteSet(Msgs) /\ IsFiniteSet(Done) /\ Done \subseteq Msgs
<1>1. Msgs = 1..Len(Messages) /\ Len(Messages) \in Nat
  BY ShipmentsAssumption DEF Msgs
<1>2. IsFiniteSet(Msgs)
  BY <1>1, FS_Interval
<1>3. Done \subseteq Msgs
  BY DEF Done
<1> QED BY <1>2, <1>3, FS_Subset

LEMMA DoneType == ASSUME NEW s \in Skus PROVE DoneOf(s) \in Nat
<1> DEFINE f == [m \in Msgs |-> Sent(m, s)]
<1>1. \A m \in Done : f[m] \in Nat
  BY MessageType, MsgsFinite
<1> HIDE DEF f
<1>2. Sum(f, Done) \in Nat
  BY <1>1, MsgsFinite, SumType
<1> QED BY <1>2 DEF DoneOf, f

\* A message that is not done leaves room for itself in what the warehouse ships.
LEMMA DoneGrows ==
  ASSUME NEW m \in Msgs, m \notin Done, NEW s \in Skus
  PROVE  /\ DoneOf(s) + Sent(m, s) =< ShippedBy(s)
         /\ Sum([j \in Msgs |-> Sent(j, s)], Done \cup {m}) = DoneOf(s) + Sent(m, s)
<1> DEFINE f == [j \in Msgs |-> Sent(j, s)]
<1>1. /\ \A j \in Msgs : f[j] \in Nat
      /\ f[m] = Sent(m, s)
  BY MessageType
<1>2. ShippedBy(s) = Sum(f, Msgs) /\ DoneOf(s) = Sum(f, Done)
  BY DEF ShippedBy, DoneOf, Sent, Contents
<1> HIDE DEF f
<1>3. Sum(f, Done \cup {m}) = f[m] + Sum(f, Done)
  BY <1>1, MsgsFinite, SumAdd
<1>4. Sum(f, Done \cup {m}) =< Sum(f, Msgs)
  <2>1. Done \cup {m} \in SUBSET Msgs
    BY MsgsFinite
  <2> QED BY <1>1, <2>1, MsgsFinite, SumPart
<1>5. DoneOf(s) \in Nat /\ Sent(m, s) \in Nat
  BY DoneType, MessageType
<1>6. Sum(f, Done \cup {m}) = DoneOf(s) + Sent(m, s)
  BY <1>1, <1>2, <1>3, <1>5
<1> QED BY <1>2, <1>4, <1>6 DEF f

\* While one worker goes on, the others have nothing.
LEMMA WorkerGoes ==
  ASSUME NEW w \in Workers, \A v \in Workers \ {w} : pc'[v] = "idle",
         AgreeTypes', data' = Messages, failed' = [v \in Workers |-> {}],
         pc'[w] # "idle" => /\ job'[w] \in Msgs /\ phase'[job'[w]] = "taken"
                            /\ Shipping(w)' /\ Accounts(w)',
         pc'[w] = "idle" => /\ shipped' = fulfilled'
                            /\ \A s \in Skus : (Sum(shipped, Of(s)) = DoneOf(s))'
  PROVE  Good'
<1>1. Alone'
  BY DEF Alone
<1>2. Settled'
  BY DEF Settled
<1>3. \A v \in Workers : pc'[v] # "idle" => (Shipping(v) /\ Accounts(v))'
  BY Zenon
<1> QED BY <1>1, <1>2, <1>3 DEF Good

\* What does not change leaves the sums alone.
LEMMA StaysDone == ASSUME phase' = phase, NEW s PROVE DoneOf(s)' = DoneOf(s)
BY DEF DoneOf, Done

LEMMA DeliverAgrees ==
  ASSUME RecordInv, RecordInv', Good, Shippable, NEW w \in Workers, NEW m \in Msgs, deliver(w, m),
         \A v \in Workers : pc[v] = "idle"
  PROVE  Good'
<1>1. /\ phase[m] = "queued" /\ phase' = [phase EXCEPT ![m] = "taken"]
      /\ job' = [job EXCEPT ![w] = m] /\ ships' = [ships EXCEPT ![w] = data[m]]
      /\ k' = [k EXCEPT ![w] = 1] /\ pc' = [pc EXCEPT ![w] = "getOrder"]
      /\ shipped' = shipped /\ fulfilled' = fulfilled
      /\ UNCHANGED <<data, seen, todo, lines, failed>>
  BY DEF deliver, Goto, record
<1>2. pc \in [Workers -> {"idle", "getOrder", "map", "record", "send"}] /\ k \in [Workers -> Nat]
  BY DEF RecordInv, Shapes
<1>3. /\ pc'[w] = "getOrder" /\ k'[w] = 1 /\ job'[w] = m /\ ships'[w] = Messages[m]
      /\ \A v \in Workers \ {w} : pc'[v] = "idle"
  BY <1>1, <1>2 DEF Good, AgreeTypes, Alone
<1>4. Messages[m] \in Seq(Shipment) /\ Messages[m] \in Seq([Skus -> Int]) /\ Len(Messages[m]) >= 1
  BY MessageType DEF Shippable, Shipment
<1>5. lines'[w] = <<>> /\ Len(lines'[w]) = 0 /\ DOMAIN lines'[w] = {}
  BY <1>1 DEF RecordInv, Progress
<1>6. AgreeTypes'
  <2>1. \A v \in Workers : pc'[v] # "idle" => ships'[v] \in Seq([Skus -> Int])
    BY <1>3, <1>4
  <2>2. /\ phase' \in [Msgs -> {"queued", "taken", "done"}]
        /\ DOMAIN job' = Workers /\ DOMAIN ships' = Workers
    BY <1>1 DEF Good, AgreeTypes
  <2> QED BY <1>1, <2>1, <2>2 DEF Good, AgreeTypes
<1>7. Done' = Done /\ phase'[m] = "taken"
  BY <1>1 DEF Done, Good, AgreeTypes
<1>8. \A s : DoneOf(s)' = DoneOf(s)
  BY <1>7 DEF DoneOf
<1>9. Shipping(w)'
  BY <1>3, <1>4, <1>5 DEF Shipping
<1>10. Until(w, 0, shipped)'
  <2>1. shipped = fulfilled /\ \A s \in Skus : Sum(shipped, Of(s)) = DoneOf(s)
    BY DEF Good, Settled
  <2>2. 1..0 = {} /\ \A f : Sum(f, 1..0) = 0
    BY SumEmpty
  <2>3. \A i \in Items : shipped'[i] = fulfilled'[i] + Sum(Planned(w, i)', 1..0)
    <3>1. \A i \in Items : fulfilled[i] \in Nat
      BY DEF Good, AgreeTypes
    <3>2. \A i \in Items : Sum(Planned(w, i)', 1..0) = 0
      BY <2>2, Zenon
    <3> QED BY <1>1, <2>1, <3>1, <3>2
  <2>4. \A s \in Skus : Sum(shipped', Of(s)) = DoneOf(s)' + Sum(Contents(job'[w], s), 1..0)
    <3>1. \A s \in Skus : DoneOf(s) \in Nat
      BY DoneType
    <3>2. \A s \in Skus : Sum(Contents(job'[w], s), 1..0) = 0
      BY <2>2, Zenon
    <3>3. \A s \in Skus : Sum(shipped', Of(s)) = DoneOf(s)'
      BY <1>1, <1>8, <2>1
    <3> QED BY <1>8, <3>1, <3>2, <3>3
  <2> QED BY <2>3, <2>4 DEF Until
<1>11. Accounts(w)'
  BY <1>3, <1>4, <1>5, <1>10 DEF Accounts
<1>12. data' = Messages /\ failed' = [v \in Workers |-> {}]
  BY <1>1 DEF Good, Alone
<1> QED BY <1>3, <1>6, <1>7, <1>9, <1>11, <1>12, WorkerGoes

LEMMA GetOrderAgrees ==
  ASSUME RecordInv, RecordInv', Good, NEW w \in Workers, getOrder(w)
  PROVE  Good'
<1>1. /\ pc[w] = "getOrder" /\ seen' = [seen EXCEPT ![w] = shipped]
      /\ pc' = [pc EXCEPT ![w] = "map"]
      /\ UNCHANGED <<shipped, fulfilled, data, phase, job, k, ships, todo, lines, failed>>
  BY DEF getOrder, Goto, record, msgVars
<1>2. /\ pc \in [Workers -> {"idle", "getOrder", "map", "record", "send"}]
      /\ DOMAIN seen = Workers
  BY DEF RecordInv, Shapes
<1>3. /\ pc'[w] = "map" /\ seen'[w] = shipped'
      /\ \A v \in Workers \ {w} : pc'[v] = "idle"
  BY <1>1, <1>2 DEF Good, Alone
<1>4. \A s : DoneOf(s)' = DoneOf(s)
  BY <1>1, StaysDone
<1>5. job[w] \in Msgs /\ phase[job[w]] = "taken" /\ Shipping(w) /\ Accounts(w)
  BY <1>1 DEF Good, Alone
<1>6. AgreeTypes'
  BY <1>1, <1>2, <1>3 DEF Good, AgreeTypes
<1>7. Shipping(w)'
  BY <1>1, <1>5 DEF Shipping
<1>8. Until(w, Len(lines[w]), shipped)'
  BY <1>1, <1>4, <1>5 DEF Accounts, Until, Planned
<1>9. Accounts(w)'
  BY <1>1, <1>3, <1>5, <1>8 DEF Accounts
<1>10. data' = Messages /\ failed' = [v \in Workers |-> {}]
  BY <1>1 DEF Good, Alone
<1> QED BY <1>1, <1>3, <1>5, <1>6, <1>7, <1>9, <1>10, WorkerGoes

\* What a worker has not yet mapped fits beside what was shipped before.
LEMMA RoomLeft ==
  ASSUME RecordInv, Good, Shippable, NEW w \in Workers, pc[w] = "map", NEW s \in Skus
  PROVE  /\ k[w] \in DOMAIN Messages[job[w]]
         /\ Messages[job[w]][k[w]][s]
              =< Sum([i \in Items |-> Room(i, seen[w])], Of(s))
<1> DEFINE m == job[w]
           n == k[w]
           room == [i \in Items |-> Room(i, seen[w])]
           f == Contents(m, s)
<1>1. m \in Msgs /\ phase[m] = "taken" /\ Shipping(w) /\ Accounts(w)
  BY DEF Good, Alone
<1>2. m \notin Done
  BY <1>1 DEF Done
<1>3. n = Len(lines[w]) + 1 /\ n \in Nat /\ Len(lines[w]) \in Nat /\ n - 1 = Len(lines[w])
  BY DEF RecordInv, Progress, Shapes, Lines
<1>4. /\ DOMAIN Messages[m] = 1..Len(Messages[m]) /\ Len(Messages[m]) \in Nat
      /\ \A j \in DOMAIN Messages[m] : f[j] \in Nat /\ f[j] = Messages[m][j][s]
      /\ Sent(m, s) = Sum(f, DOMAIN Messages[m]) /\ Sent(m, s) \in Nat
      /\ IsFiniteSet(DOMAIN Messages[m])
  BY <1>1, MessageType DEF Sent
<1>5. n =< Len(Messages[m]) /\ seen[w] = shipped
      /\ Sum(seen[w], Of(s)) = DoneOf(s) + Sum(f, 1..(n - 1))
  BY <1>1, <1>3 DEF Accounts, Until
<1>6. n \in DOMAIN Messages[m]
  BY <1>3, <1>4, <1>5
<1>7. Sum(f, 1..n) = Sum(f, 1..(n - 1)) + f[n] /\ Sum(f, 1..n) =< Sent(m, s)
      /\ Sum(f, 1..(n - 1)) \in Nat
  <2> HIDE DEF f, n, m
  <2>1. 1..n \in SUBSET (DOMAIN Messages[m]) /\ 1..(n - 1) \in SUBSET (DOMAIN Messages[m])
    BY <1>3, <1>4, <1>5
  <2>2. Sum(f, 1..n) =< Sent(m, s)
    BY <1>4, <2>1, SumPart
  <2>3. n - 1 \in Nat /\ (n - 1) + 1 = n
    BY <1>3
  <2>4. \A x \in 1..((n - 1) + 1) : f[x] \in Nat
    BY <1>4, <2>1, <2>3
  <2>5. Sum(f, 1..((n - 1) + 1)) = Sum(f, 1..(n - 1)) + f[(n - 1) + 1]
    BY <2>3, <2>4, SumLast
  <2>6. IsFiniteSet(1..(n - 1)) /\ \A x \in 1..(n - 1) : f[x] \in Nat
    BY <1>3, <1>4, <2>1, <2>3, RangeFinite
  <2>7. Sum(f, 1..(n - 1)) \in Nat
    BY <2>6, SumType
  <2> QED BY <2>2, <2>3, <2>5, <2>7
<1>8. DoneOf(s) + Sent(m, s) =< Sum(quantity, Of(s))
  <2>1. DoneOf(s) + Sent(m, s) =< ShippedBy(s) /\ ShippedBy(s) =< Sum(quantity, Of(s))
    BY <1>1, <1>2, DoneGrows DEF Shippable
  <2>2. DoneOf(s) \in Nat /\ Sent(m, s) \in Nat
    BY <1>4, DoneType
  <2>3. ShippedBy(s) \in Nat /\ Sum(quantity, Of(s)) \in Nat
    <3>1. \A i \in Of(s) : quantity[i] \in Nat
      BY ShipmentsAssumption, ItemsFinite
    <3>2. Sum(quantity, Of(s)) \in Nat
      BY <3>1, ItemsFinite, SumType
    <3> DEFINE g == [j \in Msgs |-> Sent(j, s)]
    <3>3. ShippedBy(s) = Sum(g, Msgs) /\ \A j \in Msgs : g[j] \in Nat
      BY MessageType DEF ShippedBy, Sent, Contents
    <3> HIDE DEF g
    <3>4. Sum(g, Msgs) \in Nat
      BY <3>3, MsgsFinite, SumType
    <3> QED BY <3>2, <3>3, <3>4
  <2> QED BY <2>1, <2>2, <2>3
<1>9. Sum(quantity, Of(s)) = Sum(room, Of(s)) + Sum(seen[w], Of(s))
      /\ Sum(room, Of(s)) \in Nat
  <2>1. \A i \in Of(s) : /\ room[i] \in Nat /\ seen[w][i] \in Nat
                         /\ quantity[i] = room[i] + seen[w][i]
    <3> SUFFICES ASSUME NEW i \in Of(s)
                 PROVE  /\ room[i] \in Nat /\ seen[w][i] \in Nat
                        /\ quantity[i] = room[i] + seen[w][i]
      OBVIOUS
    <3>1. i \in Items
      BY ItemsFinite
    <3>2. seen[w][i] \in Nat /\ quantity[i] \in Nat /\ seen[w][i] =< quantity[i]
      BY <3>1, ShipmentsAssumption DEF RecordInv, Shapes
    <3>3. room[i] = quantity[i] - seen[w][i]
      BY <3>1 DEF Room
    <3> HIDE DEF room
    <3> QED BY <3>2, <3>3
  <2> HIDE DEF room
  <2> QED BY <2>1, ItemsFinite, SumPlus, SumType
<1>10. DoneOf(s) \in Nat /\ f[n] \in Nat /\ f[n] = Messages[m][n][s]
  BY <1>4, <1>6, DoneType
<1> HIDE DEF m, n, room, f
<1>11. f[n] =< Sum(room, Of(s))
  BY <1>4, <1>5, <1>7, <1>8, <1>9, <1>10
<1> QED BY <1>6, <1>10, <1>11 DEF m, n, room

LEMMA OneReplaced ==
  ASSUME NEW S, NEW q \in Seq(S), NEW j \in DOMAIN q, NEW c \in S
  PROVE  [q EXCEPT ![j] = c] \in Seq(S)
OBVIOUS

\* The mapper splits up a shipment without a rest.
LEMMA MapAgrees ==
  ASSUME RecordInv, RecordInv', Good, Shippable, NEW w \in Workers, getShopShipmentDto(w)
  PROVE  Good'
<1> DEFINE m == job[w]
           n == k[w]
<1>1. /\ pc[w] = "map" /\ pc' = [pc EXCEPT ![w] = "record"]
      /\ UNCHANGED <<shipped, fulfilled, data, phase, job, k, seen, failed>>
  BY DEF getShopShipmentDto, Goto, record, msgVars
<1>2. PICK ls \in [Items -> Nat] :
        /\ Allocated(ls, seen[w], ships[w][n])
        /\ lines' = [lines EXCEPT ![w] = Append(@, ItemList(ls))]
        /\ todo' = [todo EXCEPT ![w] = {i \in Items : ItemList(ls)[i] > 0}]
        /\ ships' = [ships EXCEPT ![w][n] = CountDown(ls, @)]
  <2> DEFINE most == Max({quantity[i] : i \in Items})
  <2>1. PICK ls \in [Items -> 0..most] :
          /\ Allocated(ls, seen[w], ships[w][n])
          /\ lines' = [lines EXCEPT ![w] = Append(@, ItemList(ls))]
          /\ todo' = [todo EXCEPT ![w] = {i \in Items : ItemList(ls)[i] > 0}]
          /\ ships' = [ships EXCEPT ![w][n] = CountDown(ls, @)]
    BY DEF getShopShipmentDto
  <2> HIDE DEF most
  <2>2. ls \in [Items -> Nat]
    OBVIOUS
  <2> QED BY <2>1, <2>2
<1>3. ItemList(ls) = ls
  BY DEF ItemList, Unlinked, Shippable
<1>4. m \in Msgs /\ phase[m] = "taken" /\ Shipping(w) /\ Accounts(w)
      /\ \A v \in Workers \ {w} : pc[v] = "idle"
  BY <1>1 DEF Good, Alone
<1>5. /\ n = Len(lines[w]) + 1 /\ n \in Nat /\ Len(lines[w]) \in Nat /\ n - 1 = Len(lines[w])
      /\ lines[w] \in Seq([Items -> Nat]) /\ DOMAIN lines[w] = 1..Len(lines[w])
  BY <1>1 DEF RecordInv, Progress, Shapes, Lines
<1>6. /\ lines'[w] = Append(lines[w], ls) /\ Len(lines'[w]) = n /\ lines'[w][n] = ls
      /\ DOMAIN lines'[w] = 1..n
      /\ \A j \in DOMAIN lines[w] : lines'[w][j] = lines[w][j]
  BY <1>2, <1>3, <1>5 DEF RecordInv, Shapes
<1>7. /\ pc'[w] = "record" /\ todo'[w] = {i \in Items : ls[i] > 0} /\ k'[w] = n
      /\ \A v \in Workers \ {w} : pc'[v] = "idle"
  BY <1>1, <1>2, <1>3, <1>4 DEF RecordInv, Shapes
<1>8. n \in DOMAIN Messages[m] /\ ships[w][n] = Messages[m][n]
      /\ DOMAIN Messages[m] = 1..Len(Messages[m]) /\ Len(Messages[m]) \in Nat
  <2>1. /\ DOMAIN Messages[m] = 1..Len(Messages[m]) /\ Len(Messages[m]) \in Nat
    BY <1>4, MessageType
  <2>2. n \in DOMAIN Messages[m]
    BY <1>1, <1>4, <1>5, <2>1 DEF Accounts
  <2>3. n > Len(lines[w])
    BY <1>5
  <2> QED BY <1>4, <2>1, <2>2, <2>3 DEF Shipping
<1>9. \A s \in Skus : Sum(ls, Of(s)) = Messages[m][n][s]
  <2> SUFFICES ASSUME NEW s \in Skus PROVE Sum(ls, Of(s)) = Messages[m][n][s]
    OBVIOUS
  <2>1. Messages[m][n][s] \in Nat
    BY <1>4, <1>8, MessageType
  <2>2. Messages[m][n][s] =< Sum([i \in Items |-> Room(i, seen[w])], Of(s))
    BY <1>1, RoomLeft
  <2>3. seen[w] \in [Items -> Nat] /\ \A i \in Items : seen[w][i] =< quantity[i]
    BY DEF RecordInv, Shapes
  <2>4. Allocated(ls, seen[w], Messages[m][n])
    BY <1>2, <1>8
  <2> DEFINE left == Messages[m][n]
             had == seen[w]
  <2>5. left[s] =< Sum([i \in Items |-> Room(i, had)], Of(s))
    BY <2>2
  <2>6. left[s] \in Nat
    BY <2>1
  <2>7. had \in [Items -> Nat]
    BY <2>3
  <2>8. \A i \in Items : had[i] =< quantity[i]
    BY <2>3
  <2>9. Allocated(ls, had, left)
    BY <2>4
  <2>10. quantity \in [Items -> Nat] /\ NItems \in Nat
    BY ShipmentsAssumption
  <2> HIDE DEF m, n, left, had
  <2>11. Sum(ls, Of(s)) = left[s]
    BY <2>5, <2>6, <2>7, <2>8, <2>9, <2>10, AllocatesAll
  <2> QED BY <2>11 DEF left
<1>10. ls # Nothing
  <2>1. PICK s \in Skus : Messages[m][n][s] > 0
    BY <1>4, <1>8 DEF Shippable
  <2>2. Sum(ls, Of(s)) > 0
    BY <1>9, <2>1
  <2>3. Sum(Nothing, Of(s)) = 0
    <3>1. \A i \in Of(s) : Nothing[i] = 0
      BY ItemsFinite DEF Nothing
    <3>2. Sum(Nothing, Of(s)) = Sum(Nothing, Of(s)) + Sum(Nothing, Of(s))
      BY <3>1, ItemsFinite, SumPlus
    <3>3. Sum(Nothing, Of(s)) \in Nat
      BY <3>1, ItemsFinite, SumType
    <3>4. \A x \in Nat : x = x + x => x = 0
      OBVIOUS
    <3> QED BY <3>2, <3>3, <3>4, Zenon
  <2> QED BY <2>2, <2>3
<1>11. CountDown(ls, ships[w][n]) \in [Skus -> Int]
  <2>1. \A s \in Skus : Sum(ls, {i \in Counted(ls) : sku[i] = s}) \in Nat
    <3> SUFFICES ASSUME NEW s \in Skus PROVE Sum(ls, {i \in Counted(ls) : sku[i] = s}) \in Nat
      OBVIOUS
    <3> DEFINE S == {i \in Counted(ls) : sku[i] = s}
    <3>1. S \subseteq Items
      BY DEF Counted
    <3> HIDE DEF S
    <3>2. IsFiniteSet(S)
      BY <3>1, ItemsFinite, FS_Subset
    <3>3. Sum(ls, S) \in Nat
      BY <3>1, <3>2, SumType
    <3> QED BY <3>3 DEF S
  <2>2. \A s \in Skus : ships[w][n][s] \in Nat
    BY <1>4, <1>8, MessageType
  <2>3. \A s \in Skus : ships[w][n][s] - Sum(ls, {i \in Counted(ls) : sku[i] = s}) \in Int
    BY <2>1, <2>2
  <2> QED BY <2>3 DEF CountDown
<1>12. /\ ships'[w] \in Seq([Skus -> Int]) /\ DOMAIN ships'[w] = DOMAIN ships[w]
       /\ \A j \in DOMAIN ships[w] \ {n} : ships'[w][j] = ships[w][j]
       /\ DOMAIN ships' = Workers
  <2>1. ships[w] \in Seq([Skus -> Int]) /\ DOMAIN ships = Workers
    BY <1>1 DEF Good, AgreeTypes
  <2> DEFINE c == CountDown(ls, ships[w][n])
  <2>2. ships'[w] = [ships[w] EXCEPT ![n] = c] /\ DOMAIN ships' = Workers
    BY <1>2, <2>1
  <2> HIDE DEF c, n
  <2>3. c \in [Skus -> Int]
    BY <1>11 DEF c, n
  <2>4. n \in DOMAIN ships[w]
    BY <1>4, <1>8 DEF Shipping, n
  <2>5. [ships[w] EXCEPT ![n] = c] \in Seq([Skus -> Int])
    BY <2>1, <2>3, <2>4, OneReplaced
  <2>6. /\ DOMAIN ships'[w] = DOMAIN ships[w]
        /\ \A j \in DOMAIN ships[w] \ {n} : ships'[w][j] = ships[w][j]
    BY <2>2
  <2> QED BY <2>2, <2>5, <2>6 DEF n
<1>13. AgreeTypes'
  BY <1>1, <1>7, <1>12 DEF Good, AgreeTypes
<1>14. Shipping(w)'
  <2>1. DOMAIN ships'[w] = DOMAIN Messages[m]
    BY <1>4, <1>12 DEF Shipping
  <2>2. ASSUME NEW j \in DOMAIN Messages[m], j > n PROVE ships'[w][j] = Messages[m][j]
    <3>1. j > Len(lines[w]) /\ j # n
      BY <1>5, <1>8, <2>2
    <3> QED BY <1>4, <1>12, <2>1, <3>1 DEF Shipping
  <2>3. ASSUME NEW j \in 1..n
        PROVE  /\ lines'[w][j] # Nothing
               /\ \A s \in Skus : Sum(lines'[w][j], Of(s)) = Messages[m][j][s]
    <3>1. CASE j = n
      BY <1>6, <1>9, <1>10, <3>1
    <3>2. CASE j # n
      <4>1. j \in DOMAIN lines[w]
        BY <1>5, <3>2
      <4> QED BY <1>4, <1>6, <4>1 DEF Shipping
    <3> QED BY <3>1, <3>2
  <2>4. n =< Len(Messages[m])
    BY <1>8
  <2> QED BY <1>1, <1>6, <2>1, <2>2, <2>3, <2>4 DEF Shipping
<1>15. Until(w, k[w] - 1, seen[w])'
  <2>1. Until(w, n - 1, seen[w])
    BY <1>1, <1>4, <1>5 DEF Accounts
  <2>2. \A s : DoneOf(s)' = DoneOf(s)
    BY <1>1, StaysDone
  <2>3. \A i \in Items : Sum(Planned(w, i)', 1..(n - 1)) = Sum(Planned(w, i), 1..(n - 1))
    <3> SUFFICES ASSUME NEW i \in Items
                 PROVE  Sum(Planned(w, i)', 1..(n - 1)) = Sum(Planned(w, i), 1..(n - 1))
      OBVIOUS
    <3> DEFINE S == 1..(n - 1)
               f == Planned(w, i)'
               g == Planned(w, i)
    <3>1. IsFiniteSet(S)
      <4>1. n - 1 \in Int
        BY <1>5
      <4> QED BY <4>1, RangeFinite
    <3>2. \A x \in S : f[x] = g[x]
      BY <1>5, <1>6 DEF Planned
    <3> HIDE DEF S, f, g
    <3>3. Sum(f, S) = Sum(g, S)
      BY <3>1, <3>2, SumSame
    <3> QED BY <3>3 DEF S, f, g
  <2> QED BY <1>1, <1>7, <2>1, <2>2, <2>3 DEF Until
<1>16. \A i \in Items :
         shipped'[i] = seen'[w][i] + (IF i \in todo'[w] THEN 0 ELSE lines'[w][k'[w]][i])
  <2> SUFFICES ASSUME NEW i \in Items
               PROVE  shipped'[i] = seen'[w][i] + (IF i \in todo'[w] THEN 0 ELSE lines'[w][n][i])
    BY <1>7
  <2>1. shipped'[i] = seen'[w][i] /\ seen'[w][i] \in Nat
    BY <1>1, <1>4 DEF Accounts, RecordInv, Shapes
  <2>2. i \notin todo'[w] => lines'[w][n][i] = 0
    BY <1>6, <1>7
  <2> QED BY <2>1, <2>2
<1>17. Accounts(w)'
  <2> HIDE DEF n
  <2> QED BY <1>7, <1>15, <1>16 DEF Accounts
<1>18. data' = Messages /\ failed' = [v \in Workers |-> {}]
  BY <1>1 DEF Good, Alone
<1> QED BY <1>1, <1>4, <1>7, <1>13, <1>14, <1>17, <1>18, WorkerGoes

LEMMA UpdateAgrees ==
  ASSUME RecordInv, RecordInv', Good, NEW w \in Workers, updateOrderItem(w)
  PROVE  Good'
<1>1. /\ pc[w] = "record"
      /\ UNCHANGED <<fulfilled, data, phase, pc, job, k, ships, seen, lines, failed>>
  BY DEF updateOrderItem, msgVars
<1>2. PICK i \in todo[w] : /\ shipped' = [shipped EXCEPT ![i] = seen[w][i] + lines[w][k[w]][i]]
                           /\ todo' = [todo EXCEPT ![w] = @ \ {i}]
  BY DEF updateOrderItem
<1>3. job[w] \in Msgs /\ phase[job[w]] = "taken" /\ Shipping(w) /\ Accounts(w)
      /\ \A v \in Workers \ {w} : pc[v] = "idle"
  BY <1>1 DEF Good, Alone
<1>4. /\ todo'[w] = todo[w] \ {i} /\ i \in Items /\ DOMAIN shipped = Items
      /\ lines[w][k[w]] \in [Items -> Nat]
  BY <1>1, <1>2 DEF RecordInv, Shapes, Progress, Lines
<1>5. \A j \in Items :
        shipped'[j] = seen[w][j] + (IF j \in todo'[w] THEN 0 ELSE lines[w][k[w]][j])
  <2>1. \A j \in Items : shipped[j] = seen[w][j] + (IF j \in todo[w] THEN 0 ELSE lines[w][k[w]][j])
    BY <1>1, <1>3 DEF Accounts
  <2>2. shipped'[i] = seen[w][i] + lines[w][k[w]][i]
        /\ \A j \in Items \ {i} : shipped'[j] = shipped[j]
    BY <1>2, <1>4
  <2> QED BY <1>4, <2>1, <2>2
<1>6. \A s : DoneOf(s)' = DoneOf(s)
  BY <1>1, StaysDone
<1>7. Until(w, k[w] - 1, seen[w])'
  BY <1>1, <1>3, <1>6 DEF Accounts, Until, Planned
<1>8. Accounts(w)'
  BY <1>1, <1>5, <1>7 DEF Accounts
<1>9. Shipping(w)'
  BY <1>1, <1>3 DEF Shipping
<1>10. AgreeTypes' /\ data' = Messages /\ failed' = [v \in Workers |-> {}]
  BY <1>1 DEF Good, AgreeTypes, Alone
<1> QED BY <1>1, <1>3, <1>8, <1>9, <1>10, WorkerGoes

\* What a worker has built adds up to naturals.
LEMMA PlannedType ==
  ASSUME RecordInv, NEW w \in Workers, NEW i \in Items
  PROVE  /\ Len(lines[w]) \in Nat /\ DOMAIN lines[w] = 1..Len(lines[w])
         /\ \A n \in DOMAIN lines[w] : /\ lines[w][n] \in [Items -> Nat]
                                       /\ lines[w][n][i] \in Nat
                                       /\ Planned(w, i)[n] = lines[w][n][i]
<1>1. lines[w] \in Seq([Items -> Nat])
  BY DEF RecordInv, Shapes, Lines
<1> QED BY <1>1 DEF Planned

\* All of a shipment is recorded.
LEMMA Recorded ==
  ASSUME RecordInv, Good, NEW w \in Workers, pc[w] = "record", todo[w] = {}
  PROVE  Until(w, k[w], shipped)
<1> DEFINE n == k[w]
           m == job[w]
<1>1. m \in Msgs /\ Shipping(w) /\ Accounts(w)
  BY DEF Good, Alone
<1>2. n \in Nat /\ n = Len(lines[w]) /\ n \in DOMAIN lines[w] /\ n - 1 \in Nat /\ (n - 1) + 1 = n
  BY DEF RecordInv, Shapes, Progress, Lines
<1>3. \A i \in Items : shipped[i] = seen[w][i] + lines[w][n][i]
  BY <1>1 DEF Accounts
<1>4. /\ \A i \in Items : seen[w][i] = fulfilled[i] + Sum(Planned(w, i), 1..(n - 1))
      /\ \A s \in Skus : Sum(seen[w], Of(s)) = DoneOf(s) + Sum(Contents(m, s), 1..(n - 1))
  BY <1>1 DEF Accounts, Until
<1>5. ASSUME NEW i \in Items PROVE shipped[i] = fulfilled[i] + Sum(Planned(w, i), 1..n)
  <2> DEFINE f == Planned(w, i)
  <2>1. \A x \in 1..n : f[x] \in Nat /\ f[n] = lines[w][n][i]
    BY <1>2, PlannedType
  <2>2. fulfilled[i] \in Nat
    BY DEF Good, AgreeTypes
  <2> HIDE DEF f, n
  <2>3. Sum(f, 1..((n - 1) + 1)) = Sum(f, 1..(n - 1)) + f[(n - 1) + 1]
    BY <1>2, <2>1, SumLast
  <2>4. Sum(f, 1..(n - 1)) \in Nat
    <3>1. IsFiniteSet(1..(n - 1)) /\ \A x \in 1..(n - 1) : f[x] \in Nat
      BY <1>2, <2>1, RangeFinite
    <3> QED BY <3>1, SumType
  <2>5. n \in 1..n
    BY <1>2
  <2>6. seen[w][i] = fulfilled[i] + Sum(f, 1..(n - 1)) /\ shipped[i] = seen[w][i] + f[n]
    BY <1>3, <1>4, <2>1, <2>5 DEF f
  <2>7. Sum(f, 1..n) = Sum(f, 1..(n - 1)) + f[n] /\ f[n] \in Nat
    BY <1>2, <2>1, <2>3, <2>5
  <2>8. shipped[i] = fulfilled[i] + Sum(f, 1..n)
    BY <2>2, <2>4, <2>6, <2>7
  <2> QED BY <2>8 DEF f
<1>6. ASSUME NEW s \in Skus PROVE Sum(shipped, Of(s)) = DoneOf(s) + Sum(Contents(m, s), 1..n)
  <2> DEFINE f == Contents(m, s)
  <2>1. \A x \in 1..n : f[x] \in Nat /\ f[x] = Messages[m][x][s]
    <3>1. n =< Len(Messages[m])
      BY <1>1, <1>2 DEF Shipping
    <3>2. 1..n \subseteq DOMAIN Messages[m]
      BY <1>1, <1>2, <3>1, MessageType
    <3> QED BY <1>1, <3>2, MessageType
  <2>2. Sum(lines[w][n], Of(s)) = f[n]
    <3>1. Sum(lines[w][n], Of(s)) = Messages[m][n][s] /\ n \in 1..n
      BY <1>1, <1>2 DEF Shipping
    <3> QED BY <2>1, <3>1
  <2>3. Sum(shipped, Of(s)) = Sum(seen[w], Of(s)) + Sum(lines[w][n], Of(s))
    <3>1. \A i \in Of(s) : /\ seen[w][i] \in Nat /\ lines[w][n][i] \in Nat
                           /\ shipped[i] = seen[w][i] + lines[w][n][i]
      BY <1>2, <1>3, ItemsFinite, PlannedType DEF RecordInv, Shapes
    <3> DEFINE g == seen[w]
               h == lines[w][n]
    <3> HIDE DEF g, h
    <3>2. Sum(shipped, Of(s)) = Sum(g, Of(s)) + Sum(h, Of(s))
      <4>1. \A i \in Of(s) : g[i] \in Nat /\ h[i] \in Nat /\ shipped[i] = g[i] + h[i]
        BY <3>1 DEF g, h
      <4> QED BY <4>1, ItemsFinite, SumPlus
    <3> QED BY <3>2 DEF g, h
  <2>4. DoneOf(s) \in Nat
    BY DoneType
  <2> HIDE DEF f, n
  <2>5. Sum(f, 1..((n - 1) + 1)) = Sum(f, 1..(n - 1)) + f[(n - 1) + 1]
    BY <1>2, <2>1, SumLast
  <2>6. Sum(f, 1..(n - 1)) \in Nat
    <3>1. IsFiniteSet(1..(n - 1)) /\ \A x \in 1..(n - 1) : f[x] \in Nat
      BY <1>2, <2>1, RangeFinite
    <3> QED BY <3>1, SumType
  <2>7. Sum(f, 1..n) = Sum(f, 1..(n - 1)) + f[n] /\ f[n] \in Nat
    <3>1. n \in 1..n
      BY <1>2
    <3> QED BY <1>2, <2>1, <2>5, <3>1
  <2>8. Sum(seen[w], Of(s)) = DoneOf(s) + Sum(f, 1..(n - 1))
    BY <1>4 DEF f
  <2>9. Sum(shipped, Of(s)) = DoneOf(s) + Sum(f, 1..n)
    BY <2>2, <2>3, <2>4, <2>6, <2>7, <2>8
  <2> QED BY <2>9 DEF f
<1> QED BY <1>5, <1>6 DEF Until

LEMMA NextAgrees ==
  ASSUME RecordInv, RecordInv', Good, NEW w \in Workers, nextShipment(w)
  PROVE  Good'
<1> DEFINE m == job[w]
<1>1. /\ pc[w] = "record" /\ todo[w] = {}
      /\ UNCHANGED <<shipped, fulfilled, data, phase, job, ships, seen, todo, lines, failed>>
  BY DEF nextShipment, record, msgVars
<1>2. m \in Msgs /\ phase[m] = "taken" /\ Shipping(w) /\ Accounts(w)
      /\ \A v \in Workers \ {w} : pc[v] = "idle"
  BY <1>1 DEF Good, Alone
<1>3. k[w] \in Nat /\ k[w] = Len(lines[w]) /\ k[w] \in DOMAIN lines[w]
  BY <1>1 DEF RecordInv, Shapes, Progress, Lines
<1>4. Len(ships[w]) = Len(Messages[m]) /\ Len(Messages[m]) \in Nat
      /\ DOMAIN Messages[m] = 1..Len(Messages[m])
  <2>1. DOMAIN ships[w] = DOMAIN Messages[m] /\ ships[w] \in Seq([Skus -> Int])
    BY <1>1, <1>2 DEF Good, AgreeTypes, Shipping
  <2>2. Messages[m] \in Seq(Shipment)
    BY <1>2, MessageType
  <2> HIDE DEF m
  <2> QED BY <2>1, <2>2
<1>5. Until(w, k[w], shipped)
  BY <1>1, Recorded
<1>6. \A s : DoneOf(s)' = DoneOf(s)
  BY <1>1, StaysDone
<1>7. DOMAIN k = Workers /\ DOMAIN pc = Workers
  BY DEF RecordInv, Shapes
<1>8. CASE /\ k[w] < Len(ships[w]) /\ k' = [k EXCEPT ![w] = @ + 1]
           /\ pc' = [pc EXCEPT ![w] = "getOrder"]
  <2>1. pc'[w] = "getOrder" /\ k'[w] = k[w] + 1 /\ \A v \in Workers \ {w} : pc'[v] = "idle"
    BY <1>2, <1>7, <1>8
  <2>2. Until(w, Len(lines[w]), shipped)'
    BY <1>1, <1>3, <1>5, <1>6 DEF Until, Planned
  <2>3. k'[w] =< Len(Messages[m])
    BY <1>3, <1>4, <1>8, <2>1
  <2>4. Accounts(w)'
    BY <1>1, <2>1, <2>2, <2>3 DEF Accounts
  <2>5. Shipping(w)'
    BY <1>1, <1>2 DEF Shipping
  <2>6. AgreeTypes' /\ data' = Messages /\ failed' = [v \in Workers |-> {}]
    BY <1>1, <2>1 DEF Good, AgreeTypes, Alone
  <2> QED BY <1>1, <1>2, <2>1, <2>4, <2>5, <2>6, WorkerGoes
<1>9. CASE /\ k[w] = Len(ships[w]) /\ k' = [k EXCEPT ![w] = 1]
           /\ pc' = [pc EXCEPT ![w] = "send"]
  <2>1. pc'[w] = "send" /\ k'[w] = 1 /\ \A v \in Workers \ {w} : pc'[v] = "idle"
    BY <1>2, <1>7, <1>9
  <2>2. Len(lines[w]) = Len(Messages[m]) /\ k'[w] \in 1..(Len(Messages[m]) + 1)
    BY <1>3, <1>4, <1>9, <2>1
  <2>3. \A i \in Items : shipped[i] = fulfilled[i] + Sum(Planned(w, i), 1..Len(Messages[m]))
    BY <1>3, <1>5, <2>2 DEF Until
  <2>4. \A s \in Skus : Sum(shipped, Of(s)) = DoneOf(s) + Sent(m, s)
    BY <1>3, <1>4, <1>5, <2>2 DEF Until, Sent
  <2>5. Accounts(w)'
    <3>1. \A i \in Items :
            shipped'[i] = fulfilled'[i] + Sum(Planned(w, i)', k'[w]..Len(Messages[job'[w]]))
      BY <1>1, <2>1, <2>3 DEF Planned
    <3>2. \A s \in Skus : Sum(shipped', Of(s)) = DoneOf(s)' + Sent(job'[w], s)
      BY <1>1, <1>6, <2>4
    <3> QED BY <1>1, <2>1, <2>2, <3>1, <3>2 DEF Accounts
  <2>6. Shipping(w)'
    BY <1>1, <1>2 DEF Shipping
  <2>7. AgreeTypes' /\ data' = Messages /\ failed' = [v \in Workers |-> {}]
    BY <1>1, <2>1 DEF Good, AgreeTypes, Alone
  <2> QED BY <1>1, <1>2, <2>1, <2>5, <2>6, <2>7, WorkerGoes
<1> QED BY <1>8, <1>9 DEF nextShipment, Goto

\* A shipment that is sent is accepted and fulfilled as it was recorded.
LEMMA FulfilAgrees ==
  ASSUME RecordInv, RecordInv', Good, NEW w \in Workers, createFulfillment(w), ~Fail
  PROVE  Good'
<1> DEFINE m == job[w]
           n == k[w]
           ls == lines[w][n]
           last == Len(Messages[m])
<1>1. /\ pc[w] = "send" /\ n =< Len(lines[w]) /\ k' = [k EXCEPT ![w] = @ + 1]
      /\ UNCHANGED <<shipped, data, phase, pc, job, ships, seen, todo, lines>>
  BY DEF createFulfillment, msgVars
<1>2. m \in Msgs /\ phase[m] = "taken" /\ Shipping(w) /\ Accounts(w)
      /\ \A v \in Workers \ {w} : pc[v] = "idle"
  BY <1>1 DEF Good, Alone
<1>3. /\ Len(lines[w]) = last /\ n \in 1..(last + 1) /\ last \in Nat
      /\ \A i \in Items : shipped[i] = fulfilled[i] + Sum(Planned(w, i), n..last)
      /\ \A s \in Skus : Sum(shipped, Of(s)) = DoneOf(s) + Sent(m, s)
  BY <1>1, <1>2, MessageType DEF Accounts
<1>4. n \in Nat /\ n \in 1..last /\ n =< last /\ n + 1 \in 1..(last + 1) /\ n \in DOMAIN lines[w]
  <2>1. n \in 1..last
    BY <1>1, <1>3
  <2> HIDE DEF n, last
  <2> QED BY <1>3, <2>1, PlannedType DEF RecordInv, Shapes, Lines
<1>5. ls # Nothing /\ ls \in [Items -> Nat]
  <2>1. ls # Nothing
    BY <1>2, <1>4 DEF Shipping
  <2>2. lines[w] \in Seq([Items -> Nat])
    BY DEF RecordInv, Shapes, Lines
  <2> QED BY <1>4, <2>1, <2>2
<1>6. \A i \in Items : /\ fulfilled[i] \in Nat /\ shipped[i] =< quantity[i] /\ shipped[i] \in Nat
                       /\ ls[i] \in Nat /\ quantity[i] \in Nat
  BY <1>5, ShipmentsAssumption DEF Good, AgreeTypes, RecordInv, RecordWithinOrder, Shapes
<1>7. ASSUME NEW i \in Items
      PROVE  /\ shipped[i] = (fulfilled[i] + ls[i]) + Sum(Planned(w, i), (n + 1)..last)
             /\ ls[i] =< quantity[i] - fulfilled[i]
  <2> DEFINE f == Planned(w, i)
             rest == Sum(f, (n + 1)..last)
  <2>1. \A x \in n..last : f[x] \in Nat
    <3>1. \A x \in n..last : x \in DOMAIN lines[w]
      <4>1. DOMAIN lines[w] = 1..last
        BY <1>3, PlannedType
      <4> HIDE DEF n, last
      <4> QED BY <1>3, <1>4, <4>1
    <3> HIDE DEF n, last
    <3> QED BY <3>1, PlannedType
  <2>2. f[n] = ls[i]
    BY <1>4, PlannedType
  <2> HIDE DEF f, n, last
  <2>3. Sum(f, n..last) = f[n] + rest
    BY <1>3, <1>4, <2>1, SumHead
  <2>4. rest \in Nat
    <3>1. IsFiniteSet((n + 1)..last) /\ \A x \in (n + 1)..last : f[x] \in Nat
      BY <1>3, <1>4, <2>1, RangeFinite
    <3> QED BY <3>1, SumType
  <2>5. shipped[i] = fulfilled[i] + (f[n] + rest)
    BY <1>3, <2>3 DEF f
  <2> HIDE DEF rest
  <2>6. shipped[i] = (fulfilled[i] + f[n]) + rest /\ f[n] =< quantity[i] - fulfilled[i]
    <3>1. /\ fulfilled[i] \in Nat /\ shipped[i] =< quantity[i] /\ shipped[i] \in Nat
          /\ f[n] \in Nat /\ quantity[i] \in Nat
      BY <1>6, <2>2
    <3> QED BY <2>4, <2>5, <3>1
  <2> QED BY <2>2, <2>6 DEF f, rest
<1>8. Covers(ls) = ls /\ Accepts(ls)
  BY <1>5, <1>7 DEF Covers, Accepts, Remaining
<1>9. fulfilled' = [i \in Items |-> fulfilled[i] + ls[i]] /\ failed' = failed
  <2>1. PICK th \in BOOLEAN :
          /\ fulfillmentCreate(ls, th)
          /\ failed' = [failed EXCEPT ![w] = IF th THEN @ \union {k[w]} ELSE @]
    BY DEF createFulfillment
  <2>2. Fulfil(ls) /\ ~th
    BY <1>8, <2>1 DEF fulfillmentCreate
  <2>3. failed = [v \in Workers |-> {}]
    BY DEF Good, Alone
  <2>4. fulfilled' = [i \in Items |-> fulfilled[i] + ls[i]]
    BY <1>8, <2>2 DEF Fulfil
  <2>5. failed' = failed
    BY <2>1, <2>2, <2>3
  <2> QED BY <2>4, <2>5
<1>10. k'[w] = n + 1
  BY <1>1 DEF RecordInv, Shapes
<1>11. \A s : DoneOf(s)' = DoneOf(s)
  BY <1>1, StaysDone
<1>12. Accounts(w)'
  <2>1. \A i \in Items :
          shipped'[i] = fulfilled'[i] + Sum(Planned(w, i)', k'[w]..Len(Messages[job'[w]]))
    BY <1>1, <1>7, <1>9, <1>10 DEF Planned
  <2>2. \A s \in Skus : Sum(shipped', Of(s)) = DoneOf(s)' + Sent(job'[w], s)
    BY <1>1, <1>3, <1>11
  <2>3. Len(lines'[w]) = Len(Messages[job'[w]]) /\ k'[w] \in 1..(Len(Messages[job'[w]]) + 1)
    BY <1>1, <1>3, <1>4, <1>10
  <2>4. pc'[w] = "send"
    BY <1>1
  <2> QED BY <2>1, <2>2, <2>3, <2>4 DEF Accounts
<1>13. Shipping(w)'
  BY <1>1, <1>2 DEF Shipping
<1>14. AgreeTypes'
  BY <1>1, <1>6, <1>9 DEF Good, AgreeTypes
<1>15. data' = Messages /\ failed' = [v \in Workers |-> {}]
  BY <1>1, <1>9 DEF Good, Alone
<1> QED BY <1>1, <1>2, <1>12, <1>13, <1>14, <1>15, WorkerGoes

\* A message that is done has been shipped and fulfilled.
LEMMA ReturnsAgrees ==
  ASSUME RecordInv, RecordInv', Good, NEW w \in Workers, returns(w)
  PROVE  Good'
<1> DEFINE m == job[w]
           last == Len(Messages[m])
<1>1. /\ pc[w] = "send" /\ k[w] > Len(lines[w]) /\ failed[w] = {}
      /\ phase' = [phase EXCEPT ![m] = "done"] /\ data' = data
      /\ Forget(w) /\ UNCHANGED <<shipped, fulfilled>>
  BY DEF returns, record, Good, Alone
<1>2. m \in Msgs /\ phase[m] = "taken" /\ Accounts(w)
      /\ \A v \in Workers \ {w} : pc[v] = "idle"
  BY <1>1 DEF Good, Alone
<1>3. /\ Len(lines[w]) = last /\ k[w] \in 1..(last + 1) /\ last \in Nat
      /\ \A i \in Items : shipped[i] = fulfilled[i] + Sum(Planned(w, i), k[w]..last)
      /\ \A s \in Skus : Sum(shipped, Of(s)) = DoneOf(s) + Sent(m, s)
  BY <1>1, <1>2, MessageType DEF Accounts
<1>4. k[w]..last = {}
  <2> HIDE DEF m, last
  <2> QED BY <1>1, <1>3
<1>5. shipped = fulfilled
  <2>1. shipped \in [Items -> Nat] /\ fulfilled \in [Items -> Nat]
    BY DEF Good, AgreeTypes, RecordInv, Shapes
  <2>2. \A i \in Items : Sum(Planned(w, i), k[w]..last) = 0
    BY <1>4, SumEmpty, Zenon
  <2>3. \A i \in Items : shipped[i] = fulfilled[i]
    BY <1>3, <2>1, <2>2
  <2> QED BY <2>1, <2>3
<1>6. Done' = Done \cup {m} /\ m \notin Done
  BY <1>1, <1>2 DEF Done, Good, AgreeTypes
<1>7. \A s \in Skus : DoneOf(s)' = DoneOf(s) + Sent(m, s)
  BY <1>2, <1>6, DoneGrows DEF DoneOf
<1>8. \A v \in Workers : pc'[v] = "idle"
  BY <1>1, <1>2 DEF Forget, RecordInv, Shapes
<1>9. AgreeTypes'
  BY <1>1, <1>8 DEF Good, AgreeTypes, Forget
<1>10. data' = Messages /\ failed' = [v \in Workers |-> {}]
  BY <1>1 DEF Good, Alone, Forget
<1>11. shipped' = fulfilled' /\ \A s \in Skus : (Sum(shipped, Of(s)) = DoneOf(s))'
  BY <1>1, <1>3, <1>5, <1>7
<1> QED BY <1>8, <1>9, <1>10, <1>11, WorkerGoes

\* Failures and crashes are used up, and an overlap is not forgotten.
LEMMA SpentStep ==
  ASSUME Spent, Next
  PROVE  /\ Spent'
         /\ Undisturbed' => Undisturbed /\ UNCHANGED <<budget, overlapped>>
<1> USE ShipmentsAssumption
<1>1. ASSUME Fail, overlapped' = overlapped PROVE Spent' /\ ~Undisturbed'
  BY <1>1 DEF Fail, Spent, Undisturbed
<1>2. ASSUME UNCHANGED <<budget, overlapped>>
      PROVE  Spent' /\ (Undisturbed' => Undisturbed /\ UNCHANGED <<budget, overlapped>>)
  BY <1>2 DEF Spent, Undisturbed
<1>3. ASSUME NEW w \in Workers, NEW m \in Msgs, deliver(w, m)
      PROVE  Spent' /\ (Undisturbed' => Undisturbed /\ UNCHANGED <<budget, overlapped>>)
  BY <1>3 DEF deliver, Spent, Undisturbed
<1>4. ASSUME NEW w \in Workers, createFulfillment(w)
      PROVE  Spent' /\ (Undisturbed' => Undisturbed /\ UNCHANGED <<budget, overlapped>>)
  BY <1>1, <1>2, <1>4 DEF createFulfillment, fulfillmentCreate, msgVars
<1>5. ASSUME NEW w \in Workers, createShipments(w), ~createFulfillment(w)
      PROVE  Spent' /\ (Undisturbed' => Undisturbed /\ UNCHANGED <<budget, overlapped>>)
  BY <1>2, <1>5 DEF createShipments, getOrder, getShopShipmentDto, updateOrderItem, nextShipment,
     returns, msgVars
<1>6. ASSUME NEW w \in Workers, throws(w)
      PROVE  Spent' /\ ~Undisturbed'
  BY <1>1, <1>6 DEF throws
<1>7. ASSUME NEW m \in Msgs, retry(m)
      PROVE  Spent' /\ (Undisturbed' => Undisturbed /\ UNCHANGED <<budget, overlapped>>)
  BY <1>2, <1>7 DEF retry
<1>8. ASSUME NEW w \in Workers, crash(w)
      PROVE  Spent' /\ ~Undisturbed'
  BY <1>8 DEF crash, Spent, Undisturbed
<1> QED BY <1>3, <1>4, <1>5, <1>6, <1>7, <1>8 DEF Next

LEMMA AgreeInit == Init => AgreeInv
<1> SUFFICES ASSUME Init PROVE AgreeInv
  OBVIOUS
<1> USE ShipmentsAssumption
<1>1. Spent
  <2>1. MaxFailures \in 0..MaxFailures /\ MaxCrashes \in 0..MaxCrashes
    OBVIOUS
  <2>2. budget = [failure |-> MaxFailures, crash |-> MaxCrashes] /\ overlapped = FALSE
    BY DEF Init
  <2> QED BY <2>1, <2>2, Zenon DEF Spent
<1>2. AgreeTypes /\ Alone
  BY DEF Init, AgreeTypes, Alone, Nothing
<1>3. shipped = fulfilled
  BY DEF Init
<1>4. ASSUME NEW s \in Skus PROVE Sum(shipped, Of(s)) = DoneOf(s)
  <2>1. Done = {}
    BY DEF Done, Init
  <2>2. DoneOf(s) = 0
    BY <2>1, SumEmpty DEF DoneOf
  <2>3. \A i \in Of(s) : shipped[i] = 0
    BY ItemsFinite DEF Init, Nothing
  <2> DEFINE f == shipped
             S == Of(s)
  <2>4. IsFiniteSet(S) /\ \A i \in S : f[i] \in Nat /\ f[i] = f[i] + f[i]
    BY <2>3, ItemsFinite
  <2> HIDE DEF f, S
  <2>5. Sum(f, S) = Sum(f, S) + Sum(f, S)
    BY <2>4, SumPlus
  <2>6. Sum(f, S) \in Nat
    BY <2>4, SumType
  <2>7. \A x \in Nat : x = x + x => x = 0
    OBVIOUS
  <2>8. Sum(f, S) = 0
    BY <2>5, <2>6, <2>7, Zenon
  <2> QED BY <2>2, <2>8 DEF f, S
<1>5. Settled
  BY <1>3, <1>4 DEF Settled
<1>6. \A w \in Workers : pc[w] = "idle"
  BY DEF Init
<1> QED BY <1>1, <1>2, <1>5, <1>6 DEF AgreeInv, Good

\* As long as nothing has failed and no two messages were handled at the same time,
\* the record, Shopify and the messages that are done stay in agreement.
LEMMA AgreeStep ==
  ASSUME Shippable, RecordInv, RecordInv', AgreeInv, [Next]_vars
  PROVE  AgreeInv'
<1>1. CASE UNCHANGED vars
  <2>1. UNCHANGED <<budget, overlapped>>
    BY <1>1 DEF vars, msgVars
  <2>2. UNCHANGED <<record, data, phase, pc, job, k, ships, seen, todo, lines, failed>>
        /\ UNCHANGED <<shipped, fulfilled>>
    BY <1>1 DEF vars, record, msgVars, local
  <2>3. Good => Good'
    <3>1. \A s : DoneOf(s)' = DoneOf(s)
      BY <2>2, StaysDone
    <3>2. \A w : Shipping(w) => Shipping(w)'
      BY <2>2 DEF Shipping
    <3>3. \A w : Accounts(w) => Accounts(w)'
      BY <2>2, <3>1 DEF Accounts, Until, Planned
    <3>4. AgreeTypes /\ Alone /\ Settled => (AgreeTypes /\ Alone /\ Settled)'
      BY <2>2, <3>1 DEF AgreeTypes, Alone, Settled
    <3> QED BY <2>2, <3>2, <3>3, <3>4 DEF Good
  <2> QED BY <2>1, <2>3 DEF AgreeInv, Spent, Undisturbed
<1>2. CASE Next
  <2>1. Spent' /\ (Undisturbed' => Undisturbed /\ UNCHANGED <<budget, overlapped>>)
    BY <1>2, SpentStep DEF AgreeInv
  <2> SUFFICES ASSUME Undisturbed' PROVE Good'
    BY <2>1 DEF AgreeInv
  <2>2. Good /\ Spent /\ ~overlapped' /\ UNCHANGED <<budget, overlapped>>
    BY <2>1 DEF AgreeInv, Undisturbed
  <2>3. ~Fail
    BY <2>2 DEF Fail, Spent
  <2>4. ASSUME NEW w \in Workers, NEW m \in Msgs, deliver(w, m) PROVE Good'
    <3>1. \A v \in Workers : pc[v] = "idle"
      BY <2>2, <2>4 DEF deliver
    <3> QED BY <2>2, <2>4, <3>1, DeliverAgrees
  <2>5. ASSUME NEW w \in Workers, createShipments(w) PROVE Good'
    BY <2>2, <2>3, <2>5, GetOrderAgrees, MapAgrees, UpdateAgrees, NextAgrees, FulfilAgrees,
       ReturnsAgrees DEF createShipments
  <2>6. ASSUME NEW w \in Workers, throws(w) PROVE FALSE
    BY <2>3, <2>6 DEF throws
  <2>7. ASSUME NEW m \in Msgs, retry(m) PROVE FALSE
    BY <2>2, <2>7 DEF retry, Good, AgreeTypes
  <2>8. ASSUME NEW w \in Workers, crash(w) PROVE FALSE
    <3>1. budget.crash \in Nat /\ budget' = budget
      BY <2>2, ShipmentsAssumption DEF Spent
    <3>2. budget'.crash = budget.crash - 1
      BY <2>2, <2>8 DEF crash, Spent
    <3> QED BY <3>1, <3>2
  <2> QED BY <1>2, <2>4, <2>5, <2>6, <2>7, <2>8 DEF Next
<1> QED BY <1>1, <1>2

\* When all messages are done no worker has one left, and all of it is shipped.
LEMMA AgreeDone == AgreeInv => AllAgree
<1> SUFFICES ASSUME AgreeInv, Undisturbed, \A m \in Msgs : phase[m] = "done"
             PROVE  shipped = fulfilled /\ \A s \in Skus : FulfilledOf(s) = ShippedBy(s)
  BY DEF AllAgree
<1>1. Good
  BY DEF AgreeInv
<1>2. \A w \in Workers : pc[w] = "idle"
  BY <1>1 DEF Good, Alone
<1>3. shipped = fulfilled /\ \A s \in Skus : Sum(shipped, Of(s)) = DoneOf(s)
  BY <1>1, <1>2 DEF Good, Settled
<1>4. Done = Msgs
  BY DEF Done
<1>5. \A s \in Skus : DoneOf(s) = ShippedBy(s)
  BY <1>4 DEF DoneOf, ShippedBy, Sent, Contents
<1>6. \A s \in Skus : FulfilledOf(s) = Sum(fulfilled, Of(s))
  BY DEF FulfilledOf, Of
<1> QED BY <1>3, <1>5, <1>6

\* Where every item is known to Shopify, no message and no shipment is empty, and no more
\* is shipped of a SKU than was ordered: if all messages are handled one after the other
\* and every call succeeds, then in the end the record of each item is what Shopify has
\* fulfilled of it, and of each SKU that is what the warehouse has shipped.
THEOREM Agreement == Shippable => (Spec => []AllAgree)
<1> SUFFICES ASSUME Shippable PROVE Spec => []AllAgree
  OBVIOUS
<1>1. Init => RecordInv /\ AgreeInv
  BY RecordInit, AgreeInit
<1>2. RecordInv /\ AgreeInv /\ [Next]_vars => (RecordInv /\ AgreeInv)'
  BY RecordStep, AgreeStep
<1> QED BY <1>1, <1>2, AgreeDone, PTL DEF Spec
================================================================================
