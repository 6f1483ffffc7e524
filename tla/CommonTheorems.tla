----------------------------- MODULE CommonTheorems -----------------------------
(***************************************************************************)
(* Facts that the proofs of several modules need: least elements,          *)
(* induction over the subsets of a finite set, and sums over finite sets.  *)
(***************************************************************************)
EXTENDS Sums, Integers, FiniteSetTheorems, WellFoundedInduction, TLAPS

\* A set of naturals that is not empty has a least element.
LEMMA LeastNat ==
  ASSUME NEW S \in SUBSET Nat, S # {}
  PROVE  \E n \in S : \A m \in S : n =< m
<1>1. PICK n \in S : \A m \in S : ~(<<m, n>> \in OpToRel(<, Nat))
  BY NatLessThanWellFounded, WFMin
<1>2. \A m \in S : ~(m < n)
  BY <1>1 DEF OpToRel
<1> QED BY <1>2

\* Induction over the subsets of a finite set, for a property that is given as the set P
\* of those that have it.
LEMMA SubsetInduction ==
  ASSUME NEW S, IsFiniteSet(S), NEW P,
         \A u \in SUBSET S : (\A x \in u : u \ {x} \in P) => u \in P
  PROVE  S \in P
<1> DEFINE Bad == {n \in Nat : \E u \in SUBSET S : Cardinality(u) = n /\ u \notin P}
<1>1. \A u \in SUBSET S : /\ Cardinality(u) \in Nat
                          /\ \A x \in u : /\ u \ {x} \in SUBSET S
                                          /\ Cardinality(u \ {x}) = Cardinality(u) - 1
  BY FS_Subset, FS_CardinalityType, FS_RemoveElement
<1>2. Bad = {}
  <2> SUFFICES ASSUME Bad # {} PROVE FALSE
    OBVIOUS
  <2>1. PICK n \in Bad : \A m \in Bad : n =< m
    BY LeastNat
  <2>2. PICK u \in SUBSET S : Cardinality(u) = n /\ u \notin P
    BY <2>1
  <2>3. PICK x \in u : u \ {x} \notin P
    BY <2>2
  <2> DEFINE v == u \ {x}
  <2>4. v \in SUBSET S /\ Cardinality(v) = n - 1 /\ Cardinality(v) \in Nat
    BY <1>1, <2>2
  <2> QED BY <2>1, <2>3, <2>4
<1>3. Cardinality(S) \in Nat /\ S \in SUBSET S
  BY FS_CardinalityType
<1> QED BY <1>2, <1>3

\* The recursive function that Sum(f, S) applies to S.
Chosen(s) == CHOOSE x \in s : TRUE
Iterates(f, S, it) ==
  it = [s \in SUBSET S |-> IF s = {} THEN 0 ELSE f[Chosen(s)] + it[s \ {Chosen(s)}]]

LEMMA ChosenIn == ASSUME NEW s, s # {} PROVE Chosen(s) \in s
BY DEF Chosen

\* Such a function exists: it can be built up by the cardinality of its arguments.
LEMMA IterateExists ==
  ASSUME NEW f, NEW S, IsFiniteSet(S)
  PROVE  \E it : Iterates(f, S, it)
<1> DEFINE Upto(n, it) ==
      /\ it = [s \in SUBSET S |-> it[s]]
      /\ it[{}] = 0
      /\ \A s \in SUBSET S : s # {} /\ Cardinality(s) =< n
                               => it[s] = f[Chosen(s)] + it[s \ {Chosen(s)}]
           Bad == {n \in Nat : ~ \E it : Upto(n, it)}
<1>1. \A s \in SUBSET S : /\ Cardinality(s) \in Nat
                          /\ Cardinality(s) = 0 <=> s = {}
                          /\ s # {} => /\ s \ {Chosen(s)} \in SUBSET S
                                       /\ Cardinality(s \ {Chosen(s)}) = Cardinality(s) - 1
  BY FS_Subset, FS_CardinalityType, FS_EmptySet, FS_RemoveElement, ChosenIn
<1>2. Bad = {}
  <2> SUFFICES ASSUME Bad # {} PROVE FALSE
    OBVIOUS
  <2>1. PICK n \in Bad : \A m \in Bad : n =< m
    BY LeastNat
  <2>2. n # 0
    <3> DEFINE it == [s \in SUBSET S |-> 0]
    <3>1. ASSUME NEW s \in SUBSET S, Cardinality(s) =< 0 PROVE s = {}
      <4>1. Cardinality(s) \in Nat /\ (Cardinality(s) = 0 <=> s = {})
        BY <1>1
      <4> QED BY <3>1, <4>1
    <3>2. Upto(0, it)
      BY <3>1
    <3> QED BY <3>2
  <2>n. n \in Nat
    OBVIOUS
  <2>3. n - 1 \in Nat /\ n - 1 \notin Bad
    <3>1. \A m \in Bad : n =< m /\ m \in Nat
      BY <2>1
    <3> HIDE DEF Bad
    <3> QED BY <2>n, <2>2, <3>1
  <2>4. PICK it : Upto(n - 1, it)
    BY <2>3
  <2> DEFINE jt == [s \in SUBSET S |-> IF Cardinality(s) = n
                                         THEN f[Chosen(s)] + it[s \ {Chosen(s)}] ELSE it[s]]
  <2>5. \A s \in SUBSET S : Cardinality(s) # n => jt[s] = it[s]
    OBVIOUS
  <2>6. jt[{}] = 0
    BY <1>1, <2>2, <2>4, <2>5
  <2>7. ASSUME NEW s \in SUBSET S, s # {}, Cardinality(s) =< n
        PROVE  jt[s] = f[Chosen(s)] + jt[s \ {Chosen(s)}]
    <3> DEFINE t == s \ {Chosen(s)}
    <3>1. t \in SUBSET S /\ Cardinality(t) = Cardinality(s) - 1 /\ Cardinality(s) \in Nat
      BY <2>7, <1>1
    <3>2. jt[t] = it[t]
      <4>1. Cardinality(t) # n
        BY <3>1, <2>1, <2>7
      <4> QED BY <4>1, <3>1, <2>5
    <3>3. jt[s] = f[Chosen(s)] + it[t]
      <4>1. CASE Cardinality(s) = n
        BY <4>1
      <4>2. CASE Cardinality(s) # n
        <5>1. Cardinality(s) =< n - 1
          BY <4>2, <2>7, <3>1, <2>1
        <5>2. it[s] = f[Chosen(s)] + it[t]
          BY <5>1, <2>4, <2>7
        <5> QED BY <4>2, <5>2
      <4> QED BY <4>1, <4>2
    <3> QED BY <3>2, <3>3
  <2>8. jt = [s \in SUBSET S |-> jt[s]]
    OBVIOUS
  <2> HIDE DEF jt
  <2>9. Upto(n, jt)
    BY <2>6, <2>7, <2>8
  <2> QED BY <2>1, <2>9
<1>3. Cardinality(S) \in Nat /\ \A s \in SUBSET S : Cardinality(s) =< Cardinality(S)
  BY FS_Subset, FS_CardinalityType
<1>4. PICK it : Upto(Cardinality(S), it)
  BY <1>2, <1>3
<1>5. \A s \in SUBSET S : it[s] = IF s = {} THEN 0 ELSE f[Chosen(s)] + it[s \ {Chosen(s)}]
  BY <1>3, <1>4
<1>6. it = [s \in SUBSET S |-> IF s = {} THEN 0 ELSE f[Chosen(s)] + it[s \ {Chosen(s)}]]
  BY <1>4, <1>5, Zenon
<1> QED BY <1>6 DEF Iterates

LEMMA SumIterates ==
  ASSUME NEW f, NEW S, IsFiniteSet(S)
  PROVE  \E it : Iterates(f, S, it) /\ Sum(f, S) = it[S]
<1>1. PICK it : Iterates(f, S, it)
  BY IterateExists
<1> QED BY <1>1 DEF Sum, MapThenSumSet, MapThenFoldSet, Iterates, Chosen

\* What it gives for a set does not depend on the set it was made for.
LEMMA IteratesAgree ==
  ASSUME NEW f, NEW S, NEW T, NEW it, NEW jt, Iterates(f, S, it), Iterates(f, T, jt),
         IsFiniteSet(T), T \subseteq S
  PROVE  it[T] = jt[T]
<1> DEFINE P == {u \in SUBSET T : it[u] = jt[u]}
<1>1. ASSUME NEW u \in SUBSET T, \A x \in u : u \ {x} \in P PROVE u \in P
  <2>1. u \in SUBSET S
    OBVIOUS
  <2>2. u # {} => it[u \ {Chosen(u)}] = jt[u \ {Chosen(u)}]
    BY <1>1, ChosenIn
  <2> QED BY <2>1, <2>2 DEF Iterates
<1> HIDE DEF P
<1>2. T \in P
  BY <1>1, SubsetInduction
<1> QED BY <1>2 DEF P

LEMMA SumChosen ==
  ASSUME NEW f, NEW S, IsFiniteSet(S)
  PROVE  Sum(f, S) = IF S = {} THEN 0 ELSE f[Chosen(S)] + Sum(f, S \ {Chosen(S)})
<1> DEFINE T == S \ {Chosen(S)}
<1>1. IsFiniteSet(T) /\ T \subseteq S
  BY FS_RemoveElement
<1>2. PICK it : Iterates(f, S, it) /\ Sum(f, S) = it[S]
  BY SumIterates
<1>3. PICK jt : Iterates(f, T, jt) /\ Sum(f, T) = jt[T]
  BY <1>1, SumIterates
<1>4. it[T] = jt[T]
  BY <1>1, <1>2, <1>3, IteratesAgree
<1>5. it[S] = IF S = {} THEN 0 ELSE f[Chosen(S)] + it[T]
  BY <1>2 DEF Iterates
<1> QED BY <1>2, <1>3, <1>4, <1>5

LEMMA SumEmpty == ASSUME NEW f PROVE Sum(f, {}) = 0
BY SumChosen, FS_EmptySet

LEMMA SumType ==
  ASSUME NEW S, IsFiniteSet(S), NEW f, \A x \in S : f[x] \in Nat
  PROVE  Sum(f, S) \in Nat
<1> DEFINE P == {u \in SUBSET S : Sum(f, u) \in Nat}
<1>1. ASSUME NEW u \in SUBSET S, \A x \in u : u \ {x} \in P PROVE u \in P
  <2>1. Sum(f, u) = IF u = {} THEN 0 ELSE f[Chosen(u)] + Sum(f, u \ {Chosen(u)})
    BY FS_Subset, SumChosen
  <2>2. u # {} => f[Chosen(u)] \in Nat /\ Sum(f, u \ {Chosen(u)}) \in Nat
    BY <1>1, ChosenIn
  <2> QED BY <2>1, <2>2
<1> HIDE DEF P
<1>2. S \in P
  BY <1>1, SubsetInduction
<1> QED BY <1>2 DEF P

\* Any element can be taken out of a sum.
LEMMA SumRemove ==
  ASSUME NEW S, IsFiniteSet(S), NEW f, \A x \in S : f[x] \in Nat, NEW x \in S
  PROVE  Sum(f, S) = f[x] + Sum(f, S \ {x})
<1> DEFINE P == {u \in SUBSET S : \A y \in u : Sum(f, u) = f[y] + Sum(f, u \ {y})}
<1>1. ASSUME NEW u \in SUBSET S, \A y \in u : u \ {y} \in P PROVE u \in P
  <2> SUFFICES ASSUME NEW y \in u PROVE Sum(f, u) = f[y] + Sum(f, u \ {y})
    OBVIOUS
  <2> DEFINE a == Chosen(u)
             v == u \ {a}
             w == u \ {y}
  <2>1. a \in u /\ Sum(f, u) = f[a] + Sum(f, v)
    BY FS_Subset, SumChosen, ChosenIn
  <2>2. CASE a = y
    BY <2>1, <2>2
  <2>3. CASE a # y
    <3>1. y \in v /\ a \in w /\ v \in P /\ w \in P
      BY <1>1, <2>1, <2>3
    <3>2. Sum(f, v) = f[y] + Sum(f, v \ {y}) /\ Sum(f, w) = f[a] + Sum(f, w \ {a})
      BY <3>1
    <3>3. v \ {y} = w \ {a} /\ IsFiniteSet(v \ {y}) /\ v \ {y} \subseteq S
      BY FS_Subset
    <3>4. Sum(f, v \ {y}) \in Nat
      BY <3>3, SumType
    <3>5. f[a] \in Nat /\ f[y] \in Nat
      BY <2>1
    <3> HIDE DEF a, v, w
    <3>6. Sum(f, w) = f[a] + Sum(f, v \ {y})
      BY <3>2, <3>3
    <3>7. Sum(f, u) = f[y] + Sum(f, w)
      BY <2>1, <3>2, <3>4, <3>5, <3>6
    <3> QED BY <3>7 DEF w
  <2> QED BY <2>2, <2>3
<1> HIDE DEF P
<1>2. S \in P
  BY <1>1, SubsetInduction
<1> QED BY <1>2 DEF P

LEMMA SumAdd ==
  ASSUME NEW S, IsFiniteSet(S), NEW f, NEW x, \A y \in S \cup {x} : f[y] \in Nat, x \notin S
  PROVE  Sum(f, S \cup {x}) = f[x] + Sum(f, S)
<1>1. IsFiniteSet(S \cup {x}) /\ (S \cup {x}) \ {x} = S
  BY FS_AddElement
<1> QED BY <1>1, SumRemove

\* Sets that have nothing in common add up.
LEMMA SumUnion ==
  ASSUME NEW S, IsFiniteSet(S), NEW T, IsFiniteSet(T), S \cap T = {},
         NEW f, \A x \in S \cup T : f[x] \in Nat
  PROVE  Sum(f, S \cup T) = Sum(f, S) + Sum(f, T)
<1> DEFINE P == {u \in SUBSET T : Sum(f, S \cup u) = Sum(f, S) + Sum(f, u)}
<1>1. ASSUME NEW u \in SUBSET T, \A x \in u : u \ {x} \in P PROVE u \in P
  <2>1. Sum(f, S) \in Nat
    BY SumType
  <2>2. CASE u = {}
    <3>1. S \cup u = S /\ Sum(f, u) = 0
      BY <2>2, SumEmpty
    <3> QED BY <2>1, <3>1
  <2>3. CASE u # {}
    <3> PICK x \in u : TRUE
      BY <2>3
    <3> DEFINE v == u \ {x}
    <3>1. Sum(f, S \cup v) = Sum(f, S) + Sum(f, v)
      BY <1>1
    <3>2. IsFiniteSet(u) /\ IsFiniteSet(v) /\ IsFiniteSet(S \cup u)
      BY FS_Subset, FS_Union
    <3>3. Sum(f, u) = f[x] + Sum(f, v)
      BY <3>2, SumRemove
    <3>4. (S \cup u) \ {x} = S \cup v
      OBVIOUS
    <3>5. Sum(f, S \cup u) = f[x] + Sum(f, S \cup v)
      BY <3>2, <3>4, SumRemove
    <3>6. Sum(f, v) \in Nat /\ f[x] \in Nat
      BY <3>2, SumType
    <3> HIDE DEF v
    <3> QED BY <2>1, <3>1, <3>3, <3>5, <3>6
  <2> QED BY <2>2, <2>3
<1> HIDE DEF P
<1>2. T \in P
  BY <1>1, SubsetInduction
<1> QED BY <1>2 DEF P

\* A part adds up to no more than the whole, and to less if what is missing counts.
LEMMA SumPart ==
  ASSUME NEW S, IsFiniteSet(S), NEW f, \A x \in S : f[x] \in Nat, NEW T \in SUBSET S
  PROVE  /\ Sum(f, T) =< Sum(f, S)
         /\ (\A x \in S : f[x] > 0) /\ Sum(f, T) = Sum(f, S) => T = S
<1> DEFINE R == S \ T
<1>1. IsFiniteSet(T) /\ IsFiniteSet(R) /\ T \cup R = S /\ T \cap R = {}
  BY FS_Subset
<1>2. Sum(f, S) = Sum(f, T) + Sum(f, R)
  BY <1>1, SumUnion
<1>3. Sum(f, T) \in Nat /\ Sum(f, R) \in Nat
  BY <1>1, SumType
<1>4. ASSUME \A x \in S : f[x] > 0, R # {} PROVE Sum(f, R) > 0
  <2> PICK x \in R : TRUE
    BY <1>4
  <2>1. Sum(f, R) = f[x] + Sum(f, R \ {x}) /\ IsFiniteSet(R \ {x})
    BY <1>1, SumRemove, FS_Subset
  <2>2. Sum(f, R \ {x}) \in Nat /\ f[x] \in Nat /\ f[x] > 0
    BY <1>4, <2>1, SumType
  <2> QED BY <2>1, <2>2
<1>5. R = {} => T = S
  OBVIOUS
<1> HIDE DEF R
<1> QED BY <1>2, <1>3, <1>4, <1>5

\* Only the values on the set count; they may be looked up under other names, and scaled.
Scales(f, S, c, g, T, h) ==
  /\ \A x \in S : g[h[x]] \in Nat /\ f[x] = c * g[h[x]]
  /\ \A x, y \in S : h[x] = h[y] => x = y
  /\ T = {h[x] : x \in S}

LEMMA SumImage ==
  ASSUME NEW S, IsFiniteSet(S), NEW f, NEW g, NEW h, NEW c \in Nat, NEW T,
         Scales(f, S, c, g, T, h)
  PROVE  Sum(f, S) = c * Sum(g, T) /\ IsFiniteSet(T)
<1>0. /\ \A x \in S : g[h[x]] \in Nat /\ f[x] = c * g[h[x]]
      /\ \A x, y \in S : h[x] = h[y] => x = y
      /\ T = {h[x] : x \in S}
  BY DEF Scales
<1> DEFINE image(u) == {h[x] : x \in u}
           P == {u \in SUBSET S : /\ IsFiniteSet(image(u))
                                  /\ Sum(f, u) = c * Sum(g, image(u))}
<1>1. ASSUME NEW u \in SUBSET S, \A x \in u : u \ {x} \in P PROVE u \in P
  <2>1. CASE u = {}
    <3>1. image(u) = {} /\ c * 0 = 0
      BY <2>1
    <3> QED BY <2>1, <3>1, SumEmpty, FS_EmptySet
  <2>2. CASE u # {}
    <3> PICK x \in u : TRUE
      BY <2>2
    <3> DEFINE v == u \ {x}
               iu == image(u)
               iv == image(v)
    <3>1. Sum(f, v) = c * Sum(g, iv) /\ IsFiniteSet(iv)
      BY <1>1
    <3>2. IsFiniteSet(u) /\ IsFiniteSet(v) /\ IsFiniteSet(iu)
      <4>1. iu = iv \cup {h[x]}
        OBVIOUS
      <4> HIDE DEF iu, iv
      <4> QED BY <3>1, <4>1, FS_Subset, FS_AddElement
    <3>3. h[x] \in iu /\ iu \ {h[x]} = iv /\ \A y \in iu : g[y] \in Nat
      BY <1>0
    <3>4. \A y \in u : f[y] \in Nat
      BY <1>0
    <3>5. f[x] = c * g[h[x]] /\ g[h[x]] \in Nat
      BY <1>0
    <3> HIDE DEF v, iu, iv
    <3>6. Sum(g, iu) = g[h[x]] + Sum(g, iv)
      BY <3>2, <3>3, SumRemove
    <3>7. Sum(g, iv) \in Nat
      BY <3>1, <3>3, SumType
    <3>8. Sum(f, u) = f[x] + Sum(f, v)
      BY <3>2, <3>4, SumRemove DEF v
    <3>9. \A a, b \in Nat : c * (a + b) = c * a + c * b
      <4> SUFFICES ASSUME NEW a \in Nat, NEW b \in Nat PROVE c * (a + b) = c * a + c * b
        OBVIOUS
      <4> QED OBVIOUS
    <3>10. c * Sum(g, iu) = c * g[h[x]] + c * Sum(g, iv)
      BY <3>5, <3>6, <3>7, <3>9
    <3> QED BY <3>1, <3>2, <3>5, <3>8, <3>10 DEF iu
  <2> QED BY <2>1, <2>2
<1> HIDE DEF P
<1>2. S \in P
  BY <1>1, SubsetInduction
<1> QED BY <1>0, <1>2 DEF P

\* The sum of sums.
LEMMA SumPlus ==
  ASSUME NEW S, IsFiniteSet(S), NEW f, NEW g, NEW h,
         \A x \in S : f[x] \in Nat /\ g[x] \in Nat /\ h[x] = f[x] + g[x]
  PROVE  Sum(h, S) = Sum(f, S) + Sum(g, S)
<1> DEFINE P == {u \in SUBSET S : Sum(h, u) = Sum(f, u) + Sum(g, u)}
<1>1. ASSUME NEW u \in SUBSET S, \A x \in u : u \ {x} \in P PROVE u \in P
  <2>1. CASE u = {}
    <3>1. Sum(h, {}) = 0 /\ Sum(f, {}) = 0 /\ Sum(g, {}) = 0
      BY SumEmpty
    <3> QED BY <2>1, <3>1
  <2>2. CASE u # {}
    <3> PICK x \in u : TRUE
      BY <2>2
    <3> DEFINE v == u \ {x}
    <3>1. Sum(h, v) = Sum(f, v) + Sum(g, v)
      BY <1>1
    <3>2. IsFiniteSet(u) /\ IsFiniteSet(v)
      BY FS_Subset
    <3>3. /\ Sum(h, u) = h[x] + Sum(h, v) /\ Sum(f, u) = f[x] + Sum(f, v)
          /\ Sum(g, u) = g[x] + Sum(g, v)
      BY <3>2, SumRemove
    <3>4. Sum(f, v) \in Nat /\ Sum(g, v) \in Nat /\ f[x] \in Nat /\ g[x] \in Nat
      BY <3>2, SumType
    <3> HIDE DEF v
    <3> QED BY <3>1, <3>3, <3>4
  <2> QED BY <2>1, <2>2
<1> HIDE DEF P
<1>2. S \in P
  BY <1>1, SubsetInduction
<1> QED BY <1>2 DEF P

\* Only the values on the set count.
LEMMA SumSame ==
  ASSUME NEW S, IsFiniteSet(S), NEW f, NEW g, \A x \in S : f[x] = g[x]
  PROVE  Sum(f, S) = Sum(g, S)
<1> DEFINE P == {u \in SUBSET S : Sum(f, u) = Sum(g, u)}
<1>1. ASSUME NEW u \in SUBSET S, \A x \in u : u \ {x} \in P PROVE u \in P
  <2>1. /\ Sum(f, u) = IF u = {} THEN 0 ELSE f[Chosen(u)] + Sum(f, u \ {Chosen(u)})
        /\ Sum(g, u) = IF u = {} THEN 0 ELSE g[Chosen(u)] + Sum(g, u \ {Chosen(u)})
    BY FS_Subset, SumChosen
  <2>2. u # {} => /\ Sum(f, u \ {Chosen(u)}) = Sum(g, u \ {Chosen(u)})
                  /\ f[Chosen(u)] = g[Chosen(u)]
    BY <1>1, ChosenIn
  <2> QED BY <2>1, <2>2
<1> HIDE DEF P
<1>2. S \in P
  BY <1>1, SubsetInduction
<1> QED BY <1>2 DEF P

LEMMA RangeFinite == ASSUME NEW a \in Int, NEW b \in Int PROVE IsFiniteSet(a..b)
BY FS_Interval

\* One more, and one less.
LEMMA SumLast ==
  ASSUME NEW n \in Nat, NEW f, \A x \in 1..(n + 1) : f[x] \in Nat
  PROVE  Sum(f, 1..(n + 1)) = Sum(f, 1..n) + f[n + 1]
<1>1. 1..(n + 1) = (1..n) \cup {n + 1} /\ n + 1 \notin 1..n /\ IsFiniteSet(1..n)
  BY FS_Interval
<1>2. Sum(f, (1..n) \cup {n + 1}) = f[n + 1] + Sum(f, 1..n)
  BY <1>1, SumAdd
<1>3. Sum(f, 1..n) \in Nat /\ f[n + 1] \in Nat
  BY <1>1, SumType
<1>4. Sum(f, 1..(n + 1)) = f[n + 1] + Sum(f, 1..n)
  BY <1>1, <1>2, Zenon
<1> DEFINE before == Sum(f, 1..n)
           last == f[n + 1]
<1> HIDE DEF before, last
<1>5. last + before = before + last
  BY <1>3 DEF before, last
<1> QED BY <1>4, <1>5, Zenon DEF before, last

LEMMA SumHead ==
  ASSUME NEW a \in Nat, NEW b \in Nat, a =< b, NEW f, \A x \in a..b : f[x] \in Nat
  PROVE  Sum(f, a..b) = f[a] + Sum(f, (a + 1)..b)
<1>1. a \in a..b /\ (a..b) \ {a} = (a + 1)..b /\ IsFiniteSet(a..b)
  BY FS_Interval
<1> QED BY <1>1, SumRemove
=================================================================================
