----------------------------- MODULE ReadsProofs -----------------------------
(***************************************************************************)
(* Proofs about Reads for any tenants, memories and writes beside a call.  *)
(***************************************************************************)
EXTENDS Reads, FiniteSetTheorems, SequenceTheorems, WellFoundedInduction, TLAPS

-----------------------------------------------------------------------------
(* The least of some numbers                                               *)

Below == {p \in Nat \X Nat : p[1] < p[2]}

\* The smaller-than relation is well founded.
LEMMA BelowWellFounded == IsWellFoundedOn(Below, Nat)
<1>1. Below = OpToRel(<, Nat)
  BY DEF Below, OpToRel
<1> QED BY <1>1, NatLessThanWellFounded

\* A set of natural numbers has a least member.
LEMMA LeastMember ==
  ASSUME NEW T \in SUBSET Nat, T # {}
  PROVE  \E x \in T : \A y \in T : x <= y
<1>1. PICK x \in T : \A y \in T : ~(<<y, x>> \in Below)
  BY BelowWellFounded, WFMin
<1>2. ASSUME NEW y \in T PROVE x <= y
  <2>1. <<y, x>> \in Nat \X Nat /\ ~(y < x)
    BY <1>1 DEF Below
  <2> QED BY <2>1
<1> QED BY <1>2

-----------------------------------------------------------------------------
(* Sets arranged in an order                                               *)

\* R orders the members of C strictly and totally.
Orders(R, C) ==
  /\ \A i \in C : <<i, i>> \notin R
  /\ \A i, j, k \in C : <<i, j>> \in R /\ <<j, k>> \in R => <<i, k>> \in R
  /\ \A i, j \in C : i # j => <<i, j>> \in R \/ <<j, i>> \in R

\* How many members of C come before i.
Place(C, R, i) == Cardinality({j \in C : <<j, i>> \in R})

\* A member's rank is below the number of members and grows with the order.
LEMMA PlaceGrows ==
  ASSUME NEW C, IsFiniteSet(C), NEW R, Orders(R, C)
  PROVE  /\ \A i \in C : Place(C, R, i) \in 0 .. Cardinality(C) - 1
         /\ \A i, j \in C : <<i, j>> \in R <=> Place(C, R, i) < Place(C, R, j)
         /\ \A i, j \in C : Place(C, R, i) = Place(C, R, j) => i = j
<1> DEFINE P(i) == {j \in C : <<j, i>> \in R}
<1>1. \A i \in C : P(i) \in SUBSET C /\ i \notin P(i)
  BY DEF Orders
<1>2. \A i, j \in C : <<i, j>> \in R => P(i) \in SUBSET P(j) /\ i \in P(j)
  BY DEF Orders
<1>3. \A i \in C : Place(C, R, i) = Cardinality(P(i))
  BY DEF Place
<1> HIDE DEF P
<1>4. Cardinality(C) \in Nat
  BY FS_CardinalityType
<1>5. \A i \in C : IsFiniteSet(P(i)) /\ Cardinality(P(i)) \in Nat /\ Cardinality(P(i)) < Cardinality(C)
  <2> SUFFICES ASSUME NEW i \in C
               PROVE  IsFiniteSet(P(i)) /\ Cardinality(P(i)) \in Nat /\ Cardinality(P(i)) < Cardinality(C)
    OBVIOUS
  <2>1. IsFiniteSet(P(i)) /\ Cardinality(P(i)) <= Cardinality(C) /\ Cardinality(P(i)) # Cardinality(C)
    BY <1>1, FS_Subset
  <2>2. Cardinality(P(i)) \in Nat
    BY <2>1, FS_CardinalityType
  <2> QED BY <1>4, <2>1, <2>2
<1>6. ASSUME NEW i \in C, NEW j \in C, <<i, j>> \in R PROVE Place(C, R, i) < Place(C, R, j)
  <2>1. P(i) \in SUBSET P(j) /\ i \in P(j) /\ i \notin P(i)
    BY <1>1, <1>2, <1>6
  <2>2. Cardinality(P(i)) <= Cardinality(P(j)) /\ Cardinality(P(i)) # Cardinality(P(j))
    BY <1>5, <2>1, FS_Subset
  <2> QED BY <1>3, <1>5, <2>2
<1>7. \A i \in C : Place(C, R, i) \in 0 .. Cardinality(C) - 1
  BY <1>3, <1>4, <1>5
<1>8. \A i, j \in C : i # j => <<i, j>> \in R \/ <<j, i>> \in R
  BY DEF Orders
<1>9. ASSUME NEW i \in C, NEW j \in C, Place(C, R, i) < Place(C, R, j) PROVE <<i, j>> \in R
  <2>1. Place(C, R, i) \in Nat /\ Place(C, R, j) \in Nat
    BY <1>7
  <2>2. <<j, i>> \notin R
    BY <1>6, <1>9, <2>1
  <2> QED BY <1>8, <1>9, <2>1, <2>2
<1>10. ASSUME NEW i \in C, NEW j \in C, Place(C, R, i) = Place(C, R, j) PROVE i = j
  <2>1. ~(Place(C, R, i) < Place(C, R, j)) /\ ~(Place(C, R, j) < Place(C, R, i))
    BY <1>7, <1>10
  <2>2. <<i, j>> \notin R /\ <<j, i>> \notin R
    BY <1>6, <2>1
  <2> QED BY <1>8, <2>2
<1> QED BY <1>6, <1>7, <1>9, <1>10

\* s lists the members of C in the order R.
Lists(s, C, R) == /\ s \in [1 .. Cardinality(C) -> C]
                  /\ \A a, b \in 1 .. Cardinality(C) : a < b => <<s[a], s[b]>> \in R

\* Each rank below the number of members is some member's.
LEMMA PlaceTaken ==
  ASSUME NEW C, IsFiniteSet(C), NEW R, Orders(R, C)
  PROVE  \A n \in 1 .. Cardinality(C) : \E i \in C : Place(C, R, i) = n - 1
<1> DEFINE N == Cardinality(C)
           T == 0 .. N - 1
           f == [i \in C |-> Place(C, R, i)]
<1>1. N \in Nat
  BY FS_CardinalityType
<1>2. IsFiniteSet(T) /\ Cardinality(T) = N
  <2>1. CASE N = 0
    BY <2>1, FS_Interval
  <2>2. CASE N # 0
    BY <1>1, <2>2, FS_Interval
  <2> QED BY <2>1, <2>2
<1> HIDE DEF T, N
<1>3. f \in Injection(C, T)
  BY PlaceGrows DEF Injection, IsInjective, T, N
<1> HIDE DEF f
<1>4. f \in Surjection(C, T)
  BY <1>2, <1>3, FS_Injection DEF N
<1> SUFFICES ASSUME NEW n \in 1 .. N PROVE \E i \in C : Place(C, R, i) = n - 1
  BY DEF N
<1>5. n - 1 \in T
  BY <1>1 DEF T
<1> QED BY <1>4, <1>5 DEF Surjection, f

\* To place each member by its rank is to list them in order.
LEMMA PlacesList ==
  ASSUME NEW C, IsFiniteSet(C), NEW R, Orders(R, C), NEW s,
         s = [n \in 1 .. Cardinality(C) |-> s[n]],
         \A n \in 1 .. Cardinality(C) : s[n] \in C /\ Place(C, R, s[n]) = n - 1
  PROVE  Lists(s, C, R)
<1> DEFINE N == Cardinality(C)
<1>1. N \in Nat
  BY FS_CardinalityType
<1>2. \A n \in 1 .. N : s[n] \in C /\ Place(C, R, s[n]) = n - 1
  OBVIOUS
<1>3. s \in [1 .. N -> C]
  BY <1>2
<1> HIDE DEF N
<1>4. \A a, b \in 1 .. N : a < b => <<s[a], s[b]>> \in R
  <2> SUFFICES ASSUME NEW a \in 1 .. N, NEW b \in 1 .. N, a < b PROVE <<s[a], s[b]>> \in R
    OBVIOUS
  <2>1. a - 1 < b - 1
    BY <1>1
  <2> QED BY <1>2, <2>1, PlaceGrows
<1> QED BY <1>3, <1>4 DEF Lists, N

\* Such a list has every member once.
LEMMA ListsAll ==
  ASSUME NEW C, IsFiniteSet(C), NEW R, Orders(R, C), NEW s, Lists(s, C, R)
  PROVE  /\ s \in Seq(C) /\ Len(s) = Cardinality(C)
         /\ \A a, b \in 1 .. Len(s) : s[a] = s[b] => a = b
         /\ \A i \in C : \E a \in 1 .. Len(s) : s[a] = i
<1> DEFINE N == Cardinality(C)
<1>1. N \in Nat
  BY FS_CardinalityType
<1>2. s \in Seq(C) /\ Len(s) = N
  BY <1>1 DEF Lists
<1>3. \A a, b \in 1 .. N : s[a] = s[b] => a = b
  <2> SUFFICES ASSUME NEW a \in 1 .. N, NEW b \in 1 .. N, s[a] = s[b], a < b PROVE FALSE
    BY <1>1
  <2> QED BY DEF Lists, Orders
<1>4. s \in Injection(1 .. N, C)
  BY <1>3 DEF Lists, Injection, IsInjective
<1>5. IsFiniteSet(1 .. N) /\ Cardinality(1 .. N) = N
  <2>1. CASE N = 0
    BY <2>1, FS_Interval
  <2>2. CASE N # 0
    BY <1>1, <2>2, FS_Interval
  <2> QED BY <2>1, <2>2
<1> HIDE DEF N
<1>6. s \in Surjection(1 .. N, C)
  BY <1>4, <1>5, FS_Injection DEF N
<1> QED BY <1>2, <1>3, <1>6 DEF Surjection, N

\* Some positions of a list are no more than there are.
LEMMA PositionsFinite ==
  ASSUME NEW N \in Nat, NEW K \in SUBSET (1 .. N)
  PROVE  IsFiniteSet(K) /\ Cardinality(K) \in Nat /\ Cardinality(K) <= N
<1>1. IsFiniteSet(1 .. N) /\ Cardinality(1 .. N) = N
  <2>1. CASE N = 0
    BY <2>1, FS_Interval
  <2>2. CASE N # 0
    BY <2>2, FS_Interval
  <2> QED BY <2>1, <2>2
<1> DEFINE T == 1 .. N
<1> HIDE DEF T
<1>2. IsFiniteSet(T) /\ Cardinality(T) = N /\ K \in SUBSET T
  BY <1>1 DEF T
<1>3. IsFiniteSet(K) /\ Cardinality(K) <= N
  BY <1>2, FS_Subset
<1> QED BY <1>3, FS_CardinalityType

\* No list without repetition is longer than what it is drawn from.
LEMMA DistinctLength ==
  ASSUME NEW C, IsFiniteSet(C), NEW s \in Seq(C), \A a, b \in 1 .. Len(s) : s[a] = s[b] => a = b
  PROVE  Len(s) <= Cardinality(C)
<1> DEFINE T == 1 .. Len(s)
<1>1. s \in Injection(T, C) /\ Len(s) \in Nat
  BY DEF Injection, IsInjective
<1>2. IsFiniteSet(T) /\ Cardinality(T) = Len(s)
  <2>1. CASE Len(s) = 0
    BY <2>1, FS_Interval
  <2>2. CASE Len(s) # 0
    BY <1>1, <2>2, FS_Interval
  <2> QED BY <2>1, <2>2
<1> HIDE DEF T
<1>3. Cardinality(T) <= Cardinality(C)
  BY <1>1, <1>2, FS_Injection
<1> QED BY <1>2, <1>3

\* s goes through C in the order R, once each.
Goes(s, C, R) ==
  /\ s \in Seq(C) /\ Len(s) = Cardinality(C) /\ Len(s) \in Nat /\ DOMAIN s = 1 .. Len(s)
  /\ \A a, b \in 1 .. Len(s) : a < b => <<s[a], s[b]>> \in R
  /\ \A a, b \in 1 .. Len(s) : s[a] = s[b] => a = b
  /\ \A i \in C : \E a \in 1 .. Len(s) : s[a] = i

\* A list by rank does.
LEMMA PlaceGoes ==
  ASSUME NEW C, IsFiniteSet(C), NEW R, Orders(R, C), NEW s,
         s = [n \in 1 .. Cardinality(C) |-> s[n]],
         \A n \in 1 .. Cardinality(C) : s[n] \in C /\ Place(C, R, s[n]) = n - 1
  PROVE  Goes(s, C, R)
<1>1. Lists(s, C, R)
  BY PlacesList
<1>2. Cardinality(C) \in Nat
  BY FS_CardinalityType
<1> QED BY <1>1, <1>2, ListsAll DEF Lists, Goes

\* The numbers of a set from the least to the greatest.
LEMMA AscendingGoes ==
  ASSUME NEW C \in SUBSET Int, IsFiniteSet(C)
  PROVE  Goes(Ascending(C), C, {p \in C \X C : p[1] < p[2]})
<1> DEFINE R == {p \in C \X C : p[1] < p[2]}
           P(x) == Cardinality({y \in C : y < x})
           s == Ascending(C)
<1>1. \A i, j \in C : <<i, j>> \in R <=> i < j
  OBVIOUS
<1>2. \A x \in C : {y \in C : y < x} = {y \in C : <<y, x>> \in R}
  BY <1>1
<1>3. \A x \in C : P(x) = Place(C, R, x)
  BY <1>2 DEF Place
<1>4. s = [k \in 1 .. Cardinality(C) |-> CHOOSE x \in C : P(x) = k - 1]
  BY DEF Ascending, Arranged
<1> HIDE DEF R, P, s
<1>5. Orders(R, C)
  BY <1>1 DEF Orders
<1>6. \A k \in 1 .. Cardinality(C) : \E x \in C : P(x) = k - 1
  BY <1>3, <1>5, PlaceTaken
<1>7. \A k \in 1 .. Cardinality(C) : s[k] \in C /\ P(s[k]) = k - 1
  BY <1>4, <1>6
<1>8. s = [k \in 1 .. Cardinality(C) |-> s[k]]
  BY <1>4
<1>9. Goes(s, C, R)
  BY <1>3, <1>5, <1>7, <1>8, PlaceGoes
<1> QED BY <1>9 DEF R, s

\* And from the greatest to the least.
LEMMA DescendingGoes ==
  ASSUME NEW C \in SUBSET Int, IsFiniteSet(C)
  PROVE  Goes(Descending(C), C, {p \in C \X C : p[1] > p[2]})
<1> DEFINE R == {p \in C \X C : p[1] > p[2]}
           P(x) == Cardinality({y \in C : y > x})
           s == Descending(C)
<1>1. \A i, j \in C : <<i, j>> \in R <=> i > j
  OBVIOUS
<1>2. \A x \in C : {y \in C : y > x} = {y \in C : <<y, x>> \in R}
  BY <1>1
<1>3. \A x \in C : P(x) = Place(C, R, x)
  BY <1>2 DEF Place
<1>4. s = [k \in 1 .. Cardinality(C) |-> CHOOSE x \in C : P(x) = k - 1]
  BY DEF Descending, Arranged
<1> HIDE DEF R, P, s
<1>5. Orders(R, C)
  BY <1>1 DEF Orders
<1>6. \A k \in 1 .. Cardinality(C) : \E x \in C : P(x) = k - 1
  BY <1>3, <1>5, PlaceTaken
<1>7. \A k \in 1 .. Cardinality(C) : s[k] \in C /\ P(s[k]) = k - 1
  BY <1>4, <1>6
<1>8. s = [k \in 1 .. Cardinality(C) |-> s[k]]
  BY <1>4
<1>9. Goes(s, C, R)
  BY <1>3, <1>5, <1>7, <1>8, PlaceGoes
<1> QED BY <1>9 DEF R, s

\* The entries of a list at some of its positions.
LEMMA PickedParts ==
  ASSUME NEW C, NEW s \in Seq(C), NEW order, NEW K, order \in Seq(K), K \subseteq DOMAIN s
  PROVE  /\ Picked(s, order) \in Seq(C) /\ Len(Picked(s, order)) = Len(order)
         /\ \A k \in 1 .. Len(order) : Picked(s, order)[k] = s[order[k]]
<1>1. DOMAIN order = 1 .. Len(order) /\ Len(order) \in Nat /\ \A k \in 1 .. Len(order) : order[k] \in K
  OBVIOUS
<1>2. Picked(s, order) = [k \in 1 .. Len(order) |-> s[order[k]]]
  BY <1>1 DEF Picked
<1>3. \A k \in 1 .. Len(order) : s[order[k]] \in C
  BY <1>1
<1> QED BY <1>1, <1>2, <1>3

\* The first entries of a list.
LEMMA TruncateParts ==
  ASSUME NEW C, NEW s \in Seq(C), NEW max \in Nat
  PROVE  /\ Truncate(s, max) \in Seq(C) /\ Len(Truncate(s, max)) <= max
         /\ Len(Truncate(s, max)) = (IF Len(s) < max THEN Len(s) ELSE max)
         /\ \A k \in 1 .. Len(Truncate(s, max)) : k \in 1 .. Len(s) /\ Truncate(s, max)[k] = s[k]
<1> DEFINE m == IF Len(s) < max THEN Len(s) ELSE max
<1>1. m \in Nat /\ m <= max /\ m <= Len(s)
  OBVIOUS
<1>2. Truncate(s, max) = [k \in 1 .. m |-> s[k]]
  BY DEF Truncate
<1>3. \A k \in 1 .. m : k \in 1 .. Len(s) /\ s[k] \in C
  BY <1>1
<1>4. m = IF Len(s) < max THEN Len(s) ELSE max
  OBVIOUS
<1> HIDE DEF m
<1> QED BY <1>1, <1>2, <1>3, <1>4

\* What is left of a list that goes through C: as many as fit, the first ones.
Cut(t, C, R, max) ==
  /\ t \in Seq(C) /\ Len(t) \in Nat /\ Len(t) <= max /\ DOMAIN t = 1 .. Len(t)
  /\ \A a, b \in 1 .. Len(t) : a < b => <<t[a], t[b]>> \in R
  /\ \A a, b \in 1 .. Len(t) : t[a] = t[b] => a = b
  /\ \A i \in C : \/ \E a \in 1 .. Len(t) : t[a] = i
                  \/ Len(t) = max /\ \A a \in 1 .. Len(t) : <<t[a], i>> \in R

\* A set in an order and cut to max is the first max of it.
LEMMA TruncateCuts ==
  ASSUME NEW C, NEW R, NEW s, Goes(s, C, R), NEW max \in Nat
  PROVE  Cut(Truncate(s, max), C, R, max)
<1> DEFINE t == Truncate(s, max)
<1>1. /\ t \in Seq(C) /\ Len(t) <= max
      /\ Len(t) = (IF Len(s) < max THEN Len(s) ELSE max)
      /\ \A k \in 1 .. Len(t) : k \in 1 .. Len(s) /\ t[k] = s[k]
  BY TruncateParts DEF Goes
<1>2. Len(t) \in Nat /\ DOMAIN t = 1 .. Len(t) /\ Len(s) \in Nat
  BY <1>1 DEF Goes
<1> HIDE DEF t
<1>3. \A a, b \in 1 .. Len(t) : a < b => <<t[a], t[b]>> \in R
  BY <1>1 DEF Goes
<1>4. \A a, b \in 1 .. Len(t) : t[a] = t[b] => a = b
  BY <1>1 DEF Goes
<1>5. ASSUME NEW i \in C, ~ \E a \in 1 .. Len(t) : t[a] = i
      PROVE  Len(t) = max /\ \A a \in 1 .. Len(t) : <<t[a], i>> \in R
  <2>1. PICK b \in 1 .. Len(s) : s[b] = i
    BY DEF Goes
  <2>2. ~(b \in 1 .. Len(t))
    BY <1>1, <1>5, <2>1
  <2>3. Len(t) < b /\ Len(t) = max
    BY <1>1, <1>2, <2>1, <2>2
  <2>4. ASSUME NEW a \in 1 .. Len(t) PROVE <<t[a], i>> \in R
    <3>1. a \in 1 .. Len(s) /\ a < b /\ t[a] = s[a]
      BY <1>1, <1>2, <2>3
    <3> QED BY <2>1, <3>1 DEF Goes
  <2> QED BY <2>3, <2>4
<1>6. Cut(t, C, R, max)
  BY <1>1, <1>2, <1>3, <1>4, <1>5 DEF Cut
<1> QED BY <1>6 DEF t

\* A list over a set is one over a larger set.
LEMMA SeqWider ==
  ASSUME NEW A, NEW B, A \subseteq B, NEW s \in Seq(A)
  PROVE  s \in Seq(B)
<1>1. Len(s) \in Nat /\ s = [k \in 1 .. Len(s) |-> s[k]] /\ \A k \in 1 .. Len(s) : s[k] \in B
  OBVIOUS
<1>2. s \in [1 .. Len(s) -> B]
  BY <1>1
<1> QED BY <1>1, <1>2

\* What a function makes of finitely many is finite.
LEMMA ImageFinite ==
  ASSUME NEW S, IsFiniteSet(S), NEW f
  PROVE  IsFiniteSet({f[x] : x \in S})
<1> DEFINE T == {f[x] : x \in S}
           g == [x \in S |-> f[x]]
<1>1. g \in [S -> T] /\ \A y \in T : \E x \in S : g[x] = y
  OBVIOUS
<1>2. g \in Surjection(S, T)
  BY <1>1 DEF Surjection
<1> HIDE DEF T, g
<1>3. IsFiniteSet(T)
  BY <1>2, FS_Surjection
<1> QED BY <1>3 DEF T

\* A finite set of numbers has a greatest member.
LEMMA GreatestMember ==
  ASSUME NEW C \in SUBSET Int, IsFiniteSet(C), C # {}
  PROVE  \E x \in C : \A y \in C : x >= y
<1> DEFINE s == Descending(C)
<1>1. Goes(s, C, {p \in C \X C : p[1] > p[2]})
  BY DescendingGoes
<1> HIDE DEF s
<1>2. /\ s \in Seq(C) /\ Len(s) \in Nat
      /\ \A a, b \in 1 .. Len(s) : a < b => s[a] > s[b]
      /\ \A i \in C : \E a \in 1 .. Len(s) : s[a] = i
  BY <1>1 DEF Goes
<1>3. 1 \in 1 .. Len(s)
  <2>1. PICK i \in C : TRUE
    OBVIOUS
  <2>2. PICK a \in 1 .. Len(s) : s[a] = i
    BY <1>2
  <2> QED BY <1>2, <2>2
<1>4. \A y \in C : s[1] >= y
  <2> SUFFICES ASSUME NEW y \in C PROVE s[1] >= y
    OBVIOUS
  <2>1. PICK a \in 1 .. Len(s) : s[a] = y
    BY <1>2
  <2>2. s[1] \in C /\ s[a] \in C
    BY <1>2, <1>3, <2>1
  <2>3. a = 1 \/ 1 < a
    OBVIOUS
  <2>4. s[1] \in Int /\ s[a] \in Int
    BY <2>2
  <2> QED BY <1>2, <1>3, <2>1, <2>3, <2>4
<1>5. s[1] \in C
  BY <1>2, <1>3
<1> QED BY <1>4, <1>5

-----------------------------------------------------------------------------
(* The invariants                                                          *)

Hits == [id : Ids, relevance : Nat]
Loads == [id : Ids, memory : Memory, relevance : Nat]
Fields == {"kind", "tenant", "entity", "menu", "phase", "embedded", "seed", "pair", "now",
           "known", "cursor", "job", "found", "loaded", "answer"}

Jobs == {"similarity", "temporal", "causal", "analogical", "recent", "whole", "oldest", "given"}

\* A call in progress.
IsCall(c) ==
  /\ c = [f \in Fields |-> c[f]]
  /\ c.kind \in {"recall", "prime", "list", "page"} /\ c.phase \in {"running", "answered", "failed"}
  /\ c.tenant \in Tenants /\ c.entity \in Entities \cup {None} /\ c.seed \in Ids \cup {None}
  /\ c.menu \in Seq(Jobs) /\ c.now \in Nat /\ c.cursor \in Nat
  /\ c.job \in [DOMAIN c.menu -> {"todo", "loading", "failed", "done"}]
  /\ c.found \in [DOMAIN c.menu -> Seq(Hits)] /\ c.loaded \in [DOMAIN c.menu -> Seq(Loads)]
  /\ c.answer \in Seq(Loads)

StoresTyped ==
  /\ db \in [Ids -> Memory \cup {None}]
  /\ temporal \subseteq [tenant : Tenants, entity : Entities, at : Ids, id : Ids]
  /\ graph \in [Ids -> Texts \cup {None}] /\ vectors \in [Ids -> Texts \cup {None}]
  /\ assoc \in [Tenants -> SUBSET Ids] /\ assocKeys \subseteq Ids
  /\ created \in 0 .. MaxIds
  /\ always \subseteq Ids /\ undone \subseteq Ids
CallTyped == /\ call = Idle \/ IsCall(call)
             /\ during \subseteq Ids \X Memory

\* Ids the indexes know are handed out, and are no snapshot's.
Tracked ==
  {e.id : e \in temporal} \cup {i \in Ids : graph[i] # None} \cup {i \in Ids : vectors[i] # None}
    \cup (UNION {assoc[t] : t \in Tenants}) \cup assocKeys
Own(i) == i <= created /\ (db[i] # None => db[i].at = i)
Numbered ==
  /\ \A i \in Stored(db) : i <= created /\ db[i].at <= i
  /\ \A i \in Tracked : Own(i)
  /\ \A v \in during : v[1] <= created
  /\ \A e \in temporal : e.at = e.id

\* The temporal index lists what is stored, but for ids whose state was written back.
Indexed ==
  \A i \in Ids \ undone :
    /\ \A e \in temporal : e.id = i => db[i] # None /\ e = Entry(i, db[i])
    /\ db[i] # None /\ ~Snapshot(i) /\ db[i].entity # None => Entry(i, db[i]) \in temporal

\* The id was the entity's at some moment of the call.
Had(i) == i \in undone \/ \E v \in during : v[1] = i /\ v[2].entity = call.entity

\* These take a loaded memory as it is.
Unchecked(n) == call.kind # "recall" \/ call.menu[n] = "temporal"
Primary == call.kind \in {"recall", "prime"}

TrueHit(n, h) == /\ Primary => Own(h.id)
                 /\ Unchecked(n) /\ call.entity # None => Had(h.id)
TrueResult(r) == /\ r.memory.tenant = call.tenant /\ <<r.id, r.memory>> \in during
                 /\ call.entity # None => Had(r.id)
                 /\ Primary => r.memory.at = r.id

ReadsTrue ==
  call # Idle =>
    /\ call.phase = "running" => Versions(db) \subseteq during
    /\ \A n \in DOMAIN call.menu :
         /\ \A k \in DOMAIN call.found[n] : TrueHit(n, call.found[n][k])
         /\ \A k \in DOMAIN call.loaded[n] : TrueResult(call.loaded[n][k])
         /\ call.job[n] = "todo" => call.loaded[n] = <<>>
         /\ call.job[n] \in {"todo", "done", "failed"} => call.found[n] = <<>>
    /\ \A k \in DOMAIN call.answer : TrueResult(call.answer[k])

\* Pages so far are in order and hold whatever matched all along up to the cursor.
PagesSoFar ==
  call # Idle /\ call.kind = "page" =>
    /\ \A j, k \in DOMAIN call.answer : j < k => call.answer[j].id < call.answer[k].id
    /\ \A k \in DOMAIN call.answer : call.answer[k].id <= call.cursor
    /\ \A i \in always : Matches(Load(call.tenant, i)) /\ (i <= call.cursor \/ call.phase = "answered")
                           => i \in AnswerIds

\* Due in prime's window all along; newer ones that may have taken its place.
Due(i) == /\ db[i] # None /\ db[i].tenant = Default /\ db[i].entity = call.entity /\ ~Snapshot(i)
          /\ call.now - Window <= i /\ i < call.now /\ i \notin undone
Newer(i) == {j \in Ids : /\ i < j /\ j < call.now
                         /\ \/ j \in undone
                            \/ \E v \in during : v[1] = j /\ v[2].entity = call.entity}
IdsOf(s) == {s[k].id : k \in DOMAIN s}
Falling(s) == \A j, k \in DOMAIN s : j < k => s[j].id > s[k].id

\* What a strategy of prime has loaded is newer than what it has yet to load.
Steps(h, l) == Falling(h) /\ Falling(l) /\ \A i \in IdsOf(l), j \in IdsOf(h) : i > j
InStep(n) == Steps(call.found[n], call.loaded[n])
Covered(i) == Due(i) => \/ i \in IdsOf(call.found[1]) \cup IdsOf(call.loaded[1])
                        \/ Cardinality(Newer(i)) >= TemporalLimit
PrimeSoFar ==
  call # Idle /\ call.kind = "prime" =>
    /\ call.menu = <<"recent", "whole">> /\ call.entity # None
    /\ InStep(1) /\ InStep(2)
    /\ call.tenant = Default => \A i \in always : Covered(i)
    /\ call.phase = "answered" => call.job[1] = "done" /\ call.answer = PrimeRecent \o PrimeSimilar

ReadsInv == StoresTyped /\ CallTyped /\ Numbered /\ Indexed /\ ReadsTrue

-----------------------------------------------------------------------------
(* Constants, and what the indexes answer                                  *)

\* The constants, as the proofs use them.
LEMMA Constants ==
  /\ MaxIds \in Nat /\ TopK \in Nat \ {0} /\ Oversample \in Nat \ {0} /\ PrimeMax \in Nat \ {0}
  /\ Window \in Nat \ {0} /\ Default \in Tenants /\ Near \in [Texts -> Nat]
  /\ None \notin Tenants /\ None \notin Entities /\ None \notin Texts /\ None \notin Memory
  /\ None \notin Ids /\ Ids = 1 .. MaxIds /\ Ids \subseteq Nat
  /\ Drafts \subseteq [tenant : Tenants, entity : Entities \cup {None}, text : Texts]
  /\ \A menu \in Menus : menu \in Seq(Jobs)
<1>1. Ids = 1 .. MaxIds /\ Ids \subseteq Nat
  BY LimitsPositive DEF Ids
<1>2. \A menu \in Menus : menu \in Seq({"similarity", "temporal", "causal", "analogical"})
  BY MenusListStrategies
<1>3. \A menu \in Menus : menu \in Seq(Jobs)
  BY <1>2, SeqWider DEF Jobs
<1> QED BY <1>1, <1>3, DefaultIsTenant, NearIsRelevance, DraftsAreMemories, LimitsPositive, NoneIsNoMemory

\* The ids are finitely many.
LEMMA IdsFinite == /\ IsFiniteSet(Ids) /\ Cardinality(Ids) = MaxIds
                   /\ \A C \in SUBSET Ids : IsFiniteSet(C) /\ Cardinality(C) \in Nat
<1>1. IsFiniteSet(Ids) /\ Cardinality(Ids) = MaxIds
  <2>1. CASE MaxIds = 0
    BY <2>1, FS_Interval, Constants
  <2>2. CASE MaxIds # 0
    BY Constants, <2>2, FS_Interval
  <2> QED BY <2>1, <2>2
<1> QED BY <1>1, FS_Subset, FS_CardinalityType

Above == {p \in Ids \X Ids : p[1] > p[2]}
Under == {p \in Ids \X Ids : p[1] < p[2]}

\* A query of the temporal index gives hits of its range, as many as were asked for, from
\* the newest or from the oldest.
LEMMA QueryCuts ==
  ASSUME StoresTyped, NEW e, NEW from, NEW to, NEW newest \in BOOLEAN, NEW limit \in Nat
  PROVE  /\ InRange(e, from, to) \subseteq Ids
         /\ Cut(QueryTemporal(e, from, to, newest, limit), InRange(e, from, to),
                IF newest THEN Above ELSE Under, limit)
<1> DEFINE C == InRange(e, from, to)
           A == {p \in C \X C : p[1] > p[2]}
           U == {p \in C \X C : p[1] < p[2]}
<1>1. C \subseteq Ids
  BY DEF InRange, StoresTyped
<1>2. IsFiniteSet(C) /\ C \in SUBSET Int
  BY <1>1, IdsFinite, Constants
<1>3. A \subseteq Above /\ U \subseteq Under
  BY <1>1 DEF Above, Under
<1>4. \A i, j \in C : (<<i, j>> \in A <=> <<i, j>> \in Above) /\ (<<i, j>> \in U <=> <<i, j>> \in Under)
  BY <1>1 DEF Above, Under
<1>5. QueryTemporal(e, from, to, newest, limit)
        = Truncate(IF newest THEN Descending(C) ELSE Ascending(C), limit)
  BY DEF QueryTemporal
<1>6. Goes(Ascending(C), C, U) /\ Goes(Descending(C), C, A)
  BY <1>2, AscendingGoes, DescendingGoes
<1> HIDE DEF C, A, U
<1>7. CASE newest
  <2>1. Cut(Truncate(Descending(C), limit), C, A, limit)
    BY <1>6, TruncateCuts
  <2>2. Cut(Truncate(Descending(C), limit), C, Above, limit)
    BY <1>3, <2>1 DEF Cut
  <2> QED BY <1>1, <1>5, <1>7, <2>2 DEF C
<1>8. CASE ~newest
  <2>1. Cut(Truncate(Ascending(C), limit), C, U, limit)
    BY <1>6, TruncateCuts
  <2>2. Cut(Truncate(Ascending(C), limit), C, Under, limit)
    BY <1>3, <2>1 DEF Cut
  <2> QED BY <1>1, <1>5, <1>8, <2>2 DEF C
<1> QED BY <1>7, <1>8

\* A search of the vector graph gives live ids.
LEMMA SearchVectorGives ==
  ASSUME StoresTyped, NEW k \in Nat
  PROVE  SearchVector(k) \in Seq({i \in Ids : graph[i] # None})
<1> DEFINE C == {i \in Ids : graph[i] # None}
           Before(i, j) == \/ Near[graph[i]] > Near[graph[j]]
                           \/ Near[graph[i]] = Near[graph[j]] /\ i < j
           R == {p \in C \X C : Before(p[1], p[2])}
           P(x) == Cardinality({y \in C : Before(y, x)})
           s == Arranged(C, Before)
<1>1. IsFiniteSet(C) /\ C \subseteq Ids
  BY IdsFinite
<1>2. \A i, j \in C : <<i, j>> \in R <=> Before(i, j)
  OBVIOUS
<1>3. \A i \in C : Near[graph[i]] \in Nat /\ i \in Nat
  BY Constants DEF StoresTyped
<1>4. Orders(R, C)
  <2> HIDE DEF R, C
  <2> QED BY <1>2, <1>3 DEF Orders
<1>5. \A x \in C : {y \in C : Before(y, x)} = {y \in C : <<y, x>> \in R}
  BY <1>2
<1>6. \A x \in C : P(x) = Place(C, R, x)
  BY <1>5 DEF Place
<1>7. s = [n \in 1 .. Cardinality(C) |-> CHOOSE x \in C : P(x) = n - 1]
  BY DEF Arranged
<1>8. SearchVector(k) = Truncate(s, k)
  BY DEF SearchVector
<1> HIDE DEF C, R, P, s
<1>9. \A n \in 1 .. Cardinality(C) : \E x \in C : P(x) = n - 1
  BY <1>1, <1>4, <1>6, PlaceTaken
<1>10. \A n \in 1 .. Cardinality(C) : s[n] \in C /\ P(s[n]) = n - 1
  BY <1>7, <1>9
<1>11. s = [n \in 1 .. Cardinality(C) |-> s[n]]
  BY <1>7
<1>12. Goes(s, C, R)
  BY <1>1, <1>4, <1>6, <1>10, <1>11, PlaceGoes
<1>13. Truncate(s, k) \in Seq(C)
  BY <1>12, TruncateParts DEF Goes
<1> QED BY <1>8, <1>13 DEF C

\* The members of a set of ids, in whatever order.
LEMMA SetToSeqGives ==
  ASSUME NEW C \in SUBSET Ids
  PROVE  SetToSeq(C) \in Seq(C)
<1>1. IsFiniteSet(C) /\ C \in SUBSET Int /\ Cardinality(C) \in Nat
  BY IdsFinite, Constants
<1>2. Goes(Ascending(C), C, {p \in C \X C : p[1] < p[2]})
  BY <1>1, AscendingGoes
<1> DEFINE a == Ascending(C)
           F == [1 .. Cardinality(C) -> C]
<1>3. a \in F /\ IsInjective(a)
  BY <1>2 DEF Goes, IsInjective
<1> HIDE DEF a
<1>4. SetToSeq(C) = CHOOSE f \in F : IsInjective(f)
  BY DEF SetToSeq
<1>5. SetToSeq(C) \in F
  BY <1>3, <1>4
<1> QED BY <1>1, <1>5

-----------------------------------------------------------------------------
(* The record of a call                                                    *)

Record(c) == c = [f \in Fields |-> c[f]]

\* d is c but for some of its fields.
But(c, d, fs) == Record(d) /\ \A f \in Fields \ fs : d[f] = c[f]

\* The updates of a call, by name.
WithJob(c, n, s, h) == [c EXCEPT !.job[n] = s, !.found[n] = h]
WithLoad(c, n, h, g) == [c EXCEPT !.found[n] = h, !.loaded[n] = g]
WithEnd(c, n, s, h, g) == [c EXCEPT !.job[n] = s, !.found[n] = h, !.loaded[n] = g]
WithAnswer(c, p, a) == [c EXCEPT !.phase = p, !.answer = a]
WithPage(c, a, u, p) == [c EXCEPT !.answer = a, !.cursor = u, !.phase = p]

\* What they leave.
JobSet(c, d, n, s, h) ==
  /\ But(c, d, {"job", "found"})
  /\ d.job = [c.job EXCEPT ![n] = s]
  /\ d.found = [c.found EXCEPT ![n] = h]
LoadSet(c, d, n, h, g) ==
  /\ But(c, d, {"loaded", "found"})
  /\ d.loaded = [c.loaded EXCEPT ![n] = g]
  /\ d.found = [c.found EXCEPT ![n] = h]
EndSet(c, d, n, s, h, g) ==
  /\ But(c, d, {"job", "found", "loaded"})
  /\ d.job = [c.job EXCEPT ![n] = s]
  /\ d.found = [c.found EXCEPT ![n] = h]
  /\ d.loaded = [c.loaded EXCEPT ![n] = g]
AnswerSet(c, d, p, a) ==
  /\ But(c, d, {"phase", "answer"})
  /\ d.phase = p
  /\ d.answer = a
PageSet(c, d, a, u, p) ==
  /\ But(c, d, {"phase", "answer", "cursor"})
  /\ d.phase = p
  /\ d.answer = a
  /\ d.cursor = u

\* Such an update of a call sets the job and the hits of one strategy.
LEMMA JobMoved ==
  ASSUME NEW c, Record(c), NEW n, NEW s, NEW h
  PROVE  JobSet(c, WithJob(c, n, s, h), n, s, h)
<1> DEFINE d == WithJob(c, n, s, h)
<1>1. c = [f \in Fields |-> c[f]]
  BY DEF Record
<1>2. d.job = [c.job EXCEPT ![n] = s] /\ d.found = [c.found EXCEPT ![n] = h]
  BY <1>1 DEF Fields, WithJob
<1>3. d = [f \in Fields |-> d[f]] /\ \A f \in Fields \ {"job", "found"} : d[f] = c[f]
  BY <1>1 DEF Fields, WithJob
<1> HIDE DEF d
<1>4. But(c, d, {"job", "found"})
  BY <1>3 DEF But, Record
<1>5. JobSet(c, d, n, s, h)
  BY <1>2, <1>4 DEF JobSet
<1> QED BY <1>5 DEF d

\* Such an update sets what one strategy has found and loaded.
LEMMA LoadMoved ==
  ASSUME NEW c, Record(c), NEW n, NEW h, NEW g
  PROVE  LoadSet(c, WithLoad(c, n, h, g), n, h, g)
<1> DEFINE d == WithLoad(c, n, h, g)
<1>1. c = [f \in Fields |-> c[f]]
  BY DEF Record
<1>2. d.loaded = [c.loaded EXCEPT ![n] = g] /\ d.found = [c.found EXCEPT ![n] = h]
  BY <1>1 DEF Fields, WithLoad
<1>3. d = [f \in Fields |-> d[f]] /\ \A f \in Fields \ {"loaded", "found"} : d[f] = c[f]
  BY <1>1 DEF Fields, WithLoad
<1> HIDE DEF d
<1>4. But(c, d, {"loaded", "found"})
  BY <1>3 DEF But, Record
<1>5. LoadSet(c, d, n, h, g)
  BY <1>2, <1>4 DEF LoadSet
<1> QED BY <1>5 DEF d

\* Such an update sets the job, the hits and the results of one strategy.
LEMMA DoneMoved ==
  ASSUME NEW c, Record(c), NEW n, NEW s, NEW h, NEW g
  PROVE  EndSet(c, WithEnd(c, n, s, h, g), n, s, h, g)
<1> DEFINE d == WithEnd(c, n, s, h, g)
<1>1. c = [f \in Fields |-> c[f]]
  BY DEF Record
<1>2. d.job = [c.job EXCEPT ![n] = s] /\ d.found = [c.found EXCEPT ![n] = h]
      /\ d.loaded = [c.loaded EXCEPT ![n] = g]
  BY <1>1 DEF Fields, WithEnd
<1>3. d = [f \in Fields |-> d[f]] /\ \A f \in Fields \ {"job", "found", "loaded"} : d[f] = c[f]
  BY <1>1 DEF Fields, WithEnd
<1> HIDE DEF d
<1>4. But(c, d, {"job", "found", "loaded"})
  BY <1>3 DEF But, Record
<1>5. EndSet(c, d, n, s, h, g)
  BY <1>2, <1>4 DEF EndSet
<1> QED BY <1>5 DEF d

\* Such an update sets the phase and the answer.
LEMMA AnswerMoved ==
  ASSUME NEW c, Record(c), NEW p, NEW a
  PROVE  AnswerSet(c, WithAnswer(c, p, a), p, a)
<1> DEFINE d == WithAnswer(c, p, a)
<1>1. c = [f \in Fields |-> c[f]]
  BY DEF Record
<1>2. d.phase = p /\ d.answer = a
  BY <1>1 DEF Fields, WithAnswer
<1>3. d = [f \in Fields |-> d[f]] /\ \A f \in Fields \ {"phase", "answer"} : d[f] = c[f]
  BY <1>1 DEF Fields, WithAnswer
<1> HIDE DEF d
<1>4. But(c, d, {"phase", "answer"})
  BY <1>3 DEF But, Record
<1>5. AnswerSet(c, d, p, a)
  BY <1>2, <1>4 DEF AnswerSet
<1> QED BY <1>5 DEF d

\* Such an update sets the answer, the cursor and the phase.
LEMMA PageMoved ==
  ASSUME NEW c, Record(c), NEW p, NEW a, NEW u
  PROVE  PageSet(c, WithPage(c, a, u, p), a, u, p)
<1> DEFINE d == WithPage(c, a, u, p)
<1>1. c = [f \in Fields |-> c[f]]
  BY DEF Record
<1>2. d.phase = p /\ d.answer = a /\ d.cursor = u
  BY <1>1 DEF Fields, WithPage
<1>3. d = [f \in Fields |-> d[f]] /\ \A f \in Fields \ {"phase", "answer", "cursor"} : d[f] = c[f]
  BY <1>1 DEF Fields, WithPage
<1> HIDE DEF d
<1>4. But(c, d, {"phase", "answer", "cursor"})
  BY <1>3 DEF But, Record
<1>5. PageSet(c, d, a, u, p)
  BY <1>2, <1>4 DEF PageSet
<1> QED BY <1>5 DEF d

\* A call as it begins.
NewParts(c, kind, t, e, menu) ==
  /\ Record(c) /\ c.kind = kind /\ c.tenant = t /\ c.entity = e /\ c.menu = menu
  /\ c.phase = "running" /\ c.seed = None /\ c.now = 0 /\ c.cursor = 0
  /\ c.job = [n \in DOMAIN menu |-> "todo"] /\ c.found = [n \in DOMAIN menu |-> <<>>]
  /\ c.loaded = [n \in DOMAIN menu |-> <<>>] /\ c.answer = <<>>

\* A new call has nothing found, loaded or answered.
LEMMA NewCallParts ==
  ASSUME NEW kind, NEW t, NEW e, NEW menu
  PROVE  NewParts(NewCall(kind, t, e, menu), kind, t, e, menu)
<1> DEFINE c == NewCall(kind, t, e, menu)
<1>1. c = [f \in Fields |-> c[f]]
  BY DEF NewCall, Fields
<1>2. /\ c.kind = kind /\ c.tenant = t /\ c.entity = e /\ c.menu = menu
      /\ c.phase = "running" /\ c.seed = None /\ c.now = 0 /\ c.cursor = 0
      /\ c.job = [n \in DOMAIN menu |-> "todo"] /\ c.found = [n \in DOMAIN menu |-> <<>>]
      /\ c.loaded = [n \in DOMAIN menu |-> <<>>] /\ c.answer = <<>>
  BY DEF NewCall
<1> HIDE DEF c
<1>3. NewParts(c, kind, t, e, menu)
  BY <1>1, <1>2 DEF NewParts, Record
<1> QED BY <1>3 DEF c

\* What no step of a call changes.
Same(c, d) == /\ d.kind = c.kind /\ d.tenant = c.tenant /\ d.entity = c.entity /\ d.menu = c.menu
              /\ d.seed = c.seed /\ d.now = c.now

\* An update that leaves the rest, and has the types of a call, is one.
LEMMA StillCall ==
  ASSUME NEW c, IsCall(c), NEW d, Record(d), Same(c, d),
         d.phase \in {"running", "answered", "failed"}, d.cursor \in Nat,
         d.job \in [DOMAIN c.menu -> {"todo", "loading", "failed", "done"}],
         d.found \in [DOMAIN c.menu -> Seq(Hits)], d.loaded \in [DOMAIN c.menu -> Seq(Loads)],
         d.answer \in Seq(Loads)
  PROVE  IsCall(d)
BY DEF IsCall, Record, Same

\* A call is not Idle.
LEMMA CallNotIdle ==
  ASSUME NEW c, IsCall(c)
  PROVE  c # Idle
<1>1. Idle.kind = "none"
  BY DEF Idle
<1> QED BY <1>1 DEF IsCall

-----------------------------------------------------------------------------
(* Truth that lasts                                                        *)

\* Nothing but the call moves.
Quiet == UNCHANGED <<stores, during, always, undone>>

\* The stores stay as they are.
LEMMA QuietKeeps ==
  ASSUME ReadsInv, Quiet
  PROVE  StoresTyped' /\ Numbered' /\ Indexed' /\ during' \subseteq Ids \X Memory
BY DEF ReadsInv, Quiet, stores, StoresTyped, CallTyped, Numbered, Indexed, Own, Tracked, Stored,
       Snapshot, Entry

\* What was true of hits and results stays so while history grows.
LEMMA TruthGrows ==
  ASSUME Same(call, call'), undone \subseteq undone', during \subseteq during',
         \A i \in Ids : Own(i) => Own(i)'
  PROVE  /\ \A n : \A h \in Hits : TrueHit(n, h) => TrueHit(n, h)'
         /\ \A r : TrueResult(r) => TrueResult(r)'
<1>1. \A i : Had(i) => Had(i)'
  BY DEF Had, Same
<1>2. (Primary' <=> Primary) /\ \A n : Unchecked(n)' <=> Unchecked(n)
  BY DEF Primary, Unchecked, Same
<1>3. ASSUME NEW n, NEW h \in Hits, TrueHit(n, h) PROVE TrueHit(n, h)'
  <2>1. h.id \in Ids
    BY DEF Hits
  <2> QED BY <1>1, <1>2, <1>3, <2>1 DEF TrueHit, Same
<1>4. ASSUME NEW r, TrueResult(r) PROVE TrueResult(r)'
  BY <1>1, <1>2, <1>4 DEF TrueResult, Same
<1> QED BY <1>3, <1>4

\* In particular when nothing but the call moves.
LEMMA QuietTruth ==
  ASSUME Same(call, call'), Quiet
  PROVE  /\ \A n : \A h \in Hits : TrueHit(n, h) => TrueHit(n, h)'
         /\ \A r : TrueResult(r) => TrueResult(r)'
<1>1. undone \subseteq undone' /\ during \subseteq during' /\ \A i \in Ids : Own(i) => Own(i)'
  BY DEF Quiet, stores, Own
<1> QED BY <1>1, TruthGrows

\* The parts of ReadsTrue.
StrategyTrue(n) ==
  /\ \A k \in DOMAIN call.found[n] : TrueHit(n, call.found[n][k])
  /\ \A k \in DOMAIN call.loaded[n] : TrueResult(call.loaded[n][k])
  /\ call.job[n] = "todo" => call.loaded[n] = <<>>
  /\ call.job[n] \in {"todo", "done", "failed"} => call.found[n] = <<>>

\* A strategy n of the call goes on: h are the hits it has yet to load, g what it has loaded.
MovesOn(n, s, h, g) ==
  /\ s \in {"loading", "failed", "done"} /\ h \in Seq(Hits) /\ g \in Seq(Loads)
  /\ \A k \in DOMAIN h : TrueHit(n, h[k])
  /\ \A k \in DOMAIN g : TrueResult(g[k])
  /\ s # "loading" => h = <<>>
  /\ call'.job = [call.job EXCEPT ![n] = s] /\ call'.found = [call.found EXCEPT ![n] = h]
  /\ call'.loaded = [call.loaded EXCEPT ![n] = g]

\* A strategy that goes on with true hits and results keeps the invariant.
LEMMA GoesOnKeeps ==
  ASSUME ReadsInv, call # Idle, Quiet, NEW n \in DOMAIN call.job, NEW s, NEW h, NEW g,
         But(call, call', {"job", "found", "loaded"}), MovesOn(n, s, h, g)
  PROVE  ReadsInv' /\ Same(call, call') /\ IsCall(call')
<1>1. IsCall(call) /\ ReadsTrue
  BY DEF ReadsInv, CallTyped
<1>2. /\ Same(call, call') /\ Record(call') /\ call'.phase = call.phase /\ call'.cursor = call.cursor
      /\ call'.answer = call.answer
  BY DEF But, Same, Fields
<1>3. /\ n \in DOMAIN call.menu /\ DOMAIN call.job = DOMAIN call.menu
      /\ call.job \in [DOMAIN call.menu -> {"todo", "loading", "failed", "done"}]
      /\ call.found \in [DOMAIN call.menu -> Seq(Hits)] /\ call.loaded \in [DOMAIN call.menu -> Seq(Loads)]
  BY <1>1 DEF IsCall
<1>4. /\ call'.job \in [DOMAIN call.menu -> {"todo", "loading", "failed", "done"}]
      /\ call'.found \in [DOMAIN call.menu -> Seq(Hits)] /\ call'.loaded \in [DOMAIN call.menu -> Seq(Loads)]
  BY <1>3 DEF MovesOn
<1>5. IsCall(call')
  <2>1. /\ call'.phase \in {"running", "answered", "failed"} /\ call'.cursor \in Nat
        /\ call'.answer \in Seq(Loads)
    BY <1>1, <1>2 DEF IsCall
  <2> QED BY <1>1, <1>2, <1>4, <2>1, StillCall
<1>6. /\ \A m : \A x \in Hits : TrueHit(m, x) => TrueHit(m, x)'
      /\ \A r : TrueResult(r) => TrueResult(r)'
  BY <1>2, QuietTruth
<1>7. \A m \in DOMAIN call.menu : StrategyTrue(m)
  BY <1>1 DEF ReadsTrue, StrategyTrue
<1>8. ASSUME NEW m \in DOMAIN call.menu PROVE StrategyTrue(m)'
  <2>1. CASE m = n
    <3>1. call'.job[m] = s /\ call'.found[m] = h /\ call'.loaded[m] = g
      BY <1>3, <2>1 DEF MovesOn
    <3>2. \A k \in DOMAIN h : h[k] \in Hits
      BY DEF MovesOn
    <3> QED BY <1>6, <2>1, <3>1, <3>2 DEF MovesOn, StrategyTrue
  <2>2. CASE m # n
    <3>1. call'.job[m] = call.job[m] /\ call'.found[m] = call.found[m] /\ call'.loaded[m] = call.loaded[m]
      BY <1>3, <2>2 DEF MovesOn
    <3>2. \A k \in DOMAIN call.found[m] : call.found[m][k] \in Hits
      BY <1>3
    <3> QED BY <1>6, <1>7, <3>1, <3>2 DEF StrategyTrue
  <2> QED BY <2>1, <2>2
<1>9. Versions(db)' = Versions(db) /\ during' = during
  BY DEF Quiet, stores, Versions, Stored
<1>10. ReadsTrue'
  <2>1. call'.menu = call.menu
    BY <1>2 DEF Same
  <2>2. (\A k \in DOMAIN call.answer : TrueResult(call.answer[k]))'
    BY <1>1, <1>2, <1>6 DEF ReadsTrue
  <2>3. call'.phase = "running" => Versions(db)' \subseteq during'
    BY <1>1, <1>2, <1>9 DEF ReadsTrue
  <2> QED BY <1>8, <2>1, <2>2, <2>3 DEF ReadsTrue, StrategyTrue
<1>11. StoresTyped' /\ Numbered' /\ Indexed' /\ CallTyped'
  BY <1>5, QuietKeeps DEF CallTyped
<1> QED BY <1>2, <1>5, <1>10, <1>11 DEF ReadsInv

-----------------------------------------------------------------------------
(* The strategies of a recall                                              *)

\* A list of hits for a list of ids.
LEMMA HitList ==
  ASSUME NEW C \in SUBSET Ids, NEW ids \in Seq(C), NEW h, h = [k \in DOMAIN ids |-> h[k]],
         \A k \in DOMAIN ids : h[k].id = ids[k] /\ h[k] \in Hits
  PROVE  /\ h \in Seq(Hits) /\ Len(h) = Len(ids) /\ DOMAIN h = 1 .. Len(ids) /\ Len(ids) \in Nat
         /\ \A k \in DOMAIN h : h[k].id = ids[k] /\ h[k].id \in C
<1>1. Len(ids) \in Nat /\ DOMAIN ids = 1 .. Len(ids) /\ \A k \in 1 .. Len(ids) : ids[k] \in C
  OBVIOUS
<1>2. h \in [1 .. Len(ids) -> Hits] /\ DOMAIN h = 1 .. Len(ids)
  BY <1>1
<1> QED BY <1>1, <1>2

\* What a temporal entry scores.
LEMMA RelevanceNat ==
  ASSUME NEW k, NEW total \in Nat, k \in 1 .. total
  PROVE  TemporalRelevance(k - 1, total) \in Nat
<1> DEFINE x == 2 * (total - (k - 1))
<1>1. x \in Nat /\ total \in Nat /\ total > 0
  OBVIOUS
<1>2. TemporalRelevance(k - 1, total) = x \div total
  BY DEF TemporalRelevance, Scale
<1> HIDE DEF x
<1>3. x \div total \in Nat
  BY <1>1
<1> QED BY <1>2, <1>3

\* A search that leaves h to load.
Found(n, s, h) ==
  /\ SetJob(n, s, h) /\ s \in {"loading", "failed", "done"} /\ h \in Seq(Hits)
  /\ s # "loading" => h = <<>>
  /\ \A k \in DOMAIN h : TrueHit(n, h[k])

\* A strategy that finds nothing or fails.
LEMMA NothingFound ==
  ASSUME NEW n, NEW s \in {"failed", "done"}, SetJob(n, s, <<>>)
  PROVE  \E st, h : Found(n, st, h)
<1>1. <<>> \in Seq(Hits) /\ \A k \in DOMAIN <<>> : TrueHit(n, <<>>[k])
  OBVIOUS
<1>2. Found(n, s, <<>>)
  BY <1>1 DEF Found
<1> QED BY <1>2

\* Ids the indexes know are good hits of a strategy that checks what it loads.
LEMMA TrackedFound ==
  ASSUME ReadsInv, NEW n, ~Unchecked(n), NEW C \in SUBSET (Ids \cap Tracked), NEW ids \in Seq(C),
         NEW h, h = [k \in DOMAIN ids |-> h[k]],
         \A k \in DOMAIN ids : h[k].id = ids[k] /\ h[k] \in Hits,
         SetJob(n, "loading", h)
  PROVE  \E st, x : Found(n, st, x)
<1>1. C \in SUBSET Ids
  OBVIOUS
<1>2. h \in Seq(Hits) /\ \A k \in DOMAIN h : h[k].id \in C
  BY <1>1, HitList
<1>3. \A k \in DOMAIN h : TrueHit(n, h[k])
  BY <1>2 DEF TrueHit, ReadsInv, Numbered
<1>4. Found(n, "loading", h)
  BY <1>2, <1>3 DEF Found
<1> QED BY <1>4

\* The most an entity's search asks the graph for.
LEMMA FetchNat ==
  ASSUME NEW e
  PROVE  Fetch(e) \in Nat
<1>1. TopK \in Nat /\ Oversample \in Nat
  BY Constants
<1>2. TopK * Oversample \in Nat
  BY <1>1
<1> QED BY <1>1, <1>2 DEF Fetch

\* The live nodes of the vector graph are known, and near to the cue by some number.
LEMMA LiveTracked ==
  ASSUME ReadsInv, NEW k \in Nat
  PROVE  /\ {i \in Ids : graph[i] # None} \in SUBSET (Ids \cap Tracked)
         /\ SearchVector(k) \in Seq({i \in Ids : graph[i] # None})
         /\ \A x \in DOMAIN SearchVector(k) : Hit(SearchVector(k)[x], Near[graph[SearchVector(k)[x]]]) \in Hits
<1> DEFINE C == {i \in Ids : graph[i] # None}
           s == SearchVector(k)
<1>1. C \in SUBSET (Ids \cap Tracked)
  BY DEF Tracked
<1>2. s \in Seq(C)
  BY SearchVectorGives DEF ReadsInv
<1>3. \A i \in C : i \in Ids /\ Near[graph[i]] \in Nat
  BY Constants DEF ReadsInv, StoresTyped
<1> HIDE DEF C, s
<1>4. \A x \in DOMAIN s : s[x] \in C
  BY <1>2
<1>5. \A x \in DOMAIN s : Hit(s[x], Near[graph[s[x]]]) \in Hits
  BY <1>3, <1>4 DEF Hit, Hits
<1> QED BY <1>1, <1>2, <1>5 DEF C, s

\* Whatever the temporal index lists of an entity is stored as the entity's, unless a
\* write-back undid that.
LEMMA RangeStored ==
  ASSUME StoresTyped, Numbered, Indexed, NEW e, NEW from, NEW to, NEW i \in InRange(e, from, to)
  PROVE  /\ i \in Ids \cap Tracked /\ Own(i) /\ from <= i /\ i < to
         /\ i \in undone \/ \E v \in Versions(db) : v[1] = i /\ v[2].entity = e
<1>1. PICK r \in temporal : r.id = i /\ r.tenant = Default /\ r.entity = e /\ from <= r.at /\ r.at < to
  BY DEF InRange
<1>2. i \in Ids /\ i \in Tracked
  BY <1>1 DEF StoresTyped, Tracked
<1>3. Own(i) /\ r.at = i
  BY <1>1, <1>2 DEF Numbered
<1>4. ASSUME i \notin undone PROVE \E v \in Versions(db) : v[1] = i /\ v[2].entity = e
  <2>1. db[i] # None /\ r = Entry(i, db[i])
    BY <1>1, <1>2, <1>4 DEF Indexed
  <2>2. db[i].entity = e
    BY <1>1, <2>1 DEF Entry
  <2>3. <<i, db[i]>> \in Versions(db)
    BY <1>2, <2>1 DEF Versions, Stored
  <2> QED BY <2>2, <2>3
<1> QED BY <1>1, <1>2, <1>3, <1>4

\* ids are hits for an entity e in C.
Known(ids, C, e) ==
  /\ C \in SUBSET (Ids \cap Tracked) /\ ids \in Seq(C)
  /\ \A i \in C : /\ Own(i)
                  /\ i \in undone \/ \E v \in Versions(db) : v[1] = i /\ v[2].entity = e

\* The hits of a query of the temporal index.
LEMMA QueryHits ==
  ASSUME StoresTyped, Numbered, Indexed, NEW e, NEW from, NEW to, NEW newest \in BOOLEAN, NEW limit \in Nat
  PROVE  Known(QueryTemporal(e, from, to, newest, limit), InRange(e, from, to), e)
<1>1. QueryTemporal(e, from, to, newest, limit) \in Seq(InRange(e, from, to))
  BY QueryCuts DEF Cut
<1> QED BY <1>1, RangeStored DEF Known

\* What the similarity search finds are good hits.
LEMMA SimilarFinds ==
  ASSUME ReadsInv, call.kind = "recall", NEW n, call.menu[n] = "similarity", SearchSimilar(n)
  PROVE  \E s, h : Found(n, s, h)
<1> DEFINE ids == SearchVector(Fetch(call.entity))
           h == [k \in DOMAIN ids |-> Hit(ids[k], Near[graph[ids[k]]])]
           C == {i \in Ids : graph[i] # None}
<1>1. SetJob(n, "loading", h) \/ SetJob(n, "failed", <<>>)
  BY DEF SearchSimilar
<1>2. C \in SUBSET (Ids \cap Tracked) /\ ids \in Seq(C)
      /\ \A x \in DOMAIN ids : Hit(ids[x], Near[graph[ids[x]]]) \in Hits
  BY LiveTracked, FetchNat
<1>3. h = [k \in DOMAIN ids |-> h[k]] /\ \A k \in DOMAIN ids : h[k].id = ids[k] /\ h[k] \in Hits
  BY <1>2 DEF Hit
<1>4. ~Unchecked(n)
  BY DEF Unchecked
<1> HIDE DEF ids, h, C
<1>5. CASE SetJob(n, "loading", h)
  BY <1>2, <1>3, <1>4, <1>5, TrackedFound
<1> QED BY <1>1, <1>5, NothingFound

\* What the temporal query finds are good hits.
LEMMA TemporalFinds ==
  ASSUME ReadsInv, call # Idle, call.phase = "running", NEW n, call.kind = "recall", SearchTemporal(n)
  PROVE  \E s, h : Found(n, s, h)
<1> DEFINE C == InRange(call.entity, 0, MaxIds + 1)
           ids == QueryTemporal(call.entity, 0, MaxIds + 1, TRUE, TopK)
           h == [k \in DOMAIN ids |-> Hit(ids[k], TemporalRelevance(k - 1, Len(ids)))]
<1>1. SetJob(n, "loading", h) \/ SetJob(n, "failed", <<>>)
  BY DEF SearchTemporal
<1>2. /\ C \in SUBSET (Ids \cap Tracked) /\ ids \in Seq(C)
      /\ \A i \in C : /\ Own(i)
                      /\ i \in undone \/ \E v \in Versions(db) : v[1] = i /\ v[2].entity = call.entity
  <2>1. StoresTyped /\ Numbered /\ Indexed /\ TopK \in Nat /\ TRUE \in BOOLEAN
    BY Constants DEF ReadsInv
  <2>2. Known(ids, C, call.entity)
    BY <2>1, QueryHits
  <2> QED BY <2>2 DEF Known
<1>3. Versions(db) \subseteq during
  BY DEF ReadsInv, ReadsTrue
<1>4. \A i \in C : Own(i) /\ Had(i)
  BY <1>2, <1>3 DEF Had
<1> HIDE DEF C, ids
<1>5. Len(ids) \in Nat /\ DOMAIN ids = 1 .. Len(ids)
  BY <1>2
<1>6. \A k \in DOMAIN ids : TemporalRelevance(k - 1, Len(ids)) \in Nat /\ ids[k] \in Ids
  BY <1>2, <1>5, RelevanceNat
<1>7. h = [k \in DOMAIN ids |-> h[k]] /\ \A k \in DOMAIN ids : h[k].id = ids[k] /\ h[k] \in Hits
  BY <1>6 DEF Hit, Hits
<1> HIDE DEF h
<1>8. C \in SUBSET Ids
  BY <1>2
<1>9. h \in Seq(Hits) /\ \A k \in DOMAIN h : h[k].id \in C
  BY <1>2, <1>7, <1>8, HitList
<1>10. \A k \in DOMAIN h : TrueHit(n, h[k])
  BY <1>4, <1>9 DEF TrueHit
<1>11. CASE SetJob(n, "loading", h)
  <2>1. Found(n, "loading", h)
    BY <1>9, <1>10, <1>11 DEF Found
  <2> QED BY <2>1
<1> QED BY <1>1, <1>11, NothingFound

\* The nodes of a tenant's associative graph are known.
LEMMA AssocTracked ==
  ASSUME ReadsInv, NEW t \in Tenants, NEW k, NEW a \in SearchAssoc(t, k)
  PROVE  a \in SUBSET (Ids \cap Tracked)
<1>1. a \in SUBSET assoc[t]
  BY DEF SearchAssoc, kSubset
<1> QED BY <1>1 DEF Tracked, ReadsInv, StoresTyped

\* What the causal search finds are good hits, or there are none.
LEMMA CausalFinds ==
  ASSUME ReadsInv, call # Idle, call.kind = "recall", NEW n, SearchCausal(n)
  PROVE  \E s, h : Found(n, s, h)
<1>1. call.tenant \in Tenants
  BY DEF ReadsInv, CallTyped, IsCall
<1>2. ~Unchecked(n)
  BY DEF Unchecked, SearchCausal
<1>3. CASE SetJob(n, "done", <<>>) \/ SetJob(n, "failed", <<>>)
  BY <1>3, NothingFound
<1>4. CASE \E fwd, bwd \in SearchAssoc(call.tenant, TopK), learned \in BOOLEAN :
             LET ids == IF learned THEN SetToSeq((fwd \cup bwd) \ {CausalSeed}) ELSE <<>>
             IN SetJob(n, "loading", [k \in DOMAIN ids |-> Hit(ids[k], 1)])
  <2>1. PICK fwd \in SearchAssoc(call.tenant, TopK), bwd \in SearchAssoc(call.tenant, TopK),
             learned \in BOOLEAN :
               LET ids == IF learned THEN SetToSeq((fwd \cup bwd) \ {CausalSeed}) ELSE <<>>
               IN SetJob(n, "loading", [k \in DOMAIN ids |-> Hit(ids[k], 1)])
    BY <1>4
  <2> DEFINE C == (fwd \cup bwd) \ {CausalSeed}
             ids == IF learned THEN SetToSeq(C) ELSE <<>>
             h == [k \in DOMAIN ids |-> Hit(ids[k], 1)]
  <2>2. SetJob(n, "loading", h)
    BY <2>1
  <2>3. C \in SUBSET (Ids \cap Tracked) /\ C \in SUBSET Ids
    <3>1. fwd \in SUBSET (Ids \cap Tracked) /\ bwd \in SUBSET (Ids \cap Tracked)
      BY <1>1, AssocTracked
    <3> QED BY <3>1
  <2> HIDE DEF C
  <2>4. ids \in Seq(C)
    BY <2>3, SetToSeqGives
  <2> HIDE DEF ids
  <2>5. \A k \in DOMAIN ids : ids[k] \in Ids
    BY <2>3, <2>4
  <2>6. h = [k \in DOMAIN ids |-> h[k]] /\ \A k \in DOMAIN ids : h[k].id = ids[k] /\ h[k] \in Hits
    BY <2>5 DEF Hit, Hits
  <2> HIDE DEF h
  <2> QED BY <1>2, <2>2, <2>3, <2>4, <2>6, TrackedFound
<1> QED BY <1>3, <1>4 DEF SearchCausal

\* What the analogical search finds are good hits.
LEMMA AnalogicalFinds ==
  ASSUME ReadsInv, call # Idle, call.kind = "recall", NEW n, SearchAnalogical(n)
  PROVE  \E s, h : Found(n, s, h)
<1>1. call.tenant \in Tenants
  BY DEF ReadsInv, CallTyped, IsCall
<1>2. ~Unchecked(n)
  BY DEF Unchecked, SearchAnalogical
<1> DEFINE near == SearchVector(MaxIds)
           x == [k \in DOMAIN near |-> Hit(near[k], Near[graph[near[k]]])]
<1>3. CASE SetJob(n, "failed", <<>>)
  BY <1>3, NothingFound
<1>4. CASE \E hits \in SearchAssoc(call.tenant, Fetch(call.entity)) :
             LET ids == SetToSeq(hits)
             IN SetJob(n, "loading", [k \in DOMAIN ids |-> Hit(ids[k], 1)])
  <2>1. PICK C \in SearchAssoc(call.tenant, Fetch(call.entity)) :
             LET ids == SetToSeq(C)
             IN SetJob(n, "loading", [k \in DOMAIN ids |-> Hit(ids[k], 1)])
    BY <1>4
  <2> DEFINE ids == SetToSeq(C)
             h == [k \in DOMAIN ids |-> Hit(ids[k], 1)]
  <2>2. SetJob(n, "loading", h)
    BY <2>1
  <2>3. C \in SUBSET (Ids \cap Tracked) /\ C \in SUBSET Ids
    BY <1>1, AssocTracked
  <2>4. ids \in Seq(C)
    BY <2>3, SetToSeqGives
  <2> HIDE DEF ids
  <2>5. \A k \in DOMAIN ids : ids[k] \in Ids
    BY <2>3, <2>4
  <2>6. h = [k \in DOMAIN ids |-> h[k]] /\ \A k \in DOMAIN ids : h[k].id = ids[k] /\ h[k] \in Hits
    BY <2>5 DEF Hit, Hits
  <2> HIDE DEF h
  <2> QED BY <1>2, <2>2, <2>3, <2>4, <2>6, TrackedFound
<1>5. CASE SetJob(n, "loading", x)
  <2> DEFINE C == {i \in Ids : graph[i] # None}
  <2>1. C \in SUBSET (Ids \cap Tracked) /\ near \in Seq(C)
        /\ \A k \in DOMAIN near : Hit(near[k], Near[graph[near[k]]]) \in Hits
    BY LiveTracked, Constants
  <2>2. x = [k \in DOMAIN near |-> x[k]] /\ \A k \in DOMAIN near : x[k].id = near[k] /\ x[k] \in Hits
    BY <2>1 DEF Hit
  <2> HIDE DEF x, near, C
  <2> QED BY <1>2, <1>5, <2>1, <2>2, TrackedFound
<1> QED BY <1>3, <1>4, <1>5 DEF SearchAnalogical

-----------------------------------------------------------------------------
(* Sorting and loading                                                     *)

\* The positions of a list by weight, the heaviest first, equal ones as they were.
Heavier(s, w) ==
  {p \in (DOMAIN s) \X (DOMAIN s) : \/ w[p[1]] > w[p[2]]
                                    \/ w[p[1]] = w[p[2]] /\ p[1] < p[2]}

\* A sorted list has the entries of the list, each once, in the order of their weights.
LEMMA SortedParts ==
  ASSUME NEW C, NEW s \in Seq(C), NEW w, \A k \in DOMAIN s : w[k] \in Int
  PROVE  \E o : /\ Goes(o, DOMAIN s, Heavier(s, w)) /\ Sorted(s, w) = Picked(s, o)
                /\ Sorted(s, w) \in Seq(C) /\ Len(Sorted(s, w)) = Len(o)
                /\ \A k \in 1 .. Len(o) : o[k] \in DOMAIN s /\ Sorted(s, w)[k] = s[o[k]]
<1> DEFINE S == DOMAIN s
           Before(a, b) == \/ w[a] > w[b]
                           \/ w[a] = w[b] /\ a < b
           R == Heavier(s, w)
           P(x) == Cardinality({y \in S : Before(y, x)})
           o == Arranged(S, Before)
<1>1. S = 1 .. Len(s) /\ Len(s) \in Nat
  OBVIOUS
<1>2. IsFiniteSet(S)
  <2>1. S \in SUBSET (1 .. Len(s))
    BY <1>1
  <2> HIDE DEF S
  <2> QED BY <1>1, <2>1, PositionsFinite
<1>3. \A i, j \in S : <<i, j>> \in R <=> Before(i, j)
  <2>1. R = {p \in S \X S : Before(p[1], p[2])}
    BY DEF Heavier
  <2> HIDE DEF R, S
  <2> QED BY <2>1
<1>4. \A i \in S : w[i] \in Int /\ i \in Nat
  BY <1>1
<1>5. Orders(R, S)
  <2> HIDE DEF R, S
  <2> QED BY <1>3, <1>4 DEF Orders
<1>6. \A x \in S : {y \in S : Before(y, x)} = {y \in S : <<y, x>> \in R}
  BY <1>3
<1>7. \A x \in S : P(x) = Place(S, R, x)
  BY <1>6 DEF Place
<1>8. o = [n \in 1 .. Cardinality(S) |-> CHOOSE x \in S : P(x) = n - 1]
  BY DEF Arranged
<1>9. Sorted(s, w) = Picked(s, o)
  BY DEF Sorted
<1> HIDE DEF S, R, P, o
<1>10. \A n \in 1 .. Cardinality(S) : \E x \in S : P(x) = n - 1
  BY <1>2, <1>5, <1>7, PlaceTaken
<1>11. \A n \in 1 .. Cardinality(S) : o[n] \in S /\ P(o[n]) = n - 1
  BY <1>8, <1>10
<1>12. o = [n \in 1 .. Cardinality(S) |-> o[n]]
  BY <1>8
<1>13. Goes(o, S, R)
  BY <1>2, <1>5, <1>7, <1>11, <1>12, PlaceGoes
<1>14. o \in Seq(S) /\ S \subseteq DOMAIN s /\ \A k \in 1 .. Len(o) : o[k] \in S
  BY <1>13 DEF Goes, S
<1>15. /\ Picked(s, o) \in Seq(C) /\ Len(Picked(s, o)) = Len(o)
       /\ \A k \in 1 .. Len(o) : Picked(s, o)[k] = s[o[k]]
  BY <1>14, PickedParts
<1> QED BY <1>9, <1>13, <1>14, <1>15 DEF S, R

\* What is kept of a sorted list are entries of it.
LEMMA BestOf ==
  ASSUME NEW C, NEW s \in Seq(C), NEW w, \A k \in DOMAIN s : w[k] \in Int, NEW max \in Nat
  PROVE  /\ Truncate(Sorted(s, w), max) \in Seq(C)
         /\ \A k \in DOMAIN Truncate(Sorted(s, w), max) :
              \E j \in DOMAIN s : Truncate(Sorted(s, w), max)[k] = s[j]
<1> DEFINE z == Sorted(s, w)
<1>1. PICK o : /\ z \in Seq(C) /\ Len(z) = Len(o)
               /\ \A k \in 1 .. Len(o) : o[k] \in DOMAIN s /\ z[k] = s[o[k]]
  BY SortedParts
<1> HIDE DEF z
<1> DEFINE t == Truncate(z, max)
<1>2. t \in Seq(C) /\ \A k \in 1 .. Len(t) : k \in 1 .. Len(z) /\ t[k] = z[k]
  BY <1>1, TruncateParts
<1>3. DOMAIN t = 1 .. Len(t)
  BY <1>2
<1>4. \A k \in DOMAIN t : \E j \in DOMAIN s : t[k] = s[j]
  BY <1>1, <1>2, <1>3
<1> QED BY <1>2, <1>4 DEF z

\* What is stored, and how a load looks at it.
LEMMA LoadParts ==
  ASSUME StoresTyped, NEW t, NEW i \in Ids, Load(t, i) # None
  PROVE  /\ Load(t, i) = db[i] /\ db[i] # None /\ db[i] \in Memory /\ db[i].tenant = t
         /\ <<i, db[i]>> \in Versions(db)
BY DEF StoresTyped, Load, Versions, Stored

\* A search goes on with what it found.
LEMMA SearchMoves ==
  ASSUME ReadsInv, call # Idle, NEW n \in DOMAIN call.job, Search(n)
  PROVE  /\ ReadsInv' /\ Quiet /\ Same(call, call') /\ IsCall(call') /\ call.kind = "recall"
         /\ call'.phase = "running"
<1>1. call.kind = "recall" /\ call.phase = "running" /\ call.job[n] = "todo" /\ Quiet
  BY DEF Search, Quiet
<1>2. PICK s, h : Found(n, s, h)
  <2>1. CASE SearchSimilar(n)
    BY <1>1, <2>1, SimilarFinds DEF SearchSimilar
  <2>2. CASE SearchTemporal(n)
    BY <1>1, <2>2, TemporalFinds
  <2>3. CASE SearchCausal(n)
    BY <1>1, <2>3, CausalFinds
  <2>4. CASE SearchAnalogical(n)
    BY <1>1, <2>4, AnalogicalFinds
  <2> QED BY <2>1, <2>2, <2>3, <2>4 DEF Search
<1>3. /\ IsCall(call) /\ Record(call) /\ DOMAIN call.job = DOMAIN call.menu
      /\ DOMAIN call.found = DOMAIN call.menu
  BY DEF ReadsInv, CallTyped, IsCall, Record
<1>4. call' = WithJob(call, n, s, h)
  BY <1>2 DEF Found, SetJob, WithJob
<1>5. /\ But(call, call', {"job", "found"})
      /\ call'.job = [call.job EXCEPT ![n] = s] /\ call'.found = [call.found EXCEPT ![n] = h]
  <2>1. JobSet(call, call', n, s, h)
    BY <1>3, <1>4, JobMoved
  <2> QED BY <2>1 DEF JobSet
<1>6. /\ But(call, call', {"job", "found", "loaded"}) /\ call'.loaded = call.loaded
      /\ call'.phase = call.phase
  BY <1>5 DEF But, Fields
<1>7. call.loaded \in [DOMAIN call.menu -> Seq(Loads)] /\ n \in DOMAIN call.menu
  BY <1>3 DEF IsCall
<1>8. call'.loaded = [call.loaded EXCEPT ![n] = call.loaded[n]] /\ call.loaded[n] \in Seq(Loads)
  BY <1>6, <1>7
<1>9. \A k \in DOMAIN call.loaded[n] : TrueResult(call.loaded[n][k])
  BY <1>7 DEF ReadsInv, ReadsTrue
<1>10. MovesOn(n, s, h, call.loaded[n])
  BY <1>2, <1>5, <1>8, <1>9 DEF MovesOn, Found
<1>11. ReadsInv' /\ Same(call, call') /\ IsCall(call')
  BY <1>1, <1>6, <1>10, GoesOnKeeps
<1> QED BY <1>1, <1>6, <1>11

\* The memory a hit leads to, and the result it makes.
Fetched(n) == Load(call.tenant, Head(call.found[n]).id)
Loaded(n) == [id |-> Head(call.found[n]).id, memory |-> Fetched(n), relevance |-> Head(call.found[n]).relevance]

\* A load takes the first hit, and keeps what is wanted of it.
Loading(n, g) ==
  /\ n \in DOMAIN call.menu /\ call.phase = "running" /\ call.job[n] = "loading"
  /\ call.found[n] \in Seq(Hits) /\ call.found[n] # <<>> /\ call.loaded[n] \in Seq(Loads)
  /\ But(call, call', {"found", "loaded"})
  /\ call'.found = [call.found EXCEPT ![n] = Tail(call.found[n])]
  /\ call'.loaded = [call.loaded EXCEPT ![n] = g]
  /\ \/ ~Wanted(n, Fetched(n)) /\ g = call.loaded[n]
     \/ Wanted(n, Fetched(n)) /\ g = Append(call.loaded[n], Loaded(n))

\* What a load does.
LEMMA LoadHitParts ==
  ASSUME ReadsInv, NEW n, LoadHit(n)
  PROVE  Quiet /\ \E g : Loading(n, g)
<1>1. IsCall(call) /\ Record(call) /\ call # Idle
  BY DEF ReadsInv, CallTyped, LoadHit, IsCall, Record
<1>2. /\ n \in DOMAIN call.menu /\ call.phase = "running" /\ call.job[n] = "loading"
      /\ call.found[n] \in Seq(Hits) /\ call.found[n] # <<>> /\ call.loaded[n] \in Seq(Loads)
  BY <1>1 DEF IsCall, LoadHit
<1> DEFINE g == IF Wanted(n, Fetched(n)) THEN Append(call.loaded[n], Loaded(n)) ELSE call.loaded[n]
           h == Tail(call.found[n])
<1>3. call' = [call EXCEPT !.found[n] = Tail(@), !.loaded[n] = g]
  BY DEF LoadHit, Fetched, Loaded
<1>4. \/ ~Wanted(n, Fetched(n)) /\ g = call.loaded[n]
      \/ Wanted(n, Fetched(n)) /\ g = Append(call.loaded[n], Loaded(n))
  OBVIOUS
<1> HIDE DEF g
<1>5. call' = WithLoad(call, n, h, g)
  BY <1>3 DEF WithLoad
<1> HIDE DEF h
<1>6. /\ But(call, call', {"loaded", "found"})
      /\ call'.loaded = [call.loaded EXCEPT ![n] = g] /\ call'.found = [call.found EXCEPT ![n] = h]
  <2>1. LoadSet(call, call', n, h, g)
    BY <1>1, <1>5, LoadMoved
  <2> QED BY <2>1 DEF LoadSet
<1>7. {"loaded", "found"} = {"found", "loaded"}
  OBVIOUS
<1>8. Loading(n, g)
  BY <1>2, <1>4, <1>6, <1>7 DEF Loading, h
<1>9. Quiet
  BY DEF LoadHit, Quiet
<1> QED BY <1>8, <1>9

\* What a load keeps is true.
LEMMA LoadedTrue ==
  ASSUME ReadsInv, call # Idle, NEW n, NEW g, Loading(n, g), Wanted(n, Fetched(n))
  PROVE  Loaded(n) \in Loads /\ TrueResult(Loaded(n))
<1> DEFINE h == Head(call.found[n])
           i == h.id
<1>1. h \in Hits /\ h = call.found[n][1] /\ 1 \in DOMAIN call.found[n]
  BY DEF Loading
<1>2. TrueHit(n, h)
  BY <1>1 DEF ReadsInv, ReadsTrue, Loading
<1>3. i \in Ids /\ h.relevance \in Nat
  BY <1>1 DEF Hits
<1>4. Fetched(n) # None /\ Fetched(n) = Load(call.tenant, i)
  BY DEF Wanted, Matches, Fetched
<1>5. /\ Fetched(n) = db[i] /\ db[i] # None /\ db[i] \in Memory /\ db[i].tenant = call.tenant
      /\ <<i, db[i]>> \in Versions(db)
  BY <1>3, <1>4, LoadParts DEF ReadsInv
<1>6. Versions(db) \subseteq during
  BY DEF ReadsInv, ReadsTrue, Loading
<1>7. Loaded(n) = [id |-> i, memory |-> db[i], relevance |-> h.relevance]
  BY <1>5 DEF Loaded
<1> HIDE DEF h
<1>8. Loaded(n) \in Loads
  BY <1>3, <1>5, <1>7 DEF Loads
<1>9. ASSUME call.entity # None PROVE Had(i)
  <2>1. CASE Unchecked(n)
    BY <1>2, <1>9, <2>1 DEF TrueHit
  <2>2. CASE ~Unchecked(n)
    <3>1. db[i].entity = call.entity
      BY <1>5, <1>9, <2>2 DEF Wanted, Unchecked, Matches
    <3>2. <<i, db[i]>>[1] = i /\ <<i, db[i]>>[2].entity = call.entity /\ <<i, db[i]>> \in during
      BY <1>5, <1>6, <3>1
    <3> QED BY <3>2 DEF Had
  <2> QED BY <2>1, <2>2
<1>10. Primary => db[i].at = i
  BY <1>2, <1>5 DEF TrueHit, Own
<1>11. /\ Loaded(n).memory.tenant = call.tenant /\ Loaded(n).id = i /\ Loaded(n).memory = db[i]
       /\ <<i, db[i]>> \in during
  BY <1>5, <1>6, <1>7
<1> QED BY <1>8, <1>9, <1>10, <1>11 DEF TrueResult

\* A load keeps the invariant.
LEMMA LoadHitMoves ==
  ASSUME ReadsInv, call # Idle, NEW n, LoadHit(n)
  PROVE  ReadsInv' /\ Quiet /\ Same(call, call') /\ IsCall(call') /\ \E g : Loading(n, g)
<1>1. PICK g : Loading(n, g)
  BY LoadHitParts
<1>2. Quiet
  BY LoadHitParts
<1>3. IsCall(call) /\ DOMAIN call.job = DOMAIN call.menu
  BY DEF ReadsInv, CallTyped, IsCall
<1>4. n \in DOMAIN call.job /\ n \in DOMAIN call.menu /\ call.job[n] = "loading"
  BY <1>1, <1>3 DEF Loading
<1>5. StrategyTrue(n)
  BY <1>4 DEF ReadsInv, ReadsTrue, StrategyTrue
<1>6. g \in Seq(Loads) /\ \A k \in DOMAIN g : TrueResult(g[k])
  <2>1. CASE ~Wanted(n, Fetched(n)) /\ g = call.loaded[n]
    BY <1>1, <1>5, <2>1 DEF Loading, StrategyTrue
  <2>2. CASE Wanted(n, Fetched(n)) /\ g = Append(call.loaded[n], Loaded(n))
    <3>1. Loaded(n) \in Loads /\ TrueResult(Loaded(n))
      BY <1>1, <2>2, LoadedTrue
    <3>2. call.loaded[n] \in Seq(Loads)
      BY <1>1 DEF Loading
    <3> DEFINE l == call.loaded[n]
               x == Loaded(n)
    <3>3. \A k \in DOMAIN l : TrueResult(l[k])
      BY <1>5 DEF StrategyTrue
    <3> HIDE DEF l, x
    <3>4. g = Append(l, x) /\ l \in Seq(Loads) /\ x \in Loads /\ TrueResult(x)
      BY <2>2, <3>1, <3>2 DEF l, x
    <3>5. g \in Seq(Loads) /\ \A k \in DOMAIN g : (k \in DOMAIN l /\ g[k] = l[k]) \/ g[k] = x
      BY <3>4
    <3> QED BY <3>3, <3>4, <3>5
  <2> QED BY <1>1, <2>1, <2>2 DEF Loading
<1> DEFINE h == Tail(call.found[n])
<1>7. h \in Seq(Hits) /\ \A k \in DOMAIN h : k + 1 \in DOMAIN call.found[n] /\ h[k] = call.found[n][k + 1]
  BY <1>1 DEF Loading
<1>8. \A k \in DOMAIN h : TrueHit(n, h[k])
  BY <1>5, <1>7 DEF StrategyTrue
<1> HIDE DEF h
<1>9. But(call, call', {"job", "found", "loaded"}) /\ call'.job = call.job
  BY <1>1 DEF Loading, But, Fields
<1>10. call'.job = [call.job EXCEPT ![n] = "loading"]
  BY <1>3, <1>4, <1>9 DEF IsCall
<1>11. MovesOn(n, "loading", h, g)
  BY <1>1, <1>6, <1>7, <1>8, <1>10 DEF MovesOn, Loading, h
<1>12. ReadsInv' /\ Same(call, call') /\ IsCall(call')
  BY <1>2, <1>4, <1>9, <1>11, GoesOnKeeps
<1> QED BY <1>1, <1>2, <1>12

\* A strategy that has loaded keeps entries of what it loaded.
Ending(n, g) ==
  /\ n \in DOMAIN call.menu /\ call.phase = "running" /\ call.job[n] = "loading"
  /\ call.found[n] = <<>> \/ call.menu[n] = "similarity"
  /\ But(call, call', {"job", "found", "loaded"})
  /\ call'.job = [call.job EXCEPT ![n] = "done"] /\ call'.found = [call.found EXCEPT ![n] = <<>>]
  /\ call'.loaded = [call.loaded EXCEPT ![n] = g]
  /\ g \in Seq(Loads) /\ \A k \in DOMAIN g : \E j \in DOMAIN call.loaded[n] : g[k] = call.loaded[n][j]
  /\ call.menu[n] \notin {"causal", "analogical"} => g = call.loaded[n]

\* The end of a load loop keeps the invariant.
LEMMA LoadDoneMoves ==
  ASSUME ReadsInv, call # Idle, NEW n, LoadDone(n)
  PROVE  ReadsInv' /\ Quiet /\ Same(call, call') /\ IsCall(call') /\ \E g : Ending(n, g)
<1>1. IsCall(call) /\ Record(call) /\ DOMAIN call.job = DOMAIN call.menu
  BY DEF ReadsInv, CallTyped, IsCall, Record
<1> DEFINE l == call.loaded[n]
           w == [k \in DOMAIN l |-> l[k].relevance]
           g == IF call.menu[n] \in {"causal", "analogical"} THEN Truncate(Sorted(l, w), TopK) ELSE l
<1>2. /\ n \in DOMAIN call.menu /\ n \in DOMAIN call.job /\ call.phase = "running"
      /\ call.job[n] = "loading" /\ (call.found[n] = <<>> \/ call.menu[n] = "similarity")
      /\ l \in Seq(Loads)
  BY <1>1 DEF IsCall, LoadDone
<1>3. call' = WithEnd(call, n, "done", <<>>, g)
  BY DEF LoadDone, WithEnd
<1>4. g \in Seq(Loads) /\ \A k \in DOMAIN g : \E j \in DOMAIN l : g[k] = l[j]
  <2>1. CASE call.menu[n] \in {"causal", "analogical"}
    <3> HIDE DEF l
    <3>1. \A k \in DOMAIN l : l[k] \in Loads
      BY <1>2
    <3>2. \A k \in DOMAIN l : w[k] \in Int
      BY <3>1 DEF Loads
    <3>3. g = Truncate(Sorted(l, w), TopK)
      BY <2>1
    <3> HIDE DEF w, g
    <3>4. TopK \in Nat
      BY Constants
    <3> QED BY <1>2, <3>2, <3>3, <3>4, BestOf
  <2>2. CASE ~(call.menu[n] \in {"causal", "analogical"})
    BY <1>2, <2>2
  <2> QED BY <2>1, <2>2
<1>5. call.menu[n] \notin {"causal", "analogical"} => g = l
  OBVIOUS
<1> HIDE DEF g
<1>6. /\ But(call, call', {"job", "found", "loaded"})
      /\ call'.job = [call.job EXCEPT ![n] = "done"] /\ call'.found = [call.found EXCEPT ![n] = <<>>]
      /\ call'.loaded = [call.loaded EXCEPT ![n] = g]
  <2>1. EndSet(call, call', n, "done", <<>>, g)
    BY <1>1, <1>3, DoneMoved
  <2> QED BY <2>1 DEF EndSet
<1>7. Ending(n, g)
  BY <1>2, <1>4, <1>5, <1>6 DEF Ending
<1>8. \A k \in DOMAIN l : TrueResult(l[k])
  BY <1>2 DEF ReadsInv, ReadsTrue
<1>9. \A k \in DOMAIN g : TrueResult(g[k])
  BY <1>4, <1>8
<1>10. <<>> \in Seq(Hits) /\ \A k \in DOMAIN <<>> : TrueHit(n, <<>>[k])
  OBVIOUS
<1>11. MovesOn(n, "done", <<>>, g)
  BY <1>4, <1>6, <1>9, <1>10 DEF MovesOn
<1>12. Quiet
  BY DEF LoadDone, Quiet
<1>13. ReadsInv' /\ Same(call, call') /\ IsCall(call')
  BY <1>2, <1>6, <1>11, <1>12, GoesOnKeeps
<1> QED BY <1>7, <1>12, <1>13

-----------------------------------------------------------------------------
(* Writes                                                                  *)

\* A write that hands out ids keeps what is true of the call.
LEMMA WatchKeeps ==
  ASSUME ReadsInv, call' = call, undone' = undone, Watch, StoresTyped', \A i \in Ids : Own(i) => Own(i)'
  PROVE  CallTyped' /\ ReadsTrue'
<1>1. during' = IF call = Idle THEN {} ELSE during \cup Versions(db)'
  BY DEF Watch, Versions, Stored
<1>2. Versions(db)' \subseteq Ids \X Memory
  BY DEF StoresTyped, Versions, Stored
<1>3. CallTyped'
  BY <1>1, <1>2 DEF ReadsInv, CallTyped
<1>4. ASSUME call # Idle PROVE ReadsTrue'
  <2>1. IsCall(call) /\ ReadsTrue
    BY <1>4 DEF ReadsInv, CallTyped
  <2>2. Same(call, call') /\ undone \subseteq undone' /\ during \subseteq during'
    BY <1>1, <1>4 DEF Same
  <2>3. /\ \A m : \A x \in Hits : TrueHit(m, x) => TrueHit(m, x)'
        /\ \A r : TrueResult(r) => TrueResult(r)'
    BY <2>2, TruthGrows
  <2>4. ASSUME NEW m \in DOMAIN call.menu PROVE StrategyTrue(m)'
    <3>1. call.found[m] \in Seq(Hits)
      BY <2>1 DEF IsCall
    <3>3. \A k \in DOMAIN call.found[m] : call.found[m][k] \in Hits
      BY <3>1
    <3>2. StrategyTrue(m)
      BY <1>4, <2>1 DEF ReadsTrue, StrategyTrue
    <3> QED BY <2>3, <3>2, <3>3 DEF StrategyTrue
  <2>5. (\A k \in DOMAIN call.answer : TrueResult(call.answer[k]))'
    BY <1>4, <2>1, <2>3 DEF ReadsTrue
  <2>6. Versions(db)' \subseteq during'
    BY <1>1, <1>4
  <2> QED BY <2>4, <2>5, <2>6 DEF ReadsTrue, StrategyTrue
<1>5. ASSUME call = Idle PROVE ReadsTrue'
  BY <1>5 DEF ReadsTrue
<1> QED BY <1>3, <1>4, <1>5

\* What it is to be tracked, before and after a step.
InTracked(i) == \/ \E e \in temporal : e.id = i
                \/ i \in Ids /\ (graph[i] # None \/ vectors[i] # None)
                \/ \E t \in Tenants : i \in assoc[t]
                \/ i \in assocKeys

\* Where an id that the indexes know may be.
LEMMA TrackedMembers ==
  /\ \A i : i \in Tracked <=> InTracked(i)
  /\ \A i : i \in Tracked' <=> InTracked(i)'
  /\ StoresTyped => Tracked \subseteq Ids
  /\ StoresTyped' => Tracked' \subseteq Ids
<1>1. \A i : i \in Tracked <=> InTracked(i)
  <2> SUFFICES ASSUME NEW i PROVE i \in Tracked <=> InTracked(i)
    OBVIOUS
  <2>1. i \in UNION {assoc[t] : t \in Tenants} <=> \E t \in Tenants : i \in assoc[t]
    OBVIOUS
  <2>2. i \in {e.id : e \in temporal} <=> \E e \in temporal : e.id = i
    OBVIOUS
  <2>3. i \in Tracked <=>
        \/ i \in {e.id : e \in temporal} \/ i \in {j \in Ids : graph[j] # None}
        \/ i \in {j \in Ids : vectors[j] # None} \/ i \in UNION {assoc[t] : t \in Tenants}
        \/ i \in assocKeys
    BY DEF Tracked
  <2> QED BY <2>1, <2>2, <2>3 DEF InTracked
<1>2. \A i : i \in Tracked' <=> InTracked(i)'
  <2> SUFFICES ASSUME NEW i PROVE i \in Tracked' <=> InTracked(i)'
    OBVIOUS
  <2>1. i \in UNION {assoc'[t] : t \in Tenants} <=> \E t \in Tenants : i \in assoc'[t]
    OBVIOUS
  <2>2. i \in {e.id : e \in temporal'} <=> \E e \in temporal' : e.id = i
    OBVIOUS
  <2>3. i \in Tracked' <=>
        \/ i \in {e.id : e \in temporal'} \/ i \in {j \in Ids : graph'[j] # None}
        \/ i \in {j \in Ids : vectors'[j] # None} \/ i \in UNION {assoc'[t] : t \in Tenants}
        \/ i \in assocKeys'
    BY DEF Tracked
  <2> QED BY <2>1, <2>2, <2>3 DEF InTracked
<1>3. ASSUME StoresTyped PROVE Tracked \subseteq Ids
  <2>1. /\ \A e \in temporal : e.id \in Ids
        /\ \A t \in Tenants : assoc[t] \subseteq Ids
        /\ assocKeys \subseteq Ids
    BY <1>3 DEF StoresTyped
  <2> QED BY <1>1, <2>1 DEF InTracked
<1>4. ASSUME StoresTyped' PROVE Tracked' \subseteq Ids
  <2>1. /\ \A e \in temporal' : e.id \in Ids
        /\ \A t \in Tenants : assoc'[t] \subseteq Ids
        /\ assocKeys' \subseteq Ids
    BY <1>4 DEF StoresTyped
  <2> QED BY <1>2, <2>1 DEF InTracked
<1> QED BY <1>1, <1>2, <1>3, <1>4

\* Ids in what a write leaves during are handed out.
LEMMA WatchNumbers ==
  ASSUME ReadsInv, Watch, StoresTyped', created <= created',
         \A i \in Ids : db'[i] # None => i <= created'
  PROVE  \A v \in during' : v[1] <= created'
<1>1. during' = IF call = Idle THEN {} ELSE during \cup Versions(db)'
  BY DEF Watch, Versions, Stored
<1>2. \A v \in Versions(db)' : v[1] <= created'
  BY DEF Versions, Stored
<1>3. ASSUME NEW v \in during PROVE v[1] <= created'
  <2>1. v[1] <= created /\ v[1] \in Nat /\ created \in Nat /\ created' \in Nat
    BY Constants DEF ReadsInv, Numbered, CallTyped, StoresTyped
  <2> QED BY <2>1
<1> QED BY <1>1, <1>2, <1>3

\* always only loses ids.
LEMMA WatchShrinks ==
  ASSUME Watch
  PROVE  always' \subseteq always
BY DEF Watch

\* Remembering keeps the invariant.
LEMMA RememberKeeps ==
  ASSUME ReadsInv, NEW d \in Drafts, Remember(d)
  PROVE  ReadsInv'
<1>0. PICK i : i = created + 1
  OBVIOUS
<1> DEFINE m == [tenant |-> d.tenant, entity |-> d.entity, text |-> d.text, at |-> i]
<1>1. /\ i <= MaxIds /\ created' = i /\ db' = [db EXCEPT ![i] = m]
      /\ temporal' = temporal \cup EntriesOf(i, m) /\ graph' = [graph EXCEPT ![i] = d.text]
      /\ vectors' = [vectors EXCEPT ![i] = d.text] /\ assoc' = [assoc EXCEPT ![d.tenant] = @ \cup {i}]
      /\ assocKeys' = assocKeys \cup {i} /\ Watch /\ call' = call /\ undone' = undone
  BY <1>0 DEF Remember
<1>2. d.tenant \in Tenants /\ d.entity \in Entities \cup {None} /\ d.text \in Texts /\ d.text # None
  BY Constants
<1>3. StoresTyped /\ Numbered /\ Indexed
  BY DEF ReadsInv
<1>4. i \in Ids /\ created \in Nat /\ created < i /\ i \in Nat
  BY <1>0, <1>1, <1>3, Constants DEF StoresTyped
<1>5. m \in Memory /\ m.at = i /\ m.entity = d.entity /\ m # None
  BY <1>2, <1>4, Constants DEF Memory
<1>6. EntriesOf(i, m) = IF d.entity = None THEN {} ELSE {Entry(i, m)}
  BY <1>5 DEF EntriesOf
<1>7. Entry(i, m) = [tenant |-> d.tenant, entity |-> d.entity, at |-> i, id |-> i]
  BY DEF Entry
<1> HIDE DEF m
<1>8. StoresTyped'
  <2>1. temporal' \subseteq [tenant : Tenants, entity : Entities, at : Ids, id : Ids]
    BY <1>1, <1>2, <1>3, <1>4, <1>6, <1>7 DEF StoresTyped
  <2>2. always' \subseteq always
    BY <1>1, WatchShrinks
  <2>3. created' \in 0 .. MaxIds
    BY <1>1, <1>4, Constants
  <2> QED BY <1>1, <1>2, <1>3, <1>4, <1>5, <2>1, <2>2, <2>3 DEF StoresTyped
<1>9. /\ \A j \in Ids : j # i => db'[j] = db[j] /\ graph'[j] = graph[j] /\ vectors'[j] = vectors[j]
      /\ db'[i] = m
  BY <1>1, <1>3, <1>4 DEF StoresTyped
<1>10. \A j \in Ids : Own(j) => Own(j)'
  <2> SUFFICES ASSUME NEW j \in Ids, Own(j) PROVE Own(j)'
    OBVIOUS
  <2>1. j <= created /\ j # i /\ j \in Nat
    BY <1>4, Constants DEF Own
  <2> QED BY <1>1, <1>4, <1>9, <2>1 DEF Own
<1>11. Own(i)'
  BY <1>1, <1>4, <1>5, <1>9 DEF Own
<1>12. Tracked' \subseteq Tracked \cup {i}
  <2>1. {e.id : e \in temporal'} \subseteq {e.id : e \in temporal} \cup {i}
    BY <1>1, <1>6, <1>7
  <2>2. /\ {j \in Ids : graph'[j] # None} \subseteq {j \in Ids : graph[j] # None} \cup {i}
        /\ {j \in Ids : vectors'[j] # None} \subseteq {j \in Ids : vectors[j] # None} \cup {i}
    BY <1>9
  <2>3. \A t \in Tenants : assoc'[t] \subseteq assoc[t] \cup {i}
    BY <1>1, <1>3 DEF StoresTyped
  <2>4. \A j : InTracked(j)' => InTracked(j) \/ j = i
    BY <1>1, <2>1, <2>2, <2>3 DEF InTracked
  <2> QED BY <2>4, TrackedMembers
<1>13. Numbered'
  <2>1. \A j \in Stored(db)' : j <= created' /\ db'[j].at <= j
    <3> SUFFICES ASSUME NEW j \in Ids, db'[j] # None PROVE j <= created' /\ db'[j].at <= j
      BY DEF Stored
    <3>1. CASE j = i
      BY <1>1, <1>4, <1>5, <1>9, <3>1
    <3>2. CASE j # i
      <4>1. db[j] # None /\ db'[j] = db[j] /\ j \in Nat
        BY <1>9, <3>2, Constants
      <4>2. j <= created /\ db[j].at <= j
        BY <1>3, <4>1 DEF Numbered, Stored
      <4> QED BY <1>1, <1>4, <4>1, <4>2
    <3> QED BY <3>1, <3>2
  <2>2. Tracked \subseteq Ids
    BY <1>3, TrackedMembers
  <2>3. \A j \in Tracked' : Own(j)'
    BY <1>3, <1>10, <1>11, <1>12, <2>2 DEF Numbered
  <2>4. \A e \in temporal' : e.at = e.id
    BY <1>1, <1>3, <1>6, <1>7 DEF Numbered
  <2>5. \A v \in during' : v[1] <= created'
    <3>1. created <= created' /\ \A j \in Ids : db'[j] # None => j <= created'
      BY <1>1, <1>4, <2>1 DEF Stored
    <3> QED BY <1>1, <1>8, <3>1, WatchNumbers
  <2> QED BY <2>1, <2>3, <2>4, <2>5 DEF Numbered
<1>14. \A e \in temporal : e.id # i
  <2> SUFFICES ASSUME NEW e \in temporal, e.id = i PROVE FALSE
    OBVIOUS
  <2>1. Own(i)
    BY <1>3 DEF Numbered, Tracked
  <2> QED BY <1>4, <2>1 DEF Own
<1>15. Indexed'
  <2> SUFFICES ASSUME NEW j \in Ids \ undone
               PROVE  /\ \A e \in temporal' : e.id = j => db'[j] # None /\ e = Entry(j, db'[j])
                      /\ db'[j] # None /\ db'[j].at = j /\ db'[j].entity # None => Entry(j, db'[j]) \in temporal'
    BY <1>1 DEF Indexed, Snapshot, Entry
  <2>1. CASE j = i
    BY <1>1, <1>5, <1>6, <1>9, <1>14, <2>1
  <2>2. CASE j # i
    <3>1. db'[j] = db[j]
      BY <1>9, <2>2
    <3>2. \A e \in temporal' : e.id = j => e \in temporal
      BY <1>1, <1>6, <1>7, <2>2
    <3>3. temporal \subseteq temporal'
      BY <1>1
    <3> QED BY <1>3, <3>1, <3>2, <3>3 DEF Indexed, Snapshot
  <2> QED BY <2>1, <2>2
<1> QED BY <1>1, <1>8, <1>10, <1>13, <1>15, WatchKeeps DEF ReadsInv

\* Revising keeps the invariant.
LEMMA ReviseKeeps ==
  ASSUME ReadsInv, NEW i \in Ids, NEW d \in Drafts, Revise(i, d)
  PROVE  ReadsInv'
<1>0. PICK c, old : c = created + 1 /\ old = db[i]
  OBVIOUS
<1> DEFINE m == [old EXCEPT !.entity = d.entity, !.text = d.text]
<1>1. /\ created < MaxIds /\ old # None /\ old.tenant = d.tenant /\ ~Snapshot(i)
      /\ db' = [db EXCEPT ![i] = m, ![c] = old]
      /\ temporal' = (temporal \ EntriesOf(i, old)) \cup EntriesOf(i, m)
      /\ graph' = [graph EXCEPT ![i] = d.text] /\ vectors' = [vectors EXCEPT ![i] = d.text]
      /\ created' = c /\ assoc' = assoc /\ assocKeys' = assocKeys
      /\ Watch /\ call' = call /\ undone' = undone
  BY <1>0 DEF Revise
<1>2. d.tenant \in Tenants /\ d.entity \in Entities \cup {None} /\ d.text \in Texts /\ d.text # None
  BY Constants
<1>3. StoresTyped /\ Numbered /\ Indexed
  BY DEF ReadsInv
<1>4. c \in Ids /\ created \in Nat /\ created < c /\ c \in Nat /\ i \in Nat
  BY <1>0, <1>1, <1>3, Constants DEF StoresTyped
<1>5. old \in Memory /\ old.at = i /\ i <= created /\ i # c /\ db[i] = old
  <2>1. old \in Memory /\ old.at = i
    BY <1>0, <1>1, <1>3 DEF StoresTyped, Snapshot
  <2>2. i <= created
    BY <1>0, <1>1, <1>3 DEF Numbered, Stored
  <2> QED BY <1>0, <1>4, <2>1, <2>2
<1>6. m \in Memory /\ m.at = i /\ m.entity = d.entity /\ m.tenant = old.tenant /\ m # None
  BY <1>2, <1>5, Constants DEF Memory
<1>7. /\ EntriesOf(i, m) = (IF d.entity = None THEN {} ELSE {Entry(i, m)})
      /\ EntriesOf(i, old) = (IF old.entity = None THEN {} ELSE {Entry(i, old)})
  BY <1>6 DEF EntriesOf
<1>8. /\ Entry(i, m) = [tenant |-> d.tenant, entity |-> d.entity, at |-> i, id |-> i]
      /\ Entry(i, old).id = i
  BY <1>1, <1>6 DEF Entry
<1> HIDE DEF m
<1>9. /\ \A j \in Ids : j # i /\ j # c => db'[j] = db[j]
      /\ \A j \in Ids : j # i => graph'[j] = graph[j] /\ vectors'[j] = vectors[j]
      /\ db'[i] = m /\ db'[c] = old
  BY <1>1, <1>3, <1>4, <1>5 DEF StoresTyped
<1>10. StoresTyped'
  <2>1. temporal' \subseteq [tenant : Tenants, entity : Entities, at : Ids, id : Ids]
    BY <1>1, <1>2, <1>3, <1>7, <1>8 DEF StoresTyped
  <2>2. always' \subseteq always
    BY <1>1, WatchShrinks
  <2>3. created' \in 0 .. MaxIds
    BY <1>0, <1>1, <1>4, Constants
  <2> QED BY <1>1, <1>2, <1>3, <1>4, <1>5, <1>6, <2>1, <2>2, <2>3 DEF StoresTyped
<1>11. \A j \in Ids : Own(j) => Own(j)'
  <2> SUFFICES ASSUME NEW j \in Ids, Own(j) PROVE Own(j)'
    OBVIOUS
  <2>1. j <= created /\ j # c /\ j \in Nat
    BY <1>4, Constants DEF Own
  <2>2. j <= created'
    BY <1>1, <1>4, <2>1
  <2>3. CASE j = i
    BY <1>6, <1>9, <2>2, <2>3 DEF Own
  <2>4. CASE j # i
    BY <1>9, <2>1, <2>2, <2>4 DEF Own
  <2> QED BY <2>3, <2>4
<1>12. Own(i)'
  BY <1>1, <1>4, <1>5, <1>6, <1>9 DEF Own
<1>13. Tracked' \subseteq Tracked \cup {i}
  <2>1. {e.id : e \in temporal'} \subseteq {e.id : e \in temporal} \cup {i}
    BY <1>1, <1>7, <1>8
  <2>2. /\ {j \in Ids : graph'[j] # None} \subseteq {j \in Ids : graph[j] # None} \cup {i}
        /\ {j \in Ids : vectors'[j] # None} \subseteq {j \in Ids : vectors[j] # None} \cup {i}
    BY <1>9
  <2>3. \A j : InTracked(j)' => InTracked(j) \/ j = i
    BY <1>1, <2>1, <2>2 DEF InTracked
  <2> QED BY <2>3, TrackedMembers
<1>14. Numbered'
  <2>1. \A j \in Stored(db)' : j <= created' /\ db'[j].at <= j
    <3> SUFFICES ASSUME NEW j \in Ids, db'[j] # None PROVE j <= created' /\ db'[j].at <= j
      BY DEF Stored
    <3>1. CASE j = i
      BY <1>1, <1>4, <1>5, <1>6, <1>9, <3>1
    <3>2. CASE j = c
      BY <1>1, <1>4, <1>5, <1>9, <3>2
    <3>3. CASE j # i /\ j # c
      <4>1. db[j] # None /\ db'[j] = db[j] /\ j \in Nat
        BY <1>9, <3>3, Constants
      <4>2. j <= created /\ db[j].at <= j
        BY <1>3, <4>1 DEF Numbered, Stored
      <4> QED BY <1>1, <1>4, <4>1, <4>2
    <3> QED BY <3>1, <3>2, <3>3
  <2>2. Tracked \subseteq Ids
    BY <1>3, TrackedMembers
  <2>3. \A j \in Tracked' : Own(j)'
    BY <1>3, <1>11, <1>12, <1>13, <2>2 DEF Numbered
  <2>4. \A e \in temporal' : e.at = e.id
    BY <1>1, <1>3, <1>7, <1>8 DEF Numbered
  <2>5. \A v \in during' : v[1] <= created'
    <3>1. created <= created' /\ \A j \in Ids : db'[j] # None => j <= created'
      <4>1. \A j \in Ids : db'[j] # None => j \in Stored(db)'
        BY DEF Stored
      <4>2. created <= created'
        BY <1>1, <1>4
      <4> QED BY <2>1, <4>1, <4>2
    <3> QED BY <1>1, <1>10, <3>1, WatchNumbers
  <2> QED BY <2>1, <2>3, <2>4, <2>5 DEF Numbered
<1>15. \A e \in temporal : e.id # c
  <2> SUFFICES ASSUME NEW e \in temporal, e.id = c PROVE FALSE
    OBVIOUS
  <2>1. Own(c)
    BY <1>3 DEF Numbered, Tracked
  <2> QED BY <1>4, <2>1 DEF Own
<1>16. Indexed'
  <2> SUFFICES ASSUME NEW j \in Ids \ undone
               PROVE  /\ \A e \in temporal' : e.id = j => db'[j] # None /\ e = Entry(j, db'[j])
                      /\ db'[j] # None /\ db'[j].at = j /\ db'[j].entity # None => Entry(j, db'[j]) \in temporal'
    BY <1>1 DEF Indexed, Snapshot, Entry
  <2>1. CASE j = i
    <3>1. \A e \in temporal : e.id = i => e \in EntriesOf(i, old)
      <4> SUFFICES ASSUME NEW e \in temporal, e.id = i PROVE e \in EntriesOf(i, old)
        OBVIOUS
      <4>1. e = Entry(i, old) /\ e.entity = old.entity
        <5>1. i \in Ids \ undone
          BY <2>1
        <5>2. e = Entry(i, old)
          BY <1>3, <1>5, <5>1 DEF Indexed
        <5> QED BY <5>2 DEF Entry
      <4>2. old.entity # None
        BY <1>3, <4>1, Constants DEF StoresTyped
      <4> QED BY <1>7, <4>1, <4>2
    <3>2. \A e \in temporal' : e.id = i => e \in EntriesOf(i, m)
      BY <1>1, <3>1
    <3>3. \A e \in EntriesOf(i, m) : e = Entry(i, m) /\ d.entity # None
      BY <1>7
    <3>4. EntriesOf(i, m) \subseteq temporal'
      BY <1>1
    <3>5. d.entity # None => Entry(i, m) \in temporal'
      BY <1>7, <3>4
    <3> QED BY <1>6, <1>9, <2>1, <3>2, <3>3, <3>5
  <2>2. CASE j = c
    <3>1. \A e \in temporal' : e.id # c
      BY <1>1, <1>5, <1>7, <1>8, <1>15
    <3> QED BY <1>5, <1>9, <2>2, <3>1
  <2>3. CASE j # i /\ j # c
    <3>1. db'[j] = db[j]
      BY <1>9, <2>3
    <3>2. \A e \in temporal' : e.id = j => e \in temporal
      BY <1>1, <1>7, <1>8, <2>3
    <3>3. \A e \in temporal : e.id = j => e \in temporal'
      BY <1>1, <1>7, <1>8, <2>3
    <3>4. Entry(j, db[j]).id = j
      BY DEF Entry
    <3> QED BY <1>3, <2>3, <3>1, <3>2, <3>3, <3>4 DEF Indexed, Snapshot
  <2> QED BY <2>1, <2>2, <2>3
<1> QED BY <1>1, <1>10, <1>11, <1>14, <1>16, WatchKeeps DEF ReadsInv

\* Forgetting keeps the invariant.
LEMMA ForgetKeeps ==
  ASSUME ReadsInv, NEW t \in Tenants, NEW i \in Ids, Forget(t, i)
  PROVE  ReadsInv'
<1>0. PICK gone : gone = {j \in Stored(db) : db[j].at = i}
  OBVIOUS
<1>1. /\ i \in gone
      /\ db' = [j \in Ids |-> IF j \in gone THEN None ELSE db[j]]
      /\ temporal' = temporal \ UNION {EntriesOf(i, db[j]) : j \in gone}
      /\ graph' = [graph EXCEPT ![i] = None]
      /\ vectors' = (IF t = Default THEN [vectors EXCEPT ![i] = None] ELSE vectors)
      /\ assocKeys' = (IF t = Default THEN assocKeys \ {i} ELSE assocKeys)
      /\ assoc' = [assoc EXCEPT ![Default] = @ \ {i}]
      /\ Watch /\ created' = created /\ call' = call /\ undone' = undone
  BY <1>0 DEF Forget
<1>2. StoresTyped /\ Numbered /\ Indexed
  BY DEF ReadsInv
<1>3. db[i] # None /\ db[i].at = i /\ gone \subseteq Ids
      /\ \A j \in Ids : j \in gone <=> db[j] # None /\ db[j].at = i
  BY <1>0, <1>1 DEF Stored
<1>4. \A j \in gone : EntriesOf(i, db[j]) = (IF db[j].entity = None THEN {} ELSE {Entry(i, db[j])})
                      /\ Entry(i, db[j]).id = i
  BY DEF EntriesOf, Entry
<1>5. /\ temporal' \subseteq temporal
      /\ \A e \in temporal : e.id # i => e \in temporal'
      /\ \A e \in temporal' : e \notin EntriesOf(i, db[i])
  <2>1. \A e \in temporal : e \notin UNION {EntriesOf(i, db[j]) : j \in gone} => e \in temporal'
    BY <1>1
  <2>2. \A e \in UNION {EntriesOf(i, db[j]) : j \in gone} : e.id = i
    BY <1>4
  <2>3. EntriesOf(i, db[i]) \subseteq UNION {EntriesOf(i, db[j]) : j \in gone}
    BY <1>1
  <2> QED BY <1>1, <2>1, <2>2, <2>3
<1>6. StoresTyped'
  <2>1. always' \subseteq always
    BY <1>1, WatchShrinks
  <2>2. /\ graph' \in [Ids -> Texts \cup {None}] /\ vectors' \in [Ids -> Texts \cup {None}]
        /\ assoc' \in [Tenants -> SUBSET Ids] /\ assocKeys' \subseteq Ids
    BY <1>1, <1>2 DEF StoresTyped
  <2>3. db' \in [Ids -> Memory \cup {None}]
    BY <1>1, <1>2 DEF StoresTyped
  <2> QED BY <1>1, <1>2, <1>5, <2>1, <2>2, <2>3 DEF StoresTyped
<1>7. \A j \in Ids : /\ db'[j] # None => db'[j] = db[j] /\ j \notin gone
                     /\ j \notin gone => db'[j] = db[j]
  BY <1>1
<1>8. \A j \in Ids : Own(j) => Own(j)'
  BY <1>1, <1>7 DEF Own
<1>9. Tracked' \subseteq Tracked
  <2>1. /\ \A j \in Ids : graph'[j] # None => graph[j] # None
        /\ \A j \in Ids : vectors'[j] # None => vectors[j] # None
        /\ \A s \in Tenants : assoc'[s] \subseteq assoc[s] /\ assocKeys' \subseteq assocKeys
    BY <1>1, <1>2 DEF StoresTyped
  <2>2. \A j : InTracked(j)' => InTracked(j)
    BY <1>1, <1>5, <2>1 DEF InTracked
  <2> QED BY <2>2, TrackedMembers
<1>10. Numbered'
  <2>1. \A j \in Stored(db)' : j <= created' /\ db'[j].at <= j
    BY <1>1, <1>2, <1>7 DEF Numbered, Stored
  <2>2. Tracked \subseteq Ids
    BY <1>2, TrackedMembers
  <2>3. \A j \in Tracked' : Own(j)'
    BY <1>2, <1>8, <1>9, <2>2 DEF Numbered
  <2>4. \A e \in temporal' : e.at = e.id
    BY <1>2, <1>5 DEF Numbered
  <2>5. \A v \in during' : v[1] <= created'
    <3>1. created <= created' /\ \A j \in Ids : db'[j] # None => j <= created'
      BY <1>1, <1>2, <2>1 DEF Stored, StoresTyped
    <3> QED BY <1>1, <1>6, <3>1, WatchNumbers
  <2> QED BY <2>1, <2>3, <2>4, <2>5 DEF Numbered
<1>11. Indexed'
  <2> SUFFICES ASSUME NEW j \in Ids \ undone
               PROVE  /\ \A e \in temporal' : e.id = j => db'[j] # None /\ e = Entry(j, db'[j])
                      /\ db'[j] # None /\ db'[j].at = j /\ db'[j].entity # None => Entry(j, db'[j]) \in temporal'
    BY <1>1 DEF Indexed, Snapshot, Entry
  <2>1. CASE j \in gone
    <3>1. db'[j] = None
      BY <1>1, <2>1
    <3>2. ASSUME NEW e \in temporal', e.id = j PROVE FALSE
      <4>1. e \in temporal /\ Own(j)
        BY <1>2, <1>5, <3>2 DEF Numbered, Tracked
      <4>2. j = i
        BY <1>3, <2>1, <4>1 DEF Own
      <4>3. e = Entry(i, db[i]) /\ e.entity = db[i].entity
        <5>1. i \in Ids \ undone /\ e.id = i
          BY <3>2, <4>2
        <5>2. e = Entry(i, db[i])
          BY <1>2, <4>1, <5>1 DEF Indexed
        <5> QED BY <5>2 DEF Entry
      <4>4. e.entity # None
        BY <1>2, <4>1, Constants DEF StoresTyped
      <4>5. e \in EntriesOf(i, db[i])
        BY <4>3, <4>4 DEF EntriesOf
      <4> QED BY <1>5, <3>2, <4>5
    <3> QED BY <3>1, <3>2
  <2>2. CASE j \notin gone
    <3>1. db'[j] = db[j] /\ j # i
      BY <1>1, <1>7, <2>2
    <3>2. Entry(j, db[j]).id = j
      BY DEF Entry
    <3> QED BY <1>2, <1>5, <3>1, <3>2 DEF Indexed, Snapshot
  <2> QED BY <2>1, <2>2
<1> QED BY <1>1, <1>6, <1>8, <1>10, <1>11, WatchKeeps DEF ReadsInv

\* A restart keeps the invariant.
LEMMA RestartKeeps ==
  ASSUME ReadsInv, Restart
  PROVE  ReadsInv'
<1>1. StoresTyped /\ Numbered /\ Indexed /\ CallTyped
  BY DEF ReadsInv
<1>2. /\ call = Idle /\ graph' = vectors
      /\ assoc' = [t \in Tenants |-> IF t = Default THEN assocKeys ELSE {}]
      /\ UNCHANGED <<db, temporal, vectors, assocKeys, created, call, during, always, undone>>
  BY DEF Restart
<1>3. StoresTyped' /\ CallTyped' /\ ReadsTrue' /\ Indexed'
  BY <1>1, <1>2 DEF StoresTyped, CallTyped, ReadsTrue, Indexed, Snapshot, Entry
<1>4. Tracked' \subseteq Tracked
  <2>1. \A s \in Tenants : assoc'[s] \subseteq assocKeys
    BY <1>2
  <2>2. \A j : InTracked(j)' => InTracked(j)
    BY <1>2, <2>1 DEF InTracked
  <2> QED BY <2>2, TrackedMembers
<1>5. \A j : Own(j) <=> Own(j)'
  BY <1>2 DEF Own
<1>6. Numbered'
  BY <1>1, <1>2, <1>4, <1>5 DEF Numbered, Stored
<1> QED BY <1>3, <1>6 DEF ReadsInv

\* Every write keeps the invariant.
LEMMA WritesKeep ==
  ASSUME ReadsInv, Write
  PROVE  ReadsInv'
BY RememberKeeps, ReviseKeeps, ForgetKeeps, RestartKeeps DEF Write

-----------------------------------------------------------------------------
(* Calls begin                                                             *)

\* A call that begins has loaded nothing, and knows hits of the indexes at most.
Fresh(c) ==
  /\ IsCall(c) /\ c.phase = "running" /\ c.answer = <<>>
  /\ \A n \in DOMAIN c.menu :
       /\ c.loaded[n] = <<>>
       /\ c.job[n] \in {"todo", "done", "failed"} => c.found[n] = <<>>
       /\ \A k \in DOMAIN c.found[n] :
            /\ c.kind \in {"recall", "prime"} => Own(c.found[n][k].id)
            /\ c.entity # None =>
                 \/ c.found[n][k].id \in undone
                 \/ \E v \in Versions(db) : v[1] = c.found[n][k].id /\ v[2].entity = c.entity

\* A call that begins with good hits keeps the invariant.
LEMMA BeginKeeps ==
  ASSUME ReadsInv, NEW c, Fresh(c), Begin(c)
  PROVE  ReadsInv'
<1>1. /\ call' = c /\ during' = Versions(db) /\ always' = Stored(db)
      /\ db' = db /\ temporal' = temporal /\ graph' = graph /\ vectors' = vectors /\ assoc' = assoc
      /\ assocKeys' = assocKeys /\ created' = created /\ undone' = undone
  BY DEF Begin, stores
<1>2. StoresTyped /\ Numbered /\ Indexed
  BY DEF ReadsInv
<1>3. Versions(db) \subseteq Ids \X Memory /\ Stored(db) \subseteq Ids
  BY <1>2 DEF StoresTyped, Versions, Stored
<1>4. StoresTyped' /\ Indexed'
  BY <1>1, <1>2, <1>3 DEF StoresTyped, Indexed, Snapshot, Entry
<1>5. \A v \in Versions(db) : v[1] <= created
  BY <1>2 DEF Numbered, Versions
<1>6. Numbered'
  BY <1>1, <1>2, <1>5 DEF Numbered, Tracked, Own, Stored
<1>7. CallTyped'
  BY <1>1, <1>3 DEF CallTyped, Fresh
<1>8. Versions(db)' \subseteq during'
  BY <1>1 DEF Versions, Stored
<1>9. ASSUME NEW n \in DOMAIN c.menu PROVE StrategyTrue(n)'
  <2>1. c.loaded[n] = <<>> /\ c.job[n] \in {"todo", "done", "failed"} => c.found[n] = <<>>
    BY DEF Fresh
  <2>2. ASSUME NEW k \in DOMAIN c.found[n] PROVE (TrueHit(n, call.found[n][k]))'
    <3> DEFINE h == c.found[n][k]
    <3>1. /\ c.kind \in {"recall", "prime"} => Own(h.id)
          /\ c.entity # None => \/ h.id \in undone
                                \/ \E v \in Versions(db) : v[1] = h.id /\ v[2].entity = c.entity
      BY DEF Fresh
    <3>2. Own(h.id)' <=> Own(h.id)
      BY <1>1 DEF Own
    <3> HIDE DEF h
    <3>3. TrueHit(n, h)'
      BY <1>1, <3>1, <3>2 DEF TrueHit, Primary, Unchecked, Had
    <3> QED BY <1>1, <3>3 DEF h
  <2>3. c.loaded[n] = <<>>
    BY DEF Fresh
  <2> QED BY <1>1, <2>1, <2>2, <2>3 DEF StrategyTrue
<1>10. c.answer = <<>>
  BY DEF Fresh
<1>11. ReadsTrue'
  BY <1>1, <1>8, <1>9, <1>10 DEF ReadsTrue, StrategyTrue
<1> QED BY <1>4, <1>6, <1>7, <1>11 DEF ReadsInv

\* A new call has the types of one.
LEMMA NewCallTyped ==
  ASSUME NEW kind \in {"recall", "prime", "list", "page"}, NEW t \in Tenants,
         NEW e \in Entities \cup {None}, NEW menu \in Seq(Jobs)
  PROVE  /\ IsCall(NewCall(kind, t, e, menu))
         /\ Fresh(NewCall(kind, t, e, menu))
<1> DEFINE c == NewCall(kind, t, e, menu)
<1>1. /\ Record(c) /\ c.kind = kind /\ c.tenant = t /\ c.entity = e /\ c.menu = menu
      /\ c.phase = "running" /\ c.seed = None /\ c.now = 0 /\ c.cursor = 0
      /\ c.job = [n \in DOMAIN menu |-> "todo"] /\ c.found = [n \in DOMAIN menu |-> <<>>]
      /\ c.loaded = [n \in DOMAIN menu |-> <<>>] /\ c.answer = <<>>
  <2>1. NewParts(c, kind, t, e, menu)
    BY NewCallParts
  <2> QED BY <2>1 DEF NewParts
<1> HIDE DEF c
<1>2. <<>> \in Seq(Hits) /\ <<>> \in Seq(Loads)
  OBVIOUS
<1>3. IsCall(c)
  <2>1. /\ c.job \in [DOMAIN c.menu -> {"todo", "loading", "failed", "done"}]
        /\ c.found \in [DOMAIN c.menu -> Seq(Hits)] /\ c.loaded \in [DOMAIN c.menu -> Seq(Loads)]
    BY <1>1, <1>2
  <2>2. c = [f \in Fields |-> c[f]]
    BY <1>1 DEF Record
  <2>3. c.answer \in Seq(Loads) /\ c.now \in Nat /\ c.cursor \in Nat /\ c.seed \in Ids \cup {None}
    BY <1>1, <1>2
  <2> QED BY <1>1, <2>1, <2>2, <2>3 DEF IsCall
<1>4. Fresh(c)
  BY <1>1, <1>3 DEF Fresh
<1> QED BY <1>3, <1>4 DEF c

\* The start of a recall keeps the invariant.
LEMMA RecallKeeps ==
  ASSUME ReadsInv, NEW t \in Tenants, NEW e \in Entities \cup {None}, NEW menu \in Menus,
         NEW embeds \in BOOLEAN, NEW pair \in BOOLEAN, NEW seed \in Ids \cup {None},
         Recall(t, e, menu, embeds, seed, pair)
  PROVE  ReadsInv' /\ call'.kind = "recall" /\ call'.phase = "running"
<1> DEFINE c == NewCall("recall", t, e, menu)
           d == [c EXCEPT !.embedded = embeds, !.seed = seed, !.pair = pair]
<1>1. Begin(d)
  BY DEF Recall
<1>2. menu \in Seq(Jobs)
  BY Constants
<1>3. IsCall(c) /\ Fresh(c)
  BY <1>2, NewCallTyped
<1>4. c.kind = "recall"
  <2>1. NewParts(c, "recall", t, e, menu)
    BY NewCallParts
  <2> QED BY <2>1 DEF NewParts
<1> HIDE DEF c
<1>5. c = [f \in Fields |-> c[f]]
  BY <1>3 DEF IsCall
<1>6. d = [f \in Fields |-> d[f]] /\ \A f \in Fields \ {"embedded", "seed", "pair"} : d[f] = c[f]
  BY <1>5 DEF Fields
<1>7. d.seed = seed
  BY <1>5 DEF Fields
<1> HIDE DEF d
<1>8. /\ d.kind = c.kind /\ d.tenant = c.tenant /\ d.entity = c.entity /\ d.menu = c.menu
      /\ d.now = c.now /\ d.phase = c.phase /\ d.cursor = c.cursor /\ d.job = c.job
      /\ d.found = c.found /\ d.loaded = c.loaded /\ d.answer = c.answer
  BY <1>6 DEF Fields
<1>9. IsCall(d)
  BY <1>3, <1>6, <1>7, <1>8 DEF IsCall
<1>10. Fresh(d)
  BY <1>3, <1>8, <1>9 DEF Fresh
<1>11. call' = d /\ d.phase = "running"
  BY <1>1, <1>10 DEF Begin, Fresh
<1> QED BY <1>1, <1>4, <1>8, <1>10, <1>11, BeginKeeps

\* A new call whose first strategy has hits to load already.
Starts(c, d, h) ==
  /\ Record(d) /\ d.kind = c.kind /\ d.tenant = c.tenant /\ d.entity = c.entity /\ d.menu = c.menu
  /\ d.seed = c.seed /\ d.phase = c.phase /\ d.cursor = c.cursor /\ d.loaded = c.loaded
  /\ d.answer = c.answer /\ d.now \in Nat
  /\ d.job = [c.job EXCEPT ![1] = "loading"] /\ d.found = [c.found EXCEPT ![1] = h]

\* A call that starts with a list of good hits is fresh.
LEMMA StartsFresh ==
  ASSUME NEW c, Fresh(c), NEW d, NEW h \in Seq(Hits), Starts(c, d, h), 1 \in DOMAIN c.menu,
         \A k \in DOMAIN h : /\ c.kind \in {"recall", "prime"} => Own(h[k].id)
                             /\ c.entity # None =>
                                  \/ h[k].id \in undone
                                  \/ \E v \in Versions(db) : v[1] = h[k].id /\ v[2].entity = c.entity
  PROVE  Fresh(d)
<1>1. IsCall(c)
  BY DEF Fresh
<1>2. /\ c.job \in [DOMAIN c.menu -> {"todo", "loading", "failed", "done"}]
      /\ c.found \in [DOMAIN c.menu -> Seq(Hits)]
  BY <1>1 DEF IsCall
<1>3. /\ d.job \in [DOMAIN c.menu -> {"todo", "loading", "failed", "done"}]
      /\ d.found \in [DOMAIN c.menu -> Seq(Hits)]
  BY <1>2 DEF Starts
<1>4. IsCall(d)
  BY <1>1, <1>3 DEF IsCall, Starts, Record
<1>5. ASSUME NEW n \in DOMAIN c.menu
      PROVE  /\ d.loaded[n] = <<>>
             /\ d.job[n] \in {"todo", "done", "failed"} => d.found[n] = <<>>
             /\ \A k \in DOMAIN d.found[n] :
                  /\ d.kind \in {"recall", "prime"} => Own(d.found[n][k].id)
                  /\ d.entity # None =>
                       \/ d.found[n][k].id \in undone
                       \/ \E v \in Versions(db) : v[1] = d.found[n][k].id /\ v[2].entity = d.entity
  <2>1. CASE n = 1
    <3>1. d.job[n] = "loading" /\ d.found[n] = h /\ d.loaded[n] = c.loaded[n]
      BY <1>2, <2>1 DEF Starts
    <3> QED BY <3>1 DEF Starts, Fresh
  <2>2. CASE n # 1
    <3>1. d.job[n] = c.job[n] /\ d.found[n] = c.found[n] /\ d.loaded[n] = c.loaded[n]
      BY <1>2, <2>2 DEF Starts
    <3> QED BY <3>1 DEF Starts, Fresh
  <2> QED BY <2>1, <2>2
<1> QED BY <1>4, <1>5 DEF Fresh, Starts

\* A list of hits scored by their place.
LEMMA PlacedHits ==
  ASSUME NEW C \in SUBSET Ids, NEW ids \in Seq(C)
  PROVE  /\ [k \in DOMAIN ids |-> Hit(ids[k], k)] \in Seq(Hits)
         /\ Len([k \in DOMAIN ids |-> Hit(ids[k], k)]) = Len(ids)
         /\ DOMAIN [k \in DOMAIN ids |-> Hit(ids[k], k)] = 1 .. Len(ids)
         /\ \A j \in DOMAIN [k \in DOMAIN ids |-> Hit(ids[k], k)] :
              [k \in DOMAIN ids |-> Hit(ids[k], k)][j].id = ids[j] /\ ids[j] \in C
<1> DEFINE h == [k \in DOMAIN ids |-> Hit(ids[k], k)]
<1>1. DOMAIN ids = 1 .. Len(ids) /\ Len(ids) \in Nat /\ \A k \in 1 .. Len(ids) : ids[k] \in C
  OBVIOUS
<1>2. h = [k \in DOMAIN ids |-> h[k]] /\ \A k \in DOMAIN ids : h[k].id = ids[k] /\ h[k] \in Hits
  BY <1>1 DEF Hit, Hits
<1> HIDE DEF h
<1>3. /\ h \in Seq(Hits) /\ Len(h) = Len(ids) /\ DOMAIN h = 1 .. Len(ids)
      /\ \A k \in DOMAIN h : h[k].id = ids[k] /\ h[k].id \in C
  BY <1>2, HitList
<1> QED BY <1>3 DEF h

\* The start of a listing of an entity keeps the invariant.
LEMMA ListKeeps ==
  ASSUME ReadsInv, NEW t \in Tenants, NEW e \in Entities, List(t, e)
  PROVE  ReadsInv' /\ call'.kind = "list"
<1> DEFINE C == InRange(e, 0, MaxIds + 1)
           ids == QueryTemporal(e, 0, MaxIds + 1, FALSE, TopK)
           h == [k \in DOMAIN ids |-> Hit(ids[k], k)]
           c == NewCall("list", t, e, <<"oldest">>)
           d == WithJob(c, 1, "loading", h)
<1>1. Begin(d)
  BY DEF List, WithJob
<1>2. <<"oldest">> \in Seq(Jobs) /\ e \in Entities \cup {None}
  BY DEF Jobs
<1>3. Fresh(c)
  BY <1>2, NewCallTyped
<1>4. c.kind = "list" /\ c.entity = e /\ c.menu = <<"oldest">>
  <2>1. NewParts(c, "list", t, e, <<"oldest">>)
    BY NewCallParts
  <2> QED BY <2>1 DEF NewParts
<1>5. Known(ids, C, e)
  <2>1. StoresTyped /\ Numbered /\ Indexed /\ TopK \in Nat /\ FALSE \in BOOLEAN
    BY Constants DEF ReadsInv
  <2> QED BY <2>1, QueryHits
<1> HIDE DEF C, ids, c
<1>6. C \in SUBSET Ids /\ ids \in Seq(C)
  BY <1>5 DEF Known
<1>7. h \in Seq(Hits) /\ \A k \in DOMAIN h : h[k].id \in C
  BY <1>6, PlacedHits
<1> HIDE DEF h
<1>8. JobSet(c, d, 1, "loading", h)
  BY <1>3, JobMoved DEF Fresh, IsCall, Record
<1> HIDE DEF d
<1>9. Starts(c, d, h)
  BY <1>3, <1>8 DEF JobSet, But, Starts, Fresh, IsCall, Fields
<1>10. Fresh(d)
  <2>1. 1 \in DOMAIN c.menu
    BY <1>4
  <2>2. \A k \in DOMAIN h : /\ c.kind \in {"recall", "prime"} => Own(h[k].id)
                            /\ c.entity # None =>
                                 \/ h[k].id \in undone
                                 \/ \E v \in Versions(db) : v[1] = h[k].id /\ v[2].entity = c.entity
    BY <1>4, <1>5, <1>7 DEF Known
  <2> QED BY <1>3, <1>7, <1>9, <2>1, <2>2, StartsFresh
<1>11. call' = d /\ d.kind = "list"
  BY <1>1, <1>4, <1>9 DEF Begin, Starts
<1> QED BY <1>1, <1>10, <1>11, BeginKeeps

\* The start of a batch get keeps the invariant.
LEMMA BatchKeeps ==
  ASSUME ReadsInv, NEW t \in Tenants, NEW ids \in Seq(Ids), Batch(t, ids)
  PROVE  ReadsInv' /\ call'.kind = "list"
<1> DEFINE h == [k \in DOMAIN ids |-> Hit(ids[k], k)]
           c == NewCall("list", t, None, <<"given">>)
           d == WithJob(c, 1, "loading", h)
<1>1. Begin(d)
  BY DEF Batch, WithJob
<1>2. <<"given">> \in Seq(Jobs)
  BY DEF Jobs
<1>3. Fresh(c)
  BY <1>2, NewCallTyped
<1>4. c.kind = "list" /\ c.entity = None /\ c.menu = <<"given">>
  <2>1. NewParts(c, "list", t, None, <<"given">>)
    BY NewCallParts
  <2> QED BY <2>1 DEF NewParts
<1> HIDE DEF c
<1>5. h \in Seq(Hits)
  <2>1. Ids \in SUBSET Ids
    OBVIOUS
  <2> QED BY <2>1, PlacedHits
<1> HIDE DEF h
<1>6. JobSet(c, d, 1, "loading", h)
  BY <1>3, JobMoved DEF Fresh, IsCall, Record
<1> HIDE DEF d
<1>7. Starts(c, d, h)
  BY <1>3, <1>6 DEF JobSet, But, Starts, Fresh, IsCall, Fields
<1>8. Fresh(d)
  <2>1. 1 \in DOMAIN c.menu
    BY <1>4
  <2> QED BY <1>3, <1>4, <1>5, <1>7, <2>1, StartsFresh
<1>9. call' = d /\ d.kind = "list"
  BY <1>1, <1>4, <1>7 DEF Begin, Starts
<1> QED BY <1>1, <1>8, <1>9, BeginKeeps

\* The start of a listing by pages keeps the invariant.
LEMMA PageKeeps ==
  ASSUME ReadsInv, NEW t \in Tenants, NEW e \in Entities \cup {None}, Page(t, e)
  PROVE  ReadsInv' /\ call'.kind = "page" /\ call'.answer = <<>> /\ call'.cursor = 0
         /\ call'.phase = "running"
<1> DEFINE c == NewCall("page", t, e, <<>>)
<1>1. Begin(c)
  BY DEF Page
<1>2. Fresh(c)
  <2>1. <<>> \in Seq(Jobs) /\ "page" \in {"recall", "prime", "list", "page"}
    OBVIOUS
  <2> QED BY <2>1, NewCallTyped
<1>3. NewParts(c, "page", t, e, <<>>)
  BY NewCallParts
<1> HIDE DEF c
<1>4. call' = c
  BY <1>1 DEF Begin
<1> QED BY <1>1, <1>2, <1>3, <1>4, BeginKeeps DEF NewParts

\* The shares of prime.
LEMMA LimitsNat == TemporalLimit \in Nat /\ SimilarLimit \in Nat /\ TemporalLimit <= PrimeMax
<1>1. PrimeMax \in Nat
  BY Constants
<1>2. PrimeMax \div 2 \in Nat /\ PrimeMax \div 2 <= PrimeMax
  BY <1>1
<1> QED BY <1>1, <1>2 DEF TemporalLimit, SimilarLimit

\* What prime starts with.
Primes(t, e, now, ids) ==
  /\ call'.kind = "prime" /\ call'.tenant = t /\ call'.entity = e /\ call'.now = now
  /\ call'.menu = <<"recent", "whole">> /\ call'.phase = "running"
  /\ DOMAIN call'.found = 1 .. 2 /\ call'.found[2] = <<>>
  /\ call'.loaded[1] = <<>> /\ call'.loaded[2] = <<>>
  /\ call'.job[1] = "loading" /\ call'.job[2] = "todo"
  /\ call'.found[1] \in Seq(Hits) /\ Len(call'.found[1]) = Len(ids)
  /\ \A k \in 1 .. Len(ids) : call'.found[1][k].id = ids[k]

\* The start of prime keeps the invariant.
LEMMA PrimeKeeps ==
  ASSUME ReadsInv, NEW t \in Tenants, NEW e \in Entities, NEW now \in 1 .. MaxIds + 1, Prime(t, e, now)
  PROVE  ReadsInv' /\ Primes(t, e, now, QueryTemporal(e, now - Window, now, TRUE, TemporalLimit))
<1> DEFINE C == InRange(e, now - Window, now)
           ids == QueryTemporal(e, now - Window, now, TRUE, TemporalLimit)
           h == [k \in DOMAIN ids |-> Hit(ids[k], k)]
           menu == <<"recent", "whole">>
           c == NewCall("prime", t, e, menu)
           d == [c EXCEPT !.now = now, !.known = created, !.job[1] = "loading", !.found[1] = h]
<1>1. Begin(d)
  BY DEF Prime
<1>2. menu \in Seq(Jobs) /\ e \in Entities \cup {None} /\ DOMAIN menu = 1 .. 2 /\ 1 \in DOMAIN menu
      /\ "prime" \in {"recall", "prime", "list", "page"}
  BY DEF Jobs
<1>3. Fresh(c)
  <2> HIDE DEF menu
  <2> QED BY <1>2, NewCallTyped
<1>4. NewParts(c, "prime", t, e, menu)
  BY NewCallParts
<1>5. Known(ids, C, e)
  <2>1. StoresTyped /\ Numbered /\ Indexed /\ TemporalLimit \in Nat /\ TRUE \in BOOLEAN
    BY LimitsNat DEF ReadsInv
  <2> QED BY <2>1, QueryHits
<1> HIDE DEF C, ids, c
<1>6. C \in SUBSET Ids /\ ids \in Seq(C)
  BY <1>5 DEF Known
<1>7. h \in Seq(Hits) /\ Len(h) = Len(ids) /\ DOMAIN h = 1 .. Len(ids)
      /\ \A k \in DOMAIN h : h[k].id = ids[k] /\ h[k].id \in C
  BY <1>6, PlacedHits
<1> HIDE DEF h
<1>8. c = [f \in Fields |-> c[f]]
  BY <1>4 DEF NewParts, Record
<1>9. /\ d = [f \in Fields |-> d[f]]
      /\ \A f \in Fields \ {"now", "known", "job", "found"} : d[f] = c[f]
  BY <1>8 DEF Fields
<1>10. /\ d.now = now /\ d.job = [c.job EXCEPT ![1] = "loading"] /\ d.found = [c.found EXCEPT ![1] = h]
  BY <1>8 DEF Fields
<1> HIDE DEF d, menu
<1>11. now \in Nat
  BY Constants
<1>12. Starts(c, d, h)
  BY <1>9, <1>10, <1>11 DEF Starts, Record, Fields
<1>13. c.kind = "prime" /\ c.tenant = t /\ c.entity = e /\ c.menu = menu /\ c.phase = "running"
       /\ c.job = [n \in DOMAIN menu |-> "todo"] /\ c.found = [n \in DOMAIN menu |-> <<>>]
       /\ c.loaded = [n \in DOMAIN menu |-> <<>>]
  BY <1>4 DEF NewParts
<1>14. Fresh(d)
  <2>1. \A k \in DOMAIN h : /\ c.kind \in {"recall", "prime"} => Own(h[k].id)
                            /\ c.entity # None =>
                                 \/ h[k].id \in undone
                                 \/ \E v \in Versions(db) : v[1] = h[k].id /\ v[2].entity = c.entity
    BY <1>5, <1>7, <1>13 DEF Known
  <2>2. 1 \in DOMAIN c.menu
    BY <1>2, <1>13
  <2> QED BY <1>3, <1>7, <1>12, <2>1, <2>2, StartsFresh
<1>15. ReadsInv' /\ call' = d
  BY <1>1, <1>14, BeginKeeps DEF Begin
<1>16. /\ DOMAIN d.found = 1 .. 2 /\ d.found[2] = <<>> /\ d.found[1] = h
       /\ d.loaded[1] = <<>> /\ d.loaded[2] = <<>> /\ d.job[1] = "loading" /\ d.job[2] = "todo"
  BY <1>2, <1>10, <1>12, <1>13 DEF Starts
<1>17. Primes(t, e, now, ids)
  BY <1>7, <1>10, <1>12, <1>13, <1>15, <1>16 DEF Primes, Starts, menu
<1> QED BY <1>15, <1>17 DEF ids

\* The end of a call.
LEMMA ReturnKeeps ==
  ASSUME ReadsInv, Return
  PROVE  ReadsInv' /\ call' = Idle
<1>1. /\ call' = Idle /\ during' = {} /\ always' = {} /\ db' = db /\ temporal' = temporal
      /\ graph' = graph /\ vectors' = vectors /\ assoc' = assoc /\ assocKeys' = assocKeys
      /\ created' = created /\ undone' = undone
  BY DEF Return, stores
<1>2. StoresTyped' /\ CallTyped' /\ Indexed' /\ ReadsTrue'
  BY <1>1 DEF ReadsInv, StoresTyped, CallTyped, Indexed, ReadsTrue, Snapshot, Entry
<1>3. Numbered'
  BY <1>1 DEF ReadsInv, Numbered, Tracked, Own, Stored
<1> QED BY <1>1, <1>2, <1>3 DEF ReadsInv

-----------------------------------------------------------------------------
(* Answers                                                                 *)

\* Max of a finite set of numbers.
LEMMA MaxOf ==
  ASSUME NEW C \in SUBSET Int, IsFiniteSet(C), C # {}
  PROVE  Max(C) \in C /\ \A y \in C : Max(C) >= y
<1>1. \E x \in C : \A y \in C : x >= y
  BY GreatestMember
<1> QED BY <1>1 DEF Max

\* A step that only answers keeps what is true if its answer is.
LEMMA AnsweringKeeps ==
  ASSUME ReadsInv, call # Idle, Quiet, But(call, call', {"phase", "answer", "cursor"}),
         call'.phase \in {"running", "answered", "failed"}, call'.cursor \in Nat,
         call.phase = "running",
         NEW a \in Seq(Loads), call'.answer = a, \A k \in DOMAIN a : TrueResult(a[k])
  PROVE  ReadsInv' /\ Same(call, call') /\ IsCall(call')
<1>1. IsCall(call) /\ ReadsTrue
  BY DEF ReadsInv, CallTyped
<1>2. /\ Same(call, call') /\ Record(call') /\ call'.job = call.job /\ call'.found = call.found
      /\ call'.loaded = call.loaded
  BY DEF But, Same, Fields
<1>3. IsCall(call')
  <2>1. /\ call'.job \in [DOMAIN call.menu -> {"todo", "loading", "failed", "done"}]
        /\ call'.found \in [DOMAIN call.menu -> Seq(Hits)] /\ call'.loaded \in [DOMAIN call.menu -> Seq(Loads)]
        /\ call'.answer \in Seq(Loads)
    BY <1>1, <1>2 DEF IsCall
  <2> QED BY <1>1, <1>2, <2>1, StillCall
<1>4. /\ \A m : \A x \in Hits : TrueHit(m, x) => TrueHit(m, x)'
      /\ \A r : TrueResult(r) => TrueResult(r)'
  BY <1>2, QuietTruth
<1>5. ASSUME NEW m \in DOMAIN call.menu PROVE StrategyTrue(m)'
  <2>1. StrategyTrue(m)
    BY <1>1 DEF ReadsTrue, StrategyTrue
  <2>2. call.found[m] \in Seq(Hits)
    BY <1>1 DEF IsCall
  <2>3. \A k \in DOMAIN call.found[m] : call.found[m][k] \in Hits
    BY <2>2
  <2> QED BY <1>2, <1>4, <2>1, <2>3 DEF StrategyTrue
<1>6. (\A k \in DOMAIN call.answer : TrueResult(call.answer[k]))'
  BY <1>4
<1>7. Versions(db)' \subseteq during'
  BY <1>1 DEF Quiet, stores, Versions, Stored, ReadsTrue
<1>8. ReadsTrue'
  BY <1>2, <1>5, <1>6, <1>7 DEF ReadsTrue, StrategyTrue, Same
<1>9. StoresTyped' /\ Numbered' /\ Indexed' /\ CallTyped'
  BY <1>3, QuietKeeps DEF CallTyped
<1> QED BY <1>2, <1>3, <1>8, <1>9 DEF ReadsInv

\* Where an answer names an id last.
LEMMA LastNamed ==
  ASSUME NEW a \in Seq(Loads), NEW k \in DOMAIN a
  PROVE  /\ Max({j \in DOMAIN a : a[j].id = a[k].id}) \in DOMAIN a
         /\ a[Max({j \in DOMAIN a : a[j].id = a[k].id})].id = a[k].id
<1> DEFINE C == {j \in DOMAIN a : a[j].id = a[k].id}
<1>1. k \in C /\ DOMAIN a = 1 .. Len(a) /\ Len(a) \in Nat
  OBVIOUS
<1>2. C \in SUBSET (1 .. Len(a))
  BY <1>1
<1> HIDE DEF C
<1>3. IsFiniteSet(C) /\ C # {} /\ C \in SUBSET Int
  BY <1>1, <1>2, PositionsFinite
<1>4. Max(C) \in C
  BY <1>3, MaxOf
<1> QED BY <1>4 DEF C

\* What a write-back leaves: each memory as it was, or as the answer has it, which undoes
\* whatever happened to it since.
LEMMA ReinforceParts ==
  ASSUME NEW a \in Seq(Loads), Reinforce(a)
  PROVE  /\ db' = [i \in Ids |-> db'[i]]
         /\ undone \subseteq undone' /\ undone' \subseteq undone \cup {a[k].id : k \in DOMAIN a}
         /\ \A i \in Ids : \/ db'[i] = db[i]
                           \/ \E k \in DOMAIN a : a[k].id = i /\ db'[i] = a[k].memory
         /\ \A i \in Ids \ undone' : db'[i] = db[i]
<1> DEFINE last(i) == Max({k \in DOMAIN a : a[k].id = i})
           ids == {a[k].id : k \in DOMAIN a}
<1>1. /\ db' = [i \in Ids |-> IF i \in ids THEN a[last(i)].memory ELSE db[i]]
      /\ undone' = undone \cup {i \in ids : db[i] # a[last(i)].memory}
  BY DEF Reinforce
<1>2. \A i \in ids : last(i) \in DOMAIN a /\ a[last(i)].id = i
  BY LastNamed
<1> HIDE DEF last, ids
<1>3. \A i \in Ids : \/ db'[i] = db[i]
                     \/ \E k \in DOMAIN a : a[k].id = i /\ db'[i] = a[k].memory
  BY <1>1, <1>2
<1>4. \A i \in Ids \ undone' : db'[i] = db[i]
  BY <1>1
<1> QED BY <1>1, <1>3, <1>4 DEF ids

\* An answer that is true and of primary memories may be written back.
LEMMA AnswerKeeps ==
  ASSUME ReadsInv, call # Idle, call.phase = "running", Primary, NEW a \in Seq(Loads), Answer(a),
         \A k \in DOMAIN a : TrueResult(a[k])
  PROVE  ReadsInv' /\ AnswerSet(call, call', "answered", a)
<1>1. IsCall(call) /\ ReadsTrue /\ StoresTyped /\ Numbered /\ Indexed /\ CallTyped /\ Record(call)
  BY DEF ReadsInv, CallTyped, IsCall, Record
<1>2. /\ temporal' = temporal /\ graph' = graph /\ vectors' = vectors /\ assoc' = assoc
      /\ assocKeys' = assocKeys /\ created' = created /\ during' = during /\ always' = always
      /\ call' = WithAnswer(call, "answered", a)
  BY DEF Answer, WithAnswer
<1>3. AnswerSet(call, call', "answered", a)
  BY <1>1, <1>2, AnswerMoved
<1>4. /\ db' = [i \in Ids |-> db'[i]]
      /\ undone \subseteq undone' /\ undone' \subseteq undone \cup {a[k].id : k \in DOMAIN a}
      /\ \A i \in Ids : \/ db'[i] = db[i]
                        \/ \E k \in DOMAIN a : a[k].id = i /\ db'[i] = a[k].memory
      /\ \A i \in Ids \ undone' : db'[i] = db[i]
  BY ReinforceParts DEF Answer
<1>5. \A k \in DOMAIN a : /\ a[k].id \in Ids /\ a[k].memory \in Memory /\ a[k].memory.at = a[k].id
                          /\ <<a[k].id, a[k].memory>> \in during /\ a[k].id <= created
  <2> SUFFICES ASSUME NEW k \in DOMAIN a
               PROVE  /\ a[k].id \in Ids /\ a[k].memory \in Memory /\ a[k].memory.at = a[k].id
                      /\ <<a[k].id, a[k].memory>> \in during /\ a[k].id <= created
    OBVIOUS
  <2>1. a[k] \in Loads /\ TrueResult(a[k])
    OBVIOUS
  <2>2. a[k].memory.at = a[k].id /\ <<a[k].id, a[k].memory>> \in during
    BY <2>1 DEF TrueResult
  <2>3. <<a[k].id, a[k].memory>>[1] <= created
    BY <1>1, <2>2 DEF Numbered
  <2> QED BY <2>1, <2>2, <2>3 DEF Loads
<1>6. StoresTyped'
  <2>1. db' \in [Ids -> Memory \cup {None}]
    BY <1>1, <1>4, <1>5 DEF StoresTyped
  <2>2. undone' \subseteq Ids
    <3>1. {a[k].id : k \in DOMAIN a} \subseteq Ids
      BY <1>5
    <3> QED BY <1>1, <1>4, <3>1 DEF StoresTyped
  <2> QED BY <1>1, <1>2, <2>1, <2>2 DEF StoresTyped
<1>7. \A i \in Ids : Own(i) => Own(i)'
  <2> SUFFICES ASSUME NEW i \in Ids, Own(i) PROVE Own(i)'
    OBVIOUS
  <2>1. CASE db'[i] = db[i]
    BY <1>2, <2>1 DEF Own
  <2>2. CASE \E k \in DOMAIN a : a[k].id = i /\ db'[i] = a[k].memory
    BY <1>2, <1>5, <2>2 DEF Own
  <2> QED BY <1>4, <2>1, <2>2
<1>8. Numbered'
  <2>1. \A i \in Stored(db)' : i <= created' /\ db'[i].at <= i
    <3> SUFFICES ASSUME NEW i \in Ids, db'[i] # None PROVE i <= created' /\ db'[i].at <= i
      BY DEF Stored
    <3>1. CASE db'[i] = db[i]
      BY <1>1, <1>2, <3>1 DEF Numbered, Stored
    <3>2. CASE \E k \in DOMAIN a : a[k].id = i /\ db'[i] = a[k].memory
      <4>1. PICK k \in DOMAIN a : a[k].id = i /\ db'[i] = a[k].memory
        BY <3>2
      <4>2. i <= created /\ db'[i].at = i /\ i \in Nat
        BY <1>5, <4>1, Constants
      <4> QED BY <1>2, <4>2
    <3> QED BY <1>4, <3>1, <3>2
  <2>2. Tracked' = Tracked /\ Tracked \subseteq Ids
    BY <1>1, <1>2, TrackedMembers DEF Tracked
  <2>3. \A i \in Tracked' : Own(i)'
    BY <1>1, <1>7, <2>2 DEF Numbered
  <2> QED BY <1>1, <1>2, <2>1, <2>3 DEF Numbered
<1>9. Indexed'
  BY <1>1, <1>2, <1>4 DEF Indexed, Snapshot, Entry
<1>10. /\ Same(call, call') /\ Record(call') /\ call'.job = call.job /\ call'.found = call.found
       /\ call'.loaded = call.loaded /\ call'.cursor = call.cursor /\ call'.answer = a
       /\ call'.phase = "answered"
  BY <1>3 DEF AnswerSet, But, Same, Fields
<1>11. IsCall(call')
  <2>1. /\ call'.job \in [DOMAIN call.menu -> {"todo", "loading", "failed", "done"}]
        /\ call'.found \in [DOMAIN call.menu -> Seq(Hits)] /\ call'.loaded \in [DOMAIN call.menu -> Seq(Loads)]
        /\ call'.answer \in Seq(Loads) /\ call'.cursor \in Nat
    BY <1>1, <1>10 DEF IsCall
  <2> QED BY <1>1, <1>10, <2>1, StillCall
<1>12. CallTyped'
  BY <1>1, <1>2, <1>11 DEF CallTyped
<1>13. /\ \A m : \A x \in Hits : TrueHit(m, x) => TrueHit(m, x)'
       /\ \A r : TrueResult(r) => TrueResult(r)'
  BY <1>2, <1>4, <1>7, <1>10, TruthGrows
<1>14. ASSUME NEW m \in DOMAIN call.menu PROVE StrategyTrue(m)'
  <2>1. StrategyTrue(m)
    BY <1>1 DEF ReadsTrue, StrategyTrue
  <2>2. call.found[m] \in Seq(Hits)
    BY <1>1 DEF IsCall
  <2>3. \A k \in DOMAIN call.found[m] : call.found[m][k] \in Hits
    BY <2>2
  <2> QED BY <1>10, <1>13, <2>1, <2>3 DEF StrategyTrue
<1>15. (\A k \in DOMAIN call.answer : TrueResult(call.answer[k]))'
  BY <1>10, <1>13
<1>16. ReadsTrue'
  BY <1>10, <1>14, <1>15 DEF ReadsTrue, StrategyTrue, Same
<1> QED BY <1>3, <1>6, <1>8, <1>9, <1>12, <1>16 DEF ReadsInv

\* A step of prime that scans the whole index, or fails.
Scanned ==
  \/ But(call, call', {"phase"}) /\ call'.phase = "failed"
  \/ /\ But(call, call', {"job", "found"}) /\ call.job = <<"done", "todo">>
     /\ call'.job = [call.job EXCEPT ![2] = "loading"]
     /\ \E h \in Seq(Hits) : Falling(h) /\ call'.found = [call.found EXCEPT ![2] = h]

\* The second query of prime keeps the invariant.
LEMMA PrimeScanMoves ==
  ASSUME ReadsInv, call # Idle, NEW embeds \in BOOLEAN, PrimeScan(embeds)
  PROVE  ReadsInv' /\ Quiet /\ Same(call, call') /\ IsCall(call') /\ Scanned
<1>1. /\ IsCall(call) /\ Record(call) /\ DOMAIN call.job = DOMAIN call.menu
      /\ call.kind = "prime" /\ call.phase = "running" /\ call.job = <<"done", "todo">>
  BY DEF ReadsInv, CallTyped, IsCall, Record, PrimeScan
<1>2. Quiet /\ 2 \in DOMAIN call.job /\ call.job[2] = "todo"
  BY <1>1 DEF PrimeScan, Quiet
<1> DEFINE C == InRange(call.entity, 0, call.now)
           ids == QueryTemporal(call.entity, 0, call.now, TRUE, MaxIds)
           h == [k \in DOMAIN ids |-> Hit(ids[k], 0)]
<1>3. call' = [call EXCEPT !.phase = "failed"] \/ SetJob(2, "loading", h)
  BY DEF PrimeScan
<1>4. CASE call' = [call EXCEPT !.phase = "failed"]
  <2>1. call = [f \in Fields |-> call[f]]
    BY <1>1 DEF IsCall
  <2>2. /\ call' = [f \in Fields |-> call'[f]] /\ call'.phase = "failed"
        /\ \A f \in Fields \ {"phase"} : call'[f] = call[f]
    BY <1>4, <2>1 DEF Fields
  <2>3. But(call, call', {"phase"})
    BY <2>2 DEF But, Record
  <2>4. But(call, call', {"phase", "answer", "cursor"})
    BY <2>2 DEF But, Record
  <2>5. call'.answer = call.answer /\ call'.cursor = call.cursor
    BY <2>2 DEF Fields
  <2>6. call.answer \in Seq(Loads) /\ call.cursor \in Nat
        /\ \A k \in DOMAIN call.answer : TrueResult(call.answer[k])
    BY <1>1 DEF ReadsInv, ReadsTrue, IsCall
  <2>7. ReadsInv' /\ Same(call, call') /\ IsCall(call')
    BY <1>1, <1>2, <2>2, <2>4, <2>5, <2>6, AnsweringKeeps
  <2> QED BY <1>2, <2>2, <2>3, <2>7 DEF Scanned
<1>5. CASE SetJob(2, "loading", h)
  <2>1. StoresTyped /\ Numbered /\ Indexed /\ MaxIds \in Nat /\ TRUE \in BOOLEAN
    BY Constants DEF ReadsInv
  <2>2. Known(ids, C, call.entity)
    BY <2>1, QueryHits
  <2>3. C \in SUBSET Ids /\ ids \in Seq(C)
    BY <2>2 DEF Known
  <2>4. Cut(ids, C, Above, MaxIds)
    BY <2>1, QueryCuts
  <2>5. Versions(db) \subseteq during
    BY <1>1 DEF ReadsInv, ReadsTrue
  <2>6. \A i \in C : Own(i) /\ Had(i)
    BY <2>2, <2>5 DEF Known, Had
  <2> HIDE DEF C, ids
  <2>7. \A k \in DOMAIN ids : ids[k] \in Ids
    BY <2>3
  <2>8. h = [k \in DOMAIN ids |-> h[k]] /\ \A k \in DOMAIN ids : h[k].id = ids[k] /\ h[k] \in Hits
    BY <2>7 DEF Hit, Hits
  <2> HIDE DEF h
  <2>9. h \in Seq(Hits) /\ DOMAIN h = 1 .. Len(ids)
        /\ \A k \in DOMAIN h : h[k].id = ids[k] /\ h[k].id \in C
    BY <2>3, <2>8, HitList
  <2>10. \A k \in DOMAIN h : TrueHit(2, h[k])
    BY <2>6, <2>9 DEF TrueHit
  <2>11. Falling(h)
    <3>1. \A a, b \in 1 .. Len(ids) : a < b => ids[a] > ids[b]
      BY <2>4 DEF Cut, Above
    <3> QED BY <2>9, <3>1 DEF Falling
  <2>12. But(call, call', {"job", "found"}) /\ call'.job = [call.job EXCEPT ![2] = "loading"]
         /\ call'.found = [call.found EXCEPT ![2] = h]
    <3>1. call' = WithJob(call, 2, "loading", h)
      BY <1>5 DEF SetJob, WithJob
    <3>2. JobSet(call, call', 2, "loading", h)
      BY <1>1, <3>1, JobMoved
    <3> QED BY <3>2 DEF JobSet
  <2>13. But(call, call', {"job", "found", "loaded"}) /\ call'.loaded = call.loaded
    BY <2>12 DEF But, Fields
  <2>14. call.loaded \in [DOMAIN call.menu -> Seq(Loads)] /\ 2 \in DOMAIN call.menu
    BY <1>1, <1>2 DEF IsCall
  <2>15. call'.loaded = [call.loaded EXCEPT ![2] = call.loaded[2]] /\ call.loaded[2] \in Seq(Loads)
    BY <2>13, <2>14
  <2>16. \A k \in DOMAIN call.loaded[2] : TrueResult(call.loaded[2][k])
    BY <2>14 DEF ReadsInv, ReadsTrue
  <2>17. MovesOn(2, "loading", h, call.loaded[2])
    BY <2>9, <2>10, <2>12, <2>15, <2>16 DEF MovesOn
  <2>18. ReadsInv' /\ Same(call, call') /\ IsCall(call')
    BY <1>2, <2>13, <2>17, GoesOnKeeps
  <2>19. Scanned
    BY <1>1, <2>9, <2>11, <2>12 DEF Scanned
  <2> QED BY <1>2, <2>18, <2>19
<1> QED BY <1>3, <1>4, <1>5

\* The answer of a listing keeps the invariant.
LEMMA ListedMoves ==
  ASSUME ReadsInv, call # Idle, Listed
  PROVE  ReadsInv' /\ Quiet /\ Same(call, call') /\ call.kind = "list"
<1>1. /\ IsCall(call) /\ Record(call) /\ DOMAIN call.job = DOMAIN call.menu
      /\ call.kind = "list" /\ call.phase = "running" /\ call.job = <<"done">>
      /\ call' = WithAnswer(call, "answered", call.loaded[1]) /\ Quiet
  BY DEF ReadsInv, CallTyped, IsCall, Record, Listed, WithAnswer, Quiet
<1>2. 1 \in DOMAIN call.menu
  BY <1>1
<1>3. call.loaded[1] \in Seq(Loads) /\ \A k \in DOMAIN call.loaded[1] : TrueResult(call.loaded[1][k])
  BY <1>1, <1>2 DEF IsCall, ReadsInv, ReadsTrue
<1>4. AnswerSet(call, call', "answered", call.loaded[1])
  BY <1>1, AnswerMoved
<1>5. /\ But(call, call', {"phase", "answer", "cursor"}) /\ call'.cursor = call.cursor
      /\ call'.phase = "answered" /\ call'.answer = call.loaded[1]
  BY <1>4 DEF AnswerSet, But, Fields
<1>6. call.cursor \in Nat
  BY <1>1 DEF IsCall
<1> QED BY <1>1, <1>3, <1>5, <1>6, AnsweringKeeps

\* What a page may show, and its rows.
Rest == {i \in Ids : i > call.cursor /\ Matches(Load(call.tenant, i))}
Rows(page) == [k \in DOMAIN page |-> [id |-> page[k], memory |-> db[page[k]], relevance |-> 0]]

\* A page is the start of what is left.
Turns(page, limit) ==
  /\ call.kind = "page" /\ call.phase = "running" /\ limit \in Nat \ {0}
  /\ Cut(page, Rest, Under, limit)
  /\ PageSet(call, call', call.answer \o Rows(page),
             IF page = <<>> THEN call.cursor ELSE Last(page),
             IF Len(page) < limit THEN "answered" ELSE call.phase)

\* Its rows are true results.
LEMMA RowsTrue ==
  ASSUME ReadsInv, call # Idle, call.phase = "running", call.kind = "page", NEW page \in Seq(Rest)
  PROVE  /\ Rows(page) \in Seq(Loads) /\ DOMAIN Rows(page) = 1 .. Len(page) /\ Len(page) \in Nat
         /\ \A k \in DOMAIN Rows(page) : TrueResult(Rows(page)[k]) /\ Rows(page)[k].id = page[k]
<1> DEFINE r == Rows(page)
<1>1. Len(page) \in Nat /\ DOMAIN page = 1 .. Len(page) /\ \A k \in 1 .. Len(page) : page[k] \in Rest
  OBVIOUS
<1>2. \A i \in Rest : /\ i \in Ids /\ db[i] \in Memory /\ db[i].tenant = call.tenant
                      /\ <<i, db[i]>> \in during
                      /\ call.entity # None => db[i].entity = call.entity
  <2> SUFFICES ASSUME NEW i \in Rest
               PROVE  /\ i \in Ids /\ db[i] \in Memory /\ db[i].tenant = call.tenant
                      /\ <<i, db[i]>> \in during
                      /\ call.entity # None => db[i].entity = call.entity
    OBVIOUS
  <2>1. i \in Ids /\ Load(call.tenant, i) # None
        /\ (call.entity = None \/ Load(call.tenant, i).entity = call.entity)
    BY DEF Rest, Matches
  <2>2. /\ Load(call.tenant, i) = db[i] /\ db[i] # None /\ db[i] \in Memory /\ db[i].tenant = call.tenant
        /\ <<i, db[i]>> \in Versions(db)
    BY <2>1, LoadParts DEF ReadsInv
  <2>3. Versions(db) \subseteq during
    BY DEF ReadsInv, ReadsTrue
  <2> QED BY <2>1, <2>2, <2>3
<1>3. DOMAIN r = 1 .. Len(page)
      /\ \A k \in 1 .. Len(page) : r[k] = [id |-> page[k], memory |-> db[page[k]], relevance |-> 0]
  BY <1>1 DEF Rows
<1>4. r = [k \in 1 .. Len(page) |-> r[k]]
  BY <1>1 DEF Rows
<1> HIDE DEF r
<1>5. \A k \in 1 .. Len(page) : r[k] \in Loads
  <2>1. \A i \in Rest : [id |-> i, memory |-> db[i], relevance |-> 0] \in Loads
    BY <1>2 DEF Loads
  <2>2. \A k \in 1 .. Len(page) : page[k] \in Rest
    BY <1>1
  <2> QED BY <1>3, <2>1, <2>2
<1>6. r \in [1 .. Len(page) -> Loads]
  BY <1>4, <1>5
<1>7. r \in Seq(Loads)
  BY <1>1, <1>6
<1>8. ASSUME NEW k \in 1 .. Len(page) PROVE TrueResult(r[k]) /\ r[k].id = page[k]
  <2>1. r[k].id = page[k] /\ r[k].memory = db[page[k]] /\ page[k] \in Rest
    BY <1>1, <1>3
  <2>2. r[k].memory.tenant = call.tenant /\ <<r[k].id, r[k].memory>> \in during
    BY <1>2, <2>1
  <2>3. call.entity # None => Had(r[k].id)
    <3> SUFFICES ASSUME call.entity # None PROVE Had(page[k])
      BY <2>1
    <3>1. <<page[k], db[page[k]]>> \in during /\ db[page[k]].entity = call.entity
      BY <1>2, <2>1
    <3>2. <<page[k], db[page[k]]>>[1] = page[k] /\ <<page[k], db[page[k]]>>[2].entity = call.entity
      BY <3>1
    <3> QED BY <3>1, <3>2 DEF Had
  <2>4. ~Primary
    BY DEF Primary
  <2> QED BY <2>1, <2>2, <2>3, <2>4 DEF TrueResult
<1> QED BY <1>1, <1>3, <1>7, <1>8 DEF r

\* The next page keeps the invariant.
LEMMA NextPageMoves ==
  ASSUME ReadsInv, call # Idle, NEW limit \in {1, TopK}, NextPage(limit)
  PROVE  /\ ReadsInv' /\ Quiet /\ Same(call, call') /\ IsCall(call')
         /\ \E page : Turns(page, limit)
<1> DEFINE page == Truncate(Ascending(Rest), limit)
           u == IF page = <<>> THEN call.cursor ELSE Last(page)
           p == IF Len(page) < limit THEN "answered" ELSE call.phase
           a == call.answer \o Rows(page)
<1>1. /\ IsCall(call) /\ Record(call) /\ call.kind = "page" /\ call.phase = "running" /\ Quiet
      /\ ReadsTrue
  BY DEF ReadsInv, CallTyped, IsCall, Record, NextPage, Quiet
<1>2. call' = WithPage(call, a, u, p)
  BY DEF NextPage, WithPage, Rest, Rows
<1>3. limit \in Nat \ {0}
  BY Constants
<1>4. Rest \subseteq Ids /\ Rest \in SUBSET Int /\ IsFiniteSet(Rest)
  <2>1. Rest \subseteq Ids
    BY DEF Rest
  <2> QED BY <2>1, IdsFinite, Constants
<1>5. Cut(page, Rest, Under, limit)
  <2>1. Goes(Ascending(Rest), Rest, {q \in Rest \X Rest : q[1] < q[2]})
    BY <1>4, AscendingGoes
  <2>2. Cut(page, Rest, {q \in Rest \X Rest : q[1] < q[2]}, limit)
    BY <1>3, <2>1, TruncateCuts
  <2>3. {q \in Rest \X Rest : q[1] < q[2]} \subseteq Under
    BY <1>4 DEF Under
  <2> HIDE DEF page
  <2> QED BY <2>2, <2>3 DEF Cut
<1> HIDE DEF page
<1>6. page \in Seq(Rest)
  BY <1>5 DEF Cut
<1>7. /\ Rows(page) \in Seq(Loads) /\ DOMAIN Rows(page) = 1 .. Len(page) /\ Len(page) \in Nat
      /\ \A k \in DOMAIN Rows(page) : TrueResult(Rows(page)[k]) /\ Rows(page)[k].id = page[k]
  BY <1>1, <1>6, RowsTrue
<1>8. call.answer \in Seq(Loads) /\ \A k \in DOMAIN call.answer : TrueResult(call.answer[k])
  BY <1>1 DEF IsCall, ReadsTrue
<1>9. a \in Seq(Loads) /\ \A k \in DOMAIN a : TrueResult(a[k])
  <2> DEFINE r == Rows(page)
             b == call.answer
  <2>1. r \in Seq(Loads) /\ b \in Seq(Loads) /\ \A k \in DOMAIN r : TrueResult(r[k])
    BY <1>7, <1>8
  <2>2. \A k \in DOMAIN b : TrueResult(b[k])
    BY <1>8
  <2> HIDE DEF r, b
  <2>3. b \o r \in Seq(Loads)
        /\ \A k \in DOMAIN (b \o r) : \/ k \in DOMAIN b /\ (b \o r)[k] = b[k]
                                      \/ k - Len(b) \in DOMAIN r /\ (b \o r)[k] = r[k - Len(b)]
    BY <2>1
  <2>4. b \o r \in Seq(Loads) /\ \A k \in DOMAIN (b \o r) : TrueResult((b \o r)[k])
    BY <2>1, <2>2, <2>3
  <2> QED BY <2>4 DEF r, b
<1>10. u \in Nat
  <2>1. call.cursor \in Nat
    BY <1>1 DEF IsCall
  <2>2. ASSUME page # <<>> PROVE Last(page) \in Nat
    <3>1. Last(page) = page[Len(page)] /\ Len(page) \in 1 .. Len(page)
      BY <1>6, <2>2 DEF Last
    <3>2. Last(page) \in Rest
      BY <1>6, <3>1
    <3> QED BY <1>4, <3>2, Constants
  <2> QED BY <2>1, <2>2
<1>11. p \in {"running", "answered", "failed"}
  BY <1>1
<1> HIDE DEF a, u, p
<1>12. PageSet(call, call', a, u, p)
  BY <1>1, <1>2, PageMoved
<1>13. /\ But(call, call', {"phase", "answer", "cursor"}) /\ call'.cursor = u
       /\ call'.phase = p /\ call'.answer = a
  BY <1>12 DEF PageSet
<1>14. ReadsInv' /\ Same(call, call') /\ IsCall(call')
  BY <1>1, <1>9, <1>10, <1>11, <1>13, AnsweringKeeps
<1>15. Turns(page, limit)
  BY <1>1, <1>3, <1>5, <1>12 DEF Turns, a, u, p
<1> QED BY <1>1, <1>14, <1>15

-----------------------------------------------------------------------------
(* Merging and ranking                                                     *)

\* The results of an id, the first of them, and the result they merge to.
Of(i) == {p \in Results : Result(p).id = i}
First(i) == CHOOSE p \in Of(i) : \A o \in Of(i) : p[1] < o[1] \/ (p[1] = o[1] /\ p[2] <= o[2])
Merged(i) == [id |-> i, memory |-> Result(First(i)).memory,
              relevance |-> Max({Result(p).relevance : p \in Of(i)})]
Named == {Result(p).id : p \in Results}

\* Merging by id gives one result for each id named.
LEMMA MergeParts == MergeById(Results) = {Merged(i) : i \in Named}
BY DEF MergeById, Merged, First, Of, Named

\* It depends on what was loaded only.
LEMMA MergeSame ==
  ASSUME call'.loaded = call.loaded
  PROVE  MergeById(Results)' = MergeById(Results)
<1>1. Results' = Results /\ \A p : Result(p)' = Result(p)
  BY DEF Results, Result
<1>2. \A i : Of(i)' = Of(i)
  BY <1>1 DEF Of
<1>3. \A i : First(i)' = First(i)
  BY <1>2 DEF First
<1>4. \A i : {Result(p).relevance : p \in Of(i)}' = {Result(p).relevance : p \in Of(i)}
  BY <1>1, <1>2
<1>5. \A i : Merged(i)' = Merged(i)
  BY <1>1, <1>3, <1>4 DEF Merged
<1>6. Named' = Named
  BY <1>1 DEF Named
<1>7. MergeById(Results)' = {Merged(i)' : i \in Named'}
  BY DEF MergeById, Merged, First, Of, Named
<1> QED BY <1>5, <1>6, <1>7, MergeParts

\* A call has finitely many results, each of a strategy's list.
LEMMA ResultsFinite ==
  ASSUME IsCall(call)
  PROVE  /\ IsFiniteSet(Results) /\ Results \subseteq Nat \X Nat
         /\ \A p \in Results : /\ p[1] \in DOMAIN call.menu /\ p[2] \in DOMAIN call.loaded[p[1]]
                               /\ Result(p) \in Loads
<1>1. /\ call.menu \in Seq(Jobs) /\ call.loaded \in [DOMAIN call.menu -> Seq(Loads)]
      /\ DOMAIN call.loaded = DOMAIN call.menu
  BY DEF IsCall
<1>2. DOMAIN call.menu = 1 .. Len(call.menu) /\ Len(call.menu) \in Nat
  BY <1>1
<1> DEFINE D == DOMAIN call.menu
           P(n) == {<<n, k>> : k \in DOMAIN call.loaded[n]}
           f == [n \in D |-> P(n)]
<1>3. \A n \in D : IsFiniteSet(P(n))
  <2> SUFFICES ASSUME NEW n \in D PROVE IsFiniteSet(P(n))
    OBVIOUS
  <2> DEFINE E == DOMAIN call.loaded[n]
             g == [k \in E |-> <<n, k>>]
  <2>1. call.loaded[n] \in Seq(Loads)
    BY <1>1
  <2>2. E \in SUBSET (1 .. Len(call.loaded[n])) /\ Len(call.loaded[n]) \in Nat
    BY <2>1
  <2>3. P(n) = {g[k] : k \in E}
    OBVIOUS
  <2> HIDE DEF E, g
  <2>4. IsFiniteSet(E)
    BY <2>2, PositionsFinite
  <2> QED BY <2>3, <2>4, ImageFinite
<1>4. Results = UNION {P(n) : n \in D}
  BY <1>1 DEF Results
<1>5. IsFiniteSet(Results)
  <2>1. {P(n) : n \in D} = {f[n] : n \in D}
    OBVIOUS
  <2>2. D \in SUBSET (1 .. Len(call.menu))
    BY <1>2
  <2>3. \A T \in {P(n) : n \in D} : IsFiniteSet(T)
    BY <1>3
  <2> HIDE DEF P, f, D
  <2>4. IsFiniteSet(D)
    BY <1>2, <2>2, PositionsFinite
  <2>5. IsFiniteSet({P(n) : n \in D})
    BY <2>1, <2>4, ImageFinite
  <2> QED BY <1>4, <2>3, <2>5, FS_UNION
<1>6. ASSUME NEW p \in Results
      PROVE  /\ p[1] \in DOMAIN call.menu /\ p[2] \in DOMAIN call.loaded[p[1]]
             /\ Result(p) \in Loads /\ p \in Nat \X Nat
  <2>0. PICK n \in D : p \in P(n)
    BY <1>4
  <2>1. PICK k \in DOMAIN call.loaded[n] : p = <<n, k>>
    BY <2>0
  <2>2. call.loaded[n] \in Seq(Loads) /\ n \in Nat
    BY <1>1, <1>2
  <2>3. call.loaded[n][k] \in Loads /\ k \in Nat
    BY <2>2
  <2> QED BY <2>1, <2>2, <2>3 DEF Result
<1> QED BY <1>5, <1>6

\* An id's first result is one, and its result is of the right types.
LEMMA MergedParts ==
  ASSUME IsCall(call), NEW i \in Named
  PROVE  Merged(i) \in Loads /\ Merged(i).id = i
         /\ \E p \in Results : Result(p).id = i /\ Merged(i).memory = Result(p).memory
<1>1. /\ IsFiniteSet(Results) /\ Results \subseteq Nat \X Nat /\ \A p \in Results : Result(p) \in Loads
  BY ResultsFinite
<1>2. Of(i) \subseteq Results /\ Of(i) # {} /\ \A p \in Of(i) : Result(p).id = i
  BY DEF Of, Named
<1>3. First(i) \in Of(i)
  <2> DEFINE A == {p[1] : p \in Of(i)}
  <2>1. A \in SUBSET Nat /\ A # {}
    BY <1>1, <1>2
  <2>2. PICK n \in A : \A m \in A : n <= m
    <3> HIDE DEF A
    <3> QED BY <2>1, LeastMember
  <2> DEFINE B == {k \in Nat : <<n, k>> \in Of(i)}
  <2>3. B \in SUBSET Nat /\ B # {}
    <3>1. PICK p \in Of(i) : p[1] = n
      BY <2>2
    <3>2. p = <<p[1], p[2]>> /\ p[2] \in Nat
      BY <1>1, <1>2, <3>1
    <3>3. p[2] \in B
      BY <3>1, <3>2
    <3> QED BY <3>3
  <2>4. PICK k \in B : \A l \in B : k <= l
    <3> HIDE DEF B
    <3> QED BY <2>3, LeastMember
  <2>5. <<n, k>> \in Of(i)
    BY <2>4
  <2>6. ASSUME NEW o \in Of(i) PROVE n < o[1] \/ (n = o[1] /\ k <= o[2])
    <3>1. o[1] \in A /\ o = <<o[1], o[2]>> /\ o[1] \in Nat /\ o[2] \in Nat
      BY <1>1, <1>2
    <3>2. n <= o[1] /\ n \in Nat
      BY <2>1, <2>2, <3>1
    <3>3. CASE n = o[1]
      <4>1. o[2] \in B
        BY <3>1, <3>3
      <4> QED BY <2>4, <3>3, <4>1
    <3> QED BY <3>1, <3>2, <3>3
  <2>7. \E p \in Of(i) : \A o \in Of(i) : p[1] < o[1] \/ (p[1] = o[1] /\ p[2] <= o[2])
    <3>1. <<n, k>>[1] = n /\ <<n, k>>[2] = k
      OBVIOUS
    <3> QED BY <2>5, <2>6, <3>1
  <2> QED BY <2>7 DEF First
<1> DEFINE w == [p \in Of(i) |-> Result(p).relevance]
           C == {Result(p).relevance : p \in Of(i)}
<1>4. IsFiniteSet(C)
  <2>1. C = {w[p] : p \in Of(i)}
    OBVIOUS
  <2>2. IsFiniteSet(Of(i))
    BY <1>1, <1>2, FS_Subset
  <2> HIDE DEF C, w
  <2> QED BY <2>1, <2>2, ImageFinite
<1>5. C \in SUBSET Nat /\ C \in SUBSET Int /\ C # {}
  BY <1>1, <1>2 DEF Loads
<1> HIDE DEF C
<1>6. Max(C) \in Nat
  BY <1>4, <1>5, MaxOf
<1>7. Merged(i) = [id |-> i, memory |-> Result(First(i)).memory, relevance |-> Max(C)]
  BY DEF Merged, C
<1>8. Result(First(i)) \in Loads /\ Result(First(i)).id = i /\ First(i) \in Results
  BY <1>1, <1>2, <1>3
<1>9. Merged(i) \in Loads
  BY <1>6, <1>7, <1>8 DEF Loads
<1> QED BY <1>7, <1>8, <1>9

\* What a merge makes of true results is true.
LEMMA MergedTrue ==
  ASSUME ReadsInv, call # Idle
  PROVE  /\ IsFiniteSet(MergeById(Results)) /\ MergeById(Results) \subseteq Loads
         /\ \A r \in MergeById(Results) : TrueResult(r)
         /\ \A r, q \in MergeById(Results) : r.id = q.id => r = q
<1>1. IsCall(call) /\ ReadsTrue
  BY DEF ReadsInv, CallTyped
<1>2. MergeById(Results) = {Merged(i) : i \in Named}
  BY MergeParts
<1>3. Named \subseteq Ids
  BY <1>1, ResultsFinite DEF Named, Loads
<1>4. IsFiniteSet(MergeById(Results))
  <2> DEFINE f == [i \in Named |-> Merged(i)]
  <2>1. MergeById(Results) = {f[i] : i \in Named}
    BY <1>2
  <2>2. IsFiniteSet(Named)
    BY <1>3, IdsFinite
  <2> HIDE DEF f
  <2> QED BY <2>1, <2>2, ImageFinite
<1>5. ASSUME NEW i \in Named PROVE Merged(i) \in Loads /\ TrueResult(Merged(i)) /\ Merged(i).id = i
  <2>1. Merged(i) \in Loads /\ Merged(i).id = i
        /\ \E p \in Results : Result(p).id = i /\ Merged(i).memory = Result(p).memory
    BY <1>1, MergedParts
  <2>2. PICK p \in Results : Result(p).id = i /\ Merged(i).memory = Result(p).memory
    BY <2>1
  <2>3. p[1] \in DOMAIN call.menu /\ p[2] \in DOMAIN call.loaded[p[1]]
    BY <1>1, ResultsFinite
  <2>4. TrueResult(Result(p))
    BY <1>1, <2>3 DEF ReadsTrue, Result
  <2> QED BY <2>1, <2>2, <2>4 DEF TrueResult
<1> QED BY <1>2, <1>4, <1>5

\* The results ranked above one another.
Better(K) == {p \in K \X K : Score(p[1]) > Score(p[2])}

\* Ranked results are the best ones, in order, but for those cut off.
LEMMA RankedCuts ==
  ASSUME ReadsInv, call # Idle, Primary, NEW K \in SUBSET MergeById(Results)
  PROVE  Cut(Ranked(K), K, Better(K), TopK) /\ Ranked(K) \in Seq(Loads)
<1> DEFINE Before(a, b) == Score(a) > Score(b)
           P(x) == Cardinality({y \in K : Before(y, x)})
           s == Arranged(K, Before)
           R == Better(K)
<1>1. IsFiniteSet(K) /\ K \subseteq Loads /\ \A r, q \in K : r.id = q.id => r = q
  BY MergedTrue, FS_Subset
<1>2. \A r \in K : r.relevance \in Nat /\ r.id \in 1 .. MaxIds /\ r.memory.at = r.id
  <2>1. \A r \in K : TrueResult(r) /\ r \in Loads
    BY <1>1, MergedTrue
  <2> QED BY <2>1, Constants DEF TrueResult, Loads
<1>3. MaxIds \in Nat
  BY Constants
<1>4. \A r \in K : Score(r) = (MaxIds + 1) * r.relevance + r.id /\ Score(r) \in Nat
  <2>1. \A r \in K : (MaxIds + 1) * r.relevance \in Nat
    BY <1>2, <1>3
  <2> QED BY <1>2, <2>1 DEF Score
<1>5. ASSUME NEW r \in K, NEW q \in K, Score(r) = Score(q) PROVE r = q
  <2> DEFINE M == MaxIds + 1
             c == r.relevance
             d == q.relevance
             i == r.id
             j == q.id
  <2>1. M \in Nat /\ c \in Nat /\ d \in Nat /\ i \in Nat /\ j \in Nat /\ i < M /\ j < M
    BY <1>2, <1>3
  <2>2. M * c + i = M * d + j
    BY <1>4, <1>5
  <2> HIDE DEF M, c, d, i, j
  <2>3. CASE c < d
    <3>1. M * (c + 1) <= M * d
      BY <2>1, <2>3
    <3>2. M * (c + 1) = M * c + M
      BY <2>1
    <3>3. M * c \in Nat /\ M * d \in Nat
      BY <2>1
    <3> QED BY <2>1, <2>2, <3>1, <3>2, <3>3
  <2>4. CASE d < c
    <3>1. M * (d + 1) <= M * c
      BY <2>1, <2>4
    <3>2. M * (d + 1) = M * d + M
      BY <2>1
    <3>3. M * c \in Nat /\ M * d \in Nat
      BY <2>1
    <3> QED BY <2>1, <2>2, <3>1, <3>2, <3>3
  <2>5. CASE c = d
    <3>1. M * c \in Nat
      BY <2>1
    <3>2. i = j
      BY <2>1, <2>2, <2>5, <3>1
    <3> QED BY <1>1, <3>2 DEF i, j
  <2> QED BY <2>1, <2>3, <2>4, <2>5
<1>6. \A i, j \in K : <<i, j>> \in R <=> Before(i, j)
  BY DEF Better
<1>7. Orders(R, K)
  <2> HIDE DEF R
  <2> QED BY <1>4, <1>5, <1>6 DEF Orders
<1>8. \A x \in K : {y \in K : Before(y, x)} = {y \in K : <<y, x>> \in R}
  BY <1>6
<1>9. \A x \in K : P(x) = Place(K, R, x)
  BY <1>8 DEF Place
<1>10. s = [n \in 1 .. Cardinality(K) |-> CHOOSE x \in K : P(x) = n - 1]
  BY DEF Arranged
<1>11. Ranked(K) = Truncate(s, TopK)
  BY DEF Ranked
<1> HIDE DEF R, P, s
<1>12. \A n \in 1 .. Cardinality(K) : \E x \in K : P(x) = n - 1
  BY <1>1, <1>7, <1>9, PlaceTaken
<1>13. \A n \in 1 .. Cardinality(K) : s[n] \in K /\ P(s[n]) = n - 1
  BY <1>10, <1>12
<1>14. s = [n \in 1 .. Cardinality(K) |-> s[n]]
  BY <1>10
<1>15. Goes(s, K, R)
  BY <1>1, <1>7, <1>9, <1>13, <1>14, PlaceGoes
<1>16. TopK \in Nat
  BY Constants
<1>17. Cut(Truncate(s, TopK), K, R, TopK)
  BY <1>15, <1>16, TruncateCuts
<1>18. Truncate(s, TopK) \in Seq(Loads)
  BY <1>1, <1>17, SeqWider DEF Cut
<1> QED BY <1>11, <1>17, <1>18 DEF R

\* A recall's answer is true, and what it should be.
LEMMA RankMoves ==
  ASSUME ReadsInv, call # Idle, Rank
  PROVE  ReadsInv' /\ AnswerRanked' /\ call'.kind = "recall"
<1>1. call.kind = "recall" /\ call.phase = "running" /\ Primary
  BY DEF Rank, Primary
<1> DEFINE S == MergeById(Results)
<1>2. PICK K \in OnePerText(S) : Answer(Ranked(K))
  BY DEF Rank
<1>3. K \in SUBSET S
      /\ \A r \in S : Cardinality({q \in K : q.memory.text = r.memory.text}) = 1
  BY DEF OnePerText
<1> DEFINE a == Ranked(K)
<1>4. Cut(a, K, Better(K), TopK) /\ a \in Seq(Loads)
  BY <1>1, <1>3, RankedCuts
<1>5. /\ IsFiniteSet(S) /\ S \subseteq Loads /\ \A r \in S : TrueResult(r)
      /\ \A r, q \in S : r.id = q.id => r = q
  BY MergedTrue
<1> HIDE DEF a
<1>6. \A k \in DOMAIN a : k \in 1 .. Len(a) /\ a[k] \in K /\ a[k] \in S
  BY <1>3, <1>4 DEF Cut
<1>7. \A k \in DOMAIN a : TrueResult(a[k])
  BY <1>5, <1>6
<1>8. ReadsInv' /\ AnswerSet(call, call', "answered", a)
  BY <1>1, <1>2, <1>4, <1>7, AnswerKeeps DEF a
<1>9. /\ call'.kind = call.kind /\ call'.loaded = call.loaded /\ call'.answer = a
  BY <1>8 DEF AnswerSet, But, Fields
<1>10. S' = S
  BY <1>9, MergeSame
<1> HIDE DEF S
<1>11. Len(a) <= TopK
  BY <1>4 DEF Cut
<1>12. ASSUME NEW r \in K, NEW q \in K, r.memory.text = q.memory.text PROVE r = q
  <2> DEFINE T == {x \in K : x.memory.text = r.memory.text}
  <2>1. Cardinality(T) = 1 /\ IsFiniteSet(T) /\ r \in T /\ q \in T
    BY <1>3, <1>5, <1>12, FS_Subset
  <2> HIDE DEF T
  <2> QED BY <2>1, FS_Singleton
<1>13. ASSUME NEW j \in DOMAIN a, NEW k \in DOMAIN a, j < k
       PROVE  /\ a[j].id # a[k].id /\ a[j].memory.text # a[k].memory.text
              /\ Score(a[j]) >= Score(a[k])
  <2>1. a[j] # a[k] /\ a[j] \in K /\ a[k] \in K /\ j \in 1 .. Len(a) /\ k \in 1 .. Len(a)
    BY <1>4, <1>6, <1>13 DEF Cut
  <2>2. <<a[j], a[k]>> \in Better(K)
    BY <1>4, <1>13, <2>1 DEF Cut
  <2>3. Score(a[j]) > Score(a[k])
    BY <2>2 DEF Better
  <2>4. Score(a[j]) \in Int /\ Score(a[k]) \in Int
    <3>1. a[j] \in Loads /\ a[k] \in Loads
      BY <1>5, <1>6
    <3> DEFINE u == a[j]
               v == a[k]
    <3>2. /\ u.relevance \in Nat /\ v.relevance \in Nat /\ u.memory.at \in Nat /\ v.memory.at \in Nat
          /\ MaxIds \in Nat
      BY <3>1, Constants DEF Loads, Memory
    <3> HIDE DEF u, v
    <3>3. (MaxIds + 1) * u.relevance \in Nat /\ (MaxIds + 1) * v.relevance \in Nat
      BY <3>2
    <3>4. Score(u) \in Int /\ Score(v) \in Int
      BY <3>2, <3>3 DEF Score
    <3> QED BY <3>4 DEF u, v
  <2> QED BY <1>3, <1>5, <1>12, <2>1, <2>3, <2>4
<1>14. ASSUME NEW r \in S
       PROVE  \/ \E k \in DOMAIN a : a[k].id = r.id
              \/ \E q \in S : q.id # r.id /\ q.memory.text = r.memory.text
              \/ Len(a) = TopK /\ Score(r) <= Score(a[TopK])
  <2> DEFINE T == {x \in K : x.memory.text = r.memory.text}
  <2>1. Cardinality(T) = 1 /\ IsFiniteSet(T)
    BY <1>3, <1>5, FS_Subset
  <2>2. PICK q : q \in T
    <3> HIDE DEF T
    <3> QED BY <2>1, FS_Singleton
  <2>3. q \in K /\ q \in S /\ q.memory.text = r.memory.text
    BY <1>3, <2>2
  <2>4. CASE q.id = r.id
    <3>1. r \in K
      BY <1>5, <2>3, <2>4
    <3>2. CASE \E k \in 1 .. Len(a) : a[k] = r
      BY <1>4, <3>2 DEF Cut
    <3>3. CASE Len(a) = TopK /\ \A k \in 1 .. Len(a) : <<a[k], r>> \in Better(K)
      <4>1. TopK \in 1 .. Len(a)
        BY <3>3, Constants
      <4>2. Score(a[TopK]) > Score(r)
        BY <3>3, <4>1 DEF Better
      <4>3. Score(r) <= Score(a[TopK])
        <5>1. a[TopK] \in Loads /\ r \in Loads
          BY <1>5, <4>1, <1>4
        <5> DEFINE u == a[TopK]
        <5>2. /\ u.relevance \in Nat /\ r.relevance \in Nat /\ u.memory.at \in Nat /\ r.memory.at \in Nat
              /\ MaxIds \in Nat
          BY <5>1, Constants DEF Loads, Memory
        <5> HIDE DEF u
        <5>3. (MaxIds + 1) * u.relevance \in Nat /\ (MaxIds + 1) * r.relevance \in Nat
          BY <5>2
        <5>4. Score(u) \in Int /\ Score(r) \in Int
          BY <5>2, <5>3 DEF Score
        <5> QED BY <4>2, <5>4 DEF u
      <4> QED BY <3>3, <4>3
    <3> QED BY <1>4, <3>1, <3>2, <3>3 DEF Cut
  <2>5. CASE q.id # r.id
    BY <2>3, <2>5
  <2> QED BY <2>4, <2>5
<1>15. AnswerRanked'
  <2>1. \A r : Score(r)' = Score(r)
    BY DEF Score
  <2>2. \A r \in S : \/ r.id \in AnswerIds'
                     \/ \E q \in S : q.id # r.id /\ q.memory.text = r.memory.text
                     \/ Len(a) = TopK /\ Score(r) <= Score(a[TopK])
    BY <1>9, <1>14 DEF AnswerIds
  <2> QED BY <1>9, <1>10, <1>11, <1>13, <2>2 DEF AnswerRanked, S
<1> QED BY <1>1, <1>8, <1>9, <1>15

-----------------------------------------------------------------------------
(* The answer of prime                                                     *)

\* Each entry of t stood somewhere in s, no two in one place.
From(t, s, o) == /\ \A k \in DOMAIN t : o[k] \in DOMAIN s /\ t[k] = s[o[k]]
                 /\ \A j, k \in DOMAIN t : o[j] = o[k] => j = k

\* What is kept of a sorted list did.
LEMMA BestPlaces ==
  ASSUME NEW C, NEW s \in Seq(C), NEW w, \A k \in DOMAIN s : w[k] \in Int, NEW max \in Nat
  PROVE  /\ Truncate(Sorted(s, w), max) \in Seq(C)
         /\ \E o : From(Truncate(Sorted(s, w), max), s, o)
<1> DEFINE z == Sorted(s, w)
<1>1. PICK o : /\ z \in Seq(C) /\ Len(z) = Len(o) /\ Goes(o, DOMAIN s, Heavier(s, w))
               /\ \A k \in 1 .. Len(o) : o[k] \in DOMAIN s /\ z[k] = s[o[k]]
  BY SortedParts
<1> HIDE DEF z
<1> DEFINE t == Truncate(z, max)
<1>2. t \in Seq(C) /\ \A k \in 1 .. Len(t) : k \in 1 .. Len(z) /\ t[k] = z[k]
  BY <1>1, TruncateParts
<1>3. DOMAIN t = 1 .. Len(t)
  BY <1>2
<1>4. \A k \in DOMAIN t : o[k] \in DOMAIN s /\ t[k] = s[o[k]]
  BY <1>1, <1>2, <1>3
<1>5. \A j, k \in DOMAIN t : o[j] = o[k] => j = k
  BY <1>1, <1>2, <1>3 DEF Goes
<1> HIDE DEF t
<1>6. From(t, s, o)
  BY <1>4, <1>5 DEF From
<1> QED BY <1>2, <1>6 DEF z, t

\* f leads from the similar ones to what they were loaded as.
Leads(f) ==
  /\ \A k \in DOMAIN PrimeSimilar : /\ f[k] \in DOMAIN call.loaded[2]
                                    /\ PrimeSimilar[k].id = call.loaded[2][f[k]].id
                                    /\ PrimeSimilar[k].memory = call.loaded[2][f[k]].memory
                                    /\ PrimeSimilar[k].id \notin IdsOf(PrimeRecent)
  /\ \A j, k \in DOMAIN PrimeSimilar : f[j] = f[k] => j = k

\* The recent ones are what the first strategy loaded, reversed.
LEMMA RecentParts ==
  ASSUME IsCall(call), DOMAIN call.menu = 1 .. 2
  PROVE  /\ PrimeRecent \in Seq(Loads) /\ Len(PrimeRecent) = Len(call.loaded[1])
         /\ call.loaded[1] \in Seq(Loads)
         /\ \A k \in 1 .. Len(PrimeRecent) : PrimeRecent[k] = call.loaded[1][Len(PrimeRecent) - k + 1]
<1> DEFINE l == call.loaded[1]
<1>0. 1 \in DOMAIN call.menu
  OBVIOUS
<1>1. l \in Seq(Loads)
  BY <1>0 DEF IsCall
<1>2. PrimeRecent = [k \in 1 .. Len(l) |-> l[(Len(l) - k) + 1]]
  BY DEF PrimeRecent, Reverse
<1> HIDE DEF l
<1>3. Len(l) \in Nat /\ \A k \in 1 .. Len(l) : (Len(l) - k) + 1 \in 1 .. Len(l)
  BY <1>1
<1>4. \A k \in 1 .. Len(l) : l[(Len(l) - k) + 1] \in Loads
  BY <1>1, <1>3
<1>5. PrimeRecent \in [1 .. Len(l) -> Loads]
  BY <1>2, <1>4
<1>6. PrimeRecent \in Seq(Loads) /\ Len(PrimeRecent) = Len(l)
  BY <1>3, <1>5
<1> QED BY <1>1, <1>2, <1>6 DEF l

\* The similar ones are each loaded by the second strategy, and not among the recent.
LEMMA SimilarParts ==
  ASSUME IsCall(call), DOMAIN call.menu = 1 .. 2
  PROVE  PrimeSimilar \in Seq(Loads) /\ \E f : Leads(f)
<1> DEFINE l == call.loaded[2]
           scored == [k \in DOMAIN l |-> [l[k] EXCEPT !.relevance = Near[l[k].memory.text]]]
           w == [k \in DOMAIN scored |-> Score(scored[k])]
           nearest == Truncate(Sorted(scored, w), SimilarLimit)
           given == IdsOf(PrimeRecent)
           K == {k \in DOMAIN nearest : nearest[k].id \notin given}
           o == Ascending(K)
<1>0. 2 \in DOMAIN call.menu
  OBVIOUS
<1>1. l \in Seq(Loads)
  BY <1>0 DEF IsCall
<1>2. PrimeSimilar = Picked(nearest, o)
  BY DEF PrimeSimilar, IdsOf
<1>3. \A r \in Loads : /\ [r EXCEPT !.relevance = Near[r.memory.text]] \in Loads
                       /\ [r EXCEPT !.relevance = Near[r.memory.text]].id = r.id
                       /\ [r EXCEPT !.relevance = Near[r.memory.text]].memory = r.memory
  <2>1. \A r \in Loads : Near[r.memory.text] \in Nat
    BY Constants DEF Loads, Memory
  <2> QED BY <2>1 DEF Loads
<1> HIDE DEF l
<1>4. Len(l) \in Nat /\ DOMAIN l = 1 .. Len(l) /\ \A k \in DOMAIN l : l[k] \in Loads
  BY <1>1
<1>5. /\ scored \in Seq(Loads) /\ DOMAIN scored = DOMAIN l
      /\ \A k \in DOMAIN l : scored[k].id = l[k].id /\ scored[k].memory = l[k].memory
  <2>1. \A k \in DOMAIN l : scored[k] \in Loads /\ scored[k].id = l[k].id /\ scored[k].memory = l[k].memory
    BY <1>3, <1>4
  <2>2. scored \in [1 .. Len(l) -> Loads]
    BY <1>4, <2>1
  <2> HIDE DEF scored
  <2> QED BY <1>4, <2>1, <2>2
<1> HIDE DEF scored
<1>6. \A k \in DOMAIN scored : w[k] \in Int
  <2>1. \A r \in Loads : r.relevance \in Nat /\ r.memory.at \in Nat /\ MaxIds \in Nat
    BY Constants DEF Loads, Memory
  <2>2. \A r \in Loads : (MaxIds + 1) * r.relevance \in Nat
    BY <2>1
  <2>3. \A r \in Loads : Score(r) \in Int
    BY <2>1, <2>2 DEF Score
  <2> QED BY <1>5, <2>3
<1> HIDE DEF w
<1>7. SimilarLimit \in Nat
  BY LimitsNat
<1>7a. nearest \in Seq(Loads) /\ \E e : From(nearest, scored, e)
  BY <1>5, <1>6, <1>7, BestPlaces
<1> HIDE DEF nearest, given
<1>7b. PICK e : From(nearest, scored, e)
  BY <1>7a
<1>8. /\ nearest \in Seq(Loads)
      /\ \A k \in DOMAIN nearest : e[k] \in DOMAIN scored /\ nearest[k] = scored[e[k]]
      /\ \A j, k \in DOMAIN nearest : e[j] = e[k] => j = k
  BY <1>7a, <1>7b DEF From
<1>9. K \in SUBSET (1 .. Len(nearest)) /\ Len(nearest) \in Nat /\ K \subseteq DOMAIN nearest
      /\ \A k \in K : nearest[k].id \notin given
  BY <1>8
<1> HIDE DEF K
<1>10. IsFiniteSet(K) /\ K \in SUBSET Int
  BY <1>9, PositionsFinite
<1>11. Goes(o, K, {p \in K \X K : p[1] < p[2]})
  BY <1>10, AscendingGoes
<1> HIDE DEF o
<1>12. /\ o \in Seq(K) /\ Len(o) \in Nat /\ DOMAIN o = 1 .. Len(o)
       /\ \A a, b \in 1 .. Len(o) : o[a] = o[b] => a = b
  BY <1>11 DEF Goes
<1>13. /\ PrimeSimilar \in Seq(Loads) /\ Len(PrimeSimilar) = Len(o)
       /\ \A k \in 1 .. Len(o) : PrimeSimilar[k] = nearest[o[k]]
  BY <1>2, <1>8, <1>9, <1>12, PickedParts
<1>14. DOMAIN PrimeSimilar = 1 .. Len(o)
  BY <1>13
<1> DEFINE f == [k \in 1 .. Len(o) |-> e[o[k]]]
<1>15. ASSUME NEW k \in 1 .. Len(o)
       PROVE  /\ f[k] \in DOMAIN l /\ PrimeSimilar[k].id = l[f[k]].id
              /\ PrimeSimilar[k].memory = l[f[k]].memory /\ PrimeSimilar[k].id \notin given
  <2>1. o[k] \in K /\ o[k] \in DOMAIN nearest /\ nearest[o[k]].id \notin given
    BY <1>9, <1>12
  <2>2. e[o[k]] \in DOMAIN l /\ nearest[o[k]] = scored[e[o[k]]]
    BY <1>5, <1>8, <2>1
  <2> QED BY <1>5, <1>13, <2>1, <2>2
<1>16. ASSUME NEW j \in 1 .. Len(o), NEW k \in 1 .. Len(o), f[j] = f[k] PROVE j = k
  <2>1. o[j] \in DOMAIN nearest /\ o[k] \in DOMAIN nearest /\ e[o[j]] = e[o[k]]
    BY <1>9, <1>12, <1>16
  <2> QED BY <1>8, <1>12, <2>1
<1> HIDE DEF f
<1>17. Leads(f)
  BY <1>14, <1>15, <1>16 DEF Leads, l, given
<1> QED BY <1>13, <1>17

\* The answer of prime keeps the invariant.
LEMMA PrimeAnswerMoves ==
  ASSUME ReadsInv, call # Idle, PrimeAnswer
  PROVE  ReadsInv' /\ AnswerSet(call, call', "answered", PrimeRecent \o PrimeSimilar)
<1>1. /\ IsCall(call) /\ ReadsTrue /\ call.kind = "prime" /\ call.phase = "running" /\ Primary
      /\ call.job = <<"done", "done">> /\ DOMAIN call.job = DOMAIN call.menu
      /\ Answer(PrimeRecent \o PrimeSimilar)
  BY DEF ReadsInv, CallTyped, IsCall, PrimeAnswer, Primary
<1>2. DOMAIN call.menu = 1 .. 2 /\ 1 \in DOMAIN call.menu /\ 2 \in DOMAIN call.menu
  BY <1>1
<1> DEFINE a == PrimeRecent
           b == PrimeSimilar
<1>3. a \in Seq(Loads) /\ b \in Seq(Loads)
  BY <1>1, <1>2, RecentParts, SimilarParts
<1>4. \A k \in DOMAIN call.loaded[1] : TrueResult(call.loaded[1][k])
  BY <1>1, <1>2 DEF ReadsTrue
<1>5. \A k \in DOMAIN call.loaded[2] : TrueResult(call.loaded[2][k])
  BY <1>1, <1>2 DEF ReadsTrue
<1>6. \A k \in DOMAIN a : TrueResult(a[k])
  <2>1. /\ Len(PrimeRecent) = Len(call.loaded[1]) /\ call.loaded[1] \in Seq(Loads)
        /\ \A k \in 1 .. Len(PrimeRecent) : PrimeRecent[k] = call.loaded[1][Len(PrimeRecent) - k + 1]
    BY <1>1, <1>2, RecentParts
  <2>2. DOMAIN a = 1 .. Len(a) /\ Len(a) \in Nat /\ DOMAIN call.loaded[1] = 1 .. Len(a)
    BY <1>3, <2>1
  <2>3. \A k \in 1 .. Len(a) : Len(a) - k + 1 \in 1 .. Len(a)
    BY <2>2
  <2> QED BY <1>4, <2>1, <2>2, <2>3
<1>7. \A k \in DOMAIN b : TrueResult(b[k])
  <2>1. PICK f : Leads(f)
    BY <1>1, <1>2, SimilarParts
  <2> QED BY <1>5, <2>1 DEF Leads, TrueResult
<1> HIDE DEF a, b
<1>8. a \o b \in Seq(Loads) /\ \A k \in DOMAIN (a \o b) : TrueResult((a \o b)[k])
  <2>1. a \o b \in Seq(Loads)
        /\ \A k \in DOMAIN (a \o b) : \/ k \in DOMAIN a /\ (a \o b)[k] = a[k]
                                      \/ k - Len(a) \in DOMAIN b /\ (a \o b)[k] = b[k - Len(a)]
    BY <1>3
  <2> QED BY <1>6, <1>7, <2>1
<1>9. Answer(a \o b)
  BY <1>1 DEF a, b
<1>10. ReadsInv' /\ AnswerSet(call, call', "answered", a \o b)
  BY <1>1, <1>8, <1>9, AnswerKeeps
<1> QED BY <1>10 DEF a, b

-----------------------------------------------------------------------------
(* Every answer is true                                                    *)

\* The ids a batch names here.
LEMMA BatchIds == Reverse([i \in Ids |-> i]) \in Seq(Ids)
<1> DEFINE s == [i \in Ids |-> i]
<1>1. Ids = 1 .. MaxIds /\ MaxIds \in Nat
  BY Constants
<1>2. s \in Seq(Ids) /\ Len(s) = MaxIds
  BY <1>1
<1>3. Reverse(s) = [i \in 1 .. Len(s) |-> s[(Len(s) - i) + 1]]
  BY DEF Reverse
<1>4. \A i \in 1 .. MaxIds : s[(MaxIds - i) + 1] \in Ids
  BY <1>1
<1> HIDE DEF s
<1>5. Reverse(s) \in [1 .. MaxIds -> Ids]
  BY <1>2, <1>3, <1>4
<1>6. Reverse(s) \in Seq(Ids)
  BY <1>1, <1>5
<1> QED BY <1>6 DEF s

\* Writes leave the call.
LEMMA WritesLeave ==
  ASSUME Write
  PROVE  call' = call /\ undone' = undone
<1>1. ASSUME NEW d \in Drafts, Remember(d) PROVE call' = call /\ undone' = undone
  BY <1>1 DEF Remember
<1>2. ASSUME NEW i \in Ids, NEW d \in Drafts, Revise(i, d) PROVE call' = call /\ undone' = undone
  BY <1>2 DEF Revise
<1>3. ASSUME NEW t \in Tenants, NEW i \in Ids, Forget(t, i) PROVE call' = call /\ undone' = undone
  BY <1>3 DEF Forget
<1>4. ASSUME Restart PROVE call' = call /\ undone' = undone
  BY <1>4 DEF Restart
<1> QED BY <1>1, <1>2, <1>3, <1>4 DEF Write

\* Every step keeps the invariant.
LEMMA NextKeeps ==
  ASSUME ReadsInv, [Next]_vars
  PROVE  ReadsInv'
<1>1. CASE Write
  BY <1>1, WritesKeep
<1>2. CASE Ask
  <2>1. ASSUME NEW t \in Tenants, NEW ids, ids = Reverse([i \in Ids |-> i]), Batch(t, ids) PROVE ReadsInv'
    BY <2>1, BatchIds, BatchKeeps
  <2> QED BY <1>2, <2>1, RecallKeeps, PrimeKeeps, ListKeeps, PageKeeps DEF Ask
<1>3. CASE call # Idle /\ Reading
  <2>1. ASSUME NEW n \in DOMAIN call.job, Search(n) \/ LoadHit(n) \/ LoadDone(n) PROVE ReadsInv'
    BY <1>3, <2>1, SearchMoves, LoadHitMoves, LoadDoneMoves
  <2>2. ASSUME NEW embeds \in BOOLEAN, PrimeScan(embeds) PROVE ReadsInv'
    BY <1>3, <2>2, PrimeScanMoves
  <2>3. ASSUME NEW limit \in {1, TopK}, NextPage(limit) PROVE ReadsInv'
    BY <1>3, <2>3, NextPageMoves
  <2>4. ASSUME Rank \/ PrimeAnswer \/ Listed PROVE ReadsInv'
    BY <1>3, <2>4, RankMoves, PrimeAnswerMoves, ListedMoves
  <2> QED BY <1>3, <2>1, <2>2, <2>3, <2>4 DEF Reading
<1>4. CASE Return
  BY <1>4, ReturnKeeps
<1>5. CASE UNCHANGED vars
  <2>1. Quiet /\ call' = call
    BY <1>5 DEF vars, Quiet
  <2>2. StoresTyped' /\ Numbered' /\ Indexed' /\ during' \subseteq Ids \X Memory
    BY <2>1, QuietKeeps
  <2>3. CallTyped'
    BY <2>1, <2>2 DEF CallTyped, ReadsInv
  <2>4. ReadsTrue'
    <3>1. /\ db' = db /\ undone' = undone /\ during' = during /\ created' = created
      BY <2>1 DEF Quiet, stores
    <3>2. ReadsTrue
      BY DEF ReadsInv
    <3> QED BY <2>1, <3>1, <3>2 DEF ReadsTrue, TrueHit, TrueResult, Had, Own, Primary, Unchecked, Versions, Stored
  <2> QED BY <2>2, <2>3, <2>4 DEF ReadsInv
<1> QED BY <1>1, <1>2, <1>3, <1>4, <1>5 DEF Next

\* At the start nothing is stored or asked.
LEMMA InitKeeps ==
  ASSUME Init
  PROVE  ReadsInv
<1>1. StoresTyped /\ CallTyped
  <2>1. MaxIds \in Nat
    BY Constants
  <2> QED BY <2>1 DEF Init, StoresTyped, CallTyped
<1>2. Tracked = {}
  BY DEF Init, Tracked
<1>3. Numbered /\ Indexed /\ ReadsTrue
  BY <1>2 DEF Init, Numbered, Indexed, ReadsTrue, Stored
<1> QED BY <1>1, <1>3 DEF ReadsInv

\* The invariant holds throughout.
LEMMA ReadsStaySound == Spec => []ReadsInv
<1>1. ReadsInv /\ [Next]_vars => ReadsInv'
  BY NextKeeps
<1> QED BY <1>1, InitKeeps, PTL DEF Spec

\* Whether an answer is ranked depends on the call alone.
LEMMA RankedLeft ==
  ASSUME AnswerRanked, call' = call
  PROVE  AnswerRanked'
<1>1. MergeById(Results)' = MergeById(Results)
  BY MergeSame
<1>2. AnswerIds' = AnswerIds /\ \A r : Score(r)' = Score(r)
  BY DEF AnswerIds, Score
<1>3. Answered({"recall"})' <=> Answered({"recall"})
  BY DEF Answered
<1> DEFINE M == MergeById(Results)
<1> HIDE DEF M
<1> QED BY <1>1, <1>2, <1>3 DEF AnswerRanked, M

\* Every step keeps answers ranked.
LEMMA NextRanks ==
  ASSUME ReadsInv, AnswerRanked, [Next]_vars
  PROVE  AnswerRanked'
<1>1. ASSUME call' = Idle \/ call'.kind # "recall" \/ call'.phase # "answered"
      PROVE  AnswerRanked'
  BY <1>1 DEF AnswerRanked, Answered
<1>2. CASE Write
  BY <1>2, WritesLeave, RankedLeft
<1>3. CASE Ask
  <2>1. ASSUME NEW t \in Tenants, NEW ids, ids = Reverse([i \in Ids |-> i]), Batch(t, ids)
        PROVE  call'.kind = "list"
    BY <2>1, BatchIds, BatchKeeps
  <2>2. ASSUME NEW t \in Tenants, NEW e \in Entities, NEW now \in 1 .. MaxIds + 1, Prime(t, e, now)
        PROVE  call'.kind = "prime"
    BY <2>2, PrimeKeeps DEF Primes
  <2> QED BY <1>1, <1>3, <2>1, <2>2, RecallKeeps, ListKeeps, PageKeeps DEF Ask
<1>4. CASE call # Idle /\ Reading
  <2>1. ASSUME NEW n \in DOMAIN call.job, Search(n) \/ LoadHit(n) \/ LoadDone(n)
        PROVE  call'.phase = "running"
    <3>1. ASSUME Search(n) PROVE call'.phase = "running"
      BY <1>4, <3>1, SearchMoves
    <3>2. ASSUME LoadHit(n) PROVE call'.phase = "running"
      <4>1. PICK g : Loading(n, g)
        BY <1>4, <3>2, LoadHitMoves
      <4> QED BY <4>1 DEF Loading, But, Fields
    <3>3. ASSUME LoadDone(n) PROVE call'.phase = "running"
      <4>1. PICK g : Ending(n, g)
        BY <1>4, <3>3, LoadDoneMoves
      <4> QED BY <4>1 DEF Ending, But, Fields
    <3> QED BY <2>1, <3>1, <3>2, <3>3
  <2>2. ASSUME NEW embeds \in BOOLEAN, PrimeScan(embeds) PROVE call'.kind = "prime"
    BY <1>4, <2>2, PrimeScanMoves DEF Same, PrimeScan
  <2>3. ASSUME NEW limit \in {1, TopK}, NextPage(limit) PROVE call'.kind = "page"
    BY <1>4, <2>3, NextPageMoves DEF Same, NextPage
  <2>4. ASSUME PrimeAnswer PROVE call'.kind = "prime"
    BY <1>4, <2>4, PrimeAnswerMoves DEF AnswerSet, But, Fields, PrimeAnswer
  <2>5. ASSUME Listed PROVE call'.kind = "list"
    BY <1>4, <2>5, ListedMoves DEF Same
  <2> QED BY <1>1, <1>4, <2>1, <2>2, <2>3, <2>4, <2>5, RankMoves DEF Reading
<1>5. CASE Return
  BY <1>1, <1>5, ReturnKeeps
<1>6. CASE UNCHANGED vars
  BY <1>6, RankedLeft DEF vars
<1> QED BY <1>2, <1>3, <1>4, <1>5, <1>6 DEF Next

\* What a call returns is the caller's, as it really was stored at some moment of the call;
\* an answer of recall names no memory and no text twice, the best first, and misses a hit
\* only for better ones or a copy: for any tenants, memories, writes and interleaving.
THEOREM AnswersStayTrue == Spec => []AnswersTrue
<1>1. ASSUME ReadsInv PROVE AnswerWasTrue
  <2> SUFFICES ASSUME Answered({"recall", "prime", "list", "page"}), NEW k \in DOMAIN call.answer
               PROVE  /\ call.answer[k].memory.tenant = call.tenant
                      /\ <<call.answer[k].id, call.answer[k].memory>> \in during
                      /\ call.entity # None /\ call.answer[k].id \notin undone =>
                           \E v \in during : v[1] = call.answer[k].id /\ v[2].entity = call.entity
    BY DEF AnswerWasTrue
  <2>1. TrueResult(call.answer[k])
    BY <1>1 DEF ReadsInv, ReadsTrue, Answered
  <2> QED BY <2>1 DEF TrueResult, Had
<1>2. Init => AnswerRanked
  BY DEF Init, AnswerRanked, Answered
<1>3. ReadsInv /\ AnswerRanked /\ [Next]_vars => AnswerRanked'
  BY NextRanks
<1>4. ReadsInv /\ AnswerRanked => AnswersTrue
  BY <1>1 DEF AnswersTrue
<1> QED BY <1>2, <1>3, <1>4, ReadsStaySound, PTL DEF Spec

-----------------------------------------------------------------------------
(* Pages leave nothing out                                                 *)

\* What was there all along is there.
Kept == always \subseteq Stored(db)

\* A write leaves what it does not take off always the memory it was, in an entity's
\* eyes.
Watched ==
  /\ call' = call /\ undone' = undone /\ always' \subseteq always
  /\ \A i \in always' : /\ i \in Ids /\ db[i] # None /\ db'[i] # None /\ db'[i].tenant = db[i].tenant
                        /\ db'[i].entity = db[i].entity /\ db'[i].at = db[i].at
  /\ call # Idle => during \subseteq during'

\* A write that keeps the times of memories is watched.
LEMMA WatchParts ==
  ASSUME StoresTyped, Kept, Watch, call' = call, undone' = undone,
         \A i \in Stored(db) : db'[i] # None => db'[i].at = db[i].at
  PROVE  Watched
<1>1. /\ always' \subseteq always /\ (call # Idle => during \subseteq during')
      /\ \A i \in always' : /\ db'[i] # None
                            /\ db'[i].tenant = db[i].tenant /\ db'[i].entity = db[i].entity
  BY DEF Watch
<1>2. \A i \in always' : i \in Ids /\ db[i] # None /\ i \in Stored(db)
  BY <1>1 DEF Kept, Stored
<1> QED BY <1>1, <1>2 DEF Watched

\* Every write is watched.
LEMMA WritesWatch ==
  ASSUME ReadsInv, Kept, Write
  PROVE  Watched
<1>1. /\ StoresTyped /\ created \in Nat /\ MaxIds \in Nat
      /\ \A i \in Stored(db) : i \in Ids /\ db[i] # None /\ i <= created /\ i \in Nat
  BY Constants DEF ReadsInv, StoresTyped, Numbered, Stored
<1>2. ASSUME NEW d \in Drafts, Remember(d) PROVE Watched
  <2>1. Watch /\ call' = call /\ undone' = undone
    BY <1>2 DEF Remember
  <2>2. PICK m : db' = [db EXCEPT ![created + 1] = m]
    BY <1>2 DEF Remember
  <2>3. \A i \in Stored(db) : db'[i] = db[i]
    <3>1. \A i \in Stored(db) : i # created + 1
      BY <1>1
    <3> QED BY <1>1, <2>2, <3>1 DEF StoresTyped
  <2> QED BY <1>1, <2>1, <2>3, WatchParts
<1>3. ASSUME NEW j \in Ids, NEW d \in Drafts, Revise(j, d) PROVE Watched
  <2>1. Watch /\ call' = call /\ undone' = undone /\ db[j] # None
    BY <1>3 DEF Revise
  <2>2. PICK old : old = db[j]
    OBVIOUS
  <2> DEFINE m == [old EXCEPT !.entity = d.entity, !.text = d.text]
  <2>3. db' = [db EXCEPT ![j] = m, ![created + 1] = old]
    BY <1>3, <2>2 DEF Revise
  <2>4. m.at = old.at
    BY <1>1, <2>1, <2>2 DEF StoresTyped, Memory
  <2> HIDE DEF m
  <2>5. \A i \in Stored(db) : db'[i].at = db[i].at
    <3>1. \A i \in Stored(db) : i # created + 1
      BY <1>1
    <3>2. \A i \in Stored(db) : db'[i] = IF i = j THEN m ELSE db[i]
      BY <1>1, <2>3, <3>1 DEF StoresTyped
    <3> QED BY <2>2, <2>4, <3>2
  <2> QED BY <1>1, <2>1, <2>5, WatchParts
<1>4. ASSUME NEW t \in Tenants, NEW j \in Ids, Forget(t, j) PROVE Watched
  <2>1. Watch /\ call' = call /\ undone' = undone
    BY <1>4 DEF Forget
  <2>2. PICK gone : db' = [i \in Ids |-> IF i \in gone THEN None ELSE db[i]]
    BY <1>4 DEF Forget
  <2>3. \A i \in Stored(db) : db'[i] # None => db'[i].at = db[i].at
    BY <1>1, <2>2
  <2> QED BY <1>1, <2>1, <2>3, WatchParts
<1>5. ASSUME Restart PROVE Watched
  BY <1>1, <1>5 DEF Restart, Watched, Kept
<1> QED BY <1>2, <1>3, <1>4, <1>5 DEF Write

\* A call begins with what is stored, and moves no store before it answers.
LEMMA AsksKeep ==
  ASSUME Ask
  PROVE  call = Idle /\ db' = db /\ undone' = undone /\ always' = Stored(db) /\ during' = Versions(db)
<1>1. ASSUME NEW c, Begin(c)
      PROVE  call = Idle /\ db' = db /\ undone' = undone /\ always' = Stored(db) /\ during' = Versions(db)
  BY <1>1 DEF Begin, stores
<1> QED BY <1>1 DEF Ask, Recall, Prime, List, Batch, Page

\* No step takes off what was there all along.
LEMMA NextKept ==
  ASSUME ReadsInv, Kept, [Next]_vars
  PROVE  Kept'
<1>1. CASE Write
  <2>1. Watched
    BY <1>1, WritesWatch
  <2> QED BY <2>1 DEF Watched, Kept, Stored
<1>2. CASE Ask
  BY <1>2, AsksKeep DEF Kept, Stored
<1>3. CASE call # Idle /\ Reading
  <2>1. ASSUME always' = always, db' = db PROVE Kept'
    BY <2>1 DEF Kept, Stored
  <2>2. ASSUME NEW n \in DOMAIN call.job, Search(n) \/ LoadHit(n) \/ LoadDone(n) PROVE Kept'
    <3>1. always' = always /\ db' = db
      BY <2>2 DEF Search, LoadHit, LoadDone, stores
    <3> QED BY <2>1, <3>1
  <2>3. ASSUME NEW embeds \in BOOLEAN, PrimeScan(embeds) PROVE Kept'
    BY <2>1, <2>3 DEF PrimeScan, stores
  <2>4. ASSUME NEW limit \in {1, TopK}, NextPage(limit) PROVE Kept'
    BY <2>1, <2>4 DEF NextPage, stores
  <2>5. ASSUME Listed PROVE Kept'
    BY <2>1, <2>5 DEF Listed, stores
  <2>6. ASSUME NEW a, a \in Seq(Loads), Answer(a) PROVE Kept'
    <3>1. always' = always /\ Reinforce(a)
      BY <2>6 DEF Answer
    <3>2. \A i \in Ids : db'[i] = db[i] \/ \E k \in DOMAIN a : db'[i] = a[k].memory
      BY <2>6, <3>1, ReinforceParts
    <3>3. \A k \in DOMAIN a : a[k].memory # None
      <4>1. \A k \in DOMAIN a : a[k] \in Loads
        BY <2>6
      <4>2. \A x \in Loads : x.memory # None
        BY Constants DEF Loads
      <4> QED BY <4>1, <4>2
    <3> QED BY <3>1, <3>2, <3>3 DEF Kept, Stored
  <2>7. ASSUME Rank PROVE Kept'
    <3>1. PICK K \in OnePerText(MergeById(Results)) : Answer(Ranked(K))
      BY <2>7 DEF Rank
    <3>2. Primary /\ K \in SUBSET MergeById(Results)
      BY <2>7 DEF Rank, Primary, OnePerText
    <3>3. Ranked(K) \in Seq(Loads)
      BY <1>3, <3>2, RankedCuts
    <3> QED BY <2>6, <3>1, <3>3
  <2>8. ASSUME PrimeAnswer PROVE Kept'
    <3>0. IsCall(call) /\ call.job = <<"done", "done">> /\ Answer(PrimeRecent \o PrimeSimilar)
      BY <1>3, <2>8 DEF ReadsInv, CallTyped, PrimeAnswer
    <3>a. DOMAIN call.job = DOMAIN call.menu
      <4>1. call.job \in [DOMAIN call.menu -> {"todo", "loading", "failed", "done"}]
        BY <3>0 DEF IsCall
      <4> QED BY <4>1
    <3>b. DOMAIN call.job = 1 .. 2
      BY <3>0
    <3>1. IsCall(call) /\ DOMAIN call.menu = 1 .. 2 /\ Answer(PrimeRecent \o PrimeSimilar)
      BY <3>0, <3>a, <3>b
    <3>2. PrimeRecent \in Seq(Loads) /\ PrimeSimilar \in Seq(Loads)
      BY <3>1, RecentParts, SimilarParts
    <3>3. PrimeRecent \o PrimeSimilar \in Seq(Loads)
      BY <3>2
    <3> QED BY <2>6, <3>1, <3>3
  <2> QED BY <1>3, <2>2, <2>3, <2>4, <2>5, <2>7, <2>8 DEF Reading
<1>4. CASE Return
  BY <1>4 DEF Return, Kept
<1>5. CASE UNCHANGED vars
  BY <1>5 DEF vars, stores, Kept, Stored
<1> QED BY <1>1, <1>2, <1>3, <1>4, <1>5 DEF Next

\* Pages so far depend on the stores and a few fields of the call.
LEMMA PagesLeft ==
  ASSUME PagesSoFar, call # Idle, db' = db, always' = always,
         call'.kind = call.kind, call'.tenant = call.tenant, call'.entity = call.entity,
         call'.answer = call.answer, call'.cursor = call.cursor, call'.phase = call.phase
  PROVE  PagesSoFar'
BY DEF PagesSoFar, Matches, Load, AnswerIds

\* One list after another.
LEMMA Joined ==
  ASSUME NEW C, NEW s \in Seq(C), NEW t \in Seq(C)
  PROVE  /\ s \o t \in Seq(C) /\ DOMAIN (s \o t) = 1 .. (Len(s) + Len(t))
         /\ Len(s) \in Nat /\ DOMAIN s = 1 .. Len(s) /\ Len(t) \in Nat /\ DOMAIN t = 1 .. Len(t)
         /\ \A k \in 1 .. Len(s) : (s \o t)[k] = s[k]
         /\ \A k \in 1 .. Len(t) : (s \o t)[Len(s) + k] = t[k]
OBVIOUS

\* A page in order after those before it leaves nothing out.
LEMMA TurnsKeep ==
  ASSUME ReadsInv, PagesSoFar, call # Idle, Quiet, Same(call, call'), NEW limit, NEW page,
         Turns(page, limit)
  PROVE  PagesSoFar'
<1> DEFINE a == call.answer
           r == Rows(page)
           b == a \o r
           u == IF page = <<>> THEN call.cursor ELSE Last(page)
<1>1. /\ IsCall(call) /\ call.kind = "page" /\ call.phase = "running" /\ limit \in Nat \ {0}
      /\ Cut(page, Rest, Under, limit)
      /\ call'.answer = b /\ call'.cursor = u
      /\ call'.phase = (IF Len(page) < limit THEN "answered" ELSE call.phase)
  BY DEF ReadsInv, CallTyped, Turns, PageSet
<1>2. /\ \A j, k \in DOMAIN a : j < k => a[j].id < a[k].id
      /\ \A k \in DOMAIN a : a[k].id <= call.cursor
      /\ \A i \in always : Matches(Load(call.tenant, i)) /\ i <= call.cursor
                             => \E k \in DOMAIN a : a[k].id = i
  BY <1>1 DEF PagesSoFar, AnswerIds
<1>3. /\ r \in Seq(Loads) /\ DOMAIN r = 1 .. Len(page) /\ Len(page) \in Nat
      /\ \A k \in DOMAIN r : r[k].id = page[k]
  BY <1>1, RowsTrue DEF Cut
<1>4. /\ a \in Seq(Loads) /\ call.cursor \in Nat
      /\ \A k \in DOMAIN a : a[k].id \in Nat
  <2>1. a \in Seq(Loads) /\ call.cursor \in Nat
    BY <1>1 DEF IsCall
  <2>2. \A x \in Loads : x.id \in Nat
    BY Constants DEF Loads
  <2>3. \A k \in DOMAIN a : a[k] \in Loads
    BY <2>1
  <2> QED BY <2>1, <2>2, <2>3
<1>5. Rest \subseteq Nat /\ \A i \in Rest : i > call.cursor
  BY Constants DEF Rest
<1>6. /\ page \in Seq(Rest) /\ Len(page) <= limit
      /\ \A j, k \in 1 .. Len(page) : j < k => page[j] < page[k]
      /\ \A i \in Rest : \/ \E k \in 1 .. Len(page) : page[k] = i
                         \/ Len(page) = limit /\ \A k \in 1 .. Len(page) : page[k] < i
  BY <1>1 DEF Cut, Under
<1>7. \A k \in 1 .. Len(page) : page[k] \in Nat /\ page[k] > call.cursor
  <2>1. \A k \in 1 .. Len(page) : page[k] \in Rest
    BY <1>6
  <2> QED BY <1>5, <2>1
<1>8. /\ u \in Nat /\ call.cursor <= u /\ \A k \in 1 .. Len(page) : page[k] <= u
      /\ page # <<>> => Len(page) \in 1 .. Len(page) /\ u = page[Len(page)]
  <2>1. CASE page = <<>>
    <3>1. Len(page) = 0
      BY <2>1
    <3> QED BY <1>4, <2>1, <3>1
  <2>2. CASE page # <<>>
    <3>1. Len(page) \in 1 .. Len(page) /\ u = page[Len(page)]
      BY <1>6, <2>2 DEF Last
    <3>2. \A k \in 1 .. Len(page) : k = Len(page) \/ k < Len(page)
      BY <1>3
    <3>3. \A k \in 1 .. Len(page) : page[k] <= u
      BY <1>6, <1>7, <3>1, <3>2
    <3>4. u \in Nat /\ u > call.cursor
      BY <1>7, <3>1
    <3> QED BY <1>4, <3>1, <3>3, <3>4
  <2> QED BY <2>1, <2>2
<1> HIDE DEF a, r, u
<1>9. /\ DOMAIN b = 1 .. (Len(a) + Len(page)) /\ Len(a) \in Nat /\ DOMAIN a = 1 .. Len(a)
      /\ \A k \in 1 .. Len(a) : b[k] = a[k]
      /\ \A k \in 1 .. Len(page) : b[Len(a) + k] = r[k]
  <2>1. Len(r) = Len(page)
    BY <1>3
  <2>2. a \in Seq(Loads) /\ r \in Seq(Loads)
    BY <1>3, <1>4
  <2>3. /\ DOMAIN (a \o r) = 1 .. (Len(a) + Len(r)) /\ Len(a) \in Nat /\ DOMAIN a = 1 .. Len(a)
        /\ \A k \in 1 .. Len(a) : (a \o r)[k] = a[k]
        /\ \A k \in 1 .. Len(r) : (a \o r)[Len(a) + k] = r[k]
    BY <2>2, Joined
  <2> QED BY <2>1, <2>3
<1> HIDE DEF b
<1>10. /\ \A k \in 1 .. Len(a) : b[k].id = a[k].id /\ b[k].id <= call.cursor /\ b[k].id \in Nat
       /\ \A k \in 1 .. Len(page) : b[Len(a) + k].id = page[k]
  BY <1>2, <1>3, <1>4, <1>9
<1>11. \A k \in DOMAIN b : k \in 1 .. Len(a) \/ (k - Len(a) \in 1 .. Len(page) /\ k = Len(a) + (k - Len(a)))
  BY <1>3, <1>9
<1>12. ASSUME NEW j \in DOMAIN b, NEW k \in DOMAIN b, j < k PROVE b[j].id < b[k].id
  <2>1. CASE j \in 1 .. Len(a) /\ k \in 1 .. Len(a)
    BY <1>2, <1>9, <1>10, <1>12, <2>1
  <2>2. CASE j \in 1 .. Len(a) /\ k - Len(a) \in 1 .. Len(page)
    <3>1. b[j].id <= call.cursor /\ b[j].id \in Nat
      BY <1>10, <2>2
    <3>2. b[k].id = page[k - Len(a)] /\ page[k - Len(a)] > call.cursor /\ page[k - Len(a)] \in Nat
      BY <1>7, <1>9, <1>10, <1>11, <2>2
    <3> QED BY <1>4, <3>1, <3>2
  <2>3. CASE j - Len(a) \in 1 .. Len(page) /\ k - Len(a) \in 1 .. Len(page)
    <3>1. /\ b[j].id = page[j - Len(a)] /\ b[k].id = page[k - Len(a)] /\ j - Len(a) < k - Len(a)
      BY <1>9, <1>10, <1>12, <2>3
    <3> QED BY <1>6, <2>3, <3>1
  <2>4. CASE j - Len(a) \in 1 .. Len(page) /\ k \in 1 .. Len(a)
    BY <1>9, <1>12, <2>4
  <2> QED BY <1>11, <2>1, <2>2, <2>3, <2>4
<1>13. ASSUME NEW k \in DOMAIN b PROVE b[k].id <= u
  <2>1. CASE k \in 1 .. Len(a)
    BY <1>4, <1>8, <1>10, <2>1
  <2>2. CASE k - Len(a) \in 1 .. Len(page)
    BY <1>8, <1>9, <1>10, <1>11, <2>2
  <2> QED BY <1>11, <2>1, <2>2
<1>14. ASSUME NEW i \in always, Matches(Load(call.tenant, i)), i <= u \/ Len(page) < limit
       PROVE  \E k \in DOMAIN b : b[k].id = i
  <2>1. i \in Ids /\ i \in Nat
    BY Constants DEF ReadsInv, StoresTyped
  <2>2. CASE i <= call.cursor
    <3>1. PICK k \in DOMAIN a : a[k].id = i
      BY <1>2, <1>14, <2>2
    <3> QED BY <1>3, <1>9, <1>10, <3>1
  <2>3. CASE i > call.cursor
    <3>1. i \in Rest
      BY <1>14, <2>1, <2>3 DEF Rest
    <3>2. CASE \E k \in 1 .. Len(page) : page[k] = i
      <4>1. PICK k \in 1 .. Len(page) : page[k] = i
        BY <3>2
      <4>2. Len(a) + k \in DOMAIN b /\ b[Len(a) + k].id = i
        BY <1>3, <1>9, <1>10, <4>1
      <4> QED BY <4>2
    <3>3. CASE Len(page) = limit /\ \A k \in 1 .. Len(page) : page[k] < i
      <4>1. page # <<>>
        BY <1>1, <3>3
      <4>2. u < i
        BY <1>8, <3>3, <4>1
      <4> QED BY <1>3, <1>8, <1>14, <2>1, <3>3, <4>2
    <3> QED BY <1>6, <3>1, <3>2, <3>3
  <2> QED BY <1>4, <2>1, <2>2, <2>3
<1>15. always' = always /\ db' = db
  BY DEF Quiet, stores
<1>16. ASSUME NEW i \in always', (Matches(Load(call.tenant, i)))', (i <= call.cursor \/ call.phase = "answered")'
       PROVE  i \in AnswerIds'
  <2>1. Matches(Load(call.tenant, i))
    BY <1>15, <1>16 DEF Matches, Load, Same
  <2>2. i <= u \/ Len(page) < limit
    BY <1>1, <1>16
  <2>3. \E k \in DOMAIN b : b[k].id = i
    BY <1>14, <1>15, <2>1, <2>2
  <2> QED BY <1>1, <2>3 DEF AnswerIds
<1> QED BY <1>1, <1>12, <1>13, <1>16 DEF PagesSoFar

\* No step leaves a gap in the pages.
LEMMA NextPages ==
  ASSUME ReadsInv, Kept, PagesSoFar, [Next]_vars
  PROVE  PagesSoFar'
<1>0. ReadsInv'
  BY NextKeeps
<1>1. ASSUME call' = Idle \/ call'.kind # "page" PROVE PagesSoFar'
  BY <1>1 DEF PagesSoFar
<1>2. ASSUME call # Idle, call.kind # "page", Same(call, call') PROVE PagesSoFar'
  BY <1>1, <1>2 DEF Same
<1>3. CASE Write
  <2>1. Watched
    BY <1>3, WritesWatch
  <2> SUFFICES ASSUME call # Idle, call.kind = "page" PROVE PagesSoFar'
    BY <1>1, <2>1 DEF Watched
  <2>2. ASSUME NEW i \in always', (Matches(Load(call.tenant, i)))' PROVE i \in always /\ Matches(Load(call.tenant, i))
    BY <2>1, <2>2 DEF Watched, Matches, Load
  <2>3. AnswerIds' = AnswerIds /\ call' = call
    BY <2>1 DEF Watched, AnswerIds
  <2> QED BY <2>2, <2>3 DEF PagesSoFar
<1>4. CASE Ask
  <2>1. ASSUME NEW t \in Tenants, NEW ids, ids = Reverse([i \in Ids |-> i]), Batch(t, ids)
        PROVE  call'.kind = "list"
    BY <2>1, BatchIds, BatchKeeps
  <2>2. ASSUME NEW t \in Tenants, NEW e \in Entities, NEW now \in 1 .. MaxIds + 1, Prime(t, e, now)
        PROVE  call'.kind = "prime"
    BY <2>2, PrimeKeeps DEF Primes
  <2>3. ASSUME NEW t \in Tenants, NEW e \in Entities \cup {None}, Page(t, e) PROVE PagesSoFar'
    <3>1. call'.kind = "page" /\ call'.answer = <<>> /\ call'.cursor = 0 /\ call'.phase = "running"
      BY <2>3, PageKeeps
    <3>2. \A i \in always' : i \in Nat /\ i > 0
      BY <1>0, Constants DEF ReadsInv, StoresTyped
    <3>3. \A i \in always' : ~(i <= call'.cursor \/ call'.phase = "answered")
      BY <3>1, <3>2
    <3>4. DOMAIN call'.answer = {}
      BY <3>1
    <3> QED BY <3>3, <3>4 DEF PagesSoFar
  <2> QED BY <1>1, <1>4, <2>1, <2>2, <2>3, RecallKeeps, ListKeeps DEF Ask
<1>5. CASE call # Idle /\ Reading
  <2>1. ASSUME NEW n \in DOMAIN call.job, Search(n) PROVE PagesSoFar'
    <3>1. call.kind = "recall" /\ Same(call, call')
      BY <1>5, <2>1, SearchMoves
    <3> QED BY <1>2, <1>5, <3>1
  <2>2. ASSUME NEW fs \in SUBSET {"job", "found", "loaded"}, But(call, call', fs), Quiet PROVE PagesSoFar'
    <3>1. /\ call'.kind = call.kind /\ call'.tenant = call.tenant /\ call'.entity = call.entity
          /\ call'.answer = call.answer /\ call'.cursor = call.cursor /\ call'.phase = call.phase
      BY <2>2 DEF But, Fields
    <3>2. db' = db /\ always' = always
      BY <2>2 DEF Quiet, stores
    <3> QED BY <1>5, <3>1, <3>2, PagesLeft
  <2>3. ASSUME NEW n \in DOMAIN call.job, LoadHit(n) PROVE PagesSoFar'
    <3>1. Quiet /\ \E g : Loading(n, g)
      BY <1>5, <2>3, LoadHitMoves
    <3>2. But(call, call', {"found", "loaded"})
      BY <3>1 DEF Loading
    <3> QED BY <2>2, <3>1, <3>2
  <2>4. ASSUME NEW n \in DOMAIN call.job, LoadDone(n) PROVE PagesSoFar'
    <3>1. Quiet /\ \E g : Ending(n, g)
      BY <1>5, <2>4, LoadDoneMoves
    <3>2. But(call, call', {"job", "found", "loaded"})
      BY <3>1 DEF Ending
    <3> QED BY <2>2, <3>1, <3>2
  <2>5. ASSUME NEW embeds \in BOOLEAN, PrimeScan(embeds) PROVE PagesSoFar'
    <3>1. Same(call, call') /\ call.kind = "prime"
      BY <1>5, <2>5, PrimeScanMoves DEF PrimeScan
    <3> QED BY <1>2, <1>5, <3>1
  <2>6. ASSUME NEW limit \in {1, TopK}, NextPage(limit) PROVE PagesSoFar'
    <3>1. Quiet /\ Same(call, call') /\ \E page : Turns(page, limit)
      BY <1>5, <2>6, NextPageMoves
    <3> QED BY <1>5, <3>1, TurnsKeep
  <2>7. ASSUME Rank PROVE PagesSoFar'
    <3>1. call'.kind = "recall"
      BY <1>5, <2>7, RankMoves
    <3> QED BY <1>1, <3>1
  <2>8. ASSUME PrimeAnswer PROVE PagesSoFar'
    <3>1. call'.kind = "prime"
      BY <1>5, <2>8, PrimeAnswerMoves DEF AnswerSet, But, Fields, PrimeAnswer
    <3> QED BY <1>1, <3>1
  <2>9. ASSUME Listed PROVE PagesSoFar'
    <3>1. Same(call, call') /\ call.kind = "list"
      BY <1>5, <2>9, ListedMoves
    <3> QED BY <1>2, <1>5, <3>1
  <2> QED BY <1>5, <2>1, <2>3, <2>4, <2>5, <2>6, <2>7, <2>8, <2>9 DEF Reading
<1>6. CASE Return
  BY <1>1, <1>6, ReturnKeeps
<1>7. CASE UNCHANGED vars
  <2>1. call' = call /\ db' = db /\ always' = always
    BY <1>7 DEF vars, stores
  <2> QED BY <1>1, <2>1, PagesLeft
<1> QED BY <1>3, <1>4, <1>5, <1>6, <1>7 DEF Next

\* Pages asked for one after the other while others write hold every memory that matched all
\* along, and none twice.
THEOREM PagesStayComplete == Spec => []PagesComplete
<1>1. Init => Kept /\ PagesSoFar
  BY DEF Init, Kept, PagesSoFar
<1>2. ReadsInv /\ Kept /\ PagesSoFar /\ [Next]_vars => Kept' /\ PagesSoFar'
  BY NextKept, NextPages
<1>3. ASSUME ReadsInv, PagesSoFar PROVE PagesComplete
  <2> SUFFICES ASSUME Answered({"page"}) PROVE PagesComplete
    BY DEF PagesComplete
  <2> DEFINE a == call.answer
  <2>1. /\ call # Idle /\ call.kind = "page" /\ call.phase = "answered" /\ IsCall(call)
    BY <1>3 DEF Answered, ReadsInv, CallTyped
  <2>2. /\ \A j, k \in DOMAIN a : j < k => a[j].id < a[k].id
        /\ \A i \in always : Matches(Load(call.tenant, i)) => i \in AnswerIds
    BY <1>3, <2>1 DEF PagesSoFar
  <2>3. a \in Seq(Loads)
    BY <2>1 DEF IsCall
  <2> HIDE DEF a
  <2>4. \A k \in DOMAIN a : a[k].id \in Nat /\ k \in Nat
    <3>1. \A x \in Loads : x.id \in Nat
      BY Constants DEF Loads
    <3>2. \A k \in DOMAIN a : a[k] \in Loads /\ k \in Nat
      BY <2>3
    <3> QED BY <3>1, <3>2
  <2>5. \A j, k \in DOMAIN a : a[j].id = a[k].id => j = k
    <3>1. \A j, k \in DOMAIN a : j = k \/ j < k \/ k < j
      BY <2>4
    <3> QED BY <2>2, <2>4, <3>1
  <2>6. IsInjective([k \in DOMAIN a |-> a[k].id])
    BY <2>5 DEF IsInjective
  <2> QED BY <2>2, <2>6 DEF PagesComplete, a
<1> QED BY <1>1, <1>2, <1>3, ReadsStaySound, PTL DEF Spec

-----------------------------------------------------------------------------
(* Prime gives the newest                                                  *)

\* What may have taken a memory's place is finite, and only grows.
LEMMA NewerGrows ==
  ASSUME undone \subseteq undone', during \subseteq during', call'.entity = call.entity,
         call'.now = call.now, NEW i, Cardinality(Newer(i)) >= TemporalLimit
  PROVE  Cardinality(Newer(i))' >= TemporalLimit
<1>1. Newer(i) \subseteq Newer(i)'
  BY DEF Newer
<1>2. Newer(i)' \in SUBSET Ids /\ Newer(i) \in SUBSET Ids
  BY DEF Newer
<1> DEFINE A == Newer(i)
           B == Newer(i)'
<1> HIDE DEF A, B
<1>3. A \subseteq B /\ IsFiniteSet(B) /\ Cardinality(A) \in Nat /\ Cardinality(B) \in Nat
  BY <1>1, <1>2, IdsFinite DEF A, B
<1>4. Cardinality(A) <= Cardinality(B)
  BY <1>3, FS_Subset
<1>5. Cardinality(A) >= TemporalLimit /\ TemporalLimit \in Nat
  BY LimitsNat DEF A
<1> QED BY <1>3, <1>4, <1>5 DEF B

\* What is due stays covered while the lists of the call stand for the same ids.
LEMMA CoveredLeft ==
  ASSUME undone \subseteq undone', during \subseteq during', call'.entity = call.entity,
         call'.now = call.now, NEW i, Covered(i), Due(i)' => Due(i),
         Due(i)' /\ i \in IdsOf(call.found[1]) \cup IdsOf(call.loaded[1])
           => i \in IdsOf(call'.found[1]) \cup IdsOf(call'.loaded[1])
  PROVE  Covered(i)'
<1> SUFFICES ASSUME Due(i)', i \notin IdsOf(call'.found[1]) \cup IdsOf(call'.loaded[1])
             PROVE  Cardinality(Newer(i))' >= TemporalLimit
  BY DEF Covered, IdsOf
<1>1. Cardinality(Newer(i)) >= TemporalLimit
  BY DEF Covered
<1> QED BY <1>1, NewerGrows

\* prime's first query covers whatever is due.
LEMMA PrimeCovers ==
  ASSUME ReadsInv, NEW t \in Tenants, NEW e \in Entities, NEW now \in 1 .. MaxIds + 1, Prime(t, e, now)
  PROVE  PrimeSoFar'
<1> DEFINE C == InRange(e, now - Window, now)
           ids == QueryTemporal(e, now - Window, now, TRUE, TemporalLimit)
<1>1. Primes(t, e, now, ids)
  BY PrimeKeeps
<1>2. StoresTyped /\ Numbered /\ Indexed /\ TemporalLimit \in Nat /\ TRUE \in BOOLEAN
  BY LimitsNat DEF ReadsInv
<1>3. Cut(ids, C, Above, TemporalLimit)
  BY <1>2, QueryCuts
<1>4. \A i \in C : /\ i \in Ids /\ now - Window <= i /\ i < now
                   /\ i \in undone \/ \E v \in Versions(db) : v[1] = i /\ v[2].entity = e
  BY <1>2, RangeStored
<1>5. db' = db /\ undone' = undone /\ always' = Stored(db) /\ during' = Versions(db)
  BY DEF Prime, Begin, stores
<1>6. ASSUME NEW i \in Stored(db), db[i].tenant = Default, db[i].entity = e, ~Snapshot(i),
             now - Window <= i, i < now, i \notin undone
      PROVE  i \in C
  <2>1. i \in Ids \ undone /\ db[i] # None /\ db[i].at = i /\ db[i].entity # None
    BY <1>6, Constants DEF Stored, Snapshot
  <2>2. Entry(i, db[i]) \in temporal
    BY <1>2, <1>6, <2>1 DEF Indexed
  <2>3. Entry(i, db[i]) = [tenant |-> Default, entity |-> e, at |-> i, id |-> i]
    BY <1>6, <2>1 DEF Entry
  <2> QED BY <1>6, <2>2, <2>3 DEF InRange
<1> HIDE DEF C, ids
<1>7. /\ ids \in Seq(C) /\ Len(ids) \in Nat /\ DOMAIN ids = 1 .. Len(ids)
      /\ \A a, b \in 1 .. Len(ids) : a < b => ids[a] > ids[b]
      /\ \A a, b \in 1 .. Len(ids) : ids[a] = ids[b] => a = b
      /\ \A i \in C : \/ \E a \in 1 .. Len(ids) : ids[a] = i
                      \/ Len(ids) = TemporalLimit /\ \A a \in 1 .. Len(ids) : ids[a] > i
  BY <1>3 DEF Cut, Above
<1>8. /\ call'.found[1] \in Seq(Hits) /\ DOMAIN call'.found[1] = 1 .. Len(ids)
      /\ \A k \in 1 .. Len(ids) : call'.found[1][k].id = ids[k]
      /\ call'.found[2] = <<>> /\ call'.loaded[1] = <<>> /\ call'.loaded[2] = <<>>
  BY <1>1 DEF Primes
<1>9. InStep(1)' /\ InStep(2)'
  <2>1. Falling(call'.found[1])
    BY <1>7, <1>8 DEF Falling
  <2>2. Falling(<<>>) /\ IdsOf(<<>>) = {}
    BY DEF Falling, IdsOf
  <2> QED BY <1>8, <2>1, <2>2 DEF InStep, Steps, Falling, IdsOf
<1>10. ASSUME NEW i \in always', Due(i)' PROVE Covered(i)'
  <2>1. call'.entity = e /\ call'.now = now
    BY <1>1 DEF Primes
  <2>2. i \in Ids /\ i \in Nat /\ i \in C
    <3>1. /\ i \in Stored(db) /\ db[i].tenant = Default /\ db[i].entity = e /\ ~Snapshot(i)
          /\ now - Window <= i /\ i < now /\ i \notin undone
      BY <1>5, <1>10, <2>1 DEF Due, Snapshot
    <3> QED BY <1>6, <3>1, Constants DEF Stored
  <2>3. CASE \E a \in 1 .. Len(ids) : ids[a] = i
    <3>1. i \in IdsOf(call'.found[1])
      BY <1>8, <2>3 DEF IdsOf
    <3> QED BY <3>1 DEF Covered, IdsOf
  <2>4. CASE Len(ids) = TemporalLimit /\ \A a \in 1 .. Len(ids) : ids[a] > i
    <3> DEFINE B == Newer(i)'
    <3>1. \A a \in 1 .. Len(ids) : ids[a] \in C
      BY <1>7
    <3>2. \A a \in 1 .. Len(ids) : ids[a] \in B
      <4> SUFFICES ASSUME NEW a \in 1 .. Len(ids) PROVE ids[a] \in B
        OBVIOUS
      <4>1. /\ ids[a] \in Ids /\ ids[a] < now /\ i < ids[a]
            /\ ids[a] \in undone \/ \E v \in Versions(db) : v[1] = ids[a] /\ v[2].entity = e
        <5>1. ids[a] \in Ids /\ ids[a] < now /\ ids[a] > i
              /\ (ids[a] \in undone \/ \E v \in Versions(db) : v[1] = ids[a] /\ v[2].entity = e)
          BY <1>4, <2>4, <3>1
        <5>2. ids[a] \in Nat
          BY <5>1, Constants
        <5> QED BY <2>2, <5>1, <5>2
      <4> QED BY <1>5, <2>1, <4>1 DEF Newer
    <3>3. B \in SUBSET Ids
      BY DEF Newer
    <3> HIDE DEF B
    <3>4. ids \in Seq(B)
      <4>1. ids = [k \in 1 .. Len(ids) |-> ids[k]]
        BY <1>7
      <4>2. ids \in [1 .. Len(ids) -> B]
        BY <3>2, <4>1
      <4> QED BY <1>7, <4>2
    <3>5. IsFiniteSet(B) /\ Cardinality(B) \in Nat
      BY <3>3, IdsFinite
    <3>6. Len(ids) <= Cardinality(B)
      BY <1>7, <3>4, <3>5, DistinctLength
    <3>7. Cardinality(B) >= TemporalLimit
      BY <1>2, <2>4, <3>5, <3>6
    <3> QED BY <3>7 DEF Covered, B
  <2> QED BY <1>7, <2>2, <2>3, <2>4
<1>11. \A i \in always' : Covered(i)'
  BY <1>10 DEF Covered
<1>12. /\ call'.menu = <<"recent", "whole">> /\ call'.entity # None /\ call'.phase = "running"
  BY <1>1, Constants DEF Primes
<1> QED BY <1>9, <1>11, <1>12 DEF PrimeSoFar

\* The two strategies of a prime.
LEMMA PrimeShape ==
  ASSUME ReadsInv, PrimeSoFar, call # Idle, call.kind = "prime"
  PROVE  /\ IsCall(call) /\ call.menu = <<"recent", "whole">> /\ DOMAIN call.menu = {1, 2}
         /\ call.found \in [{1, 2} -> Seq(Hits)] /\ call.loaded \in [{1, 2} -> Seq(Loads)]
         /\ call.job \in [{1, 2} -> {"todo", "loading", "failed", "done"}]
         /\ call.tenant \in Tenants
<1>1. IsCall(call) /\ call.menu = <<"recent", "whole">>
  BY DEF ReadsInv, CallTyped, PrimeSoFar
<1>2. DOMAIN call.menu = {1, 2}
  BY <1>1
<1> QED BY <1>1, <1>2 DEF IsCall

\* What an answer of prime gives depends on what it has loaded alone.
LEMMA PrimeSame ==
  ASSUME call'.loaded = call.loaded
  PROVE  PrimeRecent' = PrimeRecent /\ PrimeSimilar' = PrimeSimilar
<1>1. PrimeRecent' = PrimeRecent
  BY DEF PrimeRecent
<1> DEFINE S(l) == [k \in DOMAIN l |-> [l[k] EXCEPT !.relevance = Near[l[k].memory.text]]]
           N(l) == Truncate(Sorted(S(l), [k \in DOMAIN S(l) |-> Score(S(l)[k])]), SimilarLimit)
           P(l, r) == Picked(N(l), Ascending({k \in DOMAIN N(l) : N(l)[k].id \notin {r[j].id : j \in DOMAIN r}}))
<1>2. PrimeSimilar = P(call.loaded[2], PrimeRecent)
  BY DEF PrimeSimilar
<1>3. PrimeSimilar' = P(call'.loaded[2], PrimeRecent')
  BY DEF PrimeSimilar
<1> HIDE DEF P
<1> QED BY <1>1, <1>2, <1>3

\* A step that leaves prime's lists.
LEMMA PrimeLeft ==
  ASSUME PrimeSoFar, call # Idle, call.kind = "prime", Same(call, call'),
         call'.found = call.found, call'.loaded = call.loaded,
         undone \subseteq undone', during \subseteq during', always' \subseteq always,
         \A i \in always' : Due(i)' => Due(i),
         call'.phase = "answered" => /\ call'.job[1] = "done"
                                     /\ call'.answer = PrimeRecent \o PrimeSimilar
  PROVE  PrimeSoFar'
<1>1. InStep(1)' /\ InStep(2)'
  BY DEF PrimeSoFar, InStep, Steps, Falling, IdsOf
<1>2. ASSUME call'.tenant = Default, NEW i \in always' PROVE Covered(i)'
  <2>1. Covered(i)
    BY <1>2 DEF PrimeSoFar, Same
  <2>2. call'.entity = call.entity /\ call'.now = call.now /\ (Due(i)' => Due(i))
    BY <1>2 DEF Same
  <2> QED BY <2>1, <2>2, CoveredLeft
<1>3. call'.menu = <<"recent", "whole">> /\ call'.entity # None
  BY DEF PrimeSoFar, Same
<1>4. PrimeRecent' = PrimeRecent /\ PrimeSimilar' = PrimeSimilar
  BY PrimeSame
<1> QED BY <1>1, <1>2, <1>3, <1>4 DEF PrimeSoFar

\* What is due stays so, or not, while nothing but the call moves.
LEMMA QuietDue ==
  ASSUME Quiet, Same(call, call')
  PROVE  /\ \A i : Due(i)' <=> Due(i)
         /\ undone \subseteq undone' /\ during \subseteq during' /\ always' = always
BY DEF Quiet, stores, Same, Due, Snapshot

\* A load takes the first of a falling list over to the end of another.
LEMMA TailStep ==
  ASSUME NEW h \in Seq(Hits), h # <<>>, NEW l \in Seq(Loads), Falling(h), Falling(l),
         \A i \in IdsOf(l), j \in IdsOf(h) : i > j,
         NEW x, x.id = Head(h).id, NEW g, g = l \/ (x \in Loads /\ g = Append(l, x))
  PROVE  /\ Falling(Tail(h)) /\ Falling(g) /\ \A i \in IdsOf(g), j \in IdsOf(Tail(h)) : i > j
         /\ IdsOf(l) \subseteq IdsOf(g) /\ IdsOf(h) \subseteq IdsOf(Tail(h)) \cup {x.id}
         /\ g = l \/ x.id \in IdsOf(g)
<1> DEFINE t == Tail(h)
           y == x.id
<1>1. /\ \A k \in DOMAIN t : k \in Nat /\ k + 1 \in DOMAIN h /\ t[k] = h[k + 1] /\ k + 1 > 1
      /\ 1 \in DOMAIN h /\ Head(h) = h[1]
      /\ \A k \in DOMAIN h : k = 1 \/ (k - 1 \in DOMAIN t /\ t[k - 1] = h[k])
  OBVIOUS
<1>2. \A j, k \in DOMAIN h : j < k => h[j].id > h[k].id
  BY DEF Falling
<1>3. \A j, k \in DOMAIN l : j < k => l[j].id > l[k].id
  BY DEF Falling
<1>4. y = h[1].id
  BY <1>1
<1>5. \A k \in DOMAIN l : l[k].id > y
  <2>1. y \in IdsOf(h)
    BY <1>1, <1>4 DEF IdsOf
  <2> QED BY <2>1 DEF IdsOf
<1>6. \A k \in DOMAIN t : y > t[k].id
  BY <1>1, <1>2, <1>4
<1>7. Falling(t)
  <2>1. \A j, k \in DOMAIN t : j < k => t[j].id > t[k].id
    BY <1>1, <1>2
  <2> QED BY <2>1 DEF Falling
<1>8. \A k \in DOMAIN t, j \in DOMAIN l : l[j].id > t[k].id
  BY <1>1 DEF IdsOf
<1>9. IdsOf(h) \subseteq IdsOf(t) \cup {y}
  <2>1. \A k \in DOMAIN h : h[k].id = y \/ \E j \in DOMAIN t : h[k].id = t[j].id
    BY <1>1, <1>4
  <2> HIDE DEF t, y
  <2> QED BY <2>1 DEF IdsOf
<1> HIDE DEF t
<1>10. CASE g = l
  <2>1. \A i \in IdsOf(g), j \in IdsOf(t) : i > j
    BY <1>8, <1>10 DEF IdsOf
  <2> QED BY <1>7, <1>9, <1>10, <2>1 DEF t
<1>11. CASE x \in Loads /\ g = Append(l, x)
  <2>1. /\ \A k \in DOMAIN g : k \in Nat /\ ((k \in DOMAIN l /\ g[k] = l[k]) \/ (k = Len(l) + 1 /\ g[k] = x))
        /\ \A k \in DOMAIN l : k \in DOMAIN g /\ g[k] = l[k] /\ k <= Len(l)
        /\ Len(l) + 1 \in DOMAIN g /\ g[Len(l) + 1] = x /\ Len(l) \in Nat
    BY <1>11
  <2> HIDE DEF y
  <2>2. x.id = y
    BY DEF y
  <2>3. \A j, k \in DOMAIN g : j < k => g[j].id > g[k].id
    <3> SUFFICES ASSUME NEW j \in DOMAIN g, NEW k \in DOMAIN g, j < k PROVE g[j].id > g[k].id
      OBVIOUS
    <3>1. j \in DOMAIN l /\ g[j] = l[j]
      BY <2>1
    <3> QED BY <1>3, <1>5, <2>1, <2>2, <3>1
  <2>4. \A k \in DOMAIN g : g[k].id = y \/ \E j \in DOMAIN l : g[k].id = l[j].id
    BY <2>1, <2>2
  <2>5. \A i \in IdsOf(g), j \in IdsOf(t) : i > j
    BY <1>6, <1>8, <2>4 DEF IdsOf
  <2>6. IdsOf(l) \subseteq IdsOf(g) /\ y \in IdsOf(g)
    BY <2>1, <2>2 DEF IdsOf
  <2>7. Falling(g)
    BY <2>3 DEF Falling
  <2> QED BY <1>7, <1>9, <2>2, <2>5, <2>6, <2>7 DEF t, y
<1> QED BY <1>10, <1>11

\* A load of prime keeps its lists in step, and what is due in them.
LEMMA PrimeLoads ==
  ASSUME ReadsInv, PrimeSoFar, call # Idle, call.kind = "prime", Quiet, Same(call, call'),
         NEW n, NEW g, Loading(n, g)
  PROVE  PrimeSoFar'
<1>1. /\ IsCall(call) /\ DOMAIN call.menu = {1, 2}
      /\ call.found \in [{1, 2} -> Seq(Hits)] /\ call.loaded \in [{1, 2} -> Seq(Loads)]
  BY PrimeShape
<1> DEFINE h == call.found[n]
           l == call.loaded[n]
           x == Loaded(n)
<1>2. /\ n \in {1, 2} /\ h \in Seq(Hits) /\ h # <<>> /\ l \in Seq(Loads) /\ call'.phase = "running"
      /\ call'.found = [call.found EXCEPT ![n] = Tail(h)] /\ call'.loaded = [call.loaded EXCEPT ![n] = g]
  BY <1>1 DEF Loading, But, Fields
<1>3. /\ g = l \/ (x \in Loads /\ g = Append(l, x))
      /\ Wanted(n, Fetched(n)) => x \in Loads /\ g = Append(l, x)
  BY LoadedTrue DEF Loading
<1>4. x.id = Head(h).id
  BY DEF Loaded
<1>5. InStep(n)
  BY <1>2 DEF PrimeSoFar
<1>6. Falling(h) /\ Falling(l) /\ \A i \in IdsOf(l), j \in IdsOf(h) : i > j
  BY <1>5 DEF InStep, Steps
<1> HIDE DEF h, l, x
<1>7. /\ Falling(Tail(h)) /\ Falling(g) /\ \A i \in IdsOf(g), j \in IdsOf(Tail(h)) : i > j
      /\ IdsOf(l) \subseteq IdsOf(g) /\ IdsOf(h) \subseteq IdsOf(Tail(h)) \cup {x.id}
      /\ g = l \/ x.id \in IdsOf(g)
  BY <1>2, <1>3, <1>4, <1>6, TailStep
<1>8. /\ call'.found[n] = Tail(h) /\ call'.loaded[n] = g
      /\ \A m \in {1, 2} : m # n => call'.found[m] = call.found[m] /\ call'.loaded[m] = call.loaded[m]
  BY <1>1, <1>2
<1>9. ASSUME NEW m \in {1, 2} PROVE InStep(m)'
  <2>1. CASE m = n
    <3>1. Steps(Tail(h), g) /\ call'.found[m] = Tail(h) /\ call'.loaded[m] = g
      BY <1>7, <1>8, <2>1 DEF Steps
    <3> QED BY <3>1 DEF InStep
  <2>2. CASE m # n
    <3>1. call'.found[m] = call.found[m] /\ call'.loaded[m] = call.loaded[m]
      BY <1>8, <2>2
    <3>2. InStep(m)
      BY DEF PrimeSoFar
    <3> QED BY <3>1, <3>2 DEF InStep, Steps, Falling, IdsOf
  <2> QED BY <2>1, <2>2
<1>10. ASSUME call'.tenant = Default, NEW i \in always' PROVE Covered(i)'
  <2>1. /\ always' = always /\ undone \subseteq undone' /\ during \subseteq during' /\ (Due(i)' <=> Due(i))
    BY QuietDue
  <2>2. Covered(i) /\ call.tenant = Default /\ call'.entity = call.entity /\ call'.now = call.now
    BY <1>10, <2>1 DEF PrimeSoFar, Same
  <2>3. CASE n = 1
    <3>1. ASSUME Due(i), i = x.id PROVE x.id \in IdsOf(g)
      <4>1. db[i] # None /\ db[i].tenant = call.tenant
        BY <2>2, <3>1 DEF Due
      <4>2. Fetched(n) = db[i]
        BY <1>4, <3>1, <4>1 DEF Fetched, Load, h
      <4>3. Wanted(n, Fetched(n))
        BY <4>1, <4>2 DEF Wanted
      <4>4. x \in Loads /\ g = Append(l, x)
        BY <1>3, <4>3
      <4>5. g # l
        <5>1. Len(g) = Len(l) + 1 /\ Len(l) \in Nat
          BY <1>2, <4>4
        <5> QED BY <5>1
      <4> QED BY <1>7, <4>5
    <3>2. ASSUME Due(i), i \in IdsOf(call.found[1]) \cup IdsOf(call.loaded[1])
          PROVE  i \in IdsOf(call'.found[1]) \cup IdsOf(call'.loaded[1])
      <4>1. call'.found[1] = Tail(h) /\ call'.loaded[1] = g /\ call.found[1] = h /\ call.loaded[1] = l
        BY <1>8, <2>3 DEF h, l
      <4> QED BY <1>7, <3>1, <3>2, <4>1
    <3> QED BY <2>1, <2>2, <3>2, CoveredLeft
  <2>4. CASE n # 1
    <3>1. call'.found[1] = call.found[1] /\ call'.loaded[1] = call.loaded[1]
      BY <1>8, <2>4
    <3> QED BY <2>1, <2>2, <3>1, CoveredLeft
  <2> QED BY <2>3, <2>4
<1>11. call'.menu = <<"recent", "whole">> /\ call'.entity # None /\ call'.phase # "answered"
  BY <1>2 DEF PrimeSoFar, Same
<1> QED BY <1>9, <1>10, <1>11 DEF PrimeSoFar

\* The end of a load leaves prime's lists.
LEMMA PrimeEnds ==
  ASSUME ReadsInv, PrimeSoFar, call # Idle, call.kind = "prime", Quiet, Same(call, call'),
         NEW n, NEW g, Ending(n, g)
  PROVE  PrimeSoFar'
<1>1. /\ IsCall(call) /\ call.menu = <<"recent", "whole">> /\ DOMAIN call.menu = {1, 2}
      /\ call.found \in [{1, 2} -> Seq(Hits)] /\ call.loaded \in [{1, 2} -> Seq(Loads)]
  BY PrimeShape
<1>2. n \in {1, 2} /\ call.menu[n] \in {"recent", "whole"}
  BY <1>1 DEF Ending
<1>3. call.found[n] = <<>> /\ g = call.loaded[n]
  BY <1>2 DEF Ending
<1>4. call'.found = call.found /\ call'.loaded = call.loaded
  BY <1>1, <1>2, <1>3 DEF Ending
<1>5. call'.phase = "running"
  BY DEF Ending, But, Fields
<1> QED BY <1>4, <1>5, QuietDue, PrimeLeft

\* The scan of the whole index gives prime's second strategy a falling list.
LEMMA PrimeScans ==
  ASSUME ReadsInv, PrimeSoFar, call # Idle, call.kind = "prime", Quiet, Same(call, call'), Scanned
  PROVE  PrimeSoFar'
<1>1. /\ IsCall(call) /\ DOMAIN call.menu = {1, 2}
      /\ call.found \in [{1, 2} -> Seq(Hits)] /\ call.loaded \in [{1, 2} -> Seq(Loads)]
  BY PrimeShape
<1>2. CASE But(call, call', {"phase"}) /\ call'.phase = "failed"
  <2>1. call'.found = call.found /\ call'.loaded = call.loaded
    BY <1>2 DEF But, Fields
  <2> QED BY <1>2, <2>1, QuietDue, PrimeLeft
<1>3. CASE /\ But(call, call', {"job", "found"}) /\ call.job = <<"done", "todo">>
           /\ call'.job = [call.job EXCEPT ![2] = "loading"]
           /\ \E h \in Seq(Hits) : Falling(h) /\ call'.found = [call.found EXCEPT ![2] = h]
  <2>1. PICK h \in Seq(Hits) : Falling(h) /\ call'.found = [call.found EXCEPT ![2] = h]
    BY <1>3
  <2>2. call'.loaded = call.loaded /\ call.job[2] = "todo" /\ call'.phase = call.phase
        /\ call'.answer = call.answer
    BY <1>3 DEF But, Fields
  <2>3. call.loaded[2] = <<>>
    BY <1>1, <2>2 DEF ReadsInv, ReadsTrue
  <2>4. call'.found[1] = call.found[1] /\ call'.found[2] = h
    BY <1>1, <2>1
  <2>5. InStep(1)'
    BY <2>2, <2>4 DEF PrimeSoFar, InStep, Steps, Falling, IdsOf
  <2>6. InStep(2)'
    <3>1. Falling(<<>>) /\ IdsOf(<<>>) = {}
      BY DEF Falling, IdsOf
    <3> QED BY <2>1, <2>2, <2>3, <2>4, <3>1 DEF InStep, Steps, Falling, IdsOf
  <2>7. ASSUME call'.tenant = Default, NEW i \in always' PROVE Covered(i)'
    <3>1. /\ always' = always /\ undone \subseteq undone' /\ during \subseteq during' /\ (Due(i)' <=> Due(i))
      BY QuietDue
    <3>2. Covered(i) /\ call'.entity = call.entity /\ call'.now = call.now
      BY <2>7, <3>1 DEF PrimeSoFar, Same
    <3> QED BY <2>2, <2>4, <3>1, <3>2, CoveredLeft
  <2>8. call'.phase = "answered" => /\ call'.job[1] = "done"
                                    /\ call'.answer = PrimeRecent' \o PrimeSimilar'
    <3>1. PrimeRecent' = PrimeRecent /\ PrimeSimilar' = PrimeSimilar
      BY <2>2, PrimeSame
    <3>2. call'.job[1] = "done"
      BY <1>3
    <3> QED BY <2>2, <3>1, <3>2 DEF PrimeSoFar
  <2> QED BY <2>2, <2>5, <2>6, <2>7, <2>8 DEF PrimeSoFar, Same
<1> QED BY <1>2, <1>3 DEF Scanned

\* prime answers with what it has loaded; its write-back leaves what is due.
LEMMA PrimeAnswers ==
  ASSUME ReadsInv, PrimeSoFar, call # Idle, PrimeAnswer
  PROVE  PrimeSoFar'
<1> DEFINE a == PrimeRecent \o PrimeSimilar
<1>1. call.kind = "prime" /\ call.job = <<"done", "done">> /\ Answer(a)
  BY DEF PrimeAnswer
<1>2. /\ IsCall(call) /\ DOMAIN call.menu = {1, 2}
  BY <1>1, PrimeShape
<1>3. a \in Seq(Loads)
  <2>1. DOMAIN call.menu = 1 .. 2
    BY <1>2
  <2>2. PrimeRecent \in Seq(Loads) /\ PrimeSimilar \in Seq(Loads)
    BY <1>2, <2>1, RecentParts, SimilarParts
  <2> QED BY <2>2
<1>4. AnswerSet(call, call', "answered", a)
  BY PrimeAnswerMoves
<1> HIDE DEF a
<1>5. /\ Same(call, call') /\ call'.found = call.found /\ call'.loaded = call.loaded
      /\ call'.job = call.job /\ call'.answer = a
  BY <1>4 DEF AnswerSet, But, Same, Fields
<1>6. Reinforce(a) /\ during' = during /\ always' = always
  BY <1>1 DEF Answer
<1>7. undone \subseteq undone' /\ \A i \in Ids \ undone' : db'[i] = db[i]
  BY <1>3, <1>6, ReinforceParts
<1>8. ASSUME NEW i \in always', Due(i)' PROVE Due(i)
  <2>1. i \in Ids /\ i \notin undone'
    BY <1>6, <1>8 DEF ReadsInv, StoresTyped, Due
  <2>2. db'[i] = db[i]
    BY <1>7, <2>1
  <2> QED BY <1>5, <1>7, <1>8, <2>1, <2>2 DEF Due, Same, Snapshot
<1>9. call'.job[1] = "done" /\ call'.answer = PrimeRecent \o PrimeSimilar
  BY <1>1, <1>5 DEF a
<1> QED BY <1>1, <1>5, <1>6, <1>7, <1>8, <1>9, PrimeLeft

\* No step uncovers what is due.
LEMMA NextPrimes ==
  ASSUME ReadsInv, Kept, PrimeSoFar, [Next]_vars
  PROVE  PrimeSoFar'
<1>1. ASSUME call' = Idle \/ call'.kind # "prime" PROVE PrimeSoFar'
  BY <1>1 DEF PrimeSoFar
<1>2. ASSUME call # Idle, call.kind # "prime", Same(call, call') PROVE PrimeSoFar'
  BY <1>1, <1>2 DEF Same
<1>3. CASE Write
  <2>1. Watched
    BY <1>3, WritesWatch
  <2> SUFFICES ASSUME call # Idle, call.kind = "prime" PROVE PrimeSoFar'
    BY <1>1, <2>1 DEF Watched
  <2>2. /\ call' = call /\ undone' = undone /\ during \subseteq during' /\ always' \subseteq always
        /\ Same(call, call')
    BY <2>1 DEF Watched, Same
  <2>3. \A i \in always' : Due(i)' => Due(i)
    BY <2>1 DEF Watched, Due, Snapshot
  <2>4. call'.phase = "answered" => call'.job[1] = "done" /\ call'.answer = PrimeRecent \o PrimeSimilar
    BY <2>2 DEF PrimeSoFar
  <2> QED BY <2>2, <2>3, <2>4, PrimeLeft
<1>4. CASE Ask
  <2>1. ASSUME NEW t \in Tenants, NEW ids, ids = Reverse([i \in Ids |-> i]), Batch(t, ids)
        PROVE  call'.kind = "list"
    BY <2>1, BatchIds, BatchKeeps
  <2>2. ASSUME NEW t \in Tenants, NEW e \in Entities \cup {None}, Page(t, e) PROVE call'.kind = "page"
    BY <2>2, PageKeeps
  <2> QED BY <1>1, <1>4, <2>1, <2>2, PrimeCovers, RecallKeeps, ListKeeps DEF Ask
<1>5. CASE call # Idle /\ Reading
  <2>1. ASSUME NEW n \in DOMAIN call.job, Search(n) PROVE PrimeSoFar'
    <3>1. call.kind = "recall" /\ Same(call, call')
      BY <1>5, <2>1, SearchMoves
    <3> QED BY <1>2, <1>5, <3>1
  <2>2. ASSUME NEW n \in DOMAIN call.job, LoadHit(n) PROVE PrimeSoFar'
    <3>1. Quiet /\ Same(call, call') /\ \E g : Loading(n, g)
      BY <1>5, <2>2, LoadHitMoves
    <3> QED BY <1>2, <1>5, <3>1, PrimeLoads
  <2>3. ASSUME NEW n \in DOMAIN call.job, LoadDone(n) PROVE PrimeSoFar'
    <3>1. Quiet /\ Same(call, call') /\ \E g : Ending(n, g)
      BY <1>5, <2>3, LoadDoneMoves
    <3> QED BY <1>2, <1>5, <3>1, PrimeEnds
  <2>4. ASSUME NEW embeds \in BOOLEAN, PrimeScan(embeds) PROVE PrimeSoFar'
    <3>1. Quiet /\ Same(call, call') /\ Scanned /\ call.kind = "prime"
      BY <1>5, <2>4, PrimeScanMoves DEF PrimeScan
    <3> QED BY <1>5, <3>1, PrimeScans
  <2>5. ASSUME NEW limit \in {1, TopK}, NextPage(limit) PROVE PrimeSoFar'
    <3>1. Same(call, call') /\ call.kind = "page"
      BY <1>5, <2>5, NextPageMoves DEF NextPage
    <3> QED BY <1>2, <1>5, <3>1
  <2>6. ASSUME Rank PROVE PrimeSoFar'
    <3>1. call'.kind = "recall"
      BY <1>5, <2>6, RankMoves
    <3> QED BY <1>1, <3>1
  <2>7. ASSUME Listed PROVE PrimeSoFar'
    <3>1. Same(call, call') /\ call.kind = "list"
      BY <1>5, <2>7, ListedMoves
    <3> QED BY <1>2, <1>5, <3>1
  <2> QED BY <1>5, <2>1, <2>2, <2>3, <2>4, <2>5, <2>6, <2>7, PrimeAnswers DEF Reading
<1>6. CASE Return
  BY <1>1, <1>6, ReturnKeeps
<1>7. CASE UNCHANGED vars
  <2>1. call' = call /\ Quiet /\ Same(call, call')
    BY <1>7 DEF vars, Quiet, Same
  <2>2. CASE call = Idle \/ call.kind # "prime"
    BY <1>1, <2>1, <2>2
  <2>3. CASE call # Idle /\ call.kind = "prime"
    <3>1. call'.phase = "answered" => call'.job[1] = "done" /\ call'.answer = PrimeRecent \o PrimeSimilar
      BY <2>1, <2>3 DEF PrimeSoFar
    <3> QED BY <2>1, <2>3, <3>1, QuietDue, PrimeLeft
  <2> QED BY <2>2, <2>3
<1> QED BY <1>3, <1>4, <1>5, <1>6, <1>7 DEF Next

\* The recent ones that prime gives are those it loaded, oldest first.
LEMMA RecentRises ==
  ASSUME ReadsInv, PrimeSoFar, call # Idle, call.kind = "prime"
  PROVE  /\ PrimeRecent \in Seq(Loads) /\ IdsOf(call.loaded[1]) \subseteq IdsOf(PrimeRecent)
         /\ \A j, k \in DOMAIN PrimeRecent : j < k => PrimeRecent[j].id < PrimeRecent[k].id
         /\ \A k \in DOMAIN PrimeRecent : /\ PrimeRecent[k].memory.at = PrimeRecent[k].id
                                          /\ PrimeRecent[k].id \in Nat
<1>1. /\ IsCall(call) /\ DOMAIN call.menu = {1, 2}
  BY PrimeShape
<1>2. DOMAIN call.menu = 1 .. 2 /\ 1 \in DOMAIN call.menu
  BY <1>1
<1> DEFINE r == PrimeRecent
           l == call.loaded[1]
           n == Len(r)
<1>3. /\ r \in Seq(Loads) /\ Len(l) = n /\ l \in Seq(Loads)
      /\ \A k \in 1 .. n : r[k] = l[n - k + 1]
  BY <1>1, <1>2, RecentParts
<1>4. \A k \in DOMAIN l : TrueResult(l[k])
  BY <1>2 DEF ReadsInv, ReadsTrue
<1>5. \A j, k \in DOMAIN l : j < k => l[j].id > l[k].id
  BY DEF PrimeSoFar, InStep, Steps, Falling
<1>6. \A k \in DOMAIN l : l[k].memory.at = l[k].id /\ l[k].id \in Nat
  <2>1. \A x \in Loads : x.id \in Nat
    BY Constants DEF Loads
  <2>2. \A k \in DOMAIN l : l[k] \in Loads
    BY <1>3
  <2>3. Primary
    BY DEF Primary
  <2> QED BY <1>4, <2>1, <2>2, <2>3 DEF TrueResult
<1> HIDE DEF r, l
<1>7. n \in Nat /\ DOMAIN r = 1 .. n /\ DOMAIN l = 1 .. n
  BY <1>3
<1> HIDE DEF n
<1>8. \A k \in 1 .. n : n - k + 1 \in 1 .. n /\ n - (n - k + 1) + 1 = k
  BY <1>7
<1>9. \A j, k \in 1 .. n : j < k => r[j].id < r[k].id
  <2> SUFFICES ASSUME NEW j \in 1 .. n, NEW k \in 1 .. n, j < k PROVE r[j].id < r[k].id
    OBVIOUS
  <2>1. n - j + 1 \in DOMAIN l /\ n - k + 1 \in DOMAIN l /\ n - k + 1 < n - j + 1
    BY <1>7, <1>8
  <2>2. l[n - k + 1].id > l[n - j + 1].id
    BY <1>5, <2>1
  <2> QED BY <1>3, <1>6, <2>1, <2>2
<1>10. \A k \in 1 .. n : r[k].memory.at = r[k].id /\ r[k].id \in Nat
  <2> SUFFICES ASSUME NEW k \in 1 .. n PROVE r[k].memory.at = r[k].id /\ r[k].id \in Nat
    OBVIOUS
  <2>1. r[k] = l[n - k + 1] /\ n - k + 1 \in DOMAIN l
    BY <1>3, <1>7, <1>8
  <2> QED BY <1>6, <2>1
<1>11. IdsOf(l) \subseteq IdsOf(r)
  <2>1. \A k \in DOMAIN l : \E j \in DOMAIN r : l[k].id = r[j].id
    <3> SUFFICES ASSUME NEW k \in 1 .. n PROVE \E j \in 1 .. n : l[k].id = r[j].id
      BY <1>7
    <3>1. r[n - k + 1] = l[k] /\ n - k + 1 \in 1 .. n
      BY <1>3, <1>8
    <3> QED BY <3>1
  <2> QED BY <2>1 DEF IdsOf
<1> QED BY <1>3, <1>7, <1>9, <1>10, <1>11 DEF r, l

\* What prime answers names nothing twice.
LEMMA PrimeDistinct ==
  ASSUME ReadsInv, PrimeSoFar, call # Idle, call.kind = "prime", NEW a, a = PrimeRecent \o PrimeSimilar
  PROVE  IsInjective([k \in DOMAIN a |-> a[k].id])
<1>1. /\ IsCall(call) /\ DOMAIN call.menu = {1, 2}
      /\ call.loaded \in [{1, 2} -> Seq(Loads)]
  BY PrimeShape
<1>2. DOMAIN call.menu = 1 .. 2
  BY <1>1
<1> DEFINE r == PrimeRecent
           s == PrimeSimilar
           l == call.loaded[2]
<1>3. r \in Seq(Loads) /\ \A j, k \in DOMAIN r : j < k => r[j].id < r[k].id
  BY RecentRises
<1>4. \A k \in DOMAIN r : r[k].id \in Nat
  BY RecentRises
<1>5. s \in Seq(Loads)
  BY <1>1, <1>2, SimilarParts
<1>6. PICK f : Leads(f)
  BY <1>1, <1>2, SimilarParts
<1>7. /\ \A k \in DOMAIN s : f[k] \in DOMAIN l /\ s[k].id = l[f[k]].id /\ s[k].id \notin IdsOf(r)
      /\ \A j, k \in DOMAIN s : f[j] = f[k] => j = k
  BY <1>6 DEF Leads
<1>8. \A j, k \in DOMAIN l : j < k => l[j].id > l[k].id
  BY DEF PrimeSoFar, InStep, Steps, Falling
<1>9. l \in Seq(Loads) /\ \A k \in DOMAIN l : k \in Nat /\ l[k].id \in Nat
  <2>1. \A x \in Loads : x.id \in Nat
    BY Constants DEF Loads
  <2>2. l \in Seq(Loads)
    BY <1>1
  <2> HIDE DEF l
  <2>3. \A k \in DOMAIN l : k \in Nat /\ l[k] \in Loads
    BY <2>2
  <2> QED BY <2>1, <2>2, <2>3
<1> HIDE DEF r, s, l
<1>10. \A j, k \in DOMAIN l : l[j].id = l[k].id => j = k
  <2>1. \A j, k \in DOMAIN l : j = k \/ j < k \/ k < j
    BY <1>9
  <2> QED BY <1>8, <1>9, <2>1
<1>11. \A j, k \in DOMAIN s : s[j].id = s[k].id => j = k
  BY <1>7, <1>10
<1>12. \A j, k \in DOMAIN r : r[j].id = r[k].id => j = k
  <2>1. \A j, k \in DOMAIN r : j = k \/ j < k \/ k < j
    BY <1>3
  <2> QED BY <1>3, <1>4, <2>1
<1>13. \A j \in DOMAIN r, k \in DOMAIN s : r[j].id # s[k].id
  BY <1>7 DEF IdsOf
<1>14. /\ DOMAIN a = 1 .. (Len(r) + Len(s))
       /\ Len(r) \in Nat /\ DOMAIN r = 1 .. Len(r) /\ Len(s) \in Nat /\ DOMAIN s = 1 .. Len(s)
       /\ \A k \in 1 .. Len(r) : a[k] = r[k]
       /\ \A k \in 1 .. Len(s) : a[Len(r) + k] = s[k]
  <2>1. a = r \o s
    BY DEF r, s
  <2> QED BY <1>3, <1>5, <2>1, Joined
<1>15. \A k \in DOMAIN a : \/ k \in DOMAIN r /\ a[k] = r[k]
                           \/ k - Len(r) \in DOMAIN s /\ a[k] = s[k - Len(r)] /\ k \in Nat
  <2> SUFFICES ASSUME NEW k \in DOMAIN a, k \notin DOMAIN r
               PROVE  k - Len(r) \in DOMAIN s /\ a[k] = s[k - Len(r)] /\ k \in Nat
    BY <1>14
  <2>1. k - Len(r) \in 1 .. Len(s) /\ Len(r) + (k - Len(r)) = k /\ k \in Nat
    BY <1>14
  <2> QED BY <1>14, <2>1
<1>16. ASSUME NEW j \in DOMAIN a, NEW k \in DOMAIN a, a[j].id = a[k].id PROVE j = k
  <2>1. CASE j \in DOMAIN r /\ a[j] = r[j] /\ k \in DOMAIN r /\ a[k] = r[k]
    BY <1>12, <1>16, <2>1
  <2>2. CASE j - Len(r) \in DOMAIN s /\ a[j] = s[j - Len(r)] /\ k - Len(r) \in DOMAIN s /\ a[k] = s[k - Len(r)] /\ j \in Nat /\ k \in Nat
    <3>1. j - Len(r) = k - Len(r)
      BY <1>11, <1>16, <2>2
    <3> QED BY <1>14, <2>2, <3>1
  <2> QED BY <1>13, <1>15, <1>16, <2>1, <2>2
<1> QED BY <1>16 DEF IsInjective

\* prime answers with no memory twice, the recent ones oldest first, and leaves out what was due
\* all along only for as many newer ones as it may give.
THEOREM PrimeStaysNewest == Spec => []PrimeNewest
<1>1. Init => Kept /\ PrimeSoFar
  BY DEF Init, Kept, PrimeSoFar
<1>2. ReadsInv /\ Kept /\ PrimeSoFar /\ [Next]_vars => Kept' /\ PrimeSoFar'
  BY NextKept, NextPrimes
<1>3. ASSUME ReadsInv, Kept, PrimeSoFar PROVE PrimeNewest
  <2> SUFFICES ASSUME Answered({"prime"}), call.tenant = Default PROVE PrimeNewest
    BY DEF PrimeNewest
  <2>1. call # Idle /\ call.kind = "prime" /\ call.phase = "answered"
    BY DEF Answered
  <2>2. /\ call.answer = PrimeRecent \o PrimeSimilar /\ call.job[1] = "done"
        /\ \A i \in always : Covered(i)
    BY <1>3, <2>1 DEF PrimeSoFar
  <2>3. IsInjective([k \in DOMAIN call.answer |-> call.answer[k].id])
    BY <1>3, <2>1, <2>2, PrimeDistinct
  <2>4. \A j, k \in DOMAIN PrimeRecent : j < k => PrimeRecent[j].memory.at < PrimeRecent[k].memory.at
    BY <1>3, <2>1, RecentRises
  <2>5. IdsOf(call.found[1]) = {}
    <3>1. DOMAIN call.menu = {1, 2}
      BY <1>3, <2>1, PrimeShape
    <3>2. call.found[1] = <<>>
      BY <1>3, <2>1, <2>2, <3>1 DEF ReadsInv, ReadsTrue
    <3> QED BY <3>2 DEF IdsOf
  <2>6. ASSUME NEW i \in always, Due(i)
        PROVE  \/ \E k \in DOMAIN PrimeRecent : PrimeRecent[k].id = i
               \/ Cardinality(Newer(i)) >= TemporalLimit
    <3>1. IdsOf(call.loaded[1]) \subseteq IdsOf(PrimeRecent)
      BY <1>3, <2>1, RecentRises
    <3> QED BY <2>2, <2>5, <2>6, <3>1 DEF Covered, IdsOf
  <2>7. \A i \in always : db[i] # None
    BY <1>3 DEF Kept, Stored
  <2>8. ASSUME NEW i \in always,
               /\ db[i].tenant = Default /\ db[i].entity = call.entity /\ ~Snapshot(i)
               /\ call.now - Window <= i /\ i < call.now
               /\ i \notin undone
        PROVE  Due(i)
    BY <2>7, <2>8 DEF Due
  <2> QED BY <2>3, <2>4, <2>6, <2>8 DEF PrimeNewest, Newer
<1> QED BY <1>1, <1>2, <1>3, ReadsStaySound, PTL DEF Spec

=============================================================================
