----------------------------- MODULE GraphProofs ----------------------------
(***************************************************************************)
(* Proofs about the graphs of hebbs-index.  Hnsw: for any number of        *)
(* memories, any vectors, any layers and any bounds on the lists.  Walks:  *)
(* traversals of any edges while others change them, and the clusters of   *)
(* any neighborhood.  First, sets arranged in an order and functions       *)
(* defined by recursion, which the searches and the walks are made of;     *)
(* then what the searches find and what each operation does to the graph;  *)
(* then the walks, step by step; then forests, and how unions merge them.  *)
(***************************************************************************)
EXTENDS Hnsw, Walks, FiniteSetTheorems, SequenceTheorems, WellFoundedInduction, TLAPS

-----------------------------------------------------------------------------
(* Induction over the natural numbers, stated for sets                     *)

Below == {p \in Nat \X Nat : p[1] < p[2]}

\* The smaller-than relation is well founded.
LEMMA BelowWellFounded == IsWellFoundedOn(Below, Nat)
<1>1. Below = OpToRel(<, Nat)
  BY DEF Below, OpToRel
<1> QED BY <1>1, NatLessThanWellFounded

\* A set of natural numbers has a least member.
LEMMA LeastMember ==
  ASSUME NEW T \in SUBSET Nat, T # {}
  PROVE  \E x \in T : \A y \in T : x <= y
<1>1. PICK x \in T : \A y \in T : ~(<<y, x>> \in Below)
  BY BelowWellFounded, WFMin
<1>2. ASSUME NEW y \in T PROVE x <= y
  <2>1. <<y, x>> \in Nat \X Nat /\ ~(y < x)
    BY <1>1 DEF Below
  <2> QED BY <2>1
<1> QED BY <1>2

\* What holds of 0, and of n + 1 if of n, holds of every number.
LEMMA SetInduction ==
  ASSUME NEW S, 0 \in S, \A n \in Nat : n \in S => n + 1 \in S
  PROVE  Nat \subseteq S
<1> DEFINE T == {n \in Nat : n \notin S}
<1> SUFFICES ASSUME T # {} PROVE FALSE
  OBVIOUS
<1>1. PICK x \in T : \A y \in T : x <= y
  BY LeastMember
<1>2. x # 0 /\ x - 1 \in Nat
  OBVIOUS
<1>3. x - 1 \in S
  BY <1>1, <1>2
<1> QED BY <1>2, <1>3

\* f starts at a and goes on by h, within A.
Runs(f, A, a, h) == /\ f \in [Nat -> A] /\ f[0] = a
                    /\ \A k \in Nat : f[k + 1] = h[<<k + 1, f[k]>>]

\* A function may be defined by recursion.
LEMMA Recursion ==
  ASSUME NEW A, NEW a \in A, NEW h \in [Nat \X A -> A]
  PROVE  \E f : Runs(f, A, a, h)
<1> DEFINE Starts(n, g) == /\ g \in [0 .. n -> A] /\ g[0] = a
                           /\ \A k \in 0 .. n : k < n => g[k + 1] = h[<<k + 1, g[k]>>]
           S == {n \in Nat : \E g : Starts(n, g)}
<1>1. 0 \in S
  <2> DEFINE g == [k \in 0 .. 0 |-> a]
  <2>1. Starts(0, g)
    OBVIOUS
  <2> QED BY <2>1
<1>2. ASSUME NEW n \in Nat, n \in S PROVE n + 1 \in S
  <2>1. PICK g : Starts(n, g)
    BY <1>2
  <2> DEFINE e == [k \in 0 .. n + 1 |-> IF k <= n THEN g[k] ELSE h[<<n + 1, g[n]>>]]
  <2>2. n \in 0 .. n /\ g[n] \in A /\ h[<<n + 1, g[n]>>] \in A
    BY <2>1
  <2>3. e \in [0 .. n + 1 -> A] /\ e[0] = a
    BY <2>1, <2>2
  <2>4. ASSUME NEW k \in 0 .. n + 1, k < n + 1 PROVE e[k + 1] = h[<<k + 1, e[k]>>]
    <3>1. CASE k < n
      BY <2>1, <2>4, <3>1
    <3>2. CASE k = n
      BY <2>2, <2>4, <3>2
    <3> QED BY <2>4, <3>1, <3>2
  <2>5. Starts(n + 1, e)
    BY <2>3, <2>4
  <2> HIDE DEF Starts, e
  <2> QED BY <2>5
<1>3. Nat \subseteq S
  <2> HIDE DEF S
  <2> QED BY <1>1, <1>2, SetInduction
<1>4. ASSUME NEW n \in Nat, NEW m \in Nat, NEW g, NEW e, Starts(n, g), Starts(m, e),
             NEW k \in Nat, k <= n, k <= m
      PROVE  g[k] = e[k]
  <2> DEFINE U == {j \in Nat : j <= n /\ j <= m => g[j] = e[j]}
  <2>1. 0 \in U
    BY <1>4
  <2>2. ASSUME NEW j \in Nat, j \in U PROVE j + 1 \in U
    <3> SUFFICES ASSUME j + 1 <= n, j + 1 <= m PROVE g[j + 1] = e[j + 1]
      OBVIOUS
    <3>1. j \in 0 .. n /\ j < n /\ j \in 0 .. m /\ j < m
      OBVIOUS
    <3>2. g[j] = e[j]
      BY <2>2, <3>1
    <3> QED BY <1>4, <3>1, <3>2
  <2>3. Nat \subseteq U
    <3> HIDE DEF U
    <3> QED BY <2>1, <2>2, SetInduction
  <2> QED BY <1>4, <2>3
<1> DEFINE G(n) == CHOOSE g : Starts(n, g)
           f == [k \in Nat |-> G(k)[k]]
<1>5. \A n \in Nat : Starts(n, G(n))
  <2> SUFFICES ASSUME NEW n \in Nat PROVE Starts(n, G(n))
    OBVIOUS
  <2>1. \E g : Starts(n, g)
    BY <1>3
  <2> HIDE DEF Starts
  <2> QED BY <2>1
<1> HIDE DEF G
<1>6. f \in [Nat -> A]
  <2> SUFFICES ASSUME NEW k \in Nat PROVE G(k)[k] \in A
    OBVIOUS
  <2> QED BY <1>5
<1>7. f[0] = a
  BY <1>5
<1>8. ASSUME NEW k \in Nat PROVE f[k + 1] = h[<<k + 1, f[k]>>]
  <2>1. Starts(k, G(k)) /\ Starts(k + 1, G(k + 1))
    BY <1>5
  <2>2. G(k)[k] = G(k + 1)[k]
    BY <1>4, <2>1
  <2>3. k \in 0 .. k + 1 /\ k < k + 1
    OBVIOUS
  <2>4. G(k + 1)[k + 1] = h[<<k + 1, G(k + 1)[k]>>]
    BY <2>1, <2>3
  <2> QED BY <2>2, <2>4
<1> HIDE DEF f
<1>9. Runs(f, A, a, h)
  BY <1>6, <1>7, <1>8 DEF Runs
<1> QED BY <1>9

-----------------------------------------------------------------------------
(* Sets arranged in an order                                               *)

\* R orders the members of C strictly and totally.
Orders(R, C) ==
  /\ \A i \in C : <<i, i>> \notin R
  /\ \A i, j, k \in C : <<i, j>> \in R /\ <<j, k>> \in R => <<i, k>> \in R
  /\ \A i, j \in C : i # j => <<i, j>> \in R \/ <<j, i>> \in R

\* How many members of C come before i.
Rank(C, R, i) == Cardinality({j \in C : <<j, i>> \in R})

\* A member's rank is below the number of members and grows with the order.
LEMMA RankGrows ==
  ASSUME NEW C, IsFiniteSet(C), NEW R, Orders(R, C)
  PROVE  /\ \A i \in C : Rank(C, R, i) \in 0 .. Cardinality(C) - 1
         /\ \A i, j \in C : <<i, j>> \in R <=> Rank(C, R, i) < Rank(C, R, j)
         /\ \A i, j \in C : Rank(C, R, i) = Rank(C, R, j) => i = j
<1> DEFINE P(i) == {j \in C : <<j, i>> \in R}
<1>1. \A i \in C : P(i) \in SUBSET C /\ i \notin P(i)
  BY DEF Orders
<1>2. \A i, j \in C : <<i, j>> \in R => P(i) \in SUBSET P(j) /\ i \in P(j)
  BY DEF Orders
<1>3. \A i \in C : Rank(C, R, i) = Cardinality(P(i))
  BY DEF Rank
<1> HIDE DEF P
<1>4. Cardinality(C) \in Nat
  BY FS_CardinalityType
<1>5. \A i \in C : IsFiniteSet(P(i)) /\ Cardinality(P(i)) \in Nat /\ Cardinality(P(i)) < Cardinality(C)
  <2> SUFFICES ASSUME NEW i \in C
               PROVE  IsFiniteSet(P(i)) /\ Cardinality(P(i)) \in Nat /\ Cardinality(P(i)) < Cardinality(C)
    OBVIOUS
  <2>1. IsFiniteSet(P(i)) /\ Cardinality(P(i)) <= Cardinality(C) /\ Cardinality(P(i)) # Cardinality(C)
    BY <1>1, FS_Subset
  <2>2. Cardinality(P(i)) \in Nat
    BY <2>1, FS_CardinalityType
  <2> QED BY <1>4, <2>1, <2>2
<1>6. ASSUME NEW i \in C, NEW j \in C, <<i, j>> \in R PROVE Rank(C, R, i) < Rank(C, R, j)
  <2>1. P(i) \in SUBSET P(j) /\ i \in P(j) /\ i \notin P(i)
    BY <1>1, <1>2, <1>6
  <2>2. Cardinality(P(i)) <= Cardinality(P(j)) /\ Cardinality(P(i)) # Cardinality(P(j))
    BY <1>5, <2>1, FS_Subset
  <2> QED BY <1>3, <1>5, <2>2
<1>7. \A i \in C : Rank(C, R, i) \in 0 .. Cardinality(C) - 1
  BY <1>3, <1>4, <1>5
<1>8. \A i, j \in C : i # j => <<i, j>> \in R \/ <<j, i>> \in R
  BY DEF Orders
<1>9. ASSUME NEW i \in C, NEW j \in C, Rank(C, R, i) < Rank(C, R, j) PROVE <<i, j>> \in R
  <2>1. Rank(C, R, i) \in Nat /\ Rank(C, R, j) \in Nat
    BY <1>7
  <2>2. <<j, i>> \notin R
    BY <1>6, <1>9, <2>1
  <2> QED BY <1>8, <1>9, <2>1, <2>2
<1>10. ASSUME NEW i \in C, NEW j \in C, Rank(C, R, i) = Rank(C, R, j) PROVE i = j
  <2>1. ~(Rank(C, R, i) < Rank(C, R, j)) /\ ~(Rank(C, R, j) < Rank(C, R, i))
    BY <1>7, <1>10
  <2>2. <<i, j>> \notin R /\ <<j, i>> \notin R
    BY <1>6, <2>1
  <2> QED BY <1>8, <2>2
<1> QED BY <1>6, <1>7, <1>9, <1>10

\* Every rank below the number of members is some member's.
LEMMA RanksFilled ==
  ASSUME NEW C, IsFiniteSet(C), NEW R, Orders(R, C), NEW m \in 0 .. Cardinality(C) - 1
  PROVE  \E i \in C : Rank(C, R, i) = m
<1> DEFINE N == Cardinality(C)
           T == 0 .. N - 1
           f == [i \in C |-> Rank(C, R, i)]
<1>1. N \in Nat /\ N # 0
  BY FS_CardinalityType
<1>2. IsFiniteSet(T) /\ Cardinality(T) = N
  BY <1>1, FS_Interval
<1> HIDE DEF T, N
<1>3. f \in Injection(C, T)
  BY RankGrows DEF Injection, IsInjective, T, N
<1> HIDE DEF f
<1>4. f \in Surjection(C, T)
  BY <1>2, <1>3, FS_Injection DEF N
<1>5. PICK i \in C : f[i] = m
  BY <1>4 DEF Surjection, T, N
<1> QED BY <1>5 DEF f

\* s lists the members of C in the order R.
Lists(s, C, R) == /\ s \in [1 .. Cardinality(C) -> C]
                  /\ \A a, b \in 1 .. Cardinality(C) : a < b => <<s[a], s[b]>> \in R

\* There is such a list.
LEMMA Arrangement ==
  ASSUME NEW C, IsFiniteSet(C), NEW R, Orders(R, C)
  PROVE  \E s : Lists(s, C, R)
<1> DEFINE N == Cardinality(C)
<1>1. N \in Nat
  BY FS_CardinalityType
<1>2. ASSUME NEW n \in 1 .. N PROVE \E i \in C : Rank(C, R, i) = n - 1
  <2>1. n - 1 \in 0 .. N - 1
    BY <1>1
  <2> QED BY <2>1, RanksFilled
<1> HIDE DEF N
<1> DEFINE s == [n \in 1 .. N |-> CHOOSE i \in C : Rank(C, R, i) = n - 1]
<1>6. \A n \in 1 .. N : s[n] \in C /\ Rank(C, R, s[n]) = n - 1
  BY <1>2
<1>7. s = [n \in 1 .. N |-> s[n]]
  OBVIOUS
<1> HIDE DEF s
<1>8. \A a, b \in 1 .. N : a < b => <<s[a], s[b]>> \in R
  <2> SUFFICES ASSUME NEW a \in 1 .. N, NEW b \in 1 .. N, a < b PROVE <<s[a], s[b]>> \in R
    OBVIOUS
  <2>1. a - 1 < b - 1
    BY <1>1
  <2> QED BY <1>6, <2>1, RankGrows
<1> QED BY <1>6, <1>7, <1>8 DEF Lists, N

\* Such a list has every member once.
LEMMA ListsAll ==
  ASSUME NEW C, IsFiniteSet(C), NEW R, Orders(R, C), NEW s, Lists(s, C, R)
  PROVE  /\ s \in Seq(C) /\ Len(s) = Cardinality(C)
         /\ \A a, b \in 1 .. Len(s) : s[a] = s[b] => a = b
         /\ \A i \in C : \E a \in 1 .. Len(s) : s[a] = i
<1> DEFINE N == Cardinality(C)
<1>1. N \in Nat
  BY FS_CardinalityType
<1>2. s \in Seq(C) /\ Len(s) = N
  BY <1>1 DEF Lists
<1>3. \A a, b \in 1 .. N : s[a] = s[b] => a = b
  <2> SUFFICES ASSUME NEW a \in 1 .. N, NEW b \in 1 .. N, s[a] = s[b], a < b PROVE FALSE
    BY <1>1
  <2> QED BY DEF Lists, Orders
<1>4. s \in Injection(1 .. N, C)
  BY <1>3 DEF Lists, Injection, IsInjective
<1>5. IsFiniteSet(1 .. N) /\ Cardinality(1 .. N) = N
  <2>1. CASE N = 0
    BY <2>1, FS_Interval
  <2>2. CASE N # 0
    BY <1>1, <2>2, FS_Interval
  <2> QED BY <2>1, <2>2
<1> HIDE DEF N
<1>6. s \in Surjection(1 .. N, C)
  BY <1>4, <1>5, FS_Injection DEF N
<1> QED BY <1>2, <1>3, <1>6 DEF Surjection, N

-----------------------------------------------------------------------------
(* Graphs and what a search of one layer reaches                           *)

Node == UNION {NodeOf(l) : l \in Layers}

\* n is a graph: its nodes are of their type and have a list for each layer.
IsGraph(n) == /\ n \in [Ids -> Node \cup {None}]
              /\ \A i \in Stored(n) : DOMAIN n[i].links = 0 .. n[i].layer

\* The constants, as the proofs use them.
LEMMA Constants ==
  /\ MaxIds \in Nat /\ MaxOps \in Nat /\ M \in Nat \ {0} /\ MMax \in Nat \ {0}
  /\ Points \subseteq Int /\ Layers \subseteq Nat
  /\ None \notin Int /\ None \notin Node /\ None \notin Ids
  /\ \A l \in Nat : MaxNeighbors(l) \in Nat \ {0}
<1>1. \A l \in Layers : None \notin NodeOf(l)
  BY HnswAssumption
<1> QED BY <1>1, HnswAssumption DEF Ids, MaxNeighbors, Node

\* The parts of a node.
LEMMA NodeParts ==
  ASSUME NEW n, IsGraph(n), NEW i \in Stored(n)
  PROVE  /\ i \in Ids /\ n[i] \in Node /\ n[i].deleted \in BOOLEAN
         /\ n[i].layer \in Layers /\ n[i].layer \in Nat /\ 0 \in 0 .. n[i].layer
         /\ n[i].at \in Points /\ n[i].at \in Int
         /\ n[i].links \in [0 .. n[i].layer -> Seq(Ids)]
<1>1. i \in Ids /\ n[i] \in Node
  BY DEF Stored, IsGraph
<1>3. PICK l \in Layers : n[i] \in NodeOf(l)
  BY <1>1 DEF Node
<1>2. /\ n[i].deleted \in BOOLEAN /\ n[i].layer \in Layers /\ n[i].at \in Points
      /\ n[i].links \in [0 .. l -> Seq(Ids)]
  BY <1>3 DEF NodeOf
<1>4. DOMAIN n[i].links = 0 .. n[i].layer
  BY DEF IsGraph
<1>5. n[i].links \in [0 .. n[i].layer -> Seq(Ids)]
  BY <1>2, <1>4
<1>6. n[i].layer \in Nat /\ n[i].at \in Int
  BY <1>2, Constants
<1> QED BY <1>1, <1>2, <1>5, <1>6

\* A node's list for a layer, which is empty above its own.
LEMMA LinksType ==
  ASSUME NEW n, IsGraph(n), NEW i \in Stored(n), NEW l
  PROVE  /\ Links(n, i, l) \in Seq(Ids) /\ Len(Links(n, i, l)) \in Nat
         /\ DOMAIN Links(n, i, l) = 1 .. Len(Links(n, i, l))
         /\ l \in 0 .. n[i].layer => Links(n, i, l) = n[i].links[l]
         /\ l \notin 0 .. n[i].layer => Links(n, i, l) = <<>>
<1> DEFINE links == n[i].links
           D == 0 .. n[i].layer
<1>1. links \in [D -> Seq(Ids)]
  BY NodeParts
<1>2. Links(n, i, l) = IF l \in DOMAIN links THEN links[l] ELSE <<>>
  BY DEF Links
<1> HIDE DEF links, D
<1>3. Links(n, i, l) \in Seq(Ids)
  BY <1>1, <1>2
<1>4. /\ l \in D => Links(n, i, l) = links[l]
      /\ l \notin D => Links(n, i, l) = <<>>
  BY <1>1, <1>2
<1> QED BY <1>3, <1>4 DEF links, D

\* What a search of a layer reaches: the smallest closed set around its start.
LEMMA ReachedLeast ==
  ASSUME NEW n, NEW from, NEW l
  PROVE  /\ Reached(n, from, l) \subseteq Stored(n)
         /\ from \cap Stored(n) \subseteq Reached(n, from, l)
         /\ Closed(n, Reached(n, from, l), l)
         /\ \A S \in SUBSET Stored(n) :
              from \cap Stored(n) \subseteq S /\ Closed(n, S, l) => Reached(n, from, l) \subseteq S
<1>1. ASSUME NEW i \in Reached(n, from, l), NEW j \in Neighbors(n, i, l) PROVE j \in Reached(n, from, l)
  <2>1. j \in Stored(n)
    BY DEF Neighbors, Listed
  <2>2. ASSUME NEW S \in SUBSET Stored(n), from \cap Stored(n) \subseteq S, Closed(n, S, l) PROVE j \in S
    <3>1. i \in S
      BY <2>2 DEF Reached
    <3> QED BY <2>2, <3>1 DEF Closed
  <2> QED BY <2>1, <2>2 DEF Reached
<1>2. Closed(n, Reached(n, from, l), l)
  BY <1>1 DEF Closed
<1> QED BY <1>2 DEF Reached

\* A distance is a natural number.
LEMMA DistanceType == ASSUME NEW a \in Int, NEW b \in Int PROVE Distance(a, b) \in Nat
BY DEF Distance

\* Of the positions that improve, one is the first of the nearest.
LEMMA BestExists ==
  ASSUME NEW K \in SUBSET Nat, K # {}, NEW g, \A k \in K : g[k] \in Nat
  PROVE  \E k \in K : \A o \in K : g[k] < g[o] \/ (g[k] = g[o] /\ k <= o)
<1> DEFINE G == {g[k] : k \in K}
<1>1. G \in SUBSET Nat /\ G # {}
  OBVIOUS
<1> HIDE DEF G
<1>2. PICK m \in G : \A o \in G : m <= o
  BY <1>1, LeastMember
<1> DEFINE E == {k \in K : g[k] = m}
<1>3. E \in SUBSET Nat /\ E # {}
  BY DEF G
<1> HIDE DEF E
<1>4. PICK k \in E : \A o \in E : k <= o
  BY <1>3, LeastMember
<1>5. k \in K /\ g[k] = m
  BY DEF E
<1>6. ASSUME NEW o \in K PROVE g[k] < g[o] \/ (g[k] = g[o] /\ k <= o)
  <2>1. g[o] \in G /\ m <= g[o]
    BY <1>2 DEF G
  <2>2. CASE g[o] = m
    <3>1. o \in E
      BY <2>2 DEF E
    <3> QED BY <1>4, <1>5, <2>2, <3>1
  <2>3. CASE g[o] # m
    BY <1>1, <1>2, <1>5, <2>1, <2>3
  <2> QED BY <2>2, <2>3
<1> QED BY <1>5, <1>6

\* A round of the greedy walk stays in a closed set.
LEMMA HopStays ==
  ASSUME NEW n, IsGraph(n), NEW q \in Int, NEW l, NEW S \in SUBSET Stored(n), Closed(n, S, l), NEW i \in S
  PROVE  Hop(n, q, i, l) \in S
<1> DEFINE links == Links(n, i, l)
           Gap(k) == Distance(q, n[links[k]].at)
           K == {k \in DOMAIN links : links[k] \in Stored(n) /\ Gap(k) < Distance(q, n[i].at)}
           Best(k) == \A o \in K : Gap(k) < Gap(o) \/ (Gap(k) = Gap(o) /\ k <= o)
           g == [k \in K |-> Gap(k)]
<1>1. links \in Seq(Ids) /\ DOMAIN links = 1 .. Len(links) /\ Len(links) \in Nat
  BY LinksType
<1>2. \A k \in K : g[k] = Gap(k)
  OBVIOUS
<1>3. Hop(n, q, i, l) = IF K = {} THEN i ELSE links[CHOOSE k \in K : Best(k)]
  BY DEF Hop
<1>4. K \in SUBSET Nat /\ \A k \in K : links[k] \in Stored(n) /\ k \in 1 .. Len(links)
  BY <1>1
<1> HIDE DEF links
<1>5. \A k \in K : g[k] \in Nat
  <2> SUFFICES ASSUME NEW k \in K PROVE Gap(k) \in Nat
    BY <1>2
  <2>1. n[links[k]].at \in Int
    BY <1>4, NodeParts
  <2> QED BY <2>1, DistanceType
<1> HIDE DEF K, g, Gap
<1>6. CASE K # {}
  <2>0. \E k \in K : \A o \in K : g[k] < g[o] \/ (g[k] = g[o] /\ k <= o)
    BY <1>4, <1>5, <1>6, BestExists
  <2>1. \E k \in K : Best(k)
    BY <1>2, <2>0
  <2> DEFINE b == CHOOSE k \in K : Best(k)
  <2>2. b \in K
    <3> HIDE DEF Best
    <3> QED BY <2>1
  <2> HIDE DEF b
  <2>3. links[b] \in Neighbors(n, i, l)
    BY <1>4, <2>2 DEF Neighbors, Listed, links
  <2>4. links[b] \in S
    BY <2>3 DEF Closed
  <2> QED BY <1>3, <1>6, <2>4 DEF b
<1> QED BY <1>3, <1>6

\* So does the whole walk.
LEMMA GreedyStays ==
  ASSUME NEW n, IsGraph(n), NEW q \in Int, NEW l, NEW S \in SUBSET Stored(n), Closed(n, S, l), NEW i \in S
  PROVE  Greedy(n, q, i, l) \in S
<1> DEFINE h == [p \in Nat \X S |-> Hop(n, q, p[2], l)]
           Walk(w) == w = [k \in Nat |-> IF k = 0 THEN i ELSE Hop(n, q, w[k - 1], l)]
<1>1. h \in [Nat \X S -> S]
  BY HopStays
<1>2. \A k \in Nat : \A x \in S : h[<<k, x>>] = Hop(n, q, x, l)
  OBVIOUS
<1> HIDE DEF h
<1>3. PICK f : Runs(f, S, i, h)
  BY <1>1, Recursion
<1>4. Walk(f)
  <2>1. ASSUME NEW k \in Nat PROVE f[k] = IF k = 0 THEN i ELSE Hop(n, q, f[k - 1], l)
    <3>1. CASE k # 0
      <4>1. k - 1 \in Nat /\ (k - 1) + 1 = k
        BY <3>1
      <4>2. f[k] = h[<<k, f[k - 1]>>] /\ f[k - 1] \in S
        BY <1>3, <4>1 DEF Runs
      <4> QED BY <1>2, <3>1, <4>2
    <3> QED BY <1>3, <3>1 DEF Runs
  <2>2. f = [k \in Nat |-> f[k]]
    BY <1>3 DEF Runs
  <2> QED BY <2>1, <2>2
<1> DEFINE w == CHOOSE w : Walk(w)
<1>5. Walk(w)
  <2> HIDE DEF Walk
  <2> QED BY <1>4
<1>6. Greedy(n, q, i, l) = w[MaxIds]
  BY DEF Greedy
<1> HIDE DEF w
<1> DEFINE T == {k \in Nat : w[k] \in S}
<1>7. 0 \in T
  BY <1>5
<1>8. ASSUME NEW k \in Nat, k \in T PROVE k + 1 \in T
  <2>1. w[k + 1] = Hop(n, q, w[k], l)
    BY <1>5
  <2> QED BY <1>8, <2>1, HopStays
<1>9. Nat \subseteq T
  <2> HIDE DEF T
  <2> QED BY <1>7, <1>8, SetInduction
<1> QED BY <1>6, <1>9, Constants

\* And the descent through the layers.
LEMMA DescendStays ==
  ASSUME NEW n, IsGraph(n), NEW q \in Int, NEW S \in SUBSET Stored(n), \A l \in Int : Closed(n, S, l),
         NEW i \in S, NEW top \in Nat, NEW l \in Nat
  PROVE  Descend(n, q, i, top, l) \in S
<1> DEFINE h == [p \in Nat \X S |-> Greedy(n, q, p[2], top - p[1] + 1)]
           Walk(w) == w = [k \in Nat |-> IF k = 0 THEN i ELSE Greedy(n, q, w[k - 1], top - k + 1)]
<1>0. \A k \in Nat : \A x \in S : Greedy(n, q, x, top - k + 1) \in S
  <2> SUFFICES ASSUME NEW k \in Nat, NEW x \in S PROVE Greedy(n, q, x, top - k + 1) \in S
    OBVIOUS
  <2>1. Closed(n, S, top - k + 1)
    OBVIOUS
  <2> QED BY <2>1, GreedyStays
<1>1. h \in [Nat \X S -> S]
  BY <1>0
<1>2. \A k \in Nat : \A x \in S : h[<<k, x>>] = Greedy(n, q, x, top - k + 1)
  OBVIOUS
<1> HIDE DEF h
<1>3. PICK f : Runs(f, S, i, h)
  BY <1>1, Recursion
<1>4. Walk(f)
  <2>1. ASSUME NEW k \in Nat PROVE f[k] = IF k = 0 THEN i ELSE Greedy(n, q, f[k - 1], top - k + 1)
    <3>1. CASE k # 0
      <4>1. k - 1 \in Nat /\ (k - 1) + 1 = k
        BY <3>1
      <4>2. f[k] = h[<<k, f[k - 1]>>] /\ f[k - 1] \in S
        BY <1>3, <4>1 DEF Runs
      <4> QED BY <1>2, <3>1, <4>2
    <3> QED BY <1>3, <3>1 DEF Runs
  <2>2. f = [k \in Nat |-> f[k]]
    BY <1>3 DEF Runs
  <2> QED BY <2>1, <2>2
<1> DEFINE w == CHOOSE w : Walk(w)
<1>5. Walk(w)
  <2> HIDE DEF Walk
  <2> QED BY <1>4
<1>6. Descend(n, q, i, top, l) = IF l < top THEN w[top - l] ELSE i
  BY DEF Descend
<1> HIDE DEF w
<1> DEFINE T == {k \in Nat : w[k] \in S}
<1>7. 0 \in T
  BY <1>5
<1>8. ASSUME NEW k \in Nat, k \in T PROVE k + 1 \in T
  <2>1. w[k + 1] = Greedy(n, q, w[k], top - (k + 1) + 1)
    BY <1>5
  <2> QED BY <1>0, <1>8, <2>1
<1>9. Nat \subseteq T
  <2> HIDE DEF T
  <2> QED BY <1>7, <1>8, SetInduction
<1>10. l < top => top - l \in Nat
  OBVIOUS
<1> QED BY <1>6, <1>9, <1>10

\* A closed set around the entry point holds all candidates for a new node; they
\* are closed on their layer, and there are some on each layer up to the top.
LEMMA CandidatesStay ==
  ASSUME IsGraph(nodes), NEW q \in Int, NEW S \in SUBSET Stored(nodes), \A l \in Int : Closed(nodes, S, l),
         entry \in S, maxLayer \in Nat, NEW layer \in Nat, NEW l \in Nat
  PROVE  /\ Candidates(q, layer, l) \subseteq S
         /\ l <= layer /\ l <= maxLayer =>
              /\ Closed(nodes, Candidates(q, layer, l), l)
              /\ Candidates(q, layer, l) # {}
<1> DEFINE top == IF layer < maxLayer THEN layer ELSE maxLayer
           d == Descend(nodes, q, entry, maxLayer, layer)
           first == Reached(nodes, {d}, top)
           Sets == {C \in SUBSET S : d \in C}
           h == [p \in Nat \X Sets |-> Reached(nodes, p[2], top - p[1])]
           Found(w) == w = [k \in Nat |-> IF k = 0 THEN first ELSE Reached(nodes, w[k - 1], top - k)]
<1>0. d \in S /\ d \in Stored(nodes) /\ top \in Nat
  BY DescendStays
<1> HIDE DEF d
<1>1. \A k \in Int : \A C \in Sets : Reached(nodes, C, k) \in Sets /\ Closed(nodes, Reached(nodes, C, k), k)
  <2> SUFFICES ASSUME NEW k \in Int, NEW C \in Sets
               PROVE  Reached(nodes, C, k) \in Sets /\ Closed(nodes, Reached(nodes, C, k), k)
    OBVIOUS
  <2>1. C \cap Stored(nodes) \subseteq S /\ d \in C \cap Stored(nodes)
    BY <1>0
  <2> QED BY <2>1, ReachedLeast
<1>2. first \in Sets /\ Closed(nodes, first, top)
  <2>1. {d} \in Sets /\ top \in Int
    BY <1>0
  <2> HIDE DEF Sets, top
  <2> QED BY <1>1, <2>1
<1>3. h \in [Nat \X Sets -> Sets]
  <2> SUFFICES ASSUME NEW p \in Nat \X Sets PROVE Reached(nodes, p[2], top - p[1]) \in Sets
    OBVIOUS
  <2>1. top - p[1] \in Int /\ p[2] \in Sets
    BY <1>0
  <2> HIDE DEF Sets, top
  <2> QED BY <1>1, <2>1
<1>4. \A k \in Nat : \A C \in Sets : h[<<k, C>>] = Reached(nodes, C, top - k)
  OBVIOUS
<1> HIDE DEF h, first, Sets
<1>5. PICK f : Runs(f, Sets, first, h)
  BY <1>2, <1>3, Recursion
<1>6. Found(f)
  <2>1. ASSUME NEW k \in Nat PROVE f[k] = IF k = 0 THEN first ELSE Reached(nodes, f[k - 1], top - k)
    <3>1. CASE k # 0
      <4>1. k - 1 \in Nat /\ (k - 1) + 1 = k
        BY <3>1
      <4>2. f[k] = h[<<k, f[k - 1]>>] /\ f[k - 1] \in Sets
        BY <1>5, <4>1 DEF Runs
      <4> QED BY <1>4, <3>1, <4>2
    <3> QED BY <1>5, <3>1 DEF Runs
  <2>2. f = [k \in Nat |-> f[k]]
    BY <1>5 DEF Runs
  <2> QED BY <2>1, <2>2
<1> DEFINE w == CHOOSE w : Found(w)
<1>7. Found(w)
  <2> HIDE DEF Found
  <2> QED BY <1>6
<1>8. Candidates(q, layer, l) = IF l > top THEN {} ELSE w[top - l]
  BY DEF Candidates, first, d
<1> HIDE DEF w
<1> DEFINE T == {k \in Nat : w[k] \in Sets /\ Closed(nodes, w[k], top - k)}
<1>9. 0 \in T
  <2>1. w[0] = first /\ top - 0 = top
    BY <1>0, <1>7
  <2> HIDE DEF top
  <2> QED BY <1>2, <2>1
<1>10. ASSUME NEW k \in Nat, k \in T PROVE k + 1 \in T
  <2>1. w[k + 1] = Reached(nodes, w[k], top - (k + 1)) /\ top - (k + 1) \in Int /\ w[k] \in Sets
    BY <1>0, <1>7, <1>10
  <2> HIDE DEF top
  <2> QED BY <1>1, <2>1
<1>11. Nat \subseteq T
  <2> HIDE DEF T
  <2> QED BY <1>9, <1>10, SetInduction
<1>12. ASSUME l <= top PROVE w[top - l] \in Sets /\ Closed(nodes, w[top - l], l)
  <2>1. top - l \in Nat /\ top - (top - l) = l
    BY <1>0, <1>12
  <2> HIDE DEF top
  <2> QED BY <1>11, <2>1
<1>13. (l <= layer /\ l <= maxLayer => l <= top) /\ (l > top \/ l <= top) /\ ~(l > top /\ l <= top)
  BY <1>0
<1> HIDE DEF top
<1> QED BY <1>8, <1>12, <1>13 DEF Sets

-----------------------------------------------------------------------------
(* Lists                                                                   *)

\* The ids are finitely many, and the positions of a list.
LEMMA IdsFinite == /\ IsFiniteSet(Ids) /\ \A C \in SUBSET Ids : IsFiniteSet(C) /\ Cardinality(C) \in Nat
                   /\ Cardinality(Ids) = MaxIds
<1>1. IsFiniteSet(Ids) /\ Cardinality(Ids) = MaxIds
  <2>1. CASE MaxIds = 0
    BY <2>1, FS_Interval DEF Ids
  <2>2. CASE MaxIds # 0
    BY Constants, <2>2, FS_Interval DEF Ids
  <2> QED BY <2>1, <2>2
<1> QED BY <1>1, FS_Subset, FS_CardinalityType

\* Some positions of a list are no more than there are.
LEMMA PositionsFinite ==
  ASSUME NEW N \in Nat, NEW K \in SUBSET (1 .. N)
  PROVE  IsFiniteSet(K) /\ Cardinality(K) \in Nat /\ Cardinality(K) <= N
<1>1. IsFiniteSet(1 .. N) /\ Cardinality(1 .. N) = N
  <2>1. CASE N = 0
    BY <2>1, FS_Interval
  <2>2. CASE N # 0
    BY <2>2, FS_Interval
  <2> QED BY <2>1, <2>2
<1> DEFINE T == 1 .. N
<1> HIDE DEF T
<1>2. IsFiniteSet(T) /\ Cardinality(T) = N /\ K \in SUBSET T
  BY <1>1 DEF T
<1>3. IsFiniteSet(K) /\ Cardinality(K) <= N
  BY <1>2, FS_Subset
<1> QED BY <1>3, FS_CardinalityType

\* The first entries of a list.
LEMMA TruncateParts ==
  ASSUME NEW C, NEW s \in Seq(C), NEW max \in Nat
  PROVE  /\ Truncate(s, max) \in Seq(C) /\ Len(Truncate(s, max)) <= max
         /\ Len(Truncate(s, max)) = (IF Len(s) < max THEN Len(s) ELSE max)
         /\ \A k \in 1 .. Len(Truncate(s, max)) : k \in 1 .. Len(s) /\ Truncate(s, max)[k] = s[k]
<1> DEFINE m == IF Len(s) < max THEN Len(s) ELSE max
<1>1. m \in Nat /\ m <= max /\ m <= Len(s)
  OBVIOUS
<1>2. Truncate(s, max) = [k \in 1 .. m |-> s[k]]
  BY DEF Truncate
<1>3. \A k \in 1 .. m : k \in 1 .. Len(s) /\ s[k] \in C
  BY <1>1
<1>4. m = IF Len(s) < max THEN Len(s) ELSE max
  OBVIOUS
<1> HIDE DEF m
<1> QED BY <1>1, <1>2, <1>3, <1>4

\* Sorted lists every candidate once.
LEMMA SortedAll ==
  ASSUME NEW n, IsGraph(n), NEW q \in Int, NEW C \in SUBSET Stored(n)
  PROVE  LET s == Sorted(n, C, q)
         IN  /\ s \in Seq(C) /\ Len(s) = Cardinality(C) /\ Len(s) \in Nat
             /\ \A a, b \in 1 .. Len(s) : s[a] = s[b] => a = b
             /\ Listed(s) = C
<1> DEFINE R == {p \in C \X C : Nearer(n, q, p[1], p[2])}
           F == [1 .. Cardinality(C) -> C]
           Body(s) == \A a, b \in DOMAIN s : a < b => Nearer(n, q, s[a], s[b])
           s == Sorted(n, C, q)
<1>1. IsFiniteSet(C) /\ C \subseteq Ids
  BY IdsFinite DEF Stored
<1>2. \A i, j \in C : <<i, j>> \in R <=> Nearer(n, q, i, j)
  OBVIOUS
<1>3. \A i \in C : i \in Nat /\ Distance(q, n[i].at) \in Nat
  <2> SUFFICES ASSUME NEW i \in C PROVE i \in Nat /\ Distance(q, n[i].at) \in Nat
    OBVIOUS
  <2>1. i \in Ids /\ i \in Stored(n)
    BY <1>1
  <2>2. n[i].at \in Int
    BY <2>1, NodeParts
  <2>3. Distance(q, n[i].at) \in Nat
    BY <2>2, DistanceType
  <2> QED BY <2>1, <2>3, Constants DEF Ids
<1>4. Orders(R, C)
  <2> HIDE DEF R
  <2> QED BY <1>2, <1>3 DEF Orders, Nearer
<1>5. s = CHOOSE e \in F : Body(e)
  BY DEF Sorted, Arranged
<1>6. \A e : Lists(e, C, R) <=> e \in F /\ Body(e)
  <2> SUFFICES ASSUME NEW e \in F PROVE Lists(e, C, R) <=> Body(e)
    BY DEF Lists
  <2>1. DOMAIN e = 1 .. Cardinality(C) /\ \A a \in DOMAIN e : e[a] \in C
    OBVIOUS
  <2> HIDE DEF R
  <2> QED BY <1>2, <2>1 DEF Lists
<1> HIDE DEF R, F, Body, s
<1>7. \E e \in F : Body(e)
  BY <1>1, <1>4, <1>6, Arrangement
<1>8. Lists(s, C, R)
  BY <1>5, <1>6, <1>7
<1>9. /\ s \in Seq(C) /\ Len(s) = Cardinality(C)
      /\ \A a, b \in 1 .. Len(s) : s[a] = s[b] => a = b
      /\ \A i \in C : \E a \in 1 .. Len(s) : s[a] = i
  BY <1>1, <1>4, <1>8, ListsAll
<1>10. Listed(s) = C /\ Len(s) \in Nat
  BY <1>9 DEF Listed
<1> QED BY <1>9, <1>10 DEF s

\* What a list retains: the entries in S, in their order.
LEMMA RetainParts ==
  ASSUME NEW list \in Seq(Ids), NEW S
  PROVE  LET r == Retain(list, S)
         IN  /\ r \in Seq(Ids) /\ Len(r) <= Len(list)
             /\ Listed(r) = Listed(list) \cap S
             /\ (\A a, b \in 1 .. Len(list) : list[a] = list[b] => a = b)
                  => \A a, b \in 1 .. Len(r) : r[a] = r[b] => a = b
<1> DEFINE K == {k \in DOMAIN list : list[k] \in S}
           R == {p \in K \X K : p[1] < p[2]}
           F == [1 .. Cardinality(K) -> K]
           Body(e) == \A a, b \in DOMAIN e : a < b => e[a] < e[b]
           order == CHOOSE e \in F : Body(e)
           r == Retain(list, S)
<1>1. K \subseteq 1 .. Len(list) /\ Len(list) \in Nat
  OBVIOUS
<1>2. IsFiniteSet(K) /\ Cardinality(K) \in Nat /\ Cardinality(K) <= Len(list)
  BY <1>1, PositionsFinite
<1>3. r = [k \in DOMAIN order |-> list[order[k]]]
  BY DEF Retain, Arranged
<1>4. \A i, j \in K : <<i, j>> \in R <=> i < j
  OBVIOUS
<1>4a. \A k \in K : list[k] \in S /\ list[k] \in Ids
  OBVIOUS
<1>4b. \A k \in 1 .. Len(list) : list[k] \in S => k \in K
  OBVIOUS
<1> HIDE DEF R, K
<1>5. Orders(R, K)
  BY <1>1, <1>4 DEF Orders
<1>6. \A e : Lists(e, K, R) <=> e \in F /\ Body(e)
  <2> SUFFICES ASSUME NEW e \in F PROVE Lists(e, K, R) <=> Body(e)
    BY DEF Lists
  <2>1. DOMAIN e = 1 .. Cardinality(K) /\ \A a \in DOMAIN e : e[a] \in K
    OBVIOUS
  <2> QED BY <1>4, <2>1 DEF Lists
<1> HIDE DEF F, Body
<1>7. \E e \in F : Body(e)
  BY <1>2, <1>5, <1>6, Arrangement
<1>8. Lists(order, K, R)
  BY <1>6, <1>7
<1> HIDE DEF order, r
<1>9. /\ order \in Seq(K) /\ Len(order) = Cardinality(K)
      /\ \A a, b \in 1 .. Len(order) : order[a] = order[b] => a = b
      /\ \A i \in K : \E a \in 1 .. Len(order) : order[a] = i
  BY <1>2, <1>5, <1>8, ListsAll
<1>10. /\ r \in Seq(Ids) /\ Len(r) = Len(order)
       /\ \A k \in 1 .. Len(r) : order[k] \in K /\ r[k] = list[order[k]]
  <2>1. DOMAIN order = 1 .. Len(order) /\ Len(order) \in Nat /\ \A k \in 1 .. Len(order) : order[k] \in K
    BY <1>9
  <2>2. r = [k \in 1 .. Len(order) |-> list[order[k]]]
    BY <1>3, <2>1
  <2>3. \A k \in 1 .. Len(order) : list[order[k]] \in Ids
    BY <1>4a, <2>1
  <2> QED BY <2>1, <2>2, <2>3
<1>11. Listed(r) = Listed(list) \cap S
  <2>1. ASSUME NEW k \in 1 .. Len(r) PROVE r[k] \in Listed(list) \cap S
    BY <1>1, <1>4a, <1>10 DEF Listed
  <2>2. ASSUME NEW k \in 1 .. Len(list), list[k] \in S PROVE \E a \in 1 .. Len(r) : r[a] = list[k]
    <3>1. PICK a \in 1 .. Len(order) : order[a] = k
      BY <1>4b, <1>9, <2>2
    <3> QED BY <1>10, <3>1
  <2> QED BY <2>1, <2>2 DEF Listed
<1>12. ASSUME \A a, b \in 1 .. Len(list) : list[a] = list[b] => a = b, NEW a \in 1 .. Len(r), NEW b \in 1 .. Len(r),
              r[a] = r[b]
       PROVE  a = b
  <2>1. order[a] \in 1 .. Len(list) /\ order[b] \in 1 .. Len(list) /\ list[order[a]] = list[order[b]]
    BY <1>1, <1>10, <1>12
  <2>2. order[a] = order[b]
    BY <1>12, <2>1
  <2> QED BY <1>9, <1>10, <2>2
<1>13. Len(r) <= Len(list)
  BY <1>2, <1>9, <1>10
<1> QED BY <1>10, <1>11, <1>12, <1>13 DEF r

\* What pruning leaves of a list: all of it if it fits, or as many of its entries,
\* of nodes that exist, as there is room for.
LEMMA PruneParts ==
  ASSUME NEW n, IsGraph(n), NEW j \in Stored(n), NEW list \in Seq(Ids), NEW max \in Nat
  PROVE  LET r == Prune(n, j, list, max)
         IN  /\ r \in Seq(Ids) /\ Len(r) <= max
             /\ Len(list) <= max => r = list
             /\ Listed(r) \subseteq Listed(list)
             /\ Len(list) > max => Listed(r) \subseteq Stored(n)
<1> DEFINE Gap(k) == Distance(n[j].at, n[list[k]].at)
           K == {k \in DOMAIN list : list[k] \in Stored(n)}
           R == {p \in K \X K : Gap(p[1]) < Gap(p[2]) \/ (Gap(p[1]) = Gap(p[2]) /\ p[1] < p[2])}
           F == [1 .. Cardinality(K) -> K]
           Body(e) == \A a, b \in DOMAIN e :
                        a < b => Gap(e[a]) < Gap(e[b]) \/ (Gap(e[a]) = Gap(e[b]) /\ e[a] < e[b])
           order == CHOOSE e \in F : Body(e)
           near == [k \in DOMAIN order |-> list[order[k]]]
           r == Prune(n, j, list, max)
<1>1. K \subseteq 1 .. Len(list) /\ Len(list) \in Nat
  OBVIOUS
<1>2. IsFiniteSet(K) /\ Cardinality(K) \in Nat
  BY <1>1, PositionsFinite
<1>3. r = IF Len(list) <= max THEN list ELSE Truncate(near, max)
  BY DEF Prune, Arranged
<1>4. \A a, b \in K : <<a, b>> \in R <=> Gap(a) < Gap(b) \/ (Gap(a) = Gap(b) /\ a < b)
  OBVIOUS
<1>5. \A k \in K : list[k] \in Stored(n) /\ list[k] \in Ids /\ list[k] \in Listed(list)
  BY DEF Listed
<1> HIDE DEF R, K
<1>6. \A k \in K : Gap(k) \in Nat
  <2> SUFFICES ASSUME NEW k \in K PROVE Gap(k) \in Nat
    OBVIOUS
  <2>1. n[j].at \in Int /\ n[list[k]].at \in Int
    BY <1>5, NodeParts
  <2> QED BY <2>1, DistanceType
<1>7. Orders(R, K)
  <2> HIDE DEF Gap
  <2> QED BY <1>1, <1>4, <1>6 DEF Orders
<1>8. \A e : Lists(e, K, R) <=> e \in F /\ Body(e)
  <2> SUFFICES ASSUME NEW e \in F PROVE Lists(e, K, R) <=> Body(e)
    BY DEF Lists
  <2>1. DOMAIN e = 1 .. Cardinality(K) /\ \A a \in DOMAIN e : e[a] \in K
    OBVIOUS
  <2> HIDE DEF Gap
  <2> QED BY <1>4, <2>1 DEF Lists
<1> HIDE DEF F, Body
<1>9. \E e \in F : Body(e)
  BY <1>2, <1>7, <1>8, Arrangement
<1>10. Lists(order, K, R)
  BY <1>8, <1>9
<1> HIDE DEF order, r
<1>11. order \in Seq(K)
  BY <1>2, <1>7, <1>10, ListsAll
<1>12. near \in Seq(Ids) /\ Listed(near) \subseteq Listed(list) \cap Stored(n)
  <2>1. DOMAIN order = 1 .. Len(order) /\ Len(order) \in Nat /\ \A k \in 1 .. Len(order) : order[k] \in K
    BY <1>11
  <2>2. near = [k \in 1 .. Len(order) |-> list[order[k]]]
    BY <2>1
  <2>3. \A k \in 1 .. Len(order) : list[order[k]] \in Ids /\ list[order[k]] \in Listed(list) \cap Stored(n)
    BY <1>5, <2>1
  <2> HIDE DEF near
  <2>4. near \in Seq(Ids) /\ Len(near) = Len(order) /\ \A k \in 1 .. Len(near) : near[k] \in Listed(list) \cap Stored(n)
    BY <2>1, <2>2, <2>3
  <2> QED BY <2>4 DEF Listed
<1> HIDE DEF near
<1>13. /\ Truncate(near, max) \in Seq(Ids) /\ Len(Truncate(near, max)) <= max
       /\ Listed(Truncate(near, max)) \subseteq Listed(near)
  <2>1. /\ Truncate(near, max) \in Seq(Ids) /\ Len(Truncate(near, max)) <= max
        /\ \A k \in 1 .. Len(Truncate(near, max)) : k \in 1 .. Len(near) /\ Truncate(near, max)[k] = near[k]
    BY <1>12, TruncateParts
  <2> QED BY <2>1 DEF Listed
<1>14. CASE Len(list) <= max
  BY <1>1, <1>3, <1>14 DEF r
<1>15. CASE ~(Len(list) <= max)
  BY <1>1, <1>3, <1>12, <1>13, <1>15 DEF r
<1> QED BY <1>14, <1>15

\* The first round of the selection takes candidates, no more than fit.
LEMMA DiverseParts ==
  ASSUME NEW n, NEW C, NEW sorted \in Seq(C), NEW q, NEW max \in Nat
  PROVE  Diverse(n, sorted, q, max) \in Seq(C) /\ Len(Diverse(n, sorted, q, max)) <= max
<1> DEFINE Dominated(s, c) == \E k \in 1 .. Len(s) : Distance(n[c].at, n[s[k]].at) < Distance(q, n[c].at)
           Step(s, c) == IF Len(s) < max /\ (~Dominated(s, c) \/ Len(s) < max \div 2) THEN Append(s, c) ELSE s
           Pick(w) == w = [k \in Nat |-> IF k = 0 THEN <<>> ELSE Step(w[k - 1], sorted[k])]
           V == C \cup {sorted[k] : k \in Nat}
           A == {s \in Seq(V) : Len(s) <= max}
           h == [p \in Nat \X A |-> Step(p[2], sorted[p[1]])]
<1>1. \A B : \A s \in Seq(B) : \A c \in B :
        Len(s) <= max => Step(s, c) \in Seq(B) /\ Len(Step(s, c)) <= max
  <2> HIDE DEF Dominated
  <2> QED OBVIOUS
<1> HIDE DEF Step
<1>2. <<>> \in A
  OBVIOUS
<1>3. h \in [Nat \X A -> A]
  <2> SUFFICES ASSUME NEW p \in Nat \X A PROVE Step(p[2], sorted[p[1]]) \in A
    OBVIOUS
  <2>1. p[2] \in Seq(V) /\ Len(p[2]) <= max /\ sorted[p[1]] \in V
    OBVIOUS
  <2> HIDE DEF V
  <2> QED BY <1>1, <2>1
<1>4. \A k \in Nat : \A s \in A : h[<<k, s>>] = Step(s, sorted[k])
  OBVIOUS
<1> HIDE DEF h, A
<1>5. PICK f : Runs(f, A, <<>>, h)
  BY <1>2, <1>3, Recursion
<1>6. Pick(f)
  <2>1. ASSUME NEW k \in Nat PROVE f[k] = IF k = 0 THEN <<>> ELSE Step(f[k - 1], sorted[k])
    <3>1. CASE k # 0
      <4>1. k - 1 \in Nat /\ (k - 1) + 1 = k
        BY <3>1
      <4>2. f[k] = h[<<k, f[k - 1]>>] /\ f[k - 1] \in A
        BY <1>5, <4>1 DEF Runs
      <4> QED BY <1>4, <3>1, <4>2
    <3> QED BY <1>5, <3>1 DEF Runs
  <2>2. f = [k \in Nat |-> f[k]]
    BY <1>5 DEF Runs
  <2> QED BY <2>1, <2>2
<1> DEFINE w == CHOOSE w : Pick(w)
<1>7. Pick(w)
  <2> HIDE DEF Pick
  <2> QED BY <1>6
<1>8. Diverse(n, sorted, q, max) = w[Len(sorted)]
  BY DEF Diverse, Step
<1> HIDE DEF w
<1> DEFINE T == {k \in Nat : k <= Len(sorted) => w[k] \in Seq(C) /\ Len(w[k]) <= max}
<1>9. 0 \in T
  <2>1. w[0] = <<>>
    BY <1>7
  <2>2. w[0] \in Seq(C) /\ Len(w[0]) = 0
    BY <2>1
  <2> HIDE DEF Pick
  <2> QED BY <2>2
<1>10. ASSUME NEW k \in Nat, k \in T PROVE k + 1 \in T
  <2> SUFFICES ASSUME k + 1 <= Len(sorted) PROVE w[k + 1] \in Seq(C) /\ Len(w[k + 1]) <= max
    OBVIOUS
  <2>1. w[k + 1] = Step(w[k], sorted[k + 1]) /\ k <= Len(sorted) /\ sorted[k + 1] \in C
    BY <1>7
  <2>2. w[k] \in Seq(C) /\ Len(w[k]) <= max
    BY <1>10, <2>1
  <2> QED BY <1>1, <2>1, <2>2
<1>11. Nat \subseteq T
  <2> HIDE DEF T
  <2> QED BY <1>9, <1>10, SetInduction
<1>12. Len(sorted) \in Nat
  OBVIOUS
<1>13. Len(sorted) \in T
  BY <1>11, <1>12
<1> QED BY <1>8, <1>12, <1>13

\* The neighbours chosen for a new node are candidates, no more than fit, and all
\* of them, once each, if they fit.
LEMMA SelectParts ==
  ASSUME NEW n, IsGraph(n), NEW q \in Int, NEW C \in SUBSET Stored(n), NEW max \in Nat
  PROVE  LET r == Select(n, C, q, max)
         IN  /\ r \in Seq(Ids) /\ Len(r) <= max /\ Listed(r) \subseteq C
             /\ Cardinality(C) <= max =>
                  Listed(r) = C /\ \A a, b \in 1 .. Len(r) : r[a] = r[b] => a = b
<1> DEFINE sorted == Sorted(n, C, q)
           chosen == Diverse(n, sorted, q, max)
           others == Sorted(n, C \ Listed(chosen), q)
           rest == Truncate(others, max - Len(chosen))
           r == Select(n, C, q, max)
<1>1. r = IF Len(sorted) <= max THEN sorted ELSE chosen \o rest
  BY DEF Select
<1>2. /\ sorted \in Seq(C) /\ Len(sorted) = Cardinality(C) /\ Len(sorted) \in Nat
      /\ \A a, b \in 1 .. Len(sorted) : sorted[a] = sorted[b] => a = b
      /\ Listed(sorted) = C
  BY SortedAll
<1> HIDE DEF sorted
<1>3. chosen \in Seq(C) /\ Len(chosen) <= max /\ Len(chosen) \in Nat /\ max - Len(chosen) \in Nat
  <2>1. chosen \in Seq(C) /\ Len(chosen) <= max
    BY <1>2, DiverseParts
  <2> HIDE DEF chosen
  <2> QED BY <2>1
<1> HIDE DEF chosen
<1>4. others \in Seq(C)
  <2>1. C \ Listed(chosen) \in SUBSET Stored(n)
    OBVIOUS
  <2>2. others \in Seq(C \ Listed(chosen))
    BY <2>1, SortedAll
  <2> HIDE DEF others
  <2> QED BY <2>2
<1> HIDE DEF others
<1>5. rest \in Seq(C) /\ Len(rest) <= max - Len(chosen) /\ Len(rest) \in Nat
  <2>1. rest \in Seq(C) /\ Len(rest) <= max - Len(chosen)
    BY <1>3, <1>4, TruncateParts
  <2> HIDE DEF rest
  <2> QED BY <2>1
<1> HIDE DEF rest
<1>6. chosen \o rest \in Seq(C) /\ Len(chosen \o rest) <= max
  BY <1>3, <1>5
<1>7. C \subseteq Ids
  BY DEF Stored
<1>8. \A s \in Seq(C) : s \in Seq(Ids) /\ Listed(s) \subseteq C
  BY <1>7 DEF Listed
<1> HIDE DEF r
<1>9. CASE Len(sorted) <= max
  <2>1. r = sorted
    BY <1>1, <1>9
  <2> QED BY <1>2, <1>8, <1>9, <2>1 DEF r
<1>10. CASE ~(Len(sorted) <= max)
  <2>1. r = chosen \o rest
    BY <1>1, <1>10
  <2> QED BY <1>2, <1>6, <1>8, <1>10, <2>1 DEF r
<1> QED BY <1>9, <1>10

-----------------------------------------------------------------------------
(* What the operations do to a graph                                       *)

\* Each list of n leads to nodes that exist, and keeps to its bound.
Sound(n) == \A i \in Stored(n) : \A l \in 0 .. n[i].layer :
              Listed(n[i].links[l]) \subseteq Stored(n) /\ Len(n[i].links[l]) <= MaxNeighbors(l)

\* n after node i was put in, before the others link back.
Placed(n, i, q, layer, chosen) == [n EXCEPT ![i] = NewNode(layer, chosen, q)]

\* A new node is a node.
LEMMA NewNodeType ==
  ASSUME NEW q \in Points, NEW layer \in Layers, NEW chosen \in [0 .. layer -> Seq(Ids)]
  PROVE  /\ NewNode(layer, chosen, q) \in Node /\ NewNode(layer, chosen, q) # None
         /\ NewNode(layer, chosen, q).layer = layer /\ NewNode(layer, chosen, q).links = chosen
         /\ ~NewNode(layer, chosen, q).deleted /\ NewNode(layer, chosen, q).at = q
<1>1. NewNode(layer, chosen, q) \in NodeOf(layer)
  BY DEF NewNode, NodeOf
<1>2. NewNode(layer, chosen, q) \in Node
  BY <1>1 DEF Node
<1> QED BY <1>2, Constants DEF NewNode

\* The graph with the new node put in.
LEMMA PlacedParts ==
  ASSUME NEW n, IsGraph(n), NEW i \in Ids, NEW q \in Points, NEW layer \in Layers,
         NEW chosen \in [0 .. layer -> Seq(Ids)]
  PROVE  LET p == Placed(n, i, q, layer, chosen)
         IN  /\ IsGraph(p) /\ Stored(p) = Stored(n) \cup {i} /\ p \in [Ids -> Node \cup {None}]
             /\ p[i].layer = layer /\ p[i].links = chosen /\ ~p[i].deleted /\ p[i].at = q
             /\ \A j \in Stored(n) \ {i} : p[j] = n[j]
<1> DEFINE p == Placed(n, i, q, layer, chosen)
           new == NewNode(layer, chosen, q)
<1>1. new \in Node /\ new # None /\ new.layer = layer /\ new.links = chosen /\ ~new.deleted /\ new.at = q
  BY NewNodeType
<1>2. p = [n EXCEPT ![i] = new]
  BY DEF Placed
<1> HIDE DEF new, p
<1>3. p \in [Ids -> Node \cup {None}] /\ p[i] = new /\ \A j \in Ids \ {i} : p[j] = n[j]
  BY <1>1, <1>2 DEF IsGraph
<1>4. Stored(p) = Stored(n) \cup {i}
  BY <1>1, <1>3 DEF Stored
<1>5. \A j \in Stored(p) : DOMAIN p[j].links = 0 .. p[j].layer
  <2>1. DOMAIN p[i].links = 0 .. p[i].layer
    BY <1>1, <1>3
  <2>2. ASSUME NEW j \in Stored(p), j # i PROVE DOMAIN p[j].links = 0 .. p[j].layer
    <3>1. j \in Stored(n) /\ p[j] = n[j]
      BY <1>3, <1>4, <2>2 DEF Stored
    <3> QED BY <3>1 DEF IsGraph
  <2> QED BY <2>1, <2>2
<1>6. \A j \in Stored(n) \ {i} : p[j] = n[j]
  BY <1>3 DEF Stored
<1> QED BY <1>1, <1>3, <1>4, <1>5, <1>6 DEF IsGraph, p

\* A node whose lists are replaced.
LEMMA ListsChanged ==
  ASSUME NEW node \in Node, NEW links \in [0 .. node.layer -> Seq(Ids)]
  PROVE  LET new == [node EXCEPT !.links = links]
         IN  /\ new \in Node /\ new.links = links
             /\ new.layer = node.layer /\ new.deleted = node.deleted /\ new.at = node.at
<1>1. PICK l \in Layers : node \in NodeOf(l)
  BY DEF Node
<1>2. node.layer = l
  BY <1>1 DEF NodeOf
<1>3. [node EXCEPT !.links = links] \in NodeOf(l)
  BY <1>1, <1>2 DEF NodeOf
<1> QED BY <1>1, <1>3 DEF Node, NodeOf

\* c is the graph p with every link of the new node i made both ways: what changes
\* is the lists of the nodes that i links to, and nothing else.
Connects(c, p, n, i, layer, chosen) ==
  /\ IsGraph(c) /\ Stored(c) = Stored(n) \cup {i}
  /\ \A j \in Stored(c) :
       /\ c[j].layer = p[j].layer /\ c[j].deleted = p[j].deleted /\ c[j].at = p[j].at
       /\ \A l \in 0 .. c[j].layer :
            c[j].links[l] = IF l <= layer /\ j \in Listed(chosen[l])
                            THEN Prune(p, j, Append(p[j].links[l], i), MaxNeighbors(l))
                            ELSE p[j].links[l]

\* Connecting a node does that.
LEMMA ConnectParts ==
  ASSUME NEW n, IsGraph(n), NEW i \in Ids, NEW q \in Points, NEW layer \in Layers,
         NEW chosen \in [0 .. layer -> Seq(Ids)]
  PROVE  Connects(Connect(n, i, q, layer, chosen), Placed(n, i, q, layer, chosen), n, i, layer, chosen)
<1> DEFINE p == Placed(n, i, q, layer, chosen)
           c == Connect(n, i, q, layer, chosen)
           New(j, l) == IF l <= layer /\ j \in Listed(chosen[l])
                        THEN Prune(p, j, Append(p[j].links[l], i), MaxNeighbors(l))
                        ELSE p[j].links[l]
           L(j) == [l \in DOMAIN p[j].links |-> New(j, l)]
<1>1. /\ IsGraph(p) /\ Stored(p) = Stored(n) \cup {i} /\ p \in [Ids -> Node \cup {None}]
      /\ p[i].layer = layer
  BY PlacedParts
<1>2. c = [j \in Ids |-> IF p[j] = None THEN None ELSE [p[j] EXCEPT !.links = L(j)]]
  BY DEF Connect, Placed
<1> HIDE DEF p, c, New
<1>3. ASSUME NEW j \in Stored(p), NEW l \in 0 .. p[j].layer PROVE New(j, l) \in Seq(Ids)
  <2>1. p[j].links \in [0 .. p[j].layer -> Seq(Ids)] /\ p[j].layer \in Nat
    BY <1>1, NodeParts
  <2>2. p[j].links[l] \in Seq(Ids) /\ l \in Nat
    BY <2>1
  <2>3. Append(p[j].links[l], i) \in Seq(Ids) /\ MaxNeighbors(l) \in Nat
    <3>1. MaxNeighbors(l) \in Nat
      BY <2>2, Constants
    <3> QED BY <2>2, <3>1
  <2>4. Prune(p, j, Append(p[j].links[l], i), MaxNeighbors(l)) \in Seq(Ids)
    BY <1>1, <2>3, PruneParts
  <2> QED BY <2>2, <2>4 DEF New
<1>4. ASSUME NEW j \in Stored(p)
      PROVE  /\ c[j] \in Node /\ c[j] # None /\ c[j].links = L(j) /\ DOMAIN c[j].links = 0 .. c[j].layer
             /\ c[j].layer = p[j].layer /\ c[j].deleted = p[j].deleted /\ c[j].at = p[j].at
  <2>1. /\ j \in Ids /\ p[j] \in Node /\ p[j] # None /\ DOMAIN p[j].links = 0 .. p[j].layer
        /\ p[j].layer \in Layers
    BY <1>1, NodeParts DEF IsGraph, Stored
  <2>2. L(j) \in [0 .. p[j].layer -> Seq(Ids)]
    BY <1>3, <2>1
  <2> DEFINE lj == L(j)
  <2>3. c[j] = [p[j] EXCEPT !.links = lj]
    BY <1>2, <2>1
  <2> HIDE DEF lj
  <2>4. lj \in [0 .. p[j].layer -> Seq(Ids)]
    BY <2>1, <2>2 DEF lj
  <2>5. /\ c[j] \in Node /\ c[j].links = lj
        /\ c[j].layer = p[j].layer /\ c[j].deleted = p[j].deleted /\ c[j].at = p[j].at
    BY <2>1, <2>3, <2>4, ListsChanged
  <2>6. c[j] # None
    BY <2>5, Constants
  <2> QED BY <2>4, <2>5, <2>6 DEF lj
<1>5. Stored(c) = Stored(p)
  <2>1. \A j \in Ids : p[j] = None => c[j] = None
    BY <1>2
  <2> QED BY <1>4, <2>1 DEF Stored
<1>6. IsGraph(c)
  <2>1. \A j \in Ids : c[j] \in Node \cup {None}
    BY <1>2, <1>4 DEF Stored
  <2>2. c = [j \in Ids |-> c[j]]
    BY <1>2
  <2>3. c \in [Ids -> Node \cup {None}]
    BY <2>1, <2>2
  <2> QED BY <1>4, <1>5, <2>3 DEF IsGraph
<1>7. ASSUME NEW j \in Stored(c), NEW l \in 0 .. c[j].layer PROVE c[j].links[l] = New(j, l)
  <2>1. c[j].links = L(j) /\ l \in DOMAIN p[j].links
    BY <1>1, <1>4, <1>5 DEF IsGraph
  <2> QED BY <2>1
<1>8. Connects(c, p, n, i, layer, chosen)
  BY <1>1, <1>4, <1>5, <1>6, <1>7 DEF Connects, New
<1> QED BY <1>8 DEF p, c

\* Tombstones and collection, as changes of a graph.
LEMMA TombstoneParts ==
  ASSUME IsGraph(nodes), NEW i \in Stored(nodes)
  PROVE  LET n == Tombstoned(i)
         IN  /\ IsGraph(n) /\ Stored(n) = Stored(nodes) /\ n[i].deleted
             /\ \A j \in Stored(n) : /\ n[j].layer = nodes[j].layer /\ n[j].links = nodes[j].links
                                     /\ n[j].at = nodes[j].at
                                     /\ j # i => n[j].deleted = nodes[j].deleted
<1> DEFINE n == Tombstoned(i)
           t == [nodes[i] EXCEPT !.deleted = TRUE]
<1>1. i \in Ids /\ nodes[i] \in Node /\ nodes \in [Ids -> Node \cup {None}]
  BY NodeParts DEF IsGraph
<1>2. n = [nodes EXCEPT ![i] = t]
  BY <1>1 DEF Tombstoned
<1>3. t \in Node /\ t.deleted /\ t.layer = nodes[i].layer /\ t.links = nodes[i].links /\ t.at = nodes[i].at
  <2>1. PICK l \in Layers : nodes[i] \in NodeOf(l)
    BY <1>1 DEF Node
  <2>2. t \in NodeOf(l) /\ t.deleted /\ t.layer = nodes[i].layer /\ t.links = nodes[i].links
        /\ t.at = nodes[i].at
    BY <2>1 DEF NodeOf
  <2> QED BY <2>1, <2>2 DEF Node
<1>4. t # None
  BY <1>3, Constants
<1> HIDE DEF t, n
<1>5. n \in [Ids -> Node \cup {None}] /\ n[i] = t /\ \A j \in Ids \ {i} : n[j] = nodes[j]
  BY <1>1, <1>2, <1>3
<1>6. Stored(n) = Stored(nodes)
  BY <1>4, <1>5 DEF Stored
<1>7. \A j \in Stored(n) : /\ n[j].layer = nodes[j].layer /\ n[j].links = nodes[j].links
                           /\ n[j].at = nodes[j].at
                           /\ j # i => n[j].deleted = nodes[j].deleted
  BY <1>3, <1>5, <1>6 DEF Stored
<1>8. IsGraph(n)
  BY <1>5, <1>6, <1>7 DEF IsGraph
<1> QED BY <1>3, <1>5, <1>6, <1>7, <1>8 DEF n

\* w is what is left of n after the nodes in gone were removed.
Leaves(w, n, gone) ==
  /\ IsGraph(w) /\ Stored(w) = Stored(n) \ gone
  /\ \A j \in Stored(w) :
       /\ w[j].layer = n[j].layer /\ w[j].deleted = n[j].deleted /\ w[j].at = n[j].at
       /\ \A l \in 0 .. n[j].layer : w[j].links[l] = Retain(n[j].links[l], Ids \ gone)

\* A collection does that.
LEMMA WithoutParts ==
  ASSUME NEW n, IsGraph(n), NEW gone \in SUBSET Ids
  PROVE  Leaves(Without(n, gone), n, gone)
<1> DEFINE w == Without(n, gone)
           L(j) == [l \in DOMAIN n[j].links |-> Retain(n[j].links[l], Ids \ gone)]
<1>1. w = [j \in Ids |-> IF n[j] = None \/ j \in gone THEN None ELSE [n[j] EXCEPT !.links = L(j)]]
  BY DEF Without
<1> HIDE DEF w
<1>2. ASSUME NEW j \in Stored(n), j \notin gone
      PROVE  /\ w[j] \in Node /\ w[j] # None /\ w[j].links = L(j) /\ DOMAIN w[j].links = 0 .. w[j].layer
             /\ w[j].layer = n[j].layer /\ w[j].deleted = n[j].deleted /\ w[j].at = n[j].at
  <2>1. /\ j \in Ids /\ n[j] \in Node /\ n[j] # None /\ DOMAIN n[j].links = 0 .. n[j].layer
        /\ n[j].layer \in Layers /\ n[j].links \in [0 .. n[j].layer -> Seq(Ids)]
    BY NodeParts DEF IsGraph, Stored
  <2>2. \A l \in 0 .. n[j].layer : Retain(n[j].links[l], Ids \ gone) \in Seq(Ids)
    <3> SUFFICES ASSUME NEW l \in 0 .. n[j].layer PROVE Retain(n[j].links[l], Ids \ gone) \in Seq(Ids)
      OBVIOUS
    <3>1. n[j].links[l] \in Seq(Ids)
      BY <2>1
    <3> QED BY <3>1, RetainParts
  <2>3. L(j) \in [0 .. n[j].layer -> Seq(Ids)]
    BY <2>1, <2>2
  <2> DEFINE lj == L(j)
  <2>4. w[j] = [n[j] EXCEPT !.links = lj]
    BY <1>1, <1>2, <2>1
  <2> HIDE DEF lj
  <2>5. lj \in [0 .. n[j].layer -> Seq(Ids)]
    BY <2>1, <2>3 DEF lj
  <2>6. /\ w[j] \in Node /\ w[j].links = lj
        /\ w[j].layer = n[j].layer /\ w[j].deleted = n[j].deleted /\ w[j].at = n[j].at
    BY <2>1, <2>4, <2>5, ListsChanged
  <2>7. w[j] # None
    BY <2>6, Constants
  <2> QED BY <2>5, <2>6, <2>7 DEF lj
<1>3. \A j \in Ids : n[j] = None \/ j \in gone => w[j] = None
  BY <1>1
<1>4. Stored(w) = Stored(n) \ gone
  BY <1>2, <1>3 DEF Stored
<1>5. IsGraph(w)
  <2>1. \A j \in Ids : w[j] \in Node \cup {None}
    BY <1>2, <1>3 DEF Stored
  <2>2. w = [j \in Ids |-> w[j]]
    BY <1>1
  <2>3. w \in [Ids -> Node \cup {None}]
    BY <2>1, <2>2
  <2> QED BY <1>2, <1>4, <2>3 DEF IsGraph
<1>6. ASSUME NEW j \in Stored(w), NEW l \in 0 .. n[j].layer
      PROVE  w[j].links[l] = Retain(n[j].links[l], Ids \ gone)
  <2>1. j \in Stored(n) /\ j \notin gone
    BY <1>4
  <2>2. w[j].links = L(j) /\ l \in DOMAIN n[j].links
    BY <1>2, <2>1 DEF IsGraph
  <2> QED BY <2>2
<1>7. Leaves(w, n, gone)
  BY <1>2, <1>4, <1>5, <1>6 DEF Leaves
<1> QED BY <1>7 DEF w

-----------------------------------------------------------------------------
(* The invariant of the graph                                              *)

\* The variables of the graph have the types the proofs use.
Typed ==
  /\ IsGraph(nodes) /\ entry \in Ids \cup {None} /\ maxLayer \in Nat /\ tombstones \in Nat
  /\ again \subseteq Ids /\ replaced \subseteq Ids

GraphInv == Typed /\ EntryPointLive /\ Sound(nodes)

\* A call that goes on to the graph has a vector to put there, and so has what is to
\* be loaded; no call begins before that is done.
Ready ==
  /\ \A c \in Callers : At(c, "insert") \/ At(c, "put") => calls[c].at \in Points
  /\ \A i \in unloaded : disk[i] \in Points
  /\ unloaded # {} => \A c \in Callers : calls[c] = None

\* The other variables, with their types.
Called ==
  /\ used \in 0 .. MaxIds /\ records \subseteq Ids /\ disk \in [Ids -> Points \cup {None}]
  /\ calls \in [Callers -> Call \cup {None}] /\ unloaded \subseteq Ids /\ forgetting \in BOOLEAN
  /\ crossed \subseteq Ids /\ ops \in 0 .. MaxOps
  /\ Ready

\* The lists the operations build, as the graph proofs use them: what the new node's
\* lists are, what the others' become.
Chosen(q, layer) == [l \in 0 .. layer |-> Select(nodes, Candidates(q, layer, l), q, MaxNeighbors(l))]

\* They are candidates, and keep to the bound of their layer.
LEMMA ChosenParts ==
  ASSUME GraphInv, entry # None, NEW q \in Points, NEW layer \in Layers
  PROVE  /\ Chosen(q, layer) \in [0 .. layer -> Seq(Ids)]
         /\ \A l \in 0 .. layer : /\ Listed(Chosen(q, layer)[l]) \subseteq Candidates(q, layer, l)
                                  /\ Candidates(q, layer, l) \subseteq Stored(nodes)
                                  /\ Len(Chosen(q, layer)[l]) <= MaxNeighbors(l)
<1>1. IsGraph(nodes) /\ Sound(nodes) /\ entry \in Stored(nodes) /\ maxLayer \in Nat
  BY DEF GraphInv, Typed, EntryPointLive, Living
<1> SUFFICES ASSUME NEW l \in 0 .. layer
             PROVE  LET r == Select(nodes, Candidates(q, layer, l), q, MaxNeighbors(l))
                    IN  /\ r \in Seq(Ids) /\ Listed(r) \subseteq Candidates(q, layer, l)
                        /\ Candidates(q, layer, l) \subseteq Stored(nodes)
                        /\ Len(r) <= MaxNeighbors(l)
  BY DEF Chosen
<1>2. Candidates(q, layer, l) \in SUBSET Stored(nodes)
  <2> DEFINE S == Stored(nodes)
  <2>1. \A k \in Int : Closed(nodes, S, k)
    BY DEF Closed, Neighbors
  <2>2. q \in Int /\ layer \in Nat /\ l \in Nat /\ entry \in S /\ S \in SUBSET Stored(nodes)
    BY <1>1, Constants
  <2> HIDE DEF S
  <2>3. Candidates(q, layer, l) \subseteq S
    BY <1>1, <2>1, <2>2, CandidatesStay
  <2> QED BY <2>3 DEF S
<1> DEFINE C == Candidates(q, layer, l)
           max == MaxNeighbors(l)
<1>3. max \in Nat /\ q \in Int /\ C \in SUBSET Stored(nodes)
  BY <1>2, Constants
<1> HIDE DEF C, max
<1>4. LET r == Select(nodes, C, q, max) IN r \in Seq(Ids) /\ Listed(r) \subseteq C /\ Len(r) <= max
  BY <1>1, <1>3, SelectParts
<1> QED BY <1>2, <1>4 DEF C, max

\* What an entry at the end adds to a list.
LEMMA ListedAppend ==
  ASSUME NEW s \in Seq(Ids), NEW i \in Ids
  PROVE  /\ Append(s, i) \in Seq(Ids) /\ Len(Append(s, i)) = Len(s) + 1
         /\ Listed(Append(s, i)) = Listed(s) \cup {i}
<1>1. /\ Append(s, i) \in Seq(Ids) /\ Len(Append(s, i)) = Len(s) + 1 /\ Len(s) \in Nat
      /\ Append(s, i)[Len(s) + 1] = i /\ \A k \in 1 .. Len(s) : Append(s, i)[k] = s[k]
  OBVIOUS
<1> DEFINE t == Append(s, i)
<1> HIDE DEF t
<1>2. \A k \in 1 .. Len(t) : t[k] \in Listed(s) \cup {i}
  <2> SUFFICES ASSUME NEW k \in 1 .. Len(t) PROVE t[k] \in Listed(s) \cup {i}
    OBVIOUS
  <2>1. k \in 1 .. Len(s) \/ k = Len(s) + 1
    BY <1>1 DEF t
  <2> QED BY <1>1, <2>1 DEF t, Listed
<1>3. \A k \in 1 .. Len(s) : s[k] \in Listed(t)
  <2> SUFFICES ASSUME NEW k \in 1 .. Len(s) PROVE s[k] \in Listed(t)
    OBVIOUS
  <2>1. k \in 1 .. Len(t) /\ t[k] = s[k]
    BY <1>1 DEF t
  <2> QED BY <2>1 DEF Listed
<1>4. i \in Listed(t)
  <2>1. Len(t) \in 1 .. Len(t) /\ t[Len(t)] = i
    BY <1>1 DEF t
  <2> QED BY <2>1 DEF Listed
<1>5. Listed(t) = Listed(s) \cup {i}
  BY <1>2, <1>3, <1>4 DEF Listed
<1> QED BY <1>1, <1>5 DEF t

\* An insertion keeps the graph sound and its entry point live.
LEMMA InsertSound ==
  ASSUME GraphInv, NEW i \in Ids, NEW layer \in Layers, NEW q \in Points, Insert(i, q, layer), Recorded(i)
  PROVE  /\ IsGraph(nodes') /\ entry' \in Ids /\ maxLayer' \in Nat
         /\ Stored(nodes') = Stored(nodes) \cup {i} /\ Living(nodes') = Living(nodes) \cup {i}
         /\ EntryPointLive' /\ Sound(nodes')
         /\ nodes'[i].at = q /\ \A j \in Living(nodes) \ {i} : nodes'[j].at = nodes[j].at
<1> DEFINE none == [l \in 0 .. layer |-> <<>>]
<1>1. /\ IsGraph(nodes) /\ Sound(nodes) /\ EntryPointLive /\ maxLayer \in Nat /\ entry \in Ids \cup {None}
      /\ layer \in Nat /\ Living(nodes) \subseteq Stored(nodes)
      /\ replaced \subseteq replaced' /\ (i \in Living(nodes) => i \in replaced')
  BY Constants DEF GraphInv, Typed, Recorded, Living
<1>2. CASE entry = None
  <2> DEFINE n == Placed(nodes, i, q, layer, none)
  <2>1. nodes' = n /\ entry' = i /\ maxLayer' = layer
    BY <1>2 DEF Insert, Placed
  <2>2. none \in [0 .. layer -> Seq(Ids)] /\ \A l \in 0 .. layer : none[l] = <<>>
    OBVIOUS
  <2> HIDE DEF none
  <2>3. /\ IsGraph(n) /\ Stored(n) = Stored(nodes) \cup {i}
        /\ n[i].layer = layer /\ n[i].links = none /\ ~n[i].deleted /\ n[i].at = q
        /\ \A j \in Stored(nodes) \ {i} : n[j] = nodes[j]
    BY <1>1, <2>2, PlacedParts
  <2> HIDE DEF n
  <2>4. Living(nodes) = {}
    BY <1>1, <1>2, Constants DEF EntryPointLive, Living, Stored
  <2>5. Living(n) = {i}
    BY <2>3, <2>4 DEF Living
  <2>6. ASSUME NEW j \in Stored(n), NEW l \in 0 .. n[j].layer
        PROVE  Listed(n[j].links[l]) \subseteq Stored(n) /\ Len(n[j].links[l]) <= MaxNeighbors(l)
    <3>1. CASE j = i
      <4>1. n[j].links[l] = <<>> /\ l \in Nat
        BY <1>1, <2>2, <2>3, <3>1
      <4>2. MaxNeighbors(l) \in Nat
        BY <4>1, Constants
      <4> QED BY <4>1, <4>2 DEF Listed
    <3>2. CASE j # i
      BY <1>1, <2>3, <3>2 DEF Sound
    <3> QED BY <3>1, <3>2
  <2>7. Sound(n)
    BY <2>6 DEF Sound
  <2>8. EntryPointLive'
    BY <1>1, <2>1, <2>3, <2>5 DEF EntryPointLive
  <2> QED BY <1>1, <2>1, <2>3, <2>4, <2>5, <2>7, <2>8
<1>3. CASE entry # None
  <2> DEFINE ch == Chosen(q, layer)
             p == Placed(nodes, i, q, layer, ch)
             c == Connect(nodes, i, q, layer, ch)
  <2>1. /\ nodes' = c /\ entry' = (IF layer > maxLayer THEN i ELSE entry)
        /\ maxLayer' = (IF layer > maxLayer THEN layer ELSE maxLayer)
    BY <1>3 DEF Insert, Chosen
  <2>2. /\ ch \in [0 .. layer -> Seq(Ids)]
        /\ \A l \in 0 .. layer : Listed(ch[l]) \subseteq Stored(nodes) /\ Len(ch[l]) <= MaxNeighbors(l)
    BY <1>1, <1>3, ChosenParts
  <2> HIDE DEF ch
  <2>3. /\ IsGraph(p) /\ Stored(p) = Stored(nodes) \cup {i}
        /\ p[i].layer = layer /\ p[i].links = ch /\ ~p[i].deleted /\ p[i].at = q
        /\ \A j \in Stored(nodes) \ {i} : p[j] = nodes[j]
    BY <1>1, <2>2, PlacedParts
  <2>4. /\ IsGraph(c) /\ Stored(c) = Stored(nodes) \cup {i}
        /\ \A j \in Stored(c) :
             /\ c[j].layer = p[j].layer /\ c[j].deleted = p[j].deleted /\ c[j].at = p[j].at
             /\ \A l \in 0 .. c[j].layer :
                  c[j].links[l] = IF l <= layer /\ j \in Listed(ch[l])
                                  THEN Prune(p, j, Append(p[j].links[l], i), MaxNeighbors(l))
                                  ELSE p[j].links[l]
    <3>1. Connects(c, p, nodes, i, layer, ch)
      BY <1>1, <2>2, ConnectParts
    <3> HIDE DEF p, c
    <3> QED BY <3>1 DEF Connects
  <2> HIDE DEF p, c
  <2>5. Living(c) = Living(nodes) \cup {i}
    BY <2>3, <2>4 DEF Living
  <2>6. ASSUME NEW j \in Stored(p), NEW l \in 0 .. p[j].layer
        PROVE  /\ p[j].links[l] \in Seq(Ids) /\ l \in Nat /\ MaxNeighbors(l) \in Nat
               /\ Listed(p[j].links[l]) \subseteq Stored(c) /\ Len(p[j].links[l]) <= MaxNeighbors(l)
    <3>1. p[j].links \in [0 .. p[j].layer -> Seq(Ids)] /\ p[j].layer \in Nat
      BY <2>3, NodeParts
    <3>2. p[j].links[l] \in Seq(Ids) /\ l \in Nat
      BY <3>1
    <3>3. MaxNeighbors(l) \in Nat
      BY <3>2, Constants
    <3>4. Listed(p[j].links[l]) \subseteq Stored(c) /\ Len(p[j].links[l]) <= MaxNeighbors(l)
      <4>1. CASE j = i
        BY <2>2, <2>3, <2>4, <4>1
      <4>2. CASE j # i
        BY <1>1, <2>3, <2>4, <4>2 DEF Sound
      <4> QED BY <4>1, <4>2
    <3> QED BY <3>2, <3>3, <3>4
  <2>7. ASSUME NEW j \in Stored(c), NEW l \in 0 .. c[j].layer
        PROVE  Listed(c[j].links[l]) \subseteq Stored(c) /\ Len(c[j].links[l]) <= MaxNeighbors(l)
    <3>1. j \in Stored(p) /\ l \in 0 .. p[j].layer
      BY <2>3, <2>4
    <3>2. CASE l <= layer /\ j \in Listed(ch[l])
      <4> DEFINE s == p[j].links[l]
                 t == Append(s, i)
                 r == Prune(p, j, t, MaxNeighbors(l))
      <4>1. c[j].links[l] = r
        BY <2>4, <3>2
      <4>2. s \in Seq(Ids) /\ MaxNeighbors(l) \in Nat /\ Listed(s) \subseteq Stored(c)
        BY <2>6, <3>1
      <4> HIDE DEF s
      <4>3. t \in Seq(Ids) /\ Listed(t) = Listed(s) \cup {i}
        BY <4>2, ListedAppend
      <4> HIDE DEF t
      <4>4. Len(r) <= MaxNeighbors(l) /\ Listed(r) \subseteq Listed(t)
        BY <2>3, <3>1, <4>2, <4>3, PruneParts
      <4> QED BY <2>4, <4>1, <4>2, <4>3, <4>4
    <3>3. CASE ~(l <= layer /\ j \in Listed(ch[l]))
      BY <2>4, <2>6, <3>1, <3>3
    <3> QED BY <3>2, <3>3
  <2>8. Sound(c)
    BY <2>7 DEF Sound
  <2>9. EntryPointLive'
    <3>1. /\ entry \in Living(nodes) /\ (entry \in replaced \/ nodes[entry].layer = maxLayer)
          /\ \A j \in Living(nodes) : nodes[j].layer <= maxLayer /\ j \in Stored(nodes)
      <4>1. Living(nodes) # {}
        BY <1>1, <1>3 DEF EntryPointLive
      <4> QED BY <1>1, <4>1 DEF EntryPointLive
    <3>2. /\ c[i].layer = layer
          /\ \A j \in Living(nodes) \ {i} : c[j].layer = nodes[j].layer /\ c[j].layer \in Nat
      <4> SUFFICES ASSUME NEW j \in Living(nodes) \ {i} PROVE c[j].layer = nodes[j].layer /\ c[j].layer \in Nat
        BY <2>3, <2>4
      <4>1. c[j].layer = nodes[j].layer /\ j \in Stored(nodes)
        BY <2>3, <2>4, <3>1
      <4> QED BY <1>1, <4>1, NodeParts
    <3>3. Living(c) # {}
      BY <2>5
    <3>4. CASE layer > maxLayer
      <4>1. \A j \in Living(c) : c[j].layer <= layer
        BY <1>1, <2>5, <3>1, <3>2, <3>4
      <4> QED BY <2>1, <2>5, <3>2, <3>3, <3>4, <4>1 DEF EntryPointLive
    <3>5. CASE ~(layer > maxLayer)
      <4>1. \A j \in Living(c) : c[j].layer <= maxLayer
        BY <1>1, <2>5, <3>1, <3>2, <3>5
      <4>2. entry \in replaced' \/ c[entry].layer = maxLayer
        BY <1>1, <3>1, <3>2
      <4> QED BY <2>1, <2>5, <3>1, <3>3, <3>5, <4>1, <4>2 DEF EntryPointLive
    <3> QED BY <3>4, <3>5
  <2>10. c[i].at = q /\ \A j \in Living(nodes) \ {i} : c[j].at = nodes[j].at
    BY <1>1, <2>3, <2>4
  <2> QED BY <1>1, <1>3, <2>1, <2>4, <2>5, <2>8, <2>9, <2>10
<1> QED BY <1>2, <1>3

\* A new entry point is live and of the highest layer.
LEMMA EntrySound ==
  ASSUME IsGraph(nodes'), NEW n, nodes' = n, NewEntryPoint(n)
  PROVE  EntryPointLive' /\ entry' \in Ids \cup {None} /\ maxLayer' \in Nat
<1>1. IsGraph(n)
  OBVIOUS
<1>2. CASE Living(n) = {}
  BY <1>2 DEF NewEntryPoint, EntryPointLive
<1>3. CASE Living(n) # {}
  <2>1. PICK i \in Living(n) : /\ \A j \in Living(n) : n[j].layer <= n[i].layer
                               /\ entry' = i /\ maxLayer' = n[i].layer
    BY <1>3 DEF NewEntryPoint
  <2>2. i \in Stored(n) /\ i \in Ids
    BY DEF Living, Stored
  <2>3. n[i].layer \in Nat
    BY <1>1, <2>2, NodeParts
  <2> QED BY <1>3, <2>1, <2>2, <2>3 DEF EntryPointLive
<1> QED BY <1>2, <1>3

\* A deletion takes one node out of the live ones.
LEMMA MarkSound ==
  ASSUME GraphInv, NEW i \in Ids, MarkDeleted(i), replaced' = replaced
  PROVE  /\ IsGraph(nodes') /\ entry' \in Ids \cup {None} /\ maxLayer' \in Nat
         /\ Stored(nodes') = Stored(nodes) /\ Living(nodes') = Living(nodes) \ {i}
         /\ EntryPointLive' /\ Sound(nodes')
         /\ tombstones' = IF i \in Living(nodes) THEN tombstones + 1 ELSE tombstones
         /\ \A j \in Stored(nodes) : nodes'[j].at = nodes[j].at
<1>1. /\ IsGraph(nodes) /\ Sound(nodes) /\ EntryPointLive /\ maxLayer \in Nat /\ entry \in Ids \cup {None}
  BY DEF GraphInv, Typed
<1>2. CASE i \notin Living(nodes)
  <2>1. nodes' = nodes /\ entry' = entry /\ maxLayer' = maxLayer /\ tombstones' = tombstones
    BY <1>2 DEF MarkDeleted
  <2> QED BY <1>1, <1>2, <2>1 DEF EntryPointLive
<1>3. CASE i \in Living(nodes)
  <2> DEFINE n == Tombstoned(i)
  <2>1. /\ nodes' = n /\ tombstones' = tombstones + 1
        /\ IF entry = i THEN NewEntryPoint(n) ELSE entry' = entry /\ maxLayer' = maxLayer
    BY <1>3 DEF MarkDeleted
  <2>2. i \in Stored(nodes)
    BY <1>3 DEF Living
  <2>3. /\ IsGraph(n) /\ Stored(n) = Stored(nodes) /\ n[i].deleted
        /\ \A j \in Stored(n) : /\ n[j].layer = nodes[j].layer /\ n[j].links = nodes[j].links
                                /\ n[j].at = nodes[j].at
                                /\ j # i => n[j].deleted = nodes[j].deleted
    BY <1>1, <2>2, TombstoneParts
  <2> HIDE DEF n
  <2>4. Living(n) = Living(nodes) \ {i}
    BY <2>3 DEF Living
  <2>5. Sound(n)
    BY <1>1, <2>3 DEF Sound
  <2>6. EntryPointLive' /\ entry' \in Ids \cup {None} /\ maxLayer' \in Nat
    <3>1. CASE entry = i
      BY <2>1, <2>3, <3>1, EntrySound
    <3>2. CASE entry # i
      <4>1. /\ entry \in Living(nodes) /\ (entry \in replaced \/ nodes[entry].layer = maxLayer)
            /\ \A j \in Living(nodes) : nodes[j].layer <= maxLayer /\ j \in Stored(nodes)
        BY <1>1, <1>3 DEF EntryPointLive, Living
      <4>2. /\ entry \in Living(n) /\ (entry \in replaced \/ n[entry].layer = maxLayer)
            /\ \A j \in Living(n) : n[j].layer <= maxLayer
        BY <2>3, <2>4, <3>2, <4>1
      <4> QED BY <1>1, <2>1, <3>2, <4>2 DEF EntryPointLive
    <3> QED BY <3>1, <3>2
  <2> QED BY <1>3, <2>1, <2>3, <2>4, <2>5, <2>6
<1> QED BY <1>2, <1>3

\* A collection leaves the live nodes, without the links to the others.
LEMMA CollectSound ==
  ASSUME GraphInv, NEW gone \in SUBSET Ids, gone = Stored(nodes) \ Living(nodes), Cleanup(gone),
         replaced' = replaced
  PROVE  /\ IsGraph(nodes') /\ entry' \in Ids \cup {None} /\ maxLayer' \in Nat
         /\ Stored(nodes') = Living(nodes) /\ Living(nodes') = Living(nodes)
         /\ EntryPointLive' /\ Sound(nodes')
         /\ \A j \in Living(nodes) : nodes'[j].at = nodes[j].at
<1>1. /\ IsGraph(nodes) /\ Sound(nodes) /\ EntryPointLive /\ maxLayer \in Nat /\ entry \in Ids \cup {None}
  BY DEF GraphInv, Typed
<1> DEFINE w == Without(nodes, gone)
<1>2. nodes' = w /\ IF entry \in gone THEN NewEntryPoint(w) ELSE entry' = entry /\ maxLayer' = maxLayer
  BY DEF Cleanup
<1>3. /\ IsGraph(w) /\ Stored(w) = Stored(nodes) \ gone
      /\ \A j \in Stored(w) :
           /\ w[j].layer = nodes[j].layer /\ w[j].deleted = nodes[j].deleted /\ w[j].at = nodes[j].at
           /\ \A l \in 0 .. nodes[j].layer : w[j].links[l] = Retain(nodes[j].links[l], Ids \ gone)
  <2>1. Leaves(w, nodes, gone)
    BY <1>1, WithoutParts
  <2> HIDE DEF w
  <2> QED BY <2>1 DEF Leaves
<1> HIDE DEF w
<1>4. Stored(w) = Living(nodes) /\ Living(w) = Living(nodes)
  BY <1>3 DEF Living
<1>5. ASSUME NEW j \in Stored(w), NEW l \in 0 .. w[j].layer
      PROVE  Listed(w[j].links[l]) \subseteq Stored(w) /\ Len(w[j].links[l]) <= MaxNeighbors(l)
  <2>1. j \in Stored(nodes) /\ l \in 0 .. nodes[j].layer
    BY <1>3, <1>4 DEF Living
  <2> DEFINE s == nodes[j].links[l]
             r == Retain(s, Ids \ gone)
  <2>2. w[j].links[l] = r
    BY <1>3, <2>1
  <2>3. nodes[j].links \in [0 .. nodes[j].layer -> Seq(Ids)] /\ nodes[j].layer \in Nat
    BY <1>1, <2>1, NodeParts
  <2>4. s \in Seq(Ids) /\ l \in Nat
    BY <2>1, <2>3
  <2>5. Listed(s) \subseteq Stored(nodes) /\ Len(s) <= MaxNeighbors(l)
    BY <1>1, <2>1 DEF Sound
  <2> HIDE DEF s
  <2>6. r \in Seq(Ids) /\ Len(r) <= Len(s) /\ Listed(r) = Listed(s) \cap (Ids \ gone)
    BY <2>4, RetainParts
  <2> HIDE DEF r
  <2>7. Listed(r) \subseteq Stored(w)
    BY <1>3, <2>5, <2>6
  <2>8. Len(r) \in Nat /\ Len(s) \in Nat /\ MaxNeighbors(l) \in Nat
    <3>1. MaxNeighbors(l) \in Nat
      BY <2>4, Constants
    <3> QED BY <2>4, <2>6, <3>1
  <2> QED BY <2>2, <2>5, <2>6, <2>7, <2>8
<1>6. Sound(w)
  BY <1>5 DEF Sound
<1>7. EntryPointLive' /\ entry' \in Ids \cup {None} /\ maxLayer' \in Nat
  <2>1. CASE Living(nodes) = {}
    <3>1. entry = None
      BY <1>1, <2>1 DEF EntryPointLive
    <3>2. None \notin gone
      BY Constants
    <3> QED BY <1>1, <1>2, <1>4, <2>1, <3>1, <3>2 DEF EntryPointLive
  <2>2. CASE Living(nodes) # {}
    <3>1. /\ entry \in Living(nodes) /\ (entry \in replaced \/ nodes[entry].layer = maxLayer)
          /\ \A j \in Living(nodes) : nodes[j].layer <= maxLayer
      BY <1>1, <2>2 DEF EntryPointLive
    <3>2. entry' = entry /\ maxLayer' = maxLayer
      BY <1>2, <3>1
    <3> QED BY <1>1, <1>2, <1>3, <1>4, <2>2, <3>1, <3>2 DEF EntryPointLive
  <2> QED BY <2>1, <2>2
<1> QED BY <1>2, <1>3, <1>4, <1>6, <1>7

\* The invariants hold at first.
LEMMA GraphInit == Init => GraphInv /\ Called
<1> SUFFICES ASSUME Init PROVE GraphInv /\ Called
  OBVIOUS
<1>1. /\ nodes = [i \in Ids |-> None] /\ entry = None /\ maxLayer = 0 /\ tombstones = 0
      /\ again = {} /\ replaced = {}
  BY DEF Init
<1>2. Stored(nodes) = {} /\ Living(nodes) = {}
  BY <1>1 DEF Stored, Living
<1>3. Typed
  BY <1>1, <1>2 DEF Typed, IsGraph
<1>4. GraphInv
  BY <1>1, <1>2, <1>3 DEF GraphInv, EntryPointLive, Sound
<1>5. /\ used = 0 /\ records = {} /\ disk = [i \in Ids |-> None] /\ calls = [c \in Callers |-> None]
      /\ unloaded = {} /\ forgetting = FALSE /\ crossed = {} /\ ops = 0
  BY DEF Init
<1>6. Ready
  BY <1>5 DEF Ready, At
<1>7. used \in 0 .. MaxIds /\ ops \in 0 .. MaxOps
  BY <1>5, Constants
<1>8. forgetting \in BOOLEAN
  BY <1>5, Zenon
<1>9. calls \in [Callers -> Call \cup {None}] /\ disk \in [Ids -> Points \cup {None}]
  BY <1>5
<1>10. Called
  BY <1>5, <1>6, <1>7, <1>8, <1>9 DEF Called
<1> QED BY <1>4, <1>10

\* What a call holds.
LEMMA CallParts ==
  ASSUME Called, NEW c \in Callers, calls[c] # None
  PROVE  /\ calls[c] \in Call /\ calls[c].id \in Ids /\ calls[c].at \in Points \cup {None}
         /\ calls[c].step \in Steps /\ calls[c].forget \in BOOLEAN
BY DEF Called, Call

\* A step to another stage of a call.
LEMMA CallGoes ==
  ASSUME Called, NEW c \in Callers, NEW call \in Call \cup {None}, Goto(c, call)
  PROVE  /\ calls' \in [Callers -> Call \cup {None}] /\ calls'[c] = call
         /\ \A d \in Callers \ {c} : calls'[d] = calls[d]
         /\ None \notin Call
BY HnswAssumption DEF Called, Goto

\* Calls and what is on disk keep their types.
LEMMA CalledStep == Called /\ [Next]_vars => Called'
<1> SUFFICES ASSUME Called, [Next]_vars PROVE Called'
  OBVIOUS
<1> USE DEF Steps
<1>1. /\ used \in 0 .. MaxIds /\ records \subseteq Ids /\ disk \in [Ids -> Points \cup {None}]
      /\ calls \in [Callers -> Call \cup {None}] /\ unloaded \subseteq Ids /\ forgetting \in BOOLEAN
      /\ crossed \subseteq Ids /\ ops \in 0 .. MaxOps /\ Ready
      /\ MaxIds \in Nat /\ MaxOps \in Nat /\ None \notin Call
  BY Constants, HnswAssumption DEF Called
<1>2. ASSUME NEW c \in Callers, NEW q \in Points, Remember(c, q) PROVE Called'
  <2> DEFINE i == used + 1
             call == [id |-> i, at |-> q, step |-> "insert", forget |-> FALSE]
  <2>1. /\ unloaded = {} /\ used < MaxIds /\ ops < MaxOps /\ used' = i /\ records' = records \cup {i}
        /\ disk' = [disk EXCEPT ![i] = q] /\ Goto(c, call) /\ ops' = ops + 1
        /\ unloaded' = unloaded /\ forgetting' = forgetting /\ crossed' = crossed
    BY <1>2 DEF Remember, Free, Started
  <2>2. i \in Ids /\ i \in 0 .. MaxIds
    BY <1>1, <2>1 DEF Ids
  <2>3. call \in Call /\ call.at = q
    BY <2>2 DEF Call
  <2> HIDE DEF i, call
  <2>4. /\ calls' \in [Callers -> Call \cup {None}] /\ calls'[c] = call
        /\ \A d \in Callers \ {c} : calls'[d] = calls[d]
    BY <2>1, <2>3, CallGoes
  <2>5. Ready'
    BY <1>1, <2>1, <2>3, <2>4 DEF Ready, At
  <2> QED BY <1>1, <2>1, <2>2, <2>4, <2>5 DEF Called
<1>3. ASSUME NEW c \in Callers, NEW i \in Ids, NEW forget \in BOOLEAN, Read(c, i, forget) PROVE Called'
  <2> DEFINE call == [id |-> i, at |-> None, step |-> "batch", forget |-> forget]
  <2>1. /\ unloaded = {} /\ ops < MaxOps /\ used' = used /\ records' = records /\ disk' = disk
        /\ Goto(c, call) /\ ops' = ops + 1
        /\ unloaded' = unloaded /\ forgetting' = forgetting /\ crossed' \in {crossed, crossed \cup {i}}
    BY <1>3 DEF Read, Free, Started
  <2>2. call \in Call /\ call.step = "batch"
    BY DEF Call
  <2> HIDE DEF call
  <2>3. /\ calls' \in [Callers -> Call \cup {None}] /\ calls'[c] = call
        /\ \A d \in Callers \ {c} : calls'[d] = calls[d]
    BY <2>1, <2>2, CallGoes
  <2>4. Ready'
    BY <1>1, <2>1, <2>2, <2>3 DEF Ready, At
  <2> QED BY <1>1, <2>1, <2>3, <2>4 DEF Called
<1>4. ASSUME NEW c \in Callers, At(c, "batch"), NEW q \in Points \cup {None},
             NEW call, call = [calls[c] EXCEPT !.at = q, !.step = "unlink"], Goto(c, call),
             records' \subseteq Ids, disk' = [disk EXCEPT ![calls[c].id] = q],
             UNCHANGED <<used, unloaded, forgetting, crossed, ops>>
      PROVE  Called'
  <2>1. unloaded = {} /\ calls[c] # None
    BY <1>1, <1>4 DEF Ready, At
  <2>2. calls[c] \in Call /\ calls[c].id \in Ids
    BY <2>1, CallParts
  <2>3. call \in Call /\ call.step = "unlink"
    BY <1>4, <2>2 DEF Call
  <2>4. /\ calls' \in [Callers -> Call \cup {None}] /\ calls'[c] = call
        /\ \A d \in Callers \ {c} : calls'[d] = calls[d]
    BY <1>4, <2>3, CallGoes
  <2>5. Ready'
    BY <1>1, <1>4, <2>1, <2>3, <2>4 DEF Ready, At
  <2> QED BY <1>1, <1>4, <2>2, <2>4, <2>5 DEF Called
<1>5. ASSUME NEW c \in Callers, NEW q \in Points, Revise(c, q) PROVE Called'
  <2>1. /\ At(c, "batch") /\ disk' = [disk EXCEPT ![calls[c].id] = q]
        /\ Goto(c, [calls[c] EXCEPT !.at = q, !.step = "unlink"])
        /\ records' = records \cup {calls[c].id} /\ UNCHANGED <<used, unloaded, forgetting, crossed, ops>>
    BY <1>5 DEF Revise
  <2>2. calls[c].id \in Ids
    BY <2>1, CallParts DEF At
  <2> QED BY <1>1, <1>4, <2>1, <2>2
<1>6. ASSUME NEW c \in Callers, Delete(c) PROVE Called'
  <2> DEFINE call == [calls[c] EXCEPT !.step = "unlink"]
  <2>1. /\ At(c, "batch") /\ disk' = [disk EXCEPT ![calls[c].id] = None] /\ Goto(c, call)
        /\ records' \subseteq records /\ UNCHANGED <<used, unloaded, forgetting, crossed, ops>>
    BY <1>6 DEF Delete
  <2>2. unloaded = {} /\ calls[c] # None
    BY <1>1, <2>1 DEF Ready, At
  <2>3. calls[c] \in Call /\ calls[c].id \in Ids
    BY <2>2, CallParts
  <2>4. call \in Call /\ call.step = "unlink"
    BY <2>3 DEF Call
  <2> HIDE DEF call
  <2>5. /\ calls' \in [Callers -> Call \cup {None}] /\ calls'[c] = call
        /\ \A d \in Callers \ {c} : calls'[d] = calls[d]
    BY <2>1, <2>4, CallGoes
  <2>6. Ready'
    BY <1>1, <2>1, <2>2, <2>4, <2>5 DEF Ready, At
  <2> QED BY <1>1, <2>1, <2>3, <2>5, <2>6 DEF Called
<1>7. ASSUME NEW c \in Callers, Unlink(c) PROVE Called'
  <2> DEFINE call == IF calls[c].at = None THEN None ELSE [calls[c] EXCEPT !.step = "insert"]
  <2>1. /\ At(c, "unlink") /\ Goto(c, call) /\ forgetting' = (forgetting \/ calls[c].forget)
        /\ UNCHANGED <<used, records, disk, unloaded, crossed, ops>>
    BY <1>7 DEF Unlink
  <2>2. unloaded = {} /\ calls[c] # None
    BY <1>1, <2>1 DEF Ready, At
  <2>3. calls[c] \in Call /\ calls[c].at \in Points \cup {None} /\ calls[c].forget \in BOOLEAN
    BY <2>2, CallParts
  <2>4. call = None \/ (call \in Call /\ call.at \in Points)
    <3>1. CASE calls[c].at = None
      BY <3>1
    <3>2. CASE calls[c].at # None
      <4>1. call = [calls[c] EXCEPT !.step = "insert"]
        BY <3>2
      <4> QED BY <2>3, <3>2, <4>1 DEF Call
    <3> QED BY <3>1, <3>2
  <2> HIDE DEF call
  <2>5. /\ calls' \in [Callers -> Call \cup {None}] /\ calls'[c] = call
        /\ \A d \in Callers \ {c} : calls'[d] = calls[d]
    BY <2>1, <2>4, CallGoes
  <2>6. Ready'
    BY <1>1, <2>1, <2>2, <2>4, <2>5 DEF Ready, At
  <2>7. forgetting' \in BOOLEAN
    BY <2>1, Zenon
  <2> QED BY <1>1, <2>1, <2>5, <2>6, <2>7 DEF Called
<1>8. ASSUME NEW c \in Callers, Commit(c) PROVE Called'
  <2> DEFINE call == [calls[c] EXCEPT !.step = "put"]
  <2>1. /\ At(c, "insert") /\ Goto(c, call)
        /\ UNCHANGED <<used, records, disk, unloaded, forgetting, crossed, ops>>
    BY <1>8 DEF Commit
  <2>2. unloaded = {} /\ calls[c] # None /\ calls[c].at \in Points
    BY <1>1, <2>1 DEF Ready, At
  <2>3. calls[c] \in Call
    BY <2>2, CallParts
  <2>4. call \in Call /\ call.at \in Points
    BY <2>2, <2>3 DEF Call
  <2> HIDE DEF call
  <2>5. /\ calls' \in [Callers -> Call \cup {None}] /\ calls'[c] = call
        /\ \A d \in Callers \ {c} : calls'[d] = calls[d]
    BY <2>1, <2>4, CallGoes
  <2>6. Ready'
    BY <1>1, <2>1, <2>2, <2>4, <2>5 DEF Ready, At
  <2> QED BY <1>1, <2>1, <2>5, <2>6 DEF Called
<1>9. ASSUME NEW c \in Callers, Persist(c) PROVE Called'
  <2>1. /\ At(c, "put") /\ disk' = [disk EXCEPT ![calls[c].id] = calls[c].at] /\ Goto(c, None)
        /\ UNCHANGED <<used, records, unloaded, forgetting, crossed, ops>>
    BY <1>9 DEF Persist
  <2>2. unloaded = {} /\ calls[c] # None /\ calls[c].at \in Points
    BY <1>1, <2>1 DEF Ready, At
  <2>3. calls[c].id \in Ids
    BY <2>2, CallParts
  <2>4. /\ calls' \in [Callers -> Call \cup {None}] /\ calls'[c] = None
        /\ \A d \in Callers \ {c} : calls'[d] = calls[d]
    BY <2>1, CallGoes
  <2>5. Ready'
    BY <1>1, <2>1, <2>2, <2>4 DEF Ready, At
  <2> QED BY <1>1, <2>1, <2>2, <2>3, <2>4, <2>5 DEF Called
<1>10. CASE Collect
  <2>1. forgetting' = FALSE /\ UNCHANGED <<used, records, disk, calls, unloaded, crossed, ops>>
    BY <1>10 DEF Collect
  <2>2. Ready'
    BY <1>1, <2>1 DEF Ready, At
  <2> QED BY <1>1, <2>1, <2>2 DEF Called
<1>11. CASE Restart
  <2>1. /\ ops < MaxOps /\ ops' = ops + 1 /\ unloaded' = {i \in Ids : disk[i] # None}
        /\ calls' = [c \in Callers |-> None] /\ forgetting' = FALSE /\ crossed' = {}
        /\ UNCHANGED <<used, records, disk>>
    BY <1>11 DEF Restart, Started
  <2>2. Ready'
    BY <1>1, <2>1 DEF Ready, At
  <2>3. ops' \in 0 .. MaxOps
    BY <1>1, <2>1
  <2> QED BY <1>1, <2>1, <2>2, <2>3 DEF Called
<1>12. ASSUME NEW i \in Ids, Load(i) PROVE Called'
  <2>1. /\ unloaded' = unloaded \ {i} /\ i \in unloaded
        /\ UNCHANGED <<used, records, disk, calls, forgetting, crossed, ops>>
    BY <1>12 DEF Load
  <2>2. Ready'
    BY <1>1, <2>1 DEF Ready, At
  <2> QED BY <1>1, <2>1, <2>2 DEF Called
<1>13. CASE UNCHANGED vars
  <2>1. UNCHANGED <<used, records, disk, calls, unloaded, forgetting, crossed, ops>>
    BY <1>13 DEF vars
  <2>2. Ready'
    BY <1>1, <2>1 DEF Ready, At
  <2> QED BY <1>1, <2>1, <2>2 DEF Called
<1> QED BY <1>2, <1>3, <1>5, <1>6, <1>7, <1>8, <1>9, <1>10, <1>11, <1>12, <1>13 DEF Next

\* An insertion of i at q, by a call or by the rebuild.
Inserts(i, q) == (\E layer \in Layers : Insert(i, q, layer)) /\ Recorded(i) /\ tombstones' = tombstones
\* A deletion of i.
Marks(i) == MarkDeleted(i) /\ again' = again /\ replaced' = replaced
\* Nothing.
Leave == UNCHANGED <<graph, again, replaced>>

\* What any step does to the graph.
LEMMA GraphMoves ==
  ASSUME Called, [Next]_vars
  PROVE  \/ Leave
         \/ \E i \in Ids : Marks(i) \/ \E q \in Points : Inserts(i, q)
         \/ Collect \/ Restart
<1>1. ASSUME NEW c \in Callers, NEW q \in Points, Remember(c, q) \/ Revise(c, q) PROVE Leave
  BY <1>1 DEF Remember, Revise, Leave
<1>2. ASSUME NEW c \in Callers, NEW i \in Ids, NEW forget \in BOOLEAN, Read(c, i, forget) PROVE Leave
  BY <1>2 DEF Read, Leave
<1>3. ASSUME NEW c \in Callers, Delete(c) \/ Persist(c) PROVE Leave
  BY <1>3 DEF Delete, Persist, Leave
<1>4. ASSUME NEW c \in Callers, Unlink(c) PROVE \E i \in Ids : Marks(i)
  <2>1. At(c, "unlink") /\ Marks(calls[c].id)
    BY <1>4 DEF Unlink, Marks
  <2>2. calls[c].id \in Ids
    BY <2>1, CallParts DEF At
  <2> QED BY <2>1, <2>2
<1>5. ASSUME NEW c \in Callers, Commit(c) PROVE \E i \in Ids : \E q \in Points : Inserts(i, q)
  <2>1. At(c, "insert") /\ Inserts(calls[c].id, calls[c].at)
    BY <1>5 DEF Commit, Inserts
  <2>2. calls[c].id \in Ids
    BY <2>1, CallParts DEF At
  <2>3. calls[c].at \in Points
    BY <2>1 DEF Called, Ready
  <2> QED BY <2>1, <2>2, <2>3
<1>6. ASSUME NEW i \in Ids, Load(i) PROVE \E q \in Points : Inserts(i, q)
  <2>1. i \in unloaded /\ Inserts(i, disk[i])
    BY <1>6 DEF Load, Inserts
  <2>2. disk[i] \in Points
    BY <2>1 DEF Called, Ready
  <2> QED BY <2>1, <2>2
<1>7. CASE UNCHANGED vars
  BY <1>7 DEF vars, Leave
<1> QED BY <1>1, <1>2, <1>3, <1>4, <1>5, <1>6, <1>7 DEF Next

\* Every step keeps the graph sound.
LEMMA GraphStep == GraphInv /\ Called /\ [Next]_vars => GraphInv'
<1> SUFFICES ASSUME GraphInv, Called, [Next]_vars PROVE GraphInv'
  OBVIOUS
<1>1. /\ Typed /\ EntryPointLive /\ Sound(nodes)
      /\ IsGraph(nodes) /\ entry \in Ids \cup {None} /\ maxLayer \in Nat /\ tombstones \in Nat
      /\ again \subseteq Ids /\ replaced \subseteq Ids
  BY DEF GraphInv, Typed
<1>2. ASSUME Leave PROVE GraphInv'
  <2>1. UNCHANGED <<nodes, entry, maxLayer, tombstones, again, replaced>>
    BY <1>2 DEF Leave, graph
  <2>2. Typed' /\ EntryPointLive' /\ Sound(nodes')
    BY <1>1, <2>1 DEF Typed, EntryPointLive
  <2> QED BY <2>2 DEF GraphInv
<1>3. ASSUME NEW i \in Ids, Marks(i) PROVE GraphInv'
  <2>1. MarkDeleted(i) /\ again' = again /\ replaced' = replaced
    BY <1>3 DEF Marks
  <2>2. /\ IsGraph(nodes') /\ entry' \in Ids \cup {None} /\ maxLayer' \in Nat
        /\ EntryPointLive' /\ Sound(nodes') /\ tombstones' \in Nat
    BY <1>1, <2>1, MarkSound
  <2> QED BY <1>1, <2>1, <2>2 DEF GraphInv, Typed
<1>4. ASSUME NEW i \in Ids, NEW q \in Points, Inserts(i, q) PROVE GraphInv'
  <2>1. PICK layer \in Layers : Insert(i, q, layer)
    BY <1>4 DEF Inserts
  <2>2. Recorded(i) /\ tombstones' = tombstones
    BY <1>4 DEF Inserts
  <2>3. /\ IsGraph(nodes') /\ entry' \in Ids /\ maxLayer' \in Nat /\ EntryPointLive' /\ Sound(nodes')
    BY <2>1, <2>2, InsertSound
  <2>4. again' \subseteq Ids /\ replaced' \subseteq Ids
    BY <1>1, <2>2 DEF Recorded
  <2> QED BY <1>1, <2>2, <2>3, <2>4 DEF GraphInv, Typed
<1>5. ASSUME Collect PROVE GraphInv'
  <2>1. again' = again /\ replaced' = replaced
    BY <1>5 DEF Collect
  <2>2. CASE NeedsCleanup(nodes, tombstones)
    <3> DEFINE gone == Stored(nodes) \ Living(nodes)
    <3>1. Cleanup(gone)
      BY <1>5, <2>2 DEF Collect
    <3>2. gone \in SUBSET Ids
      BY DEF Stored
    <3>3. /\ IsGraph(nodes') /\ entry' \in Ids \cup {None} /\ maxLayer' \in Nat
          /\ EntryPointLive' /\ Sound(nodes')
      BY <2>1, <3>1, <3>2, CollectSound
    <3>4. tombstones' \in Nat
      <4>1. Cardinality(gone) \in Nat
        BY <3>2, IdsFinite
      <4>2. tombstones' = IF tombstones > Cardinality(gone) THEN tombstones - Cardinality(gone) ELSE 0
        BY <3>1 DEF Cleanup
      <4> HIDE DEF gone
      <4> QED BY <1>1, <4>1, <4>2
    <3> QED BY <1>1, <2>1, <3>3, <3>4 DEF GraphInv, Typed
  <2>3. CASE ~NeedsCleanup(nodes, tombstones)
    BY <1>2, <1>5, <2>1, <2>3 DEF Collect, Leave
  <2> QED BY <2>2, <2>3
<1>6. ASSUME Restart PROVE GraphInv'
  <2>1. /\ nodes' = [i \in Ids |-> None] /\ entry' = None /\ maxLayer' = 0 /\ tombstones' = 0
        /\ again' = {} /\ replaced' = {}
    BY <1>6 DEF Restart
  <2>2. Stored(nodes') = {} /\ Living(nodes') = {}
    BY <2>1 DEF Stored, Living
  <2>3. Typed'
    BY <1>1, <2>1, <2>2 DEF Typed, IsGraph
  <2> QED BY <2>1, <2>2, <2>3 DEF GraphInv, EntryPointLive, Sound
<1> QED BY <1>2, <1>3, <1>4, <1>5, <1>6, GraphMoves

\* So they hold always.
LEMMA GraphAlways == Spec => [](GraphInv /\ Called)
<1>1. GraphInv /\ Called /\ [Next]_vars => (GraphInv /\ Called)'
  BY GraphStep, CalledStep
<1> QED BY GraphInit, <1>1, PTL DEF Spec

\* Every variable keeps its type, every node its lists, and no list outgrows the
\* bound of its layer.
THEOREM HnswTypeCorrect == Spec => []TypeOK
<1>1. GraphInv /\ Called => TypeOK
  <2> SUFFICES ASSUME GraphInv, Called PROVE TypeOK
    OBVIOUS
  <2>1. Typed /\ IsGraph(nodes) /\ Sound(nodes)
    BY DEF GraphInv, Typed
  <2>2. \A i \in Stored(nodes) : \E l \in Layers : nodes[i] \in NodeOf(l)
    BY <2>1 DEF IsGraph, Stored, Node
  <2>3. \A i \in Stored(nodes) : \A l \in 0 .. nodes[i].layer : Len(nodes[i].links[l]) <= MaxNeighbors(l)
    BY <2>1 DEF Sound
  <2>4. DOMAIN nodes = Ids
    BY <2>1 DEF IsGraph
  <2> QED BY <2>1, <2>2, <2>3, <2>4 DEF TypeOK, Typed, Called
<1> QED BY <1>1, GraphAlways, PTL

-----------------------------------------------------------------------------
(* The tombstone counter                                                   *)

Dead == Stored(nodes) \ Living(nodes)

\* Dead nodes are finitely many; one more or one fewer is a number more or fewer.
LEMMA DeadFinite ==
  ASSUME NEW D \in SUBSET Ids, NEW i \in Ids
  PROVE  /\ IsFiniteSet(D) /\ Cardinality(D) \in Nat
         /\ i \notin D => Cardinality(D \cup {i}) = Cardinality(D) + 1
         /\ Cardinality(D \ {i}) <= Cardinality(D) /\ Cardinality(D \ {i}) \in Nat
<1>1. IsFiniteSet(D) /\ Cardinality(D) \in Nat
  BY IdsFinite
<1>2. i \notin D => Cardinality(D \cup {i}) = Cardinality(D) + 1
  BY <1>1, FS_AddElement
<1>3. Cardinality(D \ {i}) <= Cardinality(D)
  <2>1. D \ {i} \in SUBSET D
    OBVIOUS
  <2> QED BY <1>1, <2>1, FS_Subset
<1>4. Cardinality(D \ {i}) \in Nat
  <2>1. D \ {i} \in SUBSET Ids
    OBVIOUS
  <2> QED BY <2>1, IdsFinite
<1> QED BY <1>1, <1>2, <1>3, <1>4

\* A step from a graph that is counted leads to one.
LEMMA CountedStep == GraphInv /\ Called /\ TombstonesCounted /\ [Next]_vars => TombstonesCounted'
<1> SUFFICES ASSUME GraphInv, Called, TombstonesCounted, [Next]_vars PROVE TombstonesCounted'
  OBVIOUS
<1> DEFINE dead == Cardinality(Dead)
<1>1. tombstones >= dead /\ (again = {} => tombstones = dead)
  BY DEF TombstonesCounted, Dead
<1>2. TombstonesCounted' <=> tombstones' >= dead' /\ (again' = {} => tombstones' = dead')
  BY DEF TombstonesCounted, Dead
<1>3. tombstones \in Nat /\ Dead \in SUBSET Ids
  BY DEF GraphInv, Typed, Dead, Stored
<1>4. dead \in Nat
  BY <1>3, IdsFinite
<1> HIDE DEF dead
<1>5. ASSUME Dead' = Dead, tombstones' = tombstones, again' = again PROVE TombstonesCounted'
  BY <1>1, <1>2, <1>5 DEF dead
<1>6. ASSUME Leave PROVE TombstonesCounted'
  BY <1>5, <1>6 DEF Leave, graph, Dead
<1>7. ASSUME NEW i \in Ids, Marks(i) PROVE TombstonesCounted'
  <2>1. /\ Stored(nodes') = Stored(nodes) /\ Living(nodes') = Living(nodes) \ {i} /\ again' = again
        /\ tombstones' = IF i \in Living(nodes) THEN tombstones + 1 ELSE tombstones
    BY <1>7, MarkSound DEF Marks
  <2>2. CASE i \in Living(nodes)
    <3>1. Dead' = Dead \cup {i} /\ i \notin Dead
      BY <2>1, <2>2 DEF Dead, Living
    <3>2. dead' = dead + 1
      BY <1>3, <3>1, DeadFinite DEF dead
    <3> QED BY <1>1, <1>2, <1>3, <1>4, <2>1, <2>2, <3>2
  <2>3. CASE i \notin Living(nodes)
    BY <1>5, <2>1, <2>3 DEF Dead
  <2> QED BY <2>2, <2>3
<1>8. ASSUME NEW i \in Ids, NEW q \in Points, Inserts(i, q) PROVE TombstonesCounted'
  <2>1. PICK layer \in Layers : Insert(i, q, layer)
    BY <1>8 DEF Inserts
  <2>2. /\ Recorded(i) /\ tombstones' = tombstones
        /\ again' = IF i \in Stored(nodes) THEN again \cup {i} ELSE again
    BY <1>8 DEF Inserts, Recorded
  <2>3. Stored(nodes') = Stored(nodes) \cup {i} /\ Living(nodes') = Living(nodes) \cup {i}
    BY <2>1, <2>2, InsertSound
  <2>4. Dead' = Dead \ {i}
    BY <2>3 DEF Dead
  <2>5. dead' <= dead /\ dead' \in Nat
    BY <1>3, <2>4, DeadFinite DEF dead
  <2>6. again' = {} => Dead' = Dead /\ again = {}
    BY <2>2, <2>4 DEF Dead
  <2>7. again' = {} => tombstones' = dead'
    BY <1>1, <2>2, <2>6 DEF dead
  <2> QED BY <1>1, <1>2, <1>3, <1>4, <2>2, <2>5, <2>7
<1>9. ASSUME Collect PROVE TombstonesCounted'
  <2>1. again' = again /\ replaced' = replaced
    BY <1>9 DEF Collect
  <2>2. CASE NeedsCleanup(nodes, tombstones)
    <3>1. Cleanup(Dead)
      BY <1>9, <2>2 DEF Collect, Dead
    <3>2. Stored(nodes') = Living(nodes) /\ Living(nodes') = Living(nodes)
      BY <1>3, <2>1, <3>1, CollectSound DEF Dead
    <3>3. Dead' = {}
      BY <3>2 DEF Dead
    <3>4. dead' = 0
      BY <3>3, FS_EmptySet DEF dead
    <3>5. tombstones' = IF tombstones > dead THEN tombstones - dead ELSE 0
      BY <3>1 DEF Cleanup, dead
    <3> QED BY <1>1, <1>2, <1>3, <1>4, <2>1, <3>4, <3>5
  <2>3. CASE ~NeedsCleanup(nodes, tombstones)
    BY <1>6, <1>9, <2>1, <2>3 DEF Collect, Leave
  <2> QED BY <2>2, <2>3
<1>10. ASSUME Restart PROVE TombstonesCounted'
  <2>1. nodes' = [i \in Ids |-> None] /\ tombstones' = 0
    BY <1>10 DEF Restart
  <2>2. Dead' = {}
    BY <2>1 DEF Dead, Stored
  <2>3. dead' = 0
    BY <2>2, FS_EmptySet DEF dead
  <2> QED BY <1>2, <2>1, <2>3
<1> QED BY <1>6, <1>7, <1>8, <1>9, <1>10, GraphMoves

\* The counter that decides on collections never misses a tombstone, and is exact
\* until an id is inserted over its own tombstone.
THEOREM TombstonesStayCounted == Spec => []TombstonesCounted
<1>1. Init => TombstonesCounted
  <2> SUFFICES ASSUME Init PROVE TombstonesCounted
    OBVIOUS
  <2>1. nodes = [i \in Ids |-> None] /\ tombstones = 0
    BY DEF Init
  <2>2. Stored(nodes) \ Living(nodes) = {}
    BY <2>1 DEF Stored
  <2> QED BY <2>1, <2>2, FS_EmptySet DEF TombstonesCounted
<1> QED BY <1>1, CountedStep, GraphAlways, PTL DEF Spec

\* Through insertions, deletions, revisions, collections and rebuilds, whichever
\* calls overlap, a search starts at a live node whenever there is one, no live node
\* is above the layer it starts at, no link leads to a node that was removed, and no
\* tombstone is uncounted.
THEOREM GraphStaysSound == Spec => []GraphSound
<1>1. GraphInv /\ TombstonesCounted => GraphSound
  <2> SUFFICES ASSUME GraphInv PROVE NoDanglingLinks
    BY DEF GraphInv, GraphSound
  <2>1. IsGraph(nodes) /\ Sound(nodes)
    BY DEF GraphInv, Typed
  <2> QED BY <2>1 DEF NoDanglingLinks, Sound, IsGraph
<1> QED BY <1>1, GraphAlways, TombstonesStayCounted, PTL

-----------------------------------------------------------------------------
(* The graph and what is on disk                                           *)

\* The graph says of i what is on disk.
Agree(i) == /\ i \in Living(nodes) <=> disk[i] # None
            /\ i \in Living(nodes) => nodes[i].at = disk[i]

\* How far a call got with its id, if no other was about it.
OnCourse(k) ==
  /\ k.step = "batch" => k.at = None /\ Agree(k.id)
  /\ k.step = "unlink" => k.at = disk[k.id]
  /\ k.step = "insert" => k.at = disk[k.id] /\ k.id \notin Living(nodes)
  /\ k.step = "put" => k.at = disk[k.id] /\ k.id \in Living(nodes) /\ nodes[k.id].at = k.at

\* Two calls about one id are noted.
Alone == \A c, d \in Callers :
           calls[c] # None /\ calls[d] # None /\ c # d /\ calls[c].id = calls[d].id =>
             calls[c].id \in crossed
Going == \A c \in Callers : calls[c] # None /\ calls[c].id \notin crossed => OnCourse(calls[c])
\* Between calls and while loading.
Resting == \A i \in Ids : i \notin Busy /\ i \notin crossed =>
             IF i \in unloaded THEN i \notin Living(nodes) ELSE Agree(i)
\* Of an id that was not given out there is nothing.
Fresh == /\ \A i \in Ids : i > used => disk[i] = None /\ i \notin Stored(nodes) /\ i \notin records
         /\ \A c \in Callers : calls[c] # None => calls[c].id <= used

FollowInv == Alone /\ Going /\ Resting /\ Fresh

\* A step leaves alone what the graph and the disk say of the ids in S.
Untouched(S) == \A i \in S : /\ disk'[i] = disk[i]
                             /\ i \in Living(nodes') <=> i \in Living(nodes)
                             /\ i \in Living(nodes) => nodes'[i].at = nodes[i].at

\* Then they agree on them as before.
LEMMA AgreeKept ==
  ASSUME NEW S, Untouched(S), NEW i \in S
  PROVE  Agree(i)' <=> Agree(i)
BY DEF Untouched, Agree

\* The ids that calls are about, one by one.
LEMMA BusyParts == \A i : i \in Busy <=> \E c \in Callers : calls[c] # None /\ calls[c].id = i
BY DEF Busy

\* A step of one call: if it leaves the other ids alone, and its own id stands as it
\* should, all do.
LEMMA CallFollows ==
  ASSUME FollowInv, Called, NEW c \in Callers, NEW i \in Ids, NEW call \in Call \cup {None}, Goto(c, call),
         calls[c] # None => calls[c].id = i, call # None => call.id = i /\ i <= used',
         used <= used', used' \in Nat, Untouched(Ids \ {i}), unloaded' = unloaded,
         Stored(nodes') \subseteq Stored(nodes) \cup {i}, records' \subseteq records \cup {i}, i <= used',
         crossed \subseteq crossed', crossed' \subseteq crossed \cup {i},
         i \notin crossed' /\ call # None => \A d \in Callers \ {c} : calls[d] # None => calls[d].id # i,
         i \notin crossed' /\ call # None => OnCourse(call)',
         i \notin crossed' /\ call = None => i \notin unloaded /\ Agree(i)',
         call = None => calls[c] # None
  PROVE  FollowInv'
<1>1. /\ calls' \in [Callers -> Call \cup {None}] /\ calls'[c] = call /\ None \notin Call
      /\ \A d \in Callers \ {c} : calls'[d] = calls[d]
  BY CallGoes
<1>2. Alone /\ Going /\ Resting /\ Fresh /\ used \in Nat
  BY DEF FollowInv, Called
<1>3. Alone'
  <2> SUFFICES ASSUME NEW d \in Callers, NEW e \in Callers, calls'[d] # None, calls'[e] # None, d # e,
                      calls'[d].id = calls'[e].id, calls'[d].id \notin crossed'
               PROVE  FALSE
    BY DEF Alone
  <2>1. d # c /\ e # c => FALSE
    BY <1>1, <1>2 DEF Alone
  <2>2. CASE d = c
    BY <1>1, <2>2
  <2>3. CASE e = c
    BY <1>1, <2>3
  <2> QED BY <2>1, <2>2, <2>3
<1>4. Going'
  <2> SUFFICES ASSUME NEW d \in Callers, calls'[d] # None, calls'[d].id \notin crossed' PROVE OnCourse(calls[d])'
    BY DEF Going
  <2>1. PICK k : k = calls'[d]
    OBVIOUS
  <2>2. OnCourse(k)'
    <3>1. CASE d = c
      BY <1>1, <2>1, <3>1
    <3>2. CASE d # c
      <4>1. k = calls[d] /\ calls[d] # None /\ k.id \notin crossed /\ k.id \in Ids
        BY <1>1, <2>1, <3>2, CallParts
      <4>2. OnCourse(k)
        BY <1>2, <4>1 DEF Going
      <4>3. k.id # i
        <5>1. CASE call # None
          BY <1>1, <2>1, <3>2, <4>1, <5>1
        <5>2. CASE call = None
          BY <1>1, <1>2, <2>1, <3>2, <4>1, <5>2 DEF Alone
        <5> QED BY <5>1, <5>2
      <4>4. k.id \in Ids \ {i}
        BY <4>1, <4>3
      <4> QED BY <4>2, <4>4 DEF OnCourse, Untouched, Agree
    <3> QED BY <3>1, <3>2
  <2> QED BY <2>1, <2>2 DEF OnCourse, Agree
<1>5. Resting'
  <2> SUFFICES ASSUME NEW j \in Ids, j \notin Busy', j \notin crossed'
               PROVE  IF j \in unloaded' THEN j \notin Living(nodes') ELSE Agree(j)'
    BY DEF Resting
  <2>1. CASE j = i
    <3>1. call = None
      BY <1>1, <2>1, BusyParts DEF Busy
    <3> QED BY <2>1, <3>1
  <2>2. CASE j # i
    <3>1. j \notin Busy
      <4> SUFFICES ASSUME NEW d \in Callers, calls[d] # None, calls[d].id = j PROVE FALSE
        BY DEF Busy
      <4>1. d # c
        BY <2>2
      <4> QED BY <1>1, <4>1 DEF Busy
    <3>2. IF j \in unloaded THEN j \notin Living(nodes) ELSE Agree(j)
      BY <1>2, <3>1 DEF Resting
    <3>3. j \in Ids \ {i} /\ (Agree(j)' <=> Agree(j))
      BY <2>2, AgreeKept
    <3>4. j \in Living(nodes') <=> j \in Living(nodes)
      BY <3>3 DEF Untouched
    <3> QED BY <3>2, <3>3, <3>4
  <2> QED BY <2>1, <2>2
<1>6. Fresh'
  <2>1. ASSUME NEW j \in Ids, j > used' PROVE disk'[j] = None /\ j \notin Stored(nodes') /\ j \notin records'
    <3>1. j # i /\ j > used
      BY <1>2, <2>1 DEF Ids
    <3> QED BY <1>2, <3>1 DEF Fresh, Untouched
  <2>2. ASSUME NEW d \in Callers, calls'[d] # None PROVE calls'[d].id <= used'
    <3>1. CASE d = c
      BY <1>1, <2>2, <3>1
    <3>2. CASE d # c
      <4>1. calls'[d] = calls[d] /\ calls[d].id <= used /\ calls[d].id \in Nat
        BY <1>1, <1>2, <2>2, <3>2, CallParts DEF Fresh, Ids
      <4> QED BY <1>2, <4>1
    <3> QED BY <3>1, <3>2
  <2> QED BY <2>1, <2>2 DEF Fresh
<1> QED BY <1>3, <1>4, <1>5, <1>6 DEF FollowInv

\* A step that changes neither the graph nor the disk leaves all ids alone.
LEMMA LeftAlone == ASSUME nodes' = nodes, disk' = disk PROVE Untouched(Ids)
BY DEF Untouched

\* Every step keeps the graph with the disk.
LEMMA FollowStep == GraphInv /\ Called /\ FollowInv /\ [Next]_vars => FollowInv'
<1> SUFFICES ASSUME GraphInv, Called, FollowInv, [Next]_vars PROVE FollowInv'
  OBVIOUS
<1>1. /\ used \in 0 .. MaxIds /\ records \subseteq Ids /\ disk \in [Ids -> Points \cup {None}]
      /\ calls \in [Callers -> Call \cup {None}] /\ unloaded \subseteq Ids
      /\ Ready /\ MaxIds \in Nat /\ None \notin Call /\ None \notin Points
      /\ Alone /\ Going /\ Resting /\ Fresh /\ Living(nodes) \subseteq Stored(nodes)
  BY Constants, HnswAssumption DEF Called, FollowInv, Living
<1> USE DEF Steps
<1>2. ASSUME NEW c \in Callers, NEW q \in Points, Remember(c, q) PROVE FollowInv'
  <2>1. PICK i : i = used + 1
    OBVIOUS
  <2>2. PICK call : call = [id |-> i, at |-> q, step |-> "insert", forget |-> FALSE]
    OBVIOUS
  <2>3. /\ calls[c] = None /\ unloaded = {} /\ used < MaxIds /\ used' = i /\ records' = records \cup {i}
        /\ disk' = [disk EXCEPT ![i] = q] /\ Goto(c, call)
        /\ unloaded' = unloaded /\ crossed' = crossed /\ nodes' = nodes
    BY <1>2, <2>1, <2>2 DEF Remember, Free, graph
  <2>4. i \in Ids /\ i \in Nat /\ i > used /\ i <= used'
    BY <1>1, <2>1, <2>3 DEF Ids
  <2>5. call \in Call /\ call.at = q /\ call.id = i /\ call.step = "insert" /\ call # None
    <3>1. call \in Call
      BY <2>2, <2>4 DEF Call
    <3>2. call.at = q /\ call.id = i /\ call.step = "insert"
      BY <2>2
    <3> QED BY <1>1, <3>1, <3>2
  <2>6. disk'[i] = q /\ i \notin Living(nodes') /\ i \notin Stored(nodes)
    BY <1>1, <2>3, <2>4 DEF Fresh
  <2>7. \A d \in Callers : calls[d] # None => calls[d].id # i
    <3> SUFFICES ASSUME NEW d \in Callers, calls[d] # None PROVE calls[d].id # i
      OBVIOUS
    <3>1. calls[d].id <= used /\ calls[d].id \in Nat
      BY <1>1, CallParts DEF Fresh, Ids
    <3> QED BY <1>1, <2>4, <3>1
  <2>8. used <= used' /\ used' \in Nat
    BY <1>1, <2>1, <2>3, <2>4
  <2>9. OnCourse(call)'
    BY <2>5, <2>6 DEF OnCourse
  <2>10. Untouched(Ids \ {i})
    BY <1>1, <2>3 DEF Untouched
  <2>11. /\ calls[c] # None => calls[c].id = i
         /\ call # None => call.id = i /\ i <= used'
         /\ Stored(nodes') \subseteq Stored(nodes) \cup {i} /\ records' \subseteq records \cup {i}
         /\ crossed \subseteq crossed' /\ crossed' \subseteq crossed \cup {i}
    BY <2>3, <2>4, <2>5
  <2>12. \A d \in Callers \ {c} : calls[d] # None => calls[d].id # i
    BY <2>7
  <2> QED BY <2>3, <2>4, <2>5, <2>8, <2>9, <2>10, <2>11, <2>12, CallFollows
<1>3. ASSUME NEW c \in Callers, NEW i \in Ids, NEW forget \in BOOLEAN, Read(c, i, forget) PROVE FollowInv'
  <2>0. PICK call : call = [id |-> i, at |-> None, step |-> "batch", forget |-> forget]
    OBVIOUS
  <2>1. /\ calls[c] = None /\ unloaded = {} /\ i \in records /\ used' = used /\ records' = records
        /\ disk' = disk /\ Goto(c, call) /\ unloaded' = unloaded /\ nodes' = nodes
        /\ crossed' = IF i \in Busy THEN crossed \cup {i} ELSE crossed
    BY <1>3, <2>0 DEF Read, Free, graph
  <2>2. call \in Call /\ call.id = i /\ call.at = None /\ call.step = "batch" /\ call # None
    BY <1>1, <2>0 DEF Call
  <2>3. i <= used' /\ used <= used' /\ used' \in Nat
    <3>1. ~(i > used) /\ i \in Nat
      BY <1>1, <2>1 DEF Fresh, Ids
    <3> QED BY <1>1, <2>1, <3>1
  <2>4. i \notin crossed' => i \notin Busy /\ i \notin crossed
    BY <2>1
  <2>5. i \notin crossed' => \A d \in Callers \ {c} : calls[d] # None => calls[d].id # i
    BY <2>4 DEF Busy
  <2>6. Untouched(Ids)
    BY <2>1, LeftAlone
  <2>7. i \notin crossed' => Agree(i)'
    <3>1. i \notin crossed' => Agree(i)
      BY <1>1, <2>1, <2>4 DEF Resting
    <3> QED BY <2>6, <3>1, AgreeKept
  <2>8. i \notin crossed' => OnCourse(call)'
    BY <2>2, <2>7 DEF OnCourse
  <2>9. /\ Untouched(Ids \ {i}) /\ crossed \subseteq crossed' /\ crossed' \subseteq crossed \cup {i}
        /\ Stored(nodes') \subseteq Stored(nodes) \cup {i} /\ records' \subseteq records \cup {i}
    BY <2>1, <2>6 DEF Untouched
  <2> QED BY <2>1, <2>2, <2>3, <2>5, <2>8, <2>9, CallFollows
<1>4. ASSUME NEW c \in Callers, NEW k \in Call, k = calls[c], NEW call \in Call \cup {None}, Goto(c, call),
             call # None => call.id = k.id,
             Untouched(Ids \ {k.id}), Stored(nodes') \subseteq Stored(nodes) \cup {k.id},
             records' \subseteq records \cup {k.id}, UNCHANGED <<used, unloaded, crossed>>,
             OnCourse(k) => IF call = None THEN Agree(k.id)' ELSE OnCourse(call)'
      PROVE  FollowInv'
  <2>0. PICK i : i = k.id
    OBVIOUS
  <2>1. i \in Ids /\ calls[c] # None /\ unloaded = {} /\ used \in Nat
    BY <1>1, <1>4, <2>0 DEF Call, Ready
  <2>2. i <= used /\ calls[c].id = i
    BY <1>1, <1>4, <2>0, <2>1 DEF Fresh
  <2>3. i \notin crossed => OnCourse(k)
    BY <1>1, <1>4, <2>0, <2>1 DEF Going, OnCourse, Agree
  <2>4. i \notin crossed => \A d \in Callers \ {c} : calls[d] # None => calls[d].id # i
    BY <1>1, <2>1, <2>2 DEF Alone
  <2>5. /\ used' = used /\ unloaded' = unloaded /\ crossed' = crossed
        /\ Untouched(Ids \ {i}) /\ Stored(nodes') \subseteq Stored(nodes) \cup {i}
        /\ records' \subseteq records \cup {i} /\ (call # None => call.id = i)
    BY <1>4, <2>0
  <2>6. i \notin crossed => IF call = None THEN Agree(i)' ELSE OnCourse(call)'
    <3>1. OnCourse(k) => IF call = None THEN Agree(k.id)' ELSE OnCourse(call)'
      BY <1>4
    <3>2. Agree(k.id)' => Agree(i)'
      BY <2>0
    <3> QED BY <2>3, <3>1, <3>2
  <2>7. /\ i <= used' /\ used <= used' /\ used' \in Nat
        /\ crossed \subseteq crossed' /\ crossed' \subseteq crossed \cup {i}
    BY <2>1, <2>2, <2>5
  <2>8. /\ i \notin crossed' /\ call # None => OnCourse(call)'
        /\ i \notin crossed' /\ call = None => i \notin unloaded /\ Agree(i)'
        /\ i \notin crossed' /\ call # None => \A d \in Callers \ {c} : calls[d] # None => calls[d].id # i
    BY <2>1, <2>4, <2>5, <2>6
  <2> QED BY <1>4, <2>1, <2>2, <2>5, <2>7, <2>8, CallFollows
<1>5. ASSUME NEW c \in Callers, NEW q \in Points, Revise(c, q) PROVE FollowInv'
  <2>1. calls[c] # None
    BY <1>5 DEF Revise, At
  <2>2. PICK k \in Call : k = calls[c]
    BY <2>1, CallParts
  <2>3. PICK call : call = [k EXCEPT !.at = q, !.step = "unlink"]
    OBVIOUS
  <2>4. /\ disk' = [disk EXCEPT ![k.id] = q] /\ Goto(c, call)
        /\ records' = records \cup {k.id} /\ UNCHANGED <<used, unloaded, crossed>> /\ nodes' = nodes
    BY <1>5, <2>2, <2>3 DEF Revise, graph
  <2>5. call \in Call /\ call.id = k.id /\ call.at = q /\ call.step = "unlink" /\ k.id \in Ids /\ call # None
    BY <1>1, <2>3 DEF Call
  <2>6. disk'[k.id] = q /\ Untouched(Ids \ {k.id})
    BY <1>1, <2>4, <2>5 DEF Untouched
  <2>7. OnCourse(call)'
    BY <2>5, <2>6 DEF OnCourse
  <2> QED BY <1>4, <2>2, <2>4, <2>5, <2>6, <2>7
<1>6. ASSUME NEW c \in Callers, Delete(c) PROVE FollowInv'
  <2>1. calls[c] # None
    BY <1>6 DEF Delete, At
  <2>2. PICK k \in Call : k = calls[c]
    BY <2>1, CallParts
  <2>3. PICK call : call = [k EXCEPT !.step = "unlink"]
    OBVIOUS
  <2>4. /\ disk' = [disk EXCEPT ![k.id] = None] /\ Goto(c, call) /\ k.step = "batch"
        /\ records' = records \ {k.id} /\ UNCHANGED <<used, unloaded, crossed>> /\ nodes' = nodes
    BY <1>6, <2>2, <2>3 DEF Delete, At, graph
  <2>5. call \in Call /\ call.id = k.id /\ call.at = k.at /\ call.step = "unlink" /\ k.id \in Ids /\ call # None
    BY <1>1, <2>3 DEF Call
  <2>6. disk'[k.id] = None /\ Untouched(Ids \ {k.id})
    BY <1>1, <2>4, <2>5 DEF Untouched
  <2>7. OnCourse(k) => OnCourse(call)'
    <3>1. OnCourse(k) => k.at = None
      BY <2>4 DEF OnCourse
    <3>2. k.at = None => OnCourse(call)'
      BY <2>5, <2>6 DEF OnCourse
    <3> QED BY <3>1, <3>2
  <2>8. records' \subseteq records \cup {k.id} /\ Stored(nodes') \subseteq Stored(nodes) \cup {k.id}
    BY <2>4
  <2> QED BY <1>4, <2>2, <2>4, <2>5, <2>6, <2>7, <2>8
<1>7. ASSUME NEW c \in Callers, Unlink(c) PROVE FollowInv'
  <2>1. calls[c] # None
    BY <1>7 DEF Unlink, At
  <2>2. PICK k \in Call : k = calls[c]
    BY <2>1, CallParts
  <2>3. PICK call : call = IF k.at = None THEN None ELSE [k EXCEPT !.step = "insert"]
    OBVIOUS
  <2>4. /\ MarkDeleted(k.id) /\ replaced' = replaced /\ k.step = "unlink" /\ k.id \in Ids
        /\ Goto(c, call) /\ UNCHANGED <<used, records, disk, unloaded, crossed>>
    BY <1>7, <2>2, <2>3 DEF Unlink, At, Call
  <2>5. /\ Stored(nodes') = Stored(nodes) /\ Living(nodes') = Living(nodes) \ {k.id}
        /\ \A j \in Stored(nodes) : nodes'[j].at = nodes[j].at
    BY <2>4, MarkSound
  <2>6. Untouched(Ids \ {k.id})
    BY <1>1, <2>4, <2>5 DEF Untouched
  <2>7. OnCourse(k) => k.at = disk'[k.id]
    BY <2>4 DEF OnCourse
  <2>8. CASE k.at = None
    <3>1. call = None
      BY <2>3, <2>8
    <3>2. OnCourse(k) => Agree(k.id)'
      BY <2>5, <2>7, <2>8 DEF Agree
    <3> QED BY <1>4, <2>2, <2>4, <2>5, <2>6, <3>1, <3>2
  <2>9. CASE k.at # None
    <3>1. call = [k EXCEPT !.step = "insert"]
      BY <2>3, <2>9
    <3>2. call \in Call /\ call.id = k.id /\ call.at = k.at /\ call.step = "insert" /\ call # None
      BY <1>1, <3>1 DEF Call
    <3>3. OnCourse(k) => OnCourse(call)'
      BY <2>5, <2>7, <3>2 DEF OnCourse
    <3> QED BY <1>4, <2>2, <2>4, <2>5, <2>6, <3>2, <3>3
  <2> QED BY <2>8, <2>9
<1>8. ASSUME NEW c \in Callers, Commit(c) PROVE FollowInv'
  <2>1. calls[c] # None /\ calls[c].at \in Points
    BY <1>1, <1>8 DEF Commit, At, Ready
  <2>2. PICK k \in Call : k = calls[c]
    BY <2>1, CallParts
  <2>3. PICK call : call = [k EXCEPT !.step = "put"]
    OBVIOUS
  <2>4. /\ Recorded(k.id) /\ k.step = "insert" /\ k.id \in Ids /\ k.at \in Points
        /\ Goto(c, call) /\ UNCHANGED <<used, records, disk, unloaded, crossed>>
    BY <1>8, <2>1, <2>2, <2>3 DEF Commit, At, Call
  <2>5. PICK layer \in Layers : Insert(k.id, k.at, layer)
    BY <1>8, <2>2 DEF Commit
  <2>6. call \in Call /\ call.id = k.id /\ call.at = k.at /\ call.step = "put" /\ call # None
    BY <1>1, <2>3 DEF Call
  <2>7. /\ Stored(nodes') = Stored(nodes) \cup {k.id} /\ Living(nodes') = Living(nodes) \cup {k.id}
        /\ nodes'[k.id].at = k.at /\ \A j \in Living(nodes) \ {k.id} : nodes'[j].at = nodes[j].at
    BY <2>4, <2>5, InsertSound
  <2>8. Untouched(Ids \ {k.id})
    BY <2>4, <2>7 DEF Untouched
  <2>9. OnCourse(k) => k.at = disk'[k.id]
    BY <2>4 DEF OnCourse
  <2>10. k.at = disk'[k.id] => OnCourse(call)'
    BY <2>6, <2>7 DEF OnCourse
  <2> QED BY <1>4, <2>2, <2>4, <2>6, <2>7, <2>8, <2>9, <2>10
<1>9. ASSUME NEW c \in Callers, Persist(c) PROVE FollowInv'
  <2>1. calls[c] # None /\ calls[c].at \in Points
    BY <1>1, <1>9 DEF Persist, At, Ready
  <2>2. PICK k \in Call : k = calls[c]
    BY <2>1, CallParts
  <2>3. /\ k.step = "put" /\ disk' = [disk EXCEPT ![k.id] = k.at] /\ k.id \in Ids /\ k.at \in Points
        /\ Goto(c, None) /\ UNCHANGED <<used, records, unloaded, crossed>> /\ nodes' = nodes
    BY <1>9, <2>1, <2>2 DEF Persist, At, graph, Call
  <2>4. disk'[k.id] = k.at /\ Untouched(Ids \ {k.id})
    BY <1>1, <2>3 DEF Untouched
  <2>5. OnCourse(k) => k.id \in Living(nodes) /\ nodes[k.id].at = k.at
    BY <2>3 DEF OnCourse
  <2>6. OnCourse(k) => Agree(k.id)'
    BY <1>1, <2>3, <2>4, <2>5 DEF Agree
  <2> QED BY <1>4, <2>2, <2>3, <2>4, <2>6
<1>10. ASSUME Untouched(Ids), Stored(nodes') \subseteq Stored(nodes),
              UNCHANGED <<used, records, calls, unloaded, crossed>>
       PROVE  FollowInv'
  <2>1. Alone' /\ Busy' = Busy
    BY <1>1, <1>10 DEF Alone, Busy
  <2>2. Going'
    <3> SUFFICES ASSUME NEW c \in Callers, calls[c] # None, calls[c].id \notin crossed PROVE OnCourse(calls[c])'
      BY <1>10 DEF Going
    <3>1. PICK k : k = calls[c] /\ k = calls'[c]
      BY <1>10
    <3>2. k.id \in Ids /\ OnCourse(k)
      BY <1>1, <3>1, CallParts DEF Going
    <3>3. OnCourse(k)'
      BY <1>10, <3>2 DEF OnCourse, Untouched, Agree
    <3> QED BY <3>1, <3>3 DEF OnCourse, Agree
  <2>3. Resting'
    <3> SUFFICES ASSUME NEW j \in Ids, j \notin Busy, j \notin crossed
                 PROVE  IF j \in unloaded THEN j \notin Living(nodes') ELSE Agree(j)'
      BY <1>10, <2>1 DEF Resting
    <3>1. IF j \in unloaded THEN j \notin Living(nodes) ELSE Agree(j)
      BY <1>1 DEF Resting
    <3>2. (Agree(j)' <=> Agree(j)) /\ (j \in Living(nodes') <=> j \in Living(nodes))
      BY <1>10, AgreeKept DEF Untouched
    <3> QED BY <3>1, <3>2
  <2>4. Fresh'
    BY <1>1, <1>10 DEF Fresh, Untouched
  <2> QED BY <2>1, <2>2, <2>3, <2>4 DEF FollowInv
<1>11. CASE Collect
  <2>1. UNCHANGED <<used, records, disk, calls, unloaded, crossed, replaced>>
    BY <1>11 DEF Collect
  <2>2. CASE NeedsCleanup(nodes, tombstones)
    <3> DEFINE gone == Stored(nodes) \ Living(nodes)
    <3>1. Cleanup(gone)
      BY <1>11, <2>2 DEF Collect
    <3>2. gone \in SUBSET Ids
      BY DEF Stored
    <3>3. /\ Stored(nodes') = Living(nodes) /\ Living(nodes') = Living(nodes)
          /\ \A j \in Living(nodes) : nodes'[j].at = nodes[j].at
      BY <2>1, <3>1, <3>2, CollectSound
    <3>4. Untouched(Ids)
      BY <2>1, <3>3 DEF Untouched
    <3> QED BY <1>1, <1>10, <2>1, <3>3, <3>4
  <2>3. CASE ~NeedsCleanup(nodes, tombstones)
    <3>1. nodes' = nodes
      BY <1>11, <2>3 DEF Collect, graph
    <3> QED BY <1>10, <2>1, <3>1, LeftAlone
  <2> QED BY <2>2, <2>3
<1>12. CASE Restart
  <2>1. /\ nodes' = [i \in Ids |-> None] /\ unloaded' = {i \in Ids : disk[i] # None}
        /\ calls' = [c \in Callers |-> None] /\ crossed' = {} /\ UNCHANGED <<used, records, disk>>
    BY <1>12 DEF Restart
  <2>2. Stored(nodes') = {} /\ Living(nodes') = {}
    BY <2>1 DEF Stored, Living
  <2>3. \A j \in Ids : IF j \in unloaded' THEN j \notin Living(nodes') ELSE Agree(j)'
    BY <2>1, <2>2 DEF Agree
  <2>4. Alone' /\ Going' /\ Resting' /\ Fresh'
    BY <1>1, <2>1, <2>2, <2>3 DEF Alone, Going, Resting, Fresh
  <2> QED BY <2>4 DEF FollowInv
<1>13. ASSUME NEW i \in Ids, Load(i) PROVE FollowInv'
  <2>1. /\ i \in unloaded /\ unloaded' = unloaded \ {i} /\ Recorded(i)
        /\ UNCHANGED <<used, records, disk, calls, crossed>>
    BY <1>13 DEF Load
  <2>2. PICK layer \in Layers : Insert(i, disk[i], layer)
    BY <1>13 DEF Load
  <2>3. disk[i] \in Points /\ disk[i] # None /\ \A c \in Callers : calls[c] = None
    BY <1>1, <2>1 DEF Ready
  <2>4. /\ Stored(nodes') = Stored(nodes) \cup {i} /\ Living(nodes') = Living(nodes) \cup {i}
        /\ nodes'[i].at = disk[i] /\ \A j \in Living(nodes) \ {i} : nodes'[j].at = nodes[j].at
    BY <2>1, <2>2, <2>3, InsertSound
  <2>5. Alone' /\ Going' /\ Busy = {}
    BY <2>1, <2>3 DEF Alone, Going, Busy
  <2>6. Resting'
    <3> SUFFICES ASSUME NEW j \in Ids, j \notin crossed
                 PROVE  IF j \in unloaded' THEN j \notin Living(nodes') ELSE Agree(j)'
      BY <2>1 DEF Resting
    <3>1. CASE j = i
      BY <2>1, <2>3, <2>4, <3>1 DEF Agree
    <3>2. CASE j # i
      BY <1>1, <2>1, <2>4, <2>5, <3>2 DEF Resting, Agree
    <3> QED BY <3>1, <3>2
  <2>7. Fresh'
    BY <1>1, <2>1, <2>3, <2>4 DEF Fresh
  <2> QED BY <2>5, <2>6, <2>7 DEF FollowInv
<1>14. CASE UNCHANGED vars
  <2>1. UNCHANGED <<nodes, used, records, disk, calls, unloaded, crossed>>
    BY <1>14 DEF vars, graph
  <2> QED BY <1>10, <2>1, LeftAlone
<1> QED BY <1>2, <1>3, <1>5, <1>6, <1>7, <1>8, <1>9, <1>11, <1>12, <1>13, <1>14 DEF Next

\* Whatever calls about other ids, collections and crashes do: an id that no call is
\* about, and no two calls were about at once, has a live node exactly if its vector is
\* on disk, and at that vector.
THEOREM GraphFollows == Spec => []GraphFollowsDisk
<1>1. Init => FollowInv
  <2> SUFFICES ASSUME Init PROVE FollowInv
    OBVIOUS
  <2>1. /\ nodes = [i \in Ids |-> None] /\ disk = [i \in Ids |-> None] /\ records = {}
        /\ calls = [c \in Callers |-> None] /\ unloaded = {}
    BY DEF Init
  <2>2. Stored(nodes) = {} /\ Living(nodes) = {}
    BY <2>1 DEF Stored, Living
  <2> QED BY <2>1, <2>2 DEF FollowInv, Alone, Going, Resting, Fresh, Agree
<1>2. FollowInv => GraphFollowsDisk
  BY DEF FollowInv, Resting, Agree, GraphFollowsDisk
<1> QED BY <1>1, <1>2, FollowStep, GraphAlways, PTL DEF Spec

-----------------------------------------------------------------------------
(* Walks over changing edges                                               *)

\* Ids in key order: each once.
LEMMA InOrderParts ==
  ASSUME NEW S \in SUBSET Nodes
  PROVE  /\ InOrder(S) \in Seq(S) /\ Len(InOrder(S)) \in Nat
         /\ \A a, b \in 1 .. Len(InOrder(S)) : InOrder(S)[a] = InOrder(S)[b] => a = b
         /\ \A i \in S : \E a \in 1 .. Len(InOrder(S)) : InOrder(S)[a] = i
<1> DEFINE R == {p \in S \X S : p[1] < p[2]}
           Body(s) == \A a, b \in DOMAIN s : a < b => s[a] < s[b]
           F == [1 .. Cardinality(S) -> S]
           s == InOrder(S)
<1>1. IsFiniteSet(S) /\ \A i \in S : i \in Nat
  BY WalkConstants, FS_Subset
<1>2. \A i, j \in S : <<i, j>> \in R <=> i < j
  OBVIOUS
<1> HIDE DEF R
<1>3. Orders(R, S)
  BY <1>1, <1>2 DEF Orders
<1>4. PICK t : Lists(t, S, R)
  BY <1>1, <1>3, Arrangement
<1>5. t \in F /\ Body(t)
  <2>1. \A a \in 1 .. Cardinality(S) : t[a] \in S
    BY <1>4 DEF Lists
  <2> QED BY <1>2, <1>4, <2>1 DEF Lists
<1>6. s = CHOOSE u \in F : Body(u)
  BY DEF InOrder
<1> HIDE DEF Body, s
<1>7. s \in F /\ Body(s)
  BY <1>5, <1>6
<1>8. Lists(s, S, R)
  <2>1. \A a \in 1 .. Cardinality(S) : s[a] \in S
    BY <1>7
  <2>2. \A a, b \in 1 .. Cardinality(S) : a < b => s[a] < s[b]
    BY <1>7 DEF Body
  <2> QED BY <1>2, <1>7, <2>1, <2>2 DEF Lists
<1>9. /\ s \in Seq(S) /\ Len(s) = Cardinality(S)
      /\ \A a, b \in 1 .. Len(s) : s[a] = s[b] => a = b
      /\ \A i \in S : \E a \in 1 .. Len(s) : s[a] = i
  BY <1>1, <1>3, <1>8, ListsAll
<1> QED BY <1>9 DEF s

\* What one more hop over the edges of E leads to.
Hops(E, S) == S \cup {x.to : x \in {x \in E : x.from \in S /\ x.type \in Asked}}

\* The reference goes on hop by hop.
LEMMA BallSteps ==
  ASSUME NEW E
  PROVE  Ball(E)[0] = {Seed} /\ \A k \in Nat : Ball(E)[k + 1] = Hops(E, Ball(E)[k])
<1> DEFINE U == {Seed} \cup {x.to : x \in E}
           A == SUBSET U
           h == [p \in Nat \X A |-> Hops(E, p[2])]
           IsBall(w) == w = [k \in Nat |-> IF k = 0 THEN {Seed} ELSE
             w[k - 1] \cup {x.to : x \in {x \in E : x.from \in w[k - 1] /\ x.type \in Asked}}]
<1>1. \A S \in A : Hops(E, S) \in A
  BY DEF Hops
<1>2. h \in [Nat \X A -> A]
  <2> HIDE DEF A
  <2> QED BY <1>1
<1>3. \A k \in Nat : \A S \in A : h[<<k, S>>] = Hops(E, S)
  OBVIOUS
<1>4. {Seed} \in A
  OBVIOUS
<1> HIDE DEF h, A
<1>5. PICK f : Runs(f, A, {Seed}, h)
  BY <1>2, <1>4, Recursion
<1>6. IsBall(f)
  <2>1. ASSUME NEW k \in Nat PROVE f[k] = IF k = 0 THEN {Seed} ELSE Hops(E, f[k - 1])
    <3>1. CASE k # 0
      <4>1. k - 1 \in Nat /\ (k - 1) + 1 = k
        BY <3>1
      <4>2. f[k] = h[<<k, f[k - 1]>>] /\ f[k - 1] \in A
        BY <1>5, <4>1 DEF Runs
      <4> QED BY <1>3, <3>1, <4>2
    <3> QED BY <1>5, <3>1 DEF Runs
  <2>2. f = [k \in Nat |-> f[k]]
    BY <1>5 DEF Runs
  <2>3. f = [k \in Nat |-> IF k = 0 THEN {Seed} ELSE Hops(E, f[k - 1])]
    BY <2>1, <2>2
  <2> QED BY <2>3 DEF Hops
<1>7. Ball(E) = CHOOSE w : IsBall(w)
  BY DEF Ball
<1>8. IsBall(Ball(E))
  <2> HIDE DEF IsBall
  <2> QED BY <1>6, <1>7
<1> DEFINE w == Ball(E)
<1> HIDE DEF w
<1>9. w = [k \in Nat |-> IF k = 0 THEN {Seed} ELSE Hops(E, w[k - 1])]
  BY <1>8 DEF Hops, w
<1>10. w[0] = {Seed}
  BY <1>9
<1>11. ASSUME NEW k \in Nat PROVE w[k + 1] = Hops(E, w[k])
  <2>1. k + 1 \in Nat /\ k + 1 # 0 /\ (k + 1) - 1 = k
    OBVIOUS
  <2> QED BY <1>9, <2>1
<1> QED BY <1>10, <1>11 DEF w

\* It grows with the edges.
LEMMA BallGrows ==
  ASSUME NEW E, NEW F, E \subseteq F
  PROVE  \A k \in Nat : Ball(E)[k] \subseteq Ball(F)[k]
<1> DEFINE T == {k \in Nat : Ball(E)[k] \subseteq Ball(F)[k]}
<1>1. 0 \in T
  BY BallSteps
<1>2. ASSUME NEW k \in Nat, k \in T PROVE k + 1 \in T
  <2>1. Hops(E, Ball(E)[k]) \subseteq Hops(F, Ball(F)[k])
    BY <1>2 DEF Hops
  <2>2. Ball(E)[k + 1] = Hops(E, Ball(E)[k]) /\ Ball(F)[k + 1] = Hops(F, Ball(F)[k])
    BY BallSteps
  <2> QED BY <2>1, <2>2
<1>3. Nat \subseteq T
  <2> HIDE DEF T
  <2> QED BY <1>1, <1>2, SetInduction
<1> QED BY <1>3

-----------------------------------------------------------------------------
(* The invariant of a walk                                                 *)

\* What the walk has come to.
Found == [id : Nodes \ {Seed}, depth : 1 .. MaxDepth]
Met == {Visit(Seed, 0)} \cup Listed(results)

WalkTyped ==
  /\ lasting \subseteq edges /\ edges \subseteq ever /\ \A x \in ever : IsEdge(x)
  /\ results \in Seq(Found) /\ queue \in Seq(Met) /\ visited \subseteq Nodes /\ truncated \in BOOLEAN
  /\ scan = [id |-> scan.id, depth |-> scan.depth, types |-> scan.types]
  /\ scan.types \in Seq(Asked)
  /\ scan.types # <<>> => Visit(scan.id, scan.depth) \in Met /\ scan.depth < MaxDepth

\* Each memory is met once, and then visited.
MetOnce ==
  /\ \A j, k \in 1 .. Len(results) : results[j].id = results[k].id => j = k
  /\ \A e \in Met : e.id \in visited
  /\ ~truncated => \A n \in visited : \E e \in Met : e.id = n
  /\ Len(results) <= MaxResults /\ (truncated => Len(results) = MaxResults)

\* A memory is as near as its entry says.
MetNear == \A e \in Met : e.id \in Ball(ever)[e.depth]

\* The queue is in the order of depth, and what has been met is no deeper than one
\* more than what comes next.
BreadthFirst ==
  /\ \A j, k \in 1 .. Len(queue) : j < k => queue[j].depth <= queue[k].depth
  /\ \A e \in Met : \A k \in 1 .. Len(queue) : e.depth <= queue[k].depth + 1
  /\ scan.types # <<>> => /\ \A e \in Met : e.depth <= scan.depth + 1
                          /\ \A k \in 1 .. Len(queue) : scan.depth <= queue[k].depth

\* Still to be scanned.
Owed(e, x) == scan.id = e.id /\ x.type \in Listed(scan.types)
\* Met one hop after e at the latest.
MetAfter(e, n) == \E f \in Met : f.id = n /\ f.depth <= e.depth + 1
\* What the edges of a memory lead to is met unless the memory is queued.
Settled ==
  ~truncated => \A e \in Met : e.depth < MaxDepth /\ e \notin Listed(queue) =>
    \A x \in lasting : x.from = e.id /\ x.type \in Asked /\ ~Owed(e, x) => MetAfter(e, x.to)

WalkInv == WalkTyped /\ MetOnce /\ MetNear /\ BreadthFirst /\ Settled

\* Entries are what their parts say, and one for each memory.
LEMMA MetParts ==
  ASSUME WalkTyped
  PROVE  \A e \in Met : /\ e.id \in Nodes /\ e.depth \in 0 .. MaxDepth /\ e = Visit(e.id, e.depth)
                        /\ (e = Visit(Seed, 0) \/ e \in Found)
<1> SUFFICES ASSUME NEW e \in Met
             PROVE  /\ e.id \in Nodes /\ e.depth \in 0 .. MaxDepth /\ e = Visit(e.id, e.depth)
                    /\ (e = Visit(Seed, 0) \/ e \in Found)
  OBVIOUS
<1>1. CASE e = Visit(Seed, 0)
  BY <1>1, WalkConstants DEF Visit
<1>2. CASE e \in Listed(results)
  <2>1. e \in Found
    BY <1>2 DEF WalkTyped, Listed
  <2> QED BY <2>1 DEF Found, Visit
<1> QED BY <1>1, <1>2 DEF Met

\* A memory has one entry.
LEMMA MetUnique ==
  ASSUME WalkTyped, MetOnce, NEW e \in Met, NEW f \in Met, e.id = f.id
  PROVE  e = f
<1>1. ASSUME NEW g \in Met PROVE g = Visit(Seed, 0) \/ (g \in Listed(results) /\ g.id # Seed)
  <2>1. ASSUME g \in Listed(results) PROVE g.id # Seed
    <3>1. g \in Found
      BY <2>1 DEF Listed, WalkTyped
    <3> QED BY <3>1 DEF Found
  <2> QED BY <1>1, <2>1 DEF Met
<1>2. Visit(Seed, 0).id = Seed
  BY DEF Visit
<1>3. CASE e \in Listed(results) /\ f \in Listed(results)
  BY <1>3 DEF Listed, MetOnce
<1> QED BY <1>1, <1>2, <1>3

\* u is s with t after it.
Joined(u, s, t) ==
  /\ Len(u) = Len(s) + Len(t) /\ Len(s) \in Nat /\ Len(t) \in Nat
  /\ Listed(u) = Listed(s) \cup Listed(t)
  /\ \A k \in 1 .. Len(s) : u[k] = s[k]
  /\ \A k \in 1 .. Len(t) : u[Len(s) + k] = t[k]
  /\ \A k \in 1 .. Len(u) : k \in 1 .. Len(s) \/ \E m \in 1 .. Len(t) : k = Len(s) + m

\* Lists one after the other.
LEMMA ListedJoined ==
  ASSUME NEW A, NEW s \in Seq(A), NEW t \in Seq(A)
  PROVE  s \o t \in Seq(A) /\ Joined(s \o t, s, t)
<1>1. /\ s \o t \in Seq(A) /\ Len(s \o t) = Len(s) + Len(t) /\ Len(s) \in Nat /\ Len(t) \in Nat
  OBVIOUS
<1>2. \A k \in 1 .. Len(s) : (s \o t)[k] = s[k]
  OBVIOUS
<1>3. \A k \in 1 .. Len(t) : (s \o t)[Len(s) + k] = t[k]
  OBVIOUS
<1>4. \A k \in 1 .. Len(s \o t) : k \in 1 .. Len(s) \/ \E m \in 1 .. Len(t) : k = Len(s) + m
  <2> SUFFICES ASSUME NEW k \in 1 .. Len(s \o t), k \notin 1 .. Len(s)
               PROVE  \E m \in 1 .. Len(t) : k = Len(s) + m
    OBVIOUS
  <2>1. k - Len(s) \in 1 .. Len(t) /\ k = Len(s) + (k - Len(s))
    BY <1>1
  <2> QED BY <2>1
<1>5. Listed(s \o t) = Listed(s) \cup Listed(t)
  <2>1. ASSUME NEW k \in 1 .. Len(s \o t) PROVE (s \o t)[k] \in Listed(s) \cup Listed(t)
    BY <1>2, <1>3, <1>4 DEF Listed
  <2>2. \A k \in 1 .. Len(s) : k \in 1 .. Len(s \o t)
    BY <1>1
  <2>3. \A k \in 1 .. Len(t) : Len(s) + k \in 1 .. Len(s \o t)
    BY <1>1
  <2>4. Listed(s \o t) \subseteq Listed(s) \cup Listed(t)
    BY <2>1 DEF Listed
  <2>5. Listed(s) \subseteq Listed(s \o t)
    BY <1>2, <2>2 DEF Listed
  <2>6. Listed(t) \subseteq Listed(s \o t)
    BY <1>3, <2>3 DEF Listed
  <2> QED BY <2>4, <2>5, <2>6
<1> QED BY <1>1, <1>2, <1>3, <1>4, <1>5 DEF Joined

\* The walk starts so.
LEMMA WalkStarts == WalkInit => WalkInv
<1> SUFFICES ASSUME WalkInit PROVE WalkInv
  OBVIOUS
<1> DEFINE e == Visit(Seed, 0)
<1>1. /\ edges \in FirstEdges /\ queue = <<e>> /\ visited = {Seed} /\ results = <<>> /\ truncated = FALSE
      /\ scan = NoScan /\ ever = edges /\ lasting = edges
  BY DEF WalkInit
<1>2. Met = {e}
  BY <1>1 DEF Met, Listed
<1>3. e.id = Seed /\ e.depth = 0
  BY DEF Visit
<1>4. Len(queue) = 1 /\ queue[1] = e /\ queue \in Seq({e}) /\ Len(results) = 0
  BY <1>1
<1>5. Listed(queue) = {e}
  BY <1>4 DEF Listed
<1> HIDE DEF e
<1>6. WalkTyped
  <2>1. results \in Seq(Found) /\ queue \in Seq(Met)
    BY <1>1, <1>2, <1>4
  <2>2. \A x \in ever : IsEdge(x)
    BY <1>1, WalkConstants
  <2>3. scan = [id |-> scan.id, depth |-> scan.depth, types |-> scan.types] /\ scan.types = <<>>
    BY <1>1 DEF NoScan
  <2>4. visited \subseteq Nodes
    BY <1>1, WalkConstants
  <2>5. scan.types \in Seq(Asked)
    BY <2>3
  <2> QED BY <1>1, <2>1, <2>2, <2>3, <2>4, <2>5 DEF WalkTyped
<1>7. MetOnce
  BY <1>1, <1>2, <1>3, <1>4, WalkConstants DEF MetOnce
<1>8. MetNear
  BY <1>2, <1>3, BallSteps DEF MetNear
<1>9. BreadthFirst
  BY <1>1, <1>2, <1>3, <1>4 DEF BreadthFirst, NoScan
<1>10. Settled
  BY <1>2, <1>5 DEF Settled
<1> QED BY <1>6, <1>7, <1>8, <1>9, <1>10 DEF WalkInv

\* Other threads change edges: what lasts becomes less and what ever was more.
LEMMA ChangeWalks ==
  ASSUME WalkInv, NEW a \in Nodes, NEW b \in Nodes, NEW type \in Asked,
         Change([from |-> a, type |-> type, to |-> b])
  PROVE  WalkInv'
<1> DEFINE x == [from |-> a, type |-> type, to |-> b]
<1>1. IsEdge(x)
  BY DEF IsEdge
<1> HIDE DEF x
<1>2. /\ edges' = IF x \in edges THEN edges \ {x} ELSE edges \cup {x}
      /\ ever' = ever \cup edges' /\ lasting' = lasting \cap edges'
      /\ UNCHANGED <<queue, visited, results, truncated, scan>>
  BY DEF Change, x
<1>3. Met' = Met
  BY <1>2 DEF Met
<1>4. WalkTyped'
  BY <1>1, <1>2, <1>3 DEF WalkInv, WalkTyped
<1>5. MetOnce' /\ BreadthFirst'
  BY <1>2, <1>3 DEF WalkInv, MetOnce, BreadthFirst
<1>6. MetNear'
  <2>1. \A k \in Nat : Ball(ever)[k] \subseteq Ball(ever')[k]
    BY <1>2, BallGrows
  <2>2. \A e \in Met : e.depth \in Nat
    BY MetParts, WalkConstants DEF WalkInv
  <2> QED BY <1>3, <2>1, <2>2 DEF WalkInv, MetNear
<1>7. Settled'
  <2>1. \A e : \A y : Owed(e, y)' = Owed(e, y)
    BY <1>2 DEF Owed
  <2>2. \A e : \A n : MetAfter(e, n)' = MetAfter(e, n)
    BY <1>3 DEF MetAfter
  <2>3. Listed(queue)' = Listed(queue) /\ lasting' \subseteq lasting
    BY <1>2
  <2> QED BY <1>2, <1>3, <2>1, <2>2, <2>3 DEF WalkInv, Settled
<1> QED BY <1>4, <1>5, <1>6, <1>7 DEF WalkInv

\* A list without its head.
LEMMA ListedTail ==
  ASSUME NEW A, NEW s \in Seq(A), s # <<>>
  PROVE  /\ Tail(s) \in Seq(A) /\ Head(s) = s[1] /\ s[1] \in A /\ Len(s) \in Nat \ {0}
         /\ Len(Tail(s)) = Len(s) - 1 /\ \A k \in 1 .. Len(s) - 1 : Tail(s)[k] = s[k + 1]
         /\ Listed(s) = {s[1]} \cup Listed(Tail(s))
<1>1. /\ Tail(s) \in Seq(A) /\ Head(s) = s[1] /\ s[1] \in A /\ Len(s) \in Nat \ {0}
      /\ Len(Tail(s)) = Len(s) - 1 /\ \A k \in 1 .. Len(s) - 1 : Tail(s)[k] = s[k + 1]
  OBVIOUS
<1>2. ASSUME NEW k \in 1 .. Len(s) PROVE s[k] = s[1] \/ \E m \in 1 .. Len(Tail(s)) : s[k] = Tail(s)[m]
  <2>1. CASE k # 1
    <3>1. k - 1 \in 1 .. Len(s) - 1 /\ (k - 1) + 1 = k
      BY <1>1, <2>1
    <3> QED BY <1>1, <3>1
  <2> QED BY <2>1
<1>3. \A k \in 1 .. Len(Tail(s)) : \E m \in 1 .. Len(s) : Tail(s)[k] = s[m]
  <2> SUFFICES ASSUME NEW k \in 1 .. Len(Tail(s)) PROVE \E m \in 1 .. Len(s) : Tail(s)[k] = s[m]
    OBVIOUS
  <2>1. k + 1 \in 1 .. Len(s) /\ k \in 1 .. Len(s) - 1
    BY <1>1
  <2> QED BY <1>1, <2>1
<1>4. 1 \in 1 .. Len(s)
  BY <1>1
<1>5. Listed(s) = {s[1]} \cup Listed(Tail(s))
  <2> DEFINE t == Tail(s)
  <2>1. /\ \A k \in 1 .. Len(s) : s[k] = s[1] \/ \E m \in 1 .. Len(t) : s[k] = t[m]
        /\ \A k \in 1 .. Len(t) : \E m \in 1 .. Len(s) : t[k] = s[m]
    BY <1>2, <1>3
  <2> HIDE DEF t
  <2>2. Listed(s) \subseteq {s[1]} \cup Listed(t)
    BY <2>1 DEF Listed
  <2>3. {s[1]} \subseteq Listed(s) /\ Listed(t) \subseteq Listed(s)
    BY <1>4, <2>1 DEF Listed
  <2> QED BY <2>2, <2>3 DEF t
<1> QED BY <1>1, <1>5

\* The types asked for.
LEMMA TypesAsked == Types \in Seq(Asked) /\ Listed(Types) = Asked
<1>1. Types \in Seq(STRING)
  BY WalkConstants
<1> QED BY <1>1 DEF Asked, Listed

\* The next of the queue is expanded, or it is as deep as the walk goes.
LEMMA PopWalks ==
  ASSUME WalkInv, Pop
  PROVE  WalkInv'
<1> DEFINE e == queue[1]
<1>1. /\ queue # <<>> /\ scan.types = <<>> /\ ~truncated /\ queue' = Tail(queue)
      /\ scan' = IF Head(queue).depth >= MaxDepth THEN NoScan
                 ELSE [id |-> Head(queue).id, depth |-> Head(queue).depth, types |-> Types]
      /\ UNCHANGED <<edges, visited, results, truncated, ever, lasting>>
  BY DEF Pop
<1>2. Met' = Met
  BY <1>1 DEF Met
<1>3. /\ Tail(queue) \in Seq(Met) /\ Head(queue) = e /\ e \in Met /\ Len(queue) \in Nat \ {0}
      /\ Len(queue') = Len(queue) - 1 /\ \A k \in 1 .. Len(queue') : queue'[k] = queue[k + 1]
      /\ Listed(queue) = {e} \cup Listed(queue')
  <2>1. queue \in Seq(Met)
    BY DEF WalkInv, WalkTyped
  <2> HIDE DEF e
  <2> QED BY <1>1, <2>1, ListedTail DEF e
<1> HIDE DEF e
<1>4. e.id \in Nodes /\ e.depth \in 0 .. MaxDepth /\ e = Visit(e.id, e.depth) /\ MaxDepth \in Nat
  BY <1>3, MetParts, WalkConstants DEF WalkInv
<1>5. CASE e.depth >= MaxDepth
  <2>1. scan' = NoScan
    BY <1>1, <1>3, <1>5
  <2>2. /\ scan' = [id |-> scan'.id, depth |-> scan'.depth, types |-> scan'.types] /\ scan'.types = <<>>
        /\ scan'.types \in Seq(Asked)
    BY <2>1 DEF NoScan
  <2>3. WalkTyped'
    BY <1>1, <1>2, <1>3, <2>2 DEF WalkInv, WalkTyped
  <2>4. BreadthFirst'
    <3>1. ASSUME NEW j \in 1 .. Len(queue'), NEW k \in 1 .. Len(queue'), j < k
          PROVE  queue'[j].depth <= queue'[k].depth
      <4>1. j + 1 \in 1 .. Len(queue) /\ k + 1 \in 1 .. Len(queue) /\ j + 1 < k + 1
        BY <1>3, <3>1
      <4> QED BY <1>3, <4>1 DEF WalkInv, BreadthFirst
    <3>2. ASSUME NEW f \in Met, NEW k \in 1 .. Len(queue') PROVE f.depth <= queue'[k].depth + 1
      <4>1. k + 1 \in 1 .. Len(queue)
        BY <1>3
      <4> QED BY <1>3, <4>1 DEF WalkInv, BreadthFirst
    <3> QED BY <1>2, <2>2, <3>1, <3>2 DEF BreadthFirst
  <2>5. Settled'
    <3> SUFFICES ASSUME NEW f \in Met, f.depth < MaxDepth, f \notin Listed(queue'),
                        NEW x \in lasting, x.from = f.id, x.type \in Asked
                 PROVE  MetAfter(f, x.to)
      BY <1>1, <1>2 DEF Settled, MetAfter
    <3>1. f \notin Listed(queue)
      BY <1>3, <1>4, <1>5
    <3>2. ~Owed(f, x)
      BY <1>1 DEF Owed, Listed
    <3> QED BY <1>1, <3>1, <3>2 DEF WalkInv, Settled
  <2>6. MetOnce' /\ MetNear'
    BY <1>1, <1>2 DEF WalkInv, MetOnce, MetNear
  <2> QED BY <2>3, <2>4, <2>5, <2>6 DEF WalkInv
<1>6. CASE ~(e.depth >= MaxDepth)
  <2>1. scan' = [id |-> e.id, depth |-> e.depth, types |-> Types]
    BY <1>1, <1>3, <1>6
  <2>2. /\ scan' = [id |-> scan'.id, depth |-> scan'.depth, types |-> scan'.types]
        /\ scan'.id = e.id /\ scan'.depth = e.depth /\ scan'.types = Types
    BY <2>1
  <2>3. WalkTyped'
    BY <1>1, <1>2, <1>3, <1>4, <1>6, <2>2, TypesAsked DEF WalkInv, WalkTyped
  <2>4. BreadthFirst'
    <3>1. ASSUME NEW j \in 1 .. Len(queue'), NEW k \in 1 .. Len(queue'), j < k
          PROVE  queue'[j].depth <= queue'[k].depth
      <4>1. j + 1 \in 1 .. Len(queue) /\ k + 1 \in 1 .. Len(queue) /\ j + 1 < k + 1
        BY <1>3, <3>1
      <4> QED BY <1>3, <4>1 DEF WalkInv, BreadthFirst
    <3>2. ASSUME NEW f \in Met, NEW k \in 1 .. Len(queue') PROVE f.depth <= queue'[k].depth + 1
      <4>1. k + 1 \in 1 .. Len(queue)
        BY <1>3
      <4> QED BY <1>3, <4>1 DEF WalkInv, BreadthFirst
    <3>3. 1 \in 1 .. Len(queue)
      BY <1>3
    <3>4. \A f \in Met : f.depth <= e.depth + 1
      BY <3>3 DEF WalkInv, BreadthFirst, e
    <3>5. ASSUME NEW k \in 1 .. Len(queue') PROVE e.depth <= queue'[k].depth
      <4>1. k + 1 \in 1 .. Len(queue) /\ 1 < k + 1
        BY <1>3
      <4> QED BY <1>3, <3>3, <4>1 DEF WalkInv, BreadthFirst, e
    <3> QED BY <1>2, <2>2, <3>1, <3>2, <3>4, <3>5 DEF BreadthFirst
  <2>5. Settled'
    <3> SUFFICES ASSUME NEW f \in Met, f.depth < MaxDepth, f \notin Listed(queue'),
                        NEW x \in lasting, x.from = f.id, x.type \in Asked, ~Owed(f, x)'
                 PROVE  MetAfter(f, x.to)
      BY <1>1, <1>2 DEF Settled, MetAfter
    <3>1. f # e
      BY <2>2, TypesAsked DEF Owed
    <3>2. f \notin Listed(queue)
      BY <1>3, <3>1
    <3>3. ~Owed(f, x)
      BY <1>1 DEF Owed, Listed
    <3> QED BY <1>1, <3>2, <3>3 DEF WalkInv, Settled
  <2>6. MetOnce' /\ MetNear'
    BY <1>1, <1>2 DEF WalkInv, MetOnce, MetNear
  <2> QED BY <2>3, <2>4, <2>5, <2>6 DEF WalkInv
<1> QED BY <1>5, <1>6

\* What the scan of one type leads to.
Onward == Targets(scan.id, Head(scan.types))
\* found is what it adds: all that is new, or as much as there is room for.
Adds(found) ==
  /\ found \in Seq(Found) /\ results' = results \o found /\ queue' = queue \o found
  /\ \A k \in 1 .. Len(found) : found[k].depth = scan.depth + 1 /\ found[k].id \in Onward \ visited
  /\ \A j, k \in 1 .. Len(found) : found[j].id = found[k].id => j = k
  /\ Len(results) + Len(found) <= MaxResults
  /\ truncated' \in BOOLEAN /\ (truncated' => Len(results) + Len(found) = MaxResults)
  /\ ~truncated' => \A n \in Onward \ visited : \E k \in 1 .. Len(found) : found[k].id = n

\* An expansion adds what it finds.
LEMMA ExpandAdds ==
  ASSUME WalkInv, Expand
  PROVE  \E found : Adds(found)
<1> DEFINE S == Onward \ visited
           new == InOrder(S)
           room == MaxResults - Len(results)
           m == IF Len(new) <= room THEN Len(new) ELSE room
           found == [k \in 1 .. m |-> Visit(new[k], scan.depth + 1)]
<1>1. /\ results' = results \o found /\ queue' = queue \o found /\ truncated' = (Len(new) > room)
      /\ scan.types # <<>>
  BY DEF Expand, Onward
<1>2. S \subseteq Nodes \ {Seed}
  <2>1. Onward \subseteq Nodes
    BY DEF Onward, Targets, WalkInv, WalkTyped, IsEdge
  <2>2. Visit(Seed, 0) \in Met /\ Visit(Seed, 0).id = Seed
    BY DEF Met, Visit
  <2>3. Seed \in visited
    BY <2>2 DEF WalkInv, MetOnce
  <2> QED BY <2>1, <2>3
<1> HIDE DEF S
<1>3. /\ new \in Seq(S) /\ Len(new) \in Nat
      /\ \A a, b \in 1 .. Len(new) : new[a] = new[b] => a = b
      /\ \A i \in S : \E a \in 1 .. Len(new) : new[a] = i
  BY <1>2, InOrderParts
<1> HIDE DEF new
<1>4. Len(results) \in Nat /\ Len(results) <= MaxResults /\ MaxResults \in Nat
  BY WalkConstants DEF WalkInv, WalkTyped, MetOnce
<1>5. room \in Nat
  BY <1>4
<1>6. m \in Nat /\ m <= room /\ m <= Len(new) /\ (Len(new) > room => m = room)
      /\ (~(Len(new) > room) => m = Len(new))
  BY <1>3, <1>5
<1>7. scan.depth + 1 \in 1 .. MaxDepth
  <2>1. Visit(scan.id, scan.depth) \in Met /\ scan.depth < MaxDepth
    BY <1>1 DEF WalkInv, WalkTyped
  <2>2. Visit(scan.id, scan.depth).depth = scan.depth
    BY DEF Visit
  <2>3. scan.depth \in 0 .. MaxDepth
    BY <2>1, <2>2, MetParts DEF WalkInv
  <2> QED BY <2>1, <2>3, WalkConstants
<1> DEFINE n == m
<1> HIDE DEF n
<1>8. \A k \in 1 .. n : new[k] \in S /\ k \in 1 .. Len(new)
  BY <1>3, <1>6 DEF n
<1>9. \A k \in 1 .. n : Visit(new[k], scan.depth + 1) \in Found
  BY <1>2, <1>7, <1>8 DEF Visit, Found
<1>10. found = [k \in 1 .. n |-> Visit(new[k], scan.depth + 1)]
  BY DEF n
<1>11. n \in Nat /\ Len(results) + n <= MaxResults
       /\ (Len(new) > room => Len(results) + n = MaxResults) /\ (~(Len(new) > room) => n = Len(new))
  BY <1>4, <1>6 DEF n
<1> HIDE DEF found, m, room
<1>12. found \in Seq(Found) /\ Len(found) = n
  BY <1>9, <1>10, <1>11
<1>13. \A k \in 1 .. n : found[k] = Visit(new[k], scan.depth + 1)
  BY <1>10
<1>14. ASSUME NEW k \in 1 .. n PROVE found[k].id = new[k] /\ found[k].depth = scan.depth + 1
  <2>1. found[k] = Visit(new[k], scan.depth + 1)
    BY <1>13
  <2>2. \A i, j : Visit(i, j).id = i /\ Visit(i, j).depth = j
    BY DEF Visit
  <2> QED BY <2>1, <2>2
<1>15. \A k \in 1 .. n : found[k].id \in S
  BY <1>8, <1>14
<1>16. \A j, k \in 1 .. n : found[j].id = found[k].id => j = k
  BY <1>3, <1>8, <1>14
<1>17. truncated' \in BOOLEAN
  BY <1>1
<1>18. truncated' => Len(results) + n = MaxResults
  <2>1. CASE Len(new) > room
    BY <1>11, <2>1
  <2>2. CASE ~(Len(new) > room)
    <3>1. ~truncated'
      BY <1>1, <2>2
    <3> QED BY <3>1
  <2> QED BY <2>1, <2>2
<1>19. ~truncated' => \A i \in S : \E k \in 1 .. n : found[k].id = i
  <2>1. CASE ~(Len(new) > room)
    <3>1. n = Len(new)
      BY <1>11, <2>1
    <3> QED BY <1>3, <1>14, <3>1
  <2>2. CASE Len(new) > room
    <3>1. truncated'
      BY <1>1, <2>2
    <3> QED BY <3>1
  <2> QED BY <2>1, <2>2
<1>20. PICK add : add = found
  OBVIOUS
<1>21. /\ add \in Seq(Found) /\ results' = results \o add /\ queue' = queue \o add /\ Len(add) = n
       /\ \A k \in 1 .. n : add[k].depth = scan.depth + 1 /\ add[k].id \in Onward \ visited
       /\ \A j, k \in 1 .. n : add[j].id = add[k].id => j = k
       /\ (~truncated' => \A i \in Onward \ visited : \E k \in 1 .. n : add[k].id = i)
  BY <1>1, <1>12, <1>14, <1>15, <1>16, <1>19, <1>20 DEF S
<1>22. Adds(add)
  <2>1. \A k \in 1 .. Len(add) : add[k].depth = scan.depth + 1 /\ add[k].id \in Onward \ visited
    BY <1>21
  <2>2. \A j, k \in 1 .. Len(add) : add[j].id = add[k].id => j = k
    BY <1>21
  <2>3. ~truncated' => \A i \in Onward \ visited : \E k \in 1 .. Len(add) : add[k].id = i
    BY <1>21
  <2>4. Len(results) + Len(add) <= MaxResults /\ (truncated' => Len(results) + Len(add) = MaxResults)
    BY <1>11, <1>18, <1>21
  <2> QED BY <1>17, <1>21, <2>1, <2>2, <2>3, <2>4 DEF Adds
<1> QED BY <1>22

\* An expansion meets what it adds.
LEMMA ExpandWalks ==
  ASSUME WalkInv, Expand
  PROVE  WalkInv'
<1> DEFINE type == Head(scan.types)
           s == Visit(scan.id, scan.depth)
           d == scan.depth
<1>1. PICK found : Adds(found)
  BY ExpandAdds
<1>2. /\ scan.types # <<>> /\ ~truncated /\ scan' = [scan EXCEPT !.types = Tail(@)]
      /\ visited' = visited \cup Onward /\ UNCHANGED <<edges, ever, lasting>>
  BY DEF Expand, Onward
<1>3. /\ scan' = [id |-> scan'.id, depth |-> scan'.depth, types |-> scan'.types]
      /\ scan'.id = scan.id /\ scan'.depth = d /\ scan'.types = Tail(scan.types)
  BY <1>2 DEF WalkInv, WalkTyped
<1>4. /\ Tail(scan.types) \in Seq(Asked) /\ type \in Asked
      /\ Listed(scan.types) = {type} \cup Listed(scan'.types)
  <2>1. scan.types \in Seq(Asked)
    BY DEF WalkInv, WalkTyped
  <2> QED BY <1>2, <1>3, <2>1, ListedTail
<1>5. s \in Met /\ d < MaxDepth /\ s.id = scan.id /\ s.depth = d /\ d \in 0 .. MaxDepth
  <2>1. s \in Met /\ d < MaxDepth
    BY <1>2 DEF WalkInv, WalkTyped
  <2>2. s.id = scan.id /\ s.depth = d
    BY DEF Visit
  <2> QED BY <2>1, <2>2, MetParts DEF WalkInv
<1>6. MaxDepth \in Nat /\ \A e \in Met : e.depth \in 0 .. MaxDepth
  BY MetParts, WalkConstants DEF WalkInv
<1> HIDE DEF s, d, type
<1>7. /\ results' \in Seq(Found) /\ Len(results') = Len(results) + Len(found)
      /\ Len(results) \in Nat /\ Len(found) \in Nat
      /\ Listed(results') = Listed(results) \cup Listed(found)
      /\ \A k \in 1 .. Len(results) : results'[k] = results[k]
      /\ \A k \in 1 .. Len(found) : results'[Len(results) + k] = found[k]
      /\ \A k \in 1 .. Len(results') : k \in 1 .. Len(results) \/ \E m \in 1 .. Len(found) : k = Len(results) + m
  <2>1. results \in Seq(Found) /\ found \in Seq(Found)
    BY <1>1 DEF WalkInv, WalkTyped, Adds
  <2>2. results' = results \o found
    BY <1>1 DEF Adds
  <2>3. results \o found \in Seq(Found) /\ Joined(results \o found, results, found)
    BY <2>1, ListedJoined
  <2>4. results' \in Seq(Found) /\ Joined(results', results, found)
    BY <2>2, <2>3
  <2> QED BY <2>4 DEF Joined
<1>8. Met' = Met \cup Listed(found)
  BY <1>7 DEF Met
<1>9. \A e \in Listed(found) : e.depth = d + 1 /\ e.id \in Onward \ visited
  BY <1>1 DEF Adds, Listed, d
<1>10. /\ queue' \in Seq(Met') /\ Len(queue) \in Nat
       /\ Listed(queue') = Listed(queue) \cup Listed(found)
       /\ \A k \in 1 .. Len(queue) : queue'[k] = queue[k] /\ queue[k] \in Met
       /\ \A k \in 1 .. Len(found) : queue'[Len(queue) + k] = found[k] /\ found[k].depth = d + 1
       /\ \A k \in 1 .. Len(queue') : k \in 1 .. Len(queue) \/ \E m \in 1 .. Len(found) : k = Len(queue) + m
  <2>1. queue \in Seq(Met)
    BY DEF WalkInv, WalkTyped
  <2>2. \A k \in 1 .. Len(queue) : queue[k] \in Met'
    BY <1>8, <2>1
  <2>3. \A k \in 1 .. Len(found) : found[k] \in Met'
    BY <1>8 DEF Listed
  <2>4. queue \in Seq(Met')
    BY <2>1, <2>2
  <2>5. found \in Seq(Met')
    <3>1. found \in Seq(Found)
      BY <1>1 DEF Adds
    <3>2. Len(found) \in Nat /\ found = [k \in 1 .. Len(found) |-> found[k]]
      BY <3>1
    <3> DEFINE Q == Met'
    <3>3. \A k \in 1 .. Len(found) : found[k] \in Q
      BY <2>3
    <3> HIDE DEF Q
    <3>4. found \in Seq(Q)
      BY <3>2, <3>3
    <3> QED BY <3>4 DEF Q
  <2>6. queue' = queue \o found /\ \A k \in 1 .. Len(found) : found[k].depth = d + 1
    BY <1>1 DEF Adds, d
  <2>7. \A k \in 1 .. Len(queue) : queue[k] \in Met
    BY <2>1
  <2> DEFINE N == Met'
  <2>8. queue \in Seq(N) /\ found \in Seq(N)
    BY <2>4, <2>5
  <2> HIDE DEF N
  <2>9. queue \o found \in Seq(N) /\ Joined(queue \o found, queue, found)
    BY <2>8, ListedJoined
  <2>10. queue' \in Seq(N) /\ Joined(queue', queue, found)
    BY <2>6, <2>9
  <2> QED BY <2>6, <2>7, <2>10 DEF N, Joined
<1>11. WalkTyped'
  <2>1. visited' \subseteq Nodes
    BY <1>2 DEF Onward, Targets, WalkInv, WalkTyped, IsEdge
  <2>2. lasting' \subseteq edges' /\ edges' \subseteq ever' /\ \A x \in ever' : IsEdge(x)
    BY <1>2 DEF WalkInv, WalkTyped
  <2>3. Visit(scan'.id, scan'.depth) = s /\ s \in Met' /\ scan'.depth < MaxDepth
    BY <1>3, <1>5, <1>8 DEF s, d
  <2>4. truncated' \in BOOLEAN
    BY <1>1 DEF Adds
  <2> QED BY <1>3, <1>4, <1>7, <1>10, <2>1, <2>2, <2>3, <2>4 DEF WalkTyped
<1>12. MetOnce'
  <2>1. ASSUME NEW j \in 1 .. Len(results), NEW m \in 1 .. Len(found) PROVE results[j].id # found[m].id
    <3>1. results[j] \in Met /\ found[m] \in Listed(found)
      BY <1>7 DEF Met, Listed
    <3> QED BY <1>9, <3>1 DEF WalkInv, MetOnce
  <2>2. \A j, k \in 1 .. Len(results') : results'[j].id = results'[k].id => j = k
    <3> SUFFICES ASSUME NEW j \in 1 .. Len(results'), NEW k \in 1 .. Len(results'), results'[j].id = results'[k].id
                 PROVE  j = k
      OBVIOUS
    <3>1. CASE j \in 1 .. Len(results) /\ k \in 1 .. Len(results)
      BY <1>7, <3>1 DEF WalkInv, MetOnce
    <3>2. CASE j \notin 1 .. Len(results) /\ k \notin 1 .. Len(results)
      <4>1. PICK a \in 1 .. Len(found) : j = Len(results) + a
        BY <1>7, <3>2
      <4>2. PICK b \in 1 .. Len(found) : k = Len(results) + b
        BY <1>7, <3>2
      <4>3. found[a].id = found[b].id
        BY <1>7, <4>1, <4>2
      <4> QED BY <1>1, <4>1, <4>2, <4>3 DEF Adds
    <3>3. CASE j \in 1 .. Len(results) /\ k \notin 1 .. Len(results)
      <4>1. PICK b \in 1 .. Len(found) : k = Len(results) + b
        BY <1>7, <3>3
      <4> QED BY <1>7, <2>1, <3>3, <4>1
    <3>4. CASE j \notin 1 .. Len(results) /\ k \in 1 .. Len(results)
      <4>1. PICK a \in 1 .. Len(found) : j = Len(results) + a
        BY <1>7, <3>4
      <4> QED BY <1>7, <2>1, <3>4, <4>1
    <3> QED BY <3>1, <3>2, <3>3, <3>4
  <2>3. \A e \in Met' : e.id \in visited'
    BY <1>2, <1>8, <1>9 DEF WalkInv, MetOnce
  <2>4. ASSUME ~truncated', NEW n \in visited' PROVE \E e \in Met' : e.id = n
    <3>1. CASE n \in visited
      BY <1>2, <1>8, <3>1 DEF WalkInv, MetOnce
    <3>2. CASE n \in Onward \ visited
      <4>1. PICK k \in 1 .. Len(found) : found[k].id = n
        BY <1>1, <2>4, <3>2 DEF Adds
      <4> QED BY <1>8, <4>1 DEF Listed
    <3> QED BY <1>2, <3>1, <3>2
  <2>5. Len(results') <= MaxResults /\ (truncated' => Len(results') = MaxResults)
    BY <1>1, <1>7 DEF Adds
  <2> QED BY <2>2, <2>3, <2>4, <2>5 DEF MetOnce
<1>13. MetNear'
  <2>1. ASSUME NEW e \in Listed(found) PROVE e.id \in Ball(ever)[e.depth]
    <3>1. PICK x \in edges : x.from = scan.id /\ x.type = type /\ x.to = e.id
      BY <1>9, <2>1 DEF Onward, Targets, type
    <3>2. scan.id \in Ball(ever)[d]
      BY <1>5 DEF WalkInv, MetNear
    <3>3. x \in ever
      BY <3>1 DEF WalkInv, WalkTyped
    <3>4. e.id \in Hops(ever, Ball(ever)[d])
      BY <1>4, <3>1, <3>2, <3>3 DEF Hops
    <3>5. d \in Nat
      BY <1>5
    <3> QED BY <1>9, <2>1, <3>4, <3>5, BallSteps
  <2> QED BY <1>2, <1>8, <2>1 DEF WalkInv, MetNear
<1>14. BreadthFirst'
  <2>1. \A e \in Met : e.depth <= d + 1
    BY <1>2 DEF WalkInv, BreadthFirst, d
  <2>2. \A k \in 1 .. Len(queue) : d <= queue[k].depth
    BY <1>2 DEF WalkInv, BreadthFirst, d
  <2>3. ASSUME NEW k \in 1 .. Len(queue'), k \notin 1 .. Len(queue)
        PROVE  queue'[k].depth = d + 1
    <3>1. PICK m \in 1 .. Len(found) : k = Len(queue) + m
      BY <1>10, <2>3
    <3> QED BY <1>10, <3>1
  <2>4. ASSUME NEW j \in 1 .. Len(queue'), NEW k \in 1 .. Len(queue'), j < k
        PROVE  queue'[j].depth <= queue'[k].depth
    <3>1. CASE k \in 1 .. Len(queue)
      <4>1. j \in 1 .. Len(queue)
        BY <1>10, <2>4, <3>1
      <4> QED BY <1>10, <2>4, <3>1, <4>1 DEF WalkInv, BreadthFirst
    <3>2. CASE k \notin 1 .. Len(queue) /\ j \in 1 .. Len(queue)
      BY <1>10, <2>1, <2>3, <3>2
    <3>3. CASE k \notin 1 .. Len(queue) /\ j \notin 1 .. Len(queue)
      BY <1>5, <2>3, <3>3
    <3> QED BY <3>1, <3>2, <3>3
  <2>5. ASSUME NEW e \in Met', NEW k \in 1 .. Len(queue') PROVE e.depth <= queue'[k].depth + 1
    <3>1. CASE k \in 1 .. Len(queue)
      <4>1. queue'[k] = queue[k] /\ queue[k] \in Met /\ d <= queue[k].depth
        BY <1>10, <2>2, <3>1
      <4>2. CASE e \in Met
        BY <3>1, <4>1, <4>2 DEF WalkInv, BreadthFirst
      <4>3. CASE e \in Listed(found)
        BY <1>5, <1>6, <1>9, <4>1, <4>3
      <4> QED BY <1>8, <4>2, <4>3
    <3>2. CASE k \notin 1 .. Len(queue)
      <4>1. queue'[k].depth = d + 1
        BY <2>3, <3>2
      <4>2. e.depth <= d + 1 /\ e.depth \in Nat
        BY <1>5, <1>6, <1>8, <1>9, <2>1
      <4> QED BY <1>5, <4>1, <4>2
    <3> QED BY <3>1, <3>2
  <2>6. \A e \in Met' : e.depth <= scan'.depth + 1
    BY <1>3, <1>5, <1>8, <1>9, <2>1
  <2>7. \A k \in 1 .. Len(queue') : scan'.depth <= queue'[k].depth
    BY <1>3, <1>5, <1>10, <2>2, <2>3
  <2> QED BY <2>4, <2>5, <2>6, <2>7 DEF BreadthFirst
<1>15. Settled'
  <2>1. ASSUME NEW e, NEW n, MetAfter(e, n) PROVE MetAfter(e, n)'
    BY <1>8, <2>1 DEF MetAfter
  <2> SUFFICES ASSUME ~truncated', NEW e \in Met', e.depth < MaxDepth, e \notin Listed(queue'),
                      NEW x \in lasting, x.from = e.id, x.type \in Asked, ~Owed(e, x)'
               PROVE  MetAfter(e, x.to)'
    BY <1>2 DEF Settled
  <2>2. e \in Met /\ e \notin Listed(queue)
    BY <1>8, <1>10
  <2>3. CASE ~Owed(e, x)
    <3>1. MetAfter(e, x.to)
      BY <1>2, <2>2, <2>3 DEF WalkInv, Settled
    <3> QED BY <2>1, <3>1
  <2>4. CASE Owed(e, x)
    <3>1. scan.id = e.id /\ x.type = type
      BY <1>3, <1>4, <2>4 DEF Owed
    <3>2. e = s
      BY <1>5, <2>2, <3>1, MetUnique DEF WalkInv
    <3>3. x.to \in Onward
      BY <3>1 DEF Onward, Targets, type, WalkInv, WalkTyped
    <3>4. CASE x.to \in visited
      <4>1. PICK f \in Met : f.id = x.to
        BY <1>2, <3>4 DEF WalkInv, MetOnce
      <4>2. f.depth <= e.depth + 1
        BY <1>2, <1>5, <3>2 DEF WalkInv, BreadthFirst, d
      <4> QED BY <1>8, <4>1, <4>2 DEF MetAfter
    <3>5. CASE x.to \notin visited
      <4>1. PICK k \in 1 .. Len(found) : found[k].id = x.to
        BY <1>1, <3>3, <3>5 DEF Adds
      <4>2. found[k] \in Met' /\ found[k].depth <= e.depth + 1
        BY <1>5, <1>8, <1>10, <3>2 DEF Listed
      <4> QED BY <4>1, <4>2 DEF MetAfter
    <3> QED BY <3>4, <3>5
  <2> QED BY <2>3, <2>4
<1> QED BY <1>11, <1>12, <1>13, <1>14, <1>15 DEF WalkInv

\* A step of a walk.
LEMMA WalkStep == WalkInv /\ [WalkNext]_walkVars => WalkInv'
<1> SUFFICES ASSUME WalkInv, [WalkNext]_walkVars PROVE WalkInv'
  OBVIOUS
<1>1. CASE Pop
  BY <1>1, PopWalks
<1>2. CASE Expand
  BY <1>2, ExpandWalks
<1>3. CASE \E a, b \in Nodes, type \in Asked : Change([from |-> a, type |-> type, to |-> b])
  BY <1>3, ChangeWalks
<1>4. CASE UNCHANGED walkVars
  <2>1. UNCHANGED <<edges, queue, visited, results, truncated, scan, ever, lasting>>
    BY <1>4 DEF walkVars
  <2>2. Met' = Met
    BY <2>1 DEF Met
  <2>3. WalkTyped' /\ MetOnce' /\ MetNear' /\ BreadthFirst'
    BY <2>1, <2>2 DEF WalkInv, WalkTyped, MetOnce, MetNear, BreadthFirst
  <2>4. Settled'
    BY <2>1, <2>2 DEF WalkInv, Settled, Owed, MetAfter
  <2> QED BY <2>3, <2>4 DEF WalkInv
<1> QED BY <1>1, <1>2, <1>3, <1>4 DEF WalkNext

\* Of every walk.
LEMMA WalkAlways == WalkSpec => []WalkInv
<1>1. WalkInit => WalkInv
  BY WalkStarts
<1>2. WalkInv /\ [WalkNext]_walkVars => WalkInv'
  BY WalkStep
<1> QED BY <1>1, <1>2, PTL DEF WalkSpec

\* A walk that has seen the end of its queue has met, hop by hop, all that lasting edges
\* lead to.
LEMMA LastingMet ==
  ASSUME WalkInv, ~truncated, queue = <<>>, scan.types = <<>>
  PROVE  \A d \in 0 .. MaxDepth : \A n \in Ball(lasting)[d] : \E e \in Met : e.id = n /\ e.depth <= d
<1> DEFINE Meets(d) == \A n \in Ball(lasting)[d] : \E e \in Met : e.id = n /\ e.depth <= d
           T == {d \in Nat : d <= MaxDepth => Meets(d)}
<1>1. MaxDepth \in Nat /\ \A e \in Met : e.depth \in 0 .. MaxDepth
  BY MetParts, WalkConstants DEF WalkInv
<1>2. 0 \in T
  <2>1. Visit(Seed, 0) \in Met /\ Visit(Seed, 0).id = Seed /\ Visit(Seed, 0).depth = 0
    BY DEF Met, Visit
  <2>2. Meets(0)
    BY <2>1, BallSteps
  <2> QED BY <2>2
<1>3. ASSUME NEW d \in Nat, d \in T PROVE d + 1 \in T
  <2> SUFFICES ASSUME d + 1 <= MaxDepth, NEW n \in Ball(lasting)[d + 1]
               PROVE  \E e \in Met : e.id = n /\ e.depth <= d + 1
    OBVIOUS
  <2>1. n \in Hops(lasting, Ball(lasting)[d])
    BY BallSteps
  <2>2. Meets(d) /\ d < MaxDepth
    BY <1>1, <1>3
  <2>3. CASE n \in Ball(lasting)[d]
    <3>1. PICK e \in Met : e.id = n /\ e.depth <= d
      BY <2>2, <2>3
    <3>2. e.depth <= d + 1
      BY <1>1, <3>1
    <3> QED BY <3>1, <3>2
  <2>4. CASE n \notin Ball(lasting)[d]
    <3>1. PICK x \in lasting : x.from \in Ball(lasting)[d] /\ x.type \in Asked /\ x.to = n
      BY <2>1, <2>4 DEF Hops
    <3>2. PICK e \in Met : e.id = x.from /\ e.depth <= d
      BY <2>2, <3>1
    <3>3. e.depth < MaxDepth /\ e.depth + 1 <= d + 1
      BY <1>1, <2>2, <3>2
    <3>4. e \notin Listed(queue) /\ ~Owed(e, x)
      <4>1. Len(queue) = 0 /\ Len(scan.types) = 0
        OBVIOUS
      <4> QED BY <4>1 DEF Listed, Owed
    <3>5. MetAfter(e, n)
      BY <3>1, <3>2, <3>3, <3>4 DEF WalkInv, Settled
    <3>6. PICK f \in Met : f.id = n /\ f.depth <= e.depth + 1
      BY <3>5 DEF MetAfter
    <3>7. f.depth <= d + 1
      BY <1>1, <3>3, <3>6
    <3> QED BY <3>6, <3>7
  <2> QED BY <2>3, <2>4
<1>4. Nat \subseteq T
  <2> HIDE DEF T
  <2> QED BY <1>2, <1>3, SetInduction
<1> QED BY <1>1, <1>4

\* As many ids as results.
LEMMA AsManyIds ==
  ASSUME WalkInv
  PROVE  Cardinality({results[k].id : k \in 1 .. Len(results)}) = Len(results)
<1> DEFINE n == Len(results)
           ids == {results[k].id : k \in 1 .. n}
           f == [k \in 1 .. n |-> results[k].id]
<1>1. n \in Nat /\ \A j, k \in 1 .. n : results[j].id = results[k].id => j = k
  BY DEF WalkInv, WalkTyped, MetOnce
<1>2. f \in Bijection(1 .. n, ids)
  <2>1. f \in [1 .. n -> ids]
    OBVIOUS
  <2>2. \A j, k \in 1 .. n : f[j] = f[k] => j = k
    BY <1>1
  <2>3. \A i \in ids : \E k \in 1 .. n : f[k] = i
    OBVIOUS
  <2> HIDE DEF f, ids
  <2>4. IsInjective(f)
    BY <2>1, <2>2 DEF IsInjective
  <2>5. f \in Injection(1 .. n, ids)
    BY <2>1, <2>4 DEF Injection
  <2>6. f \in Surjection(1 .. n, ids)
    BY <2>1, <2>3 DEF Surjection
  <2> QED BY <2>5, <2>6 DEF Bijection
<1> HIDE DEF f, ids, n
<1>3. IsFiniteSet(1 .. n) /\ Cardinality(1 .. n) = n
  BY <1>1, FS_Interval
<1>4. Cardinality(ids) = n
  BY <1>2, <1>3, FS_Bijection DEF ExistsBijection
<1> QED BY <1>4 DEF ids, n

\* What a walk has found at its end is exact.
LEMMA EndsExact == WalkInv => WalkExact
<1> SUFFICES ASSUME WalkInv, WalkDone PROVE WalkExact
  BY DEF WalkExact
<1> DEFINE ids == {results[k].id : k \in DOMAIN results}
<1>1. results \in Seq(Found) /\ DOMAIN results = 1 .. Len(results) /\ MaxDepth \in Nat
  BY WalkConstants DEF WalkInv, WalkTyped
<1>2. \A k \in DOMAIN results : results[k] \in Found /\ results[k] \in Met
  BY <1>1 DEF Met, Listed
<1>3. \A k \in DOMAIN results : results[k].id # Seed /\ results[k].depth <= MaxDepth
  BY <1>1, <1>2 DEF Found
<1>4. \A k \in DOMAIN results : results[k].id \in Ball(ever)[results[k].depth]
  BY <1>2 DEF WalkInv, MetNear
<1>5. Cardinality(ids) = Len(results)
  BY <1>1, AsManyIds
<1>6. Seed \notin ids
  BY <1>3
<1>7. truncated => Len(results) = MaxResults
  BY DEF WalkInv, MetOnce
<1>8. ASSUME ~truncated, NEW d \in 0 .. MaxDepth, NEW n \in Ball(lasting)[d] \ {Seed}
      PROVE  \E k \in DOMAIN results : results[k].id = n /\ results[k].depth <= d
  <2>1. queue = <<>> /\ scan.types = <<>>
    BY <1>8 DEF WalkDone
  <2>2. PICK e \in Met : e.id = n /\ e.depth <= d
    BY <1>8, <2>1, LastingMet
  <2>3. e # Visit(Seed, 0)
    BY <2>2 DEF Visit
  <2>4. PICK k \in 1 .. Len(results) : e = results[k]
    BY <2>2, <2>3 DEF Met, Listed
  <2> QED BY <1>1, <2>2, <2>4
<1>9. IF truncated THEN Len(results) = MaxResults
      ELSE \A d \in 0 .. MaxDepth : \A n \in Ball(lasting)[d] \ {Seed} :
             \E k \in DOMAIN results : results[k].id = n /\ results[k].depth <= d
  BY <1>7, <1>8
<1> HIDE DEF ids
<1>10. /\ Cardinality(ids) = Len(results) /\ Seed \notin ids
       /\ \A k \in DOMAIN results :
            results[k].depth <= MaxDepth /\ results[k].id \in Ball(ever)[results[k].depth]
       /\ IF truncated THEN Len(results) = MaxResults
          ELSE \A d \in 0 .. MaxDepth : \A n \in Ball(lasting)[d] \ {Seed} :
                 \E k \in DOMAIN results : results[k].id = n /\ results[k].depth <= d
  BY <1>3, <1>4, <1>5, <1>6, <1>9
<1> QED BY <1>10 DEF WalkExact, ids

\* A traversal that ends has found each memory once, as many hops away as it
\* says through edges that were there while it went on, and all that edges
\* present all along lead to, or as many as asked for.
THEOREM WalksStayExact == WalkSpec => []WalkExact
<1>1. WalkInv => WalkExact
  BY EndsExact
<1> QED BY <1>1, WalkAlways, PTL

-----------------------------------------------------------------------------
(* Forests: every member has a parent, of greater rank unless its own      *)

Forest(p, r, V) ==
  /\ p \in [V -> V] /\ r \in [V -> Nat]
  /\ \A i \in V : p[i] # i => r[i] < r[p[i]]

\* w goes from i from parent to parent.
Climbs(w, p, i, V) == w[0] = i /\ \A k \in Nat : w[k] \in V /\ w[k + 1] = p[w[k]]

\* The way to the root does.
LEMMA WaySteps ==
  ASSUME NEW V, NEW p \in [V -> V], NEW i \in V
  PROVE  Climbs(Way(p, i), p, i, V)
<1> DEFINE h == [q \in Nat \X V |-> p[q[2]]]
           IsWay(w) == w = [k \in Nat |-> IF k = 0 THEN i ELSE p[w[k - 1]]]
<1>1. h \in [Nat \X V -> V] /\ \A k \in Nat : \A j \in V : h[<<k, j>>] = p[j]
  OBVIOUS
<1> HIDE DEF h
<1>2. PICK f : Runs(f, V, i, h)
  BY <1>1, Recursion
<1>3. f \in [Nat -> V] /\ f[0] = i /\ \A k \in Nat : f[k + 1] = p[f[k]]
  <2>1. f \in [Nat -> V] /\ f[0] = i /\ \A k \in Nat : f[k + 1] = h[<<k + 1, f[k]>>]
    BY <1>2 DEF Runs
  <2>2. ASSUME NEW k \in Nat PROVE f[k + 1] = p[f[k]]
    <3>1. f[k] \in V /\ k + 1 \in Nat
      BY <2>1
    <3> QED BY <1>1, <2>1, <3>1
  <2> QED BY <2>1, <2>2
<1>4. IsWay(f)
  <2>1. ASSUME NEW k \in Nat PROVE f[k] = IF k = 0 THEN i ELSE p[f[k - 1]]
    <3>1. CASE k # 0
      <4>1. k - 1 \in Nat /\ (k - 1) + 1 = k
        BY <3>1
      <4> QED BY <1>3, <3>1, <4>1
    <3> QED BY <1>3, <3>1
  <2>2. f = [k \in Nat |-> f[k]]
    BY <1>3
  <2> QED BY <2>1, <2>2
<1>5. Way(p, i) = CHOOSE w : IsWay(w)
  BY DEF Way
<1>6. IsWay(Way(p, i))
  <2> HIDE DEF IsWay
  <2> QED BY <1>4, <1>5
<1> DEFINE w == Way(p, i)
<1> HIDE DEF w
<1>7. w = [k \in Nat |-> IF k = 0 THEN i ELSE p[w[k - 1]]]
  BY <1>6 DEF w
<1>8. w[0] = i
  BY <1>7
<1>9. ASSUME NEW k \in Nat PROVE w[k + 1] = p[w[k]]
  <2>1. k + 1 \in Nat /\ k + 1 # 0 /\ (k + 1) - 1 = k
    OBVIOUS
  <2> QED BY <1>7, <2>1
<1>10. \A k \in Nat : w[k] \in V
  <2> DEFINE T == {k \in Nat : w[k] \in V}
  <2>1. 0 \in T
    BY <1>8
  <2>2. \A k \in Nat : k \in T => k + 1 \in T
    BY <1>9
  <2>3. Nat \subseteq T
    <3> HIDE DEF T
    <3> QED BY <2>1, <2>2, SetInduction
  <2> QED BY <2>3
<1> QED BY <1>8, <1>9, <1>10 DEF w, Climbs

\* Within as many steps as there are members the way comes to a root.
LEMMA RootStays ==
  ASSUME NEW V, IsFiniteSet(V), NEW p, NEW r, Forest(p, r, V), NEW i \in V
  PROVE  Root(p, i) \in V /\ p[Root(p, i)] = Root(p, i)
<1> DEFINE n == Cardinality(V)
           w == Way(p, i)
<1>1. p \in [V -> V] /\ r \in [V -> Nat] /\ \A j \in V : p[j] # j => r[j] < r[p[j]]
  BY DEF Forest
<1>2. n \in Nat
  BY FS_CardinalityType
<1>3. w[0] = i /\ \A k \in Nat : w[k] \in V /\ w[k + 1] = p[w[k]]
  BY <1>1, WaySteps DEF Climbs
<1>4. Root(p, i) = w[n]
  BY <1>1 DEF Root
<1> HIDE DEF w, n
<1>5. SUFFICES ASSUME p[w[n]] # w[n] PROVE FALSE
  BY <1>2, <1>3, <1>4
<1>6. ASSUME NEW k \in 0 .. n PROVE p[w[k]] # w[k]
  <2> DEFINE T == {m \in Nat : k + m <= n => (p[w[k]] = w[k] => w[k + m] = w[k])}
  <2>1. 0 \in T
    OBVIOUS
  <2>2. ASSUME NEW m \in Nat, m \in T PROVE m + 1 \in T
    <3>1. k + m \in Nat /\ k + (m + 1) = (k + m) + 1
      OBVIOUS
    <3>2. w[k + (m + 1)] = p[w[k + m]]
      BY <1>3, <3>1
    <3> QED BY <2>2, <3>1, <3>2, <1>2
  <2>3. Nat \subseteq T
    <3> HIDE DEF T
    <3> QED BY <2>1, <2>2, SetInduction
  <2>4. n - k \in Nat /\ k + (n - k) = n
    BY <1>2
  <2>5. p[w[k]] = w[k] => w[n] = w[k]
    BY <1>2, <2>3, <2>4
  <2> QED BY <1>5, <2>5
<1>7. ASSUME NEW a \in 0 .. n, NEW b \in 0 .. n, a < b PROVE r[w[a]] < r[w[b]]
  <2> DEFINE T == {m \in Nat : a + m + 1 <= n => r[w[a]] < r[w[a + m + 1]]}
  <2>1. ASSUME NEW k \in Nat, k + 1 <= n PROVE r[w[k]] < r[w[k + 1]] /\ r[w[k]] \in Nat /\ r[w[k + 1]] \in Nat
    <3>1. k \in 0 .. n /\ k + 1 \in Nat
      BY <1>2, <2>1
    <3>2. p[w[k]] # w[k] /\ w[k] \in V /\ w[k + 1] \in V /\ w[k + 1] = p[w[k]]
      BY <1>3, <1>6, <3>1
    <3> QED BY <1>1, <3>2
  <2>2. 0 \in T
    <3>1. a + 0 + 1 = a + 1
      OBVIOUS
    <3> QED BY <2>1, <3>1
  <2>3. ASSUME NEW m \in Nat, m \in T PROVE m + 1 \in T
    <3> DEFINE k == a + m + 1
    <3>1. k \in Nat /\ a + (m + 1) + 1 = k + 1 /\ (k + 1 <= n => k <= n)
      BY <1>2
    <3>2. SUFFICES ASSUME k + 1 <= n PROVE r[w[a]] < r[w[k + 1]]
      BY <3>1
    <3>3. r[w[a]] < r[w[k]]
      BY <2>3, <3>1, <3>2
    <3>4. r[w[k]] < r[w[k + 1]] /\ r[w[k]] \in Nat /\ r[w[k + 1]] \in Nat
      BY <2>1, <3>1, <3>2
    <3>5. r[w[a]] \in Nat
      BY <1>1, <1>3
    <3> HIDE DEF k
    <3> QED BY <3>3, <3>4, <3>5
  <2>4. Nat \subseteq T
    <3> HIDE DEF T
    <3> QED BY <2>2, <2>3, SetInduction
  <2>5. b - a - 1 \in Nat /\ a + (b - a - 1) + 1 = b /\ b <= n
    BY <1>2, <1>7
  <2>6. b - a - 1 \in T
    BY <2>4, <2>5
  <2> QED BY <2>5, <2>6
<1> DEFINE f == [k \in 0 .. n |-> w[k]]
<1>8. f \in [0 .. n -> V]
  BY <1>2, <1>3
<1>9. IsFiniteSet(0 .. n) /\ Cardinality(0 .. n) = n + 1
  BY <1>2, FS_Interval
<1>10. Cardinality(V) < Cardinality(0 .. n)
  BY <1>2, <1>9 DEF n
<1> HIDE DEF f
<1>11. PICK a, b \in 0 .. n : a # b /\ f[a] = f[b]
  BY <1>8, <1>9, <1>10, FS_PigeonHole
<1>12. w[a] = w[b]
  BY <1>11 DEF f
<1>13. a < b \/ b < a
  BY <1>2, <1>11
<1>14. r[w[a]] \in Nat /\ r[w[b]] \in Nat
  BY <1>1, <1>2, <1>3
<1> QED BY <1>7, <1>12, <1>13, <1>14

\* What roots are, of the forest p over V.
RootParts(p, V) ==
  \A i \in V : /\ Root(p, i) \in V /\ p[Root(p, i)] = Root(p, i) /\ Root(p, p[i]) = Root(p, i)
               /\ (p[i] = i => Root(p, i) = i)

\* A member has the root of its parent, and a root its own.
LEMMA RootsKnown ==
  ASSUME NEW V, IsFiniteSet(V), NEW p, NEW r, Forest(p, r, V)
  PROVE  RootParts(p, V)
<1> SUFFICES ASSUME NEW i \in V
             PROVE  /\ Root(p, i) \in V /\ p[Root(p, i)] = Root(p, i) /\ Root(p, p[i]) = Root(p, i)
                    /\ (p[i] = i => Root(p, i) = i)
  BY DEF RootParts
<1> DEFINE n == Cardinality(V)
           w == Way(p, i)
           v == Way(p, p[i])
<1>1. p \in [V -> V] /\ p[i] \in V /\ n \in Nat
  BY FS_CardinalityType DEF Forest
<1>2. w[0] = i /\ \A k \in Nat : w[k] \in V /\ w[k + 1] = p[w[k]]
  BY <1>1, WaySteps DEF Climbs
<1>3. v[0] = p[i] /\ \A k \in Nat : v[k] \in V /\ v[k + 1] = p[v[k]]
  BY <1>1, WaySteps DEF Climbs
<1>4. Root(p, i) = w[n] /\ Root(p, p[i]) = v[n]
  BY <1>1 DEF Root
<1>5. Root(p, i) \in V /\ p[Root(p, i)] = Root(p, i)
  BY RootStays
<1> HIDE DEF w, v, n
<1>6. \A k \in Nat : v[k] = w[k + 1]
  <2> DEFINE T == {k \in Nat : v[k] = w[k + 1]}
  <2>1. 0 \in T
    <3>1. w[0 + 1] = p[w[0]]
      BY <1>2
    <3> QED BY <1>2, <1>3, <3>1
  <2>2. ASSUME NEW k \in Nat, k \in T PROVE k + 1 \in T
    <3>1. v[k + 1] = p[v[k]] /\ w[(k + 1) + 1] = p[w[k + 1]]
      BY <1>2, <1>3
    <3> QED BY <2>2, <3>1
  <2>3. Nat \subseteq T
    <3> HIDE DEF T
    <3> QED BY <2>1, <2>2, SetInduction
  <2> QED BY <2>3
<1>7. Root(p, p[i]) = Root(p, i)
  BY <1>1, <1>2, <1>4, <1>5, <1>6
<1>8. ASSUME p[i] = i PROVE Root(p, i) = i
  <2> DEFINE T == {k \in Nat : w[k] = i}
  <2>1. 0 \in T
    BY <1>2
  <2>2. \A k \in Nat : k \in T => k + 1 \in T
    BY <1>2, <1>8
  <2>3. Nat \subseteq T
    <3> HIDE DEF T
    <3> QED BY <2>1, <2>2, SetInduction
  <2> QED BY <1>1, <1>4, <2>3
<1> QED BY <1>5, <1>7, <1>8

\* What is the same along the way is so up to the root.
LEMMA RootUnique ==
  ASSUME NEW V, IsFiniteSet(V), NEW p, NEW r, Forest(p, r, V), NEW f,
         \A j \in V : f[p[j]] = f[j], \A j \in V : p[j] = j => f[j] = j, NEW i \in V
  PROVE  Root(p, i) = f[i] /\ \A k \in Nat : f[Way(p, i)[k]] = f[i]
<1> DEFINE n == Cardinality(V)
           w == Way(p, i)
<1>1. p \in [V -> V] /\ n \in Nat
  BY FS_CardinalityType DEF Forest
<1>2. w[0] = i /\ \A k \in Nat : w[k] \in V /\ w[k + 1] = p[w[k]]
  <2>1. Climbs(w, p, i, V)
    BY <1>1, WaySteps
  <2> QED BY <2>1 DEF Climbs
<1>3. Root(p, i) = w[n]
  BY <1>1 DEF Root
<1>4. Root(p, i) \in V /\ p[Root(p, i)] = Root(p, i)
  BY RootStays
<1> HIDE DEF w, n
<1>5. \A k \in Nat : f[w[k]] = f[i]
  <2> DEFINE T == {k \in Nat : f[w[k]] = f[i]}
  <2>1. 0 \in T
    BY <1>2
  <2>2. \A k \in Nat : k \in T => k + 1 \in T
    BY <1>2
  <2>3. Nat \subseteq T
    <3> HIDE DEF T
    <3> QED BY <2>1, <2>2, SetInduction
  <2> QED BY <2>3
<1>6. Root(p, i) = f[i]
  BY <1>1, <1>3, <1>4, <1>5
<1> QED BY <1>5, <1>6 DEF w

\* A member that is no root has less rank than its root.
LEMMA RankBelow ==
  ASSUME NEW V, IsFiniteSet(V), NEW p, NEW r, Forest(p, r, V), NEW i \in V, Root(p, i) # i
  PROVE  r[i] < r[Root(p, i)]
<1> DEFINE n == Cardinality(V)
           w == Way(p, i)
           T == {k \in Nat : w[k] = i \/ r[i] < r[w[k]]}
<1>1. p \in [V -> V] /\ r \in [V -> Nat] /\ (\A j \in V : p[j] # j => r[j] < r[p[j]]) /\ n \in Nat
  BY FS_CardinalityType DEF Forest
<1>2. w[0] = i /\ \A k \in Nat : w[k] \in V /\ w[k + 1] = p[w[k]]
  BY <1>1, WaySteps DEF Climbs
<1>3. Root(p, i) = w[n]
  BY <1>1 DEF Root
<1> HIDE DEF w, n
<1>4. 0 \in T
  BY <1>2
<1>5. ASSUME NEW k \in Nat, k \in T PROVE k + 1 \in T
  <2>1. w[k] \in V /\ w[k + 1] \in V /\ w[k + 1] = p[w[k]]
    BY <1>2
  <2>2. r[i] \in Nat /\ r[w[k]] \in Nat /\ r[w[k + 1]] \in Nat
    BY <1>1, <2>1
  <2>3. w[k + 1] = w[k] \/ r[w[k]] < r[w[k + 1]]
    BY <1>1, <2>1
  <2>4. w[k + 1] = i \/ r[i] < r[w[k + 1]]
    BY <1>5, <2>2, <2>3
  <2> QED BY <2>4
<1>6. Nat \subseteq T
  <2> HIDE DEF T
  <2> QED BY <1>4, <1>5, SetInduction
<1> QED BY <1>1, <1>3, <1>6

\* q has the roots of p.
SameRoots(p, q, V) == \A j \in V : Root(q, j) = Root(p, j)

\* Compressing a way moves members to their root, and no root.
LEMMA CompressKeeps ==
  ASSUME NEW V, IsFiniteSet(V), NEW p, NEW r, Forest(p, r, V), NEW i \in V
  PROVE  Forest(Compress(p, i), r, V) /\ SameRoots(p, Compress(p, i), V)
<1> DEFINE n == Cardinality(V)
           w == Way(p, i)
           q == Compress(p, i)
           f == [j \in V |-> Root(p, j)]
           OnWay(j) == j \in {w[k] : k \in 0 .. n}
<1>1. p \in [V -> V] /\ r \in [V -> Nat] /\ (\A j \in V : p[j] # j => r[j] < r[p[j]]) /\ n \in Nat
  BY FS_CardinalityType DEF Forest
<1>2. RootParts(p, V)
  BY RootsKnown
<1>3. \A j \in V : f[p[j]] = f[j] /\ (p[j] = j => f[j] = j) /\ f[j] = Root(p, j) /\ f[j] \in V
  BY <1>1, <1>2 DEF RootParts
<1>4. q = [j \in V |-> IF OnWay(j) THEN Root(p, i) ELSE p[j]]
  BY <1>1 DEF Compress
<1> HIDE DEF f
<1>5. \A k \in Nat : f[w[k]] = f[i]
  BY <1>3, RootUnique
<1> HIDE DEF w, n
<1>6. ASSUME NEW j \in V, OnWay(j) PROVE f[j] = f[i]
  BY <1>1, <1>5, <1>6
<1> HIDE DEF OnWay
<1>7. \A j \in V : q[j] = (IF OnWay(j) THEN Root(p, i) ELSE p[j]) /\ q[j] \in V
  BY <1>1, <1>3, <1>4
<1> HIDE DEF q
<1>8. Forest(q, r, V)
  <2>1. ASSUME NEW j \in V, q[j] # j PROVE r[j] < r[q[j]]
    <3>1. CASE OnWay(j)
      <4>1. q[j] = Root(p, j)
        BY <1>3, <1>6, <1>7, <3>1
      <4> QED BY <2>1, <4>1, RankBelow
    <3>2. CASE ~OnWay(j)
      BY <1>1, <1>7, <2>1, <3>2
    <3> QED BY <3>1, <3>2
  <2>2. q \in [V -> V]
    BY <1>4, <1>7
  <2> QED BY <1>1, <2>1, <2>2 DEF Forest
<1>9. \A j \in V : f[q[j]] = f[j]
  <2> SUFFICES ASSUME NEW j \in V PROVE f[q[j]] = f[j]
    OBVIOUS
  <2>1. CASE OnWay(j)
    <3>1. q[j] = Root(p, i) /\ f[j] = Root(p, i)
      BY <1>3, <1>6, <1>7, <2>1
    <3>2. Root(p, i) \in V /\ p[Root(p, i)] = Root(p, i)
      BY <1>2 DEF RootParts
    <3> QED BY <1>3, <3>1, <3>2
  <2>2. CASE ~OnWay(j)
    BY <1>3, <1>7, <2>2
  <2> QED BY <2>1, <2>2
<1>10. \A j \in V : q[j] = j => f[j] = j
  <2> SUFFICES ASSUME NEW j \in V, q[j] = j PROVE f[j] = j
    OBVIOUS
  <2>1. CASE OnWay(j)
    BY <1>3, <1>6, <1>7, <2>1
  <2>2. CASE ~OnWay(j)
    BY <1>3, <1>7, <2>2
  <2> QED BY <2>1, <2>2
<1>11. \A j \in V : Root(q, j) = f[j]
  BY <1>8, <1>9, <1>10, RootUnique
<1>12. SameRoots(p, q, V)
  BY <1>3, <1>11 DEF SameRoots
<1> QED BY <1>8, <1>12 DEF q

\* q has the roots of p but for b, whose members have a.
RootsMoved(p, q, a, b, V) == \A j \in V : Root(q, j) = IF Root(p, j) = b THEN a ELSE Root(p, j)

\* A root gets a parent: another root, of greater rank from then on.
LEMMA LinkMoves ==
  ASSUME NEW V, IsFiniteSet(V), NEW p, NEW r, Forest(p, r, V), NEW a \in V, NEW b \in V,
         p[a] = a, p[b] = b, a # b, NEW t \in [V -> Nat],
         \A j \in V : (j = a \/ t[j] = r[j]) /\ t[j] >= r[j], t[b] < t[a]
  PROVE  Forest([p EXCEPT ![b] = a], t, V) /\ RootsMoved(p, [p EXCEPT ![b] = a], a, b, V)
<1> DEFINE q == [p EXCEPT ![b] = a]
           f == [j \in V |-> IF Root(p, j) = b THEN a ELSE Root(p, j)]
<1>1. p \in [V -> V] /\ r \in [V -> Nat] /\ \A j \in V : p[j] # j => r[j] < r[p[j]]
  BY DEF Forest
<1>2. RootParts(p, V)
  BY RootsKnown
<1>3. q \in [V -> V] /\ q[b] = a /\ \A j \in V : j # b => q[j] = p[j]
  BY <1>1
<1>4. \A j \in V : f[j] = IF Root(p, j) = b THEN a ELSE Root(p, j)
  OBVIOUS
<1>5. /\ Root(p, a) = a /\ Root(p, b) = b
      /\ \A j \in V : Root(p, p[j]) = Root(p, j) /\ p[j] \in V /\ (p[j] = j => Root(p, j) = j)
  BY <1>1, <1>2 DEF RootParts
<1> HIDE DEF f, q
<1>6. Forest(q, t, V)
  <2>1. ASSUME NEW j \in V, q[j] # j PROVE t[j] < t[q[j]]
    <3>1. CASE j = b
      BY <1>3, <3>1
    <3>2. CASE j # b
      <4>1. q[j] = p[j] /\ r[j] < r[p[j]] /\ p[j] \in V /\ j # a
        BY <1>1, <1>3, <2>1, <3>2
      <4>2. t[j] = r[j] /\ t[p[j]] >= r[p[j]]
        BY <4>1
      <4>3. t[j] \in Nat /\ t[p[j]] \in Nat /\ r[p[j]] \in Nat
        BY <1>1, <4>1
      <4> QED BY <4>1, <4>2, <4>3
    <3> QED BY <3>1, <3>2
  <2> QED BY <1>3, <2>1 DEF Forest
<1>7. \A j \in V : f[q[j]] = f[j]
  <2> SUFFICES ASSUME NEW j \in V PROVE f[q[j]] = f[j]
    OBVIOUS
  <2>1. CASE j = b
    <3>1. f[a] = a /\ f[b] = a
      BY <1>4, <1>5
    <3> QED BY <1>3, <2>1, <3>1
  <2>2. CASE j # b
    <3>1. q[j] = p[j] /\ p[j] \in V /\ Root(p, p[j]) = Root(p, j)
      BY <1>3, <1>5, <2>2
    <3> QED BY <1>4, <3>1
  <2> QED BY <2>1, <2>2
<1>8. \A j \in V : q[j] = j => f[j] = j
  <2> SUFFICES ASSUME NEW j \in V, q[j] = j PROVE f[j] = j
    OBVIOUS
  <2>1. j # b
    BY <1>3
  <2>2. Root(p, j) = j
    BY <1>3, <1>5, <2>1
  <2> QED BY <1>4, <2>1, <2>2
<1>9. \A j \in V : Root(q, j) = f[j]
  BY <1>6, <1>7, <1>8, RootUnique
<1>10. RootsMoved(p, q, a, b, V)
  BY <1>4, <1>9 DEF RootsMoved
<1> QED BY <1>6, <1>10 DEF q

-----------------------------------------------------------------------------
(* The links of a snapshot                                                 *)

Link == [from : Members, to : Members, d : Int]

\* The members of a snapshot are numbered from 0.
LEMMA SnapshotParts ==
  ASSUME snapshot \in Snapshots
  PROVE  /\ Size \in Nat /\ Members = 0 .. Size - 1 /\ Members \subseteq Nat /\ IsFiniteSet(Members)
         /\ snapshot \in [Members -> Seq([to : Members, d : Int])]
<1>1. /\ Size \in Nat
      /\ snapshot \in [0 .. Size - 1 -> Seq([to : 0 .. Size - 1, d : Int])]
  BY ClusterConstants DEF Size, Members
<1>2. Members = 0 .. Size - 1
  BY <1>1 DEF Members
<1>3. IsFiniteSet(0 .. Size - 1)
  BY <1>1, FS_Interval
<1>4. snapshot \in [Members -> Seq([to : Members, d : Int])]
  <2> HIDE DEF Members
  <2> QED BY <1>1, <1>2
<1>5. \A i \in 0 .. Size - 1 : i \in Nat
  BY <1>1
<1> QED BY <1>1, <1>2, <1>3, <1>4, <1>5

\* Its links are between members.
LEMMA LinksTyped ==
  ASSUME snapshot \in Snapshots
  PROVE  AllLinks \in Seq(Link)
<1> DEFINE of(i) == [m \in DOMAIN snapshot[i] |->
                       [from |-> i, to |-> snapshot[i][m].to, d |-> snapshot[i][m].d]]
           n == Size
           Q == Seq(Link)
           h == [q \in Nat \X Q |-> IF q[1] \in 1 .. n THEN q[2] \o of(q[1] - 1) ELSE q[2]]
           IsUpto(u) == u = [k \in 0 .. n |-> IF k = 0 THEN <<>> ELSE u[k - 1] \o of(k - 1)]
<1>1. ASSUME NEW i \in Members PROVE of(i) \in Q
  <2>1. snapshot[i] \in Seq([to : Members, d : Int])
    BY SnapshotParts
  <2>2. /\ Len(snapshot[i]) \in Nat /\ DOMAIN snapshot[i] = 1 .. Len(snapshot[i])
        /\ \A m \in 1 .. Len(snapshot[i]) : snapshot[i][m].to \in Members /\ snapshot[i][m].d \in Int
    <3> DEFINE D == [to : Members, d : Int]
    <3>1. \A x \in D : x.to \in Members /\ x.d \in Int
      OBVIOUS
    <3>2. snapshot[i] \in Seq(D)
      BY <2>1
    <3> HIDE DEF D
    <3>3. /\ Len(snapshot[i]) \in Nat /\ DOMAIN snapshot[i] = 1 .. Len(snapshot[i])
          /\ \A m \in 1 .. Len(snapshot[i]) : snapshot[i][m] \in D
      BY <3>2
    <3> QED BY <3>1, <3>3
  <2>3. \A m \in 1 .. Len(snapshot[i]) : [from |-> i, to |-> snapshot[i][m].to, d |-> snapshot[i][m].d] \in Link
    BY <2>2 DEF Link
  <2> HIDE DEF Link
  <2>4. of(i) = [m \in 1 .. Len(snapshot[i]) |-> [from |-> i, to |-> snapshot[i][m].to, d |-> snapshot[i][m].d]]
    BY <2>2
  <2> QED BY <2>2, <2>3, <2>4
<1>2. n \in Nat /\ \A k \in 1 .. n : k - 1 \in Members /\ k - 1 \in 0 .. n
  BY SnapshotParts
<1>3. AllLinks = (CHOOSE u : IsUpto(u))[n]
  BY DEF AllLinks
<1> HIDE DEF of, n
<1>4. h \in [Nat \X Q -> Q]
  <2>1. ASSUME NEW k \in Nat, NEW s \in Q PROVE (IF k \in 1 .. n THEN s \o of(k - 1) ELSE s) \in Q
    <3>1. CASE k \in 1 .. n
      <4>1. of(k - 1) \in Q
        BY <1>1, <1>2, <3>1
      <4>2. s \o of(k - 1) \in Q
        BY <4>1
      <4> QED BY <3>1, <4>2
    <3> QED BY <3>1
  <2> HIDE DEF Q
  <2> QED BY <2>1
<1>5. <<>> \in Q
  OBVIOUS
<1>6. ASSUME NEW k \in Nat, NEW s \in Q PROVE h[<<k, s>>] = IF k \in 1 .. n THEN s \o of(k - 1) ELSE s
  <2> HIDE DEF Q
  <2>1. <<k, s>> \in Nat \X Q /\ <<k, s>>[1] = k /\ <<k, s>>[2] = s
    OBVIOUS
  <2> QED BY <2>1
<1> HIDE DEF h, Q
<1>7. PICK f : Runs(f, Q, <<>>, h)
  BY <1>4, <1>5, Recursion
<1>8. f \in [Nat -> Q] /\ f[0] = <<>> /\ \A k \in Nat : f[k + 1] = h[<<k + 1, f[k]>>]
  BY <1>7 DEF Runs
<1> DEFINE u == [k \in 0 .. n |-> f[k]]
<1>9. ASSUME NEW k \in 0 .. n PROVE u[k] = IF k = 0 THEN <<>> ELSE u[k - 1] \o of(k - 1)
  <2>1. CASE k = 0
    BY <1>2, <1>8, <2>1
  <2>2. CASE k # 0
    <3>1. k \in 1 .. n /\ k - 1 \in Nat /\ (k - 1) + 1 = k /\ k - 1 \in 0 .. n
      BY <1>2, <2>2
    <3>2. f[k] = h[<<k, f[k - 1]>>] /\ f[k - 1] \in Q
      BY <1>8, <3>1
    <3>3. f[k] = f[k - 1] \o of(k - 1)
      <4>1. k \in Nat /\ f[k - 1] \in Q
        BY <1>2, <3>1, <3>2
      <4>2. h[<<k, f[k - 1]>>] = IF k \in 1 .. n THEN f[k - 1] \o of(k - 1) ELSE f[k - 1]
        BY <1>6, <4>1
      <4> QED BY <3>1, <3>2, <4>2
    <3> QED BY <2>2, <3>1, <3>3
  <2> QED BY <2>1, <2>2
<1>10. u = [k \in 0 .. n |-> u[k]]
  OBVIOUS
<1> HIDE DEF u
<1>11. IsUpto(u)
  BY <1>9, <1>10
<1> DEFINE v == CHOOSE w : IsUpto(w)
<1>12. IsUpto(v)
  <2> HIDE DEF IsUpto
  <2> QED BY <1>11
<1> HIDE DEF v
<1>13. \A k \in Nat : k <= n => v[k] \in Q
  <2> DEFINE T == {k \in Nat : k <= n => v[k] \in Q}
  <2>1. 0 \in T
    BY <1>2, <1>5, <1>12
  <2>2. ASSUME NEW k \in Nat, k \in T PROVE k + 1 \in T
    <3> SUFFICES ASSUME k + 1 <= n PROVE v[k + 1] \in Q
      OBVIOUS
    <3>1. k + 1 \in 0 .. n /\ k + 1 # 0 /\ (k + 1) - 1 = k /\ k \in Members /\ k <= n
      <4>1. k + 1 \in 1 .. n /\ (k + 1) - 1 = k
        BY <1>2
      <4> QED BY <1>2, <4>1
    <3>2. v[k + 1] = v[k] \o of(k)
      BY <1>12, <3>1
    <3>3. v[k] \in Q /\ of(k) \in Q
      BY <1>1, <2>2, <3>1
    <3>4. v[k] \o of(k) \in Q
      <4>1. \A s, t \in Q : s \o t \in Q
        BY DEF Q
      <4> QED BY <3>3, <4>1
    <3> QED BY <3>2, <3>4
  <2>3. Nat \subseteq T
    <3> HIDE DEF T
    <3> QED BY <2>1, <2>2, SetInduction
  <2> QED BY <2>3
<1>14. v[n] \in Q
  BY <1>2, <1>13
<1> QED BY <1>3, <1>14 DEF v, Q

-----------------------------------------------------------------------------
(* The invariant of a clustering                                           *)

Uncut(S) == \A k \in DOMAIN pairs : Short(k) => (pairs[k].from \in S <=> pairs[k].to \in S)

ClusterTyped ==
  /\ snapshot \in Snapshots /\ pairs \in Seq(Link) /\ looked \in 0 .. Len(pairs)
  /\ Forest(parent, rank, Members)

\* Roots are where short links lead to, and the ends of those looked at have one.
RootsWithin ==
  \A S \in SUBSET Members : Uncut(S) => \A i \in Members : i \in S <=> Root(parent, i) \in S
EndsJoined ==
  \A k \in 1 .. looked : Short(k) => Root(parent, pairs[k].from) = Root(parent, pairs[k].to)

ClusterInv ==
  /\ ClusterTyped /\ RootsWithin /\ EndsJoined
  /\ (labels # <<>> => looked = Len(pairs)) /\ ClustersExact

\* A clustering starts so.
LEMMA ClusterStarts == ClusterInit => ClusterInv
<1> SUFFICES ASSUME ClusterInit PROVE ClusterInv
  OBVIOUS
<1>1. /\ snapshot \in Snapshots /\ pairs = AllLinks /\ looked = 0 /\ labels = <<>>
      /\ parent = [i \in Members |-> i] /\ rank = [i \in Members |-> 0]
  BY DEF ClusterInit
<1>2. AllLinks \in Seq(Link) /\ IsFiniteSet(Members)
  BY <1>1, LinksTyped, SnapshotParts
<1>3. Forest(parent, rank, Members)
  BY <1>1 DEF Forest
<1>4. looked \in 0 .. Len(pairs)
  BY <1>1, <1>2
<1>5. RootParts(parent, Members)
  BY <1>2, <1>3, RootsKnown
<1>6. \A i \in Members : Root(parent, i) = i
  BY <1>1, <1>5 DEF RootParts
<1>7. RootsWithin
  BY <1>6 DEF RootsWithin
<1>8. EndsJoined
  BY <1>1 DEF EndsJoined
<1>9. ClustersExact
  BY <1>1 DEF ClustersExact
<1> QED BY <1>1, <1>2, <1>3, <1>4, <1>7, <1>8, <1>9 DEF ClusterInv, ClusterTyped

\* The root y of p gives way to x, both roots of members that a link joins.
Merged(p, q, i, j, V) ==
  \E x, y \in V : /\ {x, y} = {Root(p, i), Root(p, j)}
                  /\ \A m \in V : Root(q, m) = IF Root(p, m) = y THEN x ELSE Root(p, m)

\* A union merges the roots of the ends of its link.
LEMMA UnionMerges ==
  ASSUME ClusterTyped, Union
  PROVE  /\ Forest(parent', rank', Members)
         /\ Merged(parent, parent', pairs[looked + 1].from, pairs[looked + 1].to, Members)
<1> DEFINE V == Members
           a == pairs[looked + 1].from
           b == pairs[looked + 1].to
           p == Compress(Compress(parent, a), b)
           x == Root(parent, a)
           y == Root(parent, b)
<1>1. /\ looked < Len(pairs)
      /\ IF x = y THEN parent' = p /\ rank' = rank
         ELSE IF rank[x] < rank[y] THEN parent' = [p EXCEPT ![x] = y] /\ rank' = rank
         ELSE /\ parent' = [p EXCEPT ![y] = x]
              /\ rank' = IF rank[x] = rank[y] THEN [rank EXCEPT ![x] = @ + 1] ELSE rank
  BY DEF Union, Look
<1>2. Forest(parent, rank, V) /\ IsFiniteSet(V) /\ rank \in [V -> Nat]
  BY SnapshotParts DEF ClusterTyped, Forest
<1>3. a \in V /\ b \in V
  <2>1. looked + 1 \in 1 .. Len(pairs) /\ pairs \in Seq(Link)
    BY <1>1 DEF ClusterTyped
  <2>2. pairs[looked + 1] \in Link
    BY <2>1
  <2> QED BY <2>2 DEF Link
<1> HIDE DEF a, b, V
<1>4. Forest(Compress(parent, a), rank, V) /\ SameRoots(parent, Compress(parent, a), V)
  BY <1>2, <1>3, CompressKeeps
<1>5. Forest(p, rank, V) /\ SameRoots(Compress(parent, a), p, V)
  BY <1>2, <1>3, <1>4, CompressKeeps
<1>6. \A m \in V : Root(p, m) = Root(parent, m)
  BY <1>4, <1>5 DEF SameRoots
<1> HIDE DEF p
<1>7. RootParts(p, V) /\ RootParts(parent, V)
  BY <1>2, <1>5, RootsKnown
<1>8. x \in V /\ y \in V /\ p[x] = x /\ p[y] = y
  BY <1>3, <1>6, <1>7 DEF RootParts
<1> HIDE DEF x, y
<1>9. CASE x = y
  <2>1. Forest(parent', rank', V) /\ \A m \in V : Root(parent', m) = Root(parent, m)
    BY <1>1, <1>5, <1>6, <1>9
  <2>2. \A m \in V : Root(parent', m) = IF Root(parent, m) = y THEN x ELSE Root(parent, m)
    BY <1>9, <2>1
  <2> QED BY <1>8, <2>1, <2>2 DEF Merged, V, a, b, x, y
<1>10. CASE x # y /\ rank[x] < rank[y]
  <2>1. parent' = [p EXCEPT ![x] = y] /\ rank' = rank
    BY <1>1, <1>10
  <2>2. \A m \in V : (m = y \/ rank[m] = rank[m]) /\ rank[m] >= rank[m]
    BY <1>2
  <2>3. Forest([p EXCEPT ![x] = y], rank, V) /\ RootsMoved(p, [p EXCEPT ![x] = y], y, x, V)
    BY <1>2, <1>5, <1>8, <1>10, <2>2, LinkMoves
  <2>4. \A m \in V : Root(parent', m) = IF Root(parent, m) = x THEN y ELSE Root(parent, m)
    BY <1>6, <2>1, <2>3 DEF RootsMoved
  <2>5. {y, x} = {x, y}
    OBVIOUS
  <2> QED BY <1>8, <2>1, <2>3, <2>4, <2>5 DEF Merged, V, a, b, x, y
<1>11. CASE x # y /\ ~(rank[x] < rank[y])
  <2> DEFINE t == IF rank[x] = rank[y] THEN [rank EXCEPT ![x] = @ + 1] ELSE rank
  <2>1. parent' = [p EXCEPT ![y] = x] /\ rank' = t
    BY <1>1, <1>11
  <2>2. t \in [V -> Nat]
    BY <1>2, <1>8
  <2>3. \A m \in V : (m = x \/ t[m] = rank[m]) /\ t[m] >= rank[m]
    BY <1>2, <1>8
  <2>4. t[y] < t[x]
    BY <1>2, <1>8, <1>11
  <2> HIDE DEF t
  <2>5. Forest([p EXCEPT ![y] = x], t, V) /\ RootsMoved(p, [p EXCEPT ![y] = x], x, y, V)
    BY <1>2, <1>5, <1>8, <1>11, <2>2, <2>3, <2>4, LinkMoves
  <2>6. \A m \in V : Root(parent', m) = IF Root(parent, m) = y THEN x ELSE Root(parent, m)
    BY <1>6, <2>1, <2>5 DEF RootsMoved
  <2> QED BY <1>8, <2>1, <2>5, <2>6 DEF Merged, V, a, b, x, y
<1> QED BY <1>9, <1>10, <1>11 DEF V, a, b

\* A union keeps to what short links join, and joins the ends of its link.
LEMMA UnionJoins ==
  ASSUME ClusterInv, Union
  PROVE  ClusterInv'
<1> DEFINE a == pairs[looked + 1].from
           b == pairs[looked + 1].to
<1>1. /\ looked < Len(pairs) /\ looked' = looked + 1 /\ Short(looked + 1)
      /\ UNCHANGED <<snapshot, pairs, threshold, labels>>
  BY DEF Union, Look
<1>2. labels = <<>>
  BY <1>1 DEF ClusterInv, ClusterTyped
<1>3. Forest(parent', rank', Members) /\ Merged(parent, parent', a, b, Members)
  BY UnionMerges DEF ClusterInv
<1>4. looked + 1 \in 1 .. Len(pairs) /\ pairs \in Seq(Link) /\ looked \in Nat
  BY <1>1 DEF ClusterInv, ClusterTyped
<1>5. a \in Members /\ b \in Members
  <2>1. pairs[looked + 1] \in Link
    BY <1>4
  <2> QED BY <2>1 DEF Link
<1>6. PICK x, y \in Members : /\ {x, y} = {Root(parent, a), Root(parent, b)}
                              /\ \A m \in Members : Root(parent', m) = IF Root(parent, m) = y THEN x ELSE Root(parent, m)
  BY <1>3 DEF Merged
<1> HIDE DEF a, b
<1>7. Members' = Members
  BY <1>1 DEF Members
<1>8. ClusterTyped'
  <2>1. Link' = Link
    BY <1>7 DEF Link
  <2> QED BY <1>1, <1>3, <1>4, <1>7, <2>1 DEF ClusterInv, ClusterTyped
<1>9. RootsWithin'
  <2> SUFFICES ASSUME NEW S \in SUBSET Members, Uncut(S), NEW i \in Members
               PROVE  i \in S <=> Root(parent', i) \in S
    BY <1>1, <1>7 DEF RootsWithin, Uncut, Short
  <2>1. \A m \in Members : m \in S <=> Root(parent, m) \in S
    BY DEF ClusterInv, RootsWithin
  <2>2. a \in S <=> b \in S
    BY <1>1, <1>4 DEF Uncut, a, b
  <2>3. x \in S <=> y \in S
    BY <1>5, <1>6, <2>1, <2>2
  <2> QED BY <1>6, <2>1, <2>3
<1>10. EndsJoined'
  <2> SUFFICES ASSUME NEW k \in 1 .. looked + 1, Short(k)
               PROVE  Root(parent', pairs[k].from) = Root(parent', pairs[k].to)
    BY <1>1 DEF EndsJoined, Short
  <2>1. pairs[k].from \in Members /\ pairs[k].to \in Members
    <3>1. pairs[k] \in Link
      BY <1>1, <1>4
    <3> QED BY <3>1 DEF Link
  <2>2. CASE k = looked + 1
    <3>1. Root(parent', a) = x /\ Root(parent', b) = x
      BY <1>5, <1>6
    <3> QED BY <2>2, <3>1 DEF a, b
  <2>3. CASE k # looked + 1
    <3>1. k \in 1 .. looked
      BY <1>4, <2>3
    <3>2. Root(parent, pairs[k].from) = Root(parent, pairs[k].to)
      BY <3>1 DEF ClusterInv, EndsJoined
    <3> QED BY <1>6, <2>1, <3>2
  <2> QED BY <2>2, <2>3
<1>11. labels' = <<>>
  BY <1>1, <1>2
<1>12. ClustersExact'
  BY <1>11 DEF ClustersExact
<1> QED BY <1>8, <1>9, <1>10, <1>11, <1>12 DEF ClusterInv

\* Long links are passed over.
LEMMA SkipJoins ==
  ASSUME ClusterInv, Skip
  PROVE  ClusterInv'
<1>1. /\ looked < Len(pairs) /\ looked' = looked + 1 /\ ~Short(looked + 1)
      /\ UNCHANGED <<snapshot, pairs, threshold, labels, parent, rank>>
  BY DEF Skip, Look
<1>2. labels = <<>> /\ looked + 1 \in 1 .. Len(pairs)
  BY <1>1 DEF ClusterInv, ClusterTyped
<1>3. Members' = Members
  BY <1>1 DEF Members
<1>4. ClusterTyped'
  <2>1. Link' = Link
    BY <1>3 DEF Link
  <2> QED BY <1>1, <1>2, <1>3, <2>1 DEF ClusterInv, ClusterTyped
<1>5. RootsWithin'
  BY <1>1, <1>3 DEF ClusterInv, RootsWithin, Uncut, Short
<1>6. EndsJoined'
  <2> SUFFICES ASSUME NEW k \in 1 .. looked + 1, Short(k)
               PROVE  Root(parent, pairs[k].from) = Root(parent, pairs[k].to)
    BY <1>1 DEF EndsJoined, Short
  <2>1. k \in 1 .. looked
    BY <1>1 DEF ClusterInv, ClusterTyped
  <2> QED BY <2>1 DEF ClusterInv, EndsJoined
<1>7. labels' = <<>>
  BY <1>1, <1>2
<1>8. ClustersExact'
  BY <1>7 DEF ClustersExact
<1> QED BY <1>4, <1>5, <1>6, <1>7, <1>8 DEF ClusterInv

\* Once all links are looked at, a component is what has one root.
LEMMA ComponentsRooted ==
  ASSUME ClusterInv, looked = Len(pairs), NEW i \in Members
  PROVE  Component(i) = {j \in Members : Root(parent, j) = Root(parent, i)}
<1> DEFINE S == {j \in Members : Root(parent, j) = Root(parent, i)}
<1>1. Uncut(S)
  <2> SUFFICES ASSUME NEW k \in DOMAIN pairs, Short(k) PROVE pairs[k].from \in S <=> pairs[k].to \in S
    BY DEF Uncut
  <2>1. pairs \in Seq(Link) /\ k \in 1 .. looked
    BY DEF ClusterInv, ClusterTyped
  <2>2. pairs[k] \in Link
    BY <2>1
  <2>3. pairs[k].from \in Members /\ pairs[k].to \in Members
    BY <2>2 DEF Link
  <2>4. Root(parent, pairs[k].from) = Root(parent, pairs[k].to)
    BY <2>1 DEF ClusterInv, EndsJoined
  <2> QED BY <2>3, <2>4
<1>2. Component(i) = {j \in Members : \A T \in SUBSET Members : i \in T /\ Uncut(T) => j \in T}
  BY DEF Component, Uncut
<1>3. S \in SUBSET Members /\ i \in S
  OBVIOUS
<1>4. ASSUME NEW j \in S, NEW T \in SUBSET Members, i \in T, Uncut(T) PROVE j \in T
  BY <1>4 DEF ClusterInv, RootsWithin
<1> QED BY <1>1, <1>2, <1>3, <1>4

\* The numbers that Label gives are those of the components in order of appearance.
LEMMA LabelsExact ==
  ASSUME ClusterInv, Label
  PROVE  ClusterInv'
<1> DEFINE root(i) == Root(parent, i)
           members(r) == {i \in Members : root(i) = r}
           kept == {r \in {root(i) : i \in Members} :
                      pairs # <<>> /\ Cardinality(members(r)) >= MinClusterSize}
           first(r) == CHOOSE i \in members(r) : \A j \in members(r) : i <= j
           number(r) == Cardinality({q \in kept : first(q) < first(r)})
           R == {p \in kept \X kept : first(p[1]) < first(p[2])}
<1>1. /\ looked = Len(pairs) /\ labels = <<>> /\ UNCHANGED <<snapshot, pairs, threshold, parent, rank, looked>>
      /\ labels' = [i \in Members |-> IF root(i) \in kept THEN number(root(i)) ELSE -1]
  BY DEF Label
<1>2. Members \subseteq Nat /\ IsFiniteSet(Members) /\ Forest(parent, rank, Members)
  BY SnapshotParts DEF ClusterInv, ClusterTyped
<1>3. \A i \in Members : root(i) \in Members
  BY <1>2, RootsKnown DEF RootParts
<1>4. \A i \in Members : Component(i) = members(root(i))
  BY <1>1, ComponentsRooted
<1> HIDE DEF root
<1>5. ASSUME NEW i \in Members
      PROVE  first(root(i)) \in Members /\ root(first(root(i))) = root(i) /\ first(root(i)) <= i
  <2> DEFINE T == members(root(i))
  <2>1. T \in SUBSET Nat /\ T # {} /\ i \in T
    BY <1>2
  <2> HIDE DEF T
  <2>2. \E x \in T : \A y \in T : x <= y
    BY <2>1, LeastMember
  <2>3. first(root(i)) \in T /\ \A j \in T : first(root(i)) <= j
    BY <2>2 DEF T
  <2> QED BY <2>1, <2>3 DEF T
<1> HIDE DEF first
<1>6. \A r \in kept : first(r) \in Members /\ root(first(r)) = r /\ first(r) \in Nat
  BY <1>2, <1>5
<1>7. IsFiniteSet(kept)
  <2>1. kept \subseteq Members
    BY <1>3
  <2> HIDE DEF kept
  <2> QED BY <1>2, <2>1, FS_Subset
<1>8. \A i \in Members : root(i) \in kept <=> pairs # <<>> /\ Cardinality(members(root(i))) >= MinClusterSize
  OBVIOUS
<1>9. ASSUME NEW i \in Members PROVE Cardinality(members(root(i))) \in Nat
  <2>1. members(root(i)) \subseteq Members
    OBVIOUS
  <2> HIDE DEF members
  <2> QED BY <1>2, <2>1, FS_Subset, FS_CardinalityType
<1>10. \A i, j \in Members : j \in members(root(i)) <=> root(i) = root(j)
  OBVIOUS
<1> HIDE DEF members, kept
<1>11. \A q, r \in kept : <<q, r>> \in R <=> first(q) < first(r)
  OBVIOUS
<1> HIDE DEF R
<1>12. Orders(R, kept)
  BY <1>6, <1>11 DEF Orders
<1>13. \A r \in kept : number(r) = Rank(kept, R, r)
  BY <1>11 DEF Rank
<1>14. /\ \A r \in kept : number(r) \in 0 .. Cardinality(kept) - 1
       /\ \A q, r \in kept : <<q, r>> \in R <=> number(q) < number(r)
       /\ \A q, r \in kept : number(q) = number(r) => q = r
  BY <1>7, <1>12, <1>13, RankGrows
<1>15. Cardinality(kept) \in Nat
  BY <1>7, FS_CardinalityType
<1> HIDE DEF number
<1>16. \A i \in Members : labels'[i] = IF root(i) \in kept THEN number(root(i)) ELSE -1
  BY <1>1
<1>17. ASSUME NEW i \in Members PROVE labels'[i] = -1 <=> root(i) \notin kept
  <2>1. CASE root(i) \in kept
    <3>1. number(root(i)) \in Nat
      BY <1>14, <1>15, <2>1
    <3> QED BY <1>16, <2>1, <3>1
  <2>2. CASE root(i) \notin kept
    BY <1>16, <2>2
  <2> QED BY <2>1, <2>2
<1>18. ASSUME NEW i \in Members
       PROVE  labels'[i] = -1 <=> pairs = <<>> \/ Cardinality(Component(i)) < MinClusterSize
  <2>1. MinClusterSize \in Nat /\ Cardinality(Component(i)) \in Nat
    BY <1>4, <1>9, ClusterConstants
  <2>2. root(i) \notin kept <=> pairs = <<>> \/ ~(Cardinality(Component(i)) >= MinClusterSize)
    BY <1>4, <1>8
  <2> QED BY <1>17, <2>1, <2>2
<1>19. ASSUME NEW i \in Members, NEW j \in Members, labels'[i] # -1
       PROVE  labels'[i] = labels'[j] <=> j \in Component(i)
  <2>1. root(i) \in kept /\ labels'[i] = number(root(i))
    BY <1>16, <1>17, <1>19
  <2>2. ASSUME root(i) = root(j) PROVE labels'[i] = labels'[j]
    BY <1>16, <2>2
  <2>3. ASSUME labels'[i] = labels'[j] PROVE root(i) = root(j)
    <3>1. root(j) \in kept /\ labels'[j] = number(root(j))
      BY <1>16, <1>17, <1>19, <2>3
    <3> QED BY <1>14, <2>1, <2>3, <3>1
  <2> QED BY <1>4, <1>10, <2>2, <2>3
<1>20. ASSUME NEW i \in Members, labels'[i] > 0
       PROVE  \E j \in Members : j < i /\ labels'[j] = labels'[i] - 1
  <2> DEFINE r == root(i)
  <2>1. r \in kept /\ labels'[i] = number(r)
    BY <1>16, <1>20
  <2>2. number(r) - 1 \in 0 .. Cardinality(kept) - 1
    BY <1>14, <1>15, <1>20, <2>1
  <2>3. PICK q \in kept : number(q) = number(r) - 1
    BY <1>7, <1>12, <1>13, <2>2, RanksFilled
  <2>4. number(q) \in Nat /\ number(r) \in Nat
    BY <1>14, <1>15, <2>1, <2>3
  <2>5. <<q, r>> \in R
    BY <1>14, <2>1, <2>3, <2>4
  <2>6. first(q) < first(r) /\ first(q) \in Members /\ root(first(q)) = q
    BY <1>6, <1>11, <2>1, <2>5
  <2>7. first(r) <= i
    BY <1>5
  <2>8. first(q) \in Nat /\ first(r) \in Nat /\ i \in Nat
    BY <1>2, <1>6, <2>1
  <2>9. first(q) < i
    BY <2>6, <2>7, <2>8
  <2>10. labels'[first(q)] = number(q)
    BY <1>16, <2>3, <2>6
  <2> QED BY <2>1, <2>3, <2>6, <2>9, <2>10
<1>21. Members' = Members
  BY <1>1 DEF Members
<1>22. \A i : Component(i)' = Component(i)
  BY <1>1, <1>21 DEF Component, Short
<1>23. ClustersExact'
  BY <1>1, <1>18, <1>19, <1>20, <1>21, <1>22 DEF ClustersExact
<1>24. ClusterTyped'
  <2>1. Link' = Link
    BY <1>21 DEF Link
  <2> QED BY <1>1, <1>21, <2>1 DEF ClusterInv, ClusterTyped
<1>25. RootsWithin' /\ EndsJoined'
  BY <1>1, <1>21 DEF ClusterInv, RootsWithin, EndsJoined, Uncut, Short
<1> QED BY <1>1, <1>23, <1>24, <1>25 DEF ClusterInv

\* A step of a clustering.
LEMMA ClusterStep == ClusterInv /\ [ClusterNext]_clusterVars => ClusterInv'
<1> SUFFICES ASSUME ClusterInv, [ClusterNext]_clusterVars PROVE ClusterInv'
  OBVIOUS
<1>1. CASE Skip
  BY <1>1, SkipJoins
<1>2. CASE Union
  BY <1>2, UnionJoins
<1>3. CASE Label
  BY <1>3, LabelsExact
<1>4. CASE UNCHANGED clusterVars
  <2>1. UNCHANGED <<snapshot, pairs, threshold, parent, rank, looked, labels>>
    BY <1>4 DEF clusterVars
  <2>2. Members' = Members
    BY <2>1 DEF Members
  <2>3. Link' = Link
    BY <2>2 DEF Link
  <2>4. ClusterTyped' /\ RootsWithin' /\ EndsJoined'
    BY <2>1, <2>2, <2>3 DEF ClusterInv, ClusterTyped, RootsWithin, EndsJoined, Uncut, Short
  <2>5. \A i : Component(i)' = Component(i)
    BY <2>1, <2>2 DEF Component, Short
  <2>6. ClustersExact'
    BY <2>1, <2>2, <2>5 DEF ClusterInv, ClustersExact
  <2> QED BY <2>1, <2>4, <2>6 DEF ClusterInv
<1> QED BY <1>1, <1>2, <1>3, <1>4 DEF ClusterNext

\* Two members of a neighborhood get one label exactly when short links
\* connect them; small components are noise and the labels are in order of
\* appearance: union by rank with compressed ways computes the components.
THEOREM ClustersStayExact == ClusterSpec => []ClustersExact
<1>1. ClusterInit => ClusterInv
  BY ClusterStarts
<1>2. ClusterInv /\ [ClusterNext]_clusterVars => ClusterInv'
  BY ClusterStep
<1>3. ClusterInv => ClustersExact
  BY DEF ClusterInv
<1> QED BY <1>1, <1>2, <1>3, PTL DEF ClusterSpec
==============================================================================
