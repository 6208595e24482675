---------------------------- MODULE LinesProofs ----------------------------
(***************************************************************************)
(* What the provers need to know of the operators of Lines, and counting   *)
(* facts about the elements of a sequence.                                 *)
(***************************************************************************)
EXTENDS Lines, Integers, FiniteSetTheorems, WellFoundedInduction, TLAPS

(***************************************************************************)
(* a is what remains of s when only the positions in K are kept: its i-th  *)
(* element stood at position p[i].                                         *)
(***************************************************************************)
Selects(a, s, K, p) ==
  /\ p \in [1..Len(a) -> K]
  /\ \A i, j \in 1..Len(a) : i < j => p[i] < p[j]
  /\ \A k \in K : \E i \in 1..Len(a) : p[i] = k
  /\ \A i \in 1..Len(a) : a[i] = s[p[i]]

(***************************************************************************)
(* The filtered queue is a sequence that visits the kept positions, each   *)
(* once, in increasing order (the front-to-back scan of memory.go:134).    *)
(***************************************************************************)
LEMMA FilteredIsOrdered ==
  ASSUME NEW S, NEW s \in Seq(S), NEW K \in SUBSET DOMAIN s, NEW a \in Filtered(s, K)
  PROVE  /\ a \in Seq(S)
         /\ Len(a) = Cardinality(K)
         /\ Len(a) \in Nat
         /\ \E p : Selects(a, s, K, p)
  <1>1. IsFiniteSet(K) /\ Cardinality(K) \in Nat
    <2>1. IsFiniteSet(DOMAIN s)
      <3>1. DOMAIN s = 1..Len(s) /\ Len(s) \in Nat
        OBVIOUS
      <3>2. QED BY <3>1, FS_Interval
    <2>2. QED BY <2>1, FS_Subset, FS_CardinalityType
  <1>2. PICK p \in Enumerations(K) : a = [i \in DOMAIN p |-> s[p[i]]]
    BY DEF Filtered
  <1>3. /\ p \in [1..Cardinality(K) -> K]
        /\ \A i, j \in 1..Cardinality(K) : i < j => p[i] < p[j]
        /\ \A k \in K : \E i \in 1..Cardinality(K) : p[i] = k
    BY DEF Enumerations
  <1>4. a = [i \in 1..Cardinality(K) |-> s[p[i]]]
    BY <1>2, <1>3
  <1>5. \A i \in 1..Cardinality(K) : s[p[i]] \in S
    BY <1>3
  <1>6. a \in Seq(S) /\ Len(a) = Cardinality(K)
    BY <1>1, <1>4, <1>5
  <1>7. \A i \in 1..Cardinality(K) : a[i] = s[p[i]]
    BY <1>4
  <1>8. Selects(a, s, K, p)
    BY <1>3, <1>6, <1>7 DEF Selects
  <1>9. QED BY <1>1, <1>6, <1>8

(***************************************************************************)
(* A sequence without repetitions has as many elements as positions: the   *)
(* first n positions hold n elements.                                      *)
(***************************************************************************)
LEMMA CountDistinct ==
  ASSUME NEW n \in Nat, NEW f, 
         \A i, j \in 1..n : i # j => f[i] # f[j]
  PROVE  /\ IsFiniteSet({f[i] : i \in 1..n})
         /\ Cardinality({f[i] : i \in 1..n}) = n
  <1> DEFINE T == {f[i] : i \in 1..n}
             g == [i \in 1..n |-> f[i]]
  <1>1. g \in Bijection(1..n, T)
    <2>1. g \in [1..n -> T]
      OBVIOUS
    <2>2. \A i, j \in 1..n : g[i] = g[j] => i = j
      OBVIOUS
    <2>3. \A t \in T : \E i \in 1..n : g[i] = t
      OBVIOUS
    <2>4. g \in Injection(1..n, T)
      BY <2>1, <2>2 DEF Injection, IsInjective
    <2>5. g \in Surjection(1..n, T)
      BY <2>1, <2>3 DEF Surjection
    <2>6. QED BY <2>4, <2>5 DEF Bijection
  <1>2. ExistsBijection(1..n, T)
    BY <1>1 DEF ExistsBijection
  <1>3. IsFiniteSet(1..n) /\ Cardinality(1..n) = n
    BY FS_Interval
  <1>4. QED BY <1>2, <1>3, FS_Bijection

(***************************************************************************)
(* An increasing sequence of positions is never ahead of its own index: to *)
(* drop elements from a line only moves the others forward.                *)
(***************************************************************************)
LEMMA IncreasingAbove ==
  ASSUME NEW n \in Nat, NEW p,
         \A i \in 1..n : p[i] \in Nat \ {0},
         \A i, j \in 1..n : i < j => p[i] < p[j],
         NEW m \in 1..n
  PROVE  m <= p[m]
  <1> DEFINE T == {p[i] : i \in 1..m}
  <1>1. m \in Nat /\ \A i \in 1..m : i \in 1..n /\ (i < m \/ i = m)
    OBVIOUS
  <1>2. p[m] \in Nat /\ \A i \in 1..m : p[i] \in 1..p[m]
    BY <1>1
  <1>3. T \subseteq 1..p[m]
    BY <1>2
  <1>4. \A i, j \in 1..m : i # j => p[i] # p[j]
    <2> SUFFICES ASSUME NEW i \in 1..m, NEW j \in 1..m, i < j PROVE p[i] # p[j]
      OBVIOUS
    <2>1. p[i] < p[j] /\ p[i] \in Nat /\ p[j] \in Nat
      BY <1>1
    <2>2. QED BY <2>1
  <1>5. Cardinality(T) = m
    BY <1>1, <1>4, CountDistinct
  <1>6. IsFiniteSet(1..p[m]) /\ Cardinality(1..p[m]) = p[m]
    BY <1>2, FS_Interval
  <1> HIDE DEF T
  <1>7. T \in SUBSET (1..p[m])
    BY <1>3
  <1>8. Cardinality(T) <= Cardinality(1..p[m])
    BY <1>6, <1>7, FS_Subset
  <1>9. QED BY <1>5, <1>6, <1>8

-----------------------------------------------------------------------------
(* Sorting a finite set by a score *)

(***************************************************************************)
(* l lists the members of D by increasing score f, as ZRANGE lists a       *)
(* sorted set of Valkey.                                                   *)
(***************************************************************************)
Sorted(l, D, f) ==
  /\ l \in [1..Cardinality(D) -> D]
  /\ \A i, j \in 1..Cardinality(D) : i < j => f[l[i]] < f[l[j]]

(***************************************************************************)
(* The first elements of a, as many as P has, are the elements of P.       *)
(***************************************************************************)
Leads(P, a) == {a[i] : i \in 1..Cardinality(P)} = P

Rank(x, D, f) == Cardinality({y \in D : f[y] <= f[x]})

(***************************************************************************)
(* A rank is a position, and a higher score has a higher rank.             *)
(***************************************************************************)
LEMMA RankOrder ==
  ASSUME NEW D, IsFiniteSet(D), NEW f \in [D -> Int], NEW x \in D
  PROVE  /\ Rank(x, D, f) \in 1..Cardinality(D)
         /\ \A y \in D : f[x] < f[y] => Rank(x, D, f) < Rank(y, D, f)
  <1> DEFINE B(z) == {y \in D : f[y] <= f[z]}
  <1>1. \A z \in D : /\ IsFiniteSet(B(z))
                     /\ Cardinality(B(z)) \in Nat
                     /\ Cardinality(B(z)) <= Cardinality(D)
    <2> SUFFICES ASSUME NEW z \in D
                 PROVE  /\ IsFiniteSet(B(z)) /\ Cardinality(B(z)) \in Nat
                        /\ Cardinality(B(z)) <= Cardinality(D)
      OBVIOUS
    <2>1. B(z) \in SUBSET D
      OBVIOUS
    <2> HIDE DEF B
    <2>2. QED BY <2>1, FS_Subset, FS_CardinalityType
  <1>2. Cardinality(B(x)) # 0
    <2>1. x \in B(x)
      OBVIOUS
    <2> HIDE DEF B
    <2>2. QED BY <1>1, <2>1, FS_EmptySet
  <1>3. Cardinality(B(x)) \in 1..Cardinality(D)
    <2> HIDE DEF B
    <2>1. Cardinality(D) \in Nat
      BY FS_CardinalityType
    <2>2. QED BY <1>1, <1>2, <2>1
  <1>4. ASSUME NEW y \in D, f[x] < f[y] PROVE Cardinality(B(x)) < Cardinality(B(y))
    <2>1. B(x) \in SUBSET B(y) /\ y \in B(y) /\ y \notin B(x)
      BY <1>4
    <2> HIDE DEF B
    <2>2. Cardinality(B(x)) <= Cardinality(B(y)) /\ Cardinality(B(x)) # Cardinality(B(y))
      BY <1>1, <2>1, FS_Subset
    <2>3. QED BY <1>1, <2>2
  <1>5. QED BY <1>3, <1>4 DEF Rank

(***************************************************************************)
(* A sorted list leaves nobody out.                                        *)
(***************************************************************************)
LEMMA SortedCovers ==
  ASSUME NEW D, IsFiniteSet(D), NEW f \in [D -> Int], NEW l, Sorted(l, D, f)
  PROVE  /\ \A i, j \in 1..Cardinality(D) : i # j => l[i] # l[j]
         /\ \A x \in D : \E i \in 1..Cardinality(D) : l[i] = x
  <1> DEFINE n == Cardinality(D)
             T == {l[i] : i \in 1..n}
  <1>1. n \in Nat
    BY FS_CardinalityType
  <1>2. /\ \A i \in 1..n : l[i] \in D /\ f[l[i]] \in Int
        /\ \A i, j \in 1..n : i < j => f[l[i]] < f[l[j]]
    BY DEF Sorted
  <1> HIDE DEF n
  <1>3. \A i, j \in 1..n : i # j => l[i] # l[j]
    <2> SUFFICES ASSUME NEW i \in 1..n, NEW j \in 1..n, i < j PROVE l[i] # l[j]
      BY <1>1
    <2>1. f[l[i]] < f[l[j]] /\ f[l[i]] \in Int /\ f[l[j]] \in Int
      BY <1>2
    <2>2. QED BY <2>1
  <1>4. Cardinality(T) = n
    BY <1>1, <1>3, CountDistinct
  <1>5. T \in SUBSET D
    BY <1>2
  <1> HIDE DEF T
  <1>6. T = D
    BY <1>4, <1>5, FS_Subset DEF n
  <1>7. QED BY <1>3, <1>6 DEF T, n

(***************************************************************************)
(* In a sorted list everyone stands at its rank.                           *)
(***************************************************************************)
LEMMA SortedRank ==
  ASSUME NEW D, IsFiniteSet(D), NEW f \in [D -> Int], NEW l, Sorted(l, D, f),
         NEW i \in 1..Cardinality(D)
  PROVE  Rank(l[i], D, f) = i
  <1> DEFINE n == Cardinality(D)
             T == {l[j] : j \in 1..i}
  <1>1. n \in Nat /\ i \in Nat /\ i \in 1..n /\ \A j \in 1..i : j \in 1..n
    BY FS_CardinalityType
  <1>2. /\ \A j \in 1..n : l[j] \in D /\ f[l[j]] \in Int
        /\ \A j, k \in 1..n : j < k => f[l[j]] < f[l[k]]
    BY DEF Sorted
  <1>3. /\ \A j, k \in 1..n : j # k => l[j] # l[k]
        /\ \A x \in D : \E j \in 1..n : l[j] = x
    BY SortedCovers
  <1> HIDE DEF n
  <1>4. \A j \in 1..n : f[l[j]] <= f[l[i]] <=> j \in 1..i
    <2> SUFFICES ASSUME NEW j \in 1..n PROVE f[l[j]] <= f[l[i]] <=> j \in 1..i
      OBVIOUS
    <2>1. f[l[j]] \in Int /\ f[l[i]] \in Int /\ j \in Nat /\ 1 <= j
      BY <1>1, <1>2
    <2>2. CASE j < i
      <3>1. f[l[j]] < f[l[i]]
        BY <1>1, <1>2, <2>2
      <3>2. QED BY <1>1, <2>1, <2>2, <3>1
    <2>3. CASE j = i
      BY <1>1, <2>1, <2>3
    <2>4. CASE i < j
      <3>1. f[l[i]] < f[l[j]]
        BY <1>1, <1>2, <2>4
      <3>2. QED BY <1>1, <2>1, <2>4, <3>1
    <2>5. QED BY <1>1, <2>1, <2>2, <2>3, <2>4
  <1>5. {y \in D : f[y] <= f[l[i]]} = T
    <2>1. \A y \in D : f[y] <= f[l[i]] => y \in T
      <3> SUFFICES ASSUME NEW y \in D, f[y] <= f[l[i]] PROVE y \in T
        OBVIOUS
      <3>1. PICK j \in 1..n : l[j] = y
        BY <1>3
      <3>2. j \in 1..i
        BY <1>4, <3>1
      <3>3. QED BY <3>1, <3>2
    <2>2. \A j \in 1..i : l[j] \in D /\ f[l[j]] <= f[l[i]]
      BY <1>1, <1>2, <1>4
    <2>3. QED BY <2>1, <2>2
  <1>6. Cardinality(T) = i
    <2>1. \A j, k \in 1..i : j # k => l[j] # l[k]
      BY <1>1, <1>3
    <2>2. QED BY <1>1, <2>1, CountDistinct
  <1>7. QED BY <1>5, <1>6 DEF Rank

(***************************************************************************)
(* There is at most one sorted list.                                       *)
(***************************************************************************)
LEMMA SortedUnique ==
  ASSUME NEW D, IsFiniteSet(D), NEW f \in [D -> Int],
         \A x, y \in D : x # y => f[x] # f[y],
         NEW l, Sorted(l, D, f), NEW m, Sorted(m, D, f)
  PROVE  l = m
  <1>1. l \in [1..Cardinality(D) -> D] /\ m \in [1..Cardinality(D) -> D]
    BY DEF Sorted
  <1>2. \A i \in 1..Cardinality(D) : l[i] = m[i]
    <2> SUFFICES ASSUME NEW i \in 1..Cardinality(D) PROVE l[i] = m[i]
      OBVIOUS
    <2>1. Rank(l[i], D, f) = i /\ Rank(m[i], D, f) = i /\ i \in Int
      BY SortedRank
    <2>2. l[i] \in D /\ m[i] \in D
      BY <1>1
    <2>3. ~(f[l[i]] < f[m[i]]) /\ ~(f[m[i]] < f[l[i]])
      <3>1. \A x, y \in D : f[x] < f[y] => Rank(x, D, f) < Rank(y, D, f)
        BY RankOrder
      <3>2. f[l[i]] < f[m[i]] => i < i
        BY <2>1, <2>2, <3>1
      <3>3. f[m[i]] < f[l[i]] => i < i
        BY <2>1, <2>2, <3>1
      <3>4. QED BY <2>1, <3>2, <3>3
    <2>4. f[l[i]] \in Int /\ f[m[i]] \in Int
      BY <2>2
    <2>5. QED BY <2>2, <2>3, <2>4
  <1>3. /\ l = [i \in 1..Cardinality(D) |-> l[i]]
        /\ m = [i \in 1..Cardinality(D) |-> m[i]]
    BY <1>1, Zenon
  <1>4. [i \in 1..Cardinality(D) |-> l[i]] = [i \in 1..Cardinality(D) |-> m[i]]
    BY <1>2, Zenon
  <1>5. QED BY <1>3, <1>4, Zenon

(***************************************************************************)
(* There is one: to rank n members with distinct scores fills the          *)
(* positions 1 to n.                                                       *)
(***************************************************************************)
LEMMA SortedExists ==
  ASSUME NEW D, IsFiniteSet(D), NEW f \in [D -> Int],
         \A x, y \in D : x # y => f[x] # f[y]
  PROVE  \E l : Sorted(l, D, f)
  <1> DEFINE n == Cardinality(D)
             r == [x \in D |-> Rank(x, D, f)]
             l == [i \in 1..n |-> CHOOSE x \in D : r[x] = i]
  <1>1. n \in Nat
    BY FS_CardinalityType
  <1>2. \A x \in D : r[x] \in 1..n
    BY RankOrder
  <1>3. \A x, y \in D : f[x] < f[y] => r[x] < r[y]
    BY RankOrder
  <1> HIDE DEF n
  <1>4. r \in [D -> 1..n]
    BY <1>2
  <1> HIDE DEF r
  <1>5. \A x, y \in D : r[x] = r[y] => x = y
    <2> SUFFICES ASSUME NEW x \in D, NEW y \in D, x # y PROVE r[x] # r[y]
      OBVIOUS
    <2>1. f[x] \in Int /\ f[y] \in Int /\ f[x] # f[y] /\ r[x] \in Int /\ r[y] \in Int
      BY <1>1, <1>2
    <2>2. QED BY <1>3, <2>1
  <1>6. r \in Injection(D, 1..n)
    BY <1>4, <1>5 DEF Injection, IsInjective
  <1>7. IsFiniteSet(1..n) /\ Cardinality(1..n) = n
    BY <1>1, FS_Interval
  <1>8. r \in Surjection(D, 1..n)
    BY <1>6, <1>7, FS_Injection DEF n
  <1>9. \A i \in 1..n : \E x \in D : r[x] = i
    BY <1>8 DEF Surjection
  <1>10. \A i \in 1..n : l[i] \in D /\ r[l[i]] = i
    BY <1>9
  <1>11. l \in [1..n -> D]
    BY <1>10
  <1> HIDE DEF l
  <1>12. \A i, j \in 1..n : i < j => f[l[i]] < f[l[j]]
    <2> SUFFICES ASSUME NEW i \in 1..n, NEW j \in 1..n, i < j PROVE f[l[i]] < f[l[j]]
      OBVIOUS
    <2>1. l[i] \in D /\ l[j] \in D /\ r[l[i]] = i /\ r[l[j]] = j
      BY <1>10
    <2>2. f[l[i]] # f[l[j]] /\ f[l[i]] \in Int /\ f[l[j]] \in Int
      BY <2>1
    <2>3. ~(f[l[j]] < f[l[i]])
      BY <1>1, <1>3, <2>1
    <2>4. QED BY <2>2, <2>3
  <1>13. Sorted(l, D, f)
    BY <1>11, <1>12 DEF Sorted, n
  <1>14. QED BY <1>13

(***************************************************************************)
(* A sorted list is a sequence.                                            *)
(***************************************************************************)
LEMMA SortedSeq ==
  ASSUME NEW D, IsFiniteSet(D), NEW f, NEW l, Sorted(l, D, f)
  PROVE  /\ l \in Seq(D)
         /\ Len(l) = Cardinality(D)
         /\ Cardinality(D) \in Nat
         /\ DOMAIN l = 1..Cardinality(D)
  <1>1. Cardinality(D) \in Nat
    BY FS_CardinalityType
  <1>2. l \in [1..Cardinality(D) -> D]
    BY DEF Sorted
  <1>3. QED BY <1>1, <1>2

(***************************************************************************)
(* A finite set of positions has an increasing enumeration.                *)
(***************************************************************************)
LEMMA EnumerationExists ==
  ASSUME NEW K, IsFiniteSet(K), NEW f \in [K -> Int], \A k \in K : f[k] = k
  PROVE  \E p : p \in Enumerations(K)
  <1>1. \A x, y \in K : x # y => f[x] # f[y]
    OBVIOUS
  <1>2. PICK p : Sorted(p, K, f)
    BY <1>1, SortedExists
  <1>3. /\ p \in [1..Cardinality(K) -> K]
        /\ \A i, j \in 1..Cardinality(K) : i < j => f[p[i]] < f[p[j]]
    BY <1>2 DEF Sorted
  <1>4. \A i, j \in 1..Cardinality(K) : i < j => p[i] < p[j]
    BY <1>3
  <1>5. \A k \in K : \E i \in 1..Cardinality(K) : p[i] = k
    BY <1>2, SortedCovers
  <1>6. QED BY <1>3, <1>4, <1>5 DEF Enumerations

(***************************************************************************)
(* Filtering a line always has a result.                                   *)
(***************************************************************************)
LEMMA FilteredExists ==
  ASSUME NEW s, NEW K, K \subseteq Int, IsFiniteSet(K)
  PROVE  \E a : a \in Filtered(s, K)
  <1>1. [k \in K |-> k] \in [K -> Int]
    OBVIOUS
  <1>2. PICK p : p \in Enumerations(K)
    BY <1>1, EnumerationExists
  <1>3. QED BY <1>2 DEF Filtered

(***************************************************************************)
(* Filtering a line has one result.                                        *)
(***************************************************************************)
LEMMA FilteredUnique ==
  ASSUME NEW s, NEW K, K \subseteq Int, IsFiniteSet(K),
         NEW a \in Filtered(s, K), NEW b \in Filtered(s, K)
  PROVE  a = b
  <1> DEFINE f == [k \in K |-> k]
  <1>1. f \in [K -> Int] /\ \A x, y \in K : x # y => f[x] # f[y]
    OBVIOUS
  <1>2. ASSUME NEW p \in Enumerations(K) PROVE Sorted(p, K, f)
    BY DEF Enumerations, Sorted
  <1> HIDE DEF f
  <1>3. PICK p \in Enumerations(K) : a = [i \in DOMAIN p |-> s[p[i]]]
    BY DEF Filtered
  <1>4. PICK q \in Enumerations(K) : b = [i \in DOMAIN q |-> s[q[i]]]
    BY DEF Filtered
  <1>5. p = q
    BY <1>1, <1>2, SortedUnique
  <1>6. QED BY <1>3, <1>4, <1>5

(***************************************************************************)
(* To drop members of a sorted list leaves the others sorted.              *)
(***************************************************************************)
LEMMA FilteredSorted ==
  ASSUME NEW D, IsFiniteSet(D), NEW f \in [D -> Int], NEW l, Sorted(l, D, f),
         NEW G, NEW a \in Filtered(l, {i \in DOMAIN l : l[i] \notin G})
  PROVE  Sorted(a, D \ G, f)
  <1> DEFINE K == {i \in DOMAIN l : l[i] \notin G}
             m == Len(a)
  <1>1. l \in Seq(D) /\ DOMAIN l = 1..Cardinality(D) /\ Cardinality(D) \in Nat
    BY SortedSeq
  <1>2. /\ a \in Seq(D)
        /\ m \in Nat
        /\ \E p : Selects(a, l, K, p)
    <2>1. K \in SUBSET DOMAIN l /\ a \in Filtered(l, K)
      OBVIOUS
    <2> HIDE DEF K
    <2>2. QED BY <1>1, <2>1, FilteredIsOrdered
  <1>3. PICK p : Selects(a, l, K, p)
    BY <1>2
  <1>4. /\ \A i \in 1..m : p[i] \in 1..Cardinality(D) /\ l[p[i]] \notin G /\ a[i] = l[p[i]]
        /\ \A i, j \in 1..m : i < j => p[i] < p[j]
        /\ \A k \in K : \E i \in 1..m : p[i] = k
    BY <1>1, <1>3 DEF Selects
  <1>5. \A i \in 1..m : a[i] \in D \ G /\ f[a[i]] \in Int
    <2>1. \A k \in 1..Cardinality(D) : l[k] \in D
      BY DEF Sorted
    <2>2. \A i \in 1..m : a[i] \in D \ G
      BY <1>4, <2>1
    <2>3. QED BY <2>2
  <1>6. \A i, j \in 1..m : i < j => f[a[i]] < f[a[j]]
    <2>1. \A i, j \in 1..Cardinality(D) : i < j => f[l[i]] < f[l[j]]
      BY DEF Sorted
    <2>2. QED BY <1>4, <2>1
  <1>7. \A i, j \in 1..m : i # j => a[i] # a[j]
    <2> SUFFICES ASSUME NEW i \in 1..m, NEW j \in 1..m, i < j PROVE a[i] # a[j]
      BY <1>2
    <2>1. f[a[i]] < f[a[j]] /\ f[a[i]] \in Int /\ f[a[j]] \in Int
      BY <1>5, <1>6
    <2>2. QED BY <2>1
  <1>8. {a[i] : i \in 1..m} = D \ G
    <2>1. ASSUME NEW x \in D \ G PROVE \E i \in 1..m : a[i] = x
      <3>1. PICK k \in 1..Cardinality(D) : l[k] = x
        BY SortedCovers
      <3>2. k \in K
        BY <1>1, <2>1, <3>1
      <3>3. QED BY <1>4, <3>1, <3>2
    <2>2. QED BY <1>5, <2>1
  <1>9. Cardinality(D \ G) = m
    BY <1>2, <1>7, <1>8, CountDistinct
  <1>10. a \in [1..m -> D \ G]
    <2>1. DOMAIN a = 1..m
      BY <1>2
    <2>2. a = [i \in 1..m |-> a[i]]
      BY <1>2, <2>1
    <2>3. QED BY <1>5, <2>2
  <1>11. QED BY <1>6, <1>9, <1>10 DEF Sorted

(***************************************************************************)
(* To pop the n members of lowest score takes the first n of the sorted    *)
(* list and leaves the rest of it.                                         *)
(***************************************************************************)
LEMMA PopSorted ==
  ASSUME NEW W, IsFiniteSet(W), NEW f \in [W -> Int], NEW a, Sorted(a, W, f),
         NEW P \in SUBSET W, \A x \in P, y \in W \ P : f[x] < f[y]
  PROVE  /\ Leads(P, a)
         /\ Sorted(SubSeq(a, Cardinality(P) + 1, Len(a)), W \ P, f)
  <1> DEFINE m == Cardinality(W)
             n == Cardinality(P)
  <1>0. Cardinality(P) = n
    OBVIOUS
  <1>1. a \in Seq(W) /\ Len(a) = m /\ m \in Nat
    BY SortedSeq
  <1>2. /\ \A i \in 1..m : a[i] \in W /\ f[a[i]] \in Int
        /\ \A i, j \in 1..m : i < j => f[a[i]] < f[a[j]]
    BY DEF Sorted
  <1>3. /\ \A i, j \in 1..m : i # j => a[i] # a[j]
        /\ \A x \in W : \E i \in 1..m : a[i] = x
    BY SortedCovers
  <1>4. IsFiniteSet(P) /\ n \in Nat /\ n <= m
    BY FS_Subset, FS_CardinalityType
  <1> HIDE DEF m, n
  <1>5. \A i \in 1..n : i \in 1..m
    BY <1>1, <1>4
  <1> DEFINE T == {a[i] : i \in 1..n}
  <1>6. T \subseteq P
    <2> SUFFICES ASSUME NEW i \in 1..n, a[i] \notin P PROVE FALSE
      OBVIOUS
    <2> DEFINE U == {a[j] : j \in 1..(i - 1)}
    <2>1. i \in 1..m /\ i - 1 \in Nat /\ a[i] \in W /\ f[a[i]] \in Int
      BY <1>2, <1>5
    <2>2. \A j \in 1..(i - 1) : j \in 1..m
      BY <1>1, <2>1
    <2>3. P \in SUBSET U
      <3> SUFFICES ASSUME NEW x \in P PROVE x \in U
        OBVIOUS
      <3>1. PICK j \in 1..m : a[j] = x
        BY <1>3
      <3>2. f[a[j]] < f[a[i]] /\ f[a[j]] \in Int
        BY <1>2, <2>1, <3>1
      <3>3. ~(i < j) /\ i # j
        BY <1>2, <2>1, <3>2
      <3>4. j \in 1..(i - 1)
        BY <2>1, <3>3
      <3>5. QED BY <3>1, <3>4
    <2>4. IsFiniteSet(U) /\ Cardinality(U) = i - 1
      <3>1. \A j, k \in 1..(i - 1) : j # k => a[j] # a[k]
        BY <1>3, <2>2
      <3>2. QED BY <2>1, <3>1, CountDistinct
    <2> HIDE DEF U
    <2>5. Cardinality(P) <= Cardinality(U)
      BY <2>3, <2>4, FS_Subset
    <2>6. QED BY <1>0, <1>4, <2>1, <2>4, <2>5
  <1>7. Cardinality(T) = n
    <2>1. \A j, k \in 1..n : j # k => a[j] # a[k]
      BY <1>3, <1>5
    <2> HIDE DEF T
    <2>2. Cardinality({a[i] : i \in 1..n}) = n
      BY <1>4, <2>1, CountDistinct
    <2>3. QED BY <2>2 DEF T
  <1>8. T = P
    <2>1. T \in SUBSET P
      BY <1>6
    <2> HIDE DEF T
    <2>2. QED BY <1>0, <1>4, <1>7, <2>1, FS_Subset
  <1> DEFINE b == SubSeq(a, n + 1, Len(a))
  <1>9. /\ Cardinality(W \ P) = m - n
        /\ m - n \in Nat
    <2>1. Cardinality(W \ P) = m - Cardinality(W \cap P)
      BY FS_Difference DEF m
    <2>2. W \cap P = P
      OBVIOUS
    <2>3. Cardinality(W \ P) = m - n
      BY <1>0, <2>1, <2>2
    <2>4. QED BY <1>1, <1>4, <2>3
  <1>10. /\ DOMAIN b = 1..(m - n)
         /\ b = [i \in 1..(m - n) |-> b[i]]
         /\ \A i \in 1..(m - n) : b[i] = a[i + n]
    <2>1. b = [i \in 1..(m - n) |-> a[i + n]]
      BY <1>1, <1>4
    <2> HIDE DEF b
    <2>2. QED BY <2>1
  <1>11. \A i \in 1..(m - n) : i + n \in 1..m /\ i + n \notin 1..n
    BY <1>1, <1>4
  <1>12. \A i \in 1..(m - n) : b[i] \in W \ P
    <2> SUFFICES ASSUME NEW i \in 1..(m - n) PROVE a[i + n] \in W /\ a[i + n] \notin T
      BY <1>8, <1>10
    <2>1. a[i + n] \in W
      BY <1>2, <1>11
    <2>2. \A j \in 1..n : a[j] # a[i + n]
      BY <1>3, <1>5, <1>11
    <2>3. QED BY <2>1, <2>2
  <1> HIDE DEF b
  <1>13. \A i, j \in 1..(m - n) : i < j => f[b[i]] < f[b[j]]
    <2> SUFFICES ASSUME NEW i \in 1..(m - n), NEW j \in 1..(m - n), i < j
                 PROVE  f[a[i + n]] < f[a[j + n]]
      BY <1>10
    <2>1. i + n < j + n
      BY <1>4
    <2>2. QED BY <1>2, <1>11, <2>1
  <1>14. b \in [1..(m - n) -> W \ P]
    BY <1>10, <1>12
  <1>15. Sorted(b, W \ P, f)
    BY <1>9, <1>13, <1>14 DEF Sorted
  <1>16. Leads(P, a)
    BY <1>8 DEF Leads, n
  <1>17. QED BY <1>15, <1>16 DEF b, n

(***************************************************************************)
(* A newcomer with the highest score goes to the end of the sorted list.   *)
(***************************************************************************)
LEMMA AppendSorted ==
  ASSUME NEW D, IsFiniteSet(D), NEW f, NEW l, Sorted(l, D, f), NEW x, x \notin D,
         NEW g, \A y \in D : g[y] = f[y] /\ g[y] < g[x]
  PROVE  Sorted(Append(l, x), D \cup {x}, g)
  <1> DEFINE n == Cardinality(D)
             a == Append(l, x)
  <1>1. l \in Seq(D) /\ Len(l) = n /\ n \in Nat
    BY SortedSeq
  <1>2. /\ \A i \in 1..n : l[i] \in D
        /\ \A i, j \in 1..n : i < j => f[l[i]] < f[l[j]]
    BY DEF Sorted
  <1>3. Cardinality(D \cup {x}) = n + 1
    BY FS_AddElement
  <1> HIDE DEF n
  <1>4. /\ DOMAIN a = 1..(n + 1)
        /\ a = [i \in 1..(n + 1) |-> a[i]]
        /\ a[n + 1] = x
        /\ \A i \in 1..n : a[i] = l[i]
    <2>1. l \in Seq(D \cup {x})
      BY <1>1
    <2>2. a \in Seq(D \cup {x}) /\ Len(a) = n + 1 /\ a[n + 1] = x /\ \A i \in 1..n : a[i] = l[i]
      BY <1>1, <2>1
    <2> HIDE DEF a
    <2>3. QED BY <1>1, <2>2
  <1> HIDE DEF a
  <1>5. a \in [1..(n + 1) -> D \cup {x}]
    <2>1. \A i \in 1..(n + 1) : i \in 1..n \/ i = n + 1
      BY <1>1
    <2>2. \A i \in 1..(n + 1) : a[i] \in D \cup {x}
      BY <1>2, <1>4, <2>1
    <2>3. QED BY <1>4, <2>2
  <1>6. \A i, j \in 1..(n + 1) : i < j => g[a[i]] < g[a[j]]
    <2> SUFFICES ASSUME NEW i \in 1..(n + 1), NEW j \in 1..(n + 1), i < j PROVE g[a[i]] < g[a[j]]
      OBVIOUS
    <2>1. i \in 1..n /\ l[i] \in D /\ a[i] = l[i]
      <3>1. i \in 1..n
        BY <1>1
      <3>2. QED BY <1>2, <1>4, <3>1
    <2>2. CASE j \in 1..n
      <3>1. f[l[i]] < f[l[j]] /\ l[j] \in D /\ a[j] = l[j]
        BY <1>2, <1>4, <2>1, <2>2
      <3>2. QED BY <2>1, <3>1
    <2>3. CASE j = n + 1
      BY <1>4, <2>1, <2>3
    <2>4. QED BY <1>1, <2>2, <2>3
  <1>7. QED BY <1>3, <1>5, <1>6 DEF Sorted, a

(***************************************************************************)
(* One sequence after the other.                                           *)
(***************************************************************************)
LEMMA Concatenated ==
  ASSUME NEW S, NEW u \in Seq(S), NEW z \in Seq(S)
  PROVE  /\ u \o z \in Seq(S)
         /\ Len(u \o z) = Len(u) + Len(z)
         /\ Len(u) \in Nat /\ Len(z) \in Nat
         /\ \A i \in 1..Len(u) + Len(z) : (u \o z)[i] = IF i <= Len(u) THEN u[i] ELSE z[i - Len(u)]
  OBVIOUS

-----------------------------------------------------------------------------
(* Induction *)

(***************************************************************************)
(* Induction as infinite descent: a set of numbers that has a smaller one  *)
(* for each of its numbers has none.                                       *)
(***************************************************************************)
LEMMA Descent ==
  ASSUME NEW T \in SUBSET Nat, \A d \in T : \E e \in T : e < d
  PROVE  T = {}
  <1> SUFFICES ASSUME T # {} PROVE FALSE
    OBVIOUS
  <1> DEFINE R == OpToRel(<, Nat)
  <1>1. IsWellFoundedOn(R, Nat) /\ T \subseteq Nat
    BY NatLessThanWellFounded
  <1>2. \A x, y \in T : <<y, x>> \in R <=> y < x
    BY DEF OpToRel
  <1> HIDE DEF R
  <1>3. PICK x \in T : \A y \in T : ~(<<y, x>> \in R)
    BY <1>1, WFMin
  <1>4. \A y \in T : ~(y < x)
    BY <1>2, <1>3
  <1>5. QED BY <1>4

(***************************************************************************)
(* Induction along 0..n.                                                   *)
(***************************************************************************)
LEMMA Climb ==
  ASSUME NEW n \in Nat, NEW S, 0 \in S, \A k \in 1..n : k - 1 \in S => k \in S
  PROVE  \A k \in 0..n : k \in S
  <1> DEFINE T == {k \in 0..n : k \notin S}
  <1>1. ASSUME NEW k \in T PROVE \E e \in T : e < k
    <2>1. k \in 1..n /\ k - 1 \in 0..n /\ k - 1 < k
      OBVIOUS
    <2>2. k - 1 \in T
      BY <2>1
    <2> HIDE DEF T
    <2>3. QED BY <2>1, <2>2
  <1>2. T \in SUBSET Nat
    OBVIOUS
  <1>3. T = {}
    <2> HIDE DEF T
    <2>1. QED BY <1>1, <1>2, Descent
  <1>4. QED BY <1>3

(***************************************************************************)
(* G[k] makes the k-th value of the one before it; u are the values.       *)
(***************************************************************************)
Makes(G, n, D) == G \in [1..n -> [D -> D]]

Iterates(u, b, G, n, D) ==
  /\ u \in [0..n -> D]
  /\ u[0] = b
  /\ \A k \in 1..n : u[k] = G[k][u[k - 1]]

(***************************************************************************)
(* Primitive recursion: there is a function that starts with b and whose   *)
(* every value is made by G of the one before it.                          *)
(***************************************************************************)
LEMMA Recursion ==
  ASSUME NEW D, NEW b \in D, NEW n \in Nat, NEW G, Makes(G, n, D)
  PROVE  \E u : Iterates(u, b, G, n, D)
  <1> DEFINE Until(m, u) == /\ u \in [0..m -> D] /\ u[0] = b
                            /\ \A k \in 1..m : u[k] = G[k][u[k - 1]]
             S == {m \in 0..n : \E u : Until(m, u)}
  <1>1. 0 \in S
    <2>1. Until(0, [k \in 0..0 |-> b])
      OBVIOUS
    <2> HIDE DEF Until
    <2>2. QED BY <2>1
  <1>2. ASSUME NEW m \in 1..n, m - 1 \in S PROVE m \in S
    <2>1. PICK u : Until(m - 1, u)
      BY <1>2
    <2> DEFINE w == [k \in 0..m |-> IF k = m THEN G[m][u[m - 1]] ELSE u[k]]
    <2>2. m \in Nat /\ m - 1 \in 0..m - 1 /\ 0 \in 0..m - 1 /\ 0 # m /\ 0 \in 0..m
      OBVIOUS
    <2>3. G[m][u[m - 1]] \in D
      BY <2>1, <2>2 DEF Makes
    <2>4. \A k \in 0..m : k # m => k \in 0..m - 1 /\ u[k] \in D
      BY <2>1, <2>2
    <2>5. w \in [0..m -> D] /\ w[0] = b
      BY <2>1, <2>2, <2>3, <2>4
    <2>6. ASSUME NEW k \in 1..m PROVE w[k] = G[k][w[k - 1]]
      <3>1. k \in 0..m /\ k - 1 \in 0..m /\ k - 1 # m
        OBVIOUS
      <3>2. w[k - 1] = u[k - 1]
        BY <3>1
      <3>3. CASE k = m
        BY <3>1, <3>2, <3>3
      <3>4. CASE k # m
        <4>1. k \in 1..m - 1 /\ w[k] = u[k]
          BY <3>1, <3>4
        <4>2. u[k] = G[k][u[k - 1]]
          BY <2>1, <4>1
        <4> HIDE DEF w
        <4>3. QED BY <3>2, <4>1, <4>2
      <3>5. QED BY <3>3, <3>4
    <2>7. Until(m, w)
      BY <2>5, <2>6
    <2> HIDE DEF Until, w
    <2>8. QED BY <2>7
  <1>3. n \in S
    <2> HIDE DEF S
    <2>1. n \in 0..n
      OBVIOUS
    <2>2. QED BY <1>1, <1>2, <2>1, Climb
  <1>4. PICK u : Until(n, u)
    BY <1>3
  <1>5. Iterates(u, b, G, n, D)
    BY <1>4 DEF Iterates
  <1>6. QED BY <1>5
=============================================================================
