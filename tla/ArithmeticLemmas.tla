--------------------------- MODULE ArithmeticLemmas ---------------------------
(***************************************************************************)
(* Facts about natural numbers: the remainder of a division by a ring's    *)
(* size, for the rings of the pub/sub system, induction over a set of      *)
(* numbers and recursion, for the loops over a vector, and the elements    *)
(* that such a loop keeps.                                                 *)
(***************************************************************************)
EXTENDS Integers, Vectors, SequencesExt, FiniteSetTheorems, WellFoundedInduction, TLAPS

\* Division with remainder.
LEMMA DivMod == ASSUME NEW N \in Nat \ {0}, NEW k \in Nat 
  PROVE \E q \in Nat : k = N * q + (k % N)
<1>1. k \div N \in Nat 
  OBVIOUS
<1>2. k = N * (k \div N) + (k % N)
  OBVIOUS
<1> QED BY <1>1, <1>2

\* A remainder below N is unique.
LEMMA ModUnique == ASSUME NEW N \in Nat \ {0}, NEW q \in Nat, NEW r \in 0 .. N-1
  PROVE (N * q + r) % N = r
  OBVIOUS

\* Advancing a counter advances its ring index.
LEMMA ModSucc == ASSUME NEW N \in Nat \ {0}, NEW k \in Nat
  PROVE (k+1) % N = ((k % N) + 1) % N
<1> DEFINE r == k % N
<1>1. r \in 0 .. N-1
  OBVIOUS
<1>2. PICK q \in Nat : k = N * q + r
  BY DivMod
<1> HIDE DEF r
<1>3. CASE r + 1 < N
  <2>1. r + 1 \in 0 .. N - 1 /\ k + 1 = N * q + (r + 1)
    BY <1>1, <1>2, <1>3
  <2>2. (k + 1) % N = r + 1
    BY <2>1, ModUnique
  <2>3. (r + 1) % N = r + 1
    BY <1>1, <1>3
  <2> QED BY <2>2, <2>3 DEF r
<1>4. CASE r + 1 = N
  <2>1. k + 1 = N * q + N 
    BY <1>1, <1>2, <1>4
  <2>2. N * (q + 1) = N * q + N 
    OBVIOUS
  <2>3. k + 1 = N * (q + 1) + 0 /\ q + 1 \in Nat /\ N * (q + 1) \in Nat
    BY <2>1, <2>2
  <2>4. (k + 1) % N = 0
    <3>1. 0 \in 0 .. N - 1
      OBVIOUS
    <3>2. (N * (q + 1) + 0) % N = 0
      BY <3>1, <2>3, ModUnique
    <3> QED BY <2>3, <3>2
  <2>5. (r + 1) % N = 0
    BY <1>1, <1>4
  <2> QED BY <2>4, <2>5 DEF r
<1> QED BY <1>1, <1>3, <1>4

\* Two counters less than N apart have different ring indices.
LEMMA ModInj == ASSUME NEW N \in Nat \ {0}, NEW i \in Nat, NEW j \in Nat, i < j, j - i < N
  PROVE i % N # j % N
<1> SUFFICES ASSUME i % N = j % N PROVE FALSE
  OBVIOUS
<1> DEFINE r == i % N
<1>1. PICK p \in Nat : i = N * p + r
  BY DivMod
<1>2. PICK q \in Nat : j = N * q + r
  BY DivMod
<1>0. r \in Nat
  OBVIOUS
<1> HIDE DEF r
<1>3. CASE q <= p
  <2>1. N * q <= N * p
    BY <1>3
  <2> QED BY <2>1, <1>1, <1>2, <1>0
<1>4. CASE q >= p + 1
  <2>1. N * q >= N * (p + 1) /\ N * (p + 1) = N * p + N
    BY <1>4
  <2> QED BY <2>1, <1>1, <1>2, <1>0
<1> QED BY <1>3, <1>4

\* One full turn around the ring changes nothing.
LEMMA ModTurn == ASSUME NEW N \in Nat \ {0}, NEW k \in Nat
  PROVE (k + N) % N = k % N
<1>1. PICK q \in Nat : k = N * q + (k % N)
  BY DivMod
<1> DEFINE r == k % N
<1>2. r \in 0 .. N - 1
  OBVIOUS
<1> HIDE DEF r
<1>3. k + N = N * q + N + r
  BY <1>1, <1>2 DEF r
<1>4. N * (q + 1) = N * q + N /\ q + 1 \in Nat
  OBVIOUS
<1>5. (N * (q + 1) + r) % N = r
  BY <1>2, <1>4, ModUnique
<1>6. k + N = N * (q + 1) + r
  BY <1>3, <1>4, <1>2
<1> QED
  BY <1>5, <1>6 DEF r

\* Moving i places on in the ring.
LEMMA ModPlus == ASSUME NEW N \in Nat \ {0}, NEW k \in Nat, NEW i \in Nat
  PROVE ((k % N) + i) % N = (k + i) % N
<1> DEFINE r == k % N
           m == r + i
           t == m % N
<1>1. r \in Nat
  OBVIOUS
<1>2. PICK q \in Nat : k = N * q + r
  BY DivMod
<1> HIDE DEF r
<1>3. m \in Nat /\ t \in 0 .. N - 1
  BY <1>1
<1>4. PICK p \in Nat : m = N * p + t
  BY <1>3, DivMod
<1> HIDE DEF t
<1>5. N * (q + p) = N * q + N * p /\ q + p \in Nat /\ N * q \in Nat /\ N * p \in Nat
  OBVIOUS
<1>6. k + i = N * (q + p) + t
  <2>1. k + i = N * q + m
    BY <1>1, <1>2, <1>5
  <2> HIDE DEF m
  <2> QED
    BY <2>1, <1>3, <1>4, <1>5
<1>7. (k + i) % N = t
  BY <1>3, <1>5, <1>6, ModUnique
<1> QED
  BY <1>7 DEF t, r

\* The distance of two ring indices whose counters are less than N apart.
LEMMA ModDistance == ASSUME NEW N \in Nat \ {0}, NEW k \in Nat, NEW d \in 0 .. N - 1
  PROVE (((k + d) % N) - (k % N) + N) % N = d
<1> DEFINE r == k % N
<1>1. r \in 0 .. N - 1 /\ d \in Nat
  OBVIOUS
<1>2. (k + d) % N = (r + d) % N
  BY <1>1, ModPlus
<1> HIDE DEF r
<1>3. d % N = d /\ (d + N) % N = d % N
  <2>1. d % N = d
    OBVIOUS
  <2>2. (d + N) % N = d % N
    BY <1>1, ModTurn
  <2> QED
    BY <2>1, <2>2
<1>4. CASE r + d < N
  <2>1. (r + d) % N = r + d
    BY <1>1, <1>4
  <2>2. (r + d) - r + N = d + N
    BY <1>1
  <2> QED
    BY <1>2, <1>3, <2>1, <2>2 DEF r
<1>5. CASE r + d >= N
  <2> DEFINE m == r + d - N
  <2>1. m + N = r + d /\ m \in 0 .. N - 1 /\ m \in Nat /\ m - r + N = d
    BY <1>1, <1>5
  <2> HIDE DEF m
  <2>2. (m + N) % N = m % N
    BY <2>1, ModTurn
  <2>3. m % N = m
    BY <2>1
  <2> QED
    BY <1>2, <1>3, <2>1, <2>2, <2>3 DEF r
<1> QED
  BY <1>1, <1>4, <1>5

\* Rows and columns: the numbers 1 .. n * m stand for the places of a table of
\* n rows and m columns.
LEMMA TableRow ==
  ASSUME NEW n \in Nat, NEW m \in Nat \ {0}, NEW k \in 1 .. n * m
  PROVE  ((k - 1) \div m) + 1 \in 1 .. n /\ ((k - 1) % m) + 1 \in 1 .. m
<1> DEFINE q == (k - 1) \div m
           r == (k - 1) % m
<1>0. k \in Nat /\ k - 1 \in Nat /\ k <= n * m /\ n * m \in Int
  OBVIOUS
<1>1. q \in Nat /\ r \in 0 .. m - 1 /\ k - 1 = m * q + r
  BY <1>0
<1> HIDE DEF q, r
<1>2. q < n
  <2> SUFFICES ASSUME q >= n PROVE FALSE
    BY <1>1
  <2>1. m * q >= m * n /\ m * n = n * m
    BY <1>1
  <2> QED
    BY <1>0, <1>1, <2>1
<1>3. q + 1 \in 1 .. n /\ r + 1 \in 1 .. m
  BY <1>1, <1>2
<1> QED
  BY <1>3 DEF q, r

IsPlace(n, m, w, e) == \E k \in 1 .. n * m : ((k - 1) \div m) + 1 = w /\ ((k - 1) % m) + 1 = e

LEMMA TablePlace ==
  ASSUME NEW n \in Nat, NEW m \in Nat \ {0}, NEW w \in 1 .. n, NEW e \in 1 .. m
  PROVE  IsPlace(n, m, w, e)
<1> DEFINE q == w - 1
           r == e - 1
           k == m * q + r + 1
<1>1. q \in Nat /\ q <= n - 1 /\ r \in 0 .. m - 1 /\ w = q + 1 /\ e = r + 1
  OBVIOUS
<1> HIDE DEF q, r
<1>2. m * q \in Nat /\ m * q <= m * (n - 1) /\ m * (n - 1) = m * n - m /\ m * n = n * m
  BY <1>1
<1>3. k \in 1 .. n * m /\ k - 1 = m * q + r
  BY <1>1, <1>2
<1>4. (m * q + r) % m = r /\ (m * q + r) \div m = q
  BY <1>1
<1> HIDE DEF k
<1> QED
  BY <1>1, <1>3, <1>4 DEF IsPlace

-----------------------------------------------------------------------------
\* A set of natural numbers that is not empty has a least element.
LEMMA LeastElement ==
  ASSUME NEW T \in SUBSET Nat, T # {}
  PROVE  \E x \in T : \A y \in T : x <= y
<1> DEFINE R == OpToRel(<, Nat)
<1>1. IsWellFoundedOn(R, Nat)
  BY NatLessThanWellFounded, Zenon
<1> HIDE DEF R
<1>2. \E x \in T : \A y \in T : ~(<<y, x>> \in R)
  BY <1>1, WFMin, Zenon
<1>3. PICK x \in T : \A y \in T : ~(<<y, x>> \in R)
  BY <1>2
<1>4. \A y \in T : y < x => <<y, x>> \in R
  BY DEF R, OpToRel
<1>5. \A y \in T : ~(y < x)
  BY <1>3, <1>4
<1> QED
  BY <1>5

\* Induction: a set of natural numbers with 0 and, with each of its elements,
\* the next number is the set of all of them.
LEMMA SetInduction ==
  ASSUME NEW T \in SUBSET Nat, 0 \in T, \A n \in T : n + 1 \in T
  PROVE  T = Nat
<1> SUFFICES ASSUME Nat \ T # {} PROVE FALSE
  OBVIOUS
<1>1. PICK x \in Nat \ T : \A y \in Nat \ T : x <= y
  BY LeastElement
<1>2. x # 0 /\ x - 1 \in Nat /\ x - 1 \in T
  BY <1>1
<1>3. (x - 1) + 1 \in T
  BY <1>2
<1> QED
  BY <1>1, <1>3

\* A function on 0 .. n may be defined by its first value and by each next one
\* from the one before.
Iterates(n, V, base, next, g) ==
  /\ g \in [0 .. n -> V]
  /\ g[0] = base
  /\ \A k \in 1 .. n : g[k] = next[<<k, g[k - 1]>>]

LEMMA RecursiveFunction ==
  ASSUME NEW n \in Nat, NEW V, NEW base \in V, NEW next \in [(1 .. n) \X V -> V]
  PROVE  \E g : Iterates(n, V, base, next, g)
<1> DEFINE Starts(m, g) == g[0] = base /\ \A k \in 1 .. m : g[k] = next[<<k, g[k - 1]>>]
           T == {m \in Nat : m <= n => \E g \in [0 .. m -> V] : Starts(m, g)}
<1>1. 0 \in T
  <2>1. Starts(0, [k \in 0 .. 0 |-> base])
    OBVIOUS
  <2>2. [k \in 0 .. 0 |-> base] \in [0 .. 0 -> V]
    OBVIOUS
  <2> HIDE DEF Starts
  <2> QED
    BY <2>1, <2>2
<1>2. ASSUME NEW m \in T PROVE m + 1 \in T
  <2>1. m \in Nat /\ m + 1 \in Nat
    OBVIOUS
  <2>2. SUFFICES ASSUME m + 1 <= n PROVE \E g \in [0 .. m + 1 -> V] : Starts(m + 1, g)
    BY <2>1
  <2>3. m <= n /\ m + 1 \in 1 .. n
    BY <2>1, <2>2
  <2>4. PICK g \in [0 .. m -> V] : Starts(m, g)
    BY <2>3
  <2> DEFINE v == next[<<m + 1, g[m]>>]
             h == [k \in 0 .. m + 1 |-> IF k = m + 1 THEN v ELSE g[k]]
  <2>5. v \in V
    <3>1. g[m] \in V
      BY <2>1
    <3>2. <<m + 1, g[m]>> \in (1 .. n) \X V
      BY <3>1, <2>3
    <3> QED
      BY <3>2
  <2>6. \A k \in 0 .. m : k \in 0 .. m + 1 /\ k # m + 1 /\ h[k] = g[k]
    BY <2>1
  <2>7. h[m + 1] = v
    BY <2>1
  <2>8. h \in [0 .. m + 1 -> V]
    <3> HIDE DEF v
    <3>1. \A k \in 0 .. m + 1 : k # m + 1 => k \in 0 .. m
      BY <2>1
    <3> QED
      BY <3>1, <2>5
  <2> HIDE DEF h
  <2>9. h[0] = base
    BY <2>1, <2>4, <2>6
  <2>10. ASSUME NEW k \in 1 .. m + 1 PROVE h[k] = next[<<k, h[k - 1]>>]
    <3>1. CASE k = m + 1
      <4>1. k - 1 = m /\ h[m] = g[m]
        BY <3>1, <2>1, <2>6
      <4> QED
        BY <3>1, <4>1, <2>7
    <3>2. CASE k # m + 1
      <4>1. k \in 1 .. m /\ k \in 0 .. m /\ k - 1 \in 0 .. m
        BY <3>2, <2>1
      <4>2. g[k] = next[<<k, g[k - 1]>>]
        BY <4>1, <2>4
      <4> QED
        BY <4>1, <4>2, <2>6
    <3> QED
      BY <3>1, <3>2
  <2> QED
    BY <2>8, <2>9, <2>10
<1> HIDE DEF Starts
<1>3. T = Nat
  BY <1>1, <1>2, SetInduction
<1>4. n \in T
  BY <1>3
<1>5. n <= n
  OBVIOUS
<1> QED
  BY <1>4, <1>5 DEF Starts, Iterates

-----------------------------------------------------------------------------
(* Elements in order                                                       *)

\* Sorted is a numbering of the elements of a finite set of numbers: an
\* element's place is the number of elements up to it.
LEMMA SortedNumbers ==
  ASSUME NEW n \in Nat, NEW S \in SUBSET (1 .. n)
  PROVE  /\ Cardinality(S) \in Nat
         /\ Sorted(S) \in [1 .. Cardinality(S) -> S]
         /\ \A x \in S : \E k \in 1 .. Cardinality(S) : Sorted(S)[k] = x
         /\ \A j, k \in 1 .. Cardinality(S) : j # k => Sorted(S)[j] # Sorted(S)[k]
<1> DEFINE c == Cardinality(S)
           Upto(x) == {z \in S : z <= x}
           r == [x \in S |-> Cardinality(Upto(x))]
<1>1. IsFiniteSet(S) /\ c \in Nat
  <2>1. IsFiniteSet(1 .. n) /\ S \subseteq 1 .. n
    BY FS_Interval
  <2>2. IsFiniteSet(S)
    BY <2>1, FS_Subset
  <2> QED
    BY <2>2, FS_CardinalityType
<1>0. \A x \in S : x \in Nat
  OBVIOUS
<1>2. \A x \in S : IsFiniteSet(Upto(x)) /\ Cardinality(Upto(x)) \in Nat
  BY <1>1, FS_Subset, FS_CardinalityType
<1>3. ASSUME NEW x \in S PROVE r[x] \in 1 .. c
  <2>1. Upto(x) \subseteq S /\ x \in Upto(x)
    OBVIOUS
  <2>2. Cardinality(Upto(x)) <= c
    BY <2>1, <1>1, FS_Subset
  <2>3. Cardinality(Upto(x)) # 0
    BY <2>1, <1>2, FS_EmptySet
  <2> HIDE DEF Upto
  <2> QED
    BY <2>2, <2>3, <1>2
<1>4. ASSUME NEW x \in S, NEW y \in S, x < y PROVE r[x] # r[y]
  <2>0. \A z \in S : z <= x => z <= y
    BY <1>0, <1>4
  <2>1. Upto(x) \subseteq Upto(y) /\ y \in Upto(y) /\ y \notin Upto(x)
    <3>1. Upto(x) \subseteq Upto(y)
      BY <2>0
    <3>2. y <= y /\ ~(y <= x)
      BY <1>0, <1>4
    <3> QED
      BY <3>1, <3>2
  <2>2. Upto(x) # Upto(y)
    BY <2>1
  <2> HIDE DEF Upto
  <2>3. Cardinality(Upto(x)) < Cardinality(Upto(y))
    BY <2>1, <2>2, <1>2, FS_Subset
  <2> QED
    BY <2>3, <1>2
<1>5. \A x, y \in S : x # y => r[x] # r[y]
  <2>1. \A x, y \in S : x # y => x < y \/ y < x
    OBVIOUS
  <2> HIDE DEF r
  <2> QED
    BY <2>1, <1>4
<1>6. \A k \in 1 .. c : \E x \in S : r[x] = k
  <2>1. r \in [S -> 1 .. c]
    BY <1>3
  <2>2. r \in Injection(S, 1 .. c)
    BY <2>1, <1>5 DEF Injection, IsInjective
  <2>3. IsFiniteSet(1 .. c) /\ Cardinality(1 .. c) = c
    BY <1>1, FS_Interval
  <2> HIDE DEF r
  <2>4. r \in Surjection(S, 1 .. c)
    BY <2>2, <2>3, <1>1, FS_Injection
  <2> QED
    BY <2>4 DEF Surjection
<1> DEFINE f == [k \in 1 .. c |-> CHOOSE x \in S : Cardinality({y \in S : y <= x}) = k]
<1>7. Sorted(S) = f
  BY DEF Sorted
<1>8. \A k \in 1 .. c : f[k] \in S /\ r[f[k]] = k
  BY <1>6
<1>9. f \in [1 .. c -> S]
  BY <1>8
<1> HIDE DEF f, r
<1>10. \A j, k \in 1 .. c : j # k => f[j] # f[k]
  BY <1>8
<1>11. \A x \in S : \E k \in 1 .. c : f[k] = x
  BY <1>3, <1>5, <1>8
<1> QED
  BY <1>1, <1>7, <1>9, <1>10, <1>11

\* What Among leaves of a sequence: the elements at the given places.
LEMMA AmongElements ==
  ASSUME NEW X, NEW seq \in Seq(X), NEW S \in SUBSET DOMAIN seq
  PROVE  /\ Among(seq, S) \in Seq(X)
         /\ ToSet(Among(seq, S)) = {seq[k] : k \in S}
         /\ Among(seq, S) = <<>> <=> S = {}
<1> DEFINE ids == Sorted(S)
           n == Len(seq)
           c == Cardinality(S)
<1>1. n \in Nat /\ DOMAIN seq = 1 .. n /\ \A k \in 1 .. n : seq[k] \in X
  OBVIOUS
<1> HIDE DEF n
<1>2. c \in Nat /\ ids \in [1 .. c -> S] /\ \A x \in S : \E k \in 1 .. c : ids[k] = x
  BY <1>1, SortedNumbers
<1>3. Among(seq, S) = [k \in DOMAIN ids |-> seq[ids[k]]]
  BY DEF Among
<1> HIDE DEF ids, c
<1>4. DOMAIN ids = 1 .. c /\ \A k \in 1 .. c : ids[k] \in S /\ ids[k] \in 1 .. n
  BY <1>1, <1>2
<1>5. DOMAIN Among(seq, S) = 1 .. c /\ \A k \in 1 .. c : Among(seq, S)[k] = seq[ids[k]]
  BY <1>3, <1>4
<1>6. Among(seq, S) \in Seq(X)
  <2>1. \A k \in 1 .. c : seq[ids[k]] \in X
    BY <1>1, <1>4
  <2> QED
    BY <1>2, <1>3, <1>4, <2>1
<1>7. ToSet(Among(seq, S)) = {seq[k] : k \in S}
  <2>1. ToSet(Among(seq, S)) = {Among(seq, S)[k] : k \in 1 .. c}
    BY <1>5, Zenon DEF ToSet
  <2>2. {Among(seq, S)[k] : k \in 1 .. c} = {seq[k] : k \in S}
    BY <1>2, <1>4, <1>5
  <2> QED
    BY <2>1, <2>2
<1>8. Among(seq, S) = <<>> <=> c = 0
  BY <1>2, <1>5, <1>6
<1>9. c = 0 <=> S = {}
  <2>1. IsFiniteSet(1 .. n) /\ S \subseteq 1 .. n
    BY <1>1, FS_Interval
  <2>2. IsFiniteSet(S)
    BY <2>1, FS_Subset
  <2> QED
    BY <2>2, FS_EmptySet DEF c
<1> QED
  BY <1>6, <1>7, <1>8, <1>9
===============================================================================
