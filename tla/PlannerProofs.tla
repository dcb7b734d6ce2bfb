----------------------------- MODULE PlannerProofs -----------------------------
(***************************************************************************)
(* Proofs about Pepper_Planner: the operations on epistemic states, the    *)
(* comparison of states and the search for a policy.                       *)
(***************************************************************************)
EXTENDS Bisimulation, PolicySearch, ArithmeticLemmas, FiniteSetTheorems, TLAPS

-----------------------------------------------------------------------------
(* Elements in order                                                       *)

\* The numbers from 1 on are their own places.
LEMMA SortedAll == ASSUME NEW n \in Nat PROVE Sorted(1 .. n) = [k \in 1 .. n |-> k]
<1>1. Cardinality(1 .. n) = n
  BY FS_Interval
<1>2. ASSUME NEW x \in 1 .. n PROVE Cardinality({y \in 1 .. n : y <= x}) = x
  <2>1. {y \in 1 .. n : y <= x} = 1 .. x
    OBVIOUS
  <2>2. Cardinality(1 .. x) = x
    BY FS_Interval
  <2> QED
    BY <2>1, <2>2
<1> DEFINE c(x) == Cardinality({y \in 1 .. n : y <= x})
<1>3. \A x \in 1 .. n : c(x) = x
  BY <1>2
<1>4. Sorted(1 .. n) = [k \in 1 .. n |-> CHOOSE x \in 1 .. n : c(x) = k]
  BY <1>1 DEF Sorted
<1> HIDE DEF c
<1>5. \A k \in 1 .. n : (CHOOSE x \in 1 .. n : c(x) = k) = k
  BY <1>3
<1> QED
  BY <1>4, <1>5

-----------------------------------------------------------------------------
(* What an agent reaches                                                   *)

IsClosed(s, i, C) == \A w \in C, v \in DOMAIN s.worlds : <<w, v>> \in s.rel[i] => v \in C

IsClosure(s, i, W, R) ==
  /\ W \subseteq R /\ R \subseteq DOMAIN s.worlds
  /\ IsClosed(s, i, R)
  /\ \A C \in SUBSET DOMAIN s.worlds : W \subseteq C /\ IsClosed(s, i, C) => R \subseteq C

\* Reach is the smallest set of worlds that holds W and is closed for the
\* agent: a step that adds nothing ends it, and there are at most as many
\* others as worlds.
LEMMA ReachIsClosure ==
  ASSUME NEW s, NEW i, Len(s.worlds) \in Nat, DOMAIN s.worlds = 1 .. Len(s.worlds), NEW W \in SUBSET DOMAIN s.worlds
  PROVE  IsClosure(s, i, W, Reach(s, i, W))
<1>a. PICK n \in Nat : Len(s.worlds) = n /\ DOMAIN s.worlds = 1 .. n /\ W \in SUBSET (1 .. n)
  OBVIOUS
<1> USE <1>a
<1> DEFINE D == 1 .. n
           After(P) == P \cup {v \in D : \E w \in P : <<w, v>> \in s.rel[i]}
           Loop(g) == g = [k \in 0 .. n |-> IF k = 0 THEN W ELSE After(g[k - 1])]
           next == [x \in (1 .. n) \X SUBSET D |-> After(x[2])]
<1>0. \A P \in SUBSET D : After(P) \in SUBSET D /\ P \subseteq After(P)
  OBVIOUS
<1> HIDE DEF After
<1>1. next \in [(1 .. n) \X SUBSET D -> SUBSET D]
  BY <1>0
<1>2. \A k \in 1 .. n, P \in SUBSET D : next[<<k, P>>] = After(P)
  OBVIOUS
<1> HIDE DEF next
<1>3. \E g : Iterates(n, SUBSET D, W, next, g)
  BY <1>1, RecursiveFunction
<1>4. PICK g \in [0 .. n -> SUBSET D] : g[0] = W /\ \A k \in 1 .. n : g[k] = next[<<k, g[k - 1]>>]
  BY <1>3 DEF Iterates
<1>5. \A k \in 1 .. n : g[k] = After(g[k - 1])
  <2>1. \A k \in 1 .. n : k - 1 \in 0 .. n
    OBVIOUS
  <2> QED
    BY <1>2, <1>4, <2>1
<1>6. Loop(g)
  <2>1. \A k \in 0 .. n : k # 0 => k \in 1 .. n
    OBVIOUS
  <2>2. \A k \in 0 .. n : g[k] = IF k = 0 THEN W ELSE After(g[k - 1])
    BY <2>1, <1>4, <1>5
  <2> QED
    BY <2>2
<1> DEFINE step == CHOOSE h : Loop(h)
<1>7. Loop(step)
  BY <1>6
<1>8. Reach(s, i, W) = step[n]
  BY DEF Reach, After
<1> HIDE DEF step
<1>9. step[0] = W /\ \A k \in 1 .. n : step[k] = After(step[k - 1])
  BY <1>7
<1>10. \A k \in 1 .. n : k - 1 \in 0 .. n /\ k \in 0 .. n
  OBVIOUS
<1> HIDE DEF Loop
<1>11. IsFiniteSet(D) /\ Cardinality(D) = n
  BY FS_Interval
<1>12. \A P \in SUBSET D : IsFiniteSet(P) /\ Cardinality(P) \in Nat
  BY <1>11, FS_Subset, FS_CardinalityType
<1>13. \A P, Q \in SUBSET D : P \subseteq Q /\ P # Q => Cardinality(P) < Cardinality(Q)
  <2>1. SUFFICES ASSUME NEW P \in SUBSET D, NEW Q \in SUBSET D, P \subseteq Q, P # Q
                 PROVE  Cardinality(P) < Cardinality(Q)
    OBVIOUS
  <2>2. IsFiniteSet(Q) /\ Cardinality(P) \in Nat /\ Cardinality(Q) \in Nat
    BY <1>12
  <2>3. Cardinality(P) <= Cardinality(Q) /\ (Cardinality(P) = Cardinality(Q) => P = Q)
    BY <2>1, <2>2, FS_Subset
  <2> QED
    BY <2>1, <2>2, <2>3
<1> HIDE DEF D
<1> DEFINE Full(k) == After(step[k]) = step[k] \/ Cardinality(step[k]) >= k
           T == {k \in Nat : k <= n => W \subseteq step[k] /\ step[k] \in SUBSET D /\ Full(k)}
<1>14. 0 \in T
  <2>1. step[0] = W /\ W \in SUBSET D
    BY <1>9 DEF D
  <2>2. Cardinality(step[0]) >= 0
    BY <2>1, <1>12
  <2> QED
    BY <2>1, <2>2
<1>15. ASSUME NEW k \in T PROVE k + 1 \in T
  <2>1. k \in Nat /\ k + 1 \in Nat
    OBVIOUS
  <2>2. SUFFICES ASSUME k + 1 <= n
                 PROVE  W \subseteq step[k + 1] /\ step[k + 1] \in SUBSET D /\ Full(k + 1)
    BY <2>1
  <2>3. k <= n /\ k + 1 \in 1 .. n /\ (k + 1) - 1 = k
    BY <2>1, <2>2
  <2>4. W \subseteq step[k] /\ step[k] \in SUBSET D /\ Full(k)
    BY <2>3
  <2>5. step[k + 1] = After(step[k])
    BY <2>3, <1>9
  <2>6. step[k] \subseteq After(step[k]) /\ After(step[k]) \in SUBSET D
    BY <2>4, <1>0
  <2>7. Full(k + 1)
    <3>1. CASE After(step[k]) = step[k]
      BY <3>1, <2>5
    <3>2. CASE After(step[k]) # step[k]
      <4>1. Cardinality(step[k]) < Cardinality(step[k + 1])
        BY <3>2, <2>4, <2>5, <2>6, <1>13
      <4>2. Cardinality(step[k]) \in Nat /\ Cardinality(step[k + 1]) \in Nat
        BY <2>4, <2>5, <2>6, <1>12
      <4> QED
        BY <4>1, <4>2, <3>2, <2>1, <2>4
    <3> QED
      BY <3>1, <3>2
  <2> HIDE DEF Full
  <2> QED
    BY <2>4, <2>5, <2>6, <2>7
<1>16. T = Nat
  <2> HIDE DEF Full
  <2>1. T \in SUBSET Nat
    OBVIOUS
  <2> HIDE DEF T
  <2> QED
    BY <1>14, <1>15, <2>1, SetInduction
<1>17. W \subseteq step[n] /\ step[n] \in SUBSET D /\ Full(n)
  BY <1>16
<1>18. After(step[n]) = step[n]
  <2>1. CASE Cardinality(step[n]) >= n
    <3>1. step[n] = D
      BY <2>1, <1>11, <1>13, <1>17, <1>12
    <3> QED
      BY <3>1, <1>0, <1>17
  <2> QED
    BY <2>1, <1>17
<1>19. IsClosed(s, i, step[n])
  BY <1>18 DEF IsClosed, After, D
<1>20. ASSUME NEW C \in SUBSET D, W \subseteq C, IsClosed(s, i, C) PROVE step[n] \subseteq C
  <2> DEFINE U == {k \in Nat : k <= n => step[k] \subseteq C}
  <2>1. 0 \in U
    BY <1>9, <1>20
  <2>2. ASSUME NEW k \in U PROVE k + 1 \in U
    <3>1. SUFFICES ASSUME k + 1 <= n PROVE step[k + 1] \subseteq C
      OBVIOUS
    <3>2. k \in Nat /\ k <= n /\ k + 1 \in 1 .. n /\ (k + 1) - 1 = k
      BY <3>1
    <3>3. step[k + 1] = After(step[k]) /\ step[k] \subseteq C
      BY <3>2, <1>9
    <3> QED
      BY <3>3, <1>20 DEF After, IsClosed, D
  <2>3. U = Nat
    BY <2>1, <2>2, SetInduction
  <2> QED
    BY <2>3
<1> QED
  BY <1>a, <1>8, <1>17, <1>19, <1>20 DEF D, IsClosure

-----------------------------------------------------------------------------
(* The comparison of states                                                *)

Worlds == DOMAIN MergedWorlds
Second(v) == v + Len(s1.worlds)   \* a world of s2 in the merged list

\* blocks is a partition of the worlds that are not pending, world_to_block
\* tells a world's block, and the pending worlds come from one block.
Partitioned ==
  /\ IsState(s1) /\ IsState(s2)
  /\ blocks \in Seq(Seq(Worlds))
  /\ pending \in Seq(Worlds)
  /\ world_to_block \in [Worlds -> DOMAIN blocks]
  /\ \A b \in DOMAIN blocks : blocks[b] # <<>>
  /\ \A b \in DOMAIN blocks, w \in Worlds :
       w \in ToSet(blocks[b]) <=> world_to_block[w] = b /\ w \notin ToSet(pending)
  /\ \A w, v \in ToSet(pending) : world_to_block[w] = world_to_block[v]

\* The worlds of a block have the same propositions.
BlocksAlike == \A w, v \in Worlds : world_to_block[w] = world_to_block[v] => MergedWorlds[w] = MergedWorlds[v]

\* Bisimilar worlds stay together.
BisimilarTogether ==
  \A p \in Largest(s1, s2) :
    /\ world_to_block[p[1]] = world_to_block[Second(p[2])]
    /\ p[1] \in ToSet(pending) <=> Second(p[2]) \in ToSet(pending)

\* While a round has changed nothing, the blocks it has passed are uniform.
RoundSound ==
  /\ pos \in Nat \ {0} /\ upto \in Nat /\ upto <= Len(blocks)
  /\ changed \in BOOLEAN /\ dangling \in BOOLEAN
  /\ pending # <<>> => changed /\ answer = "none"
  /\ ~changed => /\ ~dangling /\ upto = Len(blocks)
                 /\ \A b \in DOMAIN blocks : b < pos => \A w, v \in ToSet(blocks[b]) : RelationsEqual(w, v)
  /\ answer \in {"none", "undefined", "bisimilar", "different"}
  /\ Answered => ~changed /\ pos > upto /\ (answer = "bisimilar" <=> BlocksMatch)

BisimInv == Partitioned /\ BlocksAlike /\ BisimilarTogether /\ RoundSound

\* The merged list of worlds.
LEMMA MergedFacts ==
  ASSUME IsState(s1), IsState(s2)
  PROVE  /\ Len(s1.worlds) \in Nat /\ Len(s2.worlds) \in Nat
         /\ DOMAIN s1.worlds = 1 .. Len(s1.worlds) /\ DOMAIN s2.worlds = 1 .. Len(s2.worlds)
         /\ Worlds = 1 .. Len(s1.worlds) + Len(s2.worlds)
         /\ \A w \in DOMAIN s1.worlds : w \in Worlds /\ From1(w) /\ MergedWorlds[w] = s1.worlds[w]
         /\ \A v \in DOMAIN s2.worlds :
              /\ Second(v) \in Worlds /\ ~From1(Second(v)) /\ MergedWorlds[Second(v)] = s2.worlds[v]
              /\ Second(v) - Len(s1.worlds) = v
         /\ \A x \in Worlds : From1(x) => x \in DOMAIN s1.worlds
         /\ \A x \in Worlds : ~From1(x) => \E v \in DOMAIN s2.worlds : x = Second(v)
         /\ \A x \in Worlds : MergedWorlds[x] \in SUBSET Props
<1> DEFINE a == s1.worlds
           b == s2.worlds
           m == Len(a)
           n == Len(b)
<1>1. a \in Seq(SUBSET Props) /\ b \in Seq(SUBSET Props)
  BY DEF IsState
<1>2. MergedWorlds = a \o b
  BY DEF MergedWorlds
<1> HIDE DEF a, b
<1>3. m \in Nat /\ n \in Nat /\ DOMAIN a = 1 .. m /\ DOMAIN b = 1 .. n
  BY <1>1
<1>4. a \o b \in Seq(SUBSET Props) /\ Len(a \o b) = m + n
  BY <1>1
<1>5. DOMAIN (a \o b) = 1 .. m + n /\ \A x \in 1 .. m + n : (a \o b)[x] \in SUBSET Props
  BY <1>4
<1>6. \A w \in 1 .. m : (a \o b)[w] = a[w]
  BY <1>1
<1>7. \A v \in 1 .. n : (a \o b)[v + m] = b[v]
  BY <1>1
<1> HIDE DEF m, n
<1>8. \A w \in 1 .. m : w \in 1 .. m + n /\ w <= m
  BY <1>3
<1>9. \A v \in 1 .. n : v + m \in 1 .. m + n /\ ~(v + m <= m) /\ (v + m) - m = v
  BY <1>3
<1>10. \A x \in 1 .. m + n : x <= m => x \in 1 .. m
  BY <1>3
<1>11. \A x \in 1 .. m + n : ~(x <= m) => x - m \in 1 .. n /\ x = (x - m) + m
  BY <1>3
<1>12. \A x : From1(x) <=> x <= m
  BY DEF From1, m, a
<1>13. \A v : Second(v) = v + m
  BY DEF Second, m, a
<1>14. Worlds = 1 .. m + n
  BY <1>2, <1>5 DEF Worlds
<1>15. \A w \in DOMAIN a : w \in Worlds /\ From1(w) /\ MergedWorlds[w] = a[w]
  BY <1>2, <1>3, <1>6, <1>8, <1>12, <1>14
<1>16. \A v \in DOMAIN b : Second(v) \in Worlds /\ ~From1(Second(v)) /\ MergedWorlds[Second(v)] = b[v] /\ Second(v) - m = v
  BY <1>2, <1>3, <1>7, <1>9, <1>12, <1>13, <1>14
<1>17. \A x \in Worlds : From1(x) => x \in DOMAIN a
  BY <1>3, <1>10, <1>12, <1>14
<1>18. \A x \in Worlds : ~From1(x) => \E v \in DOMAIN b : x = Second(v)
  BY <1>3, <1>11, <1>12, <1>13, <1>14
<1>19. \A x \in Worlds : MergedWorlds[x] \in SUBSET Props
  BY <1>2, <1>5, <1>14
<1> QED
  BY <1>3, <1>14, <1>15, <1>16, <1>17, <1>18, <1>19 DEF m, n, a, b

\* The merged relations.
LEMMA SuccessorFacts ==
  ASSUME IsState(s1), IsState(s2), NEW i \in Agents
  PROVE  /\ \A w \in Worlds : Successors(i, w) \subseteq Worlds
         /\ \A w \in DOMAIN s1.worlds : \A x : x \in Successors(i, w) <=> <<w, x>> \in s1.rel[i]
         /\ \A v \in DOMAIN s2.worlds : \A y : y \in Successors(i, Second(v)) <=>
              \E u \in DOMAIN s2.worlds : y = Second(u) /\ <<v, u>> \in s2.rel[i]
<1>1. s1.rel[i] \subseteq (DOMAIN s1.worlds) \X (DOMAIN s1.worlds)
  BY DEF IsState
<1>2. \A w \in DOMAIN s1.worlds : From1(w) /\ w \in Worlds
  BY MergedFacts
<1>3. \A v \in DOMAIN s2.worlds : Second(v) \in Worlds /\ ~From1(Second(v)) /\ Second(v) - Len(s1.worlds) = v
  BY MergedFacts
<1>4. \A x \in Worlds : ~From1(x) => \E v \in DOMAIN s2.worlds : x = Second(v)
  BY MergedFacts
<1>5. \A w \in Worlds : Successors(i, w) \subseteq Worlds
  BY <1>2 DEF Successors, Worlds
<1>6. ASSUME NEW w \in DOMAIN s1.worlds, NEW x PROVE x \in Successors(i, w) <=> <<w, x>> \in s1.rel[i]
  <2>1. From1(w)
    BY <1>2
  <2> QED
    BY <1>1, <2>1 DEF Successors
<1>7. ASSUME NEW v \in DOMAIN s2.worlds, NEW y
      PROVE  y \in Successors(i, Second(v)) <=> \E u \in DOMAIN s2.worlds : y = Second(u) /\ <<v, u>> \in s2.rel[i]
  <2>1. ~From1(Second(v)) /\ Second(v) - Len(s1.worlds) = v
    BY <1>3
  <2>2. y \in Successors(i, Second(v)) <=> y \in Worlds /\ ~From1(y) /\ <<v, y - Len(s1.worlds)>> \in s2.rel[i]
    BY <2>1 DEF Successors, Worlds
  <2> QED
    BY <2>2, <1>3, <1>4
<1> QED
  BY <1>5, <1>6, <1>7

\* Largest is a bisimulation and holds all others.
LEMMA LargestFacts ==
  ASSUME NEW s, NEW t
  PROVE  /\ Largest(s, t) \subseteq (DOMAIN s.worlds) \X (DOMAIN t.worlds)
         /\ IsBisimulation(s, t, Largest(s, t))
         /\ \A R \in SUBSET ((DOMAIN s.worlds) \X (DOMAIN t.worlds)) : IsBisimulation(s, t, R) => R \subseteq Largest(s, t)
<1> DEFINE alike == {p \in (DOMAIN s.worlds) \X (DOMAIN t.worlds) : s.worlds[p[1]] = t.worlds[p[2]]}
<1>1. Largest(s, t) = UNION {R \in SUBSET alike : IsBisimulation(s, t, R)}
  BY DEF Largest
<1>2. Largest(s, t) \subseteq (DOMAIN s.worlds) \X (DOMAIN t.worlds)
  BY <1>1
<1>3. ASSUME NEW R \in SUBSET ((DOMAIN s.worlds) \X (DOMAIN t.worlds)), IsBisimulation(s, t, R)
      PROVE  R \subseteq Largest(s, t)
  <2>1. \A p \in R : s.worlds[p[1]] = t.worlds[p[2]]
    BY <1>3 DEF IsBisimulation
  <2>2. R \in SUBSET alike
    BY <2>1
  <2> HIDE DEF alike
  <2> QED
    BY <1>1, <1>3, <2>2
<1>4. IsBisimulation(s, t, Largest(s, t))
  <2>1. SUFFICES ASSUME NEW p \in Largest(s, t)
                 PROVE  /\ s.worlds[p[1]] = t.worlds[p[2]]
                        /\ \A i \in Agents :
                             /\ \A q \in s.rel[i] : q[1] = p[1] => \E u \in t.rel[i] : u[1] = p[2] /\ <<q[2], u[2]>> \in Largest(s, t)
                             /\ \A u \in t.rel[i] : u[1] = p[2] => \E q \in s.rel[i] : q[1] = p[1] /\ <<q[2], u[2]>> \in Largest(s, t)
    BY DEF IsBisimulation
  <2> HIDE DEF alike
  <2>2. PICK R \in SUBSET alike : IsBisimulation(s, t, R) /\ p \in R
    BY <1>1
  <2>3. R \subseteq Largest(s, t)
    BY <1>1, <2>2
  <2> QED
    BY <2>2, <2>3 DEF IsBisimulation
<1> QED
  BY <1>2, <1>3, <1>4

\* Bisimilar worlds reach the same blocks.
LEMMA BisimilarReach ==
  ASSUME IsState(s1), IsState(s2), BisimilarTogether, NEW p \in Largest(s1, s2)
  PROVE  RelationsEqual(p[1], Second(p[2]))
<1>1. /\ p \in (DOMAIN s1.worlds) \X (DOMAIN s2.worlds) /\ p[1] \in DOMAIN s1.worlds /\ p[2] \in DOMAIN s2.worlds
      /\ IsBisimulation(s1, s2, Largest(s1, s2))
  BY LargestFacts
<1>2. SUFFICES ASSUME NEW i \in Agents
               PROVE  {world_to_block[x] : x \in Successors(i, p[1])} = {world_to_block[x] : x \in Successors(i, Second(p[2]))}
  BY DEF RelationsEqual
<1> DEFINE A == Successors(i, p[1])
           B == Successors(i, Second(p[2]))
<1>r. s1.rel[i] \subseteq (DOMAIN s1.worlds) \X (DOMAIN s1.worlds) /\ s2.rel[i] \subseteq (DOMAIN s2.worlds) \X (DOMAIN s2.worlds)
  BY DEF IsState
<1>3. \A x : x \in A <=> <<p[1], x>> \in s1.rel[i]
  BY <1>1, SuccessorFacts
<1>4. \A y : y \in B <=> \E u \in DOMAIN s2.worlds : y = Second(u) /\ <<p[2], u>> \in s2.rel[i]
  BY <1>1, SuccessorFacts
<1>5. /\ \A q \in s1.rel[i] : q[1] = p[1] => \E u \in s2.rel[i] : u[1] = p[2] /\ <<q[2], u[2]>> \in Largest(s1, s2)
      /\ \A u \in s2.rel[i] : u[1] = p[2] => \E q \in s1.rel[i] : q[1] = p[1] /\ <<q[2], u[2]>> \in Largest(s1, s2)
  BY <1>1 DEF IsBisimulation
<1>6. \A x, y : <<x, y>> \in Largest(s1, s2) => world_to_block[x] = world_to_block[Second(y)]
  BY DEF BisimilarTogether
<1> HIDE DEF A, B
<1>7. ASSUME NEW x \in A PROVE \E y \in B : world_to_block[x] = world_to_block[y]
  <2>1. <<p[1], x>> \in s1.rel[i]
    BY <1>3
  <2>2. PICK u \in s2.rel[i] : u[1] = p[2] /\ <<x, u[2]>> \in Largest(s1, s2)
    BY <2>1, <1>5
  <2>3. u = <<p[2], u[2]>> /\ u[2] \in DOMAIN s2.worlds
    BY <1>r, <2>2
  <2>4. Second(u[2]) \in B
    BY <2>3, <1>4
  <2> QED
    BY <2>2, <2>4, <1>6
<1>8. ASSUME NEW y \in B PROVE \E x \in A : world_to_block[x] = world_to_block[y]
  <2>1. PICK v \in DOMAIN s2.worlds : y = Second(v) /\ <<p[2], v>> \in s2.rel[i]
    BY <1>4
  <2>2. PICK q \in s1.rel[i] : q[1] = p[1] /\ <<q[2], v>> \in Largest(s1, s2)
    BY <2>1, <1>5
  <2>3. q = <<p[1], q[2]>>
    BY <1>r, <2>2
  <2>4. q[2] \in A
    BY <2>3, <1>3
  <2> QED
    BY <2>1, <2>2, <2>4, <1>6
<1> QED
  BY <1>7, <1>8 DEF A, B

Equals(seq) == {k \in DOMAIN seq : RelationsEqual(seq[1], seq[k])}

\* The two parts of a list of worlds: those equal to its first, and the rest.
LEMMA SplitBlock ==
  ASSUME NEW X, NEW seq \in Seq(X), seq # <<>>
  PROVE  /\ Among(seq, Equals(seq)) \in Seq(X) /\ Among(seq, Equals(seq)) # <<>>
         /\ Among(seq, (DOMAIN seq) \ Equals(seq)) \in Seq(X)
         /\ ToSet(Among(seq, Equals(seq))) = {w \in ToSet(seq) : RelationsEqual(seq[1], w)}
         /\ ToSet(Among(seq, (DOMAIN seq) \ Equals(seq))) = {w \in ToSet(seq) : ~RelationsEqual(seq[1], w)}
         /\ (Among(seq, (DOMAIN seq) \ Equals(seq)) = <<>>) <=> \A w \in ToSet(seq) : RelationsEqual(seq[1], w)
<1> DEFINE D == DOMAIN seq
           E == Equals(seq)
<1>1. 1 \in D
  OBVIOUS
<1>2. RelationsEqual(seq[1], seq[1])
  BY DEF RelationsEqual
<1>3. \A k \in D : k \in E <=> RelationsEqual(seq[1], seq[k])
  BY DEF Equals
<1>4. E \in SUBSET D /\ (D \ E) \in SUBSET D
  BY DEF Equals
<1>5. ToSet(seq) = {seq[k] : k \in D}
  BY Zenon DEF ToSet
<1> HIDE DEF E
<1>6. Among(seq, E) \in Seq(X) /\ ToSet(Among(seq, E)) = {seq[k] : k \in E} /\ (Among(seq, E) = <<>> <=> E = {})
  BY <1>4, AmongElements
<1>7. /\ Among(seq, D \ E) \in Seq(X) /\ ToSet(Among(seq, D \ E)) = {seq[k] : k \in D \ E}
      /\ (Among(seq, D \ E) = <<>> <=> D \ E = {})
  BY <1>4, AmongElements
<1> HIDE DEF D
<1>8. 1 \in E
  BY <1>1, <1>2, <1>3
<1>9. {seq[k] : k \in E} = {w \in ToSet(seq) : RelationsEqual(seq[1], w)}
  BY <1>3, <1>4, <1>5
<1>10. {seq[k] : k \in D \ E} = {w \in ToSet(seq) : ~RelationsEqual(seq[1], w)}
  BY <1>3, <1>4, <1>5
<1>11. D \ E = {} <=> \A w \in ToSet(seq) : RelationsEqual(seq[1], w)
  BY <1>3, <1>4, <1>5
<1> QED
  BY <1>6, <1>7, <1>8, <1>9, <1>10, <1>11 DEF D, E

\* What the steps of one comparison do not change.
LEMMA InputsStay ==
  ASSUME UNCHANGED inputs
  PROVE  /\ s1' = s1 /\ s2' = s2 /\ Worlds' = Worlds /\ MergedWorlds' = MergedWorlds
         /\ Largest(s1, s2)' = Largest(s1, s2)
         /\ (IsState(s1) /\ IsState(s2))' <=> IsState(s1) /\ IsState(s2)
         /\ \A v : Second(v)' = Second(v)
         /\ \A i, w : Successors(i, w)' = Successors(i, w)
<1>1. s1' = s1 /\ s2' = s2
  BY DEF inputs
<1>2. MergedWorlds' = MergedWorlds
  BY <1>1 DEF MergedWorlds
<1>3. Worlds' = Worlds
  BY <1>2 DEF Worlds
<1>4. \A v : Second(v)' = Second(v)
  BY <1>1 DEF Second
<1>5. \A w : From1(w)' <=> From1(w)
  BY <1>1 DEF From1
<1>6. \A i, w : Successors(i, w)' = Successors(i, w)
  BY <1>1, <1>2, <1>5 DEF Successors
<1>7. Largest(s1, s2)' = Largest(s1, s2)
  BY <1>1 DEF Largest, IsBisimulation
<1>8. (IsState(s1) /\ IsState(s2))' <=> IsState(s1) /\ IsState(s2)
  BY <1>1 DEF IsState
<1> QED
  BY <1>1, <1>2, <1>3, <1>4, <1>6, <1>7, <1>8

LEMMA RelationsEquivalence ==
  /\ \A w, v : RelationsEqual(w, v) => RelationsEqual(v, w)
  /\ \A w, v, u : RelationsEqual(w, v) /\ RelationsEqual(v, u) => RelationsEqual(w, u)
  BY Zenon DEF RelationsEqual

LEMMA RelationsStay ==
  ASSUME UNCHANGED inputs, UNCHANGED world_to_block
  PROVE  \A w, v : RelationsEqual(w, v)' <=> RelationsEqual(w, v)
<1>1. s1' = s1 /\ s2' = s2 /\ world_to_block' = world_to_block
  BY DEF inputs
<1> QED
  BY <1>1 DEF RelationsEqual, Successors, From1, MergedWorlds

\* A block of the round that was cut short changes nothing.
LEMMA RefineDangling ==
  ASSUME BisimInv, RefineBlock, dangling
  PROVE  /\ UNCHANGED <<inputs, blocks, world_to_block, pending, changed, upto, dangling, answer>>
         /\ pos' = pos + 1 /\ changed /\ pos <= upto /\ answer = "none"
<1> DEFINE block == IF dangling THEN <<>> ELSE blocks[pos]
           stay == {k \in DOMAIN block : RelationsEqual(block[1], block[k])}
           out == Among(block, (DOMAIN block) \ stay)
<1>1. /\ answer = "none" /\ pending = <<>> /\ pos <= upto /\ blocks' = blocks /\ pending' = out
      /\ changed' = (changed \/ out # <<>>) /\ pos' = pos + 1
      /\ UNCHANGED <<inputs, world_to_block, upto, dangling, answer>>
  BY DEF RefineBlock
<1>2. block = <<>>
  OBVIOUS
<1> HIDE DEF block
<1>3. DOMAIN block = {} /\ block \in Seq(Worlds)
  BY <1>2
<1>4. (DOMAIN block) \ stay = {} /\ {} \in SUBSET DOMAIN block
  BY <1>3
<1>5. Among(block, {}) = <<>>
  BY <1>3, <1>4, AmongElements
<1>6. out = <<>>
  BY <1>4, <1>5
<1> HIDE DEF out
<1>7. changed
  BY DEF BisimInv, RoundSound
<1>8. changed' = changed
  BY <1>1, <1>6, <1>7
<1> QED
  BY <1>1, <1>6, <1>7, <1>8

\* A read of freed memory ends the comparison without an answer.
LEMMA FreedPreserves == BisimInv /\ ReadFreed => BisimInv'
<1> SUFFICES ASSUME BisimInv, ReadFreed PROVE BisimInv'
  OBVIOUS
<1>1. /\ UNCHANGED <<blocks, world_to_block, pos, upto, pending, changed, dangling>>
      /\ UNCHANGED inputs /\ UNCHANGED world_to_block /\ answer' = "undefined" /\ pending = <<>>
  BY DEF ReadFreed, inputs
<1>2. Partitioned' /\ BlocksAlike' /\ BisimilarTogether'
  BY <1>1, InputsStay DEF BisimInv, Partitioned, BlocksAlike, BisimilarTogether
<1>3. \A w, v : RelationsEqual(w, v)' <=> RelationsEqual(w, v)
  BY <1>1, RelationsStay
<1>4. ~Answered'
  BY <1>1 DEF Answered
<1>5. RoundSound'
  BY <1>1, <1>3, <1>4 DEF BisimInv, RoundSound
<1> QED
  BY <1>2, <1>5 DEF BisimInv

\* What partition_into_relations_blocks does to one block.
LEMMA RefineEffect ==
  ASSUME BisimInv, RefineBlock, ~dangling
  PROVE  \E f \in Worlds :
           /\ UNCHANGED <<inputs, world_to_block, upto, dangling, answer>>
           /\ pos \in DOMAIN blocks /\ pos' = pos + 1 /\ answer = "none" /\ pending = <<>>
           /\ blocks' \in Seq(Seq(Worlds)) /\ DOMAIN blocks' = DOMAIN blocks /\ Len(blocks') = Len(blocks)
           /\ \A b \in DOMAIN blocks : b # pos => blocks'[b] = blocks[b]
           /\ blocks'[pos] # <<>> /\ pending' \in Seq(Worlds)
           /\ ToSet(blocks'[pos]) = {w \in ToSet(blocks[pos]) : RelationsEqual(f, w)}
           /\ ToSet(pending') = {w \in ToSet(blocks[pos]) : ~RelationsEqual(f, w)}
           /\ changed' = (changed \/ pending' # <<>>)
           /\ (pending' = <<>>) <=> \A w \in ToSet(blocks[pos]) : RelationsEqual(f, w)
<1> DEFINE block == blocks[pos]
           f == block[1]
           kept == Among(block, Equals(block))
           out == Among(block, (DOMAIN block) \ Equals(block))
<1>1. /\ answer = "none" /\ pending = <<>> /\ pos <= upto /\ blocks' = [blocks EXCEPT ![pos] = kept] /\ pending' = out
      /\ changed' = (changed \/ out # <<>>) /\ pos' = pos + 1
      /\ UNCHANGED <<inputs, world_to_block, upto, dangling, answer>>
  BY DEF RefineBlock, Equals
<1>2. /\ pos \in Nat \ {0} /\ upto \in Nat /\ upto <= Len(blocks) /\ blocks \in Seq(Seq(Worlds))
      /\ \A b \in DOMAIN blocks : blocks[b] # <<>>
  BY DEF BisimInv, RoundSound, Partitioned
<1>3. pos \in DOMAIN blocks
  <2>1. DOMAIN blocks = 1 .. Len(blocks) /\ Len(blocks) \in Nat
    BY <1>2
  <2> QED
    BY <1>1, <1>2, <2>1
<1>4. block \in Seq(Worlds) /\ block # <<>>
  BY <1>2, <1>3
<1> HIDE DEF block
<1>5. f \in Worlds
  BY <1>4
<1> HIDE DEF f
<1>6. /\ kept \in Seq(Worlds) /\ kept # <<>> /\ out \in Seq(Worlds)
      /\ ToSet(kept) = {w \in ToSet(block) : RelationsEqual(f, w)}
      /\ ToSet(out) = {w \in ToSet(block) : ~RelationsEqual(f, w)}
      /\ (out = <<>>) <=> \A w \in ToSet(block) : RelationsEqual(f, w)
  BY <1>4, SplitBlock DEF f
<1> HIDE DEF kept, out
<1>7. /\ blocks' \in Seq(Seq(Worlds)) /\ DOMAIN blocks' = DOMAIN blocks /\ Len(blocks') = Len(blocks)
      /\ blocks'[pos] = kept /\ \A b \in DOMAIN blocks : b # pos => blocks'[b] = blocks[b]
  <2> DEFINE V == Seq(Worlds)
  <2>1. blocks \in Seq(V) /\ kept \in V /\ pos \in DOMAIN blocks /\ blocks' = [blocks EXCEPT ![pos] = kept]
    BY <1>1, <1>2, <1>3, <1>6
  <2> HIDE DEF V
  <2>2. blocks' \in Seq(V) /\ DOMAIN blocks' = DOMAIN blocks /\ Len(blocks') = Len(blocks)
    BY <2>1
  <2>3. blocks'[pos] = kept /\ \A b \in DOMAIN blocks : b # pos => blocks'[b] = blocks[b]
    BY <2>1
  <2> QED
    BY <2>2, <2>3 DEF V
<1> QED
  BY <1>1, <1>3, <1>5, <1>6, <1>7 DEF block

LEMMA RefinePreserves == BisimInv /\ RefineBlock => BisimInv'
<1> SUFFICES ASSUME BisimInv, RefineBlock PROVE BisimInv'
  OBVIOUS
<1>0. /\ IsState(s1) /\ IsState(s2) /\ blocks \in Seq(Seq(Worlds)) /\ world_to_block \in [Worlds -> DOMAIN blocks]
      /\ \A b \in DOMAIN blocks : blocks[b] # <<>>
      /\ \A b \in DOMAIN blocks, w \in Worlds : w \in ToSet(blocks[b]) <=> world_to_block[w] = b /\ w \notin ToSet(pending)
      /\ BlocksAlike /\ BisimilarTogether
  BY DEF BisimInv, Partitioned
<1>1. CASE dangling
  <2>1. /\ UNCHANGED <<inputs, blocks, world_to_block, pending, changed, upto, dangling, answer>>
        /\ pos' = pos + 1 /\ changed /\ pos <= upto /\ answer = "none"
    BY <1>1, RefineDangling
  <2>2. Partitioned' /\ BlocksAlike' /\ BisimilarTogether'
    BY <2>1, InputsStay DEF BisimInv, Partitioned, BlocksAlike, BisimilarTogether
  <2>3. RoundSound'
    BY <2>1 DEF BisimInv, RoundSound, Answered
  <2> QED
    BY <2>2, <2>3 DEF BisimInv
<1>2. CASE ~dangling
  <2>1. PICK f \in Worlds :
           /\ UNCHANGED <<inputs, world_to_block, upto, dangling, answer>>
           /\ pos \in DOMAIN blocks /\ pos' = pos + 1 /\ answer = "none" /\ pending = <<>>
           /\ blocks' \in Seq(Seq(Worlds)) /\ DOMAIN blocks' = DOMAIN blocks /\ Len(blocks') = Len(blocks)
           /\ \A b \in DOMAIN blocks : b # pos => blocks'[b] = blocks[b]
           /\ blocks'[pos] # <<>> /\ pending' \in Seq(Worlds)
           /\ ToSet(blocks'[pos]) = {w \in ToSet(blocks[pos]) : RelationsEqual(f, w)}
           /\ ToSet(pending') = {w \in ToSet(blocks[pos]) : ~RelationsEqual(f, w)}
           /\ changed' = (changed \/ pending' # <<>>)
           /\ (pending' = <<>>) <=> \A w \in ToSet(blocks[pos]) : RelationsEqual(f, w)
    BY <1>2, RefineEffect
  <2>2. /\ s1' = s1 /\ s2' = s2 /\ Worlds' = Worlds /\ MergedWorlds' = MergedWorlds
        /\ Largest(s1, s2)' = Largest(s1, s2) /\ (IsState(s1) /\ IsState(s2))' /\ \A v : Second(v)' = Second(v)
    BY <2>1, <1>0, InputsStay
  <2>3. ToSet(pending) = {}
    <3>1. pending = <<>> /\ DOMAIN <<>> = {}
      BY <2>1
    <3> QED
      BY <3>1, Zenon DEF ToSet
  <2>4. \A b \in DOMAIN blocks, w \in Worlds : w \in ToSet(blocks[b]) <=> world_to_block[w] = b
    BY <1>0, <2>3
  <2>5. Partitioned'
    <3>1. \A b \in DOMAIN blocks' : blocks'[b] # <<>>
      BY <1>0, <2>1
    <3>2. ASSUME NEW b \in DOMAIN blocks, NEW w \in Worlds
          PROVE  w \in ToSet(blocks'[b]) <=> world_to_block[w] = b /\ w \notin ToSet(pending')
      <4>1. CASE b = pos
        BY <4>1, <2>1, <2>4
      <4>2. CASE b # pos
        BY <4>2, <2>1, <2>4
      <4> QED
        BY <4>1, <4>2
    <3>3. \A w, v \in ToSet(pending') : w \in Worlds /\ v \in Worlds
      <4>1. DOMAIN pending' = 1 .. Len(pending') /\ \A k \in 1 .. Len(pending') : pending'[k] \in Worlds
        BY <2>1
      <4> QED
        BY <4>1, Zenon DEF ToSet
    <3>4. \A w, v \in ToSet(pending') : world_to_block[w] = world_to_block[v]
      BY <3>3, <2>1, <2>4
    <3> QED
      BY <1>0, <2>1, <2>2, <3>1, <3>2, <3>4 DEF Partitioned
  <2>6. BlocksAlike'
    BY <1>0, <2>1, <2>2 DEF BlocksAlike
  <2>7. BisimilarTogether'
    <3>1. ASSUME NEW p \in Largest(s1, s2)
          PROVE  /\ world_to_block[p[1]] = world_to_block[Second(p[2])]
                 /\ p[1] \in ToSet(pending') <=> Second(p[2]) \in ToSet(pending')
      <4>1. p[1] \in Worlds /\ Second(p[2]) \in Worlds
        <5>1. p[1] \in DOMAIN s1.worlds /\ p[2] \in DOMAIN s2.worlds
          BY LargestFacts
        <5> QED
          BY <5>1, <1>0, MergedFacts
      <4>2. world_to_block[p[1]] = world_to_block[Second(p[2])]
        BY <1>0 DEF BisimilarTogether
      <4>3. RelationsEqual(p[1], Second(p[2]))
        BY <1>0, BisimilarReach
      <4>4. RelationsEqual(f, p[1]) <=> RelationsEqual(f, Second(p[2]))
        BY <4>3, RelationsEquivalence
      <4>5. p[1] \in ToSet(blocks[pos]) <=> Second(p[2]) \in ToSet(blocks[pos])
        BY <4>1, <4>2, <2>1, <2>4
      <4> QED
        BY <4>2, <4>4, <4>5, <2>1
    <3> QED
      BY <3>1, <2>1, <2>2 DEF BisimilarTogether
  <2>8. RoundSound'
    <3>1. /\ pos \in Nat \ {0} /\ upto \in Nat /\ upto <= Len(blocks) /\ changed \in BOOLEAN /\ dangling \in BOOLEAN
          /\ ~changed => /\ ~dangling /\ upto = Len(blocks)
                         /\ \A b \in DOMAIN blocks : b < pos => \A w, v \in ToSet(blocks[b]) : RelationsEqual(w, v)
      BY DEF BisimInv, RoundSound
    <3>2. changed' \in BOOLEAN /\ (pending' # <<>> => changed') /\ (~changed' => ~changed /\ pending' = <<>>)
      BY <2>1, <3>1
    <3>3. ASSUME ~changed', NEW b \in DOMAIN blocks, b < pos + 1, NEW w \in ToSet(blocks'[b]), NEW v \in ToSet(blocks'[b])
          PROVE  RelationsEqual(w, v)
      <4>1. CASE b = pos
        <5>1. RelationsEqual(f, w) /\ RelationsEqual(f, v)
          BY <4>1, <2>1, <3>3
        <5> QED
          BY <5>1, RelationsEquivalence
      <4>2. CASE b # pos
        <5>1. b \in Nat /\ pos \in Nat
          BY <1>0, <3>1
        <5>2. b < pos
          BY <5>1, <4>2, <3>3
        <5>3. blocks'[b] = blocks[b]
          BY <4>2, <2>1
        <5> QED
          BY <5>2, <5>3, <3>1, <3>2, <3>3
      <4> QED
        BY <4>1, <4>2
    <3>4. \A w, v : RelationsEqual(w, v)' <=> RelationsEqual(w, v)
      BY <2>1, RelationsStay
    <3>5. ~changed' => \A b \in DOMAIN blocks' : b < pos' => \A w, v \in ToSet(blocks'[b]) : RelationsEqual(w, v)'
      BY <3>3, <3>4, <2>1
    <3>6. answer' = "none" /\ ~Answered'
      BY <2>1 DEF Answered
    <3>7. pos' \in Nat \ {0} /\ upto' \in Nat /\ upto' <= Len(blocks') /\ dangling' \in BOOLEAN
      <4>1. pos' = pos + 1 /\ upto' = upto /\ dangling' = dangling /\ Len(blocks') = Len(blocks)
        BY <2>1
      <4> QED
        BY <3>1, <4>1
    <3>8. ~changed' => ~dangling' /\ upto' = Len(blocks')
      BY <3>1, <3>2, <2>1
    <3> QED
      BY <3>2, <3>5, <3>6, <3>7, <3>8 DEF RoundSound
  <2> QED
    BY <2>5, <2>6, <2>7, <2>8 DEF BisimInv
<1> QED
  BY <1>1, <1>2

\* What one call of move_worlds_to_new_block does.
LEMMA MoveEffect ==
  ASSUME BisimInv, MoveWorlds
  PROVE  \E f \in Worlds, same \in Seq(Worlds) :
           /\ UNCHANGED <<inputs, pos, upto, changed, answer>> /\ changed /\ answer = "none"
           /\ same # <<>> /\ pending' \in Seq(Worlds) /\ dangling' \in BOOLEAN
           /\ blocks' \in Seq(Seq(Worlds)) /\ Len(blocks) \in Nat
           /\ DOMAIN blocks' = 1 .. Len(blocks) + 1 /\ Len(blocks') = Len(blocks) + 1
           /\ \A b \in DOMAIN blocks : blocks'[b] = blocks[b]
           /\ blocks'[Len(blocks) + 1] = same
           /\ ToSet(same) = {w \in ToSet(pending) : RelationsEqual(f, w)}
           /\ ToSet(pending') = {w \in ToSet(pending) : ~RelationsEqual(f, w)}
           /\ world_to_block' = [w \in Worlds |-> IF w \in ToSet(same) THEN Len(blocks) + 1 ELSE world_to_block[w]]
<1> DEFINE f == pending[1]
           same == Among(pending, Equals(pending))
           rest == Among(pending, (DOMAIN pending) \ Equals(pending))
<1>1. /\ pending # <<>> /\ blocks' = Append(blocks, same) /\ pending' = rest
      /\ world_to_block' = [w \in DOMAIN world_to_block |-> IF w \in ToSet(same) THEN Len(blocks) + 1 ELSE world_to_block[w]]
      /\ dangling' \in BOOLEAN
      /\ UNCHANGED <<inputs, pos, upto, changed, answer>>
  BY DEF MoveWorlds, Equals
<1>2. /\ pending \in Seq(Worlds) /\ blocks \in Seq(Seq(Worlds)) /\ DOMAIN world_to_block = Worlds
      /\ changed /\ answer = "none"
  BY <1>1 DEF BisimInv, Partitioned, RoundSound
<1>3. f \in Worlds
  BY <1>1, <1>2
<1> HIDE DEF f
<1>4. /\ same \in Seq(Worlds) /\ same # <<>> /\ rest \in Seq(Worlds)
      /\ ToSet(same) = {w \in ToSet(pending) : RelationsEqual(f, w)}
      /\ ToSet(rest) = {w \in ToSet(pending) : ~RelationsEqual(f, w)}
  BY <1>1, <1>2, SplitBlock DEF f
<1> HIDE DEF same, rest
<1>5. /\ blocks' \in Seq(Seq(Worlds)) /\ Len(blocks) \in Nat /\ DOMAIN blocks' = 1 .. Len(blocks) + 1
      /\ Len(blocks') = Len(blocks) + 1
      /\ \A b \in DOMAIN blocks : blocks'[b] = blocks[b]
      /\ blocks'[Len(blocks) + 1] = same
  <2> DEFINE V == Seq(Worlds)
  <2>1. blocks \in Seq(V) /\ same \in V /\ blocks' = Append(blocks, same)
    BY <1>1, <1>2, <1>4
  <2> HIDE DEF V
  <2>2. blocks' \in Seq(V) /\ Len(blocks) \in Nat /\ Len(blocks') = Len(blocks) + 1
    BY <2>1
  <2>3. DOMAIN blocks' = 1 .. Len(blocks) + 1
    BY <2>2
  <2>4. \A b \in DOMAIN blocks : blocks'[b] = blocks[b]
    BY <2>1
  <2>5. blocks'[Len(blocks) + 1] = same
    BY <2>1
  <2> QED
    BY <2>2, <2>3, <2>4, <2>5 DEF V
<1>6. world_to_block' = [w \in Worlds |-> IF w \in ToSet(same) THEN Len(blocks) + 1 ELSE world_to_block[w]]
  BY <1>1, <1>2
<1> QED
  BY <1>1, <1>2, <1>3, <1>4, <1>5, <1>6

LEMMA MovePreserves == BisimInv /\ MoveWorlds => BisimInv'
<1> SUFFICES ASSUME BisimInv, MoveWorlds PROVE BisimInv'
  OBVIOUS
<1>0. /\ IsState(s1) /\ IsState(s2) /\ blocks \in Seq(Seq(Worlds)) /\ world_to_block \in [Worlds -> DOMAIN blocks]
      /\ \A b \in DOMAIN blocks : blocks[b] # <<>>
      /\ \A b \in DOMAIN blocks, w \in Worlds : w \in ToSet(blocks[b]) <=> world_to_block[w] = b /\ w \notin ToSet(pending)
      /\ \A w, v \in ToSet(pending) : world_to_block[w] = world_to_block[v]
      /\ pending \in Seq(Worlds)
      /\ BlocksAlike /\ BisimilarTogether
  BY DEF BisimInv, Partitioned
<1>1. PICK f \in Worlds, same \in Seq(Worlds) :
           /\ UNCHANGED <<inputs, pos, upto, changed, answer>> /\ changed /\ answer = "none"
           /\ same # <<>> /\ pending' \in Seq(Worlds) /\ dangling' \in BOOLEAN
           /\ blocks' \in Seq(Seq(Worlds)) /\ Len(blocks) \in Nat
           /\ DOMAIN blocks' = 1 .. Len(blocks) + 1 /\ Len(blocks') = Len(blocks) + 1
           /\ \A b \in DOMAIN blocks : blocks'[b] = blocks[b]
           /\ blocks'[Len(blocks) + 1] = same
           /\ ToSet(same) = {w \in ToSet(pending) : RelationsEqual(f, w)}
           /\ ToSet(pending') = {w \in ToSet(pending) : ~RelationsEqual(f, w)}
           /\ world_to_block' = [w \in Worlds |-> IF w \in ToSet(same) THEN Len(blocks) + 1 ELSE world_to_block[w]]
  BY MoveEffect
<1>2. /\ s1' = s1 /\ s2' = s2 /\ Worlds' = Worlds /\ MergedWorlds' = MergedWorlds
      /\ Largest(s1, s2)' = Largest(s1, s2) /\ (IsState(s1) /\ IsState(s2))' /\ \A v : Second(v)' = Second(v)
  BY <1>1, <1>0, InputsStay
<1> DEFINE new == Len(blocks) + 1
           P == ToSet(pending)
           S == ToSet(same)
           Q == ToSet(pending')
<1>3. /\ \A w \in S : w \in P /\ w \notin Q
      /\ \A w \in P : w \in S \/ w \in Q
      /\ \A w \in Q : w \in P /\ w \notin S
  BY <1>1
<1>4. \A w \in P : w \in Worlds
  <2>1. DOMAIN pending = 1 .. Len(pending) /\ \A k \in 1 .. Len(pending) : pending[k] \in Worlds
    BY <1>0
  <2> QED
    BY <2>1, Zenon DEF ToSet
<1>5. /\ \A b : b \in DOMAIN blocks' <=> b \in DOMAIN blocks \/ b = new
      /\ new \notin DOMAIN blocks
  <2>1. DOMAIN blocks = 1 .. Len(blocks) /\ Len(blocks) \in Nat
    BY <1>0
  <2> QED
    BY <2>1, <1>1
<1>6. \A w \in Worlds : world_to_block[w] \in DOMAIN blocks /\ world_to_block[w] # new
  BY <1>0, <1>5
<1>7. world_to_block' = [w \in Worlds |-> IF w \in S THEN new ELSE world_to_block[w]]
  BY <1>1
<1> HIDE DEF new, P, S, Q
<1>8. Partitioned'
  <2>1. world_to_block' \in [Worlds -> DOMAIN blocks']
    BY <1>5, <1>6, <1>7
  <2>2. \A b \in DOMAIN blocks' : blocks'[b] # <<>>
    <3>1. blocks'[new] = same /\ same # <<>>
      BY <1>1 DEF new
    <3>2. \A b \in DOMAIN blocks : blocks'[b] = blocks[b] /\ blocks[b] # <<>>
      BY <1>0, <1>1
    <3> QED
      BY <3>1, <3>2, <1>5
  <2>3. ASSUME NEW b \in DOMAIN blocks', NEW w \in Worlds
        PROVE  w \in ToSet(blocks'[b]) <=> world_to_block'[w] = b /\ w \notin Q
    <3>1. CASE b = new
      <4>1. w \in ToSet(blocks'[b]) <=> w \in S
        BY <3>1, <1>1 DEF new, S
      <4> QED
        BY <3>1, <4>1, <1>3, <1>6, <1>7
    <3>2. CASE b # new
      <4>1. b \in DOMAIN blocks /\ blocks'[b] = blocks[b]
        BY <3>2, <1>1, <1>5
      <4>2. w \in ToSet(blocks'[b]) <=> world_to_block[w] = b /\ w \notin P
        BY <4>1, <1>0 DEF P
      <4>3. CASE w \in S
        BY <4>2, <4>3, <3>2, <1>3, <1>7
      <4>4. CASE w \notin S
        BY <4>2, <4>4, <3>2, <1>3, <1>7
      <4> QED
        BY <4>3, <4>4
    <3> QED
      BY <3>1, <3>2
  <2>4. \A w, v \in Q : world_to_block'[w] = world_to_block'[v]
    <3>1. \A w, v \in Q : w \in Worlds /\ v \in Worlds /\ w \notin S /\ v \notin S /\ world_to_block[w] = world_to_block[v]
      BY <1>0, <1>3, <1>4 DEF P
    <3> QED
      BY <3>1, <1>7
  <2> QED
    BY <1>1, <1>2, <2>1, <2>2, <2>3, <2>4 DEF Partitioned, Q
<1>9. BlocksAlike'
  <2>1. ASSUME NEW w \in Worlds, NEW v \in Worlds, world_to_block'[w] = world_to_block'[v]
        PROVE  world_to_block[w] = world_to_block[v]
    <3>1. CASE w \in S
      <4>1. v \in S
        BY <3>1, <2>1, <1>6, <1>7
      <4> QED
        BY <3>1, <4>1, <1>0, <1>3 DEF P
    <3>2. CASE w \notin S
      <4>1. v \notin S
        BY <3>2, <2>1, <1>6, <1>7
      <4> QED
        BY <3>2, <4>1, <2>1, <1>7
    <3> QED
      BY <3>1, <3>2
  <2> QED
    BY <2>1, <1>0, <1>2 DEF BlocksAlike
<1>10. BisimilarTogether'
  <2>1. ASSUME NEW p \in Largest(s1, s2)
        PROVE  /\ world_to_block'[p[1]] = world_to_block'[Second(p[2])]
               /\ p[1] \in Q <=> Second(p[2]) \in Q
    <3>1. p[1] \in Worlds /\ Second(p[2]) \in Worlds
      <4>1. p[1] \in DOMAIN s1.worlds /\ p[2] \in DOMAIN s2.worlds
        BY LargestFacts
      <4> QED
        BY <4>1, <1>0, MergedFacts
    <3>2. world_to_block[p[1]] = world_to_block[Second(p[2])] /\ (p[1] \in P <=> Second(p[2]) \in P)
      BY <1>0 DEF BisimilarTogether, P
    <3>3. RelationsEqual(p[1], Second(p[2]))
      BY <1>0, BisimilarReach
    <3>4. RelationsEqual(f, p[1]) <=> RelationsEqual(f, Second(p[2]))
      BY <3>3, RelationsEquivalence
    <3>5. p[1] \in S <=> Second(p[2]) \in S
      BY <3>2, <3>4, <1>1 DEF P, S
    <3>6. p[1] \in Q <=> Second(p[2]) \in Q
      BY <3>2, <3>4, <1>1 DEF P, Q
    <3>7. world_to_block'[p[1]] = world_to_block'[Second(p[2])]
      BY <3>1, <3>2, <3>5, <1>7
    <3> QED
      BY <3>6, <3>7
  <2> QED
    BY <2>1, <1>1, <1>2 DEF BisimilarTogether, Q
<1>11. RoundSound'
  <2>1. pos \in Nat \ {0} /\ upto \in Nat /\ upto <= Len(blocks) /\ changed \in BOOLEAN
    BY DEF BisimInv, RoundSound
  <2>2. pos' = pos /\ upto' = upto /\ changed' /\ changed' \in BOOLEAN /\ answer' = "none" /\ Len(blocks') = Len(blocks) + 1
    BY <1>1, <2>1
  <2>3. upto' <= Len(blocks')
    BY <1>1, <2>1, <2>2
  <2> QED
    BY <1>1, <2>1, <2>2, <2>3 DEF RoundSound, Answered
<1> QED
  BY <1>8, <1>9, <1>10, <1>11 DEF BisimInv

LEMMA RoundPreserves == BisimInv /\ NextRound => BisimInv'
<1> SUFFICES ASSUME BisimInv, NextRound PROVE BisimInv'
  OBVIOUS
<1>1. /\ UNCHANGED <<inputs, blocks, world_to_block, pending, answer>> /\ UNCHANGED inputs
      /\ answer = "none" /\ pending = <<>> /\ pos' = 1 /\ upto' = Len(blocks) /\ changed' = FALSE /\ dangling' = FALSE
  BY DEF NextRound
<1>2. Partitioned' /\ BlocksAlike' /\ BisimilarTogether'
  BY <1>1, InputsStay DEF BisimInv, Partitioned, BlocksAlike, BisimilarTogether
<1>3. Len(blocks) \in Nat /\ DOMAIN blocks = 1 .. Len(blocks)
  BY DEF BisimInv, Partitioned
<1>4. RoundSound'
  <2>1. \A b \in DOMAIN blocks' : ~(b < pos')
    BY <1>1, <1>3
  <2>2. pos' \in Nat \ {0} /\ upto' \in Nat /\ upto' = Len(blocks') /\ upto' <= Len(blocks')
    BY <1>1, <1>3
  <2>3. changed' \in BOOLEAN /\ dangling' \in BOOLEAN /\ ~dangling' /\ pending' = <<>> /\ answer' = "none"
    BY <1>1
  <2> QED
    BY <2>1, <2>2, <2>3 DEF RoundSound, Answered
<1> QED
  BY <1>2, <1>4 DEF BisimInv

LEMMA AnswerPreserves == BisimInv /\ Answer => BisimInv'
<1> SUFFICES ASSUME BisimInv, Answer PROVE BisimInv'
  OBVIOUS
<1>1. /\ UNCHANGED <<inputs, blocks, world_to_block, pos, upto, pending, changed, dangling>> /\ UNCHANGED inputs /\ UNCHANGED world_to_block
      /\ pos > upto /\ ~changed /\ pending = <<>> /\ answer' = IF BlocksMatch THEN "bisimilar" ELSE "different"
  BY DEF Answer
<1>2. Partitioned' /\ BlocksAlike' /\ BisimilarTogether'
  BY <1>1, InputsStay DEF BisimInv, Partitioned, BlocksAlike, BisimilarTogether
<1>3. BlocksMatch' <=> BlocksMatch
  BY <1>1 DEF BlocksMatch, From1, Designated, inputs
<1>4. \A w, v : RelationsEqual(w, v)' <=> RelationsEqual(w, v)
  BY <1>1, RelationsStay
<1>5. RoundSound'
  <2>1. RoundSound
    BY DEF BisimInv
  <2>2. answer' \in {"bisimilar", "different"} /\ (answer' = "bisimilar" <=> BlocksMatch')
    BY <1>1, <1>3
  <2>3. ~changed' => /\ ~dangling' /\ upto' = Len(blocks')
                     /\ \A b \in DOMAIN blocks' : b < pos' => \A w, v \in ToSet(blocks'[b]) : RelationsEqual(w, v)'
    BY <1>1, <1>4, <2>1 DEF RoundSound
  <2>4. pos' = pos /\ upto' = upto /\ blocks' = blocks /\ changed' = changed /\ dangling' = dangling /\ pending' = pending
    BY <1>1
  <2>5. /\ pos' \in Nat \ {0} /\ upto' \in Nat /\ upto' <= Len(blocks')
        /\ changed' \in BOOLEAN /\ dangling' \in BOOLEAN /\ pending' = <<>>
    BY <1>1, <2>1, <2>4 DEF RoundSound
  <2>6. ~changed' /\ pos' > upto'
    BY <1>1, <2>4
  <2> QED
    BY <2>2, <2>3, <2>5, <2>6 DEF RoundSound
<1> QED
  BY <1>2, <1>5 DEF BisimInv

\* partition_into_valuation_blocks: worlds are together if their propositions
\* are the same.
LEMMA InitialPartition == BisimInit => BisimInv
<1> SUFFICES ASSUME BisimInit PROVE BisimInv
  OBVIOUS
<1> DEFINE worlds == MergedWorlds
           Key(w) == PropositionString(worlds[w])
           Alike(key) == {w \in DOMAIN worlds : PropositionString(worlds[w]) = key}
           S == {Sorted(Alike(PropositionString(worlds[w]))) : w \in DOMAIN worlds}
           n == Cardinality(S)
<1>1. /\ \E p \in Pairs : s1 = p[1] /\ s2 = p[2]
      /\ blocks \in SetToSeqs(S)
      /\ world_to_block = [w \in Worlds |-> CHOOSE b \in DOMAIN blocks : w \in ToSet(blocks[b])]
      /\ pos = 1 /\ upto = Len(blocks) /\ pending = <<>> /\ changed = FALSE /\ dangling = FALSE /\ answer = "none"
  BY DEF BisimInit, ValuationBlocks, Worlds
<1>2. IsState(s1) /\ IsState(s2)
  BY <1>1, PairsAssumption
<1>3. /\ Len(s1.worlds) + Len(s2.worlds) \in Nat /\ Worlds = 1 .. Len(s1.worlds) + Len(s2.worlds)
      /\ \A w \in Worlds : MergedWorlds[w] \in SUBSET Props
  <2>1. Len(s1.worlds) \in Nat /\ Len(s2.worlds) \in Nat
    BY <1>2, MergedFacts
  <2>2. Worlds = 1 .. Len(s1.worlds) + Len(s2.worlds)
    BY <1>2, MergedFacts
  <2>3. \A w \in Worlds : MergedWorlds[w] \in SUBSET Props
    BY <1>2, MergedFacts
  <2>4. Len(s1.worlds) + Len(s2.worlds) \in Nat
    <3>1. \A a, b \in Nat : a + b \in Nat
      OBVIOUS
    <3> QED
      BY <2>1, <3>1, Zenon
  <2> QED
    BY <2>2, <2>3, <2>4, Zenon
<1>4. /\ \A w : Alike(Key(w)) \in SUBSET Worlds
      /\ \A w \in Worlds : w \in Alike(Key(w))
      /\ \A w \in Worlds : \A v \in Worlds : v \in Alike(Key(w)) <=> Key(v) = Key(w)
  BY DEF Worlds
<1>5. S = {Sorted(Alike(Key(w))) : w \in Worlds}
  BY DEF Worlds
<1>6. \A w, v \in Worlds : Key(w) = Key(v) <=> MergedWorlds[w] = MergedWorlds[v]
  <2>1. SUFFICES ASSUME NEW w \in Worlds, NEW v \in Worlds PROVE Key(w) = Key(v) <=> MergedWorlds[w] = MergedWorlds[v]
    OBVIOUS
  <2>2. MergedWorlds[w] \in SUBSET Props /\ MergedWorlds[v] \in SUBSET Props
    BY <1>3
  <2> QED
    BY <2>2, SpellingAssumption
<1>n. \A w, v \in Worlds : Key(w) = Key(v) => Sorted(Alike(Key(w))) = Sorted(Alike(Key(v)))
  OBVIOUS
<1> HIDE DEF Key, Alike, S
\* The list of a key holds the worlds with it.
<1>7. ASSUME NEW w \in Worlds
      PROVE  /\ Sorted(Alike(Key(w))) \in Seq(Worlds)
             /\ Sorted(Alike(Key(w))) # <<>>
             /\ ToSet(Sorted(Alike(Key(w)))) = Alike(Key(w))
  <2> DEFINE A == Alike(Key(w))
             c == Cardinality(A)
             f == Sorted(A)
             m == Len(s1.worlds) + Len(s2.worlds)
  <2>1. A \in SUBSET Worlds /\ w \in A
    BY <1>4
  <2>2. m \in Nat /\ A \in SUBSET (1 .. m)
    BY <2>1, <1>3
  <2> HIDE DEF A, m
  <2>3. c \in Nat /\ f \in [1 .. c -> A] /\ \A x \in A : \E k \in 1 .. c : f[k] = x
    BY <2>2, SortedNumbers
  <2> HIDE DEF c, f
  <2>4. f \in Seq(A)
    BY <2>3
  <2>5. f \in Seq(Worlds)
    <3>1. f \in [1 .. c -> Worlds]
      BY <2>1, <2>3
    <3> QED
      BY <2>3, <3>1
  <2>6. DOMAIN f = 1 .. c
    BY <2>3
  <2>7. ToSet(f) = {f[k] : k \in 1 .. c}
    BY <2>6, Zenon DEF ToSet
  <2>8. {f[k] : k \in 1 .. c} = A
    BY <2>3
  <2>9. f # <<>>
    <3>1. PICK k \in 1 .. c : f[k] = w
      BY <2>1, <2>3
    <3>2. DOMAIN <<>> = {}
      OBVIOUS
    <3> QED
      BY <3>1, <3>2, <2>6
  <2> QED
    BY <2>5, <2>7, <2>8, <2>9 DEF f, A
\* blocks numbers the lists.
<1>8. IsFiniteSet(S) /\ n \in Nat
  <2>1. IsFiniteSet(Worlds)
    <3> DEFINE m == Len(s1.worlds) + Len(s2.worlds)
    <3>1. m \in Nat /\ Worlds = 1 .. m
      BY <1>3, Zenon
    <3> HIDE DEF m
    <3>2. IsFiniteSet(1 .. m)
      BY <3>1, FS_Interval
    <3> QED
      BY <3>1, <3>2
  <2> DEFINE g == [w \in Worlds |-> Sorted(Alike(Key(w)))]
  <2>2. g \in Surjection(Worlds, S)
    <3>1. g \in [Worlds -> S]
      BY <1>5
    <3>2. \A t \in S : \E w \in Worlds : g[w] = t
      BY <1>5
    <3> HIDE DEF g
    <3> QED
      BY <3>1, <3>2 DEF Surjection
  <2> HIDE DEF g
  <2>3. IsFiniteSet(S)
    BY <2>1, <2>2, FS_Surjection
  <2> QED
    BY <2>3, FS_CardinalityType
<1>9. blocks \in [1 .. n -> S] /\ \A b, c \in 1 .. n : blocks[b] = blocks[c] => b = c
  BY <1>1 DEF SetToSeqs, IsInjective
<1>10. \A t \in S : \E b \in 1 .. n : blocks[b] = t
  <2>1. blocks \in Injection(1 .. n, S)
    BY <1>9 DEF Injection, IsInjective
  <2>2. IsFiniteSet(1 .. n) /\ Cardinality(1 .. n) = n
    BY <1>8, FS_Interval
  <2>3. blocks \in Surjection(1 .. n, S)
    BY <1>8, <2>1, <2>2, FS_Injection
  <2> QED
    BY <2>3 DEF Surjection
<1>11. \A b \in 1 .. n : \E w \in Worlds : blocks[b] = Sorted(Alike(Key(w)))
  BY <1>5, <1>9
<1> HIDE DEF n
<1>12. blocks \in Seq(Seq(Worlds)) /\ DOMAIN blocks = 1 .. n /\ Len(blocks) = n
  <2> DEFINE V == Seq(Worlds)
  <2>1. \A b \in 1 .. n : blocks[b] \in V
    BY <1>7, <1>11
  <2> HIDE DEF V
  <2>2. blocks \in [1 .. n -> V]
    BY <2>1, <1>9
  <2>3. blocks \in Seq(V) /\ DOMAIN blocks = 1 .. n /\ Len(blocks) = n
    BY <2>2, <1>8
  <2> QED
    BY <2>3 DEF V
<1>13. \A b \in 1 .. n : blocks[b] # <<>>
  BY <1>7, <1>11
\* Each world is in the list of its key, and in no other.
<1>14. \A b \in 1 .. n, w \in Worlds : w \in ToSet(blocks[b]) <=> blocks[b] = Sorted(Alike(Key(w)))
  <2> SUFFICES ASSUME NEW b \in 1 .. n, NEW w \in Worlds
               PROVE  w \in ToSet(blocks[b]) <=> blocks[b] = Sorted(Alike(Key(w)))
    OBVIOUS
  <2>1. PICK v \in Worlds : blocks[b] = Sorted(Alike(Key(v)))
    BY <1>11
  <2>2. w \in ToSet(blocks[b]) => Key(w) = Key(v)
    BY <2>1, <1>4, <1>7
  <2>3. Key(w) = Key(v) => blocks[b] = Sorted(Alike(Key(w)))
    BY <2>1, <1>n
  <2>4. blocks[b] = Sorted(Alike(Key(w))) => w \in ToSet(blocks[b])
    BY <1>4, <1>7
  <2> QED
    BY <2>2, <2>3, <2>4
<1>15. \A w \in Worlds : world_to_block[w] \in 1 .. n /\ blocks[world_to_block[w]] = Sorted(Alike(Key(w)))
  <2> SUFFICES ASSUME NEW w \in Worlds
               PROVE  world_to_block[w] \in 1 .. n /\ blocks[world_to_block[w]] = Sorted(Alike(Key(w)))
    OBVIOUS
  <2>1. Sorted(Alike(Key(w))) \in S
    BY <1>5
  <2>2. \E b \in DOMAIN blocks : w \in ToSet(blocks[b])
    BY <2>1, <1>10, <1>12, <1>14
  <2>3. world_to_block[w] = CHOOSE b \in DOMAIN blocks : w \in ToSet(blocks[b])
    BY <1>1
  <2>4. world_to_block[w] \in DOMAIN blocks /\ w \in ToSet(blocks[world_to_block[w]])
    BY <2>2, <2>3
  <2> QED
    BY <2>4, <1>12, <1>14
<1>16. \A b \in 1 .. n, w \in Worlds : w \in ToSet(blocks[b]) <=> world_to_block[w] = b
  BY <1>9, <1>14, <1>15
<1>17. \A w, v \in Worlds : world_to_block[w] = world_to_block[v] <=> Key(w) = Key(v)
  <2> SUFFICES ASSUME NEW w \in Worlds, NEW v \in Worlds
               PROVE  world_to_block[w] = world_to_block[v] <=> Key(w) = Key(v)
    OBVIOUS
  <2>1. world_to_block[w] = world_to_block[v] => Key(w) = Key(v)
    <3>1. SUFFICES ASSUME world_to_block[w] = world_to_block[v] PROVE Key(w) = Key(v)
      OBVIOUS
    <3>2. Alike(Key(w)) = Alike(Key(v))
      BY <3>1, <1>7, <1>15
    <3> QED
      BY <3>2, <1>4
  <2>2. Key(w) = Key(v) => world_to_block[w] = world_to_block[v]
    BY <1>9, <1>15, <1>n
  <2> QED
    BY <2>1, <2>2
<1>18. ToSet(pending) = {} /\ pending \in Seq(Worlds)
  <2>1. pending = <<>> /\ DOMAIN <<>> = {}
    BY <1>1
  <2> QED
    BY <2>1 DEF ToSet
<1>19. Partitioned
  <2>1. world_to_block \in [Worlds -> DOMAIN blocks]
    <3>1. \A w \in Worlds : world_to_block[w] \in DOMAIN blocks
      BY <1>12, <1>15
    <3> QED
      BY <3>1, <1>1
  <2> QED
    BY <1>2, <1>12, <1>13, <1>16, <1>18, <2>1 DEF Partitioned
<1>20. BlocksAlike
  BY <1>6, <1>17 DEF BlocksAlike
<1>21. BisimilarTogether
  <2> SUFFICES ASSUME NEW p \in Largest(s1, s2)
               PROVE  world_to_block[p[1]] = world_to_block[Second(p[2])]
    BY <1>18 DEF BisimilarTogether
  <2>1. p[1] \in DOMAIN s1.worlds /\ p[2] \in DOMAIN s2.worlds /\ s1.worlds[p[1]] = s2.worlds[p[2]]
    BY LargestFacts DEF IsBisimulation
  <2>2. /\ p[1] \in Worlds /\ Second(p[2]) \in Worlds
        /\ MergedWorlds[p[1]] = s1.worlds[p[1]] /\ MergedWorlds[Second(p[2])] = s2.worlds[p[2]]
    BY <2>1, <1>2, MergedFacts
  <2> QED
    BY <2>1, <2>2, <1>6, <1>17
<1>22. RoundSound
  <2>1. \A b \in DOMAIN blocks : ~(b < pos)
    BY <1>1, <1>12
  <2>2. Len(blocks) \in Nat
    BY <1>8, <1>12
  <2>3. pos \in Nat \ {0} /\ upto \in Nat /\ upto = Len(blocks) /\ upto <= Len(blocks)
    BY <1>1, <2>2
  <2>4. changed \in BOOLEAN /\ dangling \in BOOLEAN /\ ~dangling /\ pending = <<>> /\ answer = "none"
    BY <1>1
  <2> QED
    BY <2>1, <2>3, <2>4 DEF RoundSound, Answered
<1> QED
  BY <1>19, <1>20, <1>21, <1>22 DEF BisimInv

\* The invariant of the refinement of the blocks.
THEOREM BisimInvariant == BisimSpec => []BisimInv
<1>1. BisimInv /\ [BisimNext]_bisimVars => BisimInv'
  <2> SUFFICES ASSUME BisimInv, [BisimNext]_bisimVars PROVE BisimInv'
    OBVIOUS
  <2>1. CASE UNCHANGED bisimVars
    <3>1. /\ UNCHANGED <<blocks, world_to_block, pos, upto, pending, changed, dangling, answer>>
          /\ UNCHANGED inputs /\ UNCHANGED world_to_block
      BY <2>1 DEF bisimVars, inputs
    <3>2. Partitioned' /\ BlocksAlike' /\ BisimilarTogether'
      BY <3>1, InputsStay DEF BisimInv, Partitioned, BlocksAlike, BisimilarTogether
    <3>3. BlocksMatch' <=> BlocksMatch
      BY <3>1 DEF BlocksMatch, From1, Designated, inputs
    <3>4. \A w, v : RelationsEqual(w, v)' <=> RelationsEqual(w, v)
      BY <3>1, RelationsStay
    <3>5. RoundSound'
      BY <3>1, <3>3, <3>4 DEF BisimInv, RoundSound, Answered
    <3> QED
      BY <3>2, <3>5 DEF BisimInv
  <2> QED
    BY <2>1, RefinePreserves, FreedPreserves, MovePreserves, RoundPreserves, AnswerPreserves DEF BisimNext
<1> QED
  BY <1>1, InitialPartition, PTL DEF BisimSpec

\* When the comparison is over, every block is uniform and no world is pending.
LEMMA FinalPartition ==
  ASSUME BisimInv, Answered
  PROVE  /\ \A b \in DOMAIN blocks, w \in Worlds : w \in ToSet(blocks[b]) <=> world_to_block[w] = b
         /\ \A w, v \in Worlds : world_to_block[w] = world_to_block[v] => RelationsEqual(w, v)
<1>1. /\ ~changed /\ pos > upto /\ pending = <<>> /\ upto = Len(blocks) /\ pos \in Nat
      /\ \A b \in DOMAIN blocks : b < pos => \A w, v \in ToSet(blocks[b]) : RelationsEqual(w, v)
  BY DEF BisimInv, RoundSound
<1>2. /\ blocks \in Seq(Seq(Worlds)) /\ world_to_block \in [Worlds -> DOMAIN blocks]
      /\ \A b \in DOMAIN blocks, w \in Worlds : w \in ToSet(blocks[b]) <=> world_to_block[w] = b /\ w \notin ToSet(pending)
  BY DEF BisimInv, Partitioned
<1>3. ToSet(pending) = {}
  <2>1. DOMAIN <<>> = {}
    OBVIOUS
  <2> QED
    BY <2>1, <1>1, Zenon DEF ToSet
<1>4. \A b \in DOMAIN blocks, w \in Worlds : w \in ToSet(blocks[b]) <=> world_to_block[w] = b
  BY <1>2, <1>3
<1>5. DOMAIN blocks = 1 .. Len(blocks) /\ Len(blocks) \in Nat
  BY <1>2
<1>6. \A b \in DOMAIN blocks : b < pos
  BY <1>1, <1>5
<1>7. ASSUME NEW w \in Worlds, NEW v \in Worlds, world_to_block[w] = world_to_block[v] PROVE RelationsEqual(w, v)
  <2>1. world_to_block[w] \in DOMAIN blocks
    BY <1>2
  <2>2. w \in ToSet(blocks[world_to_block[w]]) /\ v \in ToSet(blocks[world_to_block[w]])
    BY <2>1, <1>4, <1>7
  <2> QED
    BY <2>1, <2>2, <1>1, <1>6
<1> QED
  BY <1>4, <1>7

\* The final blocks are the classes of the largest bisimulation.
LEMMA FinalBlocks ==
  ASSUME BisimInv, Answered
  PROVE  \A w \in DOMAIN s1.worlds, v \in DOMAIN s2.worlds :
           <<w, v>> \in Largest(s1, s2) <=> world_to_block[w] = world_to_block[Second(v)]
<1> DEFINE D1 == DOMAIN s1.worlds
           D2 == DOMAIN s2.worlds
           R == {p \in D1 \X D2 : world_to_block[p[1]] = world_to_block[Second(p[2])]}
<1>1. IsState(s1) /\ IsState(s2) /\ BlocksAlike /\ BisimilarTogether
  BY DEF BisimInv, Partitioned
<1>2. /\ \A w \in D1 : w \in Worlds /\ MergedWorlds[w] = s1.worlds[w]
      /\ \A v \in D2 : Second(v) \in Worlds /\ MergedWorlds[Second(v)] = s2.worlds[v]
  BY <1>1, MergedFacts
<1>3. IsBisimulation(s1, s2, R)
  <2> SUFFICES ASSUME NEW p \in R
               PROVE  /\ s1.worlds[p[1]] = s2.worlds[p[2]]
                      /\ \A i \in Agents :
                           /\ \A q \in s1.rel[i] : q[1] = p[1] => \E u \in s2.rel[i] : u[1] = p[2] /\ <<q[2], u[2]>> \in R
                           /\ \A u \in s2.rel[i] : u[1] = p[2] => \E q \in s1.rel[i] : q[1] = p[1] /\ <<q[2], u[2]>> \in R
    BY DEF IsBisimulation
  <2>1. p[1] \in D1 /\ p[2] \in D2 /\ world_to_block[p[1]] = world_to_block[Second(p[2])]
    OBVIOUS
  <2>2. s1.worlds[p[1]] = s2.worlds[p[2]]
    BY <2>1, <1>1, <1>2 DEF BlocksAlike
  <2>3. RelationsEqual(p[1], Second(p[2]))
    BY <2>1, <1>2, FinalPartition
  <2>4. ASSUME NEW i \in Agents
        PROVE  /\ \A q \in s1.rel[i] : q[1] = p[1] => \E u \in s2.rel[i] : u[1] = p[2] /\ <<q[2], u[2]>> \in R
               /\ \A u \in s2.rel[i] : u[1] = p[2] => \E q \in s1.rel[i] : q[1] = p[1] /\ <<q[2], u[2]>> \in R
    <3> DEFINE A == Successors(i, p[1])
               B == Successors(i, Second(p[2]))
    <3>1. {world_to_block[x] : x \in A} = {world_to_block[x] : x \in B}
      BY <2>3 DEF RelationsEqual
    <3>2. s1.rel[i] \subseteq D1 \X D1 /\ s2.rel[i] \subseteq D2 \X D2
      BY <1>1 DEF IsState
    <3>3. \A x : x \in A <=> <<p[1], x>> \in s1.rel[i]
      BY <2>1, <1>1, SuccessorFacts
    <3>4. \A y : y \in B <=> \E u \in D2 : y = Second(u) /\ <<p[2], u>> \in s2.rel[i]
      BY <2>1, <1>1, SuccessorFacts
    <3>a. \A x \in A : \E y \in B : world_to_block[x] = world_to_block[y]
      BY <3>1
    <3>b. \A y \in B : \E x \in A : world_to_block[x] = world_to_block[y]
      BY <3>1
    <3> HIDE DEF A, B, D1, D2
    <3>5. ASSUME NEW q \in s1.rel[i], q[1] = p[1]
          PROVE  \E u \in s2.rel[i] : u[1] = p[2] /\ <<q[2], u[2]>> \in R
      <4>1. q = <<p[1], q[2]>> /\ q[2] \in D1
        BY <3>2, <3>5
      <4>2. q[2] \in A
        BY <4>1, <3>3
      <4>3. PICK y \in B : world_to_block[q[2]] = world_to_block[y]
        BY <4>2, <3>a
      <4>4. PICK v \in D2 : y = Second(v) /\ <<p[2], v>> \in s2.rel[i]
        BY <3>4
      <4>5. <<q[2], v>> \in R
        BY <4>1, <4>3, <4>4
      <4> QED
        BY <4>4, <4>5
    <3>6. ASSUME NEW u \in s2.rel[i], u[1] = p[2]
          PROVE  \E q \in s1.rel[i] : q[1] = p[1] /\ <<q[2], u[2]>> \in R
      <4>1. u = <<p[2], u[2]>> /\ u[2] \in D2
        BY <3>2, <3>6
      <4>2. Second(u[2]) \in B
        BY <4>1, <3>4
      <4>3. PICK x \in A : world_to_block[x] = world_to_block[Second(u[2])]
        BY <4>2, <3>b
      <4>4. <<p[1], x>> \in s1.rel[i] /\ x \in D1
        BY <3>2, <3>3
      <4>5. <<x, u[2]>> \in R
        BY <4>1, <4>3, <4>4
      <4> QED
        BY <4>4, <4>5
    <3> QED
      BY <3>5, <3>6
  <2> HIDE DEF R
  <2> QED
    BY <2>2, <2>4
<1>4. R \subseteq Largest(s1, s2)
  <2>1. R \in SUBSET (D1 \X D2)
    OBVIOUS
  <2> HIDE DEF R
  <2> QED
    BY <2>1, <1>3, LargestFacts
<1>5. ASSUME NEW w \in D1, NEW v \in D2
      PROVE  <<w, v>> \in Largest(s1, s2) <=> world_to_block[w] = world_to_block[Second(v)]
  <2>1. <<w, v>> \in Largest(s1, s2) => world_to_block[w] = world_to_block[Second(v)]
    BY <1>1 DEF BisimilarTogether
  <2>2. world_to_block[w] = world_to_block[Second(v)] => <<w, v>> \in R
    OBVIOUS
  <2> HIDE DEF R
  <2> QED
    BY <2>1, <2>2, <1>4
<1> QED
  BY <1>5

LEMMA BlocksFromInv == BisimInv => BlocksAreBisimilarity
<1> SUFFICES ASSUME BisimInv, Answered PROVE BlocksAreBisimilarity
  BY DEF BlocksAreBisimilarity
<1> DEFINE D1 == DOMAIN s1.worlds
           D2 == DOMAIN s2.worlds
           R == {p \in D1 \X D2 : world_to_block[p[1]] = world_to_block[p[2] + Len(s1.worlds)]}
<1>1. Largest(s1, s2) \subseteq D1 \X D2
  BY LargestFacts
<1>2. \A w \in D1, v \in D2 : <<w, v>> \in Largest(s1, s2) <=> world_to_block[w] = world_to_block[v + Len(s1.worlds)]
  BY FinalBlocks DEF Second
<1>3. \A p \in D1 \X D2 : p \in Largest(s1, s2) <=> world_to_block[p[1]] = world_to_block[p[2] + Len(s1.worlds)]
  BY <1>2
<1>4. R = Largest(s1, s2)
  BY <1>1, <1>3
<1> QED
  BY <1>4 DEF BlocksAreBisimilarity

\* When the refinement stops, two worlds are in one block exactly if they are
\* bisimilar, for any states with any relations.  A comparison that reads freed
\* blocks after the reallocation in move_worlds_to_new_block is covered as far
\* as it finds them empty; one that finds something else is undefined, and
\* nothing is claimed of it.
THEOREM RefinementIsRight == BisimSpec => []BlocksAreBisimilarity
  BY BisimInvariant, BlocksFromInv, PTL

\* The loop over the blocks at the end of is_bisimilar finds out whether the
\* states are bisimilar.
LEMMA MatchIsBisimilarity ==
  ASSUME BisimInv, Answered
  PROVE  BlocksMatch <=> AreBisimilar(s1, s2)
<1> DEFINE D1 == DOMAIN s1.worlds
           D2 == DOMAIN s2.worlds
           r == Largest(s1, s2)
           Block(b) == ToSet(blocks[b])
<1>1. /\ IsState(s1) /\ IsState(s2) /\ world_to_block \in [Worlds -> DOMAIN blocks]
      /\ blocks \in Seq(Seq(Worlds)) /\ \A b \in DOMAIN blocks : blocks[b] # <<>>
  BY DEF BisimInv, Partitioned
<1>2. s1.designated \subseteq D1 /\ s2.designated \subseteq D2
  BY <1>1 DEF IsState
<1>3. /\ \A w \in D1 : w \in Worlds /\ From1(w)
      /\ \A v \in D2 : Second(v) \in Worlds /\ ~From1(Second(v)) /\ Second(v) - Len(s1.worlds) = v
      /\ \A x \in Worlds : From1(x) => x \in D1
      /\ \A x \in Worlds : ~From1(x) => \E v \in D2 : x = Second(v)
  BY <1>1, MergedFacts
<1>4. \A w \in D1, v \in D2 : <<w, v>> \in r <=> world_to_block[w] = world_to_block[Second(v)]
  BY FinalBlocks
<1>5. \A b \in DOMAIN blocks, w \in Worlds : w \in Block(b) <=> world_to_block[w] = b
  BY FinalPartition
<1>6. \A b \in DOMAIN blocks : Block(b) # {} /\ Block(b) \subseteq Worlds
  <2> SUFFICES ASSUME NEW b \in DOMAIN blocks PROVE Block(b) # {} /\ Block(b) \subseteq Worlds
    OBVIOUS
  <2>1. blocks[b] \in Seq(Worlds) /\ blocks[b] # <<>>
    BY <1>1
  <2>2. 1 \in DOMAIN blocks[b] /\ \A k \in DOMAIN blocks[b] : blocks[b][k] \in Worlds
    BY <2>1
  <2> QED
    BY <2>2, Zenon DEF ToSet
<1>7. /\ \A w \in D1 : Designated(w) <=> w \in s1.designated
      /\ \A v \in D2 : Designated(Second(v)) <=> v \in s2.designated
  BY <1>3 DEF Designated
<1>8. BlocksMatch <=> \A b \in DOMAIN blocks :
                        /\ {From1(w) : w \in Block(b)} = BOOLEAN
                        /\ (\E w \in Block(b) : From1(w) /\ Designated(w)) <=> (\E w \in Block(b) : ~From1(w) /\ Designated(w))
  BY DEF BlocksMatch
<1>9. \A b \in DOMAIN blocks : {From1(w) : w \in Block(b)} = BOOLEAN
                                 <=> (\E w \in Block(b) : From1(w)) /\ (\E w \in Block(b) : ~From1(w))
  <2>1. \A w : From1(w) \in BOOLEAN
    BY DEF From1
  <2> SUFFICES ASSUME NEW b \in DOMAIN blocks
               PROVE  {From1(w) : w \in Block(b)} = BOOLEAN
                        <=> (\E w \in Block(b) : From1(w)) /\ (\E w \in Block(b) : ~From1(w))
    OBVIOUS
  <2> DEFINE X == {From1(w) : w \in Block(b)}
  <2> HIDE DEF Block
  <2>2. TRUE \in X <=> \E w \in Block(b) : From1(w)
    <3>1. TRUE \in X <=> \E w \in Block(b) : TRUE = From1(w)
      BY Zenon
    <3>2. \A w : TRUE = From1(w) <=> From1(w)
      BY <2>1, Zenon
    <3> QED
      BY <3>1, <3>2, Zenon
  <2>3. FALSE \in X <=> \E w \in Block(b) : ~From1(w)
    <3>1. FALSE \in X <=> \E w \in Block(b) : FALSE = From1(w)
      BY Zenon
    <3>2. \A w : FALSE = From1(w) <=> ~From1(w)
      BY <2>1, Zenon
    <3> QED
      BY <3>1, <3>2, Zenon
  <2>4. X \subseteq BOOLEAN
    BY <2>1, Zenon
  <2> HIDE DEF X
  <2>5. X = BOOLEAN <=> TRUE \in X /\ FALSE \in X
    BY <2>4, Zenon
  <2> QED
    BY <2>2, <2>3, <2>5 DEF X
<1>10. AreBisimilar(s1, s2) <=>
      /\ \A w \in D1 : \E v \in D2 : <<w, v>> \in r
      /\ \A v \in D2 : \E w \in D1 : <<w, v>> \in r
      /\ \A w \in s1.designated : \E v \in s2.designated : <<w, v>> \in r
      /\ \A v \in s2.designated : \E w \in s1.designated : <<w, v>> \in r
  BY DEF AreBisimilar
<1> HIDE DEF D1, D2, r, Block
<1>11. ASSUME BlocksMatch PROVE AreBisimilar(s1, s2)
  <2>1. \A b \in DOMAIN blocks : (\E w \in Block(b) : From1(w)) /\ (\E w \in Block(b) : ~From1(w))
    BY <1>8, <1>9, <1>11
  <2>2. \A b \in DOMAIN blocks : (\E w \in Block(b) : From1(w) /\ Designated(w)) <=> (\E w \in Block(b) : ~From1(w) /\ Designated(w))
    BY <1>8, <1>11
  <2>3. ASSUME NEW w \in D1 PROVE \E v \in D2 : <<w, v>> \in r
    <3>1. w \in Worlds /\ world_to_block[w] \in DOMAIN blocks
      BY <1>1, <1>3
    <3>2. PICK x \in Block(world_to_block[w]) : ~From1(x)
      BY <3>1, <2>1
    <3>3. x \in Worlds /\ world_to_block[x] = world_to_block[w]
      BY <3>1, <3>2, <1>5, <1>6
    <3> QED
      BY <3>2, <3>3, <1>3, <1>4
  <2>4. ASSUME NEW v \in D2 PROVE \E w \in D1 : <<w, v>> \in r
    <3>1. Second(v) \in Worlds /\ world_to_block[Second(v)] \in DOMAIN blocks
      BY <1>1, <1>3
    <3>2. PICK x \in Block(world_to_block[Second(v)]) : From1(x)
      BY <3>1, <2>1
    <3>3. x \in Worlds /\ world_to_block[x] = world_to_block[Second(v)]
      BY <3>1, <3>2, <1>5, <1>6
    <3> QED
      BY <3>2, <3>3, <1>3, <1>4
  <2>5. ASSUME NEW w \in s1.designated PROVE \E v \in s2.designated : <<w, v>> \in r
    <3>1. w \in D1 /\ w \in Worlds /\ world_to_block[w] \in DOMAIN blocks /\ From1(w) /\ Designated(w)
      BY <1>1, <1>2, <1>3, <1>7
    <3>2. w \in Block(world_to_block[w])
      BY <3>1, <1>5
    <3>3. PICK x \in Block(world_to_block[w]) : ~From1(x) /\ Designated(x)
      BY <3>1, <3>2, <2>2
    <3>4. x \in Worlds /\ world_to_block[x] = world_to_block[w]
      BY <3>1, <3>3, <1>5, <1>6
    <3> QED
      BY <3>1, <3>3, <3>4, <1>3, <1>4, <1>7
  <2>6. ASSUME NEW v \in s2.designated PROVE \E w \in s1.designated : <<w, v>> \in r
    <3> DEFINE y == Second(v)
    <3>1. v \in D2 /\ y \in Worlds /\ world_to_block[y] \in DOMAIN blocks /\ ~From1(y) /\ Designated(y)
      BY <1>1, <1>2, <1>3, <1>7
    <3>2. y \in Block(world_to_block[y])
      BY <3>1, <1>5
    <3>3. PICK x \in Block(world_to_block[y]) : From1(x) /\ Designated(x)
      BY <3>1, <3>2, <2>2
    <3>4. x \in Worlds /\ world_to_block[x] = world_to_block[y]
      BY <3>1, <3>3, <1>5, <1>6
    <3> QED
      BY <3>1, <3>3, <3>4, <1>3, <1>4, <1>7
  <2> QED
    BY <2>3, <2>4, <2>5, <2>6, <1>10
<1>12. ASSUME AreBisimilar(s1, s2) PROVE BlocksMatch
  <2> SUFFICES ASSUME NEW b \in DOMAIN blocks
               PROVE  /\ (\E w \in Block(b) : From1(w)) /\ (\E w \in Block(b) : ~From1(w))
                      /\ (\E w \in Block(b) : From1(w) /\ Designated(w)) <=> (\E w \in Block(b) : ~From1(w) /\ Designated(w))
    BY <1>8, <1>9
  <2>0. /\ \A w \in D1 : \E v \in D2 : <<w, v>> \in r
        /\ \A v \in D2 : \E w \in D1 : <<w, v>> \in r
        /\ \A w \in s1.designated : \E v \in s2.designated : <<w, v>> \in r
        /\ \A v \in s2.designated : \E w \in s1.designated : <<w, v>> \in r
    BY <1>10, <1>12
  <2>1. \A w \in D1 : w \in Block(b) => \A v \in D2 : <<w, v>> \in r => Second(v) \in Block(b)
    BY <1>3, <1>4, <1>5
  <2>2. \A v \in D2 : Second(v) \in Block(b) => \A w \in D1 : <<w, v>> \in r => w \in Block(b)
    BY <1>3, <1>4, <1>5
  <2>d. (\E w \in Block(b) : From1(w) /\ Designated(w)) <=> (\E w \in Block(b) : ~From1(w) /\ Designated(w))
    <3>1. ASSUME NEW w \in Block(b), From1(w), Designated(w) PROVE \E y \in Block(b) : ~From1(y) /\ Designated(y)
      <4>1. w \in D1 /\ w \in s1.designated
        BY <3>1, <1>3, <1>6, <1>7
      <4>2. PICK v \in s2.designated : <<w, v>> \in r
        BY <4>1, <2>0
      <4>3. v \in D2 /\ Second(v) \in Block(b) /\ ~From1(Second(v)) /\ Designated(Second(v))
        BY <4>1, <4>2, <2>1, <1>2, <1>3, <1>7
      <4> QED
        BY <4>3
    <3>2. ASSUME NEW w \in Block(b), ~From1(w), Designated(w) PROVE \E y \in Block(b) : From1(y) /\ Designated(y)
      <4>1. PICK v \in D2 : w = Second(v)
        BY <3>2, <1>3, <1>6
      <4>2. v \in s2.designated
        BY <4>1, <3>2, <1>7
      <4>3. PICK y \in s1.designated : <<y, v>> \in r
        BY <4>2, <2>0
      <4>4. y \in D1 /\ y \in Block(b) /\ From1(y) /\ Designated(y)
        BY <4>1, <4>3, <2>2, <1>2, <1>3, <1>7
      <4> QED
        BY <4>4
    <3> QED
      BY <3>1, <3>2
  <2>3. PICK x \in Block(b) : x \in Worlds
    BY <1>6
  <2>4. CASE From1(x)
    <3>1. x \in D1
      BY <2>3, <2>4, <1>3
    <3>2. PICK v \in D2 : <<x, v>> \in r
      BY <3>1, <2>0
    <3>3. Second(v) \in Block(b) /\ ~From1(Second(v))
      BY <3>1, <3>2, <2>1, <2>3, <1>3
    <3> QED
      BY <2>3, <2>4, <3>3, <2>d
  <2>5. CASE ~From1(x)
    <3>1. PICK v \in D2 : x = Second(v)
      BY <2>3, <2>5, <1>3
    <3>2. PICK w \in D1 : <<w, v>> \in r
      BY <3>1, <2>0
    <3>3. w \in Block(b) /\ From1(w)
      BY <3>1, <3>2, <2>2, <2>3, <1>3
    <3> QED
      BY <2>3, <2>5, <3>3, <2>d
  <2> QED
    BY <2>4, <2>5
<1> QED
  BY <1>11, <1>12

LEMMA AnswerFromInv == BisimInv => AnswerIsBisimilarity
<1> SUFFICES ASSUME BisimInv, Answered PROVE answer = "bisimilar" <=> AreBisimilar(s1, s2)
  BY DEF AnswerIsBisimilarity
<1>1. answer = "bisimilar" <=> BlocksMatch
  BY DEF BisimInv, RoundSound
<1> QED
  BY <1>1, MatchIsBisimilarity

-----------------------------------------------------------------------------
(* What bisimilar states have in common                                    *)

\* The places of a state.
LEMMA StatePlaces ==
  ASSUME NEW s, IsState(s)
  PROVE  /\ Len(s.worlds) \in Nat /\ DOMAIN s.worlds = 1 .. Len(s.worlds)
         /\ s.designated \in SUBSET (1 .. Len(s.worlds))
<1>1. s.worlds \in Seq(SUBSET Props) /\ s.designated \subseteq DOMAIN s.worlds
  BY DEF IsState
<1> DEFINE ws == s.worlds
<1> HIDE DEF ws
<1>2. ws \in Seq(SUBSET Props)
  BY <1>1 DEF ws
<1>3. Len(ws) \in Nat /\ DOMAIN ws = 1 .. Len(ws)
  BY <1>2
<1> QED
  BY <1>1, <1>3 DEF ws

\* A formula holds in both of two bisimilar states or in neither.
LEMMA BisimilarHolds ==
  ASSUME NEW s, NEW t, AreBisimilar(s, t), NEW f
  PROVE  Holds(s, f) <=> Holds(t, f)
<1>1. /\ \A w \in s.designated : \E v \in t.designated : <<w, v>> \in Largest(s, t)
      /\ \A v \in t.designated : \E w \in s.designated : <<w, v>> \in Largest(s, t)
  BY DEF AreBisimilar
<1>2. \A w, v : <<w, v>> \in Largest(s, t) => s.worlds[w] = t.worlds[v]
  BY LargestFacts DEF IsBisimulation
<1> QED
  BY <1>1, <1>2 DEF Holds

LEMMA ReachablesClosure ==
  ASSUME NEW s, IsState(s), NEW i
  PROVE  /\ s.designated \subseteq DesignatedReachables(s, i) /\ DesignatedReachables(s, i) \subseteq DOMAIN s.worlds
         /\ IsClosed(s, i, DesignatedReachables(s, i))
         /\ \A C \in SUBSET DOMAIN s.worlds : s.designated \subseteq C /\ IsClosed(s, i, C) => DesignatedReachables(s, i) \subseteq C
<1>1. Len(s.worlds) \in Nat /\ DOMAIN s.worlds = 1 .. Len(s.worlds) /\ s.designated \in SUBSET DOMAIN s.worlds
  BY StatePlaces
<1>2. IsClosure(s, i, s.designated, Reach(s, i, s.designated))
  BY <1>1, ReachIsClosure
<1> QED
  BY <1>2 DEF IsClosure, DesignatedReachables

\* What an agent reaches in one state has its like in the other.
LEMMA BisimilarReachables ==
  ASSUME NEW s, NEW t, IsState(s), IsState(t), AreBisimilar(s, t), NEW i \in Agents
  PROVE  /\ \A w \in DesignatedReachables(s, i) : \E v \in DesignatedReachables(t, i) : s.worlds[w] = t.worlds[v]
         /\ \A v \in DesignatedReachables(t, i) : \E w \in DesignatedReachables(s, i) : s.worlds[w] = t.worlds[v]
<1> DEFINE r == Largest(s, t)
           A == DesignatedReachables(s, i)
           B == DesignatedReachables(t, i)
           D1 == DOMAIN s.worlds
           D2 == DOMAIN t.worlds
<1>1. /\ \A w \in s.designated : \E v \in t.designated : <<w, v>> \in r
      /\ \A v \in t.designated : \E w \in s.designated : <<w, v>> \in r
  BY DEF AreBisimilar
<1>2. s.designated \subseteq D1 /\ t.designated \subseteq D2
  BY DEF IsState
<1>3. s.rel[i] \subseteq D1 \X D1 /\ t.rel[i] \subseteq D2 \X D2
  BY DEF IsState
<1>4. /\ s.designated \subseteq A /\ A \subseteq D1 /\ IsClosed(s, i, A)
      /\ \A C \in SUBSET D1 : s.designated \subseteq C /\ IsClosed(s, i, C) => A \subseteq C
  BY ReachablesClosure
<1>5. /\ t.designated \subseteq B /\ B \subseteq D2 /\ IsClosed(t, i, B)
      /\ \A C \in SUBSET D2 : t.designated \subseteq C /\ IsClosed(t, i, C) => B \subseteq C
  BY ReachablesClosure
<1>6. /\ r \subseteq D1 \X D2
      /\ \A w, v : <<w, v>> \in r => s.worlds[w] = t.worlds[v]
      /\ \A w, v, x : <<w, v>> \in r /\ <<w, x>> \in s.rel[i] => \E y : <<v, y>> \in t.rel[i] /\ <<x, y>> \in r
      /\ \A w, v, y : <<w, v>> \in r /\ <<v, y>> \in t.rel[i] => \E x : <<w, x>> \in s.rel[i] /\ <<x, y>> \in r
  <2>1. IsBisimulation(s, t, r) /\ r \subseteq D1 \X D2
    BY LargestFacts
  <2> HIDE DEF r
  <2>2. \A w, v : <<w, v>> \in r => s.worlds[w] = t.worlds[v]
    BY <2>1 DEF IsBisimulation
  <2>3. ASSUME NEW w, NEW v, NEW x, <<w, v>> \in r, <<w, x>> \in s.rel[i]
        PROVE  \E y : <<v, y>> \in t.rel[i] /\ <<x, y>> \in r
    <3>0. \A p \in r : \A q \in s.rel[i] : q[1] = p[1] => \E u \in t.rel[i] : u[1] = p[2] /\ <<q[2], u[2]>> \in r
      BY <2>1 DEF IsBisimulation
    <3>1. PICK u \in t.rel[i] : u[1] = v /\ <<x, u[2]>> \in r
      BY <3>0, <2>3, SMTT(30)
    <3>2. u = <<v, u[2]>>
      BY <3>1, <1>3
    <3> QED
      BY <3>1, <3>2
  <2>4. ASSUME NEW w, NEW v, NEW y, <<w, v>> \in r, <<v, y>> \in t.rel[i]
        PROVE  \E x : <<w, x>> \in s.rel[i] /\ <<x, y>> \in r
    <3>0. \A p \in r : \A u \in t.rel[i] : u[1] = p[2] => \E q \in s.rel[i] : q[1] = p[1] /\ <<q[2], u[2]>> \in r
      BY <2>1 DEF IsBisimulation
    <3>1. PICK q \in s.rel[i] : q[1] = w /\ <<q[2], y>> \in r
      BY <3>0, <2>4
    <3>2. q = <<w, q[2]>>
      BY <3>1, <1>3
    <3> QED
      BY <3>1, <3>2
  <2> QED
    BY <2>1, <2>2, <2>3, <2>4
<1> HIDE DEF r, A, B
<1>7. \A w \in A : \E v \in B : <<w, v>> \in r
  <2> DEFINE C == {w \in D1 : \E v \in B : <<w, v>> \in r}
  <2>1. s.designated \subseteq C
    BY <1>1, <1>2, <1>5
  <2>2. IsClosed(s, i, C)
    <3> SUFFICES ASSUME NEW w \in C, NEW x \in D1, <<w, x>> \in s.rel[i] PROVE x \in C
      BY DEF IsClosed
    <3>1. PICK v \in B : <<w, v>> \in r
      OBVIOUS
    <3>2. PICK y : <<v, y>> \in t.rel[i] /\ <<x, y>> \in r
      BY <3>1, <1>6
    <3>3. y \in D2
      BY <3>2, <1>6
    <3>4. y \in B
      BY <3>2, <3>3, <1>2, <1>5 DEF IsClosed
    <3> QED
      BY <3>2, <3>4
  <2>3. C \in SUBSET D1
    OBVIOUS
  <2>4. A \subseteq C
    BY <2>1, <2>2, <2>3, <1>4
  <2> QED
    BY <2>4
<1>8. \A v \in B : \E w \in A : <<w, v>> \in r
  <2> DEFINE C == {v \in D2 : \E w \in A : <<w, v>> \in r}
  <2>1. t.designated \subseteq C
    BY <1>1, <1>2, <1>4
  <2>2. IsClosed(t, i, C)
    <3> SUFFICES ASSUME NEW v \in C, NEW y \in D2, <<v, y>> \in t.rel[i] PROVE y \in C
      BY DEF IsClosed
    <3>1. PICK w \in A : <<w, v>> \in r
      OBVIOUS
    <3>2. PICK x : <<w, x>> \in s.rel[i] /\ <<x, y>> \in r
      BY <3>1, <1>6
    <3>3. x \in D1
      BY <3>2, <1>6
    <3>4. x \in A
      BY <3>2, <3>3, <1>2, <1>4 DEF IsClosed
    <3> QED
      BY <3>2, <3>4
  <2>3. C \in SUBSET D2
    OBVIOUS
  <2>4. B \subseteq C
    BY <2>1, <2>2, <2>3, <1>5
  <2> QED
    BY <2>4
<1> QED
  BY <1>6, <1>7, <1>8 DEF A, B

\* The same actions are applicable in bisimilar states.
LEMMA BisimilarApplicable ==
  ASSUME NEW s, NEW t, IsState(s), IsState(t), AreBisimilar(s, t), NEW a, IsAction(a)
  PROVE  IsApplicable(s, a) <=> IsApplicable(t, a)
<1>1. a.owner \in Agents
  BY DEF IsAction
<1>2. /\ \A w \in DesignatedReachables(s, a.owner) : \E v \in DesignatedReachables(t, a.owner) : s.worlds[w] = t.worlds[v]
      /\ \A v \in DesignatedReachables(t, a.owner) : \E w \in DesignatedReachables(s, a.owner) : s.worlds[w] = t.worlds[v]
  BY <1>1, BisimilarReachables
<1> QED
  BY <1>2 DEF IsApplicable

Fits(s, a, w, e) == Valuate(a.events[e].pre, s.worlds[w])

\* P is the product of state s and action a, the world k of P comes from world
\* wo[k] by event ev[k].
IsProduct(s, a, P, wo, ev) ==
  /\ Len(P.worlds) \in Nat /\ DOMAIN P.worlds = 1 .. Len(P.worlds)
  /\ \A k \in DOMAIN P.worlds :
       /\ wo[k] \in DOMAIN s.worlds /\ ev[k] \in DOMAIN a.events /\ Fits(s, a, wo[k], ev[k])
       /\ P.worlds[k] = (s.worlds[wo[k]] \ a.events[ev[k]].del) \cup a.events[ev[k]].add
  /\ \A w \in DOMAIN s.worlds, e \in DOMAIN a.events : Fits(s, a, w, e) => \E k \in DOMAIN P.worlds : wo[k] = w /\ ev[k] = e
  /\ \A k : k \in P.designated <=> k \in DOMAIN P.worlds /\ wo[k] \in s.designated /\ ev[k] \in a.designated
  /\ \A i \in Agents : P.rel[i] = {p \in (DOMAIN P.worlds) \X (DOMAIN P.worlds) :
                                     <<wo[p[1]], wo[p[2]]>> \in s.rel[i] /\ <<ev[p[1]], ev[p[2]]>> \in a.rel[i]}

\* perform_product_update makes the product.
LEMMA ProductUpdateIsProduct ==
  ASSUME NEW s, Len(s.worlds) \in Nat, DOMAIN s.worlds = 1 .. Len(s.worlds), NEW a, IsAction(a)
  PROVE  \E wo, ev : IsProduct(s, a, ProductUpdate(s, a), wo, ev)
<1>a. PICK n \in Nat : Len(s.worlds) = n /\ DOMAIN s.worlds = 1 .. n
  OBVIOUS
<1>b. PICK m \in Nat : Len(a.events) = m /\ DOMAIN a.events = 1 .. m
  BY DEF IsAction
<1> DEFINE World(k) == ((k - 1) \div Len(a.events)) + 1
           Ev(k) == ((k - 1) % Len(a.events)) + 1
           K == {k \in 1 .. Len(s.worlds) * Len(a.events) : Valuate(a.events[Ev(k)].pre, s.worlds[World(k)])}
           entry == Sorted(K)
           c == Cardinality(K)
           wo == [k \in 1 .. c |-> World(entry[k])]
           ev == [k \in 1 .. c |-> Ev(entry[k])]
           P == ProductUpdate(s, a)
<1>c. P = [worlds |-> [k \in DOMAIN entry |->
                     (s.worlds[World(entry[k])] \ a.events[Ev(entry[k])].del) \cup a.events[Ev(entry[k])].add],
           designated |-> {k \in DOMAIN entry : World(entry[k]) \in s.designated /\ Ev(entry[k]) \in a.designated},
           rel |-> [i \in Agents |-> {p \in (DOMAIN entry) \X (DOMAIN entry) :
                  /\ <<World(entry[p[1]]), World(entry[p[2]])>> \in s.rel[i]
                  /\ <<Ev(entry[p[1]]), Ev(entry[p[2]])>> \in a.rel[i]}]]
  BY DEF ProductUpdate
<1>i. \A k : World(k) = ((k - 1) \div m) + 1 /\ Ev(k) = ((k - 1) % m) + 1
  BY <1>b
<1>f. \A k : k \in K <=> k \in 1 .. n * m /\ Fits(s, a, World(k), Ev(k))
  <2> HIDE DEF World, Ev
  <2> QED
    BY <1>a, <1>b DEF Fits
<1> HIDE DEF World, Ev, K, P
<1>d. \A k \in 1 .. n * m : World(k) \in 1 .. n /\ Ev(k) \in 1 .. m
  <2> SUFFICES ASSUME NEW k \in 1 .. n * m PROVE World(k) \in 1 .. n /\ Ev(k) \in 1 .. m
    OBVIOUS
  <2>1. m # 0
    <3>1. n * 0 = 0
      OBVIOUS
    <3> QED
      BY <3>1
  <2>2. m \in Nat \ {0}
    BY <2>1
  <2>3. ((k - 1) \div m) + 1 \in 1 .. n /\ ((k - 1) % m) + 1 \in 1 .. m
    BY <2>2, TableRow, Zenon
  <2> QED
    BY <2>3, <1>i, Zenon
<1>e. ASSUME NEW w \in 1 .. n, NEW e \in 1 .. m PROVE \E k \in 1 .. n * m : World(k) = w /\ Ev(k) = e
  <2>1. m \in Nat \ {0}
    OBVIOUS
  <2>2. IsPlace(n, m, w, e)
    BY <2>1, TablePlace
  <2> QED
    BY <2>2, <1>i, Zenon DEF IsPlace
<1>g. n * m \in Nat
  OBVIOUS
<1>h. K \in SUBSET (1 .. n * m)
  BY <1>f
<1>1. c \in Nat /\ entry \in [1 .. c -> K] /\ \A x \in K : \E k \in 1 .. c : entry[k] = x
  BY <1>g, <1>h, SortedNumbers
<1> HIDE DEF c, entry
<1>2. DOMAIN entry = 1 .. c /\ \A k \in 1 .. c : entry[k] \in K
  BY <1>1
<1>3. /\ P.worlds = [k \in 1 .. c |-> (s.worlds[wo[k]] \ a.events[ev[k]].del) \cup a.events[ev[k]].add]
      /\ P.designated = {k \in 1 .. c : wo[k] \in s.designated /\ ev[k] \in a.designated}
      /\ P.rel = [i \in Agents |-> {p \in (1 .. c) \X (1 .. c) : 
                  /\ <<wo[p[1]], wo[p[2]]>> \in s.rel[i]
                  /\ <<ev[p[1]], ev[p[2]]>> \in a.rel[i]}]
  BY <1>c, <1>2
<1>4. \A k \in 1 .. c : wo[k] \in 1 .. n /\ ev[k] \in 1 .. m /\ Fits(s, a, wo[k], ev[k])
  BY <1>2, <1>d, <1>f
<1>5. \A w \in 1 .. n, e \in 1 .. m : Fits(s, a, w, e) => \E k \in 1 .. c : wo[k] = w /\ ev[k] = e
  <2> SUFFICES ASSUME NEW w \in 1 .. n, NEW e \in 1 .. m, Fits(s, a, w, e) PROVE \E k \in 1 .. c : wo[k] = w /\ ev[k] = e
    OBVIOUS
  <2>1. PICK x \in 1 .. n * m : World(x) = w /\ Ev(x) = e
    BY <1>e
  <2>2. x \in K
    BY <2>1, <1>f
  <2> QED
    BY <2>1, <2>2, <1>1
<1> HIDE DEF wo, ev
<1>6. DOMAIN P.worlds = 1 .. c
  BY <1>3
<1>7. Len(P.worlds) = c
  <2> DEFINE g == P.worlds
  <2>1. g = [k \in 1 .. c |-> g[k]]
    BY <1>3
  <2> HIDE DEF g
  <2>2. g \in [1 .. c -> {g[k] : k \in 1 .. c}]
    BY <2>1
  <2>3. Len(g) = c
    BY <1>1, <2>2
  <2> QED
    BY <2>3 DEF g
<1>8. /\ Len(P.worlds) \in Nat /\ DOMAIN P.worlds = 1 .. Len(P.worlds)
      /\ DOMAIN P.worlds = 1 .. c
  BY <1>1, <1>6, <1>7, Zenon
<1>9. \A k \in 1 .. c : P.worlds[k] = (s.worlds[wo[k]] \ a.events[ev[k]].del) \cup a.events[ev[k]].add
  BY <1>3
<1>10. \A k : k \in P.designated <=> k \in 1 .. c /\ wo[k] \in s.designated /\ ev[k] \in a.designated
  BY <1>3
<1>11. \A i \in Agents : P.rel[i] = {p \in (1 .. c) \X (1 .. c) :
                                     <<wo[p[1]], wo[p[2]]>> \in s.rel[i] /\ <<ev[p[1]], ev[p[2]]>> \in a.rel[i]}
  BY <1>3
<1>12. IsProduct(s, a, P, wo, ev)
  <2> DEFINE D == DOMAIN P.worlds
  <2>1. D = 1 .. c /\ DOMAIN s.worlds = 1 .. n /\ DOMAIN a.events = 1 .. m
    BY <1>8, <1>a, <1>b
  <2> HIDE DEF D
  <2>2. \A k \in D : /\ wo[k] \in DOMAIN s.worlds /\ ev[k] \in DOMAIN a.events /\ Fits(s, a, wo[k], ev[k])
                     /\ P.worlds[k] = (s.worlds[wo[k]] \ a.events[ev[k]].del) \cup a.events[ev[k]].add
    BY <2>1, <1>4, <1>9, Zenon
  <2>3. \A w \in DOMAIN s.worlds, e \in DOMAIN a.events : Fits(s, a, w, e) => \E k \in D : wo[k] = w /\ ev[k] = e
    BY <2>1, <1>5, Zenon
  <2>4. \A k : k \in P.designated <=> k \in D /\ wo[k] \in s.designated /\ ev[k] \in a.designated
    BY <2>1, <1>10, Zenon
  <2>5. \A i \in Agents : P.rel[i] = {p \in D \X D : <<wo[p[1]], wo[p[2]]>> \in s.rel[i] /\ <<ev[p[1]], ev[p[2]]>> \in a.rel[i]}
    BY <2>1, <1>11, Zenon
  <2> QED
    BY <2>2, <2>3, <2>4, <2>5, <1>8, Zenon DEF IsProduct, D
<1> QED
  BY <1>12 DEF P

\* Products of bisimilar states with one action are bisimilar.
LEMMA ProductsBisimilar ==
  ASSUME NEW s, NEW t, IsState(s), IsState(t), AreBisimilar(s, t), NEW a, IsAction(a),
         NEW P, NEW Q, NEW wo, NEW ev, NEW xo, NEW ex, IsProduct(s, a, P, wo, ev), IsProduct(t, a, Q, xo, ex)
  PROVE  AreBisimilar(P, Q)
<1> DEFINE r == Largest(s, t)
           DP == DOMAIN P.worlds
           DQ == DOMAIN Q.worlds
           R == {p \in DP \X DQ : ev[p[1]] = ex[p[2]] /\ <<wo[p[1]], xo[p[2]]>> \in r}
<1>1. /\ \A w \in DOMAIN s.worlds : \E v \in DOMAIN t.worlds : <<w, v>> \in r
      /\ \A v \in DOMAIN t.worlds : \E w \in DOMAIN s.worlds : <<w, v>> \in r
      /\ \A w \in s.designated : \E v \in t.designated : <<w, v>> \in r
      /\ \A v \in t.designated : \E w \in s.designated : <<w, v>> \in r
  BY DEF AreBisimilar
<1>2. r \subseteq (DOMAIN s.worlds) \X (DOMAIN t.worlds) /\ IsBisimulation(s, t, r)
  BY LargestFacts
<1> HIDE DEF r
<1>3. \A w, v : <<w, v>> \in r => s.worlds[w] = t.worlds[v]
  BY <1>2 DEF IsBisimulation
<1>4. \A w, v, e : <<w, v>> \in r => (Fits(s, a, w, e) <=> Fits(t, a, v, e))
  BY <1>3 DEF Fits
<1>5. /\ \A k \in DP : /\ wo[k] \in DOMAIN s.worlds /\ ev[k] \in DOMAIN a.events /\ Fits(s, a, wo[k], ev[k])
                       /\ P.worlds[k] = (s.worlds[wo[k]] \ a.events[ev[k]].del) \cup a.events[ev[k]].add
      /\ \A w \in DOMAIN s.worlds, e \in DOMAIN a.events : Fits(s, a, w, e) => \E k \in DP : wo[k] = w /\ ev[k] = e
      /\ \A k : k \in P.designated <=> k \in DP /\ wo[k] \in s.designated /\ ev[k] \in a.designated
      /\ \A i \in Agents : P.rel[i] = {p \in DP \X DP : <<wo[p[1]], wo[p[2]]>> \in s.rel[i] /\ <<ev[p[1]], ev[p[2]]>> \in a.rel[i]}
  BY DEF IsProduct
<1>6. /\ \A k \in DQ : /\ xo[k] \in DOMAIN t.worlds /\ ex[k] \in DOMAIN a.events /\ Fits(t, a, xo[k], ex[k])
                       /\ Q.worlds[k] = (t.worlds[xo[k]] \ a.events[ex[k]].del) \cup a.events[ex[k]].add
      /\ \A w \in DOMAIN t.worlds, e \in DOMAIN a.events : Fits(t, a, w, e) => \E k \in DQ : xo[k] = w /\ ex[k] = e
      /\ \A k : k \in Q.designated <=> k \in DQ /\ xo[k] \in t.designated /\ ex[k] \in a.designated
      /\ \A i \in Agents : Q.rel[i] = {p \in DQ \X DQ : <<xo[p[1]], xo[p[2]]>> \in t.rel[i] /\ <<ex[p[1]], ex[p[2]]>> \in a.rel[i]}
  BY DEF IsProduct
<1>7. R \in SUBSET (DP \X DQ) /\ \A k, l : <<k, l>> \in R <=> k \in DP /\ l \in DQ /\ ev[k] = ex[l] /\ <<wo[k], xo[l]>> \in r
  OBVIOUS
<1>g. /\ \A p \in R : p = <<p[1], p[2]>>
      /\ \A i \in Agents : s.rel[i] \subseteq (DOMAIN s.worlds) \X (DOMAIN s.worlds)
      /\ \A i \in Agents : t.rel[i] \subseteq (DOMAIN t.worlds) \X (DOMAIN t.worlds)
  BY DEF IsState
<1> HIDE DEF R, DP, DQ
\* Each world of one product with a given origin has partners.
<1>8. ASSUME NEW k \in DP, NEW v, <<wo[k], v>> \in r PROVE \E l \in DQ : xo[l] = v /\ <<k, l>> \in R
  <2>1. v \in DOMAIN t.worlds
    BY <1>2, <1>8
  <2>2. ev[k] \in DOMAIN a.events /\ Fits(t, a, v, ev[k])
    BY <1>4, <1>5, <1>8
  <2>3. PICK l \in DQ : xo[l] = v /\ ex[l] = ev[k]
    BY <2>1, <2>2, <1>6
  <2> QED
    BY <2>3, <1>7, <1>8
<1>9. ASSUME NEW l \in DQ, NEW w, <<w, xo[l]>> \in r PROVE \E k \in DP : wo[k] = w /\ <<k, l>> \in R
  <2>1. w \in DOMAIN s.worlds
    BY <1>2, <1>9
  <2>2. ex[l] \in DOMAIN a.events /\ Fits(s, a, w, ex[l])
    BY <1>4, <1>6, <1>9
  <2>3. PICK k \in DP : wo[k] = w /\ ev[k] = ex[l]
    BY <2>1, <2>2, <1>5
  <2> QED
    BY <2>3, <1>7, <1>9
<1>10. IsBisimulation(P, Q, R)
  <2> SUFFICES ASSUME NEW p \in R
               PROVE  /\ P.worlds[p[1]] = Q.worlds[p[2]]
                      /\ \A i \in Agents :
                           /\ \A q \in P.rel[i] : q[1] = p[1] => \E u \in Q.rel[i] : u[1] = p[2] /\ <<q[2], u[2]>> \in R
                           /\ \A u \in Q.rel[i] : u[1] = p[2] => \E q \in P.rel[i] : q[1] = p[1] /\ <<q[2], u[2]>> \in R
    BY DEF IsBisimulation
  <2>1. p[1] \in DP /\ p[2] \in DQ /\ ev[p[1]] = ex[p[2]] /\ <<wo[p[1]], xo[p[2]]>> \in r
    BY <1>7, <1>g
  <2>2. P.worlds[p[1]] = Q.worlds[p[2]]
    <3>1. s.worlds[wo[p[1]]] = t.worlds[xo[p[2]]]
      BY <2>1, <1>3
    <3>2. P.worlds[p[1]] = (s.worlds[wo[p[1]]] \ a.events[ev[p[1]]].del) \cup a.events[ev[p[1]]].add
      BY <2>1, <1>5
    <3>3. Q.worlds[p[2]] = (t.worlds[xo[p[2]]] \ a.events[ex[p[2]]].del) \cup a.events[ex[p[2]]].add
      BY <2>1, <1>6
    <3> QED
      BY <2>1, <3>1, <3>2, <3>3, Zenon
  <2>3. ASSUME NEW i \in Agents, NEW q \in P.rel[i], q[1] = p[1]
        PROVE  \E u \in Q.rel[i] : u[1] = p[2] /\ <<q[2], u[2]>> \in R
    <3>1. q[2] \in DP /\ <<wo[p[1]], wo[q[2]]>> \in s.rel[i] /\ <<ev[p[1]], ev[q[2]]>> \in a.rel[i]
      BY <2>3, <1>5
    <3>0. \A x \in r : \A y \in s.rel[i] : y[1] = x[1] => \E u \in t.rel[i] : u[1] = x[2] /\ <<y[2], u[2]>> \in r
      BY <1>2 DEF IsBisimulation
    <3>2. PICK z \in t.rel[i] : z[1] = xo[p[2]] /\ <<wo[q[2]], z[2]>> \in r
      BY <3>0, <3>1, <2>1
    <3>3. z = <<xo[p[2]], z[2]>>
      BY <3>2, <1>g
    <3>4. PICK l \in DQ : xo[l] = z[2] /\ <<q[2], l>> \in R
      BY <3>1, <3>2, <1>8
    <3>5. ex[l] = ev[q[2]]
      BY <3>4, <1>7
    <3>6. <<p[2], l>> \in Q.rel[i]
      BY <3>1, <3>3, <3>4, <3>5, <2>1, <1>6
    <3> QED
      BY <3>4, <3>6
  <2>4. ASSUME NEW i \in Agents, NEW u \in Q.rel[i], u[1] = p[2]
        PROVE  \E q \in P.rel[i] : q[1] = p[1] /\ <<q[2], u[2]>> \in R
    <3>1. u[2] \in DQ /\ <<xo[p[2]], xo[u[2]]>> \in t.rel[i] /\ <<ex[p[2]], ex[u[2]]>> \in a.rel[i]
      BY <2>4, <1>6
    <3>0. \A x \in r : \A y \in t.rel[i] : y[1] = x[2] => \E q \in s.rel[i] : q[1] = x[1] /\ <<q[2], y[2]>> \in r
      BY <1>2 DEF IsBisimulation
    <3>2. PICK z \in s.rel[i] : z[1] = wo[p[1]] /\ <<z[2], xo[u[2]]>> \in r
      BY <3>0, <3>1, <2>1
    <3>3. z = <<wo[p[1]], z[2]>>
      BY <3>2, <1>g
    <3>4. PICK k \in DP : wo[k] = z[2] /\ <<k, u[2]>> \in R
      BY <3>1, <3>2, <1>9
    <3>5. ev[k] = ex[u[2]]
      BY <3>4, <1>7
    <3>6. <<p[1], k>> \in P.rel[i]
      BY <3>1, <3>3, <3>4, <3>5, <2>1, <1>5
    <3> QED
      BY <3>4, <3>6
  <2> QED
    BY <2>2, <2>3, <2>4
<1>11. R \subseteq Largest(P, Q)
  BY <1>7, <1>10, LargestFacts DEF DP, DQ
<1>12. \A k \in DP : \E l \in DQ : <<k, l>> \in Largest(P, Q)
  BY <1>1, <1>5, <1>8, <1>11
<1>13. \A l \in DQ : \E k \in DP : <<k, l>> \in Largest(P, Q)
  BY <1>1, <1>6, <1>9, <1>11
<1>14. ASSUME NEW k \in P.designated PROVE \E l \in Q.designated : <<k, l>> \in Largest(P, Q)
  <2>1. k \in DP /\ wo[k] \in s.designated /\ ev[k] \in a.designated
    BY <1>5
  <2>2. PICK v \in t.designated : <<wo[k], v>> \in r
    BY <2>1, <1>1
  <2>3. PICK l \in DQ : xo[l] = v /\ <<k, l>> \in R
    BY <2>1, <2>2, <1>8
  <2>4. ex[l] = ev[k]
    BY <2>3, <1>7
  <2> QED
    BY <2>1, <2>2, <2>3, <2>4, <1>6, <1>11
<1>15. ASSUME NEW l \in Q.designated PROVE \E k \in P.designated : <<k, l>> \in Largest(P, Q)
  <2>1. l \in DQ /\ xo[l] \in t.designated /\ ex[l] \in a.designated
    BY <1>6
  <2>2. PICK w \in s.designated : <<w, xo[l]>> \in r
    BY <2>1, <1>1
  <2>3. PICK k \in DP : wo[k] = w /\ <<k, l>> \in R
    BY <2>1, <2>2, <1>9
  <2>4. ev[k] = ex[l]
    BY <2>3, <1>7
  <2> QED
    BY <2>1, <2>2, <2>3, <2>4, <1>5, <1>11
<1> QED
  BY <1>12, <1>13, <1>14, <1>15 DEF AreBisimilar, DP, DQ

LEMMA LookupFromInv == BisimInv => LookupSound
<1> SUFFICES ASSUME BisimInv, answer = "bisimilar"
             PROVE  /\ \A p \in Props : Holds(s1, Atom(p)) <=> Holds(s2, Atom(p))
                    /\ \A a \in Library :
                         /\ IsApplicable(s1, a) <=> IsApplicable(s2, a)
                         /\ AreBisimilar(ProductUpdate(s1, a), ProductUpdate(s2, a))
  BY DEF LookupSound
<1>1. AreBisimilar(s1, s2) /\ IsState(s1) /\ IsState(s2)
  BY AnswerFromInv DEF AnswerIsBisimilarity, BisimInv, Partitioned, Answered
<1>2. \A p \in Props : Holds(s1, Atom(p)) <=> Holds(s2, Atom(p))
  BY <1>1, BisimilarHolds
<1>3. ASSUME NEW a \in Library
      PROVE  /\ IsApplicable(s1, a) <=> IsApplicable(s2, a)
             /\ AreBisimilar(ProductUpdate(s1, a), ProductUpdate(s2, a))
  <2>1. IsAction(a)
    BY LibraryAssumption
  <2>2. IsApplicable(s1, a) <=> IsApplicable(s2, a)
    BY <1>1, <2>1, BisimilarApplicable
  <2>3. PICK wo, ev : IsProduct(s1, a, ProductUpdate(s1, a), wo, ev)
    BY <1>1, <2>1, StatePlaces, ProductUpdateIsProduct
  <2>4. PICK xo, ex : IsProduct(s2, a, ProductUpdate(s2, a), xo, ex)
    BY <1>1, <2>1, StatePlaces, ProductUpdateIsProduct
  <2>5. AreBisimilar(ProductUpdate(s1, a), ProductUpdate(s2, a))
    BY <1>1, <2>1, <2>3, <2>4, ProductsBisimilar
  <2> QED
    BY <2>2, <2>5
<1> QED
  BY <1>2, <1>3

\* Where it is defined, is_bisimilar is right about every pair of states, and what
\* Policy::get_action does with a state it takes for one of the policy is what
\* it would do with that one: the same propositions hold, the same actions are
\* applicable and lead to bisimilar states.
THEOREM ComparisonIsRight == BisimSpec => []AnswersSound
<1>1. BisimInv => AnswersSound
  BY AnswerFromInv, LookupFromInv DEF AnswersSound
<1> QED
  BY <1>1, BisimInvariant, PTL

-----------------------------------------------------------------------------
(* perform_perspective_shift                                               *)

\* The shape of a state after a perspective shift.
LEMMA ShiftShape ==
  ASSUME NEW s, IsState(s), NEW i
  PROVE  \E c \in Nat :
           /\ Len(PerspectiveShift(s, i).worlds) = c /\ DOMAIN PerspectiveShift(s, i).worlds = 1 .. c
           /\ PerspectiveShift(s, i).designated = 1 .. c
           /\ c = 0 <=> DesignatedReachables(s, i) = {}
           /\ \A j \in Agents : PerspectiveShift(s, i).rel[j] \subseteq (1 .. c) \X (1 .. c)
           /\ PerspectiveShift(s, i) = [worlds |-> PerspectiveShift(s, i).worlds, designated |-> 1 .. c,
                                        rel |-> [j \in Agents |-> PerspectiveShift(s, i).rel[j]]]
<1> DEFINE W == DesignatedReachables(s, i)
           ids == Sorted(W)
           c == Cardinality(W)
           t == PerspectiveShift(s, i)
           g == [k \in DOMAIN ids |-> s.worlds[ids[k]]]
           r == [j \in Agents |-> {p \in (DOMAIN ids) \X (DOMAIN ids) : <<ids[p[1]], ids[p[2]]>> \in s.rel[j]}]
<1>1. PICK n \in Nat : DOMAIN s.worlds = 1 .. n
  BY StatePlaces
<1>2. W \in SUBSET (1 .. n)
  BY <1>1, ReachablesClosure
<1>3. t = [worlds |-> g, designated |-> DOMAIN ids, rel |-> r]
  BY DEF PerspectiveShift, Submodel
<1> HIDE DEF W
<1>4. c \in Nat /\ ids \in [1 .. c -> W] /\ \A x \in W : \E k \in 1 .. c : ids[k] = x
  BY <1>2, SortedNumbers
<1> HIDE DEF ids, c, t
<1>5. DOMAIN ids = 1 .. c
  BY <1>4
<1>6. DOMAIN g = 1 .. c /\ Len(g) = c
  <2>1. DOMAIN g = 1 .. c
    BY <1>5
  <2>2. g = [k \in 1 .. c |-> g[k]]
    BY <1>5
  <2> HIDE DEF g
  <2>3. g \in [1 .. c -> {g[k] : k \in 1 .. c}]
    BY <2>2
  <2>4. Len(g) = c
    BY <1>4, <2>3
  <2> QED
    BY <2>1, <2>4
<1>7. \A j \in Agents : r[j] \subseteq (1 .. c) \X (1 .. c)
  BY <1>5
<1>8. r = [j \in Agents |-> r[j]]
  OBVIOUS
<1> HIDE DEF g, r
<1>9. t.worlds = g /\ t.designated = 1 .. c /\ t.rel = r
  BY <1>3, <1>5
<1>10. c = 0 <=> W = {}
  BY <1>4
<1>11. t = [worlds |-> t.worlds, designated |-> 1 .. c, rel |-> [j \in Agents |-> t.rel[j]]]
  BY <1>3, <1>5, <1>8, <1>9
<1> QED
  BY <1>4, <1>6, <1>7, <1>9, <1>10, <1>11 DEF t, W

\* In a state where all worlds are designated a shift changes nothing.
LEMMA ShiftOfAll ==
  ASSUME NEW t, NEW c \in Nat, Len(t.worlds) = c, DOMAIN t.worlds = 1 .. c, t.worlds = [k \in 1 .. c |-> t.worlds[k]],
         t.designated = 1 .. c, \A j \in Agents : t.rel[j] \subseteq (1 .. c) \X (1 .. c),
         t = [worlds |-> t.worlds, designated |-> 1 .. c, rel |-> [j \in Agents |-> t.rel[j]]], NEW i
  PROVE  DesignatedReachables(t, i) = 1 .. c /\ PerspectiveShift(t, i) = t
<1>1. IsClosure(t, i, t.designated, Reach(t, i, t.designated))
  <2>1. Len(t.worlds) \in Nat /\ DOMAIN t.worlds = 1 .. Len(t.worlds) /\ t.designated \in SUBSET DOMAIN t.worlds
    OBVIOUS
  <2> QED
    BY <2>1, ReachIsClosure
<1>2. DesignatedReachables(t, i) = 1 .. c
  BY <1>1 DEF IsClosure, DesignatedReachables
<1> DEFINE ids == Sorted(1 .. c)
<1>3. ids = [k \in 1 .. c |-> k]
  BY SortedAll
<1>4. PerspectiveShift(t, i) =
        [worlds |-> [k \in DOMAIN ids |-> t.worlds[ids[k]]],
         designated |-> DOMAIN ids,
         rel |-> [j \in Agents |-> {p \in (DOMAIN ids) \X (DOMAIN ids) : <<ids[p[1]], ids[p[2]]>> \in t.rel[j]}]]
  BY <1>2 DEF PerspectiveShift, Submodel
<1> HIDE DEF ids
<1>5. DOMAIN ids = 1 .. c /\ \A k \in 1 .. c : ids[k] = k
  BY <1>3
<1>6. [k \in DOMAIN ids |-> t.worlds[ids[k]]] = t.worlds
  <2>1. [k \in DOMAIN ids |-> t.worlds[ids[k]]] = [k \in 1 .. c |-> t.worlds[k]]
    BY <1>5
  <2> QED
    BY <2>1
<1>7. ASSUME NEW j \in Agents
      PROVE  {p \in (DOMAIN ids) \X (DOMAIN ids) : <<ids[p[1]], ids[p[2]]>> \in t.rel[j]} = t.rel[j]
  <2>1. t.rel[j] \subseteq (1 .. c) \X (1 .. c)
    OBVIOUS
  <2>2. \A p \in (1 .. c) \X (1 .. c) : <<ids[p[1]], ids[p[2]]>> = p
    BY <1>5
  <2> DEFINE D == (1 .. c) \X (1 .. c)
             r == t.rel[j]
             X == {p \in D : <<ids[p[1]], ids[p[2]]>> \in r}
  <2>3. X = {p \in (DOMAIN ids) \X (DOMAIN ids) : <<ids[p[1]], ids[p[2]]>> \in t.rel[j]}
    BY <1>5, Zenon
  <2>4. r \subseteq D /\ \A p \in D : <<ids[p[1]], ids[p[2]]>> = p
    BY <2>1, <2>2
  <2> HIDE DEF D, r
  <2>5. \A p \in D : <<ids[p[1]], ids[p[2]]>> \in r <=> p \in r
    BY <2>4, Zenon
  <2>6. X = r
    BY <2>4, <2>5, Zenon
  <2> QED
    BY <2>3, <2>6, Zenon DEF r
<1>8. PerspectiveShift(t, i) = [worlds |-> t.worlds, designated |-> 1 .. c, rel |-> [j \in Agents |-> t.rel[j]]]
  <2>1. [j \in Agents |-> {p \in (DOMAIN ids) \X (DOMAIN ids) : <<ids[p[1]], ids[p[2]]>> \in t.rel[j]}]
          = [j \in Agents |-> t.rel[j]]
    BY <1>7, Zenon
  <2> QED
    BY <1>4, <1>5, <1>6, <2>1, Zenon
<1> QED
  BY <1>2, <1>8

LEMMA ShiftFromInv == BisimInv => ShiftIsLocal
<1> SUFFICES ASSUME BisimInv, NEW i \in Agents
             PROVE  LET s == PerspectiveShift(s1, i)
                        closed == {C \in SUBSET DOMAIN s1.worlds :
                                     s1.designated \subseteq C /\ \A p \in s1.rel[i] : p[1] \in C => p[2] \in C}
                    IN  /\ s.worlds = Among(s1.worlds, {w \in DOMAIN s1.worlds : \A C \in closed : w \in C})
                        /\ PerspectiveShift(s, i) = s
                        /\ \A a \in Library :
                             a.owner = i /\ a.designated = DOMAIN a.events /\ s1.designated # {} /\ IsApplicable(s, a) =>
                               IsValid(ProductUpdate(s, a))
  BY Zenon DEF ShiftIsLocal
<1> DEFINE D == DOMAIN s1.worlds
           W == DesignatedReachables(s1, i)
           t == PerspectiveShift(s1, i)
           closed == {C \in SUBSET D : s1.designated \subseteq C /\ \A p \in s1.rel[i] : p[1] \in C => p[2] \in C}
           ids == Sorted(W)
<1>1. IsState(s1)
  BY DEF BisimInv, Partitioned
<1>2. s1.rel[i] \subseteq D \X D
  BY <1>1 DEF IsState
<1>3. /\ s1.designated \subseteq W /\ W \subseteq D /\ IsClosed(s1, i, W)
      /\ \A C \in SUBSET D : s1.designated \subseteq C /\ IsClosed(s1, i, C) => W \subseteq C
  BY <1>1, ReachablesClosure
<1>4. \A C \in SUBSET D : IsClosed(s1, i, C) <=> \A p \in s1.rel[i] : p[1] \in C => p[2] \in C
  BY <1>2 DEF IsClosed
<1>5. t.worlds = Among(s1.worlds, W)
  BY DEF PerspectiveShift, Submodel, Among
<1>6. W = {w \in D : \A C \in closed : w \in C}
  <2> HIDE DEF W, D
  <2>1. W \in closed
    BY <1>3, <1>4
  <2>2. \A C \in closed : W \subseteq C
    BY <1>3, <1>4
  <2> HIDE DEF closed
  <2> QED
    BY <2>1, <2>2, <1>3
<1>7. PICK c \in Nat :
        /\ Len(t.worlds) = c /\ DOMAIN t.worlds = 1 .. c
        /\ t.designated = 1 .. c
        /\ c = 0 <=> W = {}
        /\ \A j \in Agents : t.rel[j] \subseteq (1 .. c) \X (1 .. c)
        /\ t = [worlds |-> t.worlds, designated |-> 1 .. c, rel |-> [j \in Agents |-> t.rel[j]]]
  BY <1>1, ShiftShape
<1>8. t.worlds = [k \in 1 .. c |-> t.worlds[k]]
  <2>1. Among(s1.worlds, W) = [k \in DOMAIN ids |-> s1.worlds[ids[k]]]
    BY DEF Among
  <2> HIDE DEF ids, W, t
  <2>2. t.worlds = [k \in DOMAIN t.worlds |-> t.worlds[k]]
    BY <1>5, <2>1
  <2> QED
    BY <2>2, <1>7
<1> HIDE DEF t, W
<1>9. DesignatedReachables(t, i) = 1 .. c /\ PerspectiveShift(t, i) = t
  BY <1>7, <1>8, ShiftOfAll
<1>10. ASSUME NEW a \in Library, a.owner = i, a.designated = DOMAIN a.events, s1.designated # {}, IsApplicable(t, a)
       PROVE  IsValid(ProductUpdate(t, a))
  <2> DEFINE P == ProductUpdate(t, a)
  <2>1. IsAction(a)
    BY LibraryAssumption
  <2>2. 1 \in 1 .. c
    BY <1>3, <1>7, <1>10
  <2>3. PICK e \in DOMAIN a.events : Valuate(a.events[e].pre, t.worlds[1])
    BY <2>2, <1>9, <1>10 DEF IsApplicable
  <2>4. Fits(t, a, 1, e)
    BY <2>3 DEF Fits
  <2>5. Len(t.worlds) \in Nat /\ DOMAIN t.worlds = 1 .. Len(t.worlds)
    BY <1>7
  <2>6. PICK wo, ev : IsProduct(t, a, P, wo, ev)
    BY <2>1, <2>5, ProductUpdateIsProduct
  <2> HIDE DEF P
  <2>7. 1 \in DOMAIN t.worlds /\ 1 \in t.designated
    BY <2>2, <1>7
  <2>8. PICK k \in DOMAIN P.worlds : wo[k] = 1 /\ ev[k] = e
    BY <2>3, <2>4, <2>6, <2>7 DEF IsProduct
  <2>9. k \in P.designated
    BY <2>6, <2>7, <2>8, <1>10 DEF IsProduct
  <2>10. P.worlds # <<>>
    <3>1. DOMAIN <<>> = {}
      OBVIOUS
    <3> QED
      BY <2>8, <3>1
  <2>11. IsValid(P)
    BY <2>9, <2>10 DEF IsValid
  <2> QED
    BY <2>11 DEF P
<1>11. t.worlds = Among(s1.worlds, {w \in D : \A C \in closed : w \in C})
  BY <1>5, <1>6, Zenon DEF t
<1> HIDE DEF closed
<1> QED
  BY <1>9, <1>10, <1>11, Zenon DEF t, closed

\* A perspective shift is local, in every state that is compared: it keeps the
\* worlds the agent takes for possible and no others, shifting again changes
\* nothing, and an action that is applicable after it leaves a valid state.
THEOREM ShiftsAreLocal == BisimSpec => []ShiftIsLocal
  BY BisimInvariant, ShiftFromInv, PTL

-----------------------------------------------------------------------------
(* The search: its graph                                                   *)

\* The graph is a tree from the first node down, of Or nodes and And nodes in
\* turn.
Placed(ns, i) ==
  IF i = 1 THEN ns[1].type = "Or" /\ ns[1].state = Initial /\ ns[1].is_root /\ ns[1].parent = 0
  ELSE ~ns[i].is_root /\ ns[i].parent \in 1 .. i - 1 /\ i \in Children(ns, ns[i].parent)

Branched(ns, i) ==
  /\ \A c \in Children(ns, i) : c \in DOMAIN ns /\ ns[c].parent = i /\ ns[c].type # ns[i].type
  /\ \A k, l \in DOMAIN ns[i].children : ns[i].children[k] = ns[i].children[l] => k = l

\* An And node has its action's outcomes for children.
Results(ns, i) == ToSet(domain[ns[i].state][ns[i].action])

Acted(ns, i) ==
  ns[i].type = "And" =>
    /\ ns[i].parent # 0 /\ ns[i].state = ns[ns[i].parent].state /\ ns[i].action \in DOMAIN Actions
    /\ domain[ns[i].state][ns[i].action] # <<>> /\ ns[i].children # <<>>
    /\ {ns[c].state : c \in Children(ns, i)} = Results(ns, i)

IsTree(ns) ==
  /\ ns \in Seq(NodeType) /\ 1 \in DOMAIN ns
  /\ \A i \in DOMAIN ns : Placed(ns, i) /\ Branched(ns, i) /\ Acted(ns, i)

\* An Or node has a child for each of its actions up to n.
Opened(ns, i, n) ==
  /\ ns[i].state \notin Goals
  /\ \A a \in 1 .. n : domain[ns[i].state][a] # <<>> => \E c \in Children(ns, i) : ns[c].action = a

\* All Or nodes with children but node cur, which is being expanded, are open.
AllOpened(ns, cur) ==
  \A i \in DOMAIN ns : ns[i].type = "Or" /\ ns[i].children # <<>> /\ i # cur => Opened(ns, i, Len(Actions))

-----------------------------------------------------------------------------
(* The search: its marks                                                   *)

Unmarked(ns, i) == ~ns[i].dead /\ ~ns[i].solved

\* What a mark says of a node.
MarkSound(ns, i) ==
  /\ ~(ns[i].dead /\ ns[i].solved)
  /\ ns[i].type = "Or" => (ns[i].solved => ns[i].state \in CanWin) /\ (ns[i].dead => ns[i].state \notin CanWin)
  /\ ns[i].type = "And" => (ns[i].solved => Results(ns, i) \subseteq CanWin) /\ (ns[i].dead => ~(Results(ns, i) \subseteq CanWin))

\* Where the mark of a solved node comes from.
Justified(ns, i) ==
  ns[i].solved =>
    IF ns[i].type = "And" THEN \A c \in Children(ns, i) : ns[c].solved
    ELSE ns[i].state \in Goals \/ \E c \in Children(ns, i) : ns[c].solved

\* No mark is missing, except perhaps the mark "dead" of node d and the mark
\* "solved" of node s.
AllMarked(ns, d, s) ==
  \A i \in DOMAIN ns : ns[i].children # <<>> /\ Unmarked(ns, i) =>
    (i # d => ~CheckIfDead(ns, i)) /\ (i # s => ~CheckIfSolved(ns, i))

Marked(ns, d, s) ==
  AllMarked(ns, d, s) /\ \A i \in DOMAIN ns : MarkSound(ns, i) /\ Justified(ns, i)

\* The frontier: the Or nodes that are not expanded (node cur aside).
IsFrontier(ns, f, cur) ==
  /\ f \in Seq(DOMAIN ns)
  /\ \A k, l \in DOMAIN f : f[k] = f[l] => k = l
  /\ \A i \in DOMAIN ns : i \in ToSet(f) <=> i # cur /\ ns[i].type = "Or" /\ ns[i].children = <<>> /\ Unmarked(ns, i)

SearchInv ==
  /\ domain \in [States -> [DOMAIN Actions -> Outcomes]]
  /\ policy \in Seq(States \X DOMAIN Actions)
  /\ status \in {"search", "solved", "failed", "undefined"}
  /\ IsTree(nodes) /\ AllOpened(nodes, 0) /\ Marked(nodes, 0, 0) /\ IsFrontier(nodes, frontier, 0)
  /\ status = "search" /\ root = 1 => Unmarked(nodes, 1)
  /\ NoPolicyMeansNone /\ PolicyClosed

-----------------------------------------------------------------------------
(* The search: who can win                                                 *)

\* The states that can win are a fixed point: the goals, and the states with
\* an action all of whose outcomes can win.
LEMMA CanWinFacts ==
  /\ Goals \subseteq CanWin
  /\ \A s \in States, a \in DOMAIN Actions :
       domain[s][a] # <<>> /\ ToSet(domain[s][a]) \subseteq CanWin => s \in CanWin
  /\ \A s \in CanWin : s \in Goals \/ \E a \in DOMAIN Actions : domain[s][a] # <<>> /\ ToSet(domain[s][a]) \subseteq CanWin
<1> DEFINE Wins(s, W) == \E a \in DOMAIN Actions : domain[s][a] # <<>> /\ ToSet(domain[s][a]) \subseteq W
<1>1. \A W : Forced(W) <=> Goals \subseteq W /\ \A s \in States : Wins(s, W) => s \in W
  BY Zenon DEF Forced
<1>2. \A V, W : V \subseteq W => \A s \in States : Wins(s, V) => Wins(s, W)
  OBVIOUS
<1>3. \A s : s \in CanWin <=> s \in States /\ \A W \in SUBSET States : Forced(W) => s \in W
  BY DEF CanWin
<1>4. CanWin \in SUBSET States
  BY <1>3
<1>5. \A s \in States, a \in DOMAIN Actions :
        domain[s][a] # <<>> /\ ToSet(domain[s][a]) \subseteq CanWin => Wins(s, CanWin)
  OBVIOUS
<1> HIDE DEF Wins
<1>6. Goals \subseteq CanWin
  BY <1>1, <1>3, SearchAssumption
<1>7. \A s \in States : Wins(s, CanWin) => s \in CanWin
  <2>1. SUFFICES ASSUME NEW s \in States, Wins(s, CanWin), NEW W \in SUBSET States, Forced(W) PROVE s \in W
    BY <1>3
  <2>2. CanWin \subseteq W
    BY <2>1, <1>3
  <2> QED
    BY <2>1, <2>2, <1>1, <1>2
<1>8. ASSUME NEW s \in CanWin, s \notin Goals PROVE Wins(s, CanWin)
  <2>1. SUFFICES ASSUME ~Wins(s, CanWin) PROVE FALSE
    OBVIOUS
  <2> DEFINE W == CanWin \ {s}
  <2>2. W \in SUBSET States /\ W \subseteq CanWin
    BY <1>4
  <2>3. \A t \in States : Wins(t, W) => t \in W
    <3>1. \A t \in States : Wins(t, W) => Wins(t, CanWin)
      BY <1>2, <2>2
    <3>2. \A t \in States : Wins(t, CanWin) => t \in CanWin /\ t # s
      BY <1>7, <2>1
    <3> QED
      BY <3>1, <3>2
  <2>4. Goals \subseteq W
    BY <1>6, <1>8
  <2>5. Forced(W)
    BY <2>3, <2>4, <1>1
  <2> QED
    BY <2>2, <2>5, <1>3
<1>9. \A s \in CanWin : s \in Goals \/ Wins(s, CanWin)
  BY <1>8
<1> QED
  BY <1>5, <1>6, <1>7, <1>9 DEF Wins

-----------------------------------------------------------------------------
(* The search: marks going up                                              *)

\* The fields of a node, opened once.
LEMMA NodeFields ==
  ASSUME NEW ns \in Seq(NodeType), NEW i \in DOMAIN ns
  PROVE  /\ Len(ns) \in Nat /\ DOMAIN ns = 1 .. Len(ns) /\ i \in Nat /\ ns[i] \in NodeType
         /\ ns[i].type \in {"Or", "And"} /\ ns[i].state \in States /\ ns[i].parent \in Nat
         /\ ns[i].action \in 0 .. Len(Actions) /\ ns[i].is_root \in BOOLEAN
         /\ ns[i].dead \in BOOLEAN /\ ns[i].solved \in BOOLEAN
         /\ ns[i].children \in Seq(Nat)
         /\ (ns[i].children = <<>> <=> Children(ns, i) = {})
         /\ Children(ns, i) \subseteq Nat
<1>1. Len(ns) \in Nat /\ DOMAIN ns = 1 .. Len(ns) /\ i \in Nat /\ ns[i] \in NodeType
  <2> HIDE DEF NodeType
  <2> QED
    OBVIOUS
<1> DEFINE n == ns[i]
<1>2. n \in NodeType
  BY <1>1
<1> HIDE DEF n
<1>3. /\ n.type \in {"Or", "And"} /\ n.state \in States /\ n.parent \in Nat
      /\ n.action \in 0 .. Len(Actions) /\ n.is_root \in BOOLEAN
      /\ n.dead \in BOOLEAN /\ n.solved \in BOOLEAN
      /\ n.children \in Seq(Nat)
  BY <1>2 DEF NodeType
<1> DEFINE cs == n.children
<1>4. cs \in Seq(Nat)
  BY <1>3
<1>5. Children(ns, i) = {cs[k] : k \in DOMAIN cs}
  BY Zenon DEF Children, ToSet, n
<1> HIDE DEF cs
<1>6. (cs = <<>> <=> {cs[k] : k \in DOMAIN cs} = {}) /\ {cs[k] : k \in DOMAIN cs} \subseteq Nat
  <2>1. Len(cs) \in Nat /\ DOMAIN cs = 1 .. Len(cs) /\ \A k \in 1 .. Len(cs) : cs[k] \in Nat
    BY <1>4
  <2>2. cs = <<>> <=> Len(cs) = 0
    BY <1>4
  <2>3. CASE Len(cs) = 0
    BY <2>1, <2>2, <2>3
  <2>4. CASE Len(cs) # 0
    <3>1. 1 \in DOMAIN cs
      BY <2>1, <2>4
    <3> QED
      BY <2>1, <2>2, <2>4, <3>1
  <2> QED
    BY <2>3, <2>4
<1> QED
  BY <1>1, <1>3, <1>5, <1>6 DEF n, cs

\* Two graphs that differ in their marks only.
SameTree(ms, ns) ==
  /\ ms \in Seq(NodeType) /\ DOMAIN ms = DOMAIN ns
  /\ \A i \in DOMAIN ns :
       /\ ms[i].type = ns[i].type /\ ms[i].state = ns[i].state /\ ms[i].parent = ns[i].parent
       /\ ms[i].action = ns[i].action /\ ms[i].is_root = ns[i].is_root /\ ms[i].children = ns[i].children

\* Marks do not change the tree.
LEMMA TreeStays ==
  ASSUME NEW ns, NEW ms, IsTree(ns), SameTree(ms, ns)
  PROVE  /\ IsTree(ms) /\ \A c : AllOpened(ns, c) => AllOpened(ms, c)
         /\ \A i \in DOMAIN ns : Children(ms, i) = Children(ns, i)
         /\ \A i \in DOMAIN ns : Results(ms, i) = Results(ns, i)
<1>1. \A i \in DOMAIN ns : Children(ms, i) = Children(ns, i) /\ Results(ms, i) = Results(ns, i)
  BY Zenon DEF Children, Results, SameTree
<1>2. ASSUME NEW i \in DOMAIN ns PROVE Placed(ms, i) /\ Branched(ms, i) /\ Acted(ms, i)
  <2>1. Placed(ns, i) /\ Branched(ns, i) /\ Acted(ns, i) /\ 1 \in DOMAIN ns /\ ns \in Seq(NodeType)
    BY DEF IsTree
  <2>2. i \in Nat /\ Len(ns) \in Nat /\ DOMAIN ns = 1 .. Len(ns) /\ ns[i].parent \in Nat
    BY <2>1, NodeFields
  <2>3. \A p \in 1 .. i - 1 : p \in DOMAIN ns
    BY <2>2
  <2>4. Placed(ms, i)
    BY <2>1, <2>2, <2>3, <1>1 DEF SameTree, Placed
  <2>5. Branched(ms, i)
    BY <2>1, <1>1, Zenon DEF SameTree, Branched
  <2>6. \A c \in Children(ns, i) : c \in DOMAIN ns
    BY <2>1 DEF Branched
  <2>7. {ms[c].state : c \in Children(ms, i)} = {ns[c].state : c \in Children(ns, i)}
    BY <2>6, <1>1 DEF SameTree
  <2>8. ns[i].type = "And" => ns[i].parent \in DOMAIN ns
    BY <2>1, <2>2, <2>3 DEF Placed, Acted
  <2>9. Acted(ms, i)
    BY <2>1, <2>7, <2>8, <1>1, Zenon DEF SameTree, Acted
  <2> QED
    BY <2>4, <2>5, <2>9
<1>3. IsTree(ms)
  BY <1>2 DEF SameTree, IsTree
<1>4. ASSUME NEW c, AllOpened(ns, c) PROVE AllOpened(ms, c)
  <2>1. SUFFICES ASSUME NEW i \in DOMAIN ns, ns[i].type = "Or", ns[i].children # <<>>, i # c
                 PROVE  Opened(ms, i, Len(Actions))
    BY Zenon DEF AllOpened, SameTree
  <2>2. Opened(ns, i, Len(Actions))
    BY <2>1, <1>4 DEF AllOpened
  <2>3. \A d \in Children(ns, i) : d \in DOMAIN ns
    BY DEF IsTree, Branched
  <2> QED
    BY <2>2, <2>3, <1>1, Zenon DEF Opened, SameTree
<1> QED
  BY <1>1, <1>3, <1>4

\* Marking one node dead.
LEMMA MarkDead ==
  ASSUME NEW ns \in Seq(NodeType), NEW i \in DOMAIN ns
  PROVE  LET ms == [ns EXCEPT ![i].dead = TRUE]
         IN  /\ SameTree(ms, ns)
             /\ \A j \in DOMAIN ns : (ms[j].solved <=> ns[j].solved) /\ (ms[j].dead <=> j = i \/ ns[j].dead)
<1> DEFINE ms == [ns EXCEPT ![i].dead = TRUE]
           m == [ns[i] EXCEPT !.dead = TRUE]
<1>1. ns[i] \in NodeType
  <2> HIDE DEF NodeType
  <2> QED
    OBVIOUS
<1>2. /\ m \in NodeType /\ m.dead = TRUE /\ m.solved = ns[i].solved
      /\ m.type = ns[i].type /\ m.state = ns[i].state /\ m.parent = ns[i].parent
      /\ m.action = ns[i].action /\ m.is_root = ns[i].is_root /\ m.children = ns[i].children
  BY <1>1 DEF NodeType
<1>3. ms = [ns EXCEPT ![i] = m]
  OBVIOUS
<1> HIDE DEF ms, m, NodeType
<1>4. ms \in Seq(NodeType) /\ DOMAIN ms = DOMAIN ns /\ ms[i] = m /\ \A j \in DOMAIN ns : j # i => ms[j] = ns[j]
  BY <1>2, <1>3
<1>5. SameTree(ms, ns)
  BY <1>2, <1>4 DEF SameTree
<1>6. \A j \in DOMAIN ns : (ms[j].solved <=> ns[j].solved) /\ (ms[j].dead <=> j = i \/ ns[j].dead)
  <2>1. SUFFICES ASSUME NEW j \in DOMAIN ns
                 PROVE  (ms[j].solved <=> ns[j].solved) /\ (ms[j].dead <=> j = i \/ ns[j].dead)
    OBVIOUS
  <2>2. CASE j = i
    BY <2>2, <1>2, <1>4, Zenon
  <2>3. CASE j # i
    BY <2>3, <1>4, Zenon
  <2> QED
    BY <2>2, <2>3
<1> QED
  BY <1>5, <1>6 DEF ms

\* Nodes and their children.
LEMMA TreeFacts ==
  ASSUME NEW ns, IsTree(ns), NEW i \in DOMAIN ns
  PROVE  /\ ns \in Seq(NodeType) /\ Placed(ns, i) /\ Branched(ns, i) /\ Acted(ns, i)
         /\ \A c \in Children(ns, i) : c \in DOMAIN ns /\ ns[c].parent = i /\ Above(ns, c) = i
         /\ i # 1 => Above(ns, i) = ns[i].parent /\ ns[i].parent \in DOMAIN ns /\ ns[i].parent < i
                     /\ ns[ns[i].parent].children # <<>>
         /\ Above(ns, 1) = 0
<1>1. ns \in Seq(NodeType) /\ 1 \in DOMAIN ns /\ \A j \in DOMAIN ns : Placed(ns, j) /\ Branched(ns, j) /\ Acted(ns, j)
  BY DEF IsTree
<1>2. Len(ns) \in Nat /\ DOMAIN ns = 1 .. Len(ns) /\ i \in Nat /\ ns[i].parent \in Nat
  BY <1>1, NodeFields
<1>3. Above(ns, 1) = 0 /\ ns[1].parent = 0
  BY <1>1, <1>2 DEF Placed, Above
<1>4. \A c \in DOMAIN ns : c # 1 => Above(ns, c) = ns[c].parent
  BY <1>1 DEF Placed, Above
<1>5. \A c \in Children(ns, i) : c \in DOMAIN ns /\ ns[c].parent = i
  BY <1>1 DEF Branched
<1>6. \A c \in Children(ns, i) : c # 1
  BY <1>2, <1>3, <1>5
<1>7. ASSUME i # 1 PROVE ns[i].parent \in DOMAIN ns /\ ns[i].parent < i /\ ns[ns[i].parent].children # <<>>
  <2>1. ns[i].parent \in 1 .. i - 1 /\ i \in Children(ns, ns[i].parent)
    BY <1>1, <1>7 DEF Placed
  <2>2. ns[i].parent \in DOMAIN ns /\ ns[i].parent < i
    BY <2>1, <1>2
  <2>3. ns[ns[i].parent].children # <<>>
    BY <2>1, <2>2, <1>1, NodeFields
  <2> QED
    BY <2>2, <2>3
<1> QED
  BY <1>1, <1>3, <1>4, <1>5, <1>6, <1>7

\* What dead or solved children say of their parent: the two directions of
\* the fixed point.
LEMMA DeadSound ==
  ASSUME NEW ns, IsTree(ns), AllOpened(ns, 0), NEW i \in DOMAIN ns, ns[i].children # <<>>,
         \A j \in DOMAIN ns : MarkSound(ns, j), ~ns[i].dead, CheckIfDead(ns, i)
  PROVE  /\ ~ns[i].solved
         /\ ns[i].type = "Or" => ns[i].state \notin CanWin
         /\ ns[i].type = "And" => ~(Results(ns, i) \subseteq CanWin)
<1>1. /\ ns \in Seq(NodeType) /\ Acted(ns, i) /\ Branched(ns, i)
      /\ \A c \in Children(ns, i) : c \in DOMAIN ns
  BY TreeFacts
<1>2. ns[i].type \in {"Or", "And"} /\ i # 0 /\ ns[i].state \in States
  BY <1>1, NodeFields
<1>3. ~ns[i].solved
  BY Zenon DEF CheckIfDead
<1>4. ASSUME ns[i].type = "And" PROVE ~(Results(ns, i) \subseteq CanWin)
  <2>1. PICK c \in Children(ns, i) : ns[c].dead
    BY <1>4, Zenon DEF CheckIfDead
  <2>2. c \in DOMAIN ns /\ ns[c].type # ns[i].type
    BY <1>1 DEF Branched
  <2>3. ns[c].type = "Or"
    BY <2>2, <1>1, <1>4, NodeFields
  <2>4. ns[c].state \notin CanWin
    BY <2>1, <2>2, <2>3 DEF MarkSound
  <2>5. ns[c].state \in Results(ns, i)
    BY <1>1, <1>4 DEF Acted
  <2> QED
    BY <2>4, <2>5
<1>5. ASSUME ns[i].type = "Or" PROVE ns[i].state \notin CanWin
  <2>1. \A c \in Children(ns, i) : ns[c].dead
    BY <1>5, Zenon DEF CheckIfDead
  <2>2. Opened(ns, i, Len(Actions))
    BY <1>2, <1>5 DEF AllOpened
  <2>3. SUFFICES ASSUME NEW a \in DOMAIN Actions, domain[ns[i].state][a] # <<>>,
                        ToSet(domain[ns[i].state][a]) \subseteq CanWin
                 PROVE  FALSE
    BY <2>2, CanWinFacts DEF Opened
  <2>4. a \in 1 .. Len(Actions)
    BY SearchAssumption
  <2>5. PICK c \in Children(ns, i) : ns[c].action = a
    BY <2>2, <2>3, <2>4 DEF Opened
  <2>6. c \in DOMAIN ns /\ ns[c].type # ns[i].type /\ ns[c].parent = i
    BY <1>1 DEF Branched
  <2>7. ns[c].type = "And"
    BY <2>6, <1>1, <1>5, NodeFields
  <2>8. Acted(ns, c)
    BY <2>6, TreeFacts
  <2>9. ns[c].state = ns[i].state
    BY <2>6, <2>7, <2>8 DEF Acted
  <2>10. Results(ns, c) \subseteq CanWin
    BY <2>3, <2>5, <2>9 DEF Results
  <2> QED
    BY <2>1, <2>6, <2>7, <2>10 DEF MarkSound
<1> QED
  BY <1>3, <1>4, <1>5

\* The same for solved children.
LEMMA SolvedSound ==
  ASSUME NEW ns, IsTree(ns), NEW i \in DOMAIN ns,
         \A j \in DOMAIN ns : MarkSound(ns, j), ~ns[i].solved, CheckIfSolved(ns, i)
  PROVE  /\ ~ns[i].dead
         /\ ns[i].type = "Or" => ns[i].state \in CanWin
         /\ ns[i].type = "And" => Results(ns, i) \subseteq CanWin
<1>1. /\ ns \in Seq(NodeType) /\ Acted(ns, i) /\ Branched(ns, i)
      /\ \A c \in Children(ns, i) : c \in DOMAIN ns
  BY TreeFacts
<1>2. ns[i].type \in {"Or", "And"} /\ ns[i].state \in States
  BY <1>1, NodeFields
<1>3. ~ns[i].dead
  BY Zenon DEF CheckIfSolved
<1>4. ASSUME ns[i].type = "Or" PROVE ns[i].state \in CanWin
  <2>1. PICK c \in Children(ns, i) : ns[c].solved
    BY <1>4, Zenon DEF CheckIfSolved
  <2>2. c \in DOMAIN ns /\ ns[c].type # ns[i].type /\ ns[c].parent = i
    BY <1>1 DEF Branched
  <2>3. ns[c].type = "And"
    BY <2>2, <1>1, <1>4, NodeFields
  <2>4. Acted(ns, c)
    BY <2>2, TreeFacts
  <2>5. ns[c].state = ns[i].state /\ ns[c].action \in DOMAIN Actions /\ domain[ns[c].state][ns[c].action] # <<>>
    BY <2>2, <2>3, <2>4 DEF Acted
  <2>6. ToSet(domain[ns[c].state][ns[c].action]) \subseteq CanWin
    BY <2>1, <2>2, <2>3 DEF MarkSound, Results
  <2> QED
    BY <2>5, <2>6, <1>2, CanWinFacts
<1>5. ASSUME ns[i].type = "And" PROVE Results(ns, i) \subseteq CanWin
  <2>1. \A c \in Children(ns, i) : ns[c].solved
    BY <1>5, Zenon DEF CheckIfSolved
  <2>2. \A c \in Children(ns, i) : c \in DOMAIN ns /\ ns[c].type # ns[i].type
    BY <1>1 DEF Branched
  <2>3. \A c \in Children(ns, i) : ns[c].type = "Or"
    BY <2>2, <1>1, <1>5, NodeFields
  <2>4. \A c \in Children(ns, i) : ns[c].state \in CanWin
    BY <2>1, <2>2, <2>3 DEF MarkSound
  <2>5. Results(ns, i) = {ns[c].state : c \in Children(ns, i)}
    BY <1>1, <1>5 DEF Acted
  <2> QED
    BY <2>4, <2>5
<1> QED
  BY <1>3, <1>4, <1>5

\* The mark "dead" on a node, where it is true, leaves only the mark of the
\* node above to be looked at.
LEMMA DeadStep ==
  ASSUME NEW ns, IsTree(ns), NEW i \in DOMAIN ns, Marked(ns, i, 0), ~ns[i].solved,
         ns[i].type = "Or" => ns[i].state \notin CanWin,
         ns[i].type = "And" => ~(Results(ns, i) \subseteq CanWin),
         NEW ms, SameTree(ms, ns),
         \A j \in DOMAIN ns : (ms[j].solved <=> ns[j].solved) /\ (ms[j].dead <=> j = i \/ ns[j].dead)
  PROVE  Marked(ms, Above(ns, i), 0)
<1>1. /\ DOMAIN ms = DOMAIN ns
      /\ \A j \in DOMAIN ns : /\ Children(ms, j) = Children(ns, j) /\ Results(ms, j) = Results(ns, j)
                              /\ ms[j].type = ns[j].type /\ ms[j].state = ns[j].state
                              /\ ms[j].children = ns[j].children
  BY TreeStays DEF SameTree
<1>2. /\ \A j \in DOMAIN ns : \A c \in Children(ns, j) : c \in DOMAIN ns /\ Above(ns, c) = j
      /\ \A j \in DOMAIN ns : MarkSound(ns, j) /\ Justified(ns, j)
      /\ AllMarked(ns, i, 0)
  BY TreeFacts DEF Marked
<1>3. ASSUME NEW j \in DOMAIN ns PROVE MarkSound(ms, j)
  <2>1. CASE j = i
    <3>1. ~ms[i].solved
      BY Zenon
    <3> QED
      BY <2>1, <3>1, <1>1 DEF MarkSound
  <2>2. CASE j # i
    <3>1. (ms[j].solved <=> ns[j].solved) /\ (ms[j].dead <=> ns[j].dead)
      BY <2>2, Zenon
    <3> QED
      BY <3>1, <1>1, <1>2, Zenon DEF MarkSound
  <2> QED
    BY <2>1, <2>2
<1>4. ASSUME NEW j \in DOMAIN ns PROVE Justified(ms, j)
  BY <1>1, <1>2, Zenon DEF Justified
<1>5. ASSUME NEW j \in DOMAIN ns, ms[j].children # <<>>, Unmarked(ms, j)
      PROVE  (j # Above(ns, i) => ~CheckIfDead(ms, j)) /\ ~CheckIfSolved(ms, j)
  <2>1. Unmarked(ns, j) /\ j # i
    BY <1>5, Zenon DEF Unmarked
  <2>2. j # 0
    <3>1. ns \in Seq(NodeType)
      BY DEF IsTree
    <3> QED
      BY <3>1, NodeFields
  <2>3. ~CheckIfDead(ns, j) /\ ~CheckIfSolved(ns, j)
    BY <2>1, <2>2, <1>1, <1>2, <1>5 DEF AllMarked
  <2>4. ~CheckIfSolved(ms, j)
    BY <2>1, <2>3, <1>1, <1>2, Zenon DEF CheckIfSolved, Unmarked
  <2>5. ASSUME j # Above(ns, i) PROVE ~CheckIfDead(ms, j)
    <3>1. \A c \in Children(ns, j) : c # i
      BY <2>5, <1>2
    <3>2. \A c \in Children(ns, j) : ms[c].dead <=> ns[c].dead
      BY <3>1, <1>2, Zenon
    <3> QED
      BY <3>2, <2>1, <2>3, <1>1, <1>5, Zenon DEF CheckIfDead, Unmarked
  <2> QED
    BY <2>4, <2>5
<1>6. AllMarked(ms, Above(ns, i), 0)
  BY <1>1, <1>5, Zenon DEF AllMarked
<1> QED
  BY <1>1, <1>3, <1>4, <1>6 DEF Marked

\* The same for the mark "solved".
LEMMA SolvedStep ==
  ASSUME NEW ns, IsTree(ns), NEW i \in DOMAIN ns, Marked(ns, 0, i), ~ns[i].dead,
         ns[i].type = "Or" => ns[i].state \in CanWin,
         ns[i].type = "And" => Results(ns, i) \subseteq CanWin,
         NEW ms, SameTree(ms, ns),
         \A j \in DOMAIN ns : (ms[j].dead <=> ns[j].dead) /\ (ms[j].solved <=> j = i \/ ns[j].solved),
         Justified(ms, i)
  PROVE  Marked(ms, 0, Above(ns, i))
<1>1. /\ DOMAIN ms = DOMAIN ns
      /\ \A j \in DOMAIN ns : /\ Children(ms, j) = Children(ns, j) /\ Results(ms, j) = Results(ns, j)
                              /\ ms[j].type = ns[j].type /\ ms[j].state = ns[j].state
                              /\ ms[j].children = ns[j].children
  BY TreeStays DEF SameTree
<1>2. /\ \A j \in DOMAIN ns : \A c \in Children(ns, j) : c \in DOMAIN ns /\ Above(ns, c) = j
      /\ \A j \in DOMAIN ns : MarkSound(ns, j) /\ Justified(ns, j)
      /\ AllMarked(ns, 0, i)
  BY TreeFacts DEF Marked
<1>3. ASSUME NEW j \in DOMAIN ns PROVE MarkSound(ms, j)
  <2>1. CASE j = i
    <3>1. ~ms[i].dead
      BY Zenon
    <3> QED
      BY <2>1, <3>1, <1>1 DEF MarkSound
  <2>2. CASE j # i
    <3>1. (ms[j].solved <=> ns[j].solved) /\ (ms[j].dead <=> ns[j].dead)
      BY <2>2, Zenon
    <3> QED
      BY <3>1, <1>1, <1>2, Zenon DEF MarkSound
  <2> QED
    BY <2>1, <2>2
<1>4. ASSUME NEW j \in DOMAIN ns PROVE Justified(ms, j)
  <2>1. CASE j = i
    BY <2>1
  <2>2. CASE j # i
    <3>1. ms[j].solved <=> ns[j].solved
      BY <2>2, Zenon
    <3>2. \A c \in Children(ns, j) : ns[c].solved => ms[c].solved
      BY <1>2, Zenon
    <3> QED
      BY <3>1, <3>2, <1>1, <1>2, Zenon DEF Justified
  <2> QED
    BY <2>1, <2>2
<1>5. ASSUME NEW j \in DOMAIN ns, ms[j].children # <<>>, Unmarked(ms, j)
      PROVE  (j # Above(ns, i) => ~CheckIfSolved(ms, j)) /\ ~CheckIfDead(ms, j)
  <2>1. Unmarked(ns, j) /\ j # i
    BY <1>5, Zenon DEF Unmarked
  <2>2. j # 0
    <3>1. ns \in Seq(NodeType)
      BY DEF IsTree
    <3> QED
      BY <3>1, NodeFields
  <2>3. ~CheckIfDead(ns, j) /\ ~CheckIfSolved(ns, j)
    BY <2>1, <2>2, <1>1, <1>2, <1>5 DEF AllMarked
  <2>4. ~CheckIfDead(ms, j)
    BY <2>1, <2>3, <1>1, <1>2, Zenon DEF CheckIfDead, Unmarked
  <2>5. ASSUME j # Above(ns, i) PROVE ~CheckIfSolved(ms, j)
    <3>1. \A c \in Children(ns, j) : c # i
      BY <2>5, <1>2
    <3>2. \A c \in Children(ns, j) : ms[c].solved <=> ns[c].solved
      BY <3>1, <1>2, Zenon
    <3> QED
      BY <3>2, <2>1, <2>3, <1>1, <1>5, Zenon DEF CheckIfSolved, Unmarked
  <2> QED
    BY <2>4, <2>5
<1>6. AllMarked(ms, 0, Above(ns, i))
  BY <1>1, <1>5, Zenon DEF AllMarked
<1> QED
  BY <1>1, <1>3, <1>4, <1>6 DEF Marked

\* Marks going up from node i of graph ns: only the mark of node x.at may be
\* missing, and of the nodes without children only i has a new mark.
ClimbType == [ns : Seq(NodeType), at : Nat]

IsAbove(ns, at) == at = 0 \/ (at \in DOMAIN ns /\ ns[at].children # <<>>)

DeadUp(ns, i, x) ==
  /\ SameTree(x.ns, ns) /\ Marked(x.ns, x.at, 0) /\ IsAbove(ns, x.at) /\ x.ns[i].dead
  /\ \A j \in DOMAIN ns :
       /\ x.ns[j].solved <=> ns[j].solved
       /\ ns[j].children = <<>> /\ j # i => (x.ns[j].dead <=> ns[j].dead)

SolvedUp(ns, i, x) ==
  /\ SameTree(x.ns, ns) /\ Marked(x.ns, 0, x.at) /\ IsAbove(ns, x.at) /\ x.ns[i].solved
  /\ \A j \in DOMAIN ns :
       /\ x.ns[j].dead <=> ns[j].dead
       /\ ns[j].children = <<>> /\ j # i => (x.ns[j].solved <=> ns[j].solved)

\* Marks go on to a smaller node, which has children.
LEMMA AboveIsAbove ==
  ASSUME NEW ns, IsTree(ns), NEW i \in DOMAIN ns
  PROVE  Above(ns, i) \in Nat /\ IsAbove(ns, Above(ns, i)) /\ Above(ns, i) < i
<1>1. ns \in Seq(NodeType)
  BY DEF IsTree
<1>2. i \in 1 .. Len(ns) /\ Len(ns) \in Nat /\ DOMAIN ns = 1 .. Len(ns)
  BY <1>1, NodeFields
<1>3. CASE i = 1
  BY <1>2, <1>3, TreeFacts DEF IsAbove
<1>4. CASE i # 1
  <2>1. Above(ns, i) = ns[i].parent /\ ns[i].parent \in DOMAIN ns /\ ns[i].parent < i /\ ns[ns[i].parent].children # <<>>
    BY <1>4, TreeFacts
  <2> QED
    BY <1>2, <2>1 DEF IsAbove
<1> QED
  BY <1>3, <1>4

\* One turn of the loop of propogate_dead_end_node.
LEMMA ClimbDeadUp ==
  ASSUME NEW ns, IsTree(ns), AllOpened(ns, 0), NEW i \in DOMAIN ns, NEW x \in ClimbType, DeadUp(ns, i, x)
  PROVE  /\ ClimbDead(x) \in ClimbType /\ DeadUp(ns, i, ClimbDead(x))
         /\ ClimbDead(x).at = 0 \/ ClimbDead(x).at < x.at
<1> DEFINE m == x.ns
           at == x.at
<1>1. m \in Seq(NodeType) /\ at \in Nat
  BY DEF ClimbType
<1>2. /\ SameTree(m, ns) /\ Marked(m, at, 0) /\ IsAbove(ns, at) /\ m[i].dead
      /\ \A j \in DOMAIN ns :
           /\ m[j].solved <=> ns[j].solved
           /\ ns[j].children = <<>> /\ j # i => (m[j].dead <=> ns[j].dead)
  BY DEF DeadUp
<1>3. IsTree(m) /\ AllOpened(m, 0) /\ DOMAIN m = DOMAIN ns /\ \A j \in DOMAIN ns : m[j].children = ns[j].children
  BY <1>2, TreeStays DEF SameTree
<1>4. CASE at # 0 /\ CheckIfDead(m, at)
  <2> DEFINE k == [m EXCEPT ![at].dead = TRUE]
             y == [ns |-> k, at |-> Above(m, at)]
  <2>1. ClimbDead(x) = y
    BY <1>4 DEF ClimbDead
  <2>2. at \in DOMAIN m /\ ns[at].children # <<>> /\ m[at].children # <<>>
    BY <1>2, <1>3, <1>4 DEF IsAbove
  <2>3. /\ SameTree(k, m)
        /\ \A j \in DOMAIN m : (k[j].solved <=> m[j].solved) /\ (k[j].dead <=> j = at \/ m[j].dead)
    BY <1>1, <2>2, MarkDead
  <2> HIDE DEF k
  <2>4. \A j \in DOMAIN m : MarkSound(m, j)
    BY <1>2 DEF Marked
  <2>5. /\ ~m[at].solved /\ (m[at].type = "Or" => m[at].state \notin CanWin)
        /\ m[at].type = "And" => ~(Results(m, at) \subseteq CanWin)
    <3>1. CASE m[at].dead
      BY <3>1, <2>2, <2>4 DEF MarkSound
    <3>2. CASE ~m[at].dead
      <4> HIDE DEF m, at
      <4> QED
        BY <3>2, <2>2, <2>4, <1>3, <1>4, DeadSound
    <3> QED
      BY <3>1, <3>2
  <2>6. Marked(k, Above(m, at), 0)
    <3> HIDE DEF m, at
    <3> QED
      BY <2>2, <2>3, <2>5, <1>2, <1>3, DeadStep
  <2>7. Above(m, at) \in Nat /\ IsAbove(m, Above(m, at)) /\ Above(m, at) < at
    <3> HIDE DEF m, at
    <3> QED
      BY <2>2, <1>3, AboveIsAbove
  <2>8. SameTree(k, ns) /\ IsAbove(ns, Above(m, at))
    BY <2>3, <2>7, <1>2, <1>3 DEF SameTree, IsAbove
  <2>9. k[i].dead /\ \A j \in DOMAIN ns : /\ k[j].solved <=> ns[j].solved
                                          /\ ns[j].children = <<>> /\ j # i => (k[j].dead <=> ns[j].dead)
    <3> HIDE DEF m, at
    <3> QED
      BY <2>2, <2>3, <1>2, <1>3, Zenon
  <2>10. k \in Seq(NodeType)
    BY <2>3 DEF SameTree
  <2>11. y.ns = k /\ y.at = Above(m, at) /\ y \in ClimbType
    BY <2>7, <2>10 DEF ClimbType
  <2> HIDE DEF y, m, at
  <2>12. DeadUp(ns, i, y)
    BY <2>6, <2>8, <2>9, <2>11, Zenon DEF DeadUp
  <2> QED
    BY <2>1, <2>7, <2>11, <2>12 DEF at
<1>5. CASE ~(at # 0 /\ CheckIfDead(m, at))
  <2> DEFINE y == [ns |-> m, at |-> 0]
  <2>1. ClimbDead(x) = y
    BY <1>5, Zenon DEF ClimbDead
  <2>2. y.ns = m /\ y.at = 0 /\ y \in ClimbType
    BY <1>1 DEF ClimbType
  <2> HIDE DEF m, at, y
  <2>3. Marked(m, 0, 0)
    <3>1. \A j \in DOMAIN m : m[j].children # <<>> /\ Unmarked(m, j) =>
            (j # at => ~CheckIfDead(m, j)) /\ (j # 0 => ~CheckIfSolved(m, j))
      BY <1>2 DEF Marked, AllMarked
    <3>2. \A j \in DOMAIN m : j # 0 /\ j = at => ~CheckIfDead(m, j)
      BY <1>5
    <3>3. AllMarked(m, 0, 0)
      BY <3>1, <3>2, Zenon DEF AllMarked
    <3> QED
      BY <3>3, <1>2 DEF Marked
  <2>4. DeadUp(ns, i, y)
    BY <2>2, <2>3, <1>2, Zenon DEF DeadUp, IsAbove
  <2> QED
    BY <2>1, <2>2, <2>4
<1> QED
  BY <1>4, <1>5

\* With no mark missing, none is missing elsewhere than at d and s.
LEMMA MarkedWeaker ==
  ASSUME NEW ns \in Seq(NodeType), Marked(ns, 0, 0), NEW d, NEW s
  PROVE  Marked(ns, d, s)
<1>1. \A i \in DOMAIN ns : i # 0
  BY NodeFields
<1>2. AllMarked(ns, 0, 0) /\ \A i \in DOMAIN ns : MarkSound(ns, i) /\ Justified(ns, i)
  BY DEF Marked
<1>3. AllMarked(ns, d, s)
  BY <1>1, <1>2 DEF AllMarked
<1> QED
  BY <1>2, <1>3 DEF Marked

\* propogate_dead_end_node: i turns of the loop are enough, and no mark is
\* missing when it ends.
LEMMA PropagateDeadFacts ==
  ASSUME NEW ns, IsTree(ns), AllOpened(ns, 0), Marked(ns, 0, 0),
         NEW i \in DOMAIN ns, ns[i].type = "Or", Unmarked(ns, i), ns[i].state \notin CanWin
  PROVE  \E x : x.ns = PropagateDead(ns, i) /\ x.at = 0 /\ DeadUp(ns, i, x)
<1> DEFINE base == [ns |-> [ns EXCEPT ![i].dead = TRUE], at |-> Above(ns, i)]
           V == {x \in ClimbType : DeadUp(ns, i, x)}
           next == [p \in (1 .. i) \X V |-> ClimbDead(p[2])]
           Loop(g) == g = [k \in 0 .. i |-> IF k = 0 THEN base ELSE ClimbDead(g[k - 1])]
<1>1. ns \in Seq(NodeType) /\ i \in Nat /\ i # 0
  <2>1. ns \in Seq(NodeType)
    BY DEF IsTree
  <2> QED
    BY <2>1, NodeFields
<1>2. base \in ClimbType /\ DeadUp(ns, i, base) /\ base.at < i
  <2> DEFINE m == [ns EXCEPT ![i].dead = TRUE]
  <2>1. SameTree(m, ns) /\ \A j \in DOMAIN ns : (m[j].solved <=> ns[j].solved) /\ (m[j].dead <=> j = i \/ ns[j].dead)
    BY <1>1, MarkDead
  <2> HIDE DEF m
  <2>2. Marked(ns, i, 0)
    BY <1>1, MarkedWeaker
  <2>3. ~ns[i].solved
    BY DEF Unmarked
  <2>4. Marked(m, Above(ns, i), 0)
    BY <2>1, <2>2, <2>3, DeadStep
  <2>5. Above(ns, i) \in Nat /\ IsAbove(ns, Above(ns, i)) /\ Above(ns, i) < i
    BY AboveIsAbove
  <2>6. m \in Seq(NodeType)
    BY <2>1 DEF SameTree
  <2>7. base.ns = m /\ base.at = Above(ns, i) /\ base \in ClimbType
    BY <2>5, <2>6 DEF ClimbType, m
  <2> HIDE DEF base
  <2>8. DeadUp(ns, i, base)
    BY <2>1, <2>4, <2>5, <2>7, Zenon DEF DeadUp
  <2> QED
    BY <2>5, <2>7, <2>8
<1>3. \A x \in V : ClimbDead(x) \in V /\ (ClimbDead(x).at = 0 \/ ClimbDead(x).at < x.at) /\ x.at \in Nat
  BY ClimbDeadUp DEF ClimbType
<1>4. base \in V /\ base.at < i
  BY <1>2
<1> HIDE DEF V, base
<1>5. next \in [(1 .. i) \X V -> V] /\ \A k \in 1 .. i, x \in V : next[<<k, x>>] = ClimbDead(x)
  BY <1>3
<1> HIDE DEF next
<1>6. PICK g : Iterates(i, V, base, next, g)
  BY <1>1, <1>4, <1>5, RecursiveFunction
<1>7. Loop(g)
  <2>1. g \in [0 .. i -> V] /\ g[0] = base /\ \A k \in 1 .. i : g[k] = next[<<k, g[k - 1]>>]
    BY <1>6 DEF Iterates
  <2>2. \A k \in 0 .. i : k # 0 => k \in 1 .. i /\ k - 1 \in 0 .. i
    BY <1>1
  <2>3. \A k \in 0 .. i : g[k] = IF k = 0 THEN base ELSE ClimbDead(g[k - 1])
    BY <2>1, <2>2, <1>5
  <2> QED
    BY <2>1, <2>3
<1> DEFINE climb == CHOOSE h : Loop(h)
<1>8. Loop(climb)
  BY <1>7
<1>9. PropagateDead(ns, i) = climb[i].ns
  BY DEF PropagateDead, base
<1> HIDE DEF climb
<1>10. climb[0] = base /\ \A k \in 1 .. i : climb[k] = ClimbDead(climb[k - 1])
  BY <1>1, <1>8
<1> HIDE DEF Loop
<1> DEFINE T == {k \in Nat : k <= i => climb[k] \in V /\ (climb[k].at = 0 \/ climb[k].at < i - k)}
<1>11. 0 \in T
  BY <1>1, <1>3, <1>4, <1>10
<1>12. ASSUME NEW k \in T PROVE k + 1 \in T
  <2>1. SUFFICES ASSUME k + 1 <= i
                 PROVE  climb[k + 1] \in V /\ (climb[k + 1].at = 0 \/ climb[k + 1].at < i - (k + 1))
    OBVIOUS
  <2>2. k \in Nat /\ k <= i /\ k + 1 \in 1 .. i /\ (k + 1) - 1 = k
    BY <2>1, <1>1
  <2>3. climb[k + 1] = ClimbDead(climb[k]) /\ climb[k] \in V /\ (climb[k].at = 0 \/ climb[k].at < i - k)
    BY <2>2, <1>10
  <2>4. /\ climb[k + 1] \in V /\ climb[k].at \in Nat /\ climb[k + 1].at \in Nat
        /\ climb[k + 1].at = 0 \/ climb[k + 1].at < climb[k].at
    BY <2>3, <1>3
  <2> QED
    BY <2>2, <2>3, <2>4, <1>1
<1>13. T = Nat
  <2>1. T \in SUBSET Nat
    OBVIOUS
  <2> HIDE DEF T
  <2> QED
    BY <1>11, <1>12, <2>1, SetInduction
<1>14. climb[i] \in V /\ (climb[i].at = 0 \/ climb[i].at < i - i)
  BY <1>1, <1>13
<1>15. climb[i].at \in Nat
  BY <1>3, <1>14
<1>16. climb[i].at = 0 /\ DeadUp(ns, i, climb[i])
  BY <1>1, <1>14, <1>15 DEF V
<1> QED
  BY <1>9, <1>16

\* Marking one node solved.
LEMMA MarkSolved ==
  ASSUME NEW ns \in Seq(NodeType), NEW i \in DOMAIN ns
  PROVE  LET ms == [ns EXCEPT ![i].solved = TRUE]
         IN  /\ SameTree(ms, ns)
             /\ \A j \in DOMAIN ns : (ms[j].dead <=> ns[j].dead) /\ (ms[j].solved <=> j = i \/ ns[j].solved)
<1> DEFINE ms == [ns EXCEPT ![i].solved = TRUE]
           m == [ns[i] EXCEPT !.solved = TRUE]
<1>1. ns[i] \in NodeType
  <2> HIDE DEF NodeType
  <2> QED
    OBVIOUS
<1>2. /\ m \in NodeType /\ m.solved = TRUE /\ m.dead = ns[i].dead
      /\ m.type = ns[i].type /\ m.state = ns[i].state /\ m.parent = ns[i].parent
      /\ m.action = ns[i].action /\ m.is_root = ns[i].is_root /\ m.children = ns[i].children
  BY <1>1 DEF NodeType
<1>3. ms = [ns EXCEPT ![i] = m]
  OBVIOUS
<1> HIDE DEF ms, m, NodeType
<1>4. ms \in Seq(NodeType) /\ DOMAIN ms = DOMAIN ns /\ ms[i] = m /\ \A j \in DOMAIN ns : j # i => ms[j] = ns[j]
  BY <1>2, <1>3
<1>5. SameTree(ms, ns)
  BY <1>2, <1>4 DEF SameTree
<1>6. \A j \in DOMAIN ns : (ms[j].dead <=> ns[j].dead) /\ (ms[j].solved <=> j = i \/ ns[j].solved)
  <2>1. SUFFICES ASSUME NEW j \in DOMAIN ns
                 PROVE  (ms[j].dead <=> ns[j].dead) /\ (ms[j].solved <=> j = i \/ ns[j].solved)
    OBVIOUS
  <2>2. CASE j = i
    BY <2>2, <1>2, <1>4, Zenon
  <2>3. CASE j # i
    BY <2>3, <1>4, Zenon
  <2> QED
    BY <2>2, <2>3
<1> QED
  BY <1>5, <1>6 DEF ms

\* One turn of the loop of propogate_solved_node.
LEMMA ClimbSolvedUp ==
  ASSUME NEW ns, IsTree(ns), AllOpened(ns, 0), NEW i \in DOMAIN ns, NEW x \in ClimbType, SolvedUp(ns, i, x)
  PROVE  /\ ClimbSolved(x) \in ClimbType /\ SolvedUp(ns, i, ClimbSolved(x))
         /\ ClimbSolved(x).at = 0 \/ ClimbSolved(x).at < x.at
<1> DEFINE m == x.ns
           at == x.at
<1>1. m \in Seq(NodeType) /\ at \in Nat
  BY DEF ClimbType
<1>2. /\ SameTree(m, ns) /\ Marked(m, 0, at) /\ IsAbove(ns, at) /\ m[i].solved
      /\ \A j \in DOMAIN ns :
           /\ m[j].dead <=> ns[j].dead
           /\ ns[j].children = <<>> /\ j # i => (m[j].solved <=> ns[j].solved)
  BY DEF SolvedUp
<1>3. IsTree(m) /\ AllOpened(m, 0) /\ DOMAIN m = DOMAIN ns /\ \A j \in DOMAIN ns : m[j].children = ns[j].children
  BY <1>2, TreeStays DEF SameTree
<1>4. CASE at # 0 /\ CheckIfSolved(m, at)
  <2> DEFINE k == [m EXCEPT ![at].solved = TRUE]
             y == [ns |-> k, at |-> Above(m, at)]
  <2>1. ClimbSolved(x) = y
    BY <1>4 DEF ClimbSolved
  <2>2. at \in DOMAIN m /\ ns[at].children # <<>> /\ m[at].children # <<>>
    BY <1>2, <1>3, <1>4 DEF IsAbove
  <2>3. /\ SameTree(k, m)
        /\ \A j \in DOMAIN m : (k[j].dead <=> m[j].dead) /\ (k[j].solved <=> j = at \/ m[j].solved)
    BY <1>1, <2>2, MarkSolved
  <2> HIDE DEF k
  <2>4. \A j \in DOMAIN m : MarkSound(m, j)
    BY <1>2 DEF Marked
  <2>5. /\ ~m[at].dead /\ (m[at].type = "Or" => m[at].state \in CanWin)
        /\ m[at].type = "And" => Results(m, at) \subseteq CanWin
    <3>1. CASE m[at].solved
      BY <3>1, <2>2, <2>4 DEF MarkSound
    <3>2. CASE ~m[at].solved
      <4> HIDE DEF m, at
      <4> QED
        BY <3>2, <2>2, <2>4, <1>3, <1>4, SolvedSound
    <3> QED
      BY <3>1, <3>2
  <2>6. Marked(k, 0, Above(m, at))
    <3> HIDE DEF m, at
    <3>2. /\ Children(k, at) = Children(m, at) /\ k[at].type = m[at].type /\ k[at].state = m[at].state
          /\ \A c \in Children(m, at) : c \in DOMAIN m
      BY <2>2, <2>3, <1>3, TreeStays, TreeFacts DEF SameTree
    <3>3. \A c \in Children(m, at) : m[c].solved => k[c].solved
      BY <3>2, <2>3, Zenon
    <3>4. m[at].type \in {"Or", "And"}
      BY <1>1, <2>2, NodeFields
    <3>5. Justified(k, at)
      <4>1. CASE m[at].solved
        BY <3>2, <3>3, <4>1, <2>2, <1>2, Zenon DEF Justified, Marked
      <4>2. CASE ~m[at].solved
        <5>1. IF m[at].type = "And" THEN \A c \in Children(m, at) : m[c].solved
                                    ELSE \E c \in Children(m, at) : m[c].solved
          BY <3>4, <4>2, <1>4 DEF CheckIfSolved
        <5> QED
          BY <5>1, <3>2, <3>3, Zenon DEF Justified
      <4> QED
        BY <4>1, <4>2
    <3> QED
      BY <3>5, <2>2, <2>3, <2>5, <1>2, <1>3, SolvedStep
  <2>7. Above(m, at) \in Nat /\ IsAbove(m, Above(m, at)) /\ Above(m, at) < at
    <3> HIDE DEF m, at
    <3> QED
      BY <2>2, <1>3, AboveIsAbove
  <2>8. SameTree(k, ns) /\ IsAbove(ns, Above(m, at))
    BY <2>3, <2>7, <1>2, <1>3 DEF SameTree, IsAbove
  <2>9. k[i].solved /\ \A j \in DOMAIN ns : /\ k[j].dead <=> ns[j].dead
                                            /\ ns[j].children = <<>> /\ j # i => (k[j].solved <=> ns[j].solved)
    <3> HIDE DEF m, at
    <3> QED
      BY <2>2, <2>3, <1>2, <1>3, Zenon
  <2>10. k \in Seq(NodeType)
    BY <2>3 DEF SameTree
  <2>11. y.ns = k /\ y.at = Above(m, at) /\ y \in ClimbType
    BY <2>7, <2>10 DEF ClimbType
  <2> HIDE DEF y, m, at
  <2>12. SolvedUp(ns, i, y)
    BY <2>6, <2>8, <2>9, <2>11, Zenon DEF SolvedUp
  <2> QED
    BY <2>1, <2>7, <2>11, <2>12 DEF at
<1>5. CASE ~(at # 0 /\ CheckIfSolved(m, at))
  <2> DEFINE y == [ns |-> m, at |-> 0]
  <2>1. ClimbSolved(x) = y
    BY <1>5, Zenon DEF ClimbSolved
  <2>2. y.ns = m /\ y.at = 0 /\ y \in ClimbType
    BY <1>1 DEF ClimbType
  <2> HIDE DEF m, at, y
  <2>3. Marked(m, 0, 0)
    <3>1. \A j \in DOMAIN m : m[j].children # <<>> /\ Unmarked(m, j) =>
            (j # 0 => ~CheckIfDead(m, j)) /\ (j # at => ~CheckIfSolved(m, j))
      BY <1>2 DEF Marked, AllMarked
    <3>2. \A j \in DOMAIN m : j # 0 /\ j = at => ~CheckIfSolved(m, j)
      BY <1>5
    <3>3. AllMarked(m, 0, 0)
      BY <3>1, <3>2, Zenon DEF AllMarked
    <3> QED
      BY <3>3, <1>2 DEF Marked
  <2>4. SolvedUp(ns, i, y)
    BY <2>2, <2>3, <1>2, Zenon DEF SolvedUp, IsAbove
  <2> QED
    BY <2>1, <2>2, <2>4
<1> QED
  BY <1>4, <1>5
\* propogate_solved_node, in the same way.
LEMMA PropagateSolvedFacts ==
  ASSUME NEW ns, IsTree(ns), AllOpened(ns, 0), Marked(ns, 0, 0),
         NEW i \in DOMAIN ns, ns[i].type = "Or", Unmarked(ns, i), ns[i].state \in Goals
  PROVE  \E x : x.ns = PropagateSolved(ns, i) /\ x.at = 0 /\ SolvedUp(ns, i, x)
<1> DEFINE base == [ns |-> [ns EXCEPT ![i].solved = TRUE], at |-> Above(ns, i)]
           V == {x \in ClimbType : SolvedUp(ns, i, x)}
           next == [p \in (1 .. i) \X V |-> ClimbSolved(p[2])]
           Loop(g) == g = [k \in 0 .. i |-> IF k = 0 THEN base ELSE ClimbSolved(g[k - 1])]
<1>1. ns \in Seq(NodeType) /\ i \in Nat /\ i # 0
  <2>1. ns \in Seq(NodeType)
    BY DEF IsTree
  <2> QED
    BY <2>1, NodeFields
<1>2. base \in ClimbType /\ SolvedUp(ns, i, base) /\ base.at < i
  <2> DEFINE m == [ns EXCEPT ![i].solved = TRUE]
  <2>1. SameTree(m, ns) /\ \A j \in DOMAIN ns : (m[j].dead <=> ns[j].dead) /\ (m[j].solved <=> j = i \/ ns[j].solved)
    BY <1>1, MarkSolved
  <2> HIDE DEF m
  <2>2. Marked(ns, 0, i)
    BY <1>1, MarkedWeaker
  <2>3. ~ns[i].dead
    BY DEF Unmarked
  <2>4. Marked(m, 0, Above(ns, i))
    <3>1. Justified(m, i)
      BY <2>1 DEF Justified, SameTree
    <3>2. ns[i].state \in CanWin
      BY CanWinFacts
    <3> QED
      BY <3>1, <3>2, <2>1, <2>2, <2>3, SolvedStep
  <2>5. Above(ns, i) \in Nat /\ IsAbove(ns, Above(ns, i)) /\ Above(ns, i) < i
    BY AboveIsAbove
  <2>6. m \in Seq(NodeType)
    BY <2>1 DEF SameTree
  <2>7. base.ns = m /\ base.at = Above(ns, i) /\ base \in ClimbType
    BY <2>5, <2>6 DEF ClimbType, m
  <2> HIDE DEF base
  <2>8. SolvedUp(ns, i, base)
    BY <2>1, <2>4, <2>5, <2>7, Zenon DEF SolvedUp
  <2> QED
    BY <2>5, <2>7, <2>8
<1>3. \A x \in V : ClimbSolved(x) \in V /\ (ClimbSolved(x).at = 0 \/ ClimbSolved(x).at < x.at) /\ x.at \in Nat
  BY ClimbSolvedUp DEF ClimbType
<1>4. base \in V /\ base.at < i
  BY <1>2
<1> HIDE DEF V, base
<1>5. next \in [(1 .. i) \X V -> V] /\ \A k \in 1 .. i, x \in V : next[<<k, x>>] = ClimbSolved(x)
  BY <1>3
<1> HIDE DEF next
<1>6. PICK g : Iterates(i, V, base, next, g)
  BY <1>1, <1>4, <1>5, RecursiveFunction
<1>7. Loop(g)
  <2>1. g \in [0 .. i -> V] /\ g[0] = base /\ \A k \in 1 .. i : g[k] = next[<<k, g[k - 1]>>]
    BY <1>6 DEF Iterates
  <2>2. \A k \in 0 .. i : k # 0 => k \in 1 .. i /\ k - 1 \in 0 .. i
    BY <1>1
  <2>3. \A k \in 0 .. i : g[k] = IF k = 0 THEN base ELSE ClimbSolved(g[k - 1])
    BY <2>1, <2>2, <1>5
  <2> QED
    BY <2>1, <2>3
<1> DEFINE climb == CHOOSE h : Loop(h)
<1>8. Loop(climb)
  BY <1>7
<1>9. PropagateSolved(ns, i) = climb[i].ns
  BY DEF PropagateSolved, base
<1> HIDE DEF climb
<1>10. climb[0] = base /\ \A k \in 1 .. i : climb[k] = ClimbSolved(climb[k - 1])
  BY <1>1, <1>8
<1> HIDE DEF Loop
<1> DEFINE T == {k \in Nat : k <= i => climb[k] \in V /\ (climb[k].at = 0 \/ climb[k].at < i - k)}
<1>11. 0 \in T
  BY <1>1, <1>3, <1>4, <1>10
<1>12. ASSUME NEW k \in T PROVE k + 1 \in T
  <2>1. SUFFICES ASSUME k + 1 <= i
                 PROVE  climb[k + 1] \in V /\ (climb[k + 1].at = 0 \/ climb[k + 1].at < i - (k + 1))
    OBVIOUS
  <2>2. k \in Nat /\ k <= i /\ k + 1 \in 1 .. i /\ (k + 1) - 1 = k
    BY <2>1, <1>1
  <2>3. climb[k + 1] = ClimbSolved(climb[k]) /\ climb[k] \in V /\ (climb[k].at = 0 \/ climb[k].at < i - k)
    BY <2>2, <1>10
  <2>4. /\ climb[k + 1] \in V /\ climb[k].at \in Nat /\ climb[k + 1].at \in Nat
        /\ climb[k + 1].at = 0 \/ climb[k + 1].at < climb[k].at
    BY <2>3, <1>3
  <2> QED
    BY <2>2, <2>3, <2>4, <1>1
<1>13. T = Nat
  <2>1. T \in SUBSET Nat
    OBVIOUS
  <2> HIDE DEF T
  <2> QED
    BY <1>11, <1>12, <2>1, SetInduction
<1>14. climb[i] \in V /\ (climb[i].at = 0 \/ climb[i].at < i - i)
  BY <1>1, <1>13
<1>15. climb[i].at \in Nat
  BY <1>3, <1>14
<1>16. climb[i].at = 0 /\ SolvedUp(ns, i, climb[i])
  BY <1>1, <1>14, <1>15 DEF V
<1> QED
  BY <1>9, <1>16

-----------------------------------------------------------------------------
(* The search: its frontier                                                *)

\* The node that find_policy takes from the frontier.
LEMMA FrontierHead ==
  ASSUME NEW ns \in Seq(NodeType), NEW f, IsFrontier(ns, f, 0), f # <<>>
  PROVE  /\ Head(f) \in DOMAIN ns /\ ns[Head(f)].type = "Or" /\ ns[Head(f)].children = <<>> /\ Unmarked(ns, Head(f))
         /\ IsFrontier(ns, Tail(f), Head(f))
<1> DEFINE h == Head(f)
           t == Tail(f)
           D == DOMAIN ns
<1>1. /\ f \in Seq(D) /\ \A k, l \in DOMAIN f : f[k] = f[l] => k = l
      /\ \A i \in D : i \in ToSet(f) <=> i # 0 /\ ns[i].type = "Or" /\ ns[i].children = <<>> /\ Unmarked(ns, i)
  BY DEF IsFrontier
<1> HIDE DEF D
<1>2. /\ Len(f) \in Nat \ {0} /\ DOMAIN f = 1 .. Len(f) /\ h = f[1] /\ h \in D /\ t \in Seq(D)
      /\ Len(t) = Len(f) - 1 /\ \A k \in 1 .. Len(t) : t[k] = f[k + 1]
  BY <1>1
<1>3. ToSet(f) = {f[k] : k \in 1 .. Len(f)}
  BY <1>2, Zenon DEF ToSet
<1>4. DOMAIN t = 1 .. Len(t)
  BY <1>2
<1>5. ToSet(t) = {t[k] : k \in 1 .. Len(t)}
  BY <1>4, Zenon DEF ToSet
<1> HIDE DEF h, t
<1>6. \A i : i \in ToSet(t) <=> i \in ToSet(f) /\ i # h
  <2>1. ASSUME NEW i, i \in ToSet(t) PROVE i \in ToSet(f) /\ i # h
    <3>1. PICK k \in 1 .. Len(t) : i = t[k]
      BY <2>1, <1>5
    <3>2. k + 1 \in 1 .. Len(f) /\ 1 \in 1 .. Len(f) /\ k + 1 # 1 /\ i = f[k + 1]
      BY <3>1, <1>2
    <3> QED
      BY <3>2, <1>1, <1>2, <1>3
  <2>2. ASSUME NEW i, i \in ToSet(f), i # h PROVE i \in ToSet(t)
    <3>1. PICK k \in 1 .. Len(f) : i = f[k]
      BY <2>2, <1>3
    <3>2. k # 1
      BY <3>1, <2>2, <1>2
    <3>3. k - 1 \in 1 .. Len(t) /\ t[k - 1] = f[(k - 1) + 1] /\ (k - 1) + 1 = k
      BY <3>2, <1>2
    <3> QED
      BY <3>1, <3>3, <1>5
  <2> QED
    BY <2>1, <2>2
<1>7. \A k, l \in DOMAIN t : t[k] = t[l] => k = l
  <2>1. SUFFICES ASSUME NEW k \in 1 .. Len(t), NEW l \in 1 .. Len(t), t[k] = t[l] PROVE k = l
    BY <1>4
  <2>2. k + 1 \in DOMAIN f /\ l + 1 \in DOMAIN f /\ f[k + 1] = f[l + 1]
    BY <2>1, <1>2
  <2>3. k + 1 = l + 1
    BY <2>2, <1>1
  <2> QED
    BY <2>3
<1>8. 1 \in 1 .. Len(f)
  BY <1>2
<1>9. h \in ToSet(f)
  BY <1>2, <1>3, <1>8
<1>10. \A i \in D : i # 0
  BY NodeFields DEF D
<1>11. IsFrontier(ns, t, h)
  BY <1>1, <1>2, <1>6, <1>7, <1>10 DEF IsFrontier, D
<1> QED
  BY <1>1, <1>2, <1>9, <1>11 DEF h, t, D

\* A node whose mark is new leaves the frontier.
LEMMA FrontierMarked ==
  ASSUME NEW ns \in Seq(NodeType), NEW f, NEW i \in DOMAIN ns, IsFrontier(ns, f, i), NEW ms, SameTree(ms, ns), ~Unmarked(ms, i),
         \A j \in DOMAIN ns : ns[j].children = <<>> /\ j # i => (Unmarked(ms, j) <=> Unmarked(ns, j))
  PROVE  IsFrontier(ms, f, 0)
<1>1. \A j \in DOMAIN ns : j # 0
  BY NodeFields
<1>2. DOMAIN ms = DOMAIN ns /\ \A j \in DOMAIN ns : ms[j].type = ns[j].type /\ ms[j].children = ns[j].children
  BY DEF SameTree
<1>3. \A j \in DOMAIN ns : j \in ToSet(f) <=> j # i /\ ns[j].type = "Or" /\ ns[j].children = <<>> /\ Unmarked(ns, j)
  BY DEF IsFrontier
<1>4. ASSUME NEW j \in DOMAIN ns
      PROVE  j \in ToSet(f) <=> j # 0 /\ ms[j].type = "Or" /\ ms[j].children = <<>> /\ Unmarked(ms, j)
  BY <1>1, <1>2, <1>3, Zenon
<1>5. f \in Seq(DOMAIN ms) /\ \A k, l \in DOMAIN f : f[k] = f[l] => k = l
  BY <1>2 DEF IsFrontier
<1> QED
  BY <1>2, <1>4, <1>5, Zenon DEF IsFrontier

\* When the frontier is empty, every node has its mark: the last node
\* without one would have a later child without one.
LEMMA EmptyFrontier ==
  ASSUME NEW ns, IsTree(ns), Marked(ns, 0, 0), IsFrontier(ns, <<>>, 0)
  PROVE  \A i \in DOMAIN ns : ~Unmarked(ns, i)
<1>1. ns \in Seq(NodeType)
  BY DEF IsTree
<1>2. Len(ns) \in Nat /\ DOMAIN ns = 1 .. Len(ns)
  BY <1>1
<1> DEFINE n == Len(ns)
           T == {k \in Nat : k < n /\ Unmarked(ns, n - k)}
<1>3. SUFFICES ASSUME T # {} PROVE FALSE
  <2>1. \A i \in DOMAIN ns : n - i \in Nat /\ n - i < n /\ n - (n - i) = i
    BY <1>2
  <2>2. \A i \in DOMAIN ns : Unmarked(ns, i) => n - i \in T
    BY <2>1
  <2> QED
    BY <2>2
<1>4. PICK k \in T : \A l \in T : k <= l
  BY <1>3, LeastElement
<1> DEFINE i == n - k
<1>5. i \in DOMAIN ns /\ i # 0 /\ Unmarked(ns, i) /\ \A j \in DOMAIN ns : Unmarked(ns, j) => j <= i
  <2>1. \A j \in DOMAIN ns : n - j \in Nat /\ n - j < n /\ n - (n - j) = j
    BY <1>2
  <2>2. \A j \in DOMAIN ns : Unmarked(ns, j) => k <= n - j
    BY <2>1, <1>4
  <2>3. k \in Nat /\ k < n /\ Unmarked(ns, n - k) /\ n \in Nat
    BY <1>2
  <2>4. n - k \in 1 .. n /\ n - k # 0
    BY <2>3
  <2>5. \A j \in 1 .. n : k <= n - j => j <= n - k
    BY <2>3
  <2> QED
    BY <2>2, <2>3, <2>4, <2>5, <1>2
<1> HIDE DEF T, i, n
<1>6. ns[i].type \in {"Or", "And"} /\ (ns[i].children = <<>> <=> Children(ns, i) = {})
  BY <1>1, <1>5, NodeFields
<1>7. \A c \in Children(ns, i) : c \in DOMAIN ns /\ i < c
  <2>1. ASSUME NEW c \in Children(ns, i) PROVE c \in DOMAIN ns /\ i < c
    <3>1. c \in DOMAIN ns /\ ns[c].parent = i
      BY <1>5, TreeFacts
    <3>2. c # 1
      <4>1. ns[1].parent = 0
        BY <1>5, <1>2, <3>1 DEF IsTree, Placed
      <4> QED
        BY <3>1, <4>1, <1>5
    <3> QED
      BY <3>1, <3>2, TreeFacts
  <2> QED
    BY <2>1
<1>8. ToSet(<<>>) = {}
  BY DEF ToSet
<1>9. ns[i].children # <<>>
  <2>1. SUFFICES ASSUME ns[i].children = <<>> PROVE FALSE
    OBVIOUS
  <2>2. ns[i].type = "Or"
    BY <2>1, <1>5, <1>6, TreeFacts DEF Acted
  <2>3. i \in ToSet(<<>>)
    BY <2>1, <2>2, <1>5 DEF IsFrontier
  <2> QED
    BY <2>3, <1>8
<1>10. ~CheckIfDead(ns, i) /\ ~CheckIfSolved(ns, i)
  BY <1>5, <1>9 DEF Marked, AllMarked
<1>11. \E c \in Children(ns, i) : Unmarked(ns, c)
  BY <1>5, <1>6, <1>10, Zenon DEF CheckIfDead, CheckIfSolved, Unmarked
<1>12. PICK c \in Children(ns, i) : Unmarked(ns, c)
  BY <1>11
<1>13. c \in DOMAIN ns /\ i < c /\ c <= i
  BY <1>5, <1>7, <1>12
<1>14. c \in Nat /\ i \in Nat
  BY <1>2, <1>5, <1>13
<1> QED
  BY <1>13, <1>14

-----------------------------------------------------------------------------
(* The search: growing the graph                                           *)

GraphType == [nodes : Seq(NodeType), frontier : Seq(Nat)]

\* The elements of a concatenation.
LEMMA ConcatFacts ==
  ASSUME NEW X, NEW s \in Seq(X), NEW t \in Seq(X)
  PROVE  /\ s \o t \in Seq(X) /\ Len(s \o t) = Len(s) + Len(t)
         /\ \A j \in 1 .. Len(s) : (s \o t)[j] = s[j]
         /\ \A k \in 1 .. Len(t) : (s \o t)[Len(s) + k] = t[k]
         /\ ToSet(s \o t) = ToSet(s) \cup ToSet(t)
<1>1. /\ Len(s) \in Nat /\ Len(t) \in Nat /\ DOMAIN s = 1 .. Len(s) /\ DOMAIN t = 1 .. Len(t)
      /\ s \o t \in Seq(X) /\ Len(s \o t) = Len(s) + Len(t)
      /\ DOMAIN (s \o t) = 1 .. Len(s) + Len(t)
      /\ \A k \in 1 .. Len(s) + Len(t) : (s \o t)[k] = IF k <= Len(s) THEN s[k] ELSE t[k - Len(s)]
  OBVIOUS
<1> DEFINE u == s \o t
           n == Len(s)
           m == Len(t)
<1>2. /\ n \in Nat /\ m \in Nat /\ DOMAIN s = 1 .. n /\ DOMAIN t = 1 .. m /\ DOMAIN u = 1 .. n + m
      /\ \A k \in 1 .. n + m : u[k] = IF k <= n THEN s[k] ELSE t[k - n]
  BY <1>1
<1> HIDE DEF u, n, m
<1>3. /\ \A j \in 1 .. n : j \in 1 .. n + m /\ u[j] = s[j]
      /\ \A k \in 1 .. m : n + k \in 1 .. n + m /\ u[n + k] = t[k]
  BY <1>2
<1>4. ToSet(u) = {u[k] : k \in 1 .. n + m} /\ ToSet(s) = {s[k] : k \in 1 .. n} /\ ToSet(t) = {t[k] : k \in 1 .. m}
  BY <1>2, Zenon DEF ToSet
<1>5. \A k \in 1 .. n + m : k \in 1 .. n \/ k - n \in 1 .. m
  BY <1>2
<1>6. \A k \in 1 .. n + m : u[k] \in {s[j] : j \in 1 .. n} \cup {t[j] : j \in 1 .. m}
  BY <1>2, <1>5
<1>7. ToSet(u) = ToSet(s) \cup ToSet(t)
  BY <1>3, <1>4, <1>6
<1> QED
  BY <1>1, <1>3, <1>7 DEF u, n, m

\* Graph h is graph g with an And node of action a below node i, and the Or
\* nodes of the outcomes below that.
Grown(g, i, a, outs, h) ==
  LET ns == g.nodes
      ms == h.nodes
      new == Len(ns) + 1
      ids == [k \in 1 .. Len(outs) |-> new + k]
  IN  /\ h \in GraphType /\ Len(ms) = new + Len(outs)
      /\ \A j \in 1 .. Len(ns) : j # i => ms[j] = ns[j]
      /\ ms[i] = [ns[i] EXCEPT !.children = Append(@, new)]
      /\ ms[new] = AndNode(ns[i].state, i, a, ids)
      /\ \A k \in 1 .. Len(outs) : ms[new + k] = OrNode(outs[k], new, FALSE)
      /\ h.frontier = g.frontier \o ids

\* create_and_node and create_or_node make such a graph.
LEMMA GrowGrown ==
  ASSUME NEW g \in GraphType, NEW i \in DOMAIN g.nodes, NEW a \in 1 .. Len(Actions),
         domain \in [States -> [DOMAIN Actions -> Outcomes]], domain[g.nodes[i].state][a] # <<>>
  PROVE  Grown(g, i, a, domain[g.nodes[i].state][a], Grow(g, i, a))
<1> DEFINE ns == g.nodes
           f == g.frontier
           outs == domain[ns[i].state][a]
           new == Len(ns) + 1
           ids == [k \in DOMAIN outs |-> new + k]
           m == [ns[i] EXCEPT !.children = Append(@, new)]
           A == AndNode(ns[i].state, i, a, ids)
           ors == [k \in DOMAIN outs |-> OrNode(outs[k], new, FALSE)]
           ms == [ns EXCEPT ![i] = m] \o <<A>> \o ors
           h == [nodes |-> ms, frontier |-> f \o ids]
<1>1. ns \in Seq(NodeType) /\ f \in Seq(Nat)
  <2> HIDE DEF NodeType
  <2> QED
    BY DEF GraphType
<1>2. /\ Len(ns) \in Nat /\ i \in 1 .. Len(ns) /\ DOMAIN ns = 1 .. Len(ns) /\ i \in Nat /\ ns[i] \in NodeType /\ ns[i].state \in States
      /\ ns[i].children \in Seq(Nat)
  BY <1>1, NodeFields
<1>3. outs \in Seq(States)
  <2>1. a \in DOMAIN Actions /\ Outcomes \subseteq Seq(States)
    BY SearchAssumption
  <2>2. outs \in Outcomes
    BY <2>1, <1>2
  <2> QED
    BY <2>1, <2>2
<1>4. Grow(g, i, a) = h
  BY DEF Grow
<1> HIDE DEF outs
<1>5. Len(outs) \in Nat /\ DOMAIN outs = 1 .. Len(outs) /\ \A k \in 1 .. Len(outs) : outs[k] \in States
  BY <1>3
<1> HIDE DEF ns, f
<1>6. new \in Nat
  BY <1>2
<1>7. m \in NodeType
  <2>1. Append(ns[i].children, new) \in Seq(Nat)
    BY <1>2, <1>6
  <2> HIDE DEF new
  <2> QED
    BY <2>1, <1>2 DEF NodeType
<1> HIDE DEF new
<1>8. ids \in Seq(Nat) /\ ids = [k \in 1 .. Len(outs) |-> new + k] /\ Len(ids) = Len(outs)
  BY <1>5, <1>6
<1> HIDE DEF ids
<1>9. a \in 0 .. Len(Actions) /\ <<>> \in Seq(Nat) /\ 0 \in 0 .. Len(Actions)
  BY SearchAssumption
<1>10. A \in NodeType
  BY <1>2, <1>8, <1>9 DEF AndNode, NodeType
<1>11. \A k \in 1 .. Len(outs) : OrNode(outs[k], new, FALSE) \in NodeType
  BY <1>5, <1>6, <1>9 DEF OrNode, NodeType
<1> HIDE DEF m, A, NodeType
<1>12. ors \in Seq(NodeType) /\ Len(ors) = Len(outs) /\ \A k \in 1 .. Len(outs) : ors[k] = OrNode(outs[k], new, FALSE)
  <2> DEFINE o(k) == OrNode(outs[k], new, FALSE)
  <2>1. ors = [k \in 1 .. Len(outs) |-> o(k)] /\ \A k \in 1 .. Len(outs) : o(k) \in NodeType
    BY <1>5, <1>11
  <2> DEFINE n == Len(outs)
  <2> HIDE DEF o, ors, n
  <2>2. ors \in Seq(NodeType) /\ Len(ors) = Len(outs) /\ \A k \in 1 .. Len(outs) : ors[k] = o(k)
    <3>1. n \in Nat /\ ors = [k \in 1 .. n |-> o(k)] /\ \A k \in 1 .. n : o(k) \in NodeType
      BY <2>1, <1>5 DEF n
    <3>2. ors \in Seq(NodeType) /\ Len(ors) = n /\ \A k \in 1 .. n : ors[k] = o(k)
      BY <3>1
    <3> QED
      BY <3>2 DEF n
  <2> QED
    BY <2>2 DEF o
<1> HIDE DEF ors
<1> DEFINE left == [ns EXCEPT ![i] = m]
           mid == left \o <<A>>
<1>13. left \in Seq(NodeType) /\ Len(left) = Len(ns) /\ left[i] = m /\ \A j \in 1 .. Len(ns) : j # i => left[j] = ns[j]
  BY <1>1, <1>2, <1>7
<1> HIDE DEF left
<1>14. <<A>> \in Seq(NodeType) /\ Len(<<A>>) = 1 /\ <<A>>[1] = A
  BY <1>10
<1>15. /\ mid \in Seq(NodeType) /\ Len(mid) = new /\ mid[new] = A
       /\ \A j \in 1 .. Len(ns) : mid[j] = left[j]
  <2> DEFINE one == <<A>>
  <2>1. one \in Seq(NodeType) /\ Len(one) = 1 /\ one[1] = A /\ mid = left \o one
    BY <1>14
  <2> HIDE DEF one, mid
  <2>2. left \in Seq(NodeType) /\ one \in Seq(NodeType)
    BY <2>1, <1>13
  <2>3. /\ left \o one \in Seq(NodeType) /\ Len(left \o one) = Len(left) + Len(one)
        /\ \A j \in 1 .. Len(left) : (left \o one)[j] = left[j]
        /\ \A j \in 1 .. Len(one) : (left \o one)[Len(left) + j] = one[j]
    BY <2>2, ConcatFacts
  <2> QED
    BY <2>1, <2>3, <1>13 DEF new
<1> HIDE DEF mid
<1>16. ms = mid \o ors
  BY DEF mid, left
<1> HIDE DEF ms
<1>17. /\ ms \in Seq(NodeType) /\ Len(ms) = new + Len(outs)
       /\ \A j \in 1 .. new : ms[j] = mid[j]
       /\ \A k \in 1 .. Len(outs) : ms[new + k] = ors[k]
  <2>1. mid \in Seq(NodeType) /\ ors \in Seq(NodeType)
    BY <1>12, <1>15
  <2>2. /\ mid \o ors \in Seq(NodeType) /\ Len(mid \o ors) = Len(mid) + Len(ors)
        /\ \A j \in 1 .. Len(mid) : (mid \o ors)[j] = mid[j]
        /\ \A k \in 1 .. Len(ors) : (mid \o ors)[Len(mid) + k] = ors[k]
    BY <2>1, ConcatFacts
  <2> QED
    BY <2>2, <1>12, <1>15, <1>16
<1>18. \A j \in 1 .. Len(ns) : j \in 1 .. new
  BY <1>2 DEF new
<1>19. new \in 1 .. new
  BY <1>2 DEF new
<1>20. /\ \A j \in 1 .. Len(ns) : j # i => ms[j] = ns[j]
       /\ ms[i] = m /\ ms[new] = A /\ \A k \in 1 .. Len(outs) : ms[new + k] = OrNode(outs[k], new, FALSE)
  <2>1. ms[i] = m
    BY <1>2, <1>13, <1>15, <1>17, <1>18
  <2>2. ms[new] = A
    BY <1>15, <1>17, <1>19
  <2>3. \A j \in 1 .. Len(ns) : j # i => ms[j] = ns[j]
    BY <1>13, <1>15, <1>17, <1>18
  <2> QED
    BY <2>1, <2>2, <2>3, <1>12, <1>17, Zenon
<1>21. f \o ids \in Seq(Nat)
  BY <1>1, <1>8
<1>22. h \in GraphType /\ h.nodes = ms /\ h.frontier = f \o ids
  BY <1>17, <1>21 DEF GraphType
<1> HIDE DEF h
<1>23. A = AndNode(ns[i].state, i, a, [k \in 1 .. Len(outs) |-> new + k])
  BY <1>8 DEF A
<1>24. Grown(g, i, a, outs, h)
  BY <1>8, <1>17, <1>20, <1>22, <1>23 DEF Grown, ns, f, new, m
<1> QED
  BY <1>4, <1>24 DEF outs, ns

\* The same, field by field: new is the And node, and the nodes after it are
\* its children.
OldNodes(ns, ms, i, new) ==
  /\ \A j \in 1 .. new - 1 :
       /\ ms[j].type = ns[j].type /\ ms[j].state = ns[j].state /\ ms[j].parent = ns[j].parent
       /\ ms[j].action = ns[j].action /\ ms[j].is_root = ns[j].is_root
       /\ (ms[j].dead <=> ns[j].dead) /\ (ms[j].solved <=> ns[j].solved)
       /\ j # i => ms[j].children = ns[j].children /\ Children(ms, j) = Children(ns, j)
  /\ ms[i].children = Append(ns[i].children, new) /\ ms[i].children # <<>>
  /\ Children(ms, i) = Children(ns, i) \cup {new}

NewNodes(ns, ms, i, a, outs, new) ==
  /\ ms[new].type = "And" /\ ms[new].state = ns[i].state /\ ms[new].parent = i /\ ms[new].action = a
  /\ ~ms[new].is_root /\ ~ms[new].dead /\ ~ms[new].solved
  /\ ms[new].children = [k \in 1 .. Len(outs) |-> new + k]
  /\ \A j \in new + 1 .. new + Len(outs) :
       /\ ms[j].type = "Or" /\ ms[j].state = outs[j - new] /\ ms[j].parent = new /\ ~ms[j].is_root
       /\ ~ms[j].dead /\ ~ms[j].solved /\ ms[j].children = <<>> /\ Children(ms, j) = {}
  /\ Children(ms, new) = new + 1 .. new + Len(outs)

\* A grown graph, field by field.
LEMMA GrownFacts ==
  ASSUME NEW g \in GraphType, NEW i \in DOMAIN g.nodes, NEW a, NEW outs \in Seq(States), NEW h, Grown(g, i, a, outs, h)
  PROVE  LET ns == g.nodes
             ms == h.nodes
             new == Len(ns) + 1
         IN  OldNodes(ns, ms, i, new) /\ NewNodes(ns, ms, i, a, outs, new)
<1> DEFINE ns == g.nodes
           ms == h.nodes
           n == Len(ns)
           new == n + 1
           m == Len(outs)
           ids == [k \in 1 .. m |-> new + k]
<1>1. ns \in Seq(NodeType) /\ m \in Nat
  <2> HIDE DEF NodeType
  <2> QED
    BY DEF GraphType
<1>2. /\ n \in Nat /\ i \in 1 .. n /\ DOMAIN ns = 1 .. n /\ ns[i] \in NodeType /\ ns[i].children \in Seq(Nat)
  BY <1>1, NodeFields
<1>3. /\ h \in GraphType
      /\ \A j \in 1 .. n : j # i => ms[j] = ns[j]
      /\ ms[i] = [ns[i] EXCEPT !.children = Append(@, new)]
      /\ ms[new] = AndNode(ns[i].state, i, a, ids)
      /\ \A k \in 1 .. m : ms[new + k] = OrNode(outs[k], new, FALSE)
  BY DEF Grown
<1> HIDE DEF ns, ms, n, m
<1>4. new \in Nat /\ new - 1 = n
  BY <1>2
<1> HIDE DEF new
<1>5. /\ ms[i].type = ns[i].type /\ ms[i].state = ns[i].state /\ ms[i].parent = ns[i].parent
      /\ ms[i].action = ns[i].action /\ ms[i].is_root = ns[i].is_root
      /\ ms[i].dead = ns[i].dead /\ ms[i].solved = ns[i].solved
      /\ ms[i].children = Append(ns[i].children, new)
  <2> DEFINE old == ns[i]
             cs == Append(old.children, new)
  <2>1. old \in NodeType /\ ms[i] = [old EXCEPT !.children = cs]
    BY <1>2, <1>3
  <2> HIDE DEF old, cs
  <2>2. /\ ms[i].type = old.type /\ ms[i].state = old.state /\ ms[i].parent = old.parent
        /\ ms[i].action = old.action /\ ms[i].is_root = old.is_root
        /\ ms[i].dead = old.dead /\ ms[i].solved = old.solved /\ ms[i].children = cs
    BY <2>1 DEF NodeType
  <2> QED
    BY <2>2 DEF old, cs
<1>6. ms[i].children # <<>> /\ Children(ms, i) = Children(ns, i) \cup {new}
  <2> DEFINE cs == ns[i].children
             ds == Append(cs, new)
  <2>1. cs \in Seq(Nat)
    BY <1>2
  <2>2. /\ ds # <<>> /\ DOMAIN ds = 1 .. Len(cs) + 1 /\ DOMAIN cs = 1 .. Len(cs) /\ Len(cs) \in Nat
        /\ ds[Len(cs) + 1] = new /\ \A k \in 1 .. Len(cs) : ds[k] = cs[k]
    BY <2>1, <1>4
  <2>3. Children(ms, i) = {ds[k] : k \in 1 .. Len(cs) + 1} /\ Children(ns, i) = {cs[k] : k \in 1 .. Len(cs)}
    BY <2>2, <1>5, Zenon DEF Children, ToSet
  <2> HIDE DEF cs, ds
  <2>4. {ds[k] : k \in 1 .. Len(cs) + 1} = {cs[k] : k \in 1 .. Len(cs)} \cup {new}
    BY <2>2
  <2>5. ms[i].children = ds
    BY <1>5 DEF ds, cs
  <2> QED
    BY <2>2, <2>3, <2>4, <2>5
<1>7. OldNodes(ns, ms, i, new)
  <2>1. \A j \in 1 .. n : j # i => Children(ms, j) = Children(ns, j)
    BY <1>3, Zenon DEF Children
  <2>2. ASSUME NEW j \in 1 .. n
        PROVE  /\ ms[j].type = ns[j].type /\ ms[j].state = ns[j].state /\ ms[j].parent = ns[j].parent
               /\ ms[j].action = ns[j].action /\ ms[j].is_root = ns[j].is_root
               /\ (ms[j].dead <=> ns[j].dead) /\ (ms[j].solved <=> ns[j].solved)
               /\ j # i => ms[j].children = ns[j].children /\ Children(ms, j) = Children(ns, j)
    <3>1. CASE j = i
      BY <3>1, <1>5, Zenon
    <3>2. CASE j # i
      BY <3>2, <2>1, <1>3, Zenon
    <3> QED
      BY <3>1, <3>2
  <2> QED
    BY <2>2, <1>4, <1>5, <1>6, Zenon DEF OldNodes
<1>8. /\ ms[new].type = "And" /\ ms[new].state = ns[i].state /\ ms[new].parent = i /\ ms[new].action = a
      /\ ~ms[new].is_root /\ ~ms[new].dead /\ ~ms[new].solved
      /\ ms[new].children = ids
  <2> HIDE DEF ids
  <2> QED
    BY <1>3 DEF AndNode
<1>9. Children(ms, new) = new + 1 .. new + m
  <2>1. DOMAIN ids = 1 .. m
    OBVIOUS
  <2>2. Children(ms, new) = {ids[k] : k \in 1 .. m}
    BY <2>1, <1>8, Zenon DEF Children, ToSet
  <2>3. \A k \in 1 .. m : ids[k] = new + k /\ ids[k] \in new + 1 .. new + m
    BY <1>1, <1>4
  <2>4. \A j \in new + 1 .. new + m : j - new \in 1 .. m /\ ids[j - new] = j
    BY <1>1, <1>4
  <2> HIDE DEF ids
  <2>5. {ids[k] : k \in 1 .. m} = new + 1 .. new + m
    BY <2>3, <2>4
  <2> QED
    BY <2>2, <2>5
<1>10. ASSUME NEW j \in new + 1 .. new + m
       PROVE  /\ ms[j].type = "Or" /\ ms[j].state = outs[j - new] /\ ms[j].parent = new /\ ~ms[j].is_root
              /\ ~ms[j].dead /\ ~ms[j].solved /\ ms[j].children = <<>> /\ Children(ms, j) = {}
  <2>1. j - new \in 1 .. m /\ new + (j - new) = j
    BY <1>1, <1>4
  <2>2. ms[j] = OrNode(outs[j - new], new, FALSE)
    BY <2>1, <1>3
  <2>3. /\ ms[j].type = "Or" /\ ms[j].state = outs[j - new] /\ ms[j].parent = new /\ ~ms[j].is_root
        /\ ~ms[j].dead /\ ~ms[j].solved /\ ms[j].children = <<>>
    BY <2>2 DEF OrNode
  <2>4. ToSet(<<>>) = {}
    BY DEF ToSet
  <2> QED
    BY <2>3, <2>4 DEF Children
<1>11. NewNodes(ns, ms, i, a, outs, new)
  BY <1>8, <1>9, <1>10, Zenon DEF NewNodes, m
<1> QED
  BY <1>7, <1>11 DEF ns, ms, n, new

\* What holds while node cur is expanded, with its actions up to n done.
Growing(g, cur, n) ==
  /\ g \in GraphType /\ cur \in DOMAIN g.nodes
  /\ IsTree(g.nodes) /\ AllOpened(g.nodes, cur) /\ Marked(g.nodes, 0, 0) /\ IsFrontier(g.nodes, g.frontier, cur)
  /\ g.nodes[cur].type = "Or" /\ Unmarked(g.nodes, cur) /\ Opened(g.nodes, cur, n)
  /\ \A c \in Children(g.nodes, cur) : Unmarked(g.nodes, c)

\* A tree stays one when it grows.
LEMMA GrownTree ==
  ASSUME NEW ns, IsTree(ns), NEW i \in DOMAIN ns, ns[i].type = "Or", NEW a \in DOMAIN Actions,
         NEW outs \in Seq(States), outs # <<>>, domain[ns[i].state][a] = outs,
         NEW ms \in Seq(NodeType), Len(ms) = Len(ns) + 1 + Len(outs),
         OldNodes(ns, ms, i, Len(ns) + 1), NewNodes(ns, ms, i, a, outs, Len(ns) + 1)
  PROVE  IsTree(ms)
<1> DEFINE n == Len(ns)
           new == n + 1
           m == Len(outs)
<1>1. /\ ns \in Seq(NodeType) /\ n \in Nat /\ DOMAIN ns = 1 .. n /\ i \in 1 .. n /\ m \in Nat /\ m # 0
      /\ 1 \in DOMAIN ns
  BY DEF IsTree
<1>2. DOMAIN ms = 1 .. new + m
  BY <1>1
<1>3. /\ \A j \in 1 .. n :
           /\ ms[j].type = ns[j].type /\ ms[j].state = ns[j].state /\ ms[j].parent = ns[j].parent
           /\ ms[j].action = ns[j].action /\ ms[j].is_root = ns[j].is_root
           /\ j # i => ms[j].children = ns[j].children /\ Children(ms, j) = Children(ns, j)
      /\ ms[i].children = Append(ns[i].children, new) /\ ms[i].children # <<>>
      /\ Children(ms, i) = Children(ns, i) \cup {new}
  <2>1. (n + 1) - 1 = n
    BY <1>1
  <2> QED
    BY <2>1, Zenon DEF OldNodes
<1>4. /\ ms[new].type = "And" /\ ms[new].state = ns[i].state /\ ms[new].parent = i /\ ms[new].action = a
      /\ ~ms[new].is_root /\ ms[new].children = [k \in 1 .. m |-> new + k]
      /\ \A j \in new + 1 .. new + m :
           /\ ms[j].type = "Or" /\ ms[j].state = outs[j - new] /\ ms[j].parent = new /\ ~ms[j].is_root
           /\ ms[j].children = <<>> /\ Children(ms, j) = {}
      /\ Children(ms, new) = new + 1 .. new + m
  BY Zenon DEF NewNodes
<1> HIDE DEF n, m
<1>5. new \in Nat /\ new \in 1 .. new + m /\ new \notin 1 .. n /\ \A j \in 1 .. n : j \in 1 .. new + m
  BY <1>1
<1>6. \A j \in 1 .. new + m : j \in 1 .. n \/ j = new \/ j \in new + 1 .. new + m
  BY <1>1
<1>7. \A j \in new + 1 .. new + m : j \in Nat /\ j \in 1 .. new + m /\ j \notin 1 .. n /\ j - new \in 1 .. m /\ new \in 1 .. j - 1
  BY <1>1
<1>8. i \in 1 .. new - 1 /\ new # 1
  BY <1>1
<1> HIDE DEF new
<1>9. \A j \in 1 .. n : Placed(ns, j) /\ Branched(ns, j) /\ Acted(ns, j)
  BY <1>1 DEF IsTree
<1>10. \A j \in 1 .. n : Children(ns, j) \subseteq Children(ms, j)
  BY <1>3
<1>11. ASSUME NEW j \in 1 .. n PROVE Placed(ms, j)
  <2>1. CASE j = 1
    BY <2>1, <1>3, <1>9, Zenon DEF Placed
  <2>2. CASE j # 1
    <3>1. ~ns[j].is_root /\ ns[j].parent \in 1 .. j - 1 /\ j \in Children(ns, ns[j].parent)
      BY <2>2, <1>9 DEF Placed
    <3>2. ns[j].parent \in 1 .. n
      BY <3>1, <1>1
    <3> QED
      BY <2>2, <3>1, <3>2, <1>3, <1>10 DEF Placed
  <2> QED
    BY <2>1, <2>2
<1>12. ASSUME NEW j \in 1 .. n PROVE Branched(ms, j)
  <2>1. \A c \in Children(ns, j) : c \in 1 .. n /\ ns[c].parent = j /\ ns[c].type # ns[j].type
    BY <1>1, <1>9 DEF Branched
  <2>2. \A c \in Children(ns, j) : c \in DOMAIN ms /\ ms[c].parent = j /\ ms[c].type # ms[j].type
    BY <2>1, <1>2, <1>3, <1>5
  <2>3. CASE j # i
    <3>1. ms[j].children = ns[j].children /\ Children(ms, j) = Children(ns, j)
      BY <2>3, <1>3
    <3>2. \A k, l \in DOMAIN ns[j].children : ns[j].children[k] = ns[j].children[l] => k = l
      BY <1>9 DEF Branched
    <3> QED
      BY <2>2, <3>1, <3>2 DEF Branched
  <2>4. CASE j = i
    <3>1. \A c \in Children(ms, j) : c \in DOMAIN ms /\ ms[c].parent = j /\ ms[c].type # ms[j].type
      BY <2>2, <2>4, <1>2, <1>3, <1>4, <1>5
    <3> DEFINE cs == ns[i].children
               ds == ms[i].children
    <3>2. cs \in Seq(Nat) /\ ds = Append(cs, new) /\ \A k, l \in DOMAIN cs : cs[k] = cs[l] => k = l
      BY <2>4, <1>1, <1>3, <1>9, NodeFields DEF Branched
    <3>3. \A k \in DOMAIN cs : cs[k] \in 1 .. n
      <4>1. \A k \in DOMAIN cs : cs[k] \in Children(ns, i)
        BY Zenon DEF Children, ToSet
      <4> QED
        BY <4>1, <2>1, <2>4
    <3> HIDE DEF cs, ds
    <3>4. /\ Len(cs) \in Nat /\ DOMAIN cs = 1 .. Len(cs) /\ DOMAIN ds = 1 .. Len(cs) + 1
          /\ ds[Len(cs) + 1] = new /\ \A k \in 1 .. Len(cs) : ds[k] = cs[k]
      BY <3>2, <1>5
    <3>5. \A k \in DOMAIN ds : k \in DOMAIN cs \/ k = Len(cs) + 1
      BY <3>4
    <3>6. \A k, l \in DOMAIN ds : ds[k] = ds[l] => k = l
      BY <3>2, <3>3, <3>4, <3>5, <1>5
    <3> QED
      BY <2>4, <3>1, <3>6 DEF Branched, ds
  <2> QED
    BY <2>3, <2>4
<1>13. ASSUME NEW j \in 1 .. n PROVE Acted(ms, j)
  <2>1. SUFFICES ASSUME ns[j].type = "And" PROVE Acted(ms, j)
    BY <1>3 DEF Acted
  <2>2. j # i /\ Acted(ns, j) /\ Placed(ns, j)
    BY <2>1, <1>9
  <2>3. ns[j].parent \in 1 .. n
    <3>1. j # 1
      BY <2>1, <1>9 DEF Placed
    <3>2. ns[j].parent \in 1 .. j - 1
      BY <3>1, <2>2 DEF Placed
    <3> QED
      BY <3>2, <1>1
  <2>4. \A c \in Children(ns, j) : c \in 1 .. n
    BY <1>1, <1>9 DEF Branched
  <2>5. {ms[c].state : c \in Children(ms, j)} = {ns[c].state : c \in Children(ns, j)}
    <3>1. Children(ms, j) = Children(ns, j) /\ \A c \in Children(ns, j) : ms[c].state = ns[c].state
      BY <2>2, <2>4, <1>3
    <3> QED
      BY <3>1
  <2>6. Results(ms, j) = Results(ns, j)
    BY <1>3, Zenon DEF Results
  <2>7. /\ ms[j].state = ns[j].state /\ ms[j].parent = ns[j].parent /\ ms[j].action = ns[j].action
        /\ ms[j].children = ns[j].children /\ ms[ns[j].parent].state = ns[ns[j].parent].state
    BY <2>2, <2>3, <1>3
  <2> QED
    BY <2>1, <2>2, <2>5, <2>6, <2>7, Zenon DEF Acted
<1>14. Placed(ms, new) /\ Branched(ms, new) /\ Acted(ms, new)
  <2>1. Placed(ms, new)
    BY <1>3, <1>4, <1>8 DEF Placed
  <2>2. \A c \in Children(ms, new) : c \in DOMAIN ms /\ ms[c].parent = new /\ ms[c].type # ms[new].type
    BY <1>2, <1>4, <1>7
  <2>3. \A k, l \in DOMAIN ms[new].children : ms[new].children[k] = ms[new].children[l] => k = l
    BY <1>1, <1>4, <1>5
  <2>4. Branched(ms, new)
    BY <2>2, <2>3 DEF Branched
  <2>5. {ms[c].state : c \in Children(ms, new)} = {outs[k] : k \in 1 .. m}
    <3>1. \A c \in new + 1 .. new + m : c - new \in 1 .. m /\ ms[c].state = outs[c - new]
      BY <1>4, <1>7
    <3>2. \A k \in 1 .. m : new + k \in new + 1 .. new + m /\ (new + k) - new = k
      BY <1>1, <1>5
    <3>3. \A k \in 1 .. m : ms[new + k].state = outs[k]
      BY <3>1, <3>2
    <3>4. {ms[c].state : c \in new + 1 .. new + m} = {outs[k] : k \in 1 .. m}
      <4> DEFINE C == new + 1 .. new + m
                 K == 1 .. m
      <4>1. /\ \A c \in C : \E k \in K : ms[c].state = outs[k]
            /\ \A k \in K : \E c \in C : ms[c].state = outs[k]
        BY <3>1, <3>2, <3>3
      <4> HIDE DEF C, K
      <4>2. {ms[c].state : c \in C} = {outs[k] : k \in K}
        BY <4>1
      <4> QED
        BY <4>2 DEF C, K
    <3> QED
      BY <3>4, <1>4
  <2>6. ToSet(outs) = {outs[k] : k \in 1 .. m}
    <3>1. DOMAIN outs = 1 .. m
      BY DEF m
    <3> QED
      BY <3>1, Zenon DEF ToSet
  <2>7. Results(ms, new) = ToSet(outs)
    BY <1>4 DEF Results
  <2>8. ms[new].children # <<>>
    <3>1. new + 1 \in new + 1 .. new + m
      BY <1>1, <1>5
    <3>2. Children(ms, new) # {}
      BY <3>1, <1>4
    <3> QED
      BY <1>2, <1>5, <3>2, NodeFields
  <2>9. ms[i].state = ns[i].state /\ i # 0
    BY <1>1, <1>3
  <2>10. Acted(ms, new)
    BY <2>5, <2>6, <2>7, <2>8, <2>9, <1>4 DEF Acted
  <2> QED
    BY <2>1, <2>4, <2>10
<1>15. ASSUME NEW j \in new + 1 .. new + m PROVE Placed(ms, j) /\ Branched(ms, j) /\ Acted(ms, j)
  <2>1. j # 1
    BY <1>5, <1>7, <1>8
  <2>2. Placed(ms, j)
    BY <2>1, <1>4, <1>7 DEF Placed
  <2>3. DOMAIN <<>> = {}
    OBVIOUS
  <2>4. Branched(ms, j)
    BY <2>3, <1>4 DEF Branched
  <2> QED
    BY <2>2, <2>4, <1>4 DEF Acted
<1>16. \A j \in DOMAIN ms : Placed(ms, j) /\ Branched(ms, j) /\ Acted(ms, j)
  BY <1>2, <1>6, <1>11, <1>12, <1>13, <1>14, <1>15
<1>17. 1 \in DOMAIN ms
  BY <1>1, <1>2, <1>5
<1> QED
  BY <1>16, <1>17 DEF IsTree

\* The elements of a sequence.
LEMMA SeqWider ==
  ASSUME NEW X, NEW Y, X \subseteq Y, NEW s \in Seq(X)
  PROVE  s \in Seq(Y) /\ ToSet(s) \subseteq X
<1>1. Len(s) \in Nat /\ DOMAIN s = 1 .. Len(s) /\ \A k \in 1 .. Len(s) : s[k] \in X
  OBVIOUS
<1>2. s = [k \in 1 .. Len(s) |-> s[k]]
  OBVIOUS
<1>3. \A k \in 1 .. Len(s) : s[k] \in Y
  BY <1>1
<1>4. s \in Seq(Y)
  BY <1>1, <1>2, <1>3
<1> QED
  BY <1>1, <1>4, Zenon DEF ToSet

\* One action of the loop over the library.
LEMMA GrownKeeps ==
  ASSUME NEW g, NEW i, NEW a \in DOMAIN Actions, Growing(g, i, a - 1),
         NEW outs \in Seq(States), outs # <<>>, domain[g.nodes[i].state][a] = outs,
         NEW h, Grown(g, i, a, outs, h)
  PROVE  /\ Growing(h, i, a) /\ h.nodes[i].state = g.nodes[i].state
         /\ Unmarked(g.nodes, 1) => Unmarked(h.nodes, 1)
<1> DEFINE ns == g.nodes
           ms == h.nodes
           n == Len(ns)
           new == n + 1
           m == Len(outs)
<1>1. /\ g \in GraphType /\ i \in DOMAIN ns /\ IsTree(ns) /\ AllOpened(ns, i) /\ Marked(ns, 0, 0)
      /\ IsFrontier(ns, g.frontier, i) /\ ns[i].type = "Or" /\ Unmarked(ns, i) /\ Opened(ns, i, a - 1)
      /\ \A c \in Children(ns, i) : Unmarked(ns, c)
  BY DEF Growing
<1>2. /\ h \in GraphType /\ Len(ms) = new + m /\ h.frontier = g.frontier \o [k \in 1 .. m |-> new + k]
  BY DEF Grown
<1>3. OldNodes(ns, ms, i, new) /\ NewNodes(ns, ms, i, a, outs, new)
  BY <1>1, GrownFacts
<1>4. ms \in Seq(NodeType) /\ ns \in Seq(NodeType)
  <2> HIDE DEF NodeType
  <2> QED
    BY <1>1, <1>2 DEF GraphType
<1> HIDE DEF ns, ms
<1>5. IsTree(ms)
  BY <1>1, <1>2, <1>3, <1>4, GrownTree DEF ns
<1>6. n \in Nat /\ DOMAIN ns = 1 .. n /\ i \in 1 .. n /\ m \in Nat /\ m # 0 /\ DOMAIN ms = 1 .. new + m /\ 1 \in 1 .. n
  <2>1. 1 \in DOMAIN ns
    BY <1>1 DEF IsTree
  <2> HIDE DEF NodeType
  <2> QED
    BY <2>1, <1>1, <1>2, <1>4
<1>7. /\ \A j \in 1 .. n :
           /\ ms[j].type = ns[j].type /\ ms[j].state = ns[j].state /\ ms[j].action = ns[j].action
           /\ (ms[j].dead <=> ns[j].dead) /\ (ms[j].solved <=> ns[j].solved)
           /\ j # i => ms[j].children = ns[j].children /\ Children(ms, j) = Children(ns, j)
      /\ ms[i].children # <<>>
      /\ Children(ms, i) = Children(ns, i) \cup {new}
  <2>1. (n + 1) - 1 = n
    BY <1>6
  <2> QED
    BY <2>1, <1>3, Zenon DEF OldNodes
<1>8. /\ ms[new].type = "And" /\ ms[new].action = a /\ ~ms[new].dead /\ ~ms[new].solved
      /\ \A j \in new + 1 .. new + m :
           ms[j].type = "Or" /\ ~ms[j].dead /\ ~ms[j].solved /\ ms[j].children = <<>>
      /\ Children(ms, new) = new + 1 .. new + m
  BY <1>3, Zenon DEF NewNodes
<1> HIDE DEF n, m
<1>9. new \in Nat /\ new \in 1 .. new + m /\ new \notin 1 .. n /\ \A j \in 1 .. n : j \in 1 .. new + m
  BY <1>6
<1>10. \A j \in 1 .. new + m : j \in 1 .. n \/ j = new \/ j \in new + 1 .. new + m
  BY <1>6
<1>11. \A j \in new + 1 .. new + m : j \in 1 .. new + m /\ j \notin 1 .. n /\ j # new
  BY <1>6
<1>12. new + 1 \in new + 1 .. new + m
  BY <1>6
<1> HIDE DEF new
<1>13. \A j \in 1 .. n : \A c \in Children(ns, j) : c \in 1 .. n
  BY <1>1, <1>6, TreeFacts
<1>14. \A j \in 1 .. n : Unmarked(ms, j) <=> Unmarked(ns, j)
  BY <1>7, Zenon DEF Unmarked
<1>15. AllOpened(ms, i)
  <2>1. SUFFICES ASSUME NEW j \in DOMAIN ms, ms[j].type = "Or", ms[j].children # <<>>, j # i
                 PROVE  Opened(ms, j, Len(Actions))
    BY Zenon DEF AllOpened
  <2>2. j \in 1 .. n
    <3>1. j # new
      BY <2>1, <1>8
    <3>2. j \notin new + 1 .. new + m
      BY <2>1, <1>8
    <3> QED
      BY <3>1, <3>2, <1>6, <1>10
  <2>3. ns[j].type = "Or" /\ ns[j].children # <<>>
    BY <2>1, <2>2, <1>7
  <2>4. Opened(ns, j, Len(Actions))
    BY <2>1, <2>2, <2>3, <1>1, <1>6 DEF AllOpened
  <2>5. \A c \in Children(ns, j) : ms[c].action = ns[c].action
    BY <2>2, <1>7, <1>13
  <2>6. Children(ms, j) = Children(ns, j) /\ ms[j].state = ns[j].state
    BY <2>1, <2>2, <1>7
  <2> QED
    BY <2>4, <2>5, <2>6, Zenon DEF Opened
<1>16. Opened(ms, i, a)
  <2>1. ms[i].state = ns[i].state /\ ms[i].state \notin Goals
    BY <1>1, <1>6, <1>7 DEF Opened
  <2>2. ASSUME NEW b \in 1 .. a, domain[ms[i].state][b] # <<>> PROVE \E c \in Children(ms, i) : ms[c].action = b
    <3>1. CASE b = a
      BY <3>1, <1>7, <1>8
    <3>2. CASE b # a
      <4>1. a \in Nat
        BY SearchAssumption
      <4>2. b \in 1 .. a - 1
        BY <3>2, <4>1
      <4>3. PICK c \in Children(ns, i) : ns[c].action = b
        BY <2>1, <2>2, <4>2, <1>1 DEF Opened
      <4> QED
        BY <4>3, <1>6, <1>7, <1>13
    <3> QED
      BY <3>1, <3>2
  <2> QED
    BY <2>1, <2>2 DEF Opened
<1>17. \A c \in Children(ms, i) : Unmarked(ms, c)
  <2>1. \A c \in Children(ns, i) : Unmarked(ms, c)
    BY <1>1, <1>6, <1>13, <1>14
  <2>2. Unmarked(ms, new)
    BY <1>8 DEF Unmarked
  <2> QED
    BY <2>1, <2>2, <1>7
<1>18. Marked(ms, 0, 0)
  <2>1. ASSUME NEW j \in 1 .. n PROVE MarkSound(ms, j)
    <3>1. Results(ms, j) = Results(ns, j)
      BY <1>7, Zenon DEF Results
    <3>2. MarkSound(ns, j)
      BY <1>1, <1>6 DEF Marked
    <3> QED
      BY <3>1, <3>2, <1>7, Zenon DEF MarkSound
  <2>2. ASSUME NEW j \in 1 .. n PROVE Justified(ms, j)
    <3>1. CASE j = i
      BY <3>1, <1>1, <1>14 DEF Justified, Unmarked
    <3>2. CASE j # i
      <4>1. Justified(ns, j)
        BY <1>1, <1>6 DEF Marked
      <4>2. Children(ms, j) = Children(ns, j) /\ \A c \in Children(ns, j) : ms[c].solved <=> ns[c].solved
        BY <3>2, <1>7, <1>13
      <4> QED
        BY <4>1, <4>2, <1>7, Zenon DEF Justified
    <3> QED
      BY <3>1, <3>2
  <2>3. ASSUME NEW j \in DOMAIN ms, j \notin 1 .. n PROVE MarkSound(ms, j) /\ Justified(ms, j)
    <3>1. ~ms[j].dead /\ ~ms[j].solved
      BY <2>3, <1>6, <1>8, <1>10
    <3> QED
      BY <3>1 DEF MarkSound, Justified
  <2>4. ASSUME NEW j \in DOMAIN ms, ms[j].children # <<>>, Unmarked(ms, j)
        PROVE  ~CheckIfDead(ms, j) /\ ~CheckIfSolved(ms, j)
    <3>1. ASSUME NEW c \in Children(ms, j), \A d \in Children(ms, j) : Unmarked(ms, d)
          PROVE  ~CheckIfDead(ms, j) /\ ~CheckIfSolved(ms, j)
      BY <2>4, <3>1, Zenon DEF CheckIfDead, CheckIfSolved, Unmarked
    <3>2. CASE j = new
      <4>1. new + 1 \in Children(ms, j) /\ \A d \in Children(ms, j) : Unmarked(ms, d)
        BY <3>2, <1>8, <1>12 DEF Unmarked
      <4> QED
        BY <3>1, <4>1
    <3>3. CASE j = i
      BY <3>1, <3>3, <1>7, <1>17
    <3>4. CASE j \in 1 .. n /\ j # i
      <4>1. /\ Children(ms, j) = Children(ns, j)
            /\ \A c \in Children(ns, j) : (ms[c].solved <=> ns[c].solved) /\ (ms[c].dead <=> ns[c].dead)
        BY <3>4, <1>7, <1>13
      <4>2. ns[j].children # <<>> /\ Unmarked(ns, j) /\ j # 0
        BY <3>4, <2>4, <1>7, <1>14
      <4>3. ~CheckIfDead(ns, j) /\ ~CheckIfSolved(ns, j)
        BY <4>2, <3>4, <1>1, <1>6 DEF Marked, AllMarked
      <4>4. ms[j].type = ns[j].type /\ (ms[j].dead <=> ns[j].dead) /\ (ms[j].solved <=> ns[j].solved)
        BY <3>4, <1>7
      <4> QED
        BY <4>1, <4>3, <4>4, Zenon DEF CheckIfDead, CheckIfSolved
    <3>5. j \notin new + 1 .. new + m
      BY <2>4, <1>8
    <3> QED
      BY <3>2, <3>3, <3>4, <3>5, <1>6, <1>10
  <2>5. AllMarked(ms, 0, 0)
    BY <2>4, Zenon DEF AllMarked
  <2> QED
    BY <2>1, <2>2, <2>3, <2>5 DEF Marked
<1> DEFINE f == g.frontier
           ids == [k \in 1 .. m |-> new + k]
<1>19. f \in Seq(1 .. n) /\ \A k, l \in DOMAIN f : f[k] = f[l] => k = l
  BY <1>1, <1>6 DEF IsFrontier
<1>20. \A j \in 1 .. n : j \in ToSet(f) <=> j # i /\ ns[j].type = "Or" /\ ns[j].children = <<>> /\ Unmarked(ns, j)
  BY <1>1, <1>6 DEF IsFrontier
<1>21. ids \in Seq(1 .. new + m) /\ Len(ids) = m /\ \A k \in 1 .. m : ids[k] = new + k /\ ids[k] \in new + 1 .. new + m
  BY <1>6, <1>9
<1>22. ToSet(ids) = new + 1 .. new + m
  <2>1. DOMAIN ids = 1 .. m
    OBVIOUS
  <2>2. ToSet(ids) = {ids[k] : k \in 1 .. m}
    BY <2>1, Zenon DEF ToSet
  <2>3. \A j \in new + 1 .. new + m : j - new \in 1 .. m /\ ids[j - new] = j
    BY <1>6, <1>9
  <2> HIDE DEF ids
  <2> QED
    BY <2>2, <2>3, <1>21
<1> HIDE DEF f, ids
<1>23. f \in Seq(1 .. new + m) /\ ToSet(f) \subseteq 1 .. n
  <2> DEFINE X == 1 .. n
             Y == 1 .. new + m
  <2>1. X \subseteq Y /\ f \in Seq(X)
    BY <1>9, <1>19
  <2> HIDE DEF X, Y
  <2>2. f \in Seq(Y) /\ ToSet(f) \subseteq X
    BY <2>1, SeqWider
  <2> QED
    BY <2>2 DEF X, Y
<1>24. /\ f \o ids \in Seq(1 .. new + m) /\ Len(f \o ids) = Len(f) + m
       /\ \A j \in 1 .. Len(f) : (f \o ids)[j] = f[j]
       /\ \A k \in 1 .. m : (f \o ids)[Len(f) + k] = ids[k]
       /\ ToSet(f \o ids) = ToSet(f) \cup (new + 1 .. new + m)
  <2> DEFINE Y == 1 .. new + m
  <2>1. f \in Seq(Y) /\ ids \in Seq(Y)
    BY <1>21, <1>23
  <2> HIDE DEF Y
  <2>2. /\ f \o ids \in Seq(Y) /\ Len(f \o ids) = Len(f) + Len(ids)
        /\ \A j \in 1 .. Len(f) : (f \o ids)[j] = f[j]
        /\ \A k \in 1 .. Len(ids) : (f \o ids)[Len(f) + k] = ids[k]
        /\ ToSet(f \o ids) = ToSet(f) \cup ToSet(ids)
    BY <2>1, ConcatFacts
  <2> QED
    BY <2>2, <1>21, <1>22 DEF Y
<1>25. \A k, l \in DOMAIN (f \o ids) : (f \o ids)[k] = (f \o ids)[l] => k = l
  <2> DEFINE e == f \o ids
             q == Len(f)
  <2>1. q \in Nat /\ DOMAIN f = 1 .. q /\ DOMAIN e = 1 .. q + m
    BY <1>19, <1>24, <1>6
  <2>2. (\A j \in 1 .. q : e[j] = f[j] /\ f[j] \in 1 .. n) /\ \A k \in 1 .. m : e[q + k] = new + k
    <3>1. \A j \in 1 .. q : f[j] \in 1 .. n
      <4> DEFINE X == 1 .. n
      <4>1. f \in Seq(X)
        BY <1>19
      <4> HIDE DEF X
      <4>2. \A j \in 1 .. q : f[j] \in X
        BY <4>1
      <4> QED
        BY <4>2 DEF X
    <3> QED
      BY <3>1, <1>21, <1>24
  <2> HIDE DEF e, q
  <2>3. \A k \in 1 .. q + m : k \in 1 .. q \/ (k - q \in 1 .. m /\ q + (k - q) = k)
    BY <2>1, <1>6
  <2>4. \A k \in 1 .. q + m : k \in 1 .. q \/ e[k] = new + (k - q)
    BY <2>2, <2>3
  <2>5. \A j \in 1 .. n : j < new
    BY <1>6 DEF new
  <2>6. ASSUME NEW k \in 1 .. q + m, NEW l \in 1 .. q + m, e[k] = e[l] PROVE k = l
    <3>1. CASE k \in 1 .. q /\ l \in 1 .. q
      BY <3>1, <2>1, <2>2, <2>6, <1>19
    <3>2. CASE k \notin 1 .. q /\ l \notin 1 .. q
      <4>1. e[k] = new + (k - q) /\ e[l] = new + (l - q)
        BY <3>2, <2>4
      <4> QED
        BY <4>1, <2>1, <2>6, <1>6, <1>9
    <3>3. ASSUME NEW x \in 1 .. q, NEW y \in 1 .. q + m, y \notin 1 .. q PROVE e[x] # e[y]
      <4>1. e[x] \in 1 .. n /\ e[x] < new /\ e[y] = new + (y - q) /\ y - q \in 1 .. m
        BY <3>3, <2>2, <2>3, <2>4, <2>5
      <4> QED
        BY <4>1, <1>6, <1>9
    <3> QED
      BY <3>1, <3>2, <3>3, <2>6
  <2> QED
    BY <2>1, <2>6 DEF e
<1>26. ASSUME NEW j \in DOMAIN ms
       PROVE  j \in ToSet(f \o ids) <=> j # i /\ ms[j].type = "Or" /\ ms[j].children = <<>> /\ Unmarked(ms, j)
  <2>1. CASE j \in 1 .. n
    <3>1. j \in ToSet(f \o ids) <=> j \in ToSet(f)
      BY <2>1, <1>11, <1>24
    <3>2. j # i => ms[j].type = ns[j].type /\ ms[j].children = ns[j].children
      BY <2>1, <1>7
    <3> QED
      BY <2>1, <3>1, <3>2, <1>14, <1>20, Zenon
  <2>2. CASE j = new
    <3>1. j \notin ToSet(f) /\ j \notin new + 1 .. new + m
      BY <2>2, <1>9, <1>11, <1>23
    <3> QED
      BY <2>2, <3>1, <1>8, <1>24
  <2>3. CASE j \in new + 1 .. new + m
    <3>1. j # i
      BY <2>3, <1>6, <1>11
    <3> QED
      BY <2>3, <3>1, <1>8, <1>24 DEF Unmarked
  <2> QED
    BY <2>1, <2>2, <2>3, <1>6, <1>10
<1>27. IsFrontier(ms, f \o ids, i)
  BY <1>6, <1>24, <1>25, <1>26 DEF IsFrontier
<1>28. h.frontier = f \o ids
  BY <1>2 DEF f, ids
<1>29. i \in DOMAIN ms /\ ms[i].type = "Or" /\ Unmarked(ms, i) /\ ms[i].state = ns[i].state
  BY <1>1, <1>6, <1>7, <1>9, <1>14
<1>30. Growing(h, i, a)
  BY <1>2, <1>5, <1>15, <1>16, <1>17, <1>18, <1>27, <1>28, <1>29 DEF Growing, ms
<1> QED
  BY <1>6, <1>14, <1>29, <1>30 DEF ms, ns

\* The loop over the action library.
LEMMA GrowAllFacts ==
  ASSUME domain \in [States -> [DOMAIN Actions -> Outcomes]], NEW i,
         Growing([nodes |-> nodes, frontier |-> Tail(frontier)], i, 0)
  PROVE  /\ Growing(GrowAll(i), i, Len(Actions)) /\ GrowAll(i).nodes[i].state = nodes[i].state
         /\ Unmarked(nodes, 1) => Unmarked(GrowAll(i).nodes, 1)
<1> DEFINE n == Len(Actions)
           base == [nodes |-> nodes, frontier |-> Tail(frontier)]
           V == {g \in GraphType : i \in DOMAIN g.nodes}
           next == [p \in (1 .. n) \X V |-> Grow(p[2], i, p[1])]
           Loop(g) == g = [a \in 0 .. n |-> IF a = 0 THEN base ELSE Grow(g[a - 1], i, a)]
<1>1. n \in Nat /\ DOMAIN Actions = 1 .. n
  BY SearchAssumption
<1>2. base \in V /\ base.nodes = nodes /\ Growing(base, i, 0)
  BY DEF Growing
<1>3. ASSUME NEW g \in V, NEW a \in 1 .. n
      PROVE  \/ domain[g.nodes[i].state][a] = <<>> /\ Grow(g, i, a) = g
             \/ domain[g.nodes[i].state][a] # <<>> /\ Grown(g, i, a, domain[g.nodes[i].state][a], Grow(g, i, a))
  <2>1. CASE domain[g.nodes[i].state][a] = <<>>
    BY <2>1 DEF Grow
  <2>2. CASE domain[g.nodes[i].state][a] # <<>>
    BY <2>2, GrowGrown
  <2> QED
    BY <2>1, <2>2
<1>4. ASSUME NEW g \in V, NEW a \in 1 .. n PROVE Grow(g, i, a) \in V
  <2>1. CASE Grow(g, i, a) = g
    BY <2>1
  <2>2. CASE domain[g.nodes[i].state][a] # <<>> /\ Grown(g, i, a, domain[g.nodes[i].state][a], Grow(g, i, a))
    <3> DEFINE h == Grow(g, i, a)
               outs == domain[g.nodes[i].state][a]
    <3>1. h \in GraphType /\ Len(h.nodes) = Len(g.nodes) + 1 + Len(outs)
      BY <2>2 DEF Grown
    <3>2. g.nodes \in Seq(NodeType) /\ h.nodes \in Seq(NodeType) /\ i \in DOMAIN g.nodes
      <4> HIDE DEF NodeType, h
      <4> QED
        BY <3>1 DEF GraphType
    <3>3. g.nodes[i].state \in States
      BY <3>2, NodeFields
    <3>4. outs \in Seq(States)
      <4>1. outs \in Outcomes
        BY <1>1, <3>3
      <4> QED
        BY <4>1, SearchAssumption
    <3> HIDE DEF h, outs
    <3>5. Len(outs) \in Nat
      BY <3>4
    <3>6. Len(g.nodes) \in Nat /\ i \in 1 .. Len(g.nodes) /\ DOMAIN h.nodes = 1 .. Len(h.nodes)
      <4> HIDE DEF NodeType
      <4> QED
        BY <3>2
    <3>7. i \in DOMAIN h.nodes
      BY <3>1, <3>5, <3>6
    <3> QED
      BY <3>1, <3>7 DEF h
  <2> QED
    BY <2>1, <2>2, <1>3
<1> HIDE DEF V, base
<1>5. next \in [(1 .. n) \X V -> V] /\ \A a \in 1 .. n, g \in V : next[<<a, g>>] = Grow(g, i, a)
  BY <1>4
<1> HIDE DEF next
<1>6. PICK e : Iterates(n, V, base, next, e)
  BY <1>1, <1>2, <1>5, RecursiveFunction
<1>7. Loop(e)
  <2>1. e \in [0 .. n -> V] /\ e[0] = base /\ \A a \in 1 .. n : e[a] = next[<<a, e[a - 1]>>]
    BY <1>6 DEF Iterates
  <2>2. \A a \in 0 .. n : a # 0 => a \in 1 .. n /\ a - 1 \in 0 .. n
    BY <1>1
  <2>3. \A a \in 0 .. n : e[a] = IF a = 0 THEN base ELSE Grow(e[a - 1], i, a)
    BY <2>1, <2>2, <1>5
  <2> QED
    BY <2>1, <2>3
<1> DEFINE grow == CHOOSE h : Loop(h)
<1>8. Loop(grow)
  BY <1>7
<1>9. GrowAll(i) = grow[n]
  BY DEF GrowAll, base
<1> HIDE DEF grow
<1>10. grow[0] = base /\ \A a \in 1 .. n : grow[a] = Grow(grow[a - 1], i, a)
  BY <1>1, <1>8, SMTT(30)
<1> HIDE DEF Loop
<1> DEFINE Done(a) == /\ grow[a] \in V /\ Growing(grow[a], i, a) /\ grow[a].nodes[i].state = nodes[i].state
                      /\ Unmarked(nodes, 1) => Unmarked(grow[a].nodes, 1)
           T == {a \in Nat : a <= n => Done(a)}
<1>11. 0 \in T
  BY <1>2, <1>10
<1>12. ASSUME NEW a \in T PROVE a + 1 \in T
  <2>0. a \in Nat /\ a + 1 \in Nat /\ (a <= n => Done(a))
    OBVIOUS
  <2>1. SUFFICES ASSUME a + 1 <= n PROVE Done(a + 1)
    BY <2>0
  <2>2. a \in Nat /\ a <= n /\ a + 1 \in 1 .. n /\ (a + 1) - 1 = a
    <3> HIDE DEF T, n
    <3> QED
      BY <2>0, <2>1, <1>1
  <2> DEFINE g == grow[a]
             h == grow[a + 1]
             b == a + 1
             outs == domain[g.nodes[i].state][b]
  <2>3. /\ h = Grow(g, i, b) /\ g \in V /\ Growing(g, i, a) /\ g.nodes[i].state = nodes[i].state
        /\ Unmarked(nodes, 1) => Unmarked(g.nodes, 1)
    BY <2>0, <2>2, <1>10
  <2>4. h \in V
    BY <2>2, <2>3, <1>4
  <2>5. b \in DOMAIN Actions /\ b - 1 = a
    BY <2>2, <1>1
  <2>6. CASE outs = <<>> /\ h = g
    <3>1. Opened(g.nodes, i, b)
      <4>1. Opened(g.nodes, i, a)
        BY <2>3 DEF Growing
      <4>2. \A c \in 1 .. b : c \in 1 .. a \/ c = b
        BY <2>2
      <4> QED
        BY <4>1, <4>2, <2>6 DEF Opened
    <3>2. Growing(g, i, b)
      BY <3>1, <2>3 DEF Growing
    <3> QED
      BY <3>2, <2>3, <2>4, <2>6
  <2>7. CASE outs # <<>> /\ Grown(g, i, b, outs, h)
    <3>1. outs \in Seq(States)
      <4>1. g \in GraphType /\ i \in DOMAIN g.nodes
        BY <2>3 DEF V
      <4>2. g.nodes \in Seq(NodeType)
        <5> HIDE DEF NodeType, g
        <5> QED
          BY <4>1 DEF GraphType
      <4>3. g.nodes[i].state \in States
        BY <4>1, <4>2, NodeFields
      <4>4. outs \in Outcomes
        BY <2>5, <4>3
      <4> QED
        BY <4>4, SearchAssumption
    <3>2. Growing(g, i, b - 1) /\ domain[g.nodes[i].state][b] = outs
      BY <2>3, <2>5
    <3> HIDE DEF g, h, b, outs
    <3>3. Growing(h, i, b) /\ h.nodes[i].state = g.nodes[i].state /\ (Unmarked(g.nodes, 1) => Unmarked(h.nodes, 1))
      BY <3>1, <3>2, <2>5, <2>7, GrownKeeps
    <3> QED
      BY <3>3, <2>3, <2>4 DEF h, b
  <2> QED
    BY <2>2, <2>3, <2>6, <2>7, <1>3
<1>13. T = Nat
  <2>1. T \in SUBSET Nat
    OBVIOUS
  <2> HIDE DEF T
  <2> QED
    BY <1>11, <1>12, <2>1, SetInduction
<1>14. Done(n)
  BY <1>1, <1>13
<1> QED
  BY <1>9, <1>14

\* Once an action of node i is done, the expansion of the node is complete.
LEMMA GrowingDone ==
  ASSUME NEW g, NEW i, Growing(g, i, Len(Actions)), \E a \in DOMAIN Actions : domain[g.nodes[i].state][a] # <<>>
  PROVE  AllOpened(g.nodes, 0) /\ IsFrontier(g.nodes, g.frontier, 0)
<1> DEFINE ns == g.nodes
<1>1. /\ i \in DOMAIN ns /\ IsTree(ns) /\ AllOpened(ns, i) /\ IsFrontier(ns, g.frontier, i)
      /\ ns[i].type = "Or" /\ Opened(ns, i, Len(Actions))
  BY DEF Growing
<1> HIDE DEF ns
<1>2. ns \in Seq(NodeType)
  BY <1>1 DEF IsTree
<1>3. PICK a \in 1 .. Len(Actions) : domain[ns[i].state][a] # <<>>
  BY SearchAssumption DEF ns
<1>4. Children(ns, i) # {}
  BY <1>1, <1>3 DEF Opened
<1>5. ns[i].children # <<>>
  BY <1>1, <1>2, <1>4, NodeFields
<1>6. \A j \in DOMAIN ns : j # 0
  BY <1>2, NodeFields
<1>7. AllOpened(ns, 0)
  BY <1>1 DEF AllOpened
<1>8. IsFrontier(ns, g.frontier, 0)
  BY <1>1, <1>5, <1>6 DEF IsFrontier
<1> QED
  BY <1>7, <1>8 DEF ns

-----------------------------------------------------------------------------
(* The search: the policy                                                  *)

\* Among keeps the elements of a sequence apart.
LEMMA AmongInjective ==
  ASSUME NEW X, NEW seq \in Seq(X), NEW S \in SUBSET DOMAIN seq, \A k, l \in DOMAIN seq : seq[k] = seq[l] => k = l
  PROVE  \A k, l \in DOMAIN Among(seq, S) : Among(seq, S)[k] = Among(seq, S)[l] => k = l
<1> DEFINE ids == Sorted(S)
           c == Cardinality(S)
<1>1. Len(seq) \in Nat /\ DOMAIN seq = 1 .. Len(seq)
  OBVIOUS
<1>2. ids \in [1 .. c -> S] /\ \A j, k \in 1 .. c : j # k => ids[j] # ids[k]
  BY <1>1, SortedNumbers
<1>3. Among(seq, S) = [k \in DOMAIN ids |-> seq[ids[k]]]
  BY DEF Among
<1> HIDE DEF ids, c
<1>4. DOMAIN ids = 1 .. c /\ \A k \in 1 .. c : ids[k] \in DOMAIN seq
  BY <1>2
<1>5. DOMAIN Among(seq, S) = 1 .. c /\ \A k \in 1 .. c : Among(seq, S)[k] = seq[ids[k]]
  BY <1>3, <1>4
<1> QED
  BY <1>2, <1>4, <1>5

\* extract_policy pushes solved children: of an And node all of them, of an Or
\* node one.
LEMMA PushedFacts ==
  ASSUME NEW ns, IsTree(ns), NEW i \in DOMAIN ns
  PROVE  /\ Pushed(ns, i) \in Seq(DOMAIN ns)
         /\ \A k, l \in DOMAIN Pushed(ns, i) : Pushed(ns, i)[k] = Pushed(ns, i)[l] => k = l
         /\ \A c \in ToSet(Pushed(ns, i)) : c \in Children(ns, i) /\ ns[c].solved
         /\ ns[i].type = "And" => \A c \in Children(ns, i) : ns[c].solved => c \in ToSet(Pushed(ns, i))
         /\ (\E c \in Children(ns, i) : ns[c].solved) => ToSet(Pushed(ns, i)) # {}
<1> DEFINE cs == ns[i].children
           D == DOMAIN ns
           S == {k \in DOMAIN cs : ns[cs[k]].solved}
           F == {k \in S : \A l \in S : k <= l}
           P == IF ns[i].type = "Or" THEN F ELSE S
<1>1. /\ ns \in Seq(NodeType) /\ (\A c \in Children(ns, i) : c \in D)
      /\ \A k, l \in DOMAIN cs : cs[k] = cs[l] => k = l
  BY TreeFacts DEF Branched
<1>2. cs \in Seq(Nat)
  BY <1>1, NodeFields
<1>3. Children(ns, i) = {cs[k] : k \in DOMAIN cs}
  BY Zenon DEF Children, ToSet
<1>4. Pushed(ns, i) = Among(cs, P)
  BY DEF Pushed
<1> HIDE DEF cs, D
<1>5. Len(cs) \in Nat /\ DOMAIN cs = 1 .. Len(cs)
  BY <1>2
<1>6. cs \in Seq(D)
  <2>1. cs = [k \in 1 .. Len(cs) |-> cs[k]]
    BY <1>2
  <2>2. \A k \in 1 .. Len(cs) : cs[k] \in D
    BY <1>1, <1>3, <1>5
  <2> QED
    BY <2>1, <2>2, <1>5
<1>7. S \in SUBSET DOMAIN cs /\ F \subseteq S /\ P \in SUBSET DOMAIN cs /\ P \subseteq S
  OBVIOUS
<1>8. S # {} => F # {}
  <2>1. S \in SUBSET Nat
    BY <1>5
  <2> HIDE DEF S
  <2>2. S # {} => \E x \in S : \A y \in S : x <= y
    BY <2>1, LeastElement
  <2> QED
    BY <2>2
<1>9. \A k \in S : ns[cs[k]].solved /\ k \in DOMAIN cs
  OBVIOUS
<1>10. \A k \in DOMAIN cs : ns[cs[k]].solved => k \in S
  OBVIOUS
<1>11. S # {} => P # {}
  BY <1>8
<1>12. ns[i].type = "And" => P = S
  OBVIOUS
<1> HIDE DEF S, F, P
<1>13. /\ Among(cs, P) \in Seq(D) /\ ToSet(Among(cs, P)) = {cs[k] : k \in P}
  BY <1>6, <1>7, AmongElements
<1>14. \A k, l \in DOMAIN Among(cs, P) : Among(cs, P)[k] = Among(cs, P)[l] => k = l
  BY <1>1, <1>6, <1>7, AmongInjective
<1>15. \A c \in {cs[k] : k \in P} : c \in Children(ns, i) /\ ns[c].solved
  BY <1>3, <1>7, <1>9
<1>16. ns[i].type = "And" => \A c \in Children(ns, i) : ns[c].solved => c \in {cs[k] : k \in P}
  BY <1>3, <1>10, <1>12
<1>17. (\E c \in Children(ns, i) : ns[c].solved) => {cs[k] : k \in P} # {}
  BY <1>3, <1>10, <1>11
<1> QED
  BY <1>4, <1>13, <1>14, <1>15, <1>16, <1>17 DEF D

\* A stack whose top is taken off and on which other elements are put.
Stacked(s, p) == SubSeq(s, 1, Len(s) - 1) \o p

\* The elements of such a stack.
LEMMA StackedFacts ==
  ASSUME NEW D, NEW s \in Seq(D), s # <<>>, NEW p \in Seq(D)
  PROVE  /\ Stacked(s, p) \in Seq(D) /\ s[Len(s)] \in D /\ s[Len(s)] \in ToSet(s)
         /\ (\A k, l \in DOMAIN s : s[k] = s[l] => k = l) =>
              ToSet(Stacked(s, p)) = (ToSet(s) \ {s[Len(s)]}) \cup ToSet(p)
         /\ (\A k, l \in DOMAIN s : s[k] = s[l] => k = l) /\ (\A k, l \in DOMAIN p : p[k] = p[l] => k = l)
            /\ ToSet(s) \cap ToSet(p) = {} =>
              \A k, l \in DOMAIN Stacked(s, p) : Stacked(s, p)[k] = Stacked(s, p)[l] => k = l
<1> DEFINE n == Len(s)
           m == Len(p)
           r == SubSeq(s, 1, n - 1)
           t == r \o p
<1>1. n \in Nat /\ n # 0 /\ DOMAIN s = 1 .. n /\ m \in Nat /\ DOMAIN p = 1 .. m /\ s[n] \in D
  OBVIOUS
<1>2. r \in Seq(D) /\ Len(r) = n - 1 /\ \A k \in 1 .. n - 1 : r[k] = s[k]
  BY <1>1
<1> HIDE DEF r, n, m
<1>3. /\ t \in Seq(D) /\ Len(t) = (n - 1) + m
      /\ (\A j \in 1 .. n - 1 : t[j] = s[j])
      /\ (\A k \in 1 .. m : t[(n - 1) + k] = p[k])
      /\ ToSet(t) = ToSet(r) \cup ToSet(p)
  <2>1. /\ r \o p \in Seq(D) /\ Len(r \o p) = Len(r) + Len(p)
        /\ (\A j \in 1 .. Len(r) : (r \o p)[j] = r[j])
        /\ (\A k \in 1 .. Len(p) : (r \o p)[Len(r) + k] = p[k])
        /\ ToSet(r \o p) = ToSet(r) \cup ToSet(p)
    BY <1>2, ConcatFacts, ZenonT(60)
  <2> QED
    BY <2>1, <1>2 DEF m
<1> HIDE DEF t
<1>4. DOMAIN r = 1 .. n - 1 /\ DOMAIN t = 1 .. (n - 1) + m
  BY <1>1, <1>2, <1>3
<1>5. /\ ToSet(s) = {s[k] : k \in 1 .. n} /\ ToSet(r) = {r[k] : k \in 1 .. n - 1} /\ ToSet(p) = {p[k] : k \in 1 .. m}
  BY <1>1, <1>4, Zenon DEF ToSet
<1>6. s[n] \in ToSet(s)
  BY <1>1, <1>5
<1>7. ASSUME \A k, l \in DOMAIN s : s[k] = s[l] => k = l
      PROVE  ToSet(r) = ToSet(s) \ {s[n]}
  <2>1. \A k \in 1 .. n : k \in 1 .. n - 1 \/ k = n
    BY <1>1
  <2>2. \A k \in 1 .. n - 1 : k \in 1 .. n /\ k # n /\ n \in 1 .. n
    BY <1>1
  <2>3. \A x \in ToSet(r) : x \in ToSet(s) /\ x # s[n]
    BY <2>2, <1>1, <1>2, <1>5, <1>7
  <2>4. \A x \in ToSet(s) : x # s[n] => x \in ToSet(r)
    BY <2>1, <1>2, <1>5
  <2> QED
    BY <2>3, <2>4
<1>8. ASSUME \A k, l \in DOMAIN s : s[k] = s[l] => k = l, \A k, l \in DOMAIN p : p[k] = p[l] => k = l,
             ToSet(s) \cap ToSet(p) = {}, NEW k \in 1 .. (n - 1) + m, NEW l \in 1 .. (n - 1) + m, t[k] = t[l]
      PROVE  k = l
  <2> DEFINE q == n - 1
  <2>1. q \in Nat /\ \A x \in 1 .. q : x \in 1 .. n
    BY <1>1
  <2> HIDE DEF q
  <2>2. \A x \in 1 .. q + m : x \in 1 .. q \/ (x - q \in 1 .. m /\ q + (x - q) = x)
    BY <2>1, <1>1
  <2>3. \A x \in 1 .. q + m : x \in 1 .. q \/ t[x] = p[x - q]
    BY <2>2, <1>3 DEF q
  <2>4. \A x \in 1 .. q : t[x] = s[x]
    BY <1>3 DEF q
  <2>5. k \in 1 .. q + m /\ l \in 1 .. q + m
    BY <1>8 DEF q
  <2>6. CASE k \in 1 .. q /\ l \in 1 .. q
    BY <2>1, <2>4, <2>6, <1>1, <1>8
  <2>7. CASE k \notin 1 .. q /\ l \notin 1 .. q
    <3>1. k - q \in 1 .. m /\ l - q \in 1 .. m /\ p[k - q] = p[l - q]
      BY <2>2, <2>3, <2>5, <2>7, <1>8
    <3>2. k - q = l - q
      BY <3>1, <1>1, <1>8
    <3> QED
      BY <3>2, <2>1, <2>5, <1>1
  <2>8. ASSUME NEW x \in 1 .. q, NEW y \in 1 .. q + m, y \notin 1 .. q PROVE t[x] # t[y]
    <3>1. t[x] \in ToSet(s)
      BY <2>1, <2>4, <1>5
    <3>2. t[y] \in ToSet(p)
      BY <2>2, <2>3, <2>8, <1>5
    <3> QED
      BY <3>1, <3>2, <1>8
  <2> QED
    BY <2>5, <2>6, <2>7, <2>8, <1>8
<1>9. Stacked(s, p) = t
  BY DEF Stacked, t, r, n
<1> QED
  BY <1>1, <1>3, <1>4, <1>6, <1>7, <1>8, <1>9 DEF n

ExtractType(ns) == [stack : Seq(DOMAIN ns), entries : Seq(States \X DOMAIN Actions)]

\* The entry of an And node.
EntryOf(ns, i) == <<ns[i].state, ns[i].action>>

\* One turn of the loop of extract_policy.
LEMMA ExtractOneFacts ==
  ASSUME NEW ns, IsTree(ns), NEW x \in ExtractType(ns)
  PROVE  /\ ExtractOne(ns, x) \in ExtractType(ns)
         /\ x.stack = <<>> => ExtractOne(ns, x) = x
         /\ x.stack # <<>> =>
              LET i == x.stack[Len(x.stack)]
                  y == ExtractOne(ns, x)
              IN  /\ i \in DOMAIN ns /\ y.stack = Stacked(x.stack, Pushed(ns, i))
                  /\ y.entries = x.entries \o (IF ns[i].type = "And" THEN <<EntryOf(ns, i)>> ELSE <<>>)
<1> DEFINE D == DOMAIN ns
           E == States \X DOMAIN Actions
           s == x.stack
           i == s[Len(s)]
           e == IF ns[i].type = "And" THEN <<EntryOf(ns, i)>> ELSE <<>>
           y == [stack |-> Stacked(s, Pushed(ns, i)), entries |-> x.entries \o e]
<1>1. s \in Seq(D) /\ x.entries \in Seq(E)
  BY DEF ExtractType
<1>2. CASE s = <<>>
  <2>1. ExtractOne(ns, x) = x
    BY <1>2 DEF ExtractOne
  <2> QED
    BY <2>1, <1>2
<1>3. CASE s # <<>>
  <2>1. Pushed(ns, i) \in Seq(D) /\ i \in D
    <3> HIDE DEF D, s
    <3>1. i \in D
      BY <1>1, <1>3, StackedFacts
    <3> HIDE DEF i
    <3> QED
      BY <3>1, PushedFacts DEF D
  <2>2. Stacked(s, Pushed(ns, i)) \in Seq(D)
    <3> DEFINE p == Pushed(ns, i)
    <3>1. p \in Seq(D)
      BY <2>1
    <3> HIDE DEF D, s, p
    <3>2. Stacked(s, p) \in Seq(D)
      BY <3>1, <1>1, <1>3, StackedFacts
    <3> QED
      BY <3>2 DEF p
  <2>3. ns[i].type = "And" => ns[ns[i].parent].state = ns[i].state /\ EntryOf(ns, i) \in E
    <3> HIDE DEF i
    <3>1. Acted(ns, i) /\ ns \in Seq(NodeType)
      BY <2>1, TreeFacts
    <3>2. ns[i].state \in States
      BY <3>1, <2>1, NodeFields
    <3> QED
      BY <3>1, <3>2 DEF Acted, EntryOf
  <2>4. ExtractOne(ns, x) = y
    <3> DEFINE old == <<<<ns[ns[i].parent].state, ns[i].action>>>>
    <3>1. (IF ns[i].type = "And" THEN old ELSE <<>>) = e
      <4>1. CASE ns[i].type = "And"
        <5>1. ns[ns[i].parent].state = ns[i].state
          BY <4>1, <2>3
        <5>2. old = <<EntryOf(ns, i)>>
          BY <5>1, Zenon DEF EntryOf
        <5> QED
          BY <5>2
      <4>2. CASE ns[i].type # "And"
        BY <4>2
      <4> QED
        BY <4>1, <4>2
    <3>2. ExtractOne(ns, x) = [stack |-> Stacked(s, Pushed(ns, i)), entries |-> x.entries \o (IF ns[i].type = "And" THEN old ELSE <<>>)]
      BY <1>3, Zenon DEF ExtractOne, Stacked
    <3> HIDE DEF e, old, i, s
    <3> QED
      BY <3>1, <3>2
  <2>5. e \in Seq(E)
    <3> HIDE DEF E, i
    <3>1. <<>> \in Seq(E)
      OBVIOUS
    <3>2. ns[i].type = "And" => <<EntryOf(ns, i)>> \in Seq(E)
      BY <2>3
    <3> QED
      BY <3>1, <3>2
  <2>6. x.entries \o e \in Seq(E)
    <3> HIDE DEF e, E
    <3> QED
      BY <2>5, <1>1, ConcatFacts
  <2>7. y \in ExtractType(ns)
    BY <2>2, <2>6 DEF ExtractType
  <2>8. y.stack = Stacked(s, Pushed(ns, i)) /\ y.entries = x.entries \o e
    BY Zenon
  <2> HIDE DEF y
  <2> QED
    BY <2>1, <2>4, <2>7, <2>8, <1>3
<1> QED
  BY <1>2, <1>3

\* What holds of the policy so far, with the nodes V taken off the stack, when
\* node r was the first on it: no node is met twice, and what an entry may lead
\* to is in the policy, a goal, or still on the stack.
Extracted(ns, r, x, V) ==
  LET met == V \cup ToSet(x.stack)
  IN  /\ V \in SUBSET DOMAIN ns /\ V \cap ToSet(x.stack) = {}
      /\ \A k, l \in DOMAIN x.stack : x.stack[k] = x.stack[l] => k = l
      /\ r \in met /\ \A i \in met : r <= i /\ (i = r \/ ns[i].parent \in V)
      /\ \A i \in ToSet(x.stack) : ns[i].solved
      /\ \A i \in V : ns[i].type = "Or" => ns[i].state \in Goals \/ \E c \in Children(ns, i) : c \in met
      /\ \A i \in V : ns[i].type = "And" =>
           Children(ns, i) \subseteq met /\ EntryOf(ns, i) \in ToSet(x.entries)
      /\ \A e \in ToSet(x.entries) : \E i \in V : ns[i].type = "And" /\ e = EntryOf(ns, i)

\* One more node taken off the stack.
LEMMA ExtractedStep ==
  ASSUME NEW ns, IsTree(ns), Marked(ns, 0, 0), NEW r \in Nat, NEW x \in ExtractType(ns), x.stack # <<>>,
         NEW V, Extracted(ns, r, x, V)
  PROVE  LET i == x.stack[Len(x.stack)]
         IN  i \in DOMAIN ns \ V /\ Extracted(ns, r, ExtractOne(ns, x), V \cup {i})
<1> DEFINE D == DOMAIN ns
           s == x.stack
           i == s[Len(s)]
           p == Pushed(ns, i)
           y == ExtractOne(ns, x)
           t == Stacked(s, p)
           W == V \cup {i}
           S == ToSet(s)
           P == ToSet(p)
           T == ToSet(t)
<1>1. /\ s \in Seq(D) /\ i \in D /\ y.stack = t
      /\ y.entries = x.entries \o (IF ns[i].type = "And" THEN <<EntryOf(ns, i)>> ELSE <<>>)
  BY ExtractOneFacts DEF ExtractType
<1>2. /\ V \in SUBSET D /\ V \cap S = {} /\ \A k, l \in DOMAIN s : s[k] = s[l] => k = l
      /\ r \in V \cup S /\ (\A j \in V \cup S : r <= j /\ (j = r \/ ns[j].parent \in V))
      /\ (\A j \in S : ns[j].solved)
      /\ (\A j \in V : ns[j].type = "Or" => ns[j].state \in Goals \/ \E c \in Children(ns, j) : c \in V \cup S)
      /\ (\A j \in V : ns[j].type = "And" => Children(ns, j) \subseteq V \cup S /\ EntryOf(ns, j) \in ToSet(x.entries))
      /\ \A e \in ToSet(x.entries) : \E j \in V : ns[j].type = "And" /\ e = EntryOf(ns, j)
  BY Zenon DEF Extracted
<1>3. ToSet(y.entries) = ToSet(x.entries) \cup (IF ns[i].type = "And" THEN {EntryOf(ns, i)} ELSE {})
  <2> DEFINE E == States \X DOMAIN Actions
             e == IF ns[i].type = "And" THEN <<EntryOf(ns, i)>> ELSE <<>>
             o == EntryOf(ns, i)
             one == <<o>>
  <2>1. x.entries \in Seq(E) /\ (ns[i].type = "And" => o \in E)
    <3>1. x.entries \in Seq(E)
      BY DEF ExtractType
    <3> HIDE DEF i
    <3>2. Acted(ns, i) /\ ns \in Seq(NodeType)
      BY <1>1, TreeFacts
    <3>3. ns[i].state \in States
      BY <3>2, <1>1, NodeFields
    <3>4. ns[i].type = "And" => o \in E
      BY <3>2, <3>3 DEF Acted, EntryOf
    <3> QED
      BY <3>1, <3>4
  <2> HIDE DEF E, o
  <2>2. ToSet(<<>>) = {} /\ <<>> \in Seq(E)
    BY DEF ToSet
  <2>3. ToSet(<<o>>) = {o}
    <3>1. DOMAIN one = {1} /\ one[1] = o
      OBVIOUS
    <3> HIDE DEF one
    <3>2. ToSet(one) = {one[k] : k \in {1}}
      BY <3>1, Zenon DEF ToSet
    <3> QED
      BY <3>1, <3>2 DEF one
  <2>4. e \in Seq(E)
    BY <2>1, <2>2 DEF o
  <2>5. ToSet(e) = IF ns[i].type = "And" THEN {EntryOf(ns, i)} ELSE {}
    BY <2>2, <2>3 DEF o
  <2> HIDE DEF e
  <2>6. ToSet(x.entries \o e) = ToSet(x.entries) \cup ToSet(e)
    BY <2>1, <2>4, ConcatFacts
  <2> QED
    BY <2>5, <2>6, <1>1 DEF e
<1>4. /\ p \in Seq(D) /\ \A k, l \in DOMAIN p : p[k] = p[l] => k = l
      /\ (\A c \in P : c \in Children(ns, i) /\ ns[c].solved)
      /\ (ns[i].type = "And" => \A c \in Children(ns, i) : ns[c].solved => c \in P)
      /\ ((\E c \in Children(ns, i) : ns[c].solved) => P # {})
  <2> HIDE DEF i
  <2> QED
    BY <1>1, PushedFacts
<1>5. /\ ns[i].type \in {"Or", "And"} /\ (\A c \in Children(ns, i) : c \in D /\ ns[c].parent = i) /\ Justified(ns, i)
      /\ \A c \in Children(ns, i) : i < c
  <2> HIDE DEF i
  <2>1. ns \in Seq(NodeType)
    BY DEF IsTree
  <2>2. ns[i].type \in {"Or", "And"} /\ i # 0
    BY <2>1, <1>1, NodeFields
  <2>3. \A c \in Children(ns, i) : c \in D /\ ns[c].parent = i
    BY <1>1, TreeFacts
  <2>4. ASSUME NEW c \in Children(ns, i) PROVE i < c
    <3>1. c \in DOMAIN ns /\ ns[c].parent = i
      BY <2>3
    <3>2. Above(ns, 1) = 0 /\ Above(ns, c) = i
      BY <1>1, TreeFacts
    <3>3. c # 1
      BY <3>2, <2>2
    <3> QED
      BY <3>1, <3>3, TreeFacts
  <2> QED
    BY <2>2, <2>3, <2>4, <1>1 DEF Marked
<1> HIDE DEF D, s, p, y
<1>6. s # <<>>
  BY DEF s
<1>7. i \in S
  BY <1>1, <1>6, StackedFacts
<1>8. i \notin V
  BY <1>2, <1>7
<1>n. i \in Nat /\ r <= i /\ \A c \in D : c \in Nat
  <2>1. ns \in Seq(NodeType)
    BY DEF IsTree
  <2>2. D = 1 .. Len(ns) /\ Len(ns) \in Nat
    BY <2>1, NodeFields DEF D
  <2>3. r <= i
    BY <1>2, <1>7
  <2> HIDE DEF i
  <2> QED
    BY <2>2, <2>3, <1>1
<1>p. \A c \in P : c \in D /\ ns[c].parent = i /\ r <= c /\ c # r
  <2> HIDE DEF i, P
  <2>1. \A c \in P : c \in D /\ ns[c].parent = i /\ i < c
    BY <1>4, <1>5
  <2>2. \A c \in D : c \in Nat /\ (i < c => r <= c /\ c # r)
    BY <1>n
  <2> QED
    BY <2>1, <2>2
<1>9. P \cap (V \cup S) = {}
  <2> HIDE DEF i, P, S
  <2> QED
    BY <1>2, <1>p, <1>8, ZenonT(60)
<1>10. T = (S \ {i}) \cup P /\ \A k, l \in DOMAIN t : t[k] = t[l] => k = l
  <2>1. S \cap P = {}
    BY <1>9
  <2>2. \A k, l \in DOMAIN s : s[k] = s[l] => k = l
    BY <1>2
  <2> QED
    BY <2>1, <2>2, <1>1, <1>4, <1>6, StackedFacts, SMTT(30)
<1> HIDE DEF t, i, S, P, T
<1>11. W \cup T = V \cup S \cup P /\ i \in W /\ V \subseteq W
  BY <1>7, <1>10
<1>12. W \in SUBSET D /\ W \cap T = {}
  <2>1. V \in SUBSET D /\ V \cap S = {}
    BY <1>2
  <2> QED
    BY <2>1, <1>1, <1>7, <1>9, <1>10
<1>13. r \in W \cup T /\ \A j \in W \cup T : r <= j /\ (j = r \/ ns[j].parent \in W)
  <2>1. \A j \in P : r <= j /\ ns[j].parent \in W
    BY <1>p
  <2>2. \A j \in V \cup S : r <= j /\ (j = r \/ ns[j].parent \in W)
    BY <1>2
  <2> QED
    BY <2>1, <2>2, <1>2, <1>11
<1>14. ns[i].solved /\ \A j \in T : ns[j].solved
  BY <1>2, <1>4, <1>7, <1>10
<1>15. \A j \in W : ns[j].type = "Or" => ns[j].state \in Goals \/ \E c \in Children(ns, j) : c \in W \cup T
  <2>1. \A j \in V : ns[j].type = "Or" => ns[j].state \in Goals \/ \E c \in Children(ns, j) : c \in W \cup T
    BY <1>2, <1>11
  <2>2. ASSUME ns[i].type = "Or", ns[i].state \notin Goals PROVE \E c \in Children(ns, i) : c \in W \cup T
    <3>1. \E c \in Children(ns, i) : ns[c].solved
      BY <2>2, <1>5, <1>14 DEF Justified
    <3>2. P # {}
      BY <3>1, <1>4
    <3> QED
      BY <3>2, <1>4, <1>11
  <2> QED
    BY <2>1, <2>2
<1>16. \A j \in W : ns[j].type = "And" => Children(ns, j) \subseteq W \cup T /\ EntryOf(ns, j) \in ToSet(y.entries)
  <2>1. \A j \in V : ns[j].type = "And" => Children(ns, j) \subseteq W \cup T /\ EntryOf(ns, j) \in ToSet(y.entries)
    BY <1>2, <1>3, <1>11
  <2>2. ASSUME ns[i].type = "And" PROVE Children(ns, i) \subseteq W \cup T /\ EntryOf(ns, i) \in ToSet(y.entries)
    <3>1. \A c \in Children(ns, i) : ns[c].solved
      BY <2>2, <1>5, <1>14 DEF Justified
    <3>2. Children(ns, i) \subseteq P
      BY <2>2, <3>1, <1>4
    <3> QED
      BY <2>2, <3>2, <1>3, <1>11
  <2> QED
    BY <2>1, <2>2
<1>17. \A e \in ToSet(y.entries) : \E j \in W : ns[j].type = "And" /\ e = EntryOf(ns, j)
  BY <1>2, <1>3, <1>11
<1>18. Extracted(ns, r, y, W)
  <2> HIDE DEF W
  <2> QED
    BY <1>1, <1>10, <1>12, <1>13, <1>14, <1>15, <1>16, <1>17, Zenon DEF Extracted, D, T
<1> QED
  BY <1>1, <1>8, <1>18 DEF D, y, i, s

\* The turns of the loop of extract_policy from node i on.
IsExtraction(ns, i, g) ==
  /\ \A k \in 0 .. Len(ns) : g[k] \in ExtractType(ns)
  /\ g[0] = [stack |-> <<i>>, entries |-> <<>>]
  /\ \A k \in 1 .. Len(ns) : g[k] = ExtractOne(ns, g[k - 1])
  /\ Extract(ns, i) = g[Len(ns)].entries

\* The loop of extract_policy has these turns.
LEMMA ExtractLoop ==
  ASSUME NEW ns, IsTree(ns), NEW i \in DOMAIN ns
  PROVE  \E g : IsExtraction(ns, i, g)
<1> DEFINE n == Len(ns)
           base == [stack |-> <<i>>, entries |-> <<>>]
           V == ExtractType(ns)
           next == [p \in (1 .. n) \X V |-> ExtractOne(ns, p[2])]
           Loop(g) == g = [k \in 0 .. n |-> IF k = 0 THEN base ELSE ExtractOne(ns, g[k - 1])]
<1>1. n \in Nat
  <2>1. ns \in Seq(NodeType)
    BY DEF IsTree
  <2> QED
    BY <2>1, NodeFields
<1>2. base \in V
  <2> DEFINE D == DOMAIN ns
             E == States \X DOMAIN Actions
  <2>1. i \in D
    OBVIOUS
  <2> HIDE DEF D, E
  <2>2. <<i>> \in Seq(D) /\ <<>> \in Seq(E)
    BY <2>1
  <2> QED
    BY <2>2 DEF ExtractType, D, E
<1>3. \A x \in V : ExtractOne(ns, x) \in V
  BY ExtractOneFacts
<1> HIDE DEF V, base, n
<1>4. next \in [(1 .. n) \X V -> V] /\ \A k \in 1 .. n, x \in V : next[<<k, x>>] = ExtractOne(ns, x)
  BY <1>3
<1> HIDE DEF next
<1>5. PICK g : Iterates(n, V, base, next, g)
  BY <1>1, <1>2, <1>4, RecursiveFunction
<1>6. Loop(g)
  <2>1. g \in [0 .. n -> V] /\ g[0] = base /\ \A k \in 1 .. n : g[k] = next[<<k, g[k - 1]>>]
    BY <1>5 DEF Iterates
  <2>2. \A k \in 0 .. n : k # 0 => k \in 1 .. n /\ k - 1 \in 0 .. n
    BY <1>1
  <2>3. \A k \in 0 .. n : g[k] = IF k = 0 THEN base ELSE ExtractOne(ns, g[k - 1])
    BY <2>1, <2>2, <1>4
  <2> QED
    BY <2>1, <2>3
<1> DEFINE extract == CHOOSE h : Loop(h)
<1>7. Loop(extract)
  BY <1>6
<1>8. Extract(ns, i) = extract[n].entries
  BY DEF Extract, base, n
<1> HIDE DEF extract
<1>9. extract[0] = base /\ \A k \in 1 .. n : extract[k] = ExtractOne(ns, extract[k - 1])
  BY <1>1, <1>7
<1> HIDE DEF Loop
<1> DEFINE T == {k \in Nat : k <= n => extract[k] \in V}
<1>10. 0 \in T
  BY <1>2, <1>9
<1>11. ASSUME NEW k \in T PROVE k + 1 \in T
  <2>1. SUFFICES ASSUME k + 1 <= n PROVE extract[k + 1] \in V
    OBVIOUS
  <2>2. k \in Nat /\ k <= n /\ k + 1 \in 1 .. n /\ (k + 1) - 1 = k
    BY <2>1, <1>1
  <2> QED
    BY <2>2, <1>3, <1>9
<1>12. T = Nat
  <2>1. T \in SUBSET Nat
    OBVIOUS
  <2> HIDE DEF T
  <2> QED
    BY <1>10, <1>11, <2>1, SetInduction
<1>13. \A k \in 0 .. n : extract[k] \in V
  BY <1>1, <1>12
<1>14. IsExtraction(ns, i, extract)
  BY <1>8, <1>9, <1>13 DEF IsExtraction, base, V, n
<1> QED
  BY <1>14

\* The entries of a policy are states and actions.
LEMMA ExtractTyped ==
  ASSUME NEW ns, IsTree(ns), NEW i \in DOMAIN ns
  PROVE  Extract(ns, i) \in Seq(States \X DOMAIN Actions)
<1>1. PICK g : IsExtraction(ns, i, g)
  BY ExtractLoop
<1>2. Len(ns) \in Nat
  <2>1. ns \in Seq(NodeType)
    BY DEF IsTree
  <2> QED
    BY <2>1, NodeFields
<1>3. Len(ns) \in 0 .. Len(ns)
  BY <1>2
<1>4. g[Len(ns)] \in ExtractType(ns) /\ Extract(ns, i) = g[Len(ns)].entries
  BY <1>1, <1>3 DEF IsExtraction
<1> QED
  BY <1>4 DEF ExtractType

\* From a solved node the loop ends: every turn takes a node that was not
\* taken before.
LEMMA ExtractEnds ==
  ASSUME NEW ns, IsTree(ns), Marked(ns, 0, 0), NEW r \in DOMAIN ns, ns[r].solved
  PROVE  \E x, V : x.stack = <<>> /\ x.entries = Extract(ns, r) /\ Extracted(ns, r, x, V)
<1>1. ns \in Seq(NodeType)
  BY DEF IsTree
<1>2. PICK g : IsExtraction(ns, r, g)
  BY <1>1, ExtractLoop
<1> DEFINE n == Len(ns)
           D == DOMAIN ns
<1>3. n \in Nat /\ D = 1 .. n /\ r \in D /\ r \in Nat
  <2>1. n \in Nat /\ D = 1 .. n
    BY <1>1, NodeFields
  <2>2. r \in 1 .. n
    BY <2>1
  <2> QED
    BY <2>1, <2>2
<1>4. /\ \A k \in 0 .. n : g[k] \in ExtractType(ns)
      /\ g[0] = [stack |-> <<r>>, entries |-> <<>>]
      /\ \A k \in 1 .. n : g[k] = ExtractOne(ns, g[k - 1])
      /\ Extract(ns, r) = g[n].entries
  BY <1>2 DEF IsExtraction
<1> HIDE DEF n, D
<1>5. IsFiniteSet(D) /\ Cardinality(D) = n
  <2>1. 1 \in Int /\ n \in Int /\ n - 1 + 1 = n /\ (1 > n => n = 0)
    BY <1>3
  <2>2. IsFiniteSet(1 .. n) /\ Cardinality(1 .. n) = n
    BY <2>1, FS_Interval
  <2> QED
    BY <2>2, <1>3
<1> DEFINE Met(k, V) == Extracted(ns, r, g[k], V) /\ (g[k].stack # <<>> => Cardinality(V) = k)
           T == {k \in Nat : k <= n => \E V : Met(k, V)}
<1>6. 0 \in T
  <2>1. g[0].stack = <<r>> /\ g[0].entries = <<>>
    BY <1>4
  <2>2. ToSet(<<>>) = {}
    BY DEF ToSet
  <2> DEFINE one == <<r>>
  <2>3. DOMAIN one = {1} /\ one[1] = r /\ g[0].stack = one
    BY <2>1
  <2> HIDE DEF one
  <2>4. ToSet(one) = {r}
    <3>1. ToSet(one) = {one[k] : k \in {1}}
      BY <2>3, Zenon DEF ToSet
    <3> QED
      BY <3>1, <2>3
  <2>5. ToSet(g[0].stack) = {r} /\ ToSet(g[0].entries) = {}
    BY <2>1, <2>2, <2>3, <2>4, Zenon
  <2>6. \A k, l \in DOMAIN g[0].stack : g[0].stack[k] = g[0].stack[l] => k = l
    BY <2>3
  <2>7. Extracted(ns, r, g[0], {})
    <3>1. r <= r
      BY <1>3
    <3> QED
      BY <2>5, <2>6, <3>1 DEF Extracted
  <2>8. Cardinality({}) = 0
    BY FS_EmptySet
  <2>9. Met(0, {})
    BY <2>7, <2>8
  <2> HIDE DEF Met
  <2> QED
    BY <2>9
<1>7. ASSUME NEW k \in T PROVE k + 1 \in T
  <2>0. k \in Nat /\ k + 1 \in Nat /\ (k <= n => \E V : Met(k, V))
    OBVIOUS
  <2>1. SUFFICES ASSUME k + 1 <= n PROVE \E V : Met(k + 1, V)
    BY <2>0
  <2>2. k <= n /\ k + 1 \in 1 .. n /\ k \in 0 .. n /\ (k + 1) - 1 = k
    BY <2>0, <2>1, <1>3
  <2>3. PICK V : Met(k, V)
    BY <2>0, <2>2
  <2> DEFINE x == g[k]
             y == g[k + 1]
  <2>4. y = ExtractOne(ns, x) /\ x \in ExtractType(ns)
    BY <2>2, <1>4
  <2>5. CASE x.stack = <<>>
    <3>1. y = x
      BY <2>4, <2>5, ExtractOneFacts
    <3>2. Extracted(ns, r, y, V) /\ y.stack = <<>>
      BY <2>3, <2>5, <3>1
    <3>3. Met(k + 1, V)
      BY <3>2
    <3> HIDE DEF Met
    <3> QED
      BY <3>3
  <2>6. CASE x.stack # <<>>
    <3> DEFINE i == x.stack[Len(x.stack)]
               W == V \cup {i}
    <3>1. Extracted(ns, r, x, V) /\ Cardinality(V) = k
      BY <2>3, <2>6
    <3>2. i \in DOMAIN ns \ V /\ Extracted(ns, r, y, W)
      <4> HIDE DEF x, y
      <4> QED
        BY <2>4, <2>6, <3>1, <1>3, ExtractedStep
    <3>3. V \in SUBSET D
      BY <3>1 DEF Extracted, D
    <3>4. IsFiniteSet(V)
      BY <3>3, <1>5, FS_Subset
    <3> HIDE DEF i
    <3>5. Cardinality(W) = k + 1
      BY <3>1, <3>2, <3>4, FS_AddElement
    <3>6. Met(k + 1, W)
      BY <3>2, <3>5
    <3> HIDE DEF Met
    <3> QED
      BY <3>6
  <2> QED
    BY <2>5, <2>6
<1>8. T = Nat
  <2>1. T \in SUBSET Nat
    OBVIOUS
  <2> HIDE DEF T
  <2> QED
    BY <1>6, <1>7, <2>1, SetInduction
<1>9. PICK V : Met(n, V)
  BY <1>3, <1>8
<1>10. Extracted(ns, r, g[n], V) /\ (g[n].stack # <<>> => Cardinality(V) = n)
  BY <1>9
<1>11. g[n].stack = <<>>
  <2>1. SUFFICES ASSUME g[n].stack # <<>> PROVE FALSE
    OBVIOUS
  <2>2. Cardinality(V) = n /\ V \in SUBSET D
    BY <2>1, <1>10 DEF Extracted, D
  <2>3. V = D
    <3>1. IsFiniteSet(D) /\ V \subseteq D /\ Cardinality(V) = Cardinality(D)
      BY <1>5, <2>2
    <3> QED
      BY <3>1, FS_Subset
  <2>4. n \in 0 .. n
    BY <1>3
  <2>5. g[n] \in ExtractType(ns)
    BY <2>4, <1>4
  <2> DEFINE x == g[n]
  <2> HIDE DEF x
  <2>6. x.stack[Len(x.stack)] \in DOMAIN ns \ V
    BY <2>1, <2>5, <1>3, <1>10, ExtractedStep DEF x
  <2> QED
    BY <2>3, <2>6 DEF D
<1> QED
  BY <1>4, <1>10, <1>11

\* The states a policy knows what to do in, and a policy that no outcome of
\* its actions leaves.
Known(pol) == {pol[k][1] : k \in DOMAIN pol} \cup Goals
ClosedPolicy(pol) == \A k \in DOMAIN pol : ToSet(domain[pol[k][1]][pol[k][2]]) \subseteq Known(pol)

\* What extract_policy makes of a solved node is closed, and holds the first
\* state if that node is the first.
LEMMA PolicyIsClosed ==
  ASSUME NEW ns, IsTree(ns), Marked(ns, 0, 0), NEW r \in DOMAIN ns, ns[r].solved
  PROVE  ClosedPolicy(Extract(ns, r)) /\ (r = 1 => Initial \in Known(Extract(ns, r)))
<1>1. ns \in Seq(NodeType) /\ 1 \in DOMAIN ns /\ Placed(ns, 1)
  BY DEF IsTree
<1>2. PICK x, V : x.stack = <<>> /\ x.entries = Extract(ns, r) /\ Extracted(ns, r, x, V)
  BY ExtractEnds
<1> DEFINE pol == Extract(ns, r)
           E == {pol[k] : k \in DOMAIN pol}
           known == {pol[k][1] : k \in DOMAIN pol} \cup Goals
<1>3. ToSet(<<>>) = {}
  BY DEF ToSet
<1>4. ToSet(pol) = E
  BY Zenon DEF ToSet
<1> HIDE DEF pol
<1>5. /\ V \in SUBSET DOMAIN ns /\ r \in V
      /\ (\A i \in V : ns[i].type = "Or" => ns[i].state \in Goals \/ \E c \in Children(ns, i) : c \in V)
      /\ (\A i \in V : ns[i].type = "And" => Children(ns, i) \subseteq V /\ EntryOf(ns, i) \in E)
      /\ \A e \in E : \E i \in V : ns[i].type = "And" /\ e = EntryOf(ns, i)
  <2>1. V \cup ToSet(x.stack) = V /\ ToSet(x.entries) = E
    BY <1>2, <1>3, <1>4 DEF pol
  <2> HIDE DEF E
  <2> QED
    BY <2>1, <1>2, Zenon DEF Extracted
<1>6. \A e \in E : e[1] \in known
  OBVIOUS
<1>7. \A i \in DOMAIN ns : EntryOf(ns, i)[1] = ns[i].state /\ EntryOf(ns, i)[2] = ns[i].action
  BY DEF EntryOf
<1>8. Goals \subseteq known
  OBVIOUS
<1>9. \A k \in DOMAIN pol : pol[k] \in E
  OBVIOUS
<1> HIDE DEF known, E
<1>10. ASSUME NEW i \in V, ns[i].type = "Or" PROVE ns[i].state \in known
  <2>1. CASE ns[i].state \in Goals
    BY <2>1, <1>8
  <2>2. CASE ns[i].state \notin Goals
    <3>1. PICK c \in Children(ns, i) : c \in V
      BY <2>2, <1>5, <1>10
    <3>2. c \in DOMAIN ns /\ ns[c].parent = i /\ ns[c].type # ns[i].type
      BY <1>5, TreeFacts DEF Branched
    <3>3. ns[c].type = "And"
      BY <3>2, <1>1, <1>10, NodeFields
    <3>4. ns[c].state = ns[i].state
      BY <3>2, <3>3, TreeFacts DEF Acted
    <3>5. EntryOf(ns, c) \in E /\ EntryOf(ns, c)[1] = ns[i].state
      BY <3>1, <3>2, <3>3, <3>4, <1>5, <1>7
    <3> QED
      BY <3>5, <1>6
  <2> QED
    BY <2>1, <2>2
<1>11. ASSUME r = 1 PROVE Initial \in known
  <2>1. ns[r].type = "Or" /\ ns[r].state = Initial
    BY <1>1, <1>11 DEF Placed
  <2> QED
    BY <2>1, <1>5, <1>10
<1>12. ASSUME NEW k \in DOMAIN pol PROVE ToSet(domain[pol[k][1]][pol[k][2]]) \subseteq known
  <2>1. PICK i \in V : ns[i].type = "And" /\ pol[k] = EntryOf(ns, i)
    BY <1>5, <1>9
  <2>2. i \in DOMAIN ns /\ pol[k][1] = ns[i].state /\ pol[k][2] = ns[i].action
    BY <2>1, <1>5, <1>7
  <2>3. {ns[c].state : c \in Children(ns, i)} = Results(ns, i)
    BY <2>1, <2>2, TreeFacts DEF Acted
  <2>4. ASSUME NEW c \in Children(ns, i) PROVE ns[c].state \in known
    <3>1. c \in V /\ c \in DOMAIN ns
      BY <2>1, <1>5
    <3>2. ns[c].type # ns[i].type
      BY <2>2, TreeFacts DEF Branched
    <3>3. ns[c].type = "Or"
      BY <3>1, <3>2, <2>1, <1>1, NodeFields
    <3> QED
      BY <3>1, <3>3, <1>10
  <2>5. ToSet(domain[pol[k][1]][pol[k][2]]) = Results(ns, i)
    BY <2>2 DEF Results
  <2> QED
    BY <2>3, <2>4, <2>5
<1> QED
  BY <1>11, <1>12 DEF ClosedPolicy, Known, known, pol

-----------------------------------------------------------------------------
(* The search: its invariant                                               *)

\* The root that find_policy looks at is the first node or not the root.
LEMMA RootIsFirst ==
  ASSUME NEW ns, IsTree(ns), NEW r \in DOMAIN ns, ns[r].is_root
  PROVE  r = 1
BY DEF IsTree, Placed

\* The domain stays as it is during a search.
LEMMA GraphStays ==
  ASSUME domain' = domain
  PROVE  /\ IsTree(nodes') => IsTree(nodes)'
         /\ AllOpened(nodes', 0) => AllOpened(nodes, 0)'
         /\ Marked(nodes', 0, 0) => Marked(nodes, 0, 0)'
         /\ IsFrontier(nodes', frontier', 0) => IsFrontier(nodes, frontier, 0)'
         /\ CanWin' = CanWin
         /\ ClosedPolicy(policy') => ClosedPolicy(policy)'
         /\ Known(policy)' = Known(policy')
<1>1. CanWin' = CanWin
  BY Zenon DEF CanWin, Forced
<1>2. IsTree(nodes') => IsTree(nodes)'
  BY Zenon DEF IsTree, Placed, Branched, Acted, Results, Children
<1>3. AllOpened(nodes', 0) => AllOpened(nodes, 0)'
  BY Zenon DEF AllOpened, Opened, Children
<1>4. Marked(nodes', 0, 0) => Marked(nodes, 0, 0)'
  BY <1>1, Zenon DEF Marked, AllMarked, MarkSound, Justified, Results, Unmarked, CheckIfDead, CheckIfSolved, Children
<1>5. IsFrontier(nodes', frontier', 0) => IsFrontier(nodes, frontier, 0)'
  BY Zenon DEF IsFrontier, Unmarked
<1>6. ClosedPolicy(policy') => ClosedPolicy(policy)'
  BY Zenon DEF ClosedPolicy, Known
<1>7. Known(policy)' = Known(policy')
  BY Zenon DEF Known
<1> QED
  BY <1>1, <1>2, <1>3, <1>4, <1>5, <1>6, <1>7

\* What find_policy answers after a mark.
LEMMA VerdictFacts ==
  ASSUME NEW ns, NEW marked \in SUBSET DOMAIN ns, NEW result, NEW f
  PROVE  /\ root \notin DOMAIN ns => Verdict(ns, marked, result, f) = "undefined"
         /\ root \in DOMAIN ns /\ root \in marked => Verdict(ns, marked, result, f) = result
         /\ root \in DOMAIN ns /\ root \notin marked =>
              Verdict(ns, marked, result, f) = IF f = <<>> THEN "failed" ELSE "search"
<1> DEFINE out == root \notin DOMAIN ns
           hit == root \in marked
           v == CASE out -> "undefined" [] hit -> result [] OTHER -> IF f = <<>> THEN "failed" ELSE "search"
<1>1. Verdict(ns, marked, result, f) = v
  BY DEF Verdict, LoopHead
<1>2. ~(out /\ hit)
  OBVIOUS
<1> HIDE DEF out, hit
<1>3. (out => v = "undefined") /\ (hit => v = result) /\ (~out /\ ~hit => v = IF f = <<>> THEN "failed" ELSE "search")
  BY <1>2
<1> QED
  BY <1>1, <1>3 DEF out, hit

\* A goal node and its ancestors are marked, and the search may end.
LEMMA FoundGoalPreserves == SearchInv /\ FoundGoal => SearchInv'
<1> SUFFICES ASSUME SearchInv, FoundGoal PROVE SearchInv'
  OBVIOUS
<1> DEFINE h == Head(frontier)
           S == {i \in DOMAIN nodes' : nodes'[i].solved}
<1>1. /\ domain' = domain /\ root' = root /\ frontier' = Tail(frontier) /\ frontier # <<>> /\ status = "search"
      /\ nodes' = PropagateSolved(nodes, h) /\ nodes[h].state \in Goals
      /\ status' = Verdict(nodes', S, "solved", frontier')
      /\ policy' = IF status' = "solved" THEN Extract(nodes', root) ELSE policy
  BY DEF FoundGoal
<1>2. /\ domain \in [States -> [DOMAIN Actions -> Outcomes]] /\ policy \in Seq(States \X DOMAIN Actions)
      /\ IsTree(nodes) /\ AllOpened(nodes, 0) /\ Marked(nodes, 0, 0) /\ IsFrontier(nodes, frontier, 0)
      /\ root = 1 => Unmarked(nodes, 1)
  BY <1>1 DEF SearchInv
<1>3. nodes \in Seq(NodeType) /\ 1 \in DOMAIN nodes
  BY <1>2 DEF IsTree
<1>4. /\ h \in DOMAIN nodes /\ nodes[h].type = "Or" /\ nodes[h].children = <<>> /\ Unmarked(nodes, h)
      /\ IsFrontier(nodes, frontier', h)
  BY <1>1, <1>2, <1>3, FrontierHead
<1> HIDE DEF h, S
<1>5. PICK x : x.ns = nodes' /\ x.at = 0 /\ SolvedUp(nodes, h, x)
  BY <1>1, <1>2, <1>4, PropagateSolvedFacts
<1>6. /\ SameTree(nodes', nodes) /\ Marked(nodes', 0, 0) /\ nodes'[h].solved
      /\ \A j \in DOMAIN nodes :
           /\ nodes'[j].dead <=> nodes[j].dead
           /\ nodes[j].children = <<>> /\ j # h => (nodes'[j].solved <=> nodes[j].solved)
  BY <1>5, Zenon DEF SolvedUp
<1>7. IsTree(nodes') /\ AllOpened(nodes', 0) /\ DOMAIN nodes' = DOMAIN nodes
  BY <1>2, <1>6, TreeStays DEF SameTree
<1>8. IsFrontier(nodes', frontier', 0)
  <2>1. ~Unmarked(nodes', h)
    BY <1>6, Zenon DEF Unmarked
  <2>2. \A j \in DOMAIN nodes : nodes[j].children = <<>> /\ j # h => (Unmarked(nodes', j) <=> Unmarked(nodes, j))
    BY <1>6, Zenon DEF Unmarked
  <2> QED
    BY <2>1, <2>2, <1>3, <1>4, <1>6, FrontierMarked
<1>9. S \in SUBSET DOMAIN nodes' /\ \A i \in DOMAIN nodes' : i \in S <=> nodes'[i].solved
  BY DEF S
<1>10. /\ root \notin DOMAIN nodes' => status' = "undefined"
       /\ root \in DOMAIN nodes' /\ root \in S => status' = "solved"
       /\ root \in DOMAIN nodes' /\ root \notin S => status' = IF frontier' = <<>> THEN "failed" ELSE "search"
  BY <1>1, <1>9, VerdictFacts
<1>11. status' \in {"search", "solved", "failed", "undefined"} /\ (status' = "solved" => root \in DOMAIN nodes' /\ root \in S)
  BY <1>10
<1>12. policy' \in Seq(States \X DOMAIN Actions)
  <2>1. CASE status' = "solved"
    BY <2>1, <1>1, <1>7, <1>11, ExtractTyped
  <2>2. CASE status' # "solved"
    BY <2>2, <1>1, <1>2
  <2> QED
    BY <2>1, <2>2
<1>13. status' = "search" /\ root = 1 => Unmarked(nodes', 1)
  BY <1>2, <1>3, <1>6, <1>7, <1>9, <1>10, Zenon DEF Unmarked
<1>14. ASSUME status' = "failed", root \in DOMAIN nodes', nodes'[root].is_root PROVE Initial \notin CanWin
  <2>1. root = 1
    BY <1>7, <1>14, RootIsFirst
  <2>2. 1 \notin S /\ frontier' = <<>>
    BY <2>1, <1>10, <1>14
  <2>3. ~nodes'[1].solved
    BY <2>2, <1>3, <1>7, <1>9
  <2>4. ~Unmarked(nodes', 1)
    BY <2>2, <1>3, <1>6, <1>7, <1>8, EmptyFrontier
  <2>5. nodes'[1].dead
    BY <2>3, <2>4 DEF Unmarked
  <2>6. MarkSound(nodes', 1) /\ nodes'[1].type = "Or" /\ nodes'[1].state = Initial
    BY <1>3, <1>6, <1>7 DEF Marked, IsTree, Placed
  <2> QED
    BY <2>5, <2>6 DEF MarkSound
<1>15. ASSUME status' = "solved" PROVE ClosedPolicy(policy') /\ (nodes'[root].is_root => Initial \in Known(policy'))
  <2>1. root \in DOMAIN nodes' /\ nodes'[root].solved /\ policy' = Extract(nodes', root)
    BY <1>1, <1>9, <1>11, <1>15
  <2>2. nodes'[root].is_root => root = 1
    BY <2>1, <1>7, RootIsFirst
  <2> QED
    BY <2>1, <2>2, <1>6, <1>7, PolicyIsClosed
<1>16. /\ IsTree(nodes)' /\ AllOpened(nodes, 0)' /\ Marked(nodes, 0, 0)' /\ IsFrontier(nodes, frontier, 0)'
       /\ CanWin' = CanWin /\ (ClosedPolicy(policy') => ClosedPolicy(policy)') /\ Known(policy)' = Known(policy')
  BY <1>1, <1>6, <1>7, <1>8, GraphStays
<1>17. (status = "search" /\ root = 1 => Unmarked(nodes, 1))'
  BY <1>1, <1>13 DEF Unmarked
<1>18. NoPolicyMeansNone'
  BY <1>1, <1>14, <1>16 DEF NoPolicyMeansNone, RootIsSet
<1>19. PolicyClosed'
  <2>1. status' = "solved" => ClosedPolicy(policy)' /\ (RootIsSet' => Initial \in Known(policy)')
    BY <1>1, <1>15, <1>16 DEF RootIsSet
  <2> QED
    BY <2>1, Zenon DEF PolicyClosed, ClosedPolicy, Known
<1> QED
  BY <1>1, <1>2, <1>11, <1>12, <1>16, <1>17, <1>18, <1>19 DEF SearchInv

\* A dead end and its ancestors are marked, and the search may end.
LEMMA DeadEndPreserves == SearchInv /\ DeadEnd => SearchInv'
<1> SUFFICES ASSUME SearchInv, DeadEnd PROVE SearchInv'
  OBVIOUS
<1> DEFINE h == Head(frontier)
           S == {i \in DOMAIN nodes' : nodes'[i].dead}
<1>1. /\ domain' = domain /\ root' = root /\ frontier' = Tail(frontier) /\ frontier # <<>> /\ status = "search"
      /\ nodes' = PropagateDead(nodes, h) /\ nodes[h].state \notin Goals
      /\ (\A a \in DOMAIN Actions : domain[nodes[h].state][a] = <<>>)
      /\ status' = Verdict(nodes', S, "failed", frontier') /\ policy' = policy
  BY DEF DeadEnd
<1>2. /\ domain \in [States -> [DOMAIN Actions -> Outcomes]] /\ policy \in Seq(States \X DOMAIN Actions)
      /\ IsTree(nodes) /\ AllOpened(nodes, 0) /\ Marked(nodes, 0, 0) /\ IsFrontier(nodes, frontier, 0)
      /\ root = 1 => Unmarked(nodes, 1)
  BY <1>1 DEF SearchInv
<1>3. nodes \in Seq(NodeType) /\ 1 \in DOMAIN nodes
  BY <1>2 DEF IsTree
<1>4. /\ h \in DOMAIN nodes /\ nodes[h].type = "Or" /\ nodes[h].children = <<>> /\ Unmarked(nodes, h)
      /\ IsFrontier(nodes, frontier', h)
  BY <1>1, <1>2, <1>3, FrontierHead
<1> HIDE DEF h, S
<1>5. nodes[h].state \notin CanWin
  BY <1>1, CanWinFacts
<1>6. PICK x : x.ns = nodes' /\ x.at = 0 /\ DeadUp(nodes, h, x)
  BY <1>1, <1>2, <1>4, <1>5, PropagateDeadFacts
<1>7. /\ SameTree(nodes', nodes) /\ Marked(nodes', 0, 0) /\ nodes'[h].dead
      /\ \A j \in DOMAIN nodes :
           /\ nodes'[j].solved <=> nodes[j].solved
           /\ nodes[j].children = <<>> /\ j # h => (nodes'[j].dead <=> nodes[j].dead)
  BY <1>6, Zenon DEF DeadUp
<1>8. IsTree(nodes') /\ AllOpened(nodes', 0) /\ DOMAIN nodes' = DOMAIN nodes
  BY <1>2, <1>7, TreeStays DEF SameTree
<1>9. IsFrontier(nodes', frontier', 0)
  <2>1. ~Unmarked(nodes', h)
    BY <1>7, Zenon DEF Unmarked
  <2>2. \A j \in DOMAIN nodes : nodes[j].children = <<>> /\ j # h => (Unmarked(nodes', j) <=> Unmarked(nodes, j))
    BY <1>7, Zenon DEF Unmarked
  <2> QED
    BY <2>1, <2>2, <1>3, <1>4, <1>7, FrontierMarked
<1>10. S \in SUBSET DOMAIN nodes' /\ \A i \in DOMAIN nodes' : i \in S <=> nodes'[i].dead
  BY DEF S
<1>11. /\ root \notin DOMAIN nodes' => status' = "undefined"
       /\ root \in DOMAIN nodes' /\ root \in S => status' = "failed"
       /\ root \in DOMAIN nodes' /\ root \notin S => status' = IF frontier' = <<>> THEN "failed" ELSE "search"
  BY <1>1, <1>10, VerdictFacts, ZenonT(60)
<1>12. status' \in {"search", "failed", "undefined"}
  BY <1>11
<1>13. status' = "search" /\ root = 1 => Unmarked(nodes', 1)
  BY <1>2, <1>3, <1>7, <1>8, <1>10, <1>11, Zenon DEF Unmarked
<1>14. ASSUME status' = "failed", root \in DOMAIN nodes', nodes'[root].is_root PROVE Initial \notin CanWin
  <2>1. root = 1
    BY <1>8, <1>14, RootIsFirst
  <2>2. nodes'[1].dead
    <3>1. CASE 1 \in S
      BY <3>1, <1>3, <1>8, <1>10
    <3>2. CASE 1 \notin S
      <4>1. frontier' = <<>>
        BY <3>2, <2>1, <1>11, <1>14
      <4>2. ~Unmarked(nodes', 1)
        BY <4>1, <1>3, <1>7, <1>8, <1>9, EmptyFrontier
      <4>3. ~nodes'[1].solved
        BY <2>1, <1>2, <1>3, <1>7, Zenon DEF Unmarked
      <4> QED
        BY <4>2, <4>3 DEF Unmarked
    <3> QED
      BY <3>1, <3>2
  <2>3. MarkSound(nodes', 1) /\ nodes'[1].type = "Or" /\ nodes'[1].state = Initial
    BY <1>3, <1>7, <1>8 DEF Marked, IsTree, Placed
  <2> QED
    BY <2>2, <2>3 DEF MarkSound
<1>15. /\ IsTree(nodes)' /\ AllOpened(nodes, 0)' /\ Marked(nodes, 0, 0)' /\ IsFrontier(nodes, frontier, 0)'
       /\ CanWin' = CanWin
  BY <1>1, <1>7, <1>8, <1>9, GraphStays
<1>16. (status = "search" /\ root = 1 => Unmarked(nodes, 1))'
  BY <1>1, <1>13 DEF Unmarked
<1>17. NoPolicyMeansNone'
  BY <1>1, <1>14, <1>15 DEF NoPolicyMeansNone, RootIsSet
<1>18. PolicyClosed'
  BY <1>12 DEF PolicyClosed
<1> QED
  BY <1>1, <1>2, <1>12, <1>15, <1>16, <1>17, <1>18 DEF SearchInv

\* A node is expanded with all of its actions.
LEMMA ExpandPreserves == SearchInv /\ Expand => SearchInv'
<1> SUFFICES ASSUME SearchInv, Expand PROVE SearchInv'
  OBVIOUS
<1> DEFINE h == Head(frontier)
           g == GrowAll(h)
           base == [nodes |-> nodes, frontier |-> Tail(frontier)]
<1>1. /\ domain' = domain /\ root' = root /\ frontier # <<>> /\ status = "search" /\ status' = status
      /\ nodes[h].state \notin Goals /\ (\E a \in DOMAIN Actions : domain[nodes[h].state][a] # <<>>)
      /\ nodes' = g.nodes /\ frontier' = g.frontier /\ policy' = policy
  BY DEF Expand
<1>2. /\ domain \in [States -> [DOMAIN Actions -> Outcomes]] /\ policy \in Seq(States \X DOMAIN Actions)
      /\ IsTree(nodes) /\ AllOpened(nodes, 0) /\ Marked(nodes, 0, 0) /\ IsFrontier(nodes, frontier, 0)
      /\ root = 1 => Unmarked(nodes, 1)
  BY <1>1 DEF SearchInv
<1>3. nodes \in Seq(NodeType) /\ 1 \in DOMAIN nodes
  BY <1>2 DEF IsTree
<1>4. /\ h \in DOMAIN nodes /\ nodes[h].type = "Or" /\ nodes[h].children = <<>> /\ Unmarked(nodes, h)
      /\ IsFrontier(nodes, Tail(frontier), h)
  BY <1>1, <1>2, <1>3, FrontierHead
<1> HIDE DEF h, g
<1>5. Growing(base, h, 0)
  <2>1. Tail(frontier) \in Seq(Nat)
    <3>1. DOMAIN nodes \subseteq Nat
      BY <1>3, NodeFields
    <3>2. Tail(frontier) \in Seq(DOMAIN nodes)
      BY <1>4 DEF IsFrontier
    <3> QED
      BY <3>1, <3>2, SeqWider
  <2>2. base.nodes = nodes /\ base.frontier = Tail(frontier) /\ base \in GraphType
    BY <2>1, <1>3 DEF GraphType
  <2> HIDE DEF base
  <2>3. Children(nodes, h) = {}
    BY <1>3, <1>4, NodeFields
  <2>4. Opened(nodes, h, 0)
    BY <1>1 DEF Opened
  <2>5. AllOpened(nodes, h)
    <3>1. \A j \in DOMAIN nodes : j # 0
      BY <1>3, NodeFields
    <3> QED
      BY <3>1, <1>2 DEF AllOpened
  <2> QED
    BY <2>2, <2>3, <2>4, <2>5, <1>2, <1>4 DEF Growing
<1> HIDE DEF base
<1>6. Growing(g, h, Len(Actions)) /\ g.nodes[h].state = nodes[h].state /\ (Unmarked(nodes, 1) => Unmarked(g.nodes, 1))
  BY <1>2, <1>5, GrowAllFacts DEF g, base
<1>7. AllOpened(nodes', 0) /\ IsFrontier(nodes', frontier', 0)
  BY <1>1, <1>6, GrowingDone
<1>8. IsTree(nodes') /\ Marked(nodes', 0, 0) /\ (root = 1 => Unmarked(nodes', 1))
  BY <1>1, <1>2, <1>6 DEF Growing
<1>9. IsTree(nodes)' /\ AllOpened(nodes, 0)' /\ Marked(nodes, 0, 0)' /\ IsFrontier(nodes, frontier, 0)'
  BY <1>1, <1>7, <1>8, GraphStays
<1>10. (status = "search" /\ root = 1 => Unmarked(nodes, 1))'
  BY <1>1, <1>8 DEF Unmarked
<1>11. NoPolicyMeansNone' /\ PolicyClosed'
  BY <1>1 DEF NoPolicyMeansNone, PolicyClosed
<1> QED
  BY <1>1, <1>2, <1>9, <1>10, <1>11 DEF SearchInv

\* The search starts from the root alone.
LEMMA InitialSearch == SearchInit => SearchInv
<1> SUFFICES ASSUME SearchInit PROVE SearchInv
  OBVIOUS
<1> DEFINE n == OrNode(Initial, 0, TRUE)
<1>1. /\ domain \in [States -> [DOMAIN Actions -> Outcomes]] /\ nodes = <<n>> /\ frontier = <<1>>
      /\ status = "search" /\ policy = <<>>
  BY DEF SearchInit
<1>2. /\ n.type = "Or" /\ n.state = Initial /\ n.parent = 0 /\ n.is_root = TRUE /\ n.dead = FALSE
      /\ n.solved = FALSE /\ n.children = <<>>
  BY DEF OrNode
<1>3. n \in NodeType
  <2>1. <<>> \in Seq(Nat) /\ 0 \in 0 .. Len(Actions) /\ Initial \in States
    BY SearchAssumption
  <2> QED
    BY <2>1 DEF OrNode, NodeType
<1> HIDE DEF n, NodeType
<1>4. nodes \in Seq(NodeType) /\ DOMAIN nodes = {1} /\ nodes[1] = n
  BY <1>1, <1>3
<1>5. Children(nodes, 1) = {}
  <2>1. 1 \in DOMAIN nodes
    BY <1>4
  <2> QED
    BY <2>1, <1>2, <1>4, NodeFields
<1>6. Placed(nodes, 1) /\ Branched(nodes, 1) /\ Acted(nodes, 1)
  <2>1. DOMAIN <<>> = {}
    OBVIOUS
  <2> QED
    BY <2>1, <1>2, <1>4, <1>5 DEF Placed, Branched, Acted
<1>7. IsTree(nodes)
  BY <1>4, <1>6 DEF IsTree
<1>8. AllOpened(nodes, 0)
  BY <1>2, <1>4 DEF AllOpened
<1>9. Unmarked(nodes, 1)
  BY <1>2, <1>4 DEF Unmarked
<1>10. Marked(nodes, 0, 0)
  <2>1. AllMarked(nodes, 0, 0)
    BY <1>2, <1>4 DEF AllMarked
  <2>2. MarkSound(nodes, 1) /\ Justified(nodes, 1)
    BY <1>2, <1>4 DEF MarkSound, Justified
  <2> QED
    BY <2>1, <2>2, <1>4 DEF Marked
<1>11. IsFrontier(nodes, frontier, 0)
  <2> DEFINE D == DOMAIN nodes
             f == frontier
  <2>1. 1 \in D /\ D = {1}
    BY <1>4
  <2> HIDE DEF D
  <2>2. f \in Seq(D) /\ DOMAIN f = {1} /\ f[1] = 1
    BY <2>1, <1>1
  <2>3. ToSet(f) = {f[k] : k \in {1}}
    BY <2>2, Zenon DEF ToSet
  <2> HIDE DEF f
  <2>4. ToSet(f) = {1} /\ \A k, l \in DOMAIN f : f[k] = f[l] => k = l
    BY <2>2, <2>3
  <2> QED
    BY <2>1, <2>2, <2>4, <1>2, <1>4, <1>9 DEF IsFrontier, D, f
<1>12. policy \in Seq(States \X DOMAIN Actions)
  <2> DEFINE E == States \X DOMAIN Actions
  <2> HIDE DEF E
  <2>1. policy \in Seq(E)
    BY <1>1
  <2> QED
    BY <2>1 DEF E
<1>13. NoPolicyMeansNone /\ PolicyClosed
  BY <1>1 DEF NoPolicyMeansNone, PolicyClosed
<1> QED
  BY <1>1, <1>7, <1>8, <1>9, <1>10, <1>11, <1>12, <1>13 DEF SearchInv

\* A step that changes nothing.
LEMMA SearchStutters == SearchInv /\ UNCHANGED searchVars => SearchInv'
<1> SUFFICES ASSUME SearchInv, UNCHANGED searchVars PROVE SearchInv'
  OBVIOUS
<1>1. /\ domain' = domain /\ nodes' = nodes /\ root' = root /\ frontier' = frontier /\ status' = status
      /\ policy' = policy
  BY DEF searchVars
<1>2. IsTree(nodes)' /\ AllOpened(nodes, 0)' /\ Marked(nodes, 0, 0)' /\ IsFrontier(nodes, frontier, 0)' /\ CanWin' = CanWin
  <2>1. IsTree(nodes') /\ AllOpened(nodes', 0) /\ Marked(nodes', 0, 0) /\ IsFrontier(nodes', frontier', 0)
    BY <1>1 DEF SearchInv
  <2> QED
    BY <2>1, <1>1, GraphStays
<1>3. (status = "search" /\ root = 1 => Unmarked(nodes, 1))'
  BY <1>1 DEF SearchInv, Unmarked
<1>4. NoPolicyMeansNone'
  BY <1>1, <1>2 DEF SearchInv, NoPolicyMeansNone, RootIsSet
<1>5. PolicyClosed'
  BY <1>1, Zenon DEF SearchInv, PolicyClosed, RootIsSet
<1> QED
  BY <1>1, <1>2, <1>3, <1>4, <1>5 DEF SearchInv

\* The invariant of the search: the graph is a tree, its marks are sound and
\* none is missing, and the frontier holds the nodes that are still open.
THEOREM SearchInvariant == SearchSpec => []SearchInv
<1>1. SearchInit => SearchInv
  BY InitialSearch
<1>2. SearchInv /\ [SearchNext]_searchVars => SearchInv'
  BY FoundGoalPreserves, DeadEndPreserves, ExpandPreserves, SearchStutters DEF SearchNext
<1> QED
  BY <1>1, <1>2, PTL DEF SearchSpec

\* What the invariant says of the marks and of the answers.
LEMMA SearchSoundFromInv == SearchInv => SearchSound
<1> SUFFICES ASSUME SearchInv PROVE SearchSound
  OBVIOUS
<1>1. /\ domain \in [States -> [DOMAIN Actions -> Outcomes]] /\ policy \in Seq(States \X DOMAIN Actions)
      /\ status \in {"search", "solved", "failed", "undefined"} /\ NoPolicyMeansNone
      /\ IsTree(nodes) /\ Marked(nodes, 0, 0) /\ IsFrontier(nodes, frontier, 0)
  BY DEF SearchInv
<1>2. nodes \in Seq(NodeType)
  BY <1>1 DEF IsTree
<1>3. ASSUME NEW i \in DOMAIN nodes PROVE nodes[i].parent < i /\ \A j \in ToSet(nodes[i].children) : nodes[j].parent = i
  <2>1. i \in Nat /\ i # 0
    BY <1>2, NodeFields
  <2>2. \A j \in ToSet(nodes[i].children) : nodes[j].parent = i
    BY <1>1, TreeFacts DEF Children
  <2>3. nodes[i].parent < i
    <3>1. CASE i = 1
      BY <3>1, <1>1 DEF IsTree, Placed
    <3>2. CASE i # 1
      BY <3>2, <1>1, TreeFacts
    <3> QED
      BY <3>1, <3>2
  <2> QED
    BY <2>2, <2>3
<1>4. ToSet(frontier) \subseteq DOMAIN nodes
  <2> DEFINE D == DOMAIN nodes
  <2>1. frontier \in Seq(D)
    BY <1>1 DEF IsFrontier
  <2> HIDE DEF D
  <2>2. ToSet(frontier) \subseteq D
    BY <2>1, SeqWider
  <2> QED
    BY <2>2 DEF D
<1>5. SearchTypeOK
  BY <1>1, <1>2, <1>3, <1>4, Zenon DEF SearchTypeOK
<1>6. MarksSound
  BY <1>1, Zenon DEF Marked, MarkSound, MarksSound
<1> QED
  BY <1>1, <1>5, <1>6 DEF SearchSound

\* find_policy marks a node solved only if the goal can be forced from it and
\* dead only if it cannot, and with the root in place it gives up only on
\* problems without a solution: for every domain and every number of nodes.
THEOREM SearchIsSound == SearchSpec => []SearchSound
BY SearchInvariant, SearchSoundFromInv, PTL

\* A policy that extract_policy makes, from whatever solved node Graph::root
\* points to, is closed: each outcome the planner has computed for an entry's
\* action is a goal or the state of an entry.  If that node is the root, the
\* first state is among them.  (Nothing is said of execution, whose states
\* Domain::perform_action makes without shift and split.)
THEOREM PoliciesAreClosed == SearchSpec => []PolicyClosed
<1>1. SearchInv => PolicyClosed
  BY DEF SearchInv
<1> QED
  BY <1>1, SearchInvariant, PTL
===============================================================================
