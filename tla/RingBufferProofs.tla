--------------------------- MODULE RingBufferProofs ---------------------------
(***************************************************************************)
(* The RingBuffer and the two parts of the system that it connects threads *)
(* in.  The person tracker, called by one thread or behind its worker      *)
(* thread, for any names, any number of persons and any settings of its    *)
(* counters: what a percept says identifies a person, and what passes      *)
(* between the threads is whole but for the exceptions HandoversWhole      *)
(* names.  The sentences that wait to be said, for a ring of any size:     *)
(* they are said in order, and lost only at the limit.                     *)
(* And, of the same module, the trajectories: the joints follow them.      *)
(***************************************************************************)
EXTENDS PersonAsync, Nao, ArithmeticLemmas, FiniteSetTheorems, SequenceTheorems

-----------------------------------------------------------------------------
(* Erasing elements of a vector                                            *)

\* The elements of a set of indices can be put in order.
LEMMA IncreasingExists ==
  ASSUME NEW n \in Nat, NEW S \in SUBSET (1 .. n)
  PROVE  Increasing(S) # {} /\ Cardinality(S) \in Nat
<1> DEFINE T == {k \in Nat : \A R \in SUBSET (1 .. k) : Increasing(R) # {}}
<1>1. ASSUME NEW k \in Nat, NEW R \in SUBSET (1 .. k)
      PROVE  IsFiniteSet(R) /\ Cardinality(R) \in Nat
  <2>1. IsFiniteSet(1 .. k)
    BY FS_Interval
  <2>2. IsFiniteSet(R)
    BY <2>1, FS_Subset
  <2> QED
    BY <2>2, FS_CardinalityType
<1>2. 0 \in T
  <2>0. \A R \in SUBSET (1 .. 0) : R = {}
    OBVIOUS
  <2>1. Cardinality({}) = 0
    BY FS_EmptySet
  <2>2. <<>> \in SetToSeqs({})
    BY <2>1 DEF SetToSeqs
  <2>3. Increasing({}) # {}
    BY <2>2 DEF Increasing
  <2> QED
    BY <2>0, <2>3
<1>3. ASSUME NEW k \in T PROVE k + 1 \in T
  <2> SUFFICES ASSUME NEW R \in SUBSET (1 .. k + 1) PROVE Increasing(R) # {}
    OBVIOUS
  <2> DEFINE Q == R \ {k + 1}
             c == Cardinality(Q)
  <2>1. Q \in SUBSET (1 .. k) /\ k \in Nat
    OBVIOUS
  <2>2. PICK g : g \in Increasing(Q)
    BY <2>1
  <2> HIDE DEF T
  <2>3. /\ c \in Nat /\ g \in [1 .. c -> Q]
        /\ \A i, j \in 1 .. c : i # j => g[i] # g[j]
        /\ \A i, j \in 1 .. c : i < j => g[i] < g[j]
    BY <1>1, <2>1, <2>2 DEF Increasing, SetToSeqs
  <2>4. CASE k + 1 \notin R
    <3>1. Q = R
      BY <2>4
    <3> QED
      BY <2>2, <3>1
  <2>5. CASE k + 1 \in R
    <3>1. Q \cup {k + 1} = R /\ IsFiniteSet(Q)
      BY <1>1, <2>1, <2>5
    <3>2. Cardinality(R) = c + 1
      BY <3>1, FS_AddElement
    <3> HIDE DEF c
    <3> DEFINE f == [i \in 1 .. c + 1 |-> IF i <= c THEN g[i] ELSE k + 1]
    <3>3. f \in [1 .. c + 1 -> R]
      BY <2>3, <2>5
    <3>4. ASSUME NEW i \in 1 .. c + 1, NEW j \in 1 .. c + 1, i < j PROVE f[i] < f[j]
      <4>1. /\ i \in 1 .. c /\ (j \in 1 .. c => g[i] < g[j])
            /\ f[i] = g[i] /\ f[j] = IF j <= c THEN g[j] ELSE k + 1
        BY <2>3, <3>4
      <4>2. g[i] \in 1 .. k
        BY <2>1, <2>3, <4>1
      <4> QED
        BY <2>1, <2>3, <4>1, <4>2
    <3>5. \A i, j \in 1 .. c + 1 : i # j => f[i] # f[j]
      <4> HIDE DEF f
      <4>1. \A i \in 1 .. c + 1 : f[i] \in Nat
        <5>1. R \subseteq Nat
          BY <2>1
        <5> QED
          BY <3>3, <5>1
      <4>2. SUFFICES ASSUME NEW i \in 1 .. c + 1, NEW j \in 1 .. c + 1, i # j PROVE f[i] # f[j]
        OBVIOUS
      <4>3. i < j \/ j < i
        BY <2>3, <4>2
      <4>4. f[i] < f[j] \/ f[j] < f[i]
        BY <3>4, <4>3
      <4> QED
        BY <4>1, <4>4
    <3> HIDE DEF f
    <3>6. f \in SetToSeqs(R)
      BY <3>2, <3>3, <3>5 DEF SetToSeqs
    <3>7. f \in Increasing(R)
      BY <3>3, <3>4, <3>6 DEF Increasing
    <3> QED
      BY <3>7
  <2> QED
    BY <2>4, <2>5
<1> HIDE DEF T
<1>4. T = Nat
  <2>1. T \in SUBSET Nat
    BY DEF T
  <2> QED
    BY <1>2, <1>3, <2>1, SetInduction
<1> QED
  BY <1>1, <1>4 DEF T

\* The elements that Kept keeps, by their places.
Selects(f, S, n, seq, kept) ==
  /\ f \in [1 .. n -> S]
  /\ \A i, j \in 1 .. n : i < j => f[i] < f[j]
  /\ \A i, j \in 1 .. n : i # j => f[i] # f[j]
  /\ \A s \in S : \E i \in 1 .. n : f[i] = s
  /\ \A i \in 1 .. n : kept[i] = seq[f[i]]

\* What erase leaves: elements of the vector, in their order.
LEMMA KeptProperties ==
  ASSUME NEW X, NEW seq \in Seq(X), NEW S \in SUBSET DOMAIN seq
  PROVE  /\ Kept(seq, S) \in Seq(X) /\ DOMAIN Kept(seq, S) = 1 .. Cardinality(S) /\ Cardinality(S) \in Nat
         /\ \E f : Selects(f, S, Cardinality(S), seq, Kept(seq, S))
<1> DEFINE f == CHOOSE g \in Increasing(S) : TRUE
           n == Cardinality(S)
<1>1. DOMAIN seq = 1 .. Len(seq) /\ Len(seq) \in Nat
  OBVIOUS
<1>2. f \in Increasing(S) /\ n \in Nat
  BY <1>1, IncreasingExists
<1>3. Kept(seq, S) = [i \in 1 .. n |-> seq[f[i]]]
  BY DEF Kept
<1> HIDE DEF f, n
<1>4. /\ f \in [1 .. n -> S]
      /\ \A i, j \in 1 .. n : i # j => f[i] # f[j]
      /\ \A i, j \in 1 .. n : i < j => f[i] < f[j]
  BY <1>2 DEF Increasing, SetToSeqs, n
<1>5. \A i \in 1 .. n : seq[f[i]] \in X
  BY <1>4
<1>6. Kept(seq, S) \in Seq(X)
  BY <1>2, <1>3, <1>5
<1>7. \A s \in S : \E i \in 1 .. n : f[i] = s
  <2>1. f \in Injection(1 .. n, S)
    BY <1>4 DEF Injection, IsInjective
  <2>2. IsFiniteSet(1 .. Len(seq)) /\ Cardinality(1 .. n) = n
    BY <1>1, <1>2, FS_Interval
  <2>3. IsFiniteSet(S)
    BY <1>1, <2>2, FS_Subset
  <2>4. f \in Surjection(1 .. n, S)
    BY <2>1, <2>2, <2>3, FS_Injection DEF n
  <2> QED
    BY <2>4 DEF Surjection
<1>8. Selects(f, S, n, seq, Kept(seq, S))
  BY <1>3, <1>4, <1>7 DEF Selects
<1>9. DOMAIN Kept(seq, S) = 1 .. n
  BY <1>3
<1> QED
  BY <1>2, <1>6, <1>8, <1>9 DEF n

\* Where erase leaves an element: those before it that are kept come first.
LEMMA KeptPlace ==
  ASSUME NEW X, NEW seq \in Seq(X), NEW S \in SUBSET DOMAIN seq, NEW i \in S, NEW B,
         B = {j \in 1 .. i - 1 : j \in S}
  PROVE  Cardinality(B) + 1 \in DOMAIN Kept(seq, S) /\ Kept(seq, S)[Cardinality(B) + 1] = seq[i]
<1> DEFINE n == Cardinality(S)
           q == Kept(seq, S)
<1>1. DOMAIN q = 1 .. n /\ n \in Nat /\ \E f : Selects(f, S, n, seq, q)
  BY KeptProperties
<1>2. PICK f : Selects(f, S, n, seq, q)
  BY <1>1
<1> HIDE DEF n, q
<1>3. S \subseteq Nat \ {0} /\ i \in Nat
  <2>1. DOMAIN seq = 1 .. Len(seq) /\ Len(seq) \in Nat
    OBVIOUS
  <2> QED
    BY <2>1
<1>4. /\ f \in [1 .. n -> S]
      /\ \A h, j \in 1 .. n : h < j => f[h] < f[j]
      /\ \A h, j \in 1 .. n : h # j => f[h] # f[j]
      /\ \A s \in S : \E j \in 1 .. n : f[j] = s
      /\ \A j \in 1 .. n : q[j] = seq[f[j]]
  BY <1>2 DEF Selects
<1>5. PICK k \in 1 .. n : f[k] = i
  BY <1>4
<1> DEFINE g == [h \in 1 .. k - 1 |-> f[h]]
<1>6. k \in Nat /\ k - 1 \in Nat /\ \A h \in 1 .. k - 1 : h \in 1 .. n /\ h < k
  BY <1>1
<1>7. \A h \in 1 .. n : f[h] \in Nat \ {0} /\ f[h] \in S
  BY <1>3, <1>4
<1>8. g \in [1 .. k - 1 -> B]
  <2>1. ASSUME NEW h \in 1 .. k - 1 PROVE f[h] \in B
    <3>1. f[h] < i /\ f[h] \in Nat \ {0} /\ f[h] \in S
      BY <1>4, <1>5, <1>6, <1>7
    <3> QED
      BY <1>3, <3>1
  <2> QED
    BY <2>1
<1>9. \A h, j \in 1 .. k - 1 : h # j => g[h] # g[j]
  BY <1>4, <1>6
<1>10. \A b \in B : \E h \in 1 .. k - 1 : g[h] = b
  <2> SUFFICES ASSUME NEW b \in B PROVE \E h \in 1 .. k - 1 : g[h] = b
    OBVIOUS
  <2>1. b \in S /\ b < i /\ b \in Nat
    BY <1>3
  <2>2. PICK h \in 1 .. n : f[h] = b
    BY <1>4, <2>1
  <2>3. ~(k <= h)
    <3>1. SUFFICES ASSUME k <= h PROVE FALSE
      OBVIOUS
    <3>2. k = h \/ k < h
      BY <1>1, <3>1
    <3>3. k < h => i < b
      BY <1>4, <1>5, <2>2
    <3> QED
      BY <1>3, <1>5, <2>1, <2>2, <3>2, <3>3
  <2>4. h \in 1 .. k - 1
    BY <1>1, <2>3
  <2> QED
    BY <2>2, <2>4
<1> HIDE DEF g
<1>11. g \in Bijection(1 .. k - 1, B)
  BY <1>8, <1>9, <1>10 DEF Bijection, Injection, Surjection, IsInjective
<1>12. IsFiniteSet(1 .. k - 1) /\ Cardinality(1 .. k - 1) = k - 1
  BY <1>6, FS_Interval
<1>13. Cardinality(B) = k - 1
  BY <1>11, <1>12, FS_Bijection DEF ExistsBijection
<1> QED
  BY <1>1, <1>4, <1>5, <1>6, <1>13 DEF q

-----------------------------------------------------------------------------
(* The tracker                                                             *)

Limit(p) == IF p.hypothesis THEN LOCK_COUNTER ELSE LOSE_COUNTER

\* update_person keeps the identity of a person; a name comes from the scan.
LEMMA UpdatedFields ==
  ASSUME NEW p \in Person, p.timeout_counter <= Limit(p), NEW scan \in Names \cup {NoName, NoFace}
  PROVE  /\ Updated(p, scan) \in Person
         /\ Updated(p, scan).id = p.id
         /\ Updated(p, scan).name = IF scan = NoFace THEN p.name ELSE scan
         /\ Updated(p, scan).timeout_counter <= Limit(Updated(p, scan))
<1> DEFINE u == Updated(p, scan)
<1>1. LOSE_COUNTER \in Nat
  BY TrackerAssumption
<1>2. /\ p.id \in Ids /\ p.name \in Names \cup {NoName} /\ p.should_delete \in BOOLEAN /\ p.timeout_counter \in Nat
      /\ p.sightings_counter \in Nat /\ p.hypothesis \in BOOLEAN
  BY DEF Person
<1>3. /\ u.id = p.id /\ u.should_delete = p.should_delete /\ u.hypothesis = p.hypothesis
      /\ u.name = IF scan = NoFace THEN p.name ELSE scan
      /\ u.timeout_counter = IF p.hypothesis THEN p.timeout_counter ELSE LOSE_COUNTER
      /\ u.sightings_counter = IF p.hypothesis THEN p.sightings_counter + 1 ELSE p.sightings_counter
  BY DEF Updated, Person
<1>4. u \in Person
  <2> DEFINE s == IF p.hypothesis THEN p.sightings_counter + 1 ELSE p.sightings_counter
             c == IF p.hypothesis THEN p.timeout_counter ELSE LOSE_COUNTER
             m == IF scan = NoFace THEN p.name ELSE scan
  <2>1. u = [p EXCEPT !.sightings_counter = s, !.timeout_counter = c, !.name = m]
    BY DEF Updated
  <2>2. s \in Nat /\ c \in Nat /\ m \in Names \cup {NoName}
    BY <1>1, <1>2
  <2> HIDE DEF u, s, c, m
  <2> QED
    BY <2>1, <2>2 DEF Person
<1> QED
  BY <1>1, <1>2, <1>3, <1>4 DEF Limit

\* So does tick, for one person.
LEMMA TickedFields ==
  ASSUME NEW p \in Person, p.timeout_counter <= Limit(p)
  PROVE  /\ Ticked(p) \in Person
         /\ Ticked(p).id = p.id
         /\ Ticked(p).name = p.name
         /\ Ticked(p).timeout_counter <= Limit(Ticked(p))
<1> DEFINE locks == p.hypothesis /\ p.sightings_counter >= SIGHTINGS_TO_LOCK
           counter == IF locks THEN LOSE_COUNTER ELSE p.timeout_counter
           t == Ticked(p)
<1>1. LOSE_COUNTER \in Nat /\ LOCK_COUNTER \in Nat /\ SIGHTINGS_TO_LOCK \in Nat
  BY TrackerAssumption
<1>2. /\ p.id \in Ids /\ p.name \in Names \cup {NoName} /\ p.should_delete \in BOOLEAN /\ p.timeout_counter \in Nat
      /\ p.sightings_counter \in Nat /\ p.hypothesis \in BOOLEAN
  BY DEF Person
<1>3. /\ t.id = p.id /\ t.name = p.name /\ t.hypothesis = (p.hypothesis /\ ~locks)
      /\ t.timeout_counter = IF counter > 0 THEN counter - 1 ELSE 0
  BY DEF Ticked, Person
<1>4. counter \in Nat /\ (p.hypothesis /\ ~locks) \in BOOLEAN
  BY <1>1, <1>2
<1>5. t \in Person
  <2> DEFINE h == p.hypothesis /\ ~locks
             c == IF counter > 0 THEN counter - 1 ELSE 0
  <2>1. t = [p EXCEPT !.hypothesis = h, !.timeout_counter = c]
    BY DEF Ticked
  <2>2. h \in BOOLEAN /\ c \in Nat
    BY <1>4
  <2> HIDE DEF h, c, t
  <2> QED
    BY <2>1, <2>2 DEF Person
<1>6. t.timeout_counter <= Limit(t)
  <2>1. t.timeout_counter <= counter /\ t.hypothesis = (p.hypothesis /\ ~locks)
    BY <1>1, <1>2, <1>3, <1>4
  <2>2. counter <= (IF p.hypothesis /\ ~locks THEN LOCK_COUNTER ELSE LOSE_COUNTER)
    BY <1>1, <1>2 DEF Limit
  <2>3. t.timeout_counter \in Nat
    BY <1>5 DEF Person
  <2> QED
    <3>1. Limit(t) = IF p.hypothesis /\ ~locks THEN LOCK_COUNTER ELSE LOSE_COUNTER
      BY <2>1 DEF Limit
    <3>2. Limit(t) \in Nat /\ counter <= Limit(t)
      BY <1>1, <2>2, <3>1
    <3> HIDE DEF counter, locks, t
    <3> QED
      BY <1>4, <2>1, <2>3, <3>2
<1> QED
  BY <1>3, <1>5, <1>6

\* What the invariant says of a list of persons.
PersonsSound(ps, next) ==
  /\ ps \in Seq(Person)
  /\ \A i \in DOMAIN ps : ps[i].timeout_counter <= Limit(ps[i])
  /\ \A i, j \in DOMAIN ps : i # j => ps[i].id # ps[j].id
  /\ \A i \in DOMAIN ps : ps[i].id < next
  /\ \A i \in DOMAIN ps :
       ps[i].name # NoName => \E k \in DOMAIN known_persons : known_persons[k].name = ps[i].name

\* After update the list has the old persons and the new hypotheses.
LEMMA AfterUpdateSound ==
  ASSUME TrackerInv, NEW scan \in Scans, NEW unused \in Unused
  PROVE  /\ PersonsSound(AfterUpdate(scan, unused), next_id + unused)
         /\ Len(AfterUpdate(scan, unused)) = Len(persons) + unused
         /\ \A i \in DOMAIN persons : AfterUpdate(scan, unused)[i].id = persons[i].id
<1> DEFINE n == Len(persons)
           old == [i \in DOMAIN persons |-> IF i \in DOMAIN scan THEN Updated(persons[i], scan[i]) ELSE persons[i]]
           new == [i \in 1 .. unused |-> Hypothesis(i)]
           a == AfterUpdate(scan, unused)
<1>1. /\ n \in Nat /\ DOMAIN persons = 1 .. n
      /\ \A i \in 1 .. n : persons[i] \in Person /\ persons[i].id \in Ids
      /\ next_id \in 1 .. MaxId + 1 /\ MaxId \in Nat
  <2>1. persons \in Seq(Person) /\ next_id \in 1 .. MaxId + 1
    BY DEF TrackerInv, IdentitiesSound, TrackerTypeOK
  <2>2. MaxId \in Nat
    BY TrackerAssumption
  <2>3. \A p \in Person : p.id \in Ids
    BY DEF Person
  <2> QED
    BY <2>1, <2>2, <2>3
<1>2. unused \in Nat /\ next_id + unused <= MaxId + 1
  BY <1>1 DEF Unused
<1>3. ASSUME NEW i \in DOMAIN scan
      PROVE  i \in DOMAIN persons /\ scan[i] \in Names \cup {NoName, NoFace} /\ scan[i] \in ScanResults(persons[i])
  BY DEF Scans
<1>4. ASSUME NEW i \in 1 .. n
      PROVE  /\ persons[i].timeout_counter <= Limit(persons[i])
             /\ persons[i].id < next_id
             /\ persons[i].name # NoName => \E k \in DOMAIN known_persons : known_persons[k].name = persons[i].name
  BY <1>1, SMTT(60) DEF TrackerInv, IdentitiesSound, TrackerTypeOK, IdsUnique, NamesAreKnown, Limit
<1>5. ASSUME NEW i \in 1 .. n
      PROVE  /\ old[i] \in Person /\ old[i].id = persons[i].id
             /\ old[i].timeout_counter <= Limit(old[i])
             /\ old[i].name # NoName => \E k \in DOMAIN known_persons : known_persons[k].name = old[i].name
  <2>1. CASE i \notin DOMAIN scan
    BY <1>1, <1>4, <2>1
  <2>2. CASE i \in DOMAIN scan
    <3>1. old[i] = Updated(persons[i], scan[i])
      BY <1>1, <2>2
    <3>2. /\ Updated(persons[i], scan[i]) \in Person
          /\ Updated(persons[i], scan[i]).id = persons[i].id
          /\ Updated(persons[i], scan[i]).name = IF scan[i] = NoFace THEN persons[i].name ELSE scan[i]
          /\ Updated(persons[i], scan[i]).timeout_counter <= Limit(Updated(persons[i], scan[i]))
      BY <1>1, <1>3, <1>4, <2>2, UpdatedFields
    <3>3. scan[i] \in {NoFace, NoName} \cup Identifiable
      BY <1>3, <2>2 DEF ScanResults
    <3>4. scan[i] \in Identifiable => \E k \in DOMAIN known_persons : known_persons[k].name = scan[i]
      BY DEF Identifiable
    <3> HIDE DEF old
    <3> QED
      BY <1>4, <3>1, <3>2, <3>3, <3>4
  <2> QED
    BY <2>1, <2>2
<1>6. ASSUME NEW i \in 1 .. unused
      PROVE  /\ new[i] \in Person /\ new[i].id = next_id + i - 1
             /\ new[i].timeout_counter <= Limit(new[i]) /\ new[i].name = NoName
  <2>1. new[i] = [id |-> next_id + i - 1, name |-> NoName, should_delete |-> FALSE, timeout_counter |-> LOCK_COUNTER,
                  sightings_counter |-> 0, hypothesis |-> TRUE]
    BY DEF Hypothesis
  <2>2. next_id + i - 1 \in Ids /\ LOCK_COUNTER \in Nat
    BY <1>1, <1>2, TrackerAssumption DEF Ids
  <2> HIDE DEF new
  <2> QED
    BY <2>1, <2>2 DEF Person, Limit
<1>7. a = old \o new
  BY DEF AfterUpdate
<1>8. old \in Seq(Person) /\ Len(old) = n
  BY <1>1, <1>5
<1>9. new \in Seq(Person) /\ Len(new) = unused
  BY <1>2, <1>6
<1> HIDE DEF a, old, new
<1>10. /\ a \in Seq(Person) /\ Len(a) = n + unused /\ DOMAIN a = 1 .. n + unused
       /\ \A i \in 1 .. n + unused : a[i] = IF i <= n THEN old[i] ELSE new[i - n]
  <2> HIDE DEF n
  <2>1. /\ old \o new \in Seq(Person) /\ Len(old \o new) = Len(old) + Len(new)
        /\ \A i \in 1 .. Len(old) + Len(new) :
             (old \o new)[i] = IF i <= Len(old) THEN old[i] ELSE new[i - Len(old)]
    BY <1>8, <1>9, ConcatProperties
  <2> QED
    BY <1>7, <1>8, <1>9, <2>1
<1>11. ASSUME NEW i \in 1 .. n + unused
       PROVE  /\ a[i].timeout_counter <= Limit(a[i])
              /\ a[i].name # NoName => \E k \in DOMAIN known_persons : known_persons[k].name = a[i].name
              /\ a[i].id = IF i <= n THEN persons[i].id ELSE next_id + (i - n) - 1
              /\ a[i].id < next_id + unused
  <2>1. CASE i <= n
    <3>1. i \in 1 .. n /\ a[i] = old[i]
      BY <1>1, <1>2, <1>10, <2>1
    <3>2. persons[i].id < next_id /\ persons[i].id \in Int
      BY <1>1, <1>4, <3>1 DEF Ids
    <3> QED
      BY <1>1, <1>2, <1>5, <2>1, <3>1, <3>2
  <2>2. CASE ~(i <= n)
    <3>1. i - n \in 1 .. unused /\ a[i] = new[i - n]
      BY <1>1, <1>2, <1>10, <2>2
    <3> QED
      BY <1>1, <1>2, <1>6, <2>2, <3>1
  <2> QED
    BY <2>1, <2>2
<1>12. ASSUME NEW i \in 1 .. n + unused, NEW j \in 1 .. n + unused, i # j PROVE a[i].id # a[j].id
  <2>1. \A k \in 1 .. n : persons[k].id < next_id /\ persons[k].id \in Int
    BY <1>1, <1>4 DEF Ids
  <2>2. \A k, m \in 1 .. n : k # m => persons[k].id # persons[m].id
    BY <1>1 DEF TrackerInv, IdentitiesSound, IdsUnique
  <2>3. /\ a[i].id = IF i <= n THEN persons[i].id ELSE next_id + (i - n) - 1
        /\ a[j].id = IF j <= n THEN persons[j].id ELSE next_id + (j - n) - 1
    BY <1>11
  <2> QED
    BY <1>1, <1>2, <1>12, <2>1, <2>2, <2>3
<1>13. \A i \in 1 .. n : i \in 1 .. n + unused /\ i <= n
  BY <1>1, <1>2
<1> QED
  BY <1>1, <1>10, <1>11, <1>12, <1>13 DEF PersonsSound, a

\* The persons that tick leaves are sound if all were, and so are their percepts.
LEMMA TickSound ==
  ASSUME NEW next, NEW before, PersonsSound(before, next), NEW ticked,
         ticked = [i \in DOMAIN before |-> Ticked(before[i])]
  PROVE  PersonsSound(ticked, next) /\ \A i \in DOMAIN before : ticked[i].id = before[i].id
<1>1. before \in Seq(Person) /\ DOMAIN before = 1 .. Len(before) /\ Len(before) \in Nat
  BY DEF PersonsSound
<1>2. ASSUME NEW i \in DOMAIN before
      PROVE  /\ ticked[i] \in Person /\ ticked[i].id = before[i].id /\ ticked[i].name = before[i].name
             /\ ticked[i].timeout_counter <= Limit(ticked[i])
  <2>1. before[i] \in Person /\ before[i].timeout_counter <= Limit(before[i])
    BY <1>1 DEF PersonsSound
  <2>2. ticked[i] = Ticked(before[i])
    OBVIOUS
  <2> QED
    BY <2>1, <2>2, TickedFields
<1>3. ticked \in Seq(Person) /\ DOMAIN ticked = DOMAIN before
  BY <1>1, <1>2
<1> QED
  BY <1>2, <1>3 DEF PersonsSound

\* Erasing keeps a list of persons sound.
LEMMA KeptSound ==
  ASSUME NEW next, NEW ps, PersonsSound(ps, next), NEW S \in SUBSET DOMAIN ps
  PROVE  /\ PersonsSound(Kept(ps, S), next)
         /\ \A i \in DOMAIN Kept(ps, S) : \E s \in S : Kept(ps, S)[i] = ps[s]
<1>1. ps \in Seq(Person)
  BY DEF PersonsSound
<1> DEFINE n == Cardinality(S)
           q == Kept(ps, S)
<1>2. q \in Seq(Person) /\ DOMAIN q = 1 .. n
  BY <1>1, KeptProperties
<1>3. PICK f \in [1 .. n -> S] :
        /\ \A i, j \in 1 .. n : i # j => f[i] # f[j]
        /\ \A i \in 1 .. n : q[i] = ps[f[i]]
  <2>1. \E f : Selects(f, S, n, ps, q)
    BY <1>1, KeptProperties
  <2> QED
    BY <2>1 DEF Selects
<1> HIDE DEF n, q
<1>4. \A i \in 1 .. n : f[i] \in DOMAIN ps
  BY <1>3
<1> QED
  BY <1>2, <1>3, <1>4 DEF PersonsSound, q

\* As long as nobody up to a place is erased, the persons up to it stay there.
LEMMA KeptBefore ==
  ASSUME NEW next, NEW ps, PersonsSound(ps, next), NEW S \in SUBSET DOMAIN ps, NEW i \in DOMAIN ps,
         \A g \in 1 .. i : \E j \in DOMAIN Kept(ps, S) : Kept(ps, S)[j].id = ps[g].id
  PROVE  i \in DOMAIN Kept(ps, S) /\ Kept(ps, S)[i] = ps[i]
<1>1. ps \in Seq(Person) /\ \A g, h \in DOMAIN ps : g # h => ps[g].id # ps[h].id
  BY DEF PersonsSound
<1>2. \A j \in DOMAIN Kept(ps, S) : \E s \in S : Kept(ps, S)[j] = ps[s]
  BY KeptSound
<1>3. i \in Nat \ {0} /\ \A g \in 1 .. i : g \in DOMAIN ps
  <2>1. DOMAIN ps = 1 .. Len(ps) /\ Len(ps) \in Nat
    BY <1>1
  <2> QED
    BY <2>1
<1>4. \A g \in 1 .. i : g \in S
  BY <1>1, <1>2, <1>3
<1> DEFINE B == {j \in 1 .. i - 1 : j \in S}
<1>5. B = 1 .. i - 1 /\ i \in S
  BY <1>3, <1>4
<1>6. Cardinality(B) = i - 1
  <2> DEFINE e == i - 1
  <2>1. e \in Nat /\ B = 1 .. e
    BY <1>3, <1>5
  <2> HIDE DEF e, B
  <2>2. Cardinality(1 .. e) = e
    BY ONLY <2>1, FS_Interval
  <2> QED
    BY <2>1, <2>2 DEF e
<1> HIDE DEF B
<1>7. Cardinality(B) + 1 \in DOMAIN Kept(ps, S) /\ Kept(ps, S)[Cardinality(B) + 1] = ps[i]
  BY <1>1, <1>5, KeptPlace DEF B
<1>8. Cardinality(B) + 1 = i
  BY <1>3, <1>6
<1> QED
  BY <1>7, <1>8

\* The invariant, in terms of PersonsSound.
TrackerParts ==
  /\ PersonsSound(persons, next_id)
  /\ \A i \in DOMAIN persons : persons[i].timeout_counter >= 1
  /\ known_persons \in Seq([name : Names, faces : SUBSET (0 .. MaxId)])
  /\ next_id \in 1 .. MaxId + 1
  /\ learning_buffer \in SUBSET Ids
  /\ learning_id \in 0 .. MaxId
  /\ published \in Seq(Published)
  /\ OnePerceptPerName /\ BufferInv /\ FacesInv

\* The invariant says no more and no less.
LEMMA TrackerInvParts == TrackerInv <=> TrackerParts
<1>1. LOSE_COUNTER \in Nat /\ LOCK_COUNTER \in Nat
  BY TrackerAssumption
<1>2. \A p \in Person : p.timeout_counter \in Nat
  BY DEF Person
<1>3. ASSUME persons \in Seq(Person), NEW i \in DOMAIN persons
      PROVE  persons[i].timeout_counter \in 1 .. (IF persons[i].hypothesis THEN LOCK_COUNTER ELSE LOSE_COUNTER)
               <=> persons[i].timeout_counter >= 1 /\ persons[i].timeout_counter <= Limit(persons[i])
  <2>1. persons[i].timeout_counter \in Nat
    BY <1>2, <1>3
  <2> QED
    BY <1>1, <2>1 DEF Limit
<1> QED
  BY <1>3 DEF TrackerInv, IdentitiesSound, TrackerTypeOK, IdsUnique, NamesAreKnown, PersonsSound, TrackerParts

LEMMA PlaceType == ASSUME NEW ps, NEW i \in Nat \ {0} PROVE Place(ps, i) \in Nat \ {0}
<1> DEFINE B == {j \in 1 .. i - 1 : Survives(ps[j])}
<1>1. IsFiniteSet(1 .. i - 1) /\ B \subseteq 1 .. i - 1
  BY FS_Interval
<1>2. Cardinality(B) \in Nat
  BY <1>1, FS_Subset, FS_CardinalityType
<1> QED
  BY <1>2 DEF Place

\* A frame keeps the invariant.
LEMMA ProcessInductive ==
  ASSUME TrackerInv, NEW scan \in Scans, NEW unused \in Unused, Process(scan, unused)
  PROVE  TrackerInv'
<1> DEFINE before == AfterUpdate(scan, unused)
           ticked == [i \in 1 .. Len(persons) + unused |-> Ticked(before[i])]
           percepts == [i \in DOMAIN ticked |->
                          [id |-> ticked[i].id, name |-> ticked[i].name, place |-> Place(ticked, i)]]
           S == {i \in DOMAIN ticked : Survives(ticked[i])}
           W == Publishes(ticked)
<1>1. /\ next_id' = next_id + unused /\ UNCHANGED <<known_persons, learning_id>>
      /\ persons' = Kept(ticked, S)
      /\ published' = Kept(percepts, W)
      /\ learning_buffer' = learning_buffer \cup FacesLearned(scan)
  BY DEF Process
<1>2. PersonsSound(before, next_id + unused) /\ Len(before) = Len(persons) + unused
  BY AfterUpdateSound
<1>3. DOMAIN ticked = DOMAIN before /\ ticked = [i \in DOMAIN before |-> Ticked(before[i])]
  BY <1>2 DEF PersonsSound
<1> HIDE DEF before, ticked
<1>4. PersonsSound(ticked, next_id + unused)
  BY <1>2, <1>3, TickSound
<1>5. /\ next_id \in 1 .. MaxId + 1 /\ learning_buffer \in SUBSET Ids /\ learning_id \in 0 .. MaxId
      /\ known_persons \in Seq([name : Names, faces : SUBSET (0 .. MaxId)])
      /\ BufferInv /\ FacesInv /\ PersonsSound(persons, next_id)
  BY TrackerInvParts DEF TrackerParts
<1>6. next_id' \in 1 .. MaxId + 1
  <2>1. MaxId \in Nat /\ unused \in 0 .. MaxId + 1 - next_id
    BY TrackerAssumption DEF Unused
  <2> QED
    BY <1>1, <1>5, <2>1
<1>7. /\ PersonsSound(persons', next_id')
      /\ \A i \in DOMAIN persons' : \E s \in S : persons'[i] = ticked[s]
  <2>1. S \in SUBSET DOMAIN ticked
    OBVIOUS
  <2> HIDE DEF S
  <2> QED
    BY <1>1, <1>4, <2>1, KeptSound
<1>8. PersonsSound(persons, next_id)'
  BY <1>1, <1>7 DEF PersonsSound
<1>9. \A i \in DOMAIN persons' : persons'[i].timeout_counter >= 1
  <2>1. \A s \in S : ticked[s] \in Person /\ ticked[s].timeout_counter > 0
    BY <1>4 DEF PersonsSound, Survives
  <2>2. \A p \in Person : p.timeout_counter \in Nat
    BY DEF Person
  <2> QED
    BY <1>7, <2>1, <2>2
<1>10. /\ published' \in Seq(Published)
       /\ OnePerceptPerName'
  <2> DEFINE X == Published
             n == Cardinality(W)
  <2>1. /\ ticked \in Seq(Person) /\ DOMAIN ticked = 1 .. Len(ticked) /\ Len(ticked) \in Nat
        /\ \A i \in DOMAIN ticked : ticked[i] \in Person
    BY <1>4 DEF PersonsSound
  <2>2. \A p \in Person : p.id \in Ids /\ p.name \in Names \cup {NoName}
    BY DEF Person
  <2>3. percepts \in Seq(X) /\ DOMAIN percepts = DOMAIN ticked /\ \A i \in DOMAIN ticked : percepts[i].name = ticked[i].name
    <3>1. ASSUME NEW i \in DOMAIN ticked PROVE Place(ticked, i) \in Nat \ {0}
      BY <2>1, <3>1, PlaceType
    <3> QED
      BY <2>1, <2>2, <3>1 DEF Published
  <2>4. W \in SUBSET DOMAIN percepts
    BY DEF Publishes
  <2> HIDE DEF percepts, W, X
  <2>5. Kept(percepts, W) \in Seq(X) /\ DOMAIN Kept(percepts, W) = 1 .. n /\ n \in Nat
    BY <2>3, <2>4, KeptProperties
  <2>6. PICK f \in [1 .. n -> W] :
          /\ \A i, j \in 1 .. n : i < j => f[i] < f[j]
          /\ \A i, j \in 1 .. n : i # j => f[i] # f[j]
          /\ \A s \in W : \E i \in 1 .. n : f[i] = s
          /\ \A i \in 1 .. n : Kept(percepts, W)[i] = percepts[f[i]]
    <3>1. percepts \in Seq(X)
      BY <2>3
    <3>2. \E f : Selects(f, W, Cardinality(W), percepts, Kept(percepts, W))
      BY <3>1, <2>4, KeptProperties
    <3> QED
      BY <3>2 DEF Selects
  <2> HIDE DEF n
  <2>7. ASSUME NEW i \in W, NEW j \in W, i < j PROVE ticked[i].name # ticked[j].name
    <3>1. /\ i \in DOMAIN ticked /\ j \in DOMAIN ticked
          /\ ~ticked[i].hypothesis
          /\ \A k \in 1 .. j - 1 : ticked[k].hypothesis \/ ticked[k].name # ticked[j].name
      BY DEF W, Publishes
    <3>2. i \in 1 .. j - 1
      BY <2>1, <2>7, <3>1
    <3> QED
      BY <3>1, <3>2
  <2>8. ASSUME NEW i \in 1 .. n, NEW j \in 1 .. n, i < j PROVE published'[i].name # published'[j].name
    <3>1. f[i] \in W /\ f[j] \in W /\ f[i] < f[j]
      BY <2>6, <2>8
    <3>2. published'[i] = percepts[f[i]] /\ published'[j] = percepts[f[j]]
      BY <1>1, <2>6
    <3>3. percepts[f[i]].name = ticked[f[i]].name /\ percepts[f[j]].name = ticked[f[j]].name
      BY <2>3, <2>4, <3>1
    <3> QED
      BY <2>7, <3>1, <3>2, <3>3
  <2>9. ASSUME NEW i \in DOMAIN published', NEW j \in DOMAIN published', i # j
        PROVE  published'[i].name # published'[j].name
    <3>1. i \in 1 .. n /\ j \in 1 .. n /\ (i < j \/ j < i)
      BY <1>1, <2>5, <2>9
    <3> QED
      BY <2>8, <3>1
  <2> QED
    BY <1>1, <2>5, <2>9 DEF OnePerceptPerName, X
<1>11. learning_buffer' \in SUBSET Ids /\ BufferInv'
  <2>1. \A i \in DOMAIN scan : i \in DOMAIN persons
    BY DEF Scans
  <2>2. \A i \in DOMAIN persons : persons[i].id \in Ids
    <3>1. \A p \in Person : p.id \in Ids
      BY DEF Person
    <3>2. \A i \in DOMAIN persons : persons[i] \in Person
      BY <1>5 DEF PersonsSound
    <3> QED
      BY <3>1, <3>2
  <2>3. FacesLearned(scan) \subseteq Ids /\ \A x \in FacesLearned(scan) : x = learning_id /\ x # 0
    BY <2>1, <2>2, TrackerAssumption DEF FacesLearned, Ids
  <2> QED
    BY <1>1, <1>5, <2>3 DEF BufferInv
<1>12. FacesInv' /\ learning_id' = learning_id /\ known_persons' = known_persons
  BY <1>1, <1>5 DEF FacesInv
<1> HIDE DEF S, W, percepts
<1>13. TrackerParts'
  BY <1>5, <1>6, <1>8, <1>9, <1>10, <1>11, <1>12 DEF TrackerParts
<1> QED
  BY <1>13, TrackerInvParts, PTL

\* Whose person a frame leaves tracked, their percept points at it.
LEMMA ProcessPlaces ==
  ASSUME TrackerInv, NEW scan \in Scans, NEW unused \in Unused, Process(scan, unused),
         NEW i \in DOMAIN published', NEW j \in DOMAIN persons', persons'[j].id = published'[i].id
  PROVE  published'[i].place \in DOMAIN persons' /\ persons'[published'[i].place].id = published'[i].id
<1> DEFINE before == AfterUpdate(scan, unused)
           ticked == [k \in 1 .. Len(persons) + unused |-> Ticked(before[k])]
           percepts == [k \in DOMAIN ticked |->
                          [id |-> ticked[k].id, name |-> ticked[k].name, place |-> Place(ticked, k)]]
           S == {k \in DOMAIN ticked : Survives(ticked[k])}
           W == Publishes(ticked)
<1>1. persons' = Kept(ticked, S) /\ published' = Kept(percepts, W)
  BY DEF Process
<1>2. PersonsSound(before, next_id + unused) /\ Len(before) = Len(persons) + unused
  BY AfterUpdateSound
<1>3. DOMAIN ticked = DOMAIN before /\ ticked = [k \in DOMAIN before |-> Ticked(before[k])]
  BY <1>2 DEF PersonsSound
<1> HIDE DEF before, ticked
<1>4. PersonsSound(ticked, next_id + unused)
  BY <1>2, <1>3, TickSound
<1>5. /\ ticked \in Seq(Person) /\ DOMAIN ticked = 1 .. Len(ticked) /\ Len(ticked) \in Nat
      /\ \A k, m \in DOMAIN ticked : k # m => ticked[k].id # ticked[m].id
  BY <1>4 DEF PersonsSound
<1>6. PICK s \in S : persons'[j] = ticked[s]
  <2>1. S \in SUBSET DOMAIN ticked
    OBVIOUS
  <2> HIDE DEF S
  <2> QED
    BY <1>1, <1>4, <2>1, KeptSound
<1>7. PICK w \in W : published'[i] = percepts[w]
  <2> DEFINE X == {percepts[k] : k \in DOMAIN percepts}
  <2>1. percepts \in Seq(X) /\ W \in SUBSET DOMAIN percepts
    BY <1>5 DEF Publishes
  <2> HIDE DEF percepts, W, X
  <2>2. DOMAIN Kept(percepts, W) = 1 .. Cardinality(W) /\ \E f : Selects(f, W, Cardinality(W), percepts, Kept(percepts, W))
    BY <2>1, KeptProperties
  <2> QED
    BY <1>1, <2>2 DEF Selects
<1>8. w \in DOMAIN ticked /\ published'[i].id = ticked[w].id /\ published'[i].place = Place(ticked, w)
  BY <1>7 DEF Publishes
<1>9. w \in S
  BY <1>5, <1>6, <1>8
<1> DEFINE B == {k \in 1 .. w - 1 : k \in S}
<1>10. Place(ticked, w) = Cardinality(B) + 1
  <2>1. \A k \in 1 .. w - 1 : k \in DOMAIN ticked
    BY <1>5, <1>8
  <2>2. B = {k \in 1 .. w - 1 : Survives(ticked[k])}
    BY <2>1
  <2> QED
    BY <2>2 DEF Place
<1>11. S \in SUBSET DOMAIN ticked
  OBVIOUS
<1> HIDE DEF S
<1>12. Cardinality(B) + 1 \in DOMAIN Kept(ticked, S) /\ Kept(ticked, S)[Cardinality(B) + 1] = ticked[w]
  BY <1>5, <1>9, <1>11, KeptPlace
<1> HIDE DEF B
<1> QED
  BY <1>1, <1>8, <1>10, <1>12

\* A frame without new persons moves nobody before the first one erased.
LEMMA ProcessKeepsPlaces ==
  ASSUME TrackerInv, NEW scan \in Scans, NEW unused \in Unused, Process(scan, unused), next_id' = next_id,
         NEW i \in DOMAIN persons, \A g \in 1 .. i : persons[g].id \in TrackedIds'
  PROVE  i \in DOMAIN persons' /\ persons'[i].id = persons[i].id
<1> DEFINE before == AfterUpdate(scan, unused)
           ticked == [k \in 1 .. Len(persons) + unused |-> Ticked(before[k])]
           S == {k \in DOMAIN ticked : Survives(ticked[k])}
<1>1. persons' = Kept(ticked, S)
  BY DEF Process
<1>2. /\ PersonsSound(before, next_id + unused) /\ Len(before) = Len(persons) + unused
      /\ \A k \in DOMAIN persons : before[k].id = persons[k].id
  BY AfterUpdateSound
<1>3. DOMAIN ticked = DOMAIN before /\ ticked = [k \in DOMAIN before |-> Ticked(before[k])]
  BY <1>2 DEF PersonsSound
<1> HIDE DEF before, ticked
<1>4. PersonsSound(ticked, next_id + unused) /\ \A k \in DOMAIN before : ticked[k].id = before[k].id
  BY <1>2, <1>3, TickSound, SMTT(30)
<1>5. /\ DOMAIN persons = 1 .. Len(persons) /\ Len(persons) \in Nat /\ unused \in Nat
      /\ DOMAIN ticked = 1 .. Len(persons) + unused
  <2>1. persons \in Seq(Person) /\ next_id \in Nat
    BY DEF TrackerInv, IdentitiesSound, TrackerTypeOK
  <2>2. unused \in Nat
    BY DEF Unused
  <2>3. DOMAIN before = 1 .. Len(before)
    BY <1>2 DEF PersonsSound
  <2> QED
    BY <1>2, <1>3, <2>1, <2>2, <2>3
<1>6. i \in DOMAIN ticked /\ \A g \in 1 .. i : g \in DOMAIN persons /\ g \in DOMAIN ticked
  BY <1>5
<1>7. \A g \in 1 .. i : ticked[g].id = persons[g].id /\ i \in 1 .. i
  BY <1>2, <1>3, <1>4, <1>6, <1>5
<1>8. \A g \in 1 .. i : \E j \in DOMAIN persons' : persons'[j].id = ticked[g].id
  BY <1>7 DEF TrackedIds
<1>9. S \in SUBSET DOMAIN ticked
  OBVIOUS
<1> HIDE DEF S
<1>10. i \in DOMAIN Kept(ticked, S) /\ Kept(ticked, S)[i] = ticked[i]
  BY <1>1, <1>4, <1>6, <1>8, <1>9, KeptBefore
<1>11. i \in 1 .. i
  BY <1>5
<1> QED
  BY <1>1, <1>7, <1>10, <1>11

\* Nor does a request.
LEMMA RequestKeepsPlaces ==
  ASSUME TrackerInv, NEW a, StartLearn(a) \/ Learn(a) \/ DeletePerson(a),
         NEW i \in DOMAIN persons, \A g \in 1 .. i : persons[g].id \in TrackedIds'
  PROVE  i \in DOMAIN persons' /\ persons'[i].id = persons[i].id
<1>1. persons \in Seq(Person) /\ PersonsSound(persons, next_id)
  BY TrackerInvParts DEF TrackerParts, PersonsSound
<1>2. CASE StartLearn(a)
  BY <1>2 DEF StartLearn
<1>3. CASE Learn(a)
  <2>1. persons' = [k \in DOMAIN persons |->
          [persons[k] EXCEPT !.should_delete = persons[k].should_delete \/ persons[k].id = learning_id]]
    BY <1>3 DEF Learn
  <2>2. persons[i] \in Person
    BY <1>1
  <2> QED
    BY <2>1, <2>2 DEF Person
<1>4. CASE DeletePerson(a)
  <2> DEFINE S == {k \in DOMAIN persons : persons[k].name # a}
  <2>1. persons' = Kept(persons, S) /\ S \in SUBSET DOMAIN persons
    BY <1>4 DEF DeletePerson
  <2> HIDE DEF S
  <2>2. \A g \in 1 .. i : \E j \in DOMAIN Kept(persons, S) : Kept(persons, S)[j].id = persons[g].id
    BY <2>1 DEF TrackedIds
  <2>3. i \in DOMAIN Kept(persons, S) /\ Kept(persons, S)[i] = persons[i]
    BY <1>1, <2>1, <2>2, KeptBefore
  <2> QED
    BY <2>1, <2>3
<1> QED
  BY <1>2, <1>3, <1>4

\* Requests keep the invariant.
LEMMA StartLearnInductive ==
  ASSUME TrackerInv, NEW id \in 0 .. MaxId, StartLearn(id)
  PROVE  TrackerInv'
<1>1. /\ learning_buffer' = {} /\ learning_id' = id
      /\ UNCHANGED <<persons, known_persons, next_id, published>> /\ TrackerParts
  BY TrackerInvParts DEF StartLearn
<1>2. BufferInv'
  BY <1>1 DEF BufferInv
<1>3. TrackerParts'
  BY <1>1, <1>2 DEF TrackerParts, PersonsSound, OnePerceptPerName, FacesInv
<1> QED
  BY <1>3, TrackerInvParts, PTL

LEMMA LearnInductive ==
  ASSUME TrackerInv, NEW name \in Names, Learn(name)
  PROVE  TrackerInv'
<1> DEFINE Known == [name : Names, faces : SUBSET (0 .. MaxId)]
           entry == [name |-> name, faces |-> learning_buffer]
           marked == [i \in DOMAIN persons |-> [persons[i] EXCEPT !.should_delete = @ \/ persons[i].id = learning_id]]
<1>1. /\ learning_id' = 0 /\ UNCHANGED <<next_id, learning_buffer, published>> /\ TrackerParts
      /\ persons' = marked
      /\ known_persons' = Append(known_persons, entry)
  BY TrackerInvParts DEF Learn
<1>2. /\ persons \in Seq(Person) /\ DOMAIN persons = 1 .. Len(persons) /\ Len(persons) \in Nat
      /\ \A i \in DOMAIN persons : persons[i] \in Person
  BY <1>1 DEF TrackerParts, PersonsSound
<1>3. known_persons \in Seq(Known) /\ learning_buffer \in SUBSET Ids /\ MaxId \in Nat
  BY <1>1, TrackerAssumption DEF TrackerParts
<1>4. entry \in Known
  BY <1>3 DEF Ids
<1>5. ASSUME NEW i \in DOMAIN persons
      PROVE  /\ marked[i] \in Person /\ marked[i].id = persons[i].id /\ marked[i].name = persons[i].name
             /\ marked[i].timeout_counter = persons[i].timeout_counter /\ marked[i].hypothesis = persons[i].hypothesis
  <2> DEFINE d == persons[i].should_delete \/ persons[i].id = learning_id
             p == persons[i]
  <2>1. marked[i] = [p EXCEPT !.should_delete = d] /\ d \in BOOLEAN /\ p \in Person
    BY <1>2
  <2> HIDE DEF p, d, marked
  <2>2. /\ marked[i] \in Person /\ marked[i].id = p.id /\ marked[i].name = p.name
        /\ marked[i].timeout_counter = p.timeout_counter /\ marked[i].hypothesis = p.hypothesis
    BY <2>1 DEF Person
  <2> QED
    BY <2>2 DEF p
<1>6. marked \in Seq(Person) /\ DOMAIN marked = DOMAIN persons
  <2>1. DOMAIN marked = DOMAIN persons /\ marked = [i \in 1 .. Len(persons) |-> marked[i]]
    BY <1>2
  <2>2. \A i \in 1 .. Len(persons) : marked[i] \in Person
    BY <1>2, <1>5
  <2> HIDE DEF marked
  <2> QED
    BY <1>2, <2>1, <2>2
<1> HIDE DEF marked, entry, Known
<1>7. /\ known_persons' \in Seq(Known)
      /\ DOMAIN known_persons' = 1 .. Len(known_persons) + 1
      /\ DOMAIN known_persons = 1 .. Len(known_persons) /\ Len(known_persons) \in Nat
      /\ \A k \in DOMAIN known_persons : known_persons'[k] = known_persons[k]
      /\ known_persons'[Len(known_persons) + 1] = entry
  BY <1>1, <1>3, <1>4
<1>8. PersonsSound(persons, next_id)'
  <2>1. ASSUME NEW i \in DOMAIN marked, marked[i].name # NoName
        PROVE  \E k \in DOMAIN known_persons' : known_persons'[k].name = marked[i].name
    <3>1. PICK k \in DOMAIN known_persons : known_persons[k].name = marked[i].name
      BY <1>1, <1>5, <1>6, <2>1, SMTT(60) DEF TrackerParts, PersonsSound
    <3> QED
      BY <1>7, <3>1
  <2>2. \A i \in DOMAIN marked : marked[i].timeout_counter <= Limit(marked[i])
    BY <1>1, <1>5, <1>6 DEF TrackerParts, PersonsSound, Limit
  <2> QED
    <3>1. \A i, j \in DOMAIN marked : i # j => marked[i].id # marked[j].id
      BY <1>1, <1>5, <1>6 DEF TrackerParts, PersonsSound
    <3>2. \A i \in DOMAIN marked : marked[i].id < next_id
      BY <1>1, <1>5, <1>6 DEF TrackerParts, PersonsSound
    <3> QED
      BY <1>1, <1>6, <2>1, <2>2, <3>1, <3>2 DEF PersonsSound
<1>9. \A i \in DOMAIN persons' : persons'[i].timeout_counter >= 1
  BY <1>1, <1>5, <1>6 DEF TrackerParts
<1>10. BufferInv' /\ OnePerceptPerName'
  BY <1>1 DEF TrackerParts, BufferInv, OnePerceptPerName
<1>11. FacesInv'
  <2>1. \E p \in 0 .. MaxId : learning_buffer \subseteq {p}
    BY <1>1 DEF TrackerParts, BufferInv
  <2>2. entry.faces = learning_buffer
    BY DEF entry
  <2>3. \A k \in DOMAIN known_persons' : k \in DOMAIN known_persons \/ k = Len(known_persons) + 1
    BY <1>7
  <2>4. \A k \in DOMAIN known_persons : \E p \in 0 .. MaxId : known_persons[k].faces \subseteq {p}
    BY <1>1 DEF TrackerParts, FacesInv
  <2> QED
    BY <1>7, <2>1, <2>2, <2>3, <2>4 DEF FacesInv
<1>12. TrackerParts'
  BY <1>1, <1>3, <1>7, <1>8, <1>9, <1>10, <1>11 DEF TrackerParts, Known
<1> QED
  BY <1>12, TrackerInvParts, PTL

LEMMA DeletePersonInductive ==
  ASSUME TrackerInv, NEW name \in Names, DeletePerson(name)
  PROVE  TrackerInv'
<1> DEFINE Known == [name : Names, faces : SUBSET (0 .. MaxId)]
           S == {i \in DOMAIN persons : persons[i].name # name}
           K == {i \in DOMAIN known_persons : known_persons[i].name # name}
           n == Cardinality(K)
<1>1. /\ UNCHANGED <<next_id, learning_buffer, learning_id, published>> /\ TrackerParts
      /\ persons' = Kept(persons, S)
      /\ known_persons' = Kept(known_persons, K)
  BY TrackerInvParts DEF DeletePerson
<1>2. /\ PersonsSound(persons', next_id)
      /\ \A i \in DOMAIN persons' : \E s \in S : persons'[i] = persons[s]
  <2>1. S \in SUBSET DOMAIN persons
    OBVIOUS
  <2> HIDE DEF S
  <2> QED
    BY <1>1, <2>1, KeptSound DEF TrackerParts
<1>3. known_persons \in Seq(Known) /\ K \in SUBSET DOMAIN known_persons
  BY <1>1 DEF TrackerParts
<1> HIDE DEF S, K, Known
<1>4. known_persons' \in Seq(Known) /\ DOMAIN known_persons' = 1 .. n
  BY <1>1, <1>3, KeptProperties
<1>5. PICK f \in [1 .. n -> K] :
        /\ \A i, j \in 1 .. n : i < j => f[i] < f[j]
        /\ \A i, j \in 1 .. n : i # j => f[i] # f[j]
        /\ \A s \in K : \E i \in 1 .. n : f[i] = s
        /\ \A i \in 1 .. n : known_persons'[i] = known_persons[f[i]]
  <2>1. PICK f \in [1 .. n -> K] :
          /\ \A i, j \in 1 .. n : i < j => f[i] < f[j]
          /\ \A i, j \in 1 .. n : i # j => f[i] # f[j]
          /\ \A s \in K : \E i \in 1 .. n : f[i] = s
          /\ \A i \in 1 .. n : Kept(known_persons, K)[i] = known_persons[f[i]]
    <3>1. \E f : Selects(f, K, Cardinality(K), known_persons, Kept(known_persons, K))
      BY <1>3, KeptProperties
    <3> QED
      BY <3>1 DEF Selects
  <2> QED
    BY <1>1, <2>1
<1> HIDE DEF n
<1>6. ASSUME NEW i \in DOMAIN persons', persons'[i].name # NoName
      PROVE  \E k \in DOMAIN known_persons' : known_persons'[k].name = persons'[i].name
  <2>1. PICK s \in S : persons'[i] = persons[s]
    BY <1>2
  <2>2. s \in DOMAIN persons /\ persons[s].name # name
    BY DEF S
  <2>3. PICK k \in DOMAIN known_persons : known_persons[k].name = persons[s].name
    BY <1>1, <1>6, <2>1, <2>2 DEF TrackerParts, PersonsSound
  <2>4. k \in K
    BY <2>2, <2>3 DEF K
  <2>5. PICK m \in 1 .. n : f[m] = k
    BY <1>5, <2>4
  <2>6. known_persons'[m] = known_persons[k]
    BY <1>5, <2>5
  <2> QED
    BY <1>4, <2>1, <2>3, <2>6
<1>7. PersonsSound(persons, next_id)'
  BY <1>1, <1>2, <1>6 DEF PersonsSound
<1>8. \A i \in DOMAIN persons' : persons'[i].timeout_counter >= 1
  BY <1>1, <1>2 DEF TrackerParts, S
<1>9. BufferInv' /\ OnePerceptPerName'
  BY <1>1 DEF TrackerParts, BufferInv, OnePerceptPerName
<1>10. FacesInv'
  <2>1. ASSUME NEW k \in 1 .. n PROVE \E p \in 0 .. MaxId : known_persons'[k].faces \subseteq {p}
    <3>1. f[k] \in DOMAIN known_persons /\ known_persons'[k] = known_persons[f[k]]
      BY <1>3, <1>5
    <3> QED
      BY <1>1, <3>1 DEF TrackerParts, FacesInv
  <2> QED
    BY <1>4, <2>1 DEF FacesInv
<1>11. TrackerParts'
  BY <1>1, <1>4, <1>7, <1>8, <1>9, <1>10 DEF TrackerParts, Known
<1> QED
  BY <1>11, TrackerInvParts, PTL

\* The faces on the disk are those of known persons.
LEMMA TrackerInvInit == TrackerInit => TrackerInv
<1> SUFFICES ASSUME TrackerInit PROVE TrackerParts
  BY TrackerInvParts
<1> DEFINE n == Cardinality(Stored)
<1>1. n \in Nat /\ Stored \subseteq Names /\ MaxId \in Nat
  BY TrackerAssumption, FS_CardinalityType
<1>2. PICK order \in SetToSeqs(Stored) :
        known_persons = [i \in 1 .. n |-> [name |-> order[i], faces |-> {0}]]
  BY DEF TrackerInit
<1>3. order \in [1 .. n -> Stored]
  BY DEF SetToSeqs
<1> HIDE DEF n
<1>4. \A i \in 1 .. n : known_persons[i] \in [name : Names, faces : SUBSET (0 .. MaxId)] /\ known_persons[i].faces = {0}
  BY <1>1, <1>2, <1>3
<1>5. known_persons \in Seq([name : Names, faces : SUBSET (0 .. MaxId)]) /\ DOMAIN known_persons = 1 .. n
  BY <1>1, <1>2, <1>4
<1>6. /\ persons = <<>> /\ next_id = 1 /\ learning_buffer = {} /\ learning_id = 0 /\ published = <<>>
      /\ \A X : <<>> \in Seq(X) /\ DOMAIN <<>> = {}
  BY DEF TrackerInit
<1>7. FacesInv
  BY <1>1, <1>4, <1>5 DEF FacesInv
<1>8. BufferInv
  BY <1>1, <1>6 DEF BufferInv
<1>9. PersonsSound(persons, next_id) /\ OnePerceptPerName /\ \A i \in DOMAIN persons : persons[i].timeout_counter >= 1
  BY <1>6 DEF PersonsSound, OnePerceptPerName
<1> QED
  BY <1>1, <1>5, <1>6, <1>7, <1>8, <1>9 DEF TrackerParts

\* Steps that leave the tracker alone keep its invariant.
LEMMA TrackerUnchanged == ASSUME TrackerInv, UNCHANGED trackerVars PROVE TrackerInv'
BY DEF trackerVars, TrackerInv, IdentitiesSound, TrackerTypeOK, IdsUnique, NamesAreKnown, OnePerceptPerName, BufferInv, FacesInv

\* The tracker by itself keeps its invariant.
THEOREM TrackerInvariant == TrackerSpec => []TrackerInv
<1>1. TrackerInv /\ [TrackerNext]_trackerVars => TrackerInv'
  BY StartLearnInductive, LearnInductive, DeletePersonInductive, ProcessInductive, TrackerUnchanged DEF TrackerNext
<1> QED
  BY <1>1, TrackerInvInit, PTL DEF TrackerSpec

\* IdentitiesSound: whatever was requested and lost between two frames, the
\* ids of the tracked persons are unique, their names are known, and the
\* percepts of a frame carry each name once.
THEOREM TrackerIdentities == TrackerSpec => []IdentitiesSound
<1>1. TrackerInv => IdentitiesSound
  BY DEF TrackerInv
<1> QED
  BY <1>1, TrackerInvariant, PTL

\* Sets with at most one element
LEMMA AtMostOne == ASSUME NEW p, NEW F, F \subseteq {p} PROVE Cardinality(F) <= 1
<1>1. F = {} \/ F = {p}
  OBVIOUS
<1> QED
  BY <1>1, FS_EmptySet, FS_Singleton

\* LearnedFromOnePerson: what is learned under one name is of one person.
THEOREM TrackerLearnsOnePerson == TrackerSpec => []LearnedFromOnePerson
<1>1. TrackerInv => LearnedFromOnePerson
  BY AtMostOne DEF TrackerInv, FacesInv, LearnedFromOnePerson
<1> QED
  BY <1>1, TrackerInvariant, PTL

-----------------------------------------------------------------------------
(* The ring                                                                *)

\* How far x is behind t on a ring of m slots, and the slot i places on.
LEMMA RingDistance ==
  ASSUME NEW m \in Nat \ {0}, NEW x \in 0 .. m - 1, NEW t \in 0 .. m - 1
  PROVE  (x - t) % m = IF t <= x THEN x - t ELSE x - t + m
  OBVIOUS

LEMMA RingPosition ==
  ASSUME NEW m \in Nat \ {0}, NEW x \in Int, 0 <= x, x < m + m
  PROVE  x % m = (IF x < m THEN x ELSE x - m) /\ x % m \in 0 .. m - 1
  OBVIOUS

\* clear leaves nothing to take.
LEMMA EmptiedRing ==
  ASSUME NEW m \in Nat \ {0}, NEW V, NEW r \in Ring(m, V)
  PROVE  /\ Emptied(r) \in Ring(m, V) /\ IsEmpty(Emptied(r))
         /\ ToSet(Waiting(Emptied(r))) = {}
<1> DEFINE e == Emptied(r)
<1>1. e \in Ring(m, V) /\ e.take_ptr = e.put_ptr /\ e.put_ptr \in Int /\ e.mask = m
  BY DEF Emptied, Ring
<1> HIDE DEF e
<1>2. (e.put_ptr - e.take_ptr) % e.mask = 0
  BY <1>1
<1>3. DOMAIN Waiting(e) = {}
  BY <1>2 DEF Waiting
<1>4. ToSet(Waiting(e)) = {}
  BY <1>3 DEF ToSet
<1> QED
  BY <1>1, <1>4 DEF IsEmpty, e

\* What waits, with the distance of the pointers spelled out.
LEMMA WaitingElements ==
  ASSUME NEW m \in Nat \ {0}, NEW V, NEW r \in Ring(m, V)
  PROVE  /\ Waiting(r) \in Seq(V) /\ Len(Waiting(r)) = (r.put_ptr - r.take_ptr) % m
         /\ Len(Waiting(r)) \in 0 .. m - 1
         /\ \A i \in 1 .. Len(Waiting(r)) :
              /\ Waiting(r)[i] = r.buffer[(r.take_ptr + i - 1) % m]
              /\ (r.take_ptr + i - 1) % m \in 0 .. m - 1
<1> DEFINE t == r.take_ptr
           p == r.put_ptr
           b == r.buffer
           n == (p - t) % m
<1>1. r.mask = m /\ t \in 0 .. m - 1 /\ p \in 0 .. m - 1 /\ b \in [0 .. m -> V]
  BY DEF Ring
<1>2. n \in 0 .. m - 1
  BY <1>1
<1>3. Waiting(r) = [i \in 1 .. n |-> b[(t + i - 1) % m]]
  BY <1>1 DEF Waiting
<1> HIDE DEF t, p, b, n
<1>4. ASSUME NEW i \in 1 .. n PROVE (t + i - 1) % m \in 0 .. m - 1
  BY <1>1, <1>2
<1>5. \A i \in 1 .. n : b[(t + i - 1) % m] \in V
  BY <1>1, <1>4
<1>6. Waiting(r) \in Seq(V) /\ Len(Waiting(r)) = n
  BY <1>2, <1>3, <1>5
<1> QED
  BY <1>2, <1>3, <1>4, <1>6 DEF t, p, b, n

\* put_unsafe adds at most the value it is given to what can be taken: also
\* when the ring is full and the test misses it, which loses what it held.
LEMMA PutUnsafeWithin ==
  ASSUME NEW m \in Nat \ {0}, NEW V, NEW W, NEW r \in Ring(m, V), NEW v \in V \cap W,
         ToSet(Waiting(r)) \subseteq W
  PROVE  PutUnsafe(r, v) \in Ring(m, V) /\ ToSet(Waiting(PutUnsafe(r, v))) \subseteq W
<1> DEFINE q == PutUnsafe(r, v)
           t == r.take_ptr
           p == r.put_ptr
           b == r.buffer
           next == (p + 1) % m
<1>1. r.mask = m /\ t \in 0 .. m - 1 /\ p \in 0 .. m - 1 /\ b \in [0 .. m -> V]
  BY DEF Ring
<1>2. CASE IsFull(r)
  BY <1>2 DEF PutUnsafe
<1>3. CASE ~IsFull(r)
  <2>1. q = [r EXCEPT !.buffer = [b EXCEPT ![p] = v], !.put_ptr = next]
    BY <1>1, <1>3 DEF PutUnsafe
  <2>2. next \in 0 .. m - 1
    BY <1>1
  <2>3. [b EXCEPT ![p] = v] \in [0 .. m -> V]
    BY <1>1
  <2> DEFINE c == [b EXCEPT ![p] = v]
  <2>4. p + 1 \in Int /\ next = IF p + 1 < m THEN p + 1 ELSE 0
    <3> DEFINE x == p + 1
    <3>1. x \in Int /\ 0 <= x /\ x < m + m
      BY <1>1
    <3> HIDE DEF x
    <3>2. x % m = IF x < m THEN x ELSE x - m
      BY ONLY <3>1, m \in Nat \ {0}, RingPosition
    <3> QED
      BY <3>1, <3>2, <1>1 DEF x
  <2>5. \A s \in 0 .. m : c[s] = IF s = p THEN v ELSE b[s]
    BY <1>1
  <2> HIDE DEF next, c
  <2>6. q \in Ring(m, V) /\ q.mask = m /\ q.take_ptr = t /\ q.put_ptr = next /\ q.buffer = c
    BY <2>1, <2>2, <2>3 DEF Ring, c
  <2> HIDE DEF q
  <2>7. DOMAIN Waiting(q) = 1 .. ((next - t) % m) /\ \A i \in DOMAIN Waiting(q) : Waiting(q)[i] = c[(t + i - 1) % m]
    BY <2>6 DEF Waiting
  <2>8. DOMAIN Waiting(r) = 1 .. ((p - t) % m) /\ \A i \in DOMAIN Waiting(r) : Waiting(r)[i] = b[(t + i - 1) % m]
    BY <1>1 DEF Waiting
  <2> HIDE DEF t, p, b
  <2>9. ASSUME NEW i \in DOMAIN Waiting(q)
        PROVE  Waiting(q)[i] \in W
    <3>1. (next - t) % m = IF t <= next THEN next - t ELSE next - t + m
      BY <2>2, <1>1, RingDistance
    <3>2. (p - t) % m = IF t <= p THEN p - t ELSE p - t + m
      BY <1>1, RingDistance
    <3>3. i \in Nat /\ 1 <= i /\ i <= (next - t) % m
      BY <2>7, <2>2, <1>1
    <3>4. i <= m /\ t + i - 1 \in Int
      BY <3>1, <3>3, <2>2, <1>1
    <3>5. (t + i - 1) % m = IF t + i - 1 < m THEN t + i - 1 ELSE (t + i - 1) - m
      <4>1. 0 <= t + i - 1 /\ t + i - 1 < m + m
        BY <3>3, <3>4, <1>1
      <4> DEFINE x == t + i - 1
      <4>2. x \in Int /\ 0 <= x /\ x < m + m
        BY <4>1, <3>4
      <4> HIDE DEF x
      <4>3. x % m = IF x < m THEN x ELSE x - m
        BY ONLY <4>2, m \in Nat \ {0}, RingPosition
      <4> QED
        BY <4>3 DEF x
    <3> DEFINE s == (t + i - 1) % m
    <3>6. s \in 0 .. m - 1
      BY <3>5, <3>4, <3>3, <1>1
    <3>7. s = p \/ i <= (p - t) % m
      BY <3>1, <3>2, <3>3, <3>4, <3>5, <2>2, <2>4, <1>1
    <3>8. Waiting(q)[i] = c[s]
      BY <2>7
    <3> HIDE DEF s
    <3>9. CASE s = p
      BY <3>6, <3>8, <3>9, <2>5
    <3>10. CASE s # p /\ i <= (p - t) % m
      <4>1. i \in DOMAIN Waiting(r)
        BY <3>10, <3>3, <3>2, <2>8, <1>1
      <4>2. Waiting(r)[i] = b[s]
        BY <4>1, <2>8 DEF s
      <4>3. Waiting(r)[i] \in W
        BY <4>1 DEF ToSet
      <4> QED
        BY <4>2, <4>3, <3>8, <3>6, <3>10, <2>5
    <3> QED
      BY <3>7, <3>9, <3>10
  <2>10. ToSet(Waiting(q)) \subseteq W
    BY <2>9 DEF ToSet
  <2> QED
    BY <2>6, <2>10 DEF q
<1> QED
  BY <1>2, <1>3

\* put_all is a loop, written as a recursive function: that the function is
\* defined, by induction on the number of values put.
PutsInTurn(put, r, values) ==
  /\ put[0] = r
  /\ \A i \in 1 .. Len(values) : put[i] = PutUnsafe(put[i - 1], values[i])

LEMMA PutAllSteps ==
  ASSUME NEW X, NEW r, NEW values \in Seq(X)
  PROVE  \E put : PutsInTurn(put, r, values) /\ PutAll(r, values) = put[Len(values)]
<1> DEFINE Puts(n, g) == g = [i \in 0 .. n |-> IF i = 0 THEN r ELSE PutUnsafe(g[i - 1], values[i])]
           T == {n \in Nat : \E g : Puts(n, g)}
           len == Len(values)
<1>1. len \in Nat
  OBVIOUS
<1>2. 0 \in T
  <2>1. Puts(0, [i \in 0 .. 0 |-> r])
    OBVIOUS
  <2> QED
    BY <2>1
<1>3. ASSUME NEW n \in T PROVE n + 1 \in T
  <2>1. n \in Nat
    OBVIOUS
  <2>2. PICK g : Puts(n, g)
    OBVIOUS
  <2> DEFINE h == [i \in 0 .. n + 1 |-> IF i = n + 1 THEN PutUnsafe(g[n], values[n + 1]) ELSE g[i]]
  <2>3. ASSUME NEW i \in 0 .. n + 1
        PROVE  h[i] = IF i = 0 THEN r ELSE PutUnsafe(h[i - 1], values[i])
    <3>1. CASE i = n + 1
      <4>1. i # 0 /\ i - 1 = n /\ n \in 0 .. n + 1 /\ n # n + 1
        BY <3>1, <2>1
      <4>2. h[i] = PutUnsafe(g[n], values[n + 1]) /\ h[n] = g[n]
        BY <3>1, <4>1
      <4> QED
        BY <4>1, <4>2, <3>1
    <3>2. CASE i = 0
      BY <3>2, <2>1, <2>2
    <3>3. CASE i # 0 /\ i # n + 1
      <4>1. i \in 0 .. n /\ i - 1 \in 0 .. n + 1 /\ i - 1 # n + 1
        BY <3>3, <2>1
      <4>2. h[i] = g[i] /\ h[i - 1] = g[i - 1]
        BY <4>1, <3>3
      <4>3. g[i] = PutUnsafe(g[i - 1], values[i])
        BY <4>1, <3>3, <2>2
      <4> QED
        BY <4>2, <4>3, <3>3
    <3> QED
      BY <3>1, <3>2, <3>3
  <2>4. h = [i \in 0 .. n + 1 |-> h[i]]
    OBVIOUS
  <2> HIDE DEF h
  <2>5. Puts(n + 1, h)
    BY <2>3, <2>4
  <2> QED
    BY <2>1, <2>5
<1> HIDE DEF Puts
<1>4. T = Nat
  BY <1>2, <1>3, SetInduction
<1> DEFINE put == CHOOSE g : Puts(len, g)
<1>5. Puts(len, put)
  BY <1>1, <1>4
<1>6. PutAll(r, values) = put[len]
  BY DEF PutAll, Puts
<1> HIDE DEF put
<1>7. PutsInTurn(put, r, values)
  <2> HIDE DEF len
  <2>1. put[0] = r /\ \A i \in 1 .. len : put[i] = PutUnsafe(put[i - 1], values[i])
    BY <1>5, <1>1 DEF Puts
  <2> QED
    BY <2>1 DEF PutsInTurn, len
<1> QED
  BY <1>6, <1>7

\* put_all adds at most the values it is given to what can be taken.
LEMMA PutAllWithin ==
  ASSUME NEW m \in Nat \ {0}, NEW V, NEW W, NEW r \in Ring(m, V), NEW values \in Seq(V \cap W),
         ToSet(Waiting(r)) \subseteq W
  PROVE  PutAll(r, values) \in Ring(m, V) /\ ToSet(Waiting(PutAll(r, values))) \subseteq W
<1> DEFINE len == Len(values)
<1>1. len \in Nat /\ \A i \in 1 .. len : values[i] \in V \cap W
  OBVIOUS
<1>2. PICK put : PutsInTurn(put, r, values) /\ PutAll(r, values) = put[len]
  BY PutAllSteps
<1>3. PutAll(r, values) = put[len]
  BY <1>2
<1>4. put[0] = r /\ \A i \in 1 .. len : put[i] = PutUnsafe(put[i - 1], values[i])
  BY <1>2 DEF PutsInTurn
<1> HIDE DEF len
<1> DEFINE U == {n \in Nat : n <= len => put[n] \in Ring(m, V) /\ ToSet(Waiting(put[n])) \subseteq W}
<1>5. 0 \in U
  BY <1>4
<1>6. ASSUME NEW n \in U PROVE n + 1 \in U
  <2>1. n \in Nat /\ n + 1 \in Nat
    OBVIOUS
  <2>2. SUFFICES ASSUME n + 1 <= len
                 PROVE  put[n + 1] \in Ring(m, V) /\ ToSet(Waiting(put[n + 1])) \subseteq W
    BY <2>1
  <2>3. n + 1 \in 1 .. len /\ n <= len /\ (n + 1) - 1 = n
    BY <2>1, <2>2, <1>1
  <2>4. put[n] \in Ring(m, V) /\ ToSet(Waiting(put[n])) \subseteq W
    BY <2>3
  <2>5. values[n + 1] \in V \cap W
    BY <2>3, <1>1
  <2>6. put[n + 1] = PutUnsafe(put[n], values[n + 1])
    BY <2>3, <1>4
  <2> DEFINE a == put[n]
             v == values[n + 1]
  <2>7. a \in Ring(m, V) /\ v \in V \cap W /\ ToSet(Waiting(a)) \subseteq W
    BY <2>4, <2>5
  <2> HIDE DEF a, v
  <2>8. PutUnsafe(a, v) \in Ring(m, V) /\ ToSet(Waiting(PutUnsafe(a, v))) \subseteq W
    BY ONLY <2>7, m \in Nat \ {0}, PutUnsafeWithin
  <2> QED
    BY <2>6, <2>8 DEF a, v
<1>7. U = Nat
  BY <1>5, <1>6, SetInduction
<1> QED
  BY <1>1, <1>3, <1>7

-----------------------------------------------------------------------------
(* The two threads                                                         *)

\* The order of the requests.
LEMMA KindProperties ==
  /\ Kind = {"start_learn", "learn", "delete"}
  /\ After("start_learn") = <<"check", "learn">>
  /\ After("learn") = <<"check", "delete">>
  /\ After("delete") = At("take")
<1>1. DOMAIN Kinds = {1, 2, 3} /\ Len(Kinds) = 3 /\ Kinds[1] = "start_learn" /\ Kinds[2] = "learn" /\ Kinds[3] = "delete"
  BY DEF Kinds
<1>2. Kind = {"start_learn", "learn", "delete"}
  BY <1>1 DEF Kind, ToSet
<1>3. Last(Kinds) = "delete"
  BY <1>1 DEF Last
<1>4. 2 .. 3 = {2, 3} /\ 2 - 1 = 1 /\ 3 - 1 = 2
  OBVIOUS
<1>5. (CHOOSE i \in 2 .. 3 : Kinds[i - 1] = "start_learn") = 2
  BY <1>1, <1>4
<1>6. (CHOOSE i \in 2 .. 3 : Kinds[i - 1] = "learn") = 3
  BY <1>1, <1>4
<1> QED
  BY <1>1, <1>2, <1>3, <1>5, <1>6 DEF After

\* Where the worker goes next, it neither serves a request nor fills the ring.
LEMMA AfterPlaces ==
  ASSUME NEW k \in Kind
  PROVE  After(k) \notin {At("clear"), At("put")} /\ After(k) \notin {"serve", "reset"} \X {"learn"}
  BY KindProperties DEF At

LEMMA AsyncInvInit == AsyncInit => AsyncInv
<1> SUFFICES ASSUME AsyncInit PROVE AsyncInv
  OBVIOUS
<1>1. TrackerInv
  BY TrackerInvInit DEF AsyncInit
<1>2. PerceptMask \in Nat \ {0} /\ Torn \in Names /\ MaxId \in Nat
  BY AsyncAssumption, TrackerAssumption
<1>3. percept_buffer \in Ring(PerceptMask, Percept)
  <2>1. NoPercept \in Percept
    BY TrackerAssumption DEF NoPercept, Percept, Ids
  <2> QED
    BY <1>2, <2>1 DEF AsyncInit, NewRing, Ring
<1>4. ToSet(Waiting(percept_buffer)) = {} /\ wpc \notin {At("clear"), At("put")}
  <2>1. percept_buffer.put_ptr = 0 /\ percept_buffer.take_ptr = 0 /\ percept_buffer.mask = PerceptMask
    BY DEF AsyncInit, NewRing
  <2>2. (percept_buffer.put_ptr - percept_buffer.take_ptr) % percept_buffer.mask = 0
    BY <2>1, <1>2
  <2>3. DOMAIN Waiting(percept_buffer) = {}
    BY <2>2 DEF Waiting
  <2> QED
    BY <2>3 DEF ToSet, AsyncInit, At
<1>5. AsyncTypeOK
  BY <1>2, <1>3, KindProperties DEF AsyncTypeOK, AsyncInit, Argument, NoCall
<1>6. PerceptsInv /\ PointersInv
  BY <1>4 DEF PerceptsInv, PointersInv, BatchOfOneFrame, AsyncInit
<1>7. LearnInv
  BY KindProperties DEF LearnInv, AsyncInit, At
<1>8. NoTornName
  <2>1. PICK order \in SetToSeqs(Stored) :
          known_persons = [i \in 1 .. Cardinality(Stored) |-> [name |-> order[i], faces |-> {0}]]
    BY DEF AsyncInit, TrackerInit
  <2>2. order \in [1 .. Cardinality(Stored) -> Stored]
    BY DEF SetToSeqs
  <2>3. Torn \notin Stored
    BY AsyncAssumption
  <2> QED
    BY <2>1, <2>2, <2>3 DEF NoTornName
<1> QED
  BY <1>1, <1>5, <1>6, <1>7, <1>8 DEF AsyncInv

\* Steps that leave the tracker and the percepts alone leave the pointers right.
LEMMA PointersUnchanged ==
  ASSUME PointersInv, UNCHANGED <<trackerVars, percept_buffer, batch>>,
         wpc' \in {At("clear"), At("put")} => wpc \in {At("clear"), At("put")}
  PROVE  PointersInv'
  BY DEF PointersInv, PointsAtOwn, TrackedIds, trackerVars

\* A request: its argument is not read while it is being written, unless it
\* overlaps another one of its kind.
LEMMA RequestInductive ==
  ASSUME AsyncInv,
         (\E k \in Kind : \E a \in Requestable(k) : BeginRequest(k, a)) \/ EndWrite \/ RaiseFlag
  PROVE  AsyncInv'
<1>0. TrackerInv /\ AsyncTypeOK /\ PerceptsInv /\ PointersInv /\ LearnInv /\ NoTornName
  BY DEF AsyncInv
<1>1. /\ TrackerInv /\ AsyncTypeOK /\ PerceptsInv /\ PointersInv /\ LearnInv /\ NoTornName
      /\ UNCHANGED <<trackerVars, ringVars, wpc, batch>>
  <2>1. ASSUME NEW k, NEW a, BeginRequest(k, a) PROVE UNCHANGED <<trackerVars, ringVars, wpc, batch>>
    BY <2>1 DEF BeginRequest
  <2>2. ASSUME EndWrite \/ RaiseFlag PROVE UNCHANGED <<trackerVars, ringVars, wpc, batch>>
    BY <2>2 DEF EndWrite, RaiseFlag
  <2>3. UNCHANGED <<trackerVars, ringVars, wpc, batch>>
    BY <2>1, <2>2
  <2> QED
    BY <1>0, <2>3
<1>2. TrackerInv' /\ PerceptsInv' /\ PointersInv'
  BY <1>1, TrackerUnchanged DEF PerceptsInv, PointersInv, PointsAtOwn, TrackedIds, BatchOfOneFrame, ringVars, trackerVars
<1>3. \A k \in Kind : Argument(k) \subseteq 0 .. MaxId \cup Names
  BY DEF Argument
<1>4. /\ overlapped' \in [Kind -> {"never", "earlier", "now"}]
      /\ overlapped'["learn"] = "never" => overlapped["learn"] = "never"
      /\ UNCHANGED known_persons /\ UNCHANGED percept_buffer
  <2> DEFINE Kept0 == overlapped' \in [Kind -> {"never", "earlier", "now"}]
                        /\ (overlapped'["learn"] = "never" => overlapped["learn"] = "never")
  <2>0. overlapped \in [Kind -> {"never", "earlier", "now"}] /\ "learn" \in Kind
    BY <1>1, KindProperties DEF AsyncTypeOK
  <2>1. ASSUME NEW k \in Kind, NEW a, BeginRequest(k, a) PROVE Kept0
    BY <2>0, <2>1 DEF BeginRequest
  <2>2. ASSUME EndWrite \/ RaiseFlag PROVE Kept0
    BY <2>0, <2>2 DEF EndWrite, RaiseFlag
  <2>3. Kept0
    BY <2>1, <2>2
  <2> QED
    BY <1>1, <2>3 DEF trackerVars, ringVars
<1>5. NoTornName'
  BY <1>1, <1>4 DEF NoTornName
<1>6. ASSUME NEW k \in Kind, NEW a \in Requestable(k), BeginRequest(k, a)
      PROVE  AsyncTypeOK' /\ LearnInv'
  <2>1. a \in Argument(k) /\ a # Torn
    BY AsyncAssumption DEF Requestable, Argument
  <2>2. (IF k = "start_learn" THEN a ELSE Torn) \in Argument(k)
    BY <2>1, AsyncAssumption DEF Argument
  <2>3. /\ arg' = [arg EXCEPT ![k] = IF k = "start_learn" THEN a ELSE Torn]
        /\ call' = [kind |-> k, arg |-> a] /\ ppc' = "write" /\ UNCHANGED flag
        /\ k = "learn" /\ overlapped'[k] = "never" => ~flag[k] /\ wpc \notin {"serve", "reset"} \X {k}
    BY <1>1, <1>6 DEF BeginRequest, AsyncTypeOK
  <2>4. AsyncTypeOK'
    BY <1>1, <1>3, <1>4, <2>1, <2>2, <2>3 DEF AsyncTypeOK
  <2>5. LearnInv'
    <3>1. arg'["learn"] = arg["learn"] \/ k = "learn"
      BY <1>1, <2>3, KindProperties DEF AsyncTypeOK
    <3>2. /\ call'.kind = k /\ call'.arg = a /\ ppc' = "write" /\ wpc' = wpc /\ flag' = flag
          /\ overlapped'["learn"] = "never" => overlapped["learn"] = "never"
          /\ k = "learn" /\ overlapped'["learn"] = "never" =>
               ~flag["learn"] /\ wpc \notin {"serve", "reset"} \X {"learn"}
      BY <1>1, <1>4, <2>3
    <3>3. LearnInv
      BY <1>1
    <3> QED
      BY ONLY <2>1, <3>1, <3>2, <3>3 DEF LearnInv
  <2> QED
    BY <2>4, <2>5
<1>7. ASSUME EndWrite
      PROVE  AsyncTypeOK' /\ LearnInv'
  <2>1. /\ ppc = "write" /\ arg' = [arg EXCEPT ![call.kind] = call.arg] /\ ppc' = "raise"
        /\ UNCHANGED <<flag, call, overlapped>>
    BY <1>7 DEF EndWrite
  <2>2. AsyncTypeOK'
    BY <1>1, <1>3, <1>4, <2>1 DEF AsyncTypeOK
  <2>3. LearnInv'
    BY <1>1, <2>1, KindProperties DEF AsyncTypeOK, LearnInv
  <2> QED
    BY <2>2, <2>3
<1>8. ASSUME RaiseFlag
      PROVE  AsyncTypeOK' /\ LearnInv'
  <2>1. /\ ppc = "raise" /\ flag' = [flag EXCEPT ![call.kind] = TRUE] /\ call' = NoCall /\ ppc' = "idle"
        /\ UNCHANGED <<arg, overlapped>>
    BY <1>8 DEF RaiseFlag
  <2>2. AsyncTypeOK'
    BY <1>1, <1>4, <2>1, KindProperties, AsyncAssumption DEF AsyncTypeOK, NoCall, Argument
  <2>3. LearnInv'
    BY <1>1, <2>1, KindProperties DEF AsyncTypeOK, LearnInv
  <2> QED
    BY <2>2, <2>3
<1> QED
  BY <1>2, <1>5, <1>6, <1>7, <1>8 DEF AsyncInv

\* A step of the worker ages the percepts in the ring and those taken alike.
LEMMA AgedRing ==
  ASSUME NEW m \in Nat \ {0}, NEW V, NEW r \in Ring(m, V), NEW G \in [V -> V],
         NEW q, q = [r EXCEPT !.buffer = [i \in DOMAIN r.buffer |-> G[r.buffer[i]]]]
  PROVE  q \in Ring(m, V) /\ ToSet(Waiting(q)) = {G[p] : p \in ToSet(Waiting(r))} /\ ToSet(Waiting(r)) \subseteq V
<1>1. r.buffer \in [0 .. m -> V] /\ r.put_ptr \in 0 .. m - 1 /\ r.take_ptr \in 0 .. m - 1 /\ r.mask = m
  BY DEF Ring
<1>2. /\ q \in Ring(m, V) /\ q.buffer = [i \in 0 .. m |-> G[r.buffer[i]]]
      /\ q.put_ptr = r.put_ptr /\ q.take_ptr = r.take_ptr
  BY <1>1 DEF Ring
<1> DEFINE n == (r.put_ptr - r.take_ptr) % m
           at(i) == (r.take_ptr + i - 1) % m
<1>3. /\ Waiting(r) \in Seq(V) /\ Len(Waiting(r)) = n
      /\ \A i \in 1 .. n : Waiting(r)[i] = r.buffer[at(i)] /\ at(i) \in 0 .. m - 1
  BY WaitingElements
<1>4. /\ Waiting(q) \in Seq(V) /\ Len(Waiting(q)) = n
      /\ \A i \in 1 .. n : Waiting(q)[i] = q.buffer[at(i)]
  <2>1. /\ Waiting(q) \in Seq(V) /\ Len(Waiting(q)) = (q.put_ptr - q.take_ptr) % m
        /\ \A i \in 1 .. Len(Waiting(q)) : Waiting(q)[i] = q.buffer[(q.take_ptr + i - 1) % m]
    BY ONLY <1>2, m \in Nat \ {0}, WaitingElements
  <2> QED
    BY ONLY <1>2, <2>1
<1> HIDE DEF n, at
<1>5. /\ DOMAIN Waiting(r) = 1 .. n /\ DOMAIN Waiting(q) = 1 .. n
      /\ \A i \in 1 .. n : Waiting(r)[i] \in V
  BY <1>3, <1>4
<1>6. ASSUME NEW i \in 1 .. n PROVE Waiting(q)[i] = G[Waiting(r)[i]]
  <2>1. at(i) \in 0 .. m /\ Waiting(r)[i] = r.buffer[at(i)] /\ Waiting(q)[i] = q.buffer[at(i)]
    <3>1. i \in 1 .. n /\ m \in Nat \ {0}
      OBVIOUS
    <3> QED
      BY ONLY <1>3, <1>4, <3>1
  <2> QED
    BY ONLY <1>2, <2>1
<1> QED
  BY ONLY <1>2, <1>5, <1>6 DEF ToSet

\* Whom the worker's step has not moved, that person its percept still points at.
Right(p) == p.place \in DOMAIN persons' /\ persons'[p.place].id = p.id

LEMMA AgeSound ==
  ASSUME AsyncInv, NEW new \in BOOLEAN, Age(new), wpc \notin {At("clear"), At("put")},
         wpc' \notin {At("put")},
         wpc' = At("clear") =>
           \A i \in DOMAIN published' : published'[i].id \in TrackedIds' => Right(published'[i]),
         \A i \in DOMAIN persons :
           (next_id' = next_id /\ \A g \in 1 .. i : persons[g].id \in TrackedIds') =>
             i \in DOMAIN persons' /\ persons'[i].id = persons[i].id
  PROVE  percept_buffer' \in Ring(PerceptMask, Percept) /\ batch' \subseteq Percept /\ PerceptsInv' /\ PointersInv'
<1> DEFINE G == [p \in Percept |-> Later(p, new)]
           Q == ToSet(Waiting(percept_buffer))
<1>1. /\ percept_buffer \in Ring(PerceptMask, Percept) /\ PerceptMask \in Nat \ {0} /\ batch \subseteq Percept
      /\ \A p, q \in Q : p.old = q.old
      /\ \A p, q \in batch : p.old = q.old
      /\ \A p \in Q \cup batch : ~p.moved => PointsAtOwn(p)
  BY AsyncAssumption DEF AsyncInv, AsyncTypeOK, PerceptsInv, PointersInv, BatchOfOneFrame
<1>2. ASSUME NEW p \in Percept
      PROVE  /\ Later(p, new) \in Percept /\ Later(p, new).old = (p.old \/ new)
             /\ (~p.moved => PointsAtOwn(p)) => (~Later(p, new).moved => Right(Later(p, new)))
  <2> DEFINE moves == \/ p.moved \/ next_id' # next_id
                      \/ \E i \in DOMAIN persons : persons[i].id = p.id
                            /\ \E g \in 1 .. i : persons[g].id \notin TrackedIds'
             q == Later(p, new)
  <2>1. q = [p EXCEPT !.old = p.old \/ new, !.moved = moves]
    BY DEF Later
  <2>2. p.old \in BOOLEAN /\ (p.old \/ new) \in BOOLEAN /\ moves \in BOOLEAN
    BY DEF Percept
  <2> HIDE DEF moves, q
  <2>3. q \in Percept /\ q.old = (p.old \/ new) /\ q.moved = moves /\ q.id = p.id /\ q.place = p.place
    BY <2>1, <2>2 DEF Percept
  <2>4. ASSUME PointsAtOwn(p), ~moves PROVE p.place \in DOMAIN persons' /\ persons'[p.place].id = p.id
    <3>1. p.place \in DOMAIN persons /\ persons[p.place].id = p.id
      BY <2>4 DEF PointsAtOwn
    <3>2. next_id' = next_id /\ \A g \in 1 .. p.place : persons[g].id \in TrackedIds'
      BY <2>4, <3>1 DEF moves
    <3> QED
      BY <3>1, <3>2
  <2>5. ~moves => ~p.moved
    BY DEF moves
  <2> QED
    BY <2>3, <2>4, <2>5 DEF q, Right
<1>3. G \in [Percept -> Percept]
  BY <1>2
<1>4. /\ percept_buffer' = [percept_buffer EXCEPT !.buffer = [i \in DOMAIN percept_buffer.buffer |-> G[percept_buffer.buffer[i]]]]
      /\ batch' = {G[p] : p \in batch}
  <2>1. \A i \in DOMAIN percept_buffer.buffer : percept_buffer.buffer[i] \in Percept
    BY <1>1 DEF Ring
  <2> QED
    BY <1>1, <2>1 DEF Age
<1>5. \A p \in Percept : G[p].old = (p.old \/ new) /\ ((~p.moved => PointsAtOwn(p)) => (~G[p].moved => Right(G[p])))
  BY <1>2
<1> HIDE DEF G
<1>6. percept_buffer' \in Ring(PerceptMask, Percept) /\ ToSet(Waiting(percept_buffer')) = {G[p] : p \in Q} /\ Q \subseteq Percept
  BY <1>1, <1>3, <1>4, AgedRing
<1> HIDE DEF Q
<1>7. PerceptsInv'
  BY <1>1, <1>4, <1>5, <1>6 DEF PerceptsInv, BatchOfOneFrame
<1>8. PointersInv'
  BY <1>1, <1>4, <1>5, <1>6 DEF PointersInv, PointsAtOwn, Right
<1>9. batch' \subseteq Percept
  BY <1>1, <1>3, <1>4
<1> QED
  BY <1>6, <1>7, <1>8, <1>9

\* What the worker does between two frames: only a name that it may read is
\* learned.
LEMMA ServeInductive ==
  ASSUME AsyncInv, NEW k \in Kind, Serve(k)
  PROVE  AsyncInv'
<1>1. /\ TrackerInv /\ AsyncTypeOK /\ PerceptsInv /\ PointersInv /\ LearnInv /\ NoTornName
      /\ wpc = <<"serve", k>> /\ wpc' = <<"reset", k>>
      /\ UNCHANGED <<flag, arg, call, overlapped, ppc>> /\ Age(FALSE)
      /\ \E a : StartLearn(a) \/ Learn(a) \/ DeletePerson(a)
  BY DEF AsyncInv, Serve, requestVars
<1>2. AsyncTypeOK' /\ PerceptsInv' /\ PointersInv' /\ LearnInv'
  <2>1. ASSUME NEW i \in DOMAIN persons, next_id' = next_id, \A g \in 1 .. i : persons[g].id \in TrackedIds'
        PROVE  i \in DOMAIN persons' /\ persons'[i].id = persons[i].id
    BY <1>1, <2>1, RequestKeepsPlaces
  <2>2. percept_buffer' \in Ring(PerceptMask, Percept) /\ batch' \subseteq Percept /\ PerceptsInv' /\ PointersInv'
    BY <1>1, <2>1, AgeSound DEF At
  <2> QED
    BY <1>1, <2>2 DEF AsyncTypeOK, LearnInv
<1>3. /\ k = "start_learn" => arg[k] \in 0 .. MaxId
      /\ k # "start_learn" => arg[k] \in Names
  BY <1>1 DEF AsyncTypeOK, Argument
<1>4. CASE k = "start_learn" /\ StartLearn(arg[k])
  <2>1. TrackerInv'
    BY <1>1, <1>3, <1>4, StartLearnInductive
  <2>2. NoTornName'
    BY <1>1, <1>4 DEF NoTornName, StartLearn
  <2> QED
    BY <1>2, <2>1, <2>2 DEF AsyncInv
<1>5. CASE k = "learn" /\ Learn(arg[k])
  <2>1. TrackerInv'
    BY <1>1, <1>3, <1>5, LearnInductive
  <2>2. NoTornName'
    <3> DEFINE Known == [name : Names, faces : SUBSET (0 .. MaxId)]
               entry == [name |-> arg[k], faces |-> learning_buffer]
    <3>1. known_persons \in Seq(Known)
      BY <1>1 DEF TrackerInv, IdentitiesSound, TrackerTypeOK
    <3>2. known_persons' = Append(known_persons, entry) /\ entry.name = arg[k]
      BY <1>5 DEF Learn
    <3>3. overlapped["learn"] = "never" => entry.name # Torn
      BY <1>1, <1>5, <3>2 DEF LearnInv
    <3> HIDE DEF Known, entry
    <3>4. ASSUME NEW i \in DOMAIN known_persons'
          PROVE  (i \in DOMAIN known_persons /\ known_persons'[i] = known_persons[i]) \/ known_persons'[i] = entry
      BY <3>1, <3>2
    <3> QED
      BY <1>1, <3>3, <3>4 DEF NoTornName
  <2> QED
    BY <1>2, <2>1, <2>2 DEF AsyncInv
<1>6. CASE k = "delete" /\ DeletePerson(arg[k])
  <2>1. TrackerInv'
    BY <1>1, <1>3, <1>6, DeletePersonInductive
  <2>2. NoTornName'
    <3> DEFINE Known == [name : Names, faces : SUBSET (0 .. MaxId)]
               K == {i \in DOMAIN known_persons : known_persons[i].name # arg[k]}
               n == Cardinality(K)
    <3>1. known_persons \in Seq(Known)
      BY <1>1 DEF TrackerInv, IdentitiesSound, TrackerTypeOK
    <3>2. known_persons' = Kept(known_persons, K) /\ K \in SUBSET DOMAIN known_persons
      BY <1>6 DEF DeletePerson
    <3> HIDE DEF Known, K
    <3>3. /\ DOMAIN known_persons' = 1 .. n
          /\ \E f \in [1 .. n -> K] : \A i \in 1 .. n : known_persons'[i] = known_persons[f[i]]
      <4>1. /\ DOMAIN Kept(known_persons, K) = 1 .. n
            /\ \E f : Selects(f, K, n, known_persons, Kept(known_persons, K))
        BY <3>1, <3>2, KeptProperties
      <4> QED
        BY <3>2, <4>1 DEF Selects
    <3> HIDE DEF n
    <3> QED
      BY <1>1, <3>2, <3>3 DEF NoTornName
  <2> QED
    BY <1>2, <2>1, <2>2 DEF AsyncInv
<1> QED
  BY <1>4, <1>5, <1>6 DEF Serve

\* The worker's steps around the flags, and the steps that touch neither
\* requests nor percepts.
LEMMA ControlInductive ==
  ASSUME AsyncInv,
         \/ LoopTest \/ TakeFrame \/ BeginShutdown \/ JoinWorker \/ UNCHANGED asyncVars
         \/ \E k \in Kind : CheckFlag(k) \/ ResetFlag(k)
  PROVE  AsyncInv'
<1>1. /\ TrackerInv /\ AsyncTypeOK /\ PerceptsInv /\ PointersInv /\ LearnInv /\ NoTornName
      /\ UNCHANGED <<trackerVars, percept_buffer, arg, call, overlapped, batch>>
  BY DEF AsyncInv, LoopTest, TakeFrame, BeginShutdown, JoinWorker, CheckFlag, ResetFlag, asyncVars, ringVars, requestVars
<1>2. TrackerInv' /\ NoTornName'
  BY <1>1, TrackerUnchanged DEF NoTornName, trackerVars
<1>3. CASE LoopTest \/ TakeFrame \/ BeginShutdown \/ JoinWorker \/ UNCHANGED asyncVars
  <2>1. /\ flag' = flag /\ (ppc' = ppc \/ ppc' \notin {"write", "raise"})
        /\ (wpc' = wpc \/ (wpc' \notin {At("clear"), At("put")} /\ wpc' \notin {"serve", "reset"} \X {"learn"}))
    <3>1. Head(Kinds) = "start_learn"
      BY DEF Kinds
    <3> QED
      BY <1>3, <3>1 DEF LoopTest, TakeFrame, BeginShutdown, JoinWorker, asyncVars, requestVars, At
  <2> QED
    BY <1>1, <1>2, <2>1, PointersUnchanged DEF AsyncInv, AsyncTypeOK, PerceptsInv, BatchOfOneFrame, LearnInv
<1>4. ASSUME NEW k \in Kind, CheckFlag(k)
      PROVE  AsyncInv'
  <2>1. UNCHANGED <<flag, ppc>> /\ wpc' = IF flag[k] THEN <<"serve", k>> ELSE After(k)
    BY <1>4 DEF CheckFlag, requestVars
  <2>2. wpc' \notin {At("clear"), At("put")} /\ (wpc' \in {"serve", "reset"} \X {"learn"} => flag["learn"])
    BY <2>1, AfterPlaces DEF At
  <2> QED
    BY <1>1, <1>2, <2>1, <2>2, PointersUnchanged DEF AsyncInv, AsyncTypeOK, PerceptsInv, BatchOfOneFrame, LearnInv
<1>5. ASSUME NEW k \in Kind, ResetFlag(k)
      PROVE  AsyncInv'
  <2>1. UNCHANGED ppc /\ flag' = [flag EXCEPT ![k] = FALSE] /\ wpc' = After(k)
    BY <1>5 DEF ResetFlag
  <2>2. wpc' \notin {At("clear"), At("put")} /\ wpc' \notin {"serve", "reset"} \X {"learn"}
    BY <2>1, AfterPlaces
  <2>3. flag' \in [Kind -> BOOLEAN] /\ (flag'["learn"] => flag["learn"])
    BY <1>1, <2>1, KindProperties DEF AsyncTypeOK
  <2> QED
    BY <1>1, <1>2, <2>1, <2>2, <2>3, PointersUnchanged DEF AsyncInv, AsyncTypeOK, PerceptsInv, BatchOfOneFrame, LearnInv
<1> QED
  BY <1>3, <1>4, <1>5

\* The percepts: the ring is refilled only when it is empty, so that what is
\* taken at any time is of one frame.
LEMMA PerceptsInductive ==
  ASSUME AsyncInv, PutFrame \/ TakePercepts \/ ProcessFrame \/ ClearPercepts \/ PutPercepts
  PROVE  AsyncInv'
<1>1. /\ TrackerInv /\ AsyncTypeOK /\ PerceptsInv /\ PointersInv /\ LearnInv /\ NoTornName
      /\ UNCHANGED <<known_persons, flag, arg, call, overlapped>>
      /\ (ppc' = ppc \/ ppc' \notin {"write", "raise"})
      /\ (wpc' = wpc \/ wpc' \notin {"serve", "reset"} \X {"learn"})
  <2>1. UNCHANGED <<known_persons, flag, arg, call, overlapped>>
    BY DEF PutFrame, TakePercepts, ProcessFrame, Process, ClearPercepts, PutPercepts, requestVars, trackerVars
  <2>2. /\ (ppc' = ppc \/ ppc' \notin {"write", "raise"})
        /\ (wpc' = wpc \/ wpc' \notin {"serve", "reset"} \X {"learn"})
    <3>1. ASSUME PutFrame \/ TakePercepts PROVE ppc' \notin {"write", "raise"} /\ wpc' = wpc
      BY ONLY <3>1 DEF PutFrame, TakePercepts
    <3>2. ASSUME ProcessFrame \/ ClearPercepts
          PROVE  ppc' = ppc /\ wpc' \notin {"serve", "reset"} \X {"learn"}
      <4>1. ppc' = ppc /\ (wpc' = <<"clear", "none">> \/ wpc' = <<"put", "none">>)
        BY ONLY <3>2 DEF ProcessFrame, ClearPercepts, At
      <4> QED
        BY ONLY <4>1
    <3>3. ASSUME PutPercepts PROVE ppc' = ppc /\ wpc' \notin {"serve", "reset"} \X {"learn"}
      BY ONLY <3>3 DEF PutPercepts, At
    <3> QED
      BY <3>1, <3>2, <3>3
  <2> QED
    BY <2>1, <2>2 DEF AsyncInv
<1>2. LearnInv' /\ NoTornName'
  BY <1>1 DEF LearnInv, NoTornName
<1>3. SUFFICES TrackerInv' /\ PerceptsInv' /\ PointersInv' /\ percept_buffer' \in Ring(PerceptMask, Percept) /\ batch' \subseteq Percept
  BY <1>1, <1>2 DEF AsyncInv, AsyncTypeOK
<1>4. /\ percept_buffer \in Ring(PerceptMask, Percept) /\ batch \subseteq Percept
      /\ PerceptMask \in Nat \ {0}
  BY <1>1, AsyncAssumption DEF AsyncTypeOK
<1>5. /\ Emptied(percept_buffer) \in Ring(PerceptMask, Percept) /\ IsEmpty(Emptied(percept_buffer))
      /\ ToSet(Waiting(Emptied(percept_buffer))) = {}
  BY <1>4, EmptiedRing
<1>6. CASE PutFrame
  <2>1. UNCHANGED <<trackerVars, percept_buffer, wpc, batch>>
    BY <1>6 DEF PutFrame
  <2> QED
    BY <1>1, <1>4, <2>1, TrackerUnchanged, PointersUnchanged DEF PerceptsInv, BatchOfOneFrame
<1>7. CASE TakePercepts
  <2>1. /\ UNCHANGED <<trackerVars, wpc>>
        /\ batch' = ToSet(Waiting(percept_buffer)) /\ percept_buffer' = Emptied(percept_buffer)
    BY <1>7 DEF TakePercepts
  <2>2. ToSet(Waiting(percept_buffer)) \subseteq Percept
    <3>1. Waiting(percept_buffer) \in Seq(Percept)
      BY <1>4, WaitingElements
    <3> QED
      BY <3>1 DEF ToSet
  <2>3. PointersInv'
    BY <1>1, <1>5, <2>1 DEF PointersInv, PointsAtOwn, TrackedIds, trackerVars
  <2> QED
    BY <1>1, <1>4, <1>5, <2>1, <2>2, <2>3, TrackerUnchanged DEF PerceptsInv, BatchOfOneFrame
<1>8. CASE ProcessFrame
  <2>1. PICK scan \in Scans, unused \in Unused : Process(scan, unused)
    BY <1>8 DEF ProcessFrame
  <2>2. TrackerInv'
    BY <1>1, <2>1, ProcessInductive
  <2>3. Age(TRUE) /\ wpc = At("process") /\ wpc' = At("clear")
    BY <1>8 DEF ProcessFrame
  <2>4. ASSUME NEW i \in DOMAIN published', published'[i].id \in TrackedIds'
        PROVE  Right(published'[i])
    <3>1. PICK j \in DOMAIN persons' : persons'[j].id = published'[i].id
      BY <2>4 DEF TrackedIds
    <3> QED
      BY <1>1, <2>1, <3>1, ProcessPlaces DEF Right
  <2>5. ASSUME NEW i \in DOMAIN persons, next_id' = next_id, \A g \in 1 .. i : persons[g].id \in TrackedIds'
        PROVE  i \in DOMAIN persons' /\ persons'[i].id = persons[i].id
    BY <1>1, <2>1, <2>5, ProcessKeepsPlaces
  <2>6. percept_buffer' \in Ring(PerceptMask, Percept) /\ batch' \subseteq Percept /\ PerceptsInv' /\ PointersInv'
    BY <2>3, <2>4, <2>5, AgeSound DEF At
  <2> QED
    BY <2>2, <2>6
<1>9. CASE ClearPercepts
  <2>1. /\ UNCHANGED <<trackerVars, batch>> /\ percept_buffer' = Emptied(percept_buffer)
        /\ wpc = At("clear")
    BY <1>9 DEF ClearPercepts
  <2>2. PointersInv'
    BY <1>1, <1>5, <2>1 DEF PointersInv, PointsAtOwn, TrackedIds, trackerVars
  <2> QED
    BY <1>1, <1>4, <1>5, <2>1, <2>2, TrackerUnchanged DEF PerceptsInv, BatchOfOneFrame
<1>10. CASE PutPercepts
  <2> DEFINE values == [i \in DOMAIN published |->
                          [id |-> published[i].id, place |-> published[i].place,
                           old |-> FALSE, moved |-> published[i].id \notin TrackedIds]]
             F == {p \in Percept : ~p.old /\ (~p.moved => PointsAtOwn(p))}
  <2>1. /\ UNCHANGED <<persons, known_persons, next_id, learning_buffer, learning_id, batch>> /\ published' = <<>>
        /\ wpc = At("put") /\ wpc' \notin {At("clear"), At("put")} /\ IsEmpty(percept_buffer)
        /\ percept_buffer' = PutAll(percept_buffer, values)
    BY <1>1, <1>10 DEF PutPercepts, PerceptsInv, At
  <2>2. values \in Seq(Percept \cap F)
    <3>1. published \in Seq(Published)
      BY <1>1 DEF TrackerInv, IdentitiesSound, TrackerTypeOK
    <3>2. Len(published) \in Nat /\ DOMAIN published = 1 .. Len(published) /\ \A i \in DOMAIN published : published[i] \in Published
      BY <3>1
    <3>3. ASSUME NEW i \in 1 .. Len(published) PROVE values[i] \in Percept \cap F
      <4>1. published[i] \in Published /\ (published[i].id \in TrackedIds => PointsAtOwn(published[i]))
        BY <1>1, <2>1, <3>2 DEF PointersInv
      <4>2. values[i] = [id |-> published[i].id, place |-> published[i].place,
                         old |-> FALSE, moved |-> published[i].id \notin TrackedIds]
        BY <3>2
      <4>3. published[i].id \in Ids /\ published[i].place \in Nat \ {0} /\ (published[i].id \notin TrackedIds) \in BOOLEAN
        BY <4>1 DEF Published
      <4> HIDE DEF values
      <4>4. values[i] \in Percept /\ ~values[i].old
        BY <4>2, <4>3 DEF Percept
      <4>5. ~values[i].moved => PointsAtOwn(values[i])
        <5>1. /\ values[i].id = published[i].id /\ values[i].place = published[i].place
              /\ values[i].moved = (published[i].id \notin TrackedIds)
          BY <4>2
        <5> QED
          BY <4>1, <5>1 DEF PointsAtOwn
      <4> QED
        BY <4>4, <4>5
    <3>4. values = [i \in 1 .. Len(published) |-> values[i]]
      BY <3>2
    <3> HIDE DEF values, F
    <3>5. values \in [1 .. Len(published) -> Percept \cap F]
      BY <3>3, <3>4
    <3> QED
      BY <3>2, <3>5, SMTT(60)
  <2>3. ToSet(Waiting(percept_buffer)) = {}
    <3>1. (percept_buffer.put_ptr - percept_buffer.take_ptr) % percept_buffer.mask = 0
      <4>1. percept_buffer.put_ptr \in Int /\ percept_buffer.mask = PerceptMask
        BY <1>4 DEF Ring
      <4> QED
        BY <1>4, <2>1, <4>1 DEF IsEmpty
    <3>2. DOMAIN Waiting(percept_buffer) = {}
      BY <3>1 DEF Waiting
    <3> QED
      BY <3>2 DEF ToSet
  <2> HIDE DEF values, F
  <2>4. /\ PutAll(percept_buffer, values) \in Ring(PerceptMask, Percept)
        /\ ToSet(Waiting(PutAll(percept_buffer, values))) \subseteq F
    BY <1>4, <2>2, <2>3, PutAllWithin
  <2>5. TrackerInv'
    <3>1. published' \in Seq(Published) /\ DOMAIN published' = {}
      BY <2>1
    <3> QED
      BY <1>1, <2>1, <3>1 DEF TrackerInv, IdentitiesSound, TrackerTypeOK, IdsUnique, NamesAreKnown, OnePerceptPerName,
                              BufferInv, FacesInv
  <2>6. \A p \in ToSet(Waiting(percept_buffer')) : ~p.old /\ p \in Percept /\ (~p.moved => PointsAtOwn(p))
    BY <2>1, <2>4 DEF F
  <2>7. PerceptsInv'
    BY <1>1, <2>1, <2>6 DEF PerceptsInv, BatchOfOneFrame, Percept
  <2>8. PointersInv'
    BY <1>1, <2>1, <2>6 DEF PointersInv, PointsAtOwn
  <2> QED
    BY <1>4, <2>1, <2>4, <2>5, <2>7, <2>8
<1> QED
  BY <1>6, <1>7, <1>8, <1>9, <1>10

\* The two threads keep the invariant, the tracker's included.
THEOREM AsyncInvariant == AsyncSpec => []AsyncInv
<1>1. AsyncInv /\ [AsyncNext]_asyncVars => AsyncInv'
  BY RequestInductive, ServeInductive, ControlInductive, PerceptsInductive
  DEF AsyncNext, WorkerStep, PerceptionStep
<1> QED
  BY <1>1, AsyncInvInit, PTL DEF AsyncSpec

\* HandoversWhole: take_all returns percepts of a single frame, although the
\* worker clears and refills the ring in two critical sections; no half-written
\* name is learned unless requests of one kind overlap; and the pointer in a
\* percept leads to the name of its own person, for any number of persons,
\* until that person or one before it is erased, or the vector grows.
THEOREM AsyncHandovers == AsyncSpec => []HandoversWhole
<1>1. AsyncInv => HandoversWhole
  BY DEF AsyncInv, PerceptsInv, PointersInv, HandoversWhole, NamesOfTheirOwn
<1> QED
  BY <1>1, AsyncInvariant, PTL

\* IdentitiesSound and LearnedFromOnePerson hold behind the worker thread as
\* they do for a tracker that one thread calls, torn names included.
THEOREM AsyncIdentities == AsyncSpec => [](IdentitiesSound /\ LearnedFromOnePerson)
<1>1. AsyncInv => IdentitiesSound /\ LearnedFromOnePerson
  BY AtMostOne DEF AsyncInv, TrackerInv, FacesInv, LearnedFromOnePerson
<1> QED
  BY <1>1, AsyncInvariant, PTL

-----------------------------------------------------------------------------
(* The order of what waits in a ring                                       *)

\* put_unsafe appends while there is room, which is for m - 1 values.  When
\* there is none it refuses the value, or, if take_ptr is 0, loses them all.
LEMMA PutUnsafeLine ==
  ASSUME NEW m \in Nat \ {0}, NEW V, NEW r \in Ring(m, V), NEW v \in V
  PROVE  /\ PutUnsafe(r, v) \in Ring(m, V) /\ PutUnsafe(r, v).take_ptr = r.take_ptr
         /\ Len(Waiting(r)) < m - 1 => Waiting(PutUnsafe(r, v)) = Append(Waiting(r), v)
         /\ Len(Waiting(r)) = m - 1 /\ r.take_ptr # 0 => PutUnsafe(r, v) = r
         /\ Len(Waiting(r)) = m - 1 /\ r.take_ptr = 0 => Waiting(PutUnsafe(r, v)) = <<>>
<1> DEFINE q == PutUnsafe(r, v)
           t == r.take_ptr
           p == r.put_ptr
           b == r.buffer
           n == Len(Waiting(r))
           next == (p + 1) % m
           c == [b EXCEPT ![p] = v]
<1>1. r.mask = m /\ t \in 0 .. m - 1 /\ p \in 0 .. m - 1 /\ b \in [0 .. m -> V]
  BY DEF Ring
<1>2. /\ Waiting(r) \in Seq(V) /\ n = (p - t) % m /\ n \in 0 .. m - 1
      /\ \A i \in 1 .. n : Waiting(r)[i] = b[(t + i - 1) % m] /\ (t + i - 1) % m \in 0 .. m - 1
  BY WaitingElements
<1>3. n = IF t <= p THEN p - t ELSE p - t + m
  <2> HIDE DEF t, p, n
  <2> QED
    BY <1>1, <1>2, RingDistance
<1>4. IsFull(r) <=> p - t = -1
  <2>1. IsFull(r) <=> (p - t) % (m + 1) = m
    BY <1>1 DEF IsFull
  <2> HIDE DEF t, p
  <2>2. p \in 0 .. (m + 1) - 1 /\ t \in 0 .. (m + 1) - 1 /\ m + 1 \in Nat \ {0}
    BY <1>1
  <2>3. (p - t) % (m + 1) = IF t <= p THEN p - t ELSE p - t + (m + 1)
    BY <2>2, RingDistance
  <2> QED
    BY <1>1, <2>1, <2>3
<1>5. CASE IsFull(r)
  <2>1. q = r
    BY <1>5 DEF PutUnsafe
  <2>2. n = m - 1 /\ t # 0
    <3> HIDE DEF t, p, n
    <3> QED
      BY <1>1, <1>3, <1>4, <1>5
  <2> QED
    BY <2>1, <2>2
<1>6. CASE ~IsFull(r)
  <2>1. next \in 0 .. m - 1 /\ c \in [0 .. m -> V] /\ \A s \in 0 .. m : c[s] = IF s = p THEN v ELSE b[s]
    BY <1>1
  <2>2. q = [r EXCEPT !.buffer = c, !.put_ptr = next]
    BY <1>1, <1>6 DEF PutUnsafe
  <2>3. next = IF p + 1 < m THEN p + 1 ELSE 0
    <3> HIDE DEF p
    <3> DEFINE x == p + 1
    <3>1. x \in Int /\ 0 <= x /\ x < m + m
      BY <1>1
    <3> HIDE DEF x
    <3>2. x % m = IF x < m THEN x ELSE x - m
      BY ONLY <3>1, m \in Nat \ {0}, RingPosition
    <3> QED
      BY <1>1, <3>1, <3>2 DEF x
  <2> HIDE DEF next, c
  <2>4. q \in Ring(m, V) /\ q.take_ptr = t /\ q.put_ptr = next /\ q.buffer = c
    BY <2>1, <2>2 DEF Ring
  <2> HIDE DEF q
  <2> DEFINE k == Len(Waiting(q))
  <2>5. /\ Waiting(q) \in Seq(V) /\ k = (next - t) % m
        /\ \A i \in 1 .. k : Waiting(q)[i] = c[(t + i - 1) % m]
    <3>1. /\ Waiting(q) \in Seq(V) /\ Len(Waiting(q)) = (q.put_ptr - q.take_ptr) % m
          /\ \A i \in 1 .. Len(Waiting(q)) : Waiting(q)[i] = q.buffer[(q.take_ptr + i - 1) % m]
      BY <2>4, WaitingElements
    <3> QED
      BY <2>4, <3>1
  <2> HIDE DEF k, t, p, b, n
  <2>6. k = IF t <= next THEN next - t ELSE next - t + m
    BY <1>1, <2>1, <2>5, RingDistance
  <2>7. (n < m - 1 => k = n + 1) /\ (n = m - 1 => t = 0 /\ k = 0)
    BY <1>1, <1>2, <1>3, <1>4, <1>6, <2>3, <2>6
  <2>8. CASE n < m - 1
    <3> DEFINE a == Append(Waiting(r), v)
    <3>1. k = n + 1 /\ k \in Nat /\ n \in Nat
      BY <1>2, <2>7, <2>8
    <3>2. /\ a \in Seq(V) /\ Len(a) = n + 1 /\ a[n + 1] = v
          /\ \A i \in 1 .. n : a[i] = Waiting(r)[i]
      BY <1>2, AppendProperties DEF n
    <3> HIDE DEF a
    <3>3. ASSUME NEW i \in 1 .. k PROVE Waiting(q)[i] = a[i]
      <4>1. (t + i - 1) % m = IF t + i - 1 < m THEN t + i - 1 ELSE (t + i - 1) - m
        <5> DEFINE x == t + i - 1
        <5>1. x \in Int /\ 0 <= x /\ x < m + m
          BY <1>1, <2>8, <3>1
        <5> HIDE DEF x
        <5>2. x % m = IF x < m THEN x ELSE x - m
          BY ONLY <5>1, m \in Nat \ {0}, RingPosition
        <5> QED
          BY <5>2 DEF x
      <4> DEFINE s == (t + i - 1) % m
      <4>2. s \in 0 .. m /\ (s = p <=> i = n + 1)
        BY <1>1, <1>3, <2>8, <3>1, <4>1
      <4>3. Waiting(q)[i] = c[s] /\ (i \in 1 .. n => Waiting(r)[i] = b[s])
        BY <1>2, <2>5
      <4> HIDE DEF s
      <4>4. Waiting(q)[i] = IF i = n + 1 THEN v ELSE b[s]
        BY <2>1, <4>2, <4>3
      <4>5. i # n + 1 => i \in 1 .. n
        BY <3>1
      <4> QED
        BY <3>2, <4>3, <4>4, <4>5
    <3>4. Len(Waiting(q)) = Len(a) /\ \A i \in 1 .. Len(Waiting(q)) : Waiting(q)[i] = a[i]
      BY <3>1, <3>2, <3>3 DEF k
    <3>5. Waiting(q) = a
      BY <2>5, <3>2, <3>4, SeqEqual
    <3> QED
      BY <1>2, <2>4, <2>8, <3>5 DEF a, n, t, q
  <2>9. CASE n = m - 1
    <3>1. Waiting(q) = <<>>
      BY <2>5, <2>7, <2>9, EmptySeq DEF k
    <3> QED
      BY <1>2, <2>4, <2>7, <2>9, <3>1 DEF n, t, q
  <2>10. n < m - 1 \/ n = m - 1
    BY <1>2
  <2> QED
    BY <2>8, <2>9, <2>10
<1> QED
  BY <1>5, <1>6

\* A line w that the first n values were put to, on a ring with the given room:
\* they follow w; or those that found room do; or, the ring being full with
\* take_ptr 0, the line is made of the values put since it was lost.
LinedUp(w, values, n, room, take, line) ==
  \/ Len(w) + n <= room /\ line = w \o SubSeq(values, 1, n)
  \/ /\ Len(w) + n > room
     /\ \E k \in 0 .. n :
          \/ take # 0 /\ line = w \o SubSeq(values, 1, k) /\ Len(line) = room
          \/ take = 0 /\ line = SubSeq(values, k + 1, n)

\* put_all, value by value.
LEMMA PutAllLine ==
  ASSUME NEW m \in Nat \ {0}, NEW V, NEW r \in Ring(m, V), NEW values \in Seq(V)
  PROVE  LinedUp(Waiting(r), values, Len(values), m - 1, r.take_ptr, Waiting(PutAll(r, values)))
<1> DEFINE len == Len(values)
           w == Waiting(r)
           t == r.take_ptr
<1>1. len \in Nat /\ w \in Seq(V) /\ Len(w) \in 0 .. m - 1
  BY WaitingElements
<1>2. PICK put : PutsInTurn(put, r, values) /\ PutAll(r, values) = put[len]
  BY PutAllSteps
<1>3. put[0] = r /\ \A i \in 1 .. len : put[i] = PutUnsafe(put[i - 1], values[i])
  BY <1>2 DEF PutsInTurn
<1> DEFINE AfterPuts(n) == /\ put[n] \in Ring(m, V) /\ put[n].take_ptr = t
                           /\ LinedUp(w, values, n, m - 1, t, Waiting(put[n]))
           T == {n \in Nat : n <= len => AfterPuts(n)}
<1> HIDE DEF len, AfterPuts
<1>4. 0 \in T
  <2>1. SubSeq(values, 1, 0) = <<>>
    BY SubSeqEmpty
  <2>2. w \o <<>> = w
    BY <1>1, ConcatEmptySeq
  <2>3. Len(w) + 0 <= m - 1 /\ w = w \o SubSeq(values, 1, 0)
    BY <1>1, <2>1, <2>2
  <2>4. LinedUp(w, values, 0, m - 1, t, w)
    BY <2>3 DEF LinedUp
  <2> QED
    BY <1>3, <2>4 DEF AfterPuts
<1>5. ASSUME NEW n \in T PROVE n + 1 \in T
  <2>1. n \in Nat
    OBVIOUS
  <2> SUFFICES ASSUME n + 1 <= len PROVE AfterPuts(n + 1)
    BY <2>1
  <2> DEFINE a == put[n]
             v == values[n + 1]
             line == Waiting(a)
             next == Waiting(PutUnsafe(a, v))
  <2>2. AfterPuts(n) /\ n + 1 \in 1 .. len /\ n <= len
    BY <1>1, <2>1
  <2>3. /\ a \in Ring(m, V) /\ a.take_ptr = t /\ LinedUp(w, values, n, m - 1, t, line)
        /\ v \in V /\ put[n + 1] = PutUnsafe(a, v)
    <3>1. a \in Ring(m, V) /\ a.take_ptr = t /\ LinedUp(w, values, n, m - 1, t, line)
      BY <2>2 DEF AfterPuts
    <3>2. v \in V
      BY <2>2, ElementOfSeq DEF len
    <3>3. put[n + 1] = PutUnsafe(put[(n + 1) - 1], v) /\ (n + 1) - 1 = n
      BY <1>3, <2>1, <2>2
    <3> QED
      BY <3>1, <3>2, <3>3
  <2> HIDE DEF a, v
  <2>4. /\ PutUnsafe(a, v) \in Ring(m, V) /\ PutUnsafe(a, v).take_ptr = a.take_ptr
        /\ Len(line) < m - 1 => next = Append(line, v)
        /\ Len(line) = m - 1 /\ a.take_ptr # 0 => PutUnsafe(a, v) = a
        /\ Len(line) = m - 1 /\ a.take_ptr = 0 => next = <<>>
    BY <2>3, PutUnsafeLine
  <2>5. line \in Seq(V) /\ Len(line) \in 0 .. m - 1
    BY <2>3, WaitingElements
  <2>6. /\ Len(line) < m - 1 => next = line \o <<v>>
        /\ Len(line) = m - 1 /\ t # 0 => next = line
        /\ Len(line) = m - 1 /\ t = 0 => next = <<>>
    <3>1. Append(line, v) = line \o <<v>>
      BY <2>3, <2>5, AppendIsConcat
    <3> QED
      BY <2>3, <2>4, <3>1
  <2> HIDE DEF line, next, w, t
  <2>7. SUFFICES LinedUp(w, values, n + 1, m - 1, t, next)
    BY <2>3, <2>4 DEF AfterPuts, next
  <2>8. \A k \in 0 .. n : SubSeq(values, k + 1, n + 1) = SubSeq(values, k + 1, n) \o <<v>>
    <3> SUFFICES ASSUME NEW k \in 0 .. n
                 PROVE  SubSeq(values, k + 1, n + 1) = SubSeq(values, k + 1, n) \o <<v>>
      OBVIOUS
    <3>1. k + 1 \in 1 .. Len(values) /\ n + 1 \in k + 1 .. Len(values) /\ (n + 1) - 1 = n
      BY <2>1, <2>2, <1>1 DEF len
    <3>2. SubSeq(values, k + 1, n + 1) = SubSeq(values, k + 1, (n + 1) - 1) \o <<values[n + 1]>>
      BY <3>1, SubSeqRecursiveSecond
    <3> QED
      BY <3>1, <3>2 DEF v
  <2>9. SubSeq(values, n + 1 + 1, n + 1) = <<>>
    BY <2>1, SubSeqEmpty
  <2>10. CASE Len(w) + n <= m - 1 /\ line = w \o SubSeq(values, 1, n)
    <3> DEFINE sub == SubSeq(values, 1, n)
    <3>1. sub \in Seq(V) /\ Len(sub) = n /\ <<v>> \in Seq(V)
      <4>1. \A i \in 1 .. n : values[i] \in V
        BY <1>1, <2>1, <2>2, ElementOfSeq DEF len
      <4>2. sub \in Seq(V) /\ Len(sub) = IF 1 <= n THEN n - 1 + 1 ELSE 0
        BY <2>1, <4>1, SubSeqProperties
      <4> HIDE DEF sub
      <4> QED
        BY <2>1, <2>3, <4>2
    <3>2. SubSeq(values, 0 + 1, n + 1) = SubSeq(values, 0 + 1, n) \o <<v>> /\ 0 + 1 = 1
      BY <2>1, <2>8
    <3>3. SubSeq(values, 1, n + 1) = sub \o <<v>>
      BY <3>2
    <3> HIDE DEF sub
    <3>4. Len(line) = Len(w) + n
      BY <1>1, <2>10, <3>1, ConcatProperties DEF sub
    <3>5. CASE Len(w) + n < m - 1
      <4>1. next = (w \o sub) \o <<v>>
        BY <2>6, <2>10, <3>4, <3>5 DEF sub
      <4>2. (w \o sub) \o <<v>> = w \o (sub \o <<v>>)
        BY <1>1, <3>1, ConcatAssociative, SMTT(60)
      <4>3. Len(w) + (n + 1) <= m - 1
        BY <1>1, <2>1, <3>5
      <4> QED
        BY <3>3, <4>1, <4>2, <4>3 DEF LinedUp
    <3>6. CASE Len(w) + n = m - 1
      <4>1. Len(w) + (n + 1) > m - 1 /\ n \in 0 .. n + 1 /\ n + 1 \in 0 .. n + 1
        BY <1>1, <2>1, <3>6
      <4>2. CASE t # 0
        <5>1. next = w \o SubSeq(values, 1, n) /\ Len(next) = m - 1
          BY <2>6, <2>10, <3>4, <3>6, <4>2
        <5> QED
          BY <4>1, <4>2, <5>1 DEF LinedUp
      <4>3. CASE t = 0
        <5>1. next = SubSeq(values, n + 1 + 1, n + 1)
          BY <2>6, <2>9, <3>4, <3>6, <4>3
        <5> QED
          BY <4>1, <4>3, <5>1 DEF LinedUp
      <4> QED
        BY <4>2, <4>3
    <3>7. Len(w) + n < m - 1 \/ Len(w) + n = m - 1
      <4> DEFINE x == Len(w) + n
      <4>1. x \in Nat /\ x <= m - 1
        BY <1>1, <2>1, <2>10
      <4> HIDE DEF x
      <4>2. x < m - 1 \/ x = m - 1
        BY <4>1
      <4> QED
        BY <4>2 DEF x
    <3> QED
      BY <3>5, <3>6, <3>7
  <2>11. ASSUME Len(w) + n > m - 1, NEW k \in 0 .. n, t # 0,
                line = w \o SubSeq(values, 1, k), Len(line) = m - 1
         PROVE  LinedUp(w, values, n + 1, m - 1, t, next)
    <3>1. Len(w) + (n + 1) > m - 1 /\ k \in 0 .. n + 1
      BY <1>1, <2>1, <2>11
    <3>2. next = w \o SubSeq(values, 1, k) /\ Len(next) = m - 1
      BY <2>6, <2>11
    <3> QED
      BY <2>11, <3>1, <3>2 DEF LinedUp
  <2>12. ASSUME Len(w) + n > m - 1, NEW k \in 0 .. n, t = 0, line = SubSeq(values, k + 1, n)
         PROVE  LinedUp(w, values, n + 1, m - 1, t, next)
    <3>1. Len(w) + (n + 1) > m - 1 /\ k \in 0 .. n + 1 /\ n + 1 \in 0 .. n + 1
      BY <1>1, <2>1, <2>12
    <3>2. next = SubSeq(values, k + 1, n + 1) \/ next = SubSeq(values, n + 1 + 1, n + 1)
      <4>1. Len(line) < m - 1 \/ Len(line) = m - 1
        BY <2>5
      <4> QED
        BY <2>6, <2>8, <2>9, <2>12, <4>1
    <3> QED
      BY <2>12, <3>1, <3>2 DEF LinedUp
  <2> QED
    BY <2>3, <2>10, <2>11, <2>12 DEF LinedUp
<1> HIDE DEF T
<1>6. T = Nat
  <2>1. T \in SUBSET Nat
    BY DEF T
  <2> QED
    BY <1>4, <1>5, <2>1, SetInduction
<1>7. AfterPuts(len)
  BY <1>1, <1>6 DEF T
<1> QED
  BY <1>2, <1>7 DEF AfterPuts, len

\* take and try_take remove the first of what waits.
LEMMA TookLine ==
  ASSUME NEW m \in Nat \ {0}, NEW V, NEW r \in Ring(m, V), ~IsEmpty(r)
  PROVE  /\ Took(r) \in Ring(m, V) /\ First(r) \in V
         /\ Waiting(r) = <<First(r)>> \o Waiting(Took(r))
<1> DEFINE q == Took(r)
           t == r.take_ptr
           p == r.put_ptr
           b == r.buffer
           n == Len(Waiting(r))
           k == Len(Waiting(q))
           next == (t + 1) % m
<1>1. r.mask = m /\ t \in 0 .. m - 1 /\ p \in 0 .. m - 1 /\ b \in [0 .. m -> V] /\ t # p
  BY DEF Ring, IsEmpty
<1>2. /\ Waiting(r) \in Seq(V) /\ n = (p - t) % m /\ n \in 0 .. m - 1
      /\ \A i \in 1 .. n : Waiting(r)[i] = b[(t + i - 1) % m]
  BY WaitingElements
<1>3. next \in 0 .. m - 1 /\ next = IF t + 1 < m THEN t + 1 ELSE 0
  <2> HIDE DEF t
  <2> DEFINE x == t + 1
  <2>1. x \in Int /\ 0 <= x /\ x < m + m
    BY <1>1
  <2> HIDE DEF x
  <2>2. x % m = IF x < m THEN x ELSE x - m
    BY ONLY <2>1, m \in Nat \ {0}, RingPosition
  <2> QED
    BY <1>1, <2>1, <2>2 DEF x
<1>4. q = [r EXCEPT !.take_ptr = next]
  BY <1>1 DEF Took
<1> HIDE DEF next
<1>5. q \in Ring(m, V) /\ q.take_ptr = next /\ q.put_ptr = p /\ q.buffer = b
  BY <1>3, <1>4 DEF Ring
<1> HIDE DEF q
<1>6. /\ Waiting(q) \in Seq(V) /\ k = (p - next) % m /\ k \in 0 .. m - 1
      /\ \A i \in 1 .. k : Waiting(q)[i] = b[(next + i - 1) % m]
  <2> HIDE DEF p, b
  <2>1. /\ Waiting(q) \in Seq(V) /\ Len(Waiting(q)) = (q.put_ptr - q.take_ptr) % m
        /\ Len(Waiting(q)) \in 0 .. m - 1
        /\ \A i \in 1 .. Len(Waiting(q)) : Waiting(q)[i] = q.buffer[(q.take_ptr + i - 1) % m]
    BY <1>5, WaitingElements
  <2> QED
    BY <1>5, <2>1
<1>7. First(r) = b[t] /\ First(r) \in V
  BY <1>1 DEF First
<1> HIDE DEF t, p, b, n, k
<1>8. n = (IF t <= p THEN p - t ELSE p - t + m) /\ k = IF next <= p THEN p - next ELSE p - next + m
  <2>1. (p - t) % m = IF t <= p THEN p - t ELSE p - t + m
    BY <1>1, RingDistance
  <2>2. (p - next) % m = IF next <= p THEN p - next ELSE p - next + m
    BY <1>1, <1>3, RingDistance
  <2> QED
    BY <1>2, <1>6, <2>1, <2>2
<1>9. n = k + 1 /\ k \in Nat /\ k <= m - 1
  BY <1>1, <1>3, <1>6, <1>8
<1> DEFINE f == <<First(r)>>
           l == f \o Waiting(q)
<1>10. f \in Seq(V) /\ Len(f) = 1 /\ f[1] = First(r)
  BY <1>7
<1>11. /\ l \in Seq(V) /\ Len(l) = 1 + k
       /\ \A i \in 1 .. 1 + k : l[i] = IF i <= 1 THEN f[i] ELSE Waiting(q)[i - 1]
  <2> HIDE DEF f
  <2>1. /\ f \o Waiting(q) \in Seq(V) /\ Len(f \o Waiting(q)) = Len(f) + Len(Waiting(q))
        /\ \A i \in 1 .. Len(f) + Len(Waiting(q)) :
             (f \o Waiting(q))[i] = IF i <= Len(f) THEN f[i] ELSE Waiting(q)[i - Len(f)]
    BY <1>6, <1>10, ConcatProperties
  <2> QED
    BY <1>10, <2>1 DEF k
<1> HIDE DEF f, l
<1>12. ASSUME NEW i \in 1 .. n PROVE Waiting(r)[i] = l[i]
  <2>1. (t + i - 1) % m = IF t + i - 1 < m THEN t + i - 1 ELSE (t + i - 1) - m
    <3> DEFINE x == t + i - 1
    <3>1. x \in Int /\ 0 <= x /\ x < m + m
      BY <1>1, <1>9
    <3> HIDE DEF x
    <3>2. x % m = IF x < m THEN x ELSE x - m
      BY ONLY <3>1, m \in Nat \ {0}, RingPosition
    <3> QED
      BY <3>2 DEF x
  <2>2. CASE i = 1
    <3>1. (t + i - 1) % m = t
      BY <1>1, <2>1, <2>2
    <3>2. l[i] = f[1]
      BY <1>9, <1>11, <2>2
    <3> QED
      BY <1>2, <1>7, <1>10, <3>1, <3>2
  <2>3. CASE i # 1
    <3> DEFINE j == i - 1
    <3>1. j \in 1 .. k /\ i \in 1 .. 1 + k /\ ~(i <= 1)
      BY <1>9, <2>3
    <3>2. l[i] = Waiting(q)[j]
      BY <1>11, <3>1
    <3>3. Waiting(q)[j] = b[(next + j - 1) % m]
      BY <1>6, <3>1
    <3>4. (next + j - 1) % m = IF next + j - 1 < m THEN next + j - 1 ELSE (next + j - 1) - m
      <4> DEFINE x == next + j - 1
      <4>1. x \in Int /\ 0 <= x /\ x < m + m
        BY <1>3, <1>9, <3>1
      <4> HIDE DEF x
      <4>2. x % m = IF x < m THEN x ELSE x - m
        BY ONLY <4>1, m \in Nat \ {0}, RingPosition
      <4> QED
        BY <4>2 DEF x
    <3>5. (next + j - 1) % m = (t + i - 1) % m
      BY <1>1, <1>3, <1>9, <2>1, <3>1, <3>4
    <3> QED
      BY <1>2, <3>2, <3>3, <3>5
  <2> QED
    BY <2>2, <2>3
<1>13. Len(Waiting(r)) = Len(l) /\ \A i \in 1 .. Len(Waiting(r)) : Waiting(r)[i] = l[i]
  BY <1>9, <1>11, <1>12 DEF n
<1>14. Waiting(r) = l
  BY <1>2, <1>11, <1>13, SeqEqual
<1> QED
  BY <1>5, <1>7, <1>14 DEF l, f, q

-----------------------------------------------------------------------------
(* The sentences                                                           *)

\* Handlers put sentences with the next numbers at the end of the line.
Numbered(k) == [i \in 1 .. k |-> puts + i]

LEMMA SayLine ==
  ASSUME NaoInv, NEW k \in Nat, Say(k)
  PROVE  /\ tts_buffer' \in Ring(Mask, Nat) /\ ToSet(Waiting(tts_buffer')) \subseteq Nat \ {0}
         /\ puts' = puts + k /\ puts' \in Nat
         /\ LinedUp(Waiting(tts_buffer), Numbered(k), k, Mask - 1, tts_buffer.take_ptr, Waiting(tts_buffer'))
<1> DEFINE new == Numbered(k)
           W == Nat \ {0}
<1>1. Mask \in Nat \ {0}
  BY NaoAssumption
<1>2. tts_buffer \in Ring(Mask, Nat) /\ ToSet(Waiting(tts_buffer)) \subseteq W /\ puts \in Nat
  BY DEF NaoInv
<1>3. tts_buffer' = PutAll(tts_buffer, new) /\ puts' = puts + k
  BY DEF Say, Numbered
<1>4. new \in Seq(Nat \cap W) /\ Len(new) = k
  <2>1. \A i \in 1 .. k : puts + i \in Nat \cap W
    BY <1>2
  <2> QED
    BY <2>1 DEF Numbered
<1> HIDE DEF new, W
<1>5. new \in Seq(Nat)
  BY <1>4, SeqMonotonic
<1>6. PutAll(tts_buffer, new) \in Ring(Mask, Nat) /\ ToSet(Waiting(PutAll(tts_buffer, new))) \subseteq W
  BY <1>1, <1>2, <1>4, PutAllWithin
<1>7. LinedUp(Waiting(tts_buffer), new, Len(new), Mask - 1, tts_buffer.take_ptr, Waiting(PutAll(tts_buffer, new)))
  BY <1>1, <1>2, <1>5, PutAllLine
<1> QED
  BY <1>2, <1>3, <1>4, <1>6, <1>7 DEF new, W

\* The thread takes the first sentence of the line, which is never the blank.
LEMMA TakeLine ==
  ASSUME NaoInv, TtsTake
  PROVE  /\ tts_buffer' \in Ring(Mask, Nat) /\ ToSet(Waiting(tts_buffer')) \subseteq Nat \ {0}
         /\ worker' \in Nat \ {0}
         /\ Waiting(tts_buffer) = <<worker'>> \o Waiting(tts_buffer')
<1> DEFINE w == Waiting(tts_buffer)
           f == <<worker'>>
           l == Waiting(tts_buffer')
<1>1. Mask \in Nat \ {0}
  BY NaoAssumption
<1>2. tts_buffer \in Ring(Mask, Nat) /\ ToSet(w) \subseteq Nat \ {0}
  BY DEF NaoInv
<1>3. worker' = First(tts_buffer) /\ tts_buffer' = Took(tts_buffer) /\ ~IsEmpty(tts_buffer)
  BY DEF TtsTake
<1>4. /\ Took(tts_buffer) \in Ring(Mask, Nat) /\ First(tts_buffer) \in Nat
      /\ Waiting(tts_buffer) = <<First(tts_buffer)>> \o Waiting(Took(tts_buffer))
  BY <1>1, <1>2, <1>3, TookLine
<1>5. tts_buffer' \in Ring(Mask, Nat) /\ worker' \in Nat /\ w = f \o l
  BY <1>3, <1>4
<1>6. l \in Seq(Nat) /\ w \in Seq(Nat) /\ f \in Seq(Nat) /\ Len(f) = 1 /\ f[1] = worker'
  <2>1. \A r \in Ring(Mask, Nat) : Waiting(r) \in Seq(Nat)
    BY <1>1, WaitingElements
  <2>2. f \in Seq(Nat) /\ Len(f) = 1 /\ f[1] = worker'
    BY <1>5
  <2>3. w \in Seq(Nat) /\ l \in Seq(Nat)
    BY <2>1, <1>2, <1>5
  <2> QED
    BY <2>2, <2>3
<1> HIDE DEF w, f, l
<1>7. /\ Len(w) = 1 + Len(l) /\ Len(l) \in Nat
      /\ \A i \in 1 .. 1 + Len(l) : w[i] = IF i <= 1 THEN f[i] ELSE l[i - 1]
  <2>1. /\ Len(f \o l) = Len(f) + Len(l)
        /\ \A i \in 1 .. Len(f) + Len(l) : (f \o l)[i] = IF i <= Len(f) THEN f[i] ELSE l[i - Len(f)]
    BY <1>6, ConcatProperties
  <2> QED
    BY <1>5, <1>6, <2>1
<1>8. \A i \in 1 .. Len(w) : w[i] \in Nat \ {0}
  BY <1>2, <1>6 DEF ToSet
<1>9. worker' \in Nat \ {0}
  BY <1>6, <1>7, <1>8
<1>10. ASSUME NEW i \in 1 .. Len(l) PROVE l[i] \in Nat \ {0}
  <2>1. i + 1 \in 1 .. Len(w) /\ i + 1 \in 1 .. 1 + Len(l) /\ ~(i + 1 <= 1) /\ (i + 1) - 1 = i
    BY <1>7
  <2>2. w[i + 1] = l[i]
    BY <1>7, <2>1
  <2> QED
    BY <1>8, <2>1, <2>2
<1>11. ToSet(l) \subseteq Nat \ {0}
  <2>1. DOMAIN l = 1 .. Len(l)
    BY <1>6
  <2>2. \A i \in DOMAIN l : l[i] \in Nat \ {0}
    BY <1>10, <2>1
  <2> QED
    BY <2>2, Zenon DEF ToSet
<1> QED
  BY <1>5, <1>9, <1>11 DEF w, f, l

\* The handlers that put sentences, and the ones that do not.
LEMMA NaoCases ==
  ASSUME [NaoNext]_naoVars
  PROVE  \/ (\E k \in Nat : Say(k)) /\ UNCHANGED <<worker, spoken>>
         \/ TtsTake \/ TtsDone
         \/ UNCHANGED <<tts_buffer, puts, worker, spoken>>
<1>1. CASE TtsSay
  BY <1>1 DEF TtsSay
<1>2. ASSUME NEW throws \in BOOLEAN, GamepadB(throws) \/ GamepadCircle(throws)
      PROVE  \/ (\E k \in Nat : Say(k)) /\ UNCHANGED <<worker, spoken>>
             \/ UNCHANGED <<tts_buffer, puts, worker, spoken>>
  <2>1. CASE GamepadB(throws)
    <3>1. UNCHANGED <<worker, spoken>> /\ (Say(1) \/ UNCHANGED <<tts_buffer, puts>>)
      BY <2>1 DEF GamepadB, speechVars
    <3> QED
      BY <3>1
  <2>2. CASE GamepadCircle(throws)
    <3>1. UNCHANGED <<worker, spoken>> /\ (Say(1) \/ Say(2))
      BY <2>2 DEF GamepadCircle
    <3> QED
      BY <3>1
  <2> QED
    BY <1>2, <2>1, <2>2
<1>3. ASSUME \/ \E over \in BOOLEAN : TtsSettings(over)
             \/ \E t \in Trajectories : TrajectoryCmd(t)
             \/ Shutdown \/ UNCHANGED naoVars
      PROVE  UNCHANGED <<tts_buffer, puts, worker, spoken>>
  BY <1>3 DEF TtsSettings, TrajectoryCmd, Shutdown, naoVars, speechVars
<1> QED
  BY <1>1, <1>2, <1>3 DEF NaoNext

\* What waits are sentences: the invariant on which the order rests.
THEOREM NaoInvariant == NaoSpec => []NaoInv
<1>1. NaoInit => NaoInv
  <2> SUFFICES ASSUME NaoInit PROVE NaoInv
    OBVIOUS
  <2>1. Mask \in Nat \ {0}
    BY NaoAssumption
  <2>2. tts_buffer \in Ring(Mask, Nat)
    BY <2>1 DEF NaoInit, NewRing, Ring
  <2>3. tts_buffer.put_ptr = 0 /\ tts_buffer.take_ptr = 0 /\ tts_buffer.mask = Mask
    BY DEF NaoInit, NewRing
  <2>4. (tts_buffer.put_ptr - tts_buffer.take_ptr) % tts_buffer.mask = 0
    BY <2>1, <2>3
  <2>5. DOMAIN Waiting(tts_buffer) = {}
    BY <2>4 DEF Waiting
  <2>6. ToSet(Waiting(tts_buffer)) = {}
    BY <2>5 DEF ToSet
  <2>7. worker = 0 /\ puts = 0 /\ spoken = <<>>
    BY DEF NaoInit
  <2>8. <<>> \in Seq(Nat)
    OBVIOUS
  <2> QED
    BY <2>2, <2>6, <2>7, <2>8 DEF NaoInv
<1>2. ASSUME NaoInv, [NaoNext]_naoVars PROVE NaoInv'
  <2>1. worker \in Nat /\ spoken \in Seq(Nat)
    BY <1>2 DEF NaoInv
  <2>2. ASSUME NEW k \in Nat, Say(k), UNCHANGED <<worker, spoken>> PROVE NaoInv'
    <3>1. tts_buffer' \in Ring(Mask, Nat) /\ ToSet(Waiting(tts_buffer')) \subseteq Nat \ {0} /\ puts' \in Nat
      BY <1>2, <2>2, SayLine
    <3> QED
      BY <2>1, <2>2, <3>1 DEF NaoInv
  <2>3. CASE TtsTake
    <3>1. /\ tts_buffer' \in Ring(Mask, Nat) /\ ToSet(Waiting(tts_buffer')) \subseteq Nat \ {0}
          /\ worker' \in Nat
      BY <1>2, <2>3, TakeLine
    <3>2. UNCHANGED <<puts, spoken>>
      BY <2>3 DEF TtsTake
    <3> QED
      BY <1>2, <3>1, <3>2 DEF NaoInv
  <2>4. CASE TtsDone
    <3>1. spoken' = Append(spoken, worker) /\ worker' = 0 /\ UNCHANGED <<tts_buffer, puts>>
      BY <2>4 DEF TtsDone, speechVars
    <3>2. spoken' \in Seq(Nat) /\ worker' \in Nat
      BY <2>1, <3>1
    <3> QED
      BY <1>2, <3>1, <3>2 DEF NaoInv
  <2>5. CASE UNCHANGED <<tts_buffer, puts, worker, spoken>>
    BY <1>2, <2>5 DEF NaoInv
  <2> QED
    BY <1>2, <2>2, <2>3, <2>4, <2>5, NaoCases
<1> QED
  BY <1>1, <1>2, PTL DEF NaoSpec

\* SentencesKeepOrder: for a tts_buffer of any size, however the handlers and
\* the speaking thread interleave, the line of sentences said, being said and
\* waiting only grows at its end, and gives way only where there is no room.
THEOREM SpeechKeepsOrder == NaoSpec => SentencesKeepOrder
<1>1. ASSUME NaoInv, [NaoNext]_naoVars PROVE LineGrows
  <2> DEFINE w == Waiting(tts_buffer)
             x == Waiting(tts_buffer')
             new == [i \in 1 .. puts' - puts |-> puts + i]
  <2>1. Mask \in Nat \ {0} /\ tts_buffer \in Ring(Mask, Nat) /\ worker \in Nat /\ spoken \in Seq(Nat) /\ puts \in Nat
    BY <1>1, NaoAssumption DEF NaoInv
  <2>2. w \in Seq(Nat) /\ Said \in Seq(Nat) /\ Line = Said \o w /\ Line' = Said' \o x /\ Line \in Seq(Nat)
    <3>1. w \in Seq(Nat)
      BY <2>1, WaitingElements
    <3>2. Said \in Seq(Nat)
      BY <2>1 DEF Said
    <3>3. Said \o w \in Seq(Nat)
      BY <3>1, <3>2, ConcatProperties
    <3> QED
      BY <3>1, <3>2, <3>3 DEF Line
  <2>3. ASSUME Line' = Line, puts' = puts PROVE LineGrows
    <3>1. new = <<>>
      BY <2>1, <2>3
    <3>2. Line \o <<>> = Line
      BY <2>2, ConcatEmptySeq
    <3>3. Line' = Line \o new
      BY <2>3, <3>1, <3>2
    <3> QED
      BY <3>3 DEF LineGrows
  <2>4. ASSUME NEW k \in Nat, Say(k), UNCHANGED <<worker, spoken>> PROVE LineGrows
    <3>1. puts' = puts + k /\ LinedUp(w, Numbered(k), k, Mask - 1, tts_buffer.take_ptr, x)
      BY <1>1, <2>4, SayLine
    <3>2. new = Numbered(k) /\ new \in Seq(Nat) /\ Len(new) = k
      <4>1. puts' - puts = k /\ \A i \in 1 .. k : puts + i \in Nat
        BY <2>1, <3>1
      <4> QED
        BY <4>1 DEF Numbered
    <3>3. Said' = Said
      BY <2>4 DEF Said
    <3> DEFINE Outcome == \/ Line' = Line \o new
                          \/ /\ Len(w) + Len(new) > Mask - 1
                             /\ \E j \in 0 .. Len(new) :
                                  \/ Line' = Line \o SubSeq(new, 1, j)
                                  \/ tts_buffer.take_ptr = 0 /\ Line' = Said \o SubSeq(new, j + 1, Len(new))
    <3>4. SUFFICES Outcome
      BY DEF LineGrows
    <3> HIDE DEF w, x, new
    <3>5. \A j \in 0 .. k : (Said \o w) \o SubSeq(new, 1, j) = Said \o (w \o SubSeq(new, 1, j))
      <4> SUFFICES ASSUME NEW j \in 0 .. k
                   PROVE  (Said \o w) \o SubSeq(new, 1, j) = Said \o (w \o SubSeq(new, 1, j))
        OBVIOUS
      <4>1. \A i \in 1 .. j : new[i] \in Nat
        BY <3>2, ElementOfSeq
      <4> DEFINE sub == SubSeq(new, 1, j)
      <4>2. sub \in Seq(Nat)
        BY <4>1, SubSeqProperties
      <4>3. Said \in Seq(Nat) /\ w \in Seq(Nat)
        BY <2>2
      <4> HIDE DEF sub
      <4>4. \A a, b, c \in Seq(Nat) : (a \o b) \o c = a \o (b \o c)
        BY ConcatAssociative, SMTT(60)
      <4>5. (Said \o w) \o sub = Said \o (w \o sub)
        BY <4>2, <4>3, <4>4
      <4> QED
        BY <4>5 DEF sub
    <3>6. CASE Len(w) + k <= Mask - 1 /\ x = w \o SubSeq(new, 1, k)
      <4>1. SubSeq(new, 1, k) = new
        BY <3>2, SubSeqFull
      <4>2. (Said \o w) \o SubSeq(new, 1, k) = Said \o (w \o SubSeq(new, 1, k))
        <5>1. k \in 0 .. k
          OBVIOUS
        <5> QED
          BY <3>5, <5>1
      <4>3. Line' = Line \o new
        BY <2>2, <3>3, <3>6, <4>1, <4>2
      <4> QED
        BY <4>3
    <3>7. ASSUME Len(w) + k > Mask - 1, NEW j \in 0 .. k, x = w \o SubSeq(new, 1, j)
          PROVE  Outcome
      <4>1. Line' = Line \o SubSeq(new, 1, j)
        BY <2>2, <3>3, <3>5, <3>7
      <4> QED
        BY <3>2, <3>7, <4>1
    <3>8. ASSUME Len(w) + k > Mask - 1, NEW j \in 0 .. k, tts_buffer.take_ptr = 0, x = SubSeq(new, j + 1, k)
          PROVE  Outcome
      <4>1. Line' = Said \o SubSeq(new, j + 1, Len(new))
        BY <2>2, <3>2, <3>3, <3>8
      <4> QED
        BY <3>2, <3>8, <4>1
    <3> HIDE DEF Outcome
    <3>9. LinedUp(w, new, k, Mask - 1, tts_buffer.take_ptr, x)
      BY <3>1, <3>2
    <3> QED
      BY <3>6, <3>7, <3>8, <3>9 DEF LinedUp
  <2>5. CASE TtsTake
    <3>1. worker' \in Nat \ {0} /\ w = <<worker'>> \o x /\ tts_buffer' \in Ring(Mask, Nat)
      BY <1>1, <2>5, TakeLine
    <3>2. worker = 0 /\ UNCHANGED <<spoken, puts>>
      BY <2>5 DEF TtsTake
    <3>3. Said = spoken /\ Said' = Append(spoken, worker')
      BY <3>1, <3>2 DEF Said
    <3>4. x \in Seq(Nat) /\ <<worker'>> \in Seq(Nat)
      BY <2>1, <3>1, WaitingElements
    <3>5. Append(spoken, worker') = spoken \o <<worker'>>
      BY <2>1, <3>1, AppendIsConcat
    <3> HIDE DEF w, x
    <3>6. (spoken \o <<worker'>>) \o x = spoken \o (<<worker'>> \o x)
      BY <2>1, <3>4, ConcatAssociative
    <3>7. Line' = Line
      BY <2>2, <3>1, <3>3, <3>5, <3>6
    <3> QED
      BY <2>3, <3>2, <3>7
  <2>6. CASE TtsDone
    <3>1. worker # 0 /\ spoken' = Append(spoken, worker) /\ worker' = 0 /\ UNCHANGED <<tts_buffer, puts>>
      BY <2>6 DEF TtsDone, speechVars
    <3>2. Said' = Said
      BY <3>1 DEF Said
    <3> QED
      BY <2>2, <2>3, <3>1, <3>2
  <2>7. CASE UNCHANGED <<tts_buffer, puts, worker, spoken>>
    BY <2>2, <2>3, <2>7 DEF Said
  <2> QED
    BY <1>1, <2>4, <2>5, <2>6, <2>7, NaoCases
<1> QED
  BY <1>1, NaoInvariant, PTL DEF NaoSpec, SentencesKeepOrder

-----------------------------------------------------------------------------
(* Trajectories                                                            *)

\* Sequences put one after the other, off[i] being where the (i+1)st begins:
\* each keeps its elements, in their order, and there are no others.
IsFlat(parts, off, n, f) ==
  /\ Len(f) = off[n] /\ DOMAIN f = 1 .. off[n]
  /\ \A i \in 1 .. n : \A j \in 1 .. Len(parts[i]) : off[i - 1] + j \in 1 .. off[n] /\ f[off[i - 1] + j] = parts[i][j]
  /\ \A k \in 1 .. off[n] : \E i \in 1 .. n : \E j \in 1 .. Len(parts[i]) : k = off[i - 1] + j

\* One more sequence at the end.
LEMMA FlatGrows ==
  ASSUME NEW X, NEW n \in Nat, NEW parts \in [1 .. n -> Seq(X)], NEW off \in [0 .. n -> Nat],
         \A i \in 1 .. n : off[i] = off[i - 1] + Len(parts[i]),
         NEW m \in 0 .. n - 1, NEW f \in Seq(X), IsFlat(parts, off, m, f)
  PROVE  f \o parts[m + 1] \in Seq(X) /\ IsFlat(parts, off, m + 1, f \o parts[m + 1])
<1> DEFINE s == parts[m + 1]
           g == f \o s
<1>1. m + 1 \in 1 .. n /\ m \in 0 .. n /\ m + 1 \in 0 .. n /\ (m + 1) - 1 = m /\ m \in Nat
  OBVIOUS
<1>2. s \in Seq(X) /\ Len(s) \in Nat /\ off[m + 1] = off[m] + Len(s) /\ off[m] \in Nat /\ off[m + 1] \in Nat
  BY <1>1
<1> HIDE DEF s
<1>3. Len(f) = off[m]
  BY DEF IsFlat
<1>4. /\ g \in Seq(X) /\ Len(g) = Len(f) + Len(s)
      /\ \A k \in 1 .. Len(f) : g[k] = f[k]
      /\ \A k \in 1 .. Len(s) : g[Len(f) + k] = s[k]
  <2>1. g \in Seq(X) /\ Len(g) = Len(f) + Len(s) /\ Len(f) \in Nat
    BY <1>2
  <2>2. \A k \in 1 .. Len(f) + Len(s) : g[k] = IF k <= Len(f) THEN f[k] ELSE s[k - Len(f)]
    BY <1>2, ConcatProperties
  <2>0. Len(f) \in Nat /\ Len(s) \in Nat
    BY <1>2, <2>1
  <2> HIDE DEF g
  <2>5. ASSUME NEW k \in 1 .. Len(f) PROVE g[k] = f[k]
    <3>1. k \in 1 .. Len(f) + Len(s) /\ k <= Len(f)
      BY <2>0
    <3> QED
      BY <2>2, <3>1
  <2>6. ASSUME NEW k \in 1 .. Len(s) PROVE g[Len(f) + k] = s[k]
    <3>0. \A a, b \in Nat : \A c \in 1 .. b : a + c \in 1 .. a + b /\ ~(a + c <= a) /\ (a + c) - a = c
      OBVIOUS
    <3>1. Len(f) + k \in 1 .. Len(f) + Len(s) /\ ~(Len(f) + k <= Len(f)) /\ (Len(f) + k) - Len(f) = k
      BY <2>0, <3>0
    <3> QED
      BY <2>2, <3>1
  <2> QED
    BY <2>1, <2>5, <2>6
<1> HIDE DEF g
<1>5. Len(g) = off[m + 1] /\ DOMAIN g = 1 .. off[m + 1]
  BY <1>2, <1>3, <1>4
<1>6. ASSUME NEW i \in 1 .. m + 1, NEW j \in 1 .. Len(parts[i])
      PROVE  off[i - 1] + j \in 1 .. off[m + 1] /\ g[off[i - 1] + j] = parts[i][j]
  <2>1. CASE i = m + 1
    <3>1. off[i - 1] = off[m] /\ parts[i] = s /\ j \in 1 .. Len(s)
      BY <1>1, <2>1 DEF s
    <3>2. off[m] + j \in 1 .. off[m + 1]
      <4> DEFINE x == off[m]
                 y == Len(s)
      <4>1. x \in Nat /\ y \in Nat /\ off[m + 1] = x + y /\ j \in 1 .. y
        BY <1>2, <3>1
      <4> HIDE DEF x, y
      <4>2. x + j \in 1 .. x + y
        BY <4>1
      <4> QED
        BY <4>1, <4>2 DEF x
    <3>3. g[off[m] + j] = s[j]
      BY <1>3, <1>4, <3>1
    <3> QED
      BY <3>1, <3>2, <3>3
  <2>2. CASE i # m + 1
    <3>1. i \in 1 .. m
      BY <1>1, <2>2
    <3>2. off[i - 1] + j \in 1 .. off[m] /\ f[off[i - 1] + j] = parts[i][j]
      BY <3>1 DEF IsFlat
    <3>3. off[i - 1] + j \in 1 .. off[m + 1]
      <4>1. \A k \in 1 .. off[m] : k \in 1 .. off[m + 1]
        BY <1>2
      <4> QED
        BY <3>2, <4>1
    <3>4. g[off[i - 1] + j] = f[off[i - 1] + j]
      BY <1>3, <1>4, <3>2
    <3> QED
      BY <3>2, <3>3, <3>4
  <2> QED
    BY <2>1, <2>2
<1>7. ASSUME NEW k \in 1 .. off[m + 1]
      PROVE  \E i \in 1 .. m + 1 : \E j \in 1 .. Len(parts[i]) : k = off[i - 1] + j
  <2>1. CASE k <= off[m]
    <3>1. k \in 1 .. off[m]
      BY <1>2, <2>1
    <3>2. PICK i \in 1 .. m : \E j \in 1 .. Len(parts[i]) : k = off[i - 1] + j
      BY <3>1 DEF IsFlat
    <3>3. i \in 1 .. m + 1
      BY <1>1
    <3> QED
      BY <3>2, <3>3
  <2>2. CASE ~(k <= off[m])
    <3> DEFINE x == off[m]
               y == Len(s)
    <3>0. x \in Nat /\ y \in Nat /\ off[m + 1] = x + y /\ k \in 1 .. x + y /\ ~(k <= x)
      BY <1>2, <2>2
    <3> HIDE DEF x, y
    <3>1. k - x \in 1 .. y /\ k = x + (k - x)
      BY <3>0
    <3>2. m + 1 \in 1 .. m + 1
      BY <1>1
    <3>3. \E j \in 1 .. Len(parts[m + 1]) : k = off[(m + 1) - 1] + j
      BY <1>1, <3>1 DEF x, y, s
    <3> QED
      BY <3>2, <3>3
  <2> QED
    BY <2>1, <2>2
<1>8. IsFlat(parts, off, m + 1, g)
  BY <1>5, <1>6, <1>7 DEF IsFlat
<1> QED
  BY <1>4, <1>8 DEF g, s

\* FlattenSeq, which Pack and CmdsOf use, puts sequences one after the other.
LEMMA FlattenElements ==
  ASSUME NEW X, NEW n \in Nat, NEW parts \in [1 .. n -> Seq(X)], NEW off \in [0 .. n -> Nat], off[0] = 0,
         \A i \in 1 .. n : off[i] = off[i - 1] + Len(parts[i])
  PROVE  FlattenSeq(parts) \in Seq(X) /\ IsFlat(parts, off, n, FlattenSeq(parts))
<1> DEFINE Good(m, f) == f \in Seq(X) /\ IsFlat(parts, off, m, f)
           Loop(h) == h = [i \in 1 .. n |-> IF i = 1 THEN parts[i] ELSE h[i - 1] \o parts[i]]
           next == [x \in (1 .. n) \X Seq(X) |-> x[2] \o parts[x[1]]]
           h0 == CHOOSE h : Loop(h)
<1>0. <<>> \in Seq(X) /\ Len(<<>>) = 0 /\ DOMAIN <<>> = {}
  OBVIOUS
<1>1. Len(parts) = n
  OBVIOUS
<1>2. Good(0, <<>>)
  <2>1. 1 .. 0 = {}
    OBVIOUS
  <2> QED
    BY <1>0, <2>1 DEF IsFlat
<1>3. next \in [(1 .. n) \X Seq(X) -> Seq(X)]
  OBVIOUS
<1>4. \A k \in 1 .. n, f \in Seq(X) : next[<<k, f>>] = f \o parts[k]
  OBVIOUS
<1> HIDE DEF next
<1>5. \E g : Iterates(n, Seq(X), <<>>, next, g)
  BY <1>0, <1>3, RecursiveFunction
<1>6. PICK g \in [0 .. n -> Seq(X)] : g[0] = <<>> /\ \A k \in 1 .. n : g[k] = next[<<k, g[k - 1]>>]
  BY <1>5 DEF Iterates
<1>7. \A k \in 1 .. n : g[k] = g[k - 1] \o parts[k]
  <2>1. \A k \in 1 .. n : k - 1 \in 0 .. n
    OBVIOUS
  <2> QED
    BY <1>4, <1>6, <2>1
<1>8. \E h : Loop(h)
  <2> DEFINE h == [i \in 1 .. n |-> g[i]]
  <2>1. ASSUME NEW i \in 1 .. n PROVE h[i] = IF i = 1 THEN parts[i] ELSE h[i - 1] \o parts[i]
    <3>1. CASE i = 1
      <4>0. 1 \in 1 .. n /\ 1 - 1 = 0
        BY <3>1
      <4>1. g[1] = <<>> \o parts[1] /\ parts[1] \in Seq(X)
        BY <1>6, <1>7, <4>0
      <4>2. g[1] = parts[1]
        BY <4>1
      <4> QED
        BY <3>1, <4>2
    <3>2. CASE i # 1
      <4>1. i - 1 \in 1 .. n
        BY <3>2
      <4> QED
        BY <1>7, <3>2, <4>1
    <3> QED
      BY <3>1, <3>2
  <2>2. h = [i \in 1 .. n |-> h[i]]
    OBVIOUS
  <2> HIDE DEF h
  <2>3. Loop(h)
    BY <2>1, <2>2
  <2> QED
    BY <2>3
<1>9. Loop(h0)
  BY <1>8
<1>10. FlattenSeq(parts) = IF n = 0 THEN parts ELSE h0[n]
  BY <1>1 DEF FlattenSeq
<1> HIDE DEF h0
<1>11. \A i \in 1 .. n : h0[i] = IF i = 1 THEN parts[i] ELSE h0[i - 1] \o parts[i]
  BY <1>9
<1> HIDE DEF Loop
<1> DEFINE U == {m \in Nat : m \in 1 .. n => Good(m, h0[m])}
<1>12. 0 \in U
  OBVIOUS
<1>13. ASSUME NEW m \in U PROVE m + 1 \in U
  <2>1. m \in Nat /\ m + 1 \in Nat
    OBVIOUS
  <2>2. SUFFICES ASSUME m + 1 \in 1 .. n PROVE Good(m + 1, h0[m + 1])
    BY <2>1
  <2>3. m \in 0 .. n - 1 /\ (m + 1) - 1 = m
    BY <2>1, <2>2
  <2>4. CASE m = 0
    <3>1. h0[m + 1] = parts[1] /\ parts[1] \in Seq(X)
      BY <1>11, <2>2, <2>4
    <3>2. <<>> \o parts[1] = parts[1]
      BY <3>1
    <3>3. <<>> \in Seq(X) /\ IsFlat(parts, off, m, <<>>)
      BY <1>2, <2>4
    <3> HIDE DEF Good
    <3>4. <<>> \o parts[m + 1] \in Seq(X) /\ IsFlat(parts, off, m + 1, <<>> \o parts[m + 1])
      BY <2>3, <3>3, FlatGrows
    <3>5. m + 1 = 1
      BY <2>4
    <3> QED
      BY <3>1, <3>2, <3>4, <3>5 DEF Good
  <2>5. CASE m # 0
    <3>1. m \in 1 .. n /\ m + 1 # 1
      BY <2>3, <2>5
    <3>2. Good(m, h0[m])
      BY <3>1
    <3>3. h0[m + 1] = h0[m] \o parts[m + 1]
      BY <1>11, <2>2, <2>3, <3>1
    <3>4. h0[m] \in Seq(X) /\ IsFlat(parts, off, m, h0[m])
      BY <3>2
    <3>5. h0[m] \o parts[m + 1] \in Seq(X) /\ IsFlat(parts, off, m + 1, h0[m] \o parts[m + 1])
      BY <2>3, <3>4, FlatGrows
    <3> QED
      BY <3>3, <3>5
  <2> QED
    BY <2>4, <2>5
<1> HIDE DEF Good
<1>14. U = Nat
  BY <1>12, <1>13, SetInduction
<1>15. CASE n = 0
  <2>1. parts = <<>>
    BY <1>15
  <2> QED
    BY <1>2, <1>10, <1>15, <2>1 DEF Good
<1>16. CASE n # 0
  <2>1. n \in 1 .. n
    BY <1>16
  <2>2. Good(n, h0[n])
    BY <1>14, <2>1
  <2> QED
    BY <1>10, <1>16, <2>2 DEF Good
<1> QED
  BY <1>15, <1>16

\* Where the (i+1)st of several sequences begins, and p of trajectory_cmd.
IsOffsets(n, len, off) == off \in [0 .. n -> Nat] /\ off[0] = 0 /\ \A i \in 1 .. n : off[i] = off[i - 1] + len[i]

\* There is such a function for any lengths.
LEMMA OffsetsExist ==
  ASSUME NEW n \in Nat, NEW len \in [1 .. n -> Nat]
  PROVE  \E off : IsOffsets(n, len, off)
<1> DEFINE next == [x \in (1 .. n) \X Nat |-> x[2] + len[x[1]]]
<1>1. next \in [(1 .. n) \X Nat -> Nat] /\ 0 \in Nat
  OBVIOUS
<1>2. \A k \in 1 .. n, x \in Nat : next[<<k, x>>] = x + len[k]
  OBVIOUS
<1> HIDE DEF next
<1>3. \E g : Iterates(n, Nat, 0, next, g)
  BY <1>1, RecursiveFunction
<1>4. PICK g \in [0 .. n -> Nat] : g[0] = 0 /\ \A k \in 1 .. n : g[k] = next[<<k, g[k - 1]>>]
  BY <1>3 DEF Iterates
<1>5. \A k \in 1 .. n : k - 1 \in 0 .. n
  OBVIOUS
<1>6. \A k \in 1 .. n : g[k] = g[k - 1] + len[k]
  BY <1>2, <1>4, <1>5
<1> QED
  BY <1>4, <1>6 DEF IsOffsets

\* What p of the first loop comes to.
LEMMA OffsetIs ==
  ASSUME NEW msg, NEW n \in Nat, msg.num_values \in [1 .. n -> Nat]
  PROVE  \E off : IsOffsets(n, msg.num_values, off) /\ \A i \in 1 .. n : Offset(msg, i) = off[i - 1]
<1> DEFINE len == msg.num_values
           Loop(p) == p = [k \in 0 .. n |-> IF k = 0 THEN 0 ELSE p[k - 1] + len[k]]
           p0 == CHOOSE p : Loop(p)
<1>1. Len(len) = n
  OBVIOUS
<1>2. \A i \in 1 .. n : Offset(msg, i) = p0[i - 1]
  BY <1>1 DEF Offset
<1>3. \E p : IsOffsets(n, len, p)
  BY OffsetsExist
<1> HIDE DEF len
<1>4. PICK p : IsOffsets(n, len, p)
  BY <1>3
<1>5. Loop(p)
  <2>1. \A k \in 0 .. n : p[k] = IF k = 0 THEN 0 ELSE p[k - 1] + len[k]
    BY <1>4 DEF IsOffsets
  <2>2. p = [k \in 0 .. n |-> p[k]]
    BY <1>4 DEF IsOffsets
  <2> QED
    BY <2>1, <2>2
<1>6. Loop(p0)
  BY <1>5
<1> HIDE DEF p0
<1>7. \A k \in 0 .. n : p0[k] = IF k = 0 THEN 0 ELSE p0[k - 1] + len[k]
  BY <1>6
<1>8. DOMAIN p0 = 0 .. n /\ p0 = [k \in 0 .. n |-> p0[k]]
  BY <1>6
<1> HIDE DEF Loop
<1> DEFINE U == {k \in Nat : k <= n => p0[k] = p[k]}
<1>9. 0 \in U
  BY <1>4, <1>7 DEF IsOffsets
<1>10. ASSUME NEW k \in U PROVE k + 1 \in U
  <2>1. k \in Nat /\ k + 1 \in Nat
    OBVIOUS
  <2>2. SUFFICES ASSUME k + 1 <= n PROVE p0[k + 1] = p[k + 1]
    BY <2>1
  <2>3. k <= n /\ k + 1 \in 1 .. n /\ k + 1 \in 0 .. n /\ k + 1 # 0 /\ (k + 1) - 1 = k
    BY <2>1, <2>2
  <2>4. p0[k] = p[k]
    BY <2>3
  <2>5. p0[k + 1] = p0[k] + len[k + 1]
    BY <1>7, <2>3
  <2>6. p[k + 1] = p[k] + len[k + 1]
    BY <1>4, <2>3 DEF IsOffsets
  <2> QED
    BY <2>4, <2>5, <2>6
<1>11. U = Nat
  BY <1>9, <1>10, SetInduction
<1>12. \A k \in 0 .. n : p0[k] = p[k]
  BY <1>11
<1>13. \A i \in 1 .. n : i - 1 \in 0 .. n
  OBVIOUS
<1>14. \A i \in 1 .. n : Offset(msg, i) = p[i - 1]
  BY <1>2, <1>12, <1>13
<1> QED
  BY <1>4, <1>14 DEF len

\* What Trajectory::pack leaves where.
IsPacked(n, t, msg) ==
  /\ msg.num_values \in [1 .. n -> Nat]
  /\ \A i \in 1 .. n : msg.num_values[i] = Len(t[i])
  /\ msg.actuators \in Seq(Actuators)
  /\ \A i \in 1 .. n : \A j \in 1 .. Len(t[i]) :
       /\ Offset(msg, i) + j \in DOMAIN msg.actuators
       /\ msg.actuators[Offset(msg, i) + j] = t[i][j]
       /\ msg.values[Offset(msg, i) + j] = <<i, j>>

\* Trajectory::pack copies the timepoints one after the other.
LEMMA PackedValues ==
  ASSUME NEW n \in Nat, NEW t \in [1 .. n -> Seq(Actuators)]
  PROVE  IsPacked(n, t, Pack(t))
<1> DEFINE msg == Pack(t)
           V == Nat \X Nat
           parts == [i \in DOMAIN t |-> [j \in DOMAIN t[i] |-> <<i, j>>]]
<1>1. /\ msg.num_values = [i \in DOMAIN t |-> Len(t[i])]
      /\ msg.actuators = FlattenSeq(t)
      /\ msg.values = FlattenSeq(parts)
  BY DEF Pack
<1>2. \A i \in 1 .. n : t[i] \in Seq(Actuators) /\ Len(t[i]) \in Nat /\ DOMAIN t[i] = 1 .. Len(t[i])
  OBVIOUS
<1>3. DOMAIN t = 1 .. n
  OBVIOUS
<1>4. msg.num_values \in [1 .. n -> Nat] /\ \A i \in 1 .. n : msg.num_values[i] = Len(t[i])
  BY <1>1, <1>2, <1>3
<1>5. ASSUME NEW i \in 1 .. n
      PROVE  parts[i] \in Seq(V) /\ Len(parts[i]) = Len(t[i]) /\ \A j \in 1 .. Len(t[i]) : parts[i][j] = <<i, j>>
  <2>1. parts[i] = [j \in 1 .. Len(t[i]) |-> <<i, j>>]
    BY <1>2, <1>3
  <2>2. \A j \in 1 .. Len(t[i]) : <<i, j>> \in V
    BY <1>2
  <2> HIDE DEF parts, V
  <2>3. parts[i] \in [1 .. Len(t[i]) -> V]
    BY <2>1, <2>2
  <2> QED
    BY <1>2, <2>1, <2>3
<1>6. parts \in [1 .. n -> Seq(V)]
  BY <1>3, <1>5
<1> HIDE DEF msg, parts, V
<1>7. PICK off : IsOffsets(n, msg.num_values, off) /\ \A i \in 1 .. n : Offset(msg, i) = off[i - 1]
  <2>1. msg.num_values \in [1 .. n -> Nat]
    BY <1>4
  <2>2. \E o : IsOffsets(n, msg.num_values, o) /\ \A i \in 1 .. n : Offset(msg, i) = o[i - 1]
    BY <2>1, OffsetIs, Zenon
  <2> QED
    BY <2>2
<1>8. off \in [0 .. n -> Nat] /\ off[0] = 0
  BY <1>7 DEF IsOffsets
<1>9. \A i \in 1 .. n : off[i] = off[i - 1] + Len(t[i])
  BY <1>4, <1>7 DEF IsOffsets
<1>10. \A i \in 1 .. n : off[i] = off[i - 1] + Len(parts[i])
  BY <1>5, <1>9
<1>11. FlattenSeq(t) \in Seq(Actuators) /\ IsFlat(t, off, n, FlattenSeq(t))
  BY <1>8, <1>9, FlattenElements
<1>12. FlattenSeq(parts) \in Seq(V) /\ IsFlat(parts, off, n, FlattenSeq(parts))
  BY <1>6, <1>8, <1>10, FlattenElements
<1>13. ASSUME NEW i \in 1 .. n, NEW j \in 1 .. Len(t[i])
       PROVE  /\ Offset(msg, i) + j \in DOMAIN msg.actuators
              /\ msg.actuators[Offset(msg, i) + j] = t[i][j]
              /\ msg.values[Offset(msg, i) + j] = <<i, j>>
  <2>1. Offset(msg, i) = off[i - 1]
    BY <1>7
  <2>2. off[i - 1] + j \in DOMAIN FlattenSeq(t) /\ FlattenSeq(t)[off[i - 1] + j] = t[i][j]
    BY <1>11 DEF IsFlat
  <2>3. j \in 1 .. Len(parts[i]) /\ parts[i][j] = <<i, j>>
    BY <1>5
  <2>4. FlattenSeq(parts)[off[i - 1] + j] = <<i, j>>
    BY <1>12, <2>3 DEF IsFlat
  <2> QED
    BY <1>1, <2>1, <2>2, <2>4
<1>14. msg.actuators \in Seq(Actuators)
  BY <1>1, <1>11
<1> QED
  BY <1>4, <1>13, <1>14, Zenon DEF IsPacked, msg

\* The commands for one joint at one timepoint: one if the timepoint names the
\* joint and none otherwise, as it does not name it twice.
OnlyCmd(i, j) == <<<<i, <<i, j>>>>>>

LEMMA CmdsAtTimepoint ==
  ASSUME NEW n \in Nat, NEW t \in [1 .. n -> Seq(Actuators)], WellFormed(t),
         NEW msg, IsPacked(n, t, msg), NEW i \in 1 .. n, NEW a
  PROVE  /\ (\A j \in 1 .. Len(t[i]) : t[i][j] # a) => CmdsAt(msg, a, i) = <<>>
         /\ \A j \in 1 .. Len(t[i]) : t[i][j] = a => CmdsAt(msg, a, i) = OnlyCmd(i, j)
<1> DEFINE p == Offset(msg, i)
           m == Len(t[i])
           S == {j \in 1 .. msg.num_values[i] : msg.actuators[p + j] = a}
           js == Sorted(S)
           c == Cardinality(S)
<1>1. /\ msg.num_values[i] = m /\ m \in Nat /\ DOMAIN t[i] = 1 .. m
      /\ \A j \in 1 .. m : msg.actuators[p + j] = t[i][j] /\ msg.values[p + j] = <<i, j>>
  <2>1. /\ \A k \in 1 .. n : msg.num_values[k] = Len(t[k])
        /\ \A k \in 1 .. n : \A j \in 1 .. Len(t[k]) :
             /\ Offset(msg, k) + j \in DOMAIN msg.actuators
             /\ msg.actuators[Offset(msg, k) + j] = t[k][j]
             /\ msg.values[Offset(msg, k) + j] = <<k, j>>
    BY Zenon DEF IsPacked
  <2>2. t[i] \in Seq(Actuators)
    OBVIOUS
  <2>3. Len(t[i]) \in Nat /\ DOMAIN t[i] = 1 .. Len(t[i])
    BY <2>2
  <2> QED
    BY <2>1, <2>3, Zenon
<1>2. CmdsAt(msg, a, i) = [k \in DOMAIN js |-> <<i, msg.values[p + js[k]]>>]
  BY DEF CmdsAt
<1> HIDE DEF p
<1>3. S = {j \in 1 .. m : t[i][j] = a}
  BY <1>1
<1>4. S \in SUBSET (1 .. m)
  BY <1>3
<1>5. \A j, k \in 1 .. m : t[i][j] = t[i][k] => j = k
  BY <1>1 DEF WellFormed, IsInjective
<1> HIDE DEF S, m
<1>6. /\ c \in Nat /\ js \in [1 .. c -> S]
      /\ \A x \in S : \E k \in 1 .. c : js[k] = x
      /\ \A j, k \in 1 .. c : j # k => js[j] # js[k]
  BY <1>1, <1>4, SortedNumbers
<1> HIDE DEF js, c
<1>7. ASSUME \A j \in 1 .. m : t[i][j] # a PROVE CmdsAt(msg, a, i) = <<>>
  <2>1. S = {}
    BY <1>3, <1>7
  <2>2. ~(1 \in 1 .. c)
    BY <1>6, <2>1
  <2>3. 1 .. c = {}
    BY <1>6, <2>2
  <2>4. DOMAIN js = {}
    BY <1>6, <2>3
  <2>5. CmdsAt(msg, a, i) = [k \in {} |-> <<i, msg.values[p + js[k]]>>]
    BY <1>2, <2>4
  <2> QED
    BY <2>5
<1>8. ASSUME NEW j \in 1 .. m, t[i][j] = a PROVE CmdsAt(msg, a, i) = OnlyCmd(i, j)
  <2>1. S = {j}
    BY <1>3, <1>5, <1>8
  <2>2. \A k \in 1 .. c : js[k] = j
    BY <1>6, <2>1
  <2>3. c # 0
    BY <1>6, <2>1
  <2>4. ~(c > 1)
    <3>1. SUFFICES ASSUME c > 1 PROVE FALSE
      OBVIOUS
    <3>2. 1 \in 1 .. c /\ 2 \in 1 .. c /\ 1 # 2
      BY <1>6, <3>1
    <3> QED
      BY <1>6, <2>2, <3>2
  <2>5. c = 1
    BY <1>6, <2>3, <2>4
  <2>6. DOMAIN js = 1 .. 1 /\ js[1] = j
    BY <1>6, <2>2, <2>5
  <2>7. msg.values[p + j] = <<i, j>>
    BY <1>1
  <2>8. CmdsAt(msg, a, i) = [k \in 1 .. 1 |-> <<i, <<i, j>>>>]
    <3>1. \A k \in 1 .. 1 : msg.values[p + js[k]] = <<i, j>>
      BY <2>6, <2>7
    <3> QED
      BY <1>2, <2>6, <3>1
  <2> QED
    BY <2>8 DEF OnlyCmd
<1> QED
  BY <1>7, <1>8 DEF m

\* off[k - 1] commands of joint a are for timepoints before k: the next one is
\* for timepoint k exactly if that names the joint.
CountsAll(t, a, off) ==
  /\ off \in [0 .. Len(t) -> Nat] /\ off[0] = 0
  /\ \A i \in 1 .. Len(t) :
       /\ (\A j \in 1 .. Len(t[i]) : t[i][j] # a) =>
            /\ off[i] = off[i - 1]
            /\ ~(off[i - 1] + 1 <= Len(CmdsOf(Pack(t), a)) /\ CmdsOf(Pack(t), a)[off[i - 1] + 1][1] = i)
       /\ \A j \in 1 .. Len(t[i]) : t[i][j] = a =>
            /\ off[i] = off[i - 1] + 1
            /\ off[i - 1] + 1 <= Len(CmdsOf(Pack(t), a))
            /\ CmdsOf(Pack(t), a)[off[i - 1] + 1] = <<i, <<i, j>>>>

\* The commands that the first loop collects for a joint can be counted so.
LEMMA AllCounted ==
  ASSUME NEW n \in Nat, NEW t \in [1 .. n -> Seq(Actuators)], WellFormed(t), NEW a
  PROVE  Len(CmdsOf(Pack(t), a)) \in Nat /\ \E off : CountsAll(t, a, off)
<1> DEFINE msg == Pack(t)
           V == Nat \X (Nat \X Nat)
           parts == [i \in DOMAIN msg.num_values |-> CmdsAt(msg, a, i)]
           len == [i \in 1 .. n |-> Len(parts[i])]
           cmds == CmdsOf(msg, a)
           Named(i) == \E j \in 1 .. Len(t[i]) : t[i][j] = a
<1>0. IsPacked(n, t, msg)
  BY PackedValues
<1>1. DOMAIN msg.num_values = 1 .. n /\ Len(t) = n
  <2> HIDE DEF msg
  <2> QED
    BY <1>0 DEF IsPacked
<1>2. cmds = FlattenSeq(parts)
  BY DEF CmdsOf
<1>3. \A i \in 1 .. n : parts[i] = CmdsAt(msg, a, i)
  BY <1>1
<1>4. \A i \in 1 .. n : ~Named(i) => parts[i] = <<>>
  <2>1. \A i \in 1 .. n : (\A j \in 1 .. Len(t[i]) : t[i][j] # a) => CmdsAt(msg, a, i) = <<>>
    <3> HIDE DEF msg
    <3> QED
      BY <1>0, CmdsAtTimepoint, Zenon
  <2> HIDE DEF parts, msg
  <2> QED
    BY <1>3, <2>1, Zenon
<1>5. \A i \in 1 .. n : \A j \in 1 .. Len(t[i]) : t[i][j] = a => parts[i] = OnlyCmd(i, j)
  <2>1. \A i \in 1 .. n : \A j \in 1 .. Len(t[i]) : t[i][j] = a => CmdsAt(msg, a, i) = OnlyCmd(i, j)
    <3> HIDE DEF msg
    <3>1. ASSUME NEW i \in 1 .. n
          PROVE  \A j \in 1 .. Len(t[i]) : t[i][j] = a => CmdsAt(msg, a, i) = OnlyCmd(i, j)
      BY <1>0, CmdsAtTimepoint
    <3> QED
      BY <3>1
  <2> HIDE DEF parts, msg
  <2> QED
    BY <1>3, <2>1, Zenon
<1>6. DOMAIN parts = 1 .. n /\ parts = [i \in 1 .. n |-> parts[i]]
  BY <1>1
<1> HIDE DEF msg, parts, cmds
<1>7. ASSUME NEW i \in 1 .. n PROVE parts[i] \in Seq(V)
  <2>1. CASE Named(i)
    <3>1. PICK j \in 1 .. Len(t[i]) : t[i][j] = a
      BY <2>1
    <3>2. <<i, <<i, j>>>> \in V
      OBVIOUS
    <3> HIDE DEF V
    <3>3. parts[i] = <<<<i, <<i, j>>>>>>
      BY <1>5, <3>1, Zenon DEF OnlyCmd
    <3> QED
      BY <3>2, <3>3
  <2>2. CASE ~Named(i)
    <3>1. <<>> \in Seq(V)
      OBVIOUS
    <3> QED
      BY <1>4, <2>2, <3>1
  <2> QED
    BY <2>1, <2>2
<1> HIDE DEF V
<1>8. parts \in [1 .. n -> Seq(V)]
  BY <1>6, <1>7
<1>9. len \in [1 .. n -> Nat]
  BY <1>7
<1>10. \A i \in 1 .. n : len[i] = Len(parts[i])
  OBVIOUS
<1> HIDE DEF len
<1>11. PICK off : IsOffsets(n, len, off)
  BY <1>9, OffsetsExist
<1>12. off \in [0 .. n -> Nat] /\ off[0] = 0 /\ \A i \in 1 .. n : off[i] = off[i - 1] + Len(parts[i])
  BY <1>10, <1>11 DEF IsOffsets
<1>13. IsFlat(parts, off, n, cmds)
  <2>1. off \in [0 .. n -> Nat] /\ off[0] = 0
    BY <1>12
  <2>2. \A i \in 1 .. n : off[i] = off[i - 1] + Len(parts[i])
    BY <1>12
  <2>3. IsFlat(parts, off, n, FlattenSeq(parts))
    BY <1>8, <2>1, <2>2, FlattenElements
  <2> QED
    BY <1>2, <2>3
<1>14. ASSUME NEW i \in 1 .. n, NEW j \in 1 .. Len(t[i]), t[i][j] = a
       PROVE  off[i] = off[i - 1] + 1 /\ off[i - 1] + 1 <= Len(cmds) /\ cmds[off[i - 1] + 1] = <<i, <<i, j>>>>
  <2>1. parts[i] = <<<<i, <<i, j>>>>>>
    BY <1>5, <1>14, Zenon DEF OnlyCmd
  <2>2. Len(parts[i]) = 1 /\ parts[i][1] = <<i, <<i, j>>>>
    BY <2>1
  <2>3. 1 \in 1 .. Len(parts[i])
    BY <2>2
  <2>4. off[i - 1] + 1 \in 1 .. off[n] /\ cmds[off[i - 1] + 1] = parts[i][1] /\ Len(cmds) = off[n]
    BY <1>13, <2>3 DEF IsFlat
  <2>5. off[i - 1] \in Nat /\ off[n] \in Nat
    BY <1>12
  <2>6. off[i - 1] + 1 <= Len(cmds)
    BY <2>4, <2>5
  <2> QED
    BY <1>12, <2>2, <2>4, <2>6
<1>15. ASSUME NEW i \in 1 .. n, \A j \in 1 .. Len(t[i]) : t[i][j] # a
       PROVE  off[i] = off[i - 1] /\ ~(off[i - 1] + 1 <= Len(cmds) /\ cmds[off[i - 1] + 1][1] = i)
  <2>1. parts[i] = <<>>
    BY <1>4, <1>15
  <2>2. off[i - 1] \in Nat /\ off[n] \in Nat
    BY <1>12
  <2>3. off[i] = off[i - 1]
    BY <1>12, <2>1, <2>2
  <2>4. SUFFICES ASSUME off[i - 1] + 1 <= Len(cmds), cmds[off[i - 1] + 1][1] = i PROVE FALSE
    BY <2>3
  <2>5. off[i - 1] + 1 \in 1 .. off[n]
    BY <1>13, <2>2, <2>4 DEF IsFlat
  <2>6. PICK h \in 1 .. n : \E j \in 1 .. Len(parts[h]) : off[i - 1] + 1 = off[h - 1] + j
    BY <1>13, <2>5 DEF IsFlat
  <2>7. PICK j \in 1 .. Len(parts[h]) : off[i - 1] + 1 = off[h - 1] + j
    BY <2>6
  <2>8. cmds[off[i - 1] + 1] = parts[h][j]
    BY <1>13, <2>7 DEF IsFlat
  <2>9. Named(h)
    <3>1. Len(<<>>) = 0
      OBVIOUS
    <3>2. parts[h] # <<>>
      <4>1. SUFFICES ASSUME parts[h] = <<>> PROVE FALSE
        OBVIOUS
      <4>2. j \in 1 .. 0
        BY <3>1, <4>1
      <4> QED
        BY <4>2
    <3> QED
      BY <1>4, <3>2
  <2>10. PICK k \in 1 .. Len(t[h]) : t[h][k] = a
    BY <2>9
  <2>11. parts[h] = <<<<h, <<h, k>>>>>>
    BY <1>5, <2>10, Zenon DEF OnlyCmd
  <2>12. j = 1
    BY <2>11
  <2>13. parts[h][j][1] = h
    BY <2>11, <2>12
  <2>14. h = i
    BY <2>4, <2>8, <2>13
  <2> QED
    BY <1>15, <2>10, <2>14
<1> QED
  <2>1. CountsAll(t, a, off)
    BY <1>1, <1>12, <1>14, <1>15 DEF CountsAll, cmds, msg
  <2>2. Len(cmds) \in Nat
    BY <1>12, <1>13 DEF IsFlat
  <2> QED
    BY <2>1, <2>2 DEF cmds, msg

\* The same as idx has it: at[k - 1] is where the index of joint a stands before
\* timepoint k, having wrapped if all values were used.
CountsCmds(t, a, at) ==
  /\ at \in [0 .. Len(t) -> Nat] /\ at[0] = 0
  /\ \A i \in 1 .. Len(t) :
       /\ (\A j \in 1 .. Len(t[i]) : t[i][j] # a) =>
            /\ at[i] = at[i - 1]
            /\ ~(at[i - 1] # Len(CmdsOf(Pack(t), a)) /\ CmdsOf(Pack(t), a)[at[i - 1] + 1][1] = i)
       /\ \A j \in 1 .. Len(t[i]) : t[i][j] = a =>
            /\ at[i] = (at[i - 1] + 1) % IdxRange
            /\ at[i - 1] # Len(CmdsOf(Pack(t), a))
            /\ CmdsOf(Pack(t), a)[at[i - 1] + 1] = <<i, <<i, j>>>>

\* A joint that no more timepoints name than idx has values is never passed
\* over: where the index has wrapped, the joint is named no more, and its first
\* command is for an earlier timepoint.
LEMMA CmdsCounted ==
  ASSUME NEW n \in Nat, NEW t \in [1 .. n -> Seq(Actuators)], WellFormed(t), NEW a \in Actuators
  PROVE  \E at : CountsCmds(t, a, at)
<1> DEFINE cmds == CmdsOf(Pack(t), a)
           R == IdxRange
           Named(i) == \E j \in 1 .. Len(t[i]) : t[i][j] = a
           N(k) == {i \in 1 .. k : Named(i)}
<1>1. Len(t) = n /\ R \in Nat \ {0}
  BY NaoAssumption
<1>2. Len(cmds) \in Nat
  BY AllCounted
<1>3. PICK off : CountsAll(t, a, off)
  BY AllCounted
<1> HIDE DEF cmds, R
<1>4. off \in [0 .. n -> Nat] /\ off[0] = 0
  BY <1>1, <1>3 DEF CountsAll
<1>5. ASSUME NEW i \in 1 .. n, ~Named(i)
      PROVE  off[i] = off[i - 1] /\ ~(off[i - 1] + 1 <= Len(cmds) /\ cmds[off[i - 1] + 1][1] = i)
  BY <1>1, <1>3, <1>5 DEF CountsAll, cmds
<1>6. ASSUME NEW i \in 1 .. n, NEW j \in 1 .. Len(t[i]), t[i][j] = a
      PROVE  off[i] = off[i - 1] + 1 /\ off[i - 1] + 1 <= Len(cmds) /\ cmds[off[i - 1] + 1] = <<i, <<i, j>>>>
  BY <1>1, <1>3, <1>6 DEF CountsAll, cmds
<1>7. \A k \in 0 .. n : /\ IsFiniteSet(N(k)) /\ Cardinality(N(k)) = off[k] /\ off[k] <= Len(cmds)
                        /\ off[k] # 0 => cmds[1][1] \in 1 .. k
  <2> DEFINE T == {k \in Nat : k <= n =>
                     /\ IsFiniteSet(N(k)) /\ Cardinality(N(k)) = off[k] /\ off[k] <= Len(cmds)
                     /\ off[k] # 0 => cmds[1][1] \in 1 .. k}
  <2>1. 0 \in T
    <3>1. N(0) = {}
      OBVIOUS
    <3> QED
      BY <1>2, <1>4, <3>1, FS_EmptySet
  <2>2. ASSUME NEW k \in T PROVE k + 1 \in T
    <3>0. k \in Nat
      OBVIOUS
    <3>1. SUFFICES ASSUME k + 1 <= n
                   PROVE  /\ IsFiniteSet(N(k + 1)) /\ Cardinality(N(k + 1)) = off[k + 1] /\ off[k + 1] <= Len(cmds)
                          /\ off[k + 1] # 0 => cmds[1][1] \in 1 .. k + 1
      BY <3>0
    <3>2. k + 1 \in 1 .. n /\ k \in 0 .. n /\ (k + 1) - 1 = k /\ off[k] \in Nat
      BY <1>4, <3>0, <3>1
    <3>3. /\ IsFiniteSet(N(k)) /\ Cardinality(N(k)) = off[k] /\ off[k] <= Len(cmds)
          /\ off[k] # 0 => cmds[1][1] \in 1 .. k
      BY <3>1, <3>0
    <3>4. CASE ~Named(k + 1)
      <4>1. N(k + 1) = N(k)
        BY <3>0, <3>4
      <4>2. off[k + 1] = off[k]
        BY <1>5, <3>2, <3>4
      <4> HIDE DEF N
      <4> QED
        BY <3>0, <3>3, <4>1, <4>2
    <3>5. CASE Named(k + 1)
      <4>1. PICK j \in 1 .. Len(t[k + 1]) : t[k + 1][j] = a
        BY <3>5
      <4>2. off[k + 1] = off[k] + 1 /\ off[k] + 1 <= Len(cmds) /\ cmds[off[k] + 1] = <<k + 1, <<k + 1, j>>>>
        BY <1>6, <3>2, <4>1
      <4>3. N(k + 1) = N(k) \cup {k + 1} /\ k + 1 \notin N(k)
        BY <3>0, <3>5
      <4>4. IsFiniteSet(N(k + 1)) /\ Cardinality(N(k + 1)) = off[k] + 1
        <5> HIDE DEF N
        <5> QED
          BY <3>3, <4>3, FS_AddElement
      <4>5. off[k] = 0 => cmds[1][1] = k + 1
        BY <4>2
      <4> HIDE DEF N
      <4> QED
        BY <3>0, <3>2, <3>3, <4>2, <4>4, <4>5
    <3> QED
      BY <3>4, <3>5
  <2> HIDE DEF T
  <2>3. T \subseteq Nat
    BY DEF T
  <2>4. Nat \subseteq T
    BY <2>1, <2>2, <2>3, SetInduction
  <2> HIDE DEF N
  <2> SUFFICES ASSUME NEW k \in 0 .. n
               PROVE  /\ IsFiniteSet(N(k)) /\ Cardinality(N(k)) = off[k] /\ off[k] <= Len(cmds)
                      /\ off[k] # 0 => cmds[1][1] \in 1 .. k
    OBVIOUS
  <2>5. k \in T /\ k <= n
    BY <2>4
  <2> QED
    BY <2>5 DEF T
<1>8. \A k \in 0 .. n : off[k] <= R
  <2> SUFFICES ASSUME NEW k \in 0 .. n PROVE off[k] <= R
    OBVIOUS
  <2>1. N(k) \subseteq N(n) /\ n \in 0 .. n
    OBVIOUS
  <2>2. N(n) = {i \in DOMAIN t : a \in ToSet(t[i])}
    <3>1. \A i \in 1 .. n : DOMAIN t[i] = 1 .. Len(t[i])
      OBVIOUS
    <3> QED
      BY <3>1 DEF ToSet
  <2>3. Cardinality(N(n)) <= R
    BY <2>2 DEF WellFormed, R
  <2> HIDE DEF N
  <2>4. IsFiniteSet(N(n)) /\ Cardinality(N(k)) = off[k] /\ Cardinality(N(n)) = off[n]
    BY <1>7, <2>1
  <2>5. Cardinality(N(k)) <= Cardinality(N(n))
    BY <2>1, <2>4, FS_Subset
  <2>6. off[k] \in Nat /\ off[n] \in Nat
    BY <1>4, <2>1
  <2> QED
    BY <1>1, <2>3, <2>4, <2>5, <2>6
<1> DEFINE at == [k \in 0 .. n |-> off[k] % R]
<1>9. at \in [0 .. n -> Nat] /\ at[0] = 0
  BY <1>1, <1>4
<1>10. \A k \in 0 .. n : at[k] = IF off[k] = R THEN 0 ELSE off[k]
  <2> SUFFICES ASSUME NEW k \in 0 .. n PROVE off[k] % R = IF off[k] = R THEN 0 ELSE off[k]
    OBVIOUS
  <2>1. off[k] \in Nat /\ off[k] <= R
    BY <1>4, <1>8
  <2>2. off[k] < R => off[k] % R = off[k]
    BY <1>1, <2>1
  <2>3. R % R = 0
    BY <1>1
  <2>4. CASE off[k] = R
    BY <2>3, <2>4
  <2>5. CASE off[k] < R
    BY <1>1, <2>1, <2>2, <2>5
  <2> QED
    BY <1>1, <2>1, <2>4, <2>5
<1>11. \A k \in 0 .. n : at[k] = off[k] % R
  OBVIOUS
<1> HIDE DEF at, N
<1>12. ASSUME NEW i \in 1 .. n, \A j \in 1 .. Len(t[i]) : t[i][j] # a
       PROVE  at[i] = at[i - 1] /\ ~(at[i - 1] # Len(cmds) /\ cmds[at[i - 1] + 1][1] = i)
  <2>1. i \in 0 .. n /\ i - 1 \in 0 .. n
    OBVIOUS
  <2>2. off[i] = off[i - 1] /\ ~(off[i - 1] + 1 <= Len(cmds) /\ cmds[off[i - 1] + 1][1] = i)
    BY <1>5, <1>12
  <2>3. at[i] = at[i - 1]
    BY <1>11, <2>1, <2>2
  <2>4. off[i - 1] <= Len(cmds) /\ off[i - 1] \in Nat /\ (off[i - 1] # 0 => cmds[1][1] \in 1 .. i - 1)
    <3> DEFINE k == i - 1
    <3>1. k \in 0 .. n
      BY <2>1
    <3> HIDE DEF k
    <3>2. off[k] <= Len(cmds) /\ off[k] \in Nat /\ (off[k] # 0 => cmds[1][1] \in 1 .. k)
      BY <1>4, <1>7, <3>1
    <3> QED
      BY <3>2 DEF k
  <2>5. CASE off[i - 1] = R
    <3>1. at[i - 1] = 0 /\ off[i - 1] # 0
      BY <1>1, <1>10, <2>1, <2>5
    <3>2. cmds[1][1] # i
      BY <2>4, <3>1
    <3> QED
      BY <2>3, <3>1, <3>2
  <2>6. CASE off[i - 1] # R
    <3>1. at[i - 1] = off[i - 1]
      BY <1>10, <2>1, <2>6
    <3>2. off[i - 1] # Len(cmds) => off[i - 1] + 1 <= Len(cmds)
      BY <1>2, <2>4
    <3> QED
      BY <2>2, <2>3, <3>1, <3>2
  <2> QED
    BY <2>5, <2>6
<1>13. ASSUME NEW i \in 1 .. n, NEW j \in 1 .. Len(t[i]), t[i][j] = a
       PROVE  /\ at[i] = (at[i - 1] + 1) % R /\ at[i - 1] # Len(cmds)
              /\ cmds[at[i - 1] + 1] = <<i, <<i, j>>>>
  <2>1. i \in 0 .. n /\ i - 1 \in 0 .. n
    OBVIOUS
  <2>2. off[i] = off[i - 1] + 1 /\ off[i - 1] + 1 <= Len(cmds) /\ cmds[off[i - 1] + 1] = <<i, <<i, j>>>>
    BY <1>6, <1>13
  <2>3. off[i - 1] \in Nat /\ off[i - 1] < R
    BY <1>1, <1>4, <1>8, <2>1, <2>2
  <2>4. at[i - 1] = off[i - 1]
    BY <1>1, <1>10, <2>1, <2>3
  <2>5. at[i] = off[i] % R
    BY <1>11, <2>1
  <2> QED
    BY <1>2, <2>2, <2>3, <2>4, <2>5
<1> QED
  <2>1. CountsCmds(t, a, at)
    BY <1>1, <1>9, <1>12, <1>13 DEF CountsCmds, cmds, R
  <2> QED
    BY <2>1

\* The joints of the message, each once.
LEMMA JointsOnce ==
  ASSUME NEW msg, msg.actuators \in Seq(Actuators)
  PROVE  /\ ActuatorCmds(msg) \in Seq(Actuators)
         /\ \A k \in DOMAIN msg.actuators : \E l \in DOMAIN ActuatorCmds(msg) : ActuatorCmds(msg)[l] = msg.actuators[k]
         /\ \A k, l \in DOMAIN ActuatorCmds(msg) : k # l => ActuatorCmds(msg)[k] # ActuatorCmds(msg)[l]
<1> DEFINE s == msg.actuators
           n == Len(s)
           F == {k \in DOMAIN s : \A l \in 1 .. k - 1 : s[l] # s[k]}
           ids == Sorted(F)
           c == Cardinality(F)
           acts == Among(s, F)
<1>1. s \in Seq(Actuators) /\ n \in Nat /\ DOMAIN s = 1 .. n
  OBVIOUS
<1>2. ActuatorCmds(msg) = acts
  BY DEF ActuatorCmds
<1> HIDE DEF s, n
<1>3. F \in SUBSET (1 .. n) /\ F \in SUBSET DOMAIN s
  BY <1>1
<1>4. \A k, l \in F : k # l => s[k] # s[l]
  <2>1. ASSUME NEW k \in F, NEW l \in F, l < k PROVE s[l] # s[k]
    <3>1. l \in 1 .. k - 1
      BY <1>1, <2>1
    <3> QED
      BY <3>1
  <2>2. ASSUME NEW k \in F, NEW l \in F, k # l PROVE s[k] # s[l]
    <3>1. k < l \/ l < k
      BY <1>1, <2>2
    <3> HIDE DEF F
    <3> QED
      BY <2>1, <3>1
  <2> HIDE DEF F
  <2> QED
    BY <2>2
<1>5. ASSUME NEW k \in DOMAIN s PROVE \E l \in F : s[l] = s[k]
  <2> DEFINE T == {l \in DOMAIN s : s[l] = s[k]}
  <2>1. T \in SUBSET Nat /\ T # {}
    BY <1>1
  <2>2. PICK x \in T : \A y \in T : x <= y
    BY <2>1, LeastElement
  <2>3. \A l \in 1 .. x - 1 : l \in DOMAIN s /\ ~(x <= l)
    BY <1>1
  <2>4. \A l \in 1 .. x - 1 : s[l] # s[x]
    BY <2>2, <2>3
  <2> QED
    BY <2>4
<1> HIDE DEF F
<1>6. /\ c \in Nat /\ ids \in [1 .. c -> F]
      /\ \A x \in F : \E k \in 1 .. c : ids[k] = x
      /\ \A j, k \in 1 .. c : j # k => ids[j] # ids[k]
  BY <1>1, <1>3, SortedNumbers
<1>7. acts = [k \in DOMAIN ids |-> s[ids[k]]]
  BY DEF Among
<1>8. acts \in Seq(Actuators)
  BY <1>1, <1>3, AmongElements
<1> HIDE DEF ids, c, acts
<1>9. DOMAIN acts = 1 .. c /\ \A k \in 1 .. c : acts[k] = s[ids[k]] /\ ids[k] \in F
  BY <1>6, <1>7
<1>10. ASSUME NEW k \in DOMAIN s PROVE \E l \in DOMAIN acts : acts[l] = s[k]
  <2>1. PICK x \in F : s[x] = s[k]
    BY <1>5
  <2>2. PICK l \in 1 .. c : ids[l] = x
    BY <1>6
  <2> QED
    BY <1>9, <2>1, <2>2
<1>11. ASSUME NEW k \in DOMAIN acts, NEW l \in DOMAIN acts, k # l PROVE acts[k] # acts[l]
  <2>1. ids[k] # ids[l] /\ ids[k] \in F /\ ids[l] \in F
    BY <1>6, <1>9, <1>11
  <2> QED
    BY <1>4, <1>9, <2>1
<1>12. /\ acts \in Seq(Actuators)
       /\ \A k \in DOMAIN s : \E l \in DOMAIN acts : acts[l] = s[k]
       /\ \A k, l \in DOMAIN acts : k # l => acts[k] # acts[l]
  BY <1>8, <1>10, <1>11
<1> QED
  BY <1>2, <1>12, Zenon DEF s

\* Where the counters of the joints stand before timepoint i, the joints that
\* are due are those of the timepoint, as many as it has values.
LEMMA DueJoints ==
  ASSUME NEW n \in Nat, NEW t \in [1 .. n -> Seq(Actuators)], WellFormed(t), NEW i \in 1 .. n,
         NEW idx \in [Actuators -> Nat],
         \A a \in Actuators : \E off : CountsCmds(t, a, off) /\ idx[a] = off[i - 1] + 1
  PROVE  /\ Due(Pack(t), idx, i) \in Seq(Actuators)
         /\ Len(Due(Pack(t), idx, i)) = Len(t[i])
         /\ ToSet(Due(Pack(t), idx, i)) = ToSet(t[i])
<1> DEFINE msg == Pack(t)
           acts == ActuatorCmds(msg)
           m == Len(t[i])
           cmds(a) == CmdsOf(msg, a)
           IsDue(a) == idx[a] # Len(cmds(a)) + 1 /\ cmds(a)[idx[a]][1] = i
           S == {k \in DOMAIN acts : IsDue(acts[k])}
           due == Among(acts, S)
<1>0. IsPacked(n, t, msg) /\ Len(t) = n
  BY PackedValues
<1>1. ASSUME NEW a \in Actuators PROVE IsDue(a) <=> \E j \in 1 .. m : t[i][j] = a
  <2>1. PICK off : CountsCmds(t, a, off) /\ idx[a] = off[i - 1] + 1
    OBVIOUS
  <2>2. ASSUME \A j \in 1 .. m : t[i][j] # a PROVE ~IsDue(a)
    <3>1. ~(off[i - 1] # Len(CmdsOf(Pack(t), a)) /\ CmdsOf(Pack(t), a)[off[i - 1] + 1][1] = i)
      BY <1>0, <2>1, <2>2 DEF CountsCmds
    <3> QED
      BY <2>1, <3>1
  <2>3. ASSUME NEW j \in 1 .. m, t[i][j] = a PROVE IsDue(a)
    <3>1. off[i - 1] # Len(CmdsOf(Pack(t), a)) /\ CmdsOf(Pack(t), a)[off[i - 1] + 1] = <<i, <<i, j>>>>
      BY <1>0, <2>1, <2>3 DEF CountsCmds
    <3>2. <<i, <<i, j>>>>[1] = i
      OBVIOUS
    <3>3. CmdsOf(Pack(t), a)[off[i - 1] + 1][1] = i
      BY <3>1, <3>2
    <3>4. Len(CmdsOf(Pack(t), a)) \in Nat /\ off[i - 1] \in Nat
      BY <1>0, <2>1, AllCounted DEF CountsCmds
    <3> QED
      BY <2>1, <3>1, <3>3, <3>4
  <2> HIDE DEF IsDue
  <2> QED
    BY <2>2, <2>3
<1>2. Due(Pack(t), idx, i) = due
  BY DEF Due
<1> HIDE DEF msg
<1>3. msg.actuators \in Seq(Actuators)
  BY <1>0 DEF IsPacked
<1>4. /\ acts \in Seq(Actuators)
      /\ \A k \in DOMAIN msg.actuators : \E l \in DOMAIN acts : acts[l] = msg.actuators[k]
      /\ \A k, l \in DOMAIN acts : k # l => acts[k] # acts[l]
  BY <1>3, JointsOnce
<1>5. \A j \in 1 .. m : \E l \in DOMAIN acts : acts[l] = t[i][j]
  <2>1. \A j \in 1 .. m : \E k \in DOMAIN msg.actuators : msg.actuators[k] = t[i][j]
    BY <1>0 DEF IsPacked
  <2> SUFFICES ASSUME NEW j \in 1 .. m PROVE \E l \in DOMAIN acts : acts[l] = t[i][j]
    OBVIOUS
  <2>2. PICK k \in DOMAIN msg.actuators : msg.actuators[k] = t[i][j]
    BY <2>1
  <2> HIDE DEF acts, m
  <2>3. PICK l \in DOMAIN acts : acts[l] = msg.actuators[k]
    BY <1>4
  <2> QED
    BY <2>2, <2>3
<1>6. t[i] \in Seq(Actuators) /\ m \in Nat /\ DOMAIN t[i] = 1 .. m
  OBVIOUS
<1>7. \A j, k \in 1 .. m : t[i][j] = t[i][k] => j = k
  BY <1>6 DEF WellFormed, IsInjective
<1> HIDE DEF acts, m, IsDue
<1>8. Len(acts) \in Nat /\ DOMAIN acts = 1 .. Len(acts) /\ \A k \in DOMAIN acts : acts[k] \in Actuators
  BY <1>4
<1>9. S = {k \in DOMAIN acts : \E j \in 1 .. m : t[i][j] = acts[k]}
  BY <1>1, <1>8
<1> HIDE DEF S
<1>10. S \in SUBSET DOMAIN acts /\ S \in SUBSET (1 .. Len(acts))
  BY <1>8, <1>9
<1>11. due \in Seq(Actuators) /\ ToSet(due) = {acts[k] : k \in S}
  BY <1>4, <1>10, AmongElements
<1>12. ToSet(due) = ToSet(t[i])
  <2>1. ToSet(t[i]) = {t[i][j] : j \in 1 .. m}
    BY <1>6, Zenon DEF ToSet
  <2>2. {acts[k] : k \in S} = {t[i][j] : j \in 1 .. m}
    BY <1>5, <1>9
  <2> QED
    BY <1>11, <2>1, <2>2
<1>13. IsFiniteSet(S)
  <2>1. IsFiniteSet(1 .. Len(acts))
    BY <1>8, FS_Interval
  <2>2. S \in SUBSET (1 .. Len(acts))
    BY <1>10
  <2> QED
    BY <2>1, <2>2, FS_Subset
<1>14. Len(due) = Cardinality(S)
  <2> DEFINE ids == Sorted(S)
  <2>1. Cardinality(S) \in Nat /\ ids \in [1 .. Cardinality(S) -> S]
    BY <1>8, <1>10, SortedNumbers
  <2>2. due = [k \in DOMAIN ids |-> acts[ids[k]]]
    BY DEF Among
  <2> HIDE DEF ids, due
  <2>3. DOMAIN due = 1 .. Cardinality(S)
    BY <2>1, <2>2
  <2> QED
    BY <1>11, <2>1, <2>3
<1>15. Cardinality(S) = m
  <2> DEFINE b == [k \in S |-> CHOOSE j \in 1 .. m : t[i][j] = acts[k]]
  <2>1. \A k \in S : b[k] \in 1 .. m /\ t[i][b[k]] = acts[k]
    BY <1>9
  <2>2. b \in [S -> 1 .. m]
    BY <2>1
  <2> HIDE DEF b
  <2>3. ASSUME NEW k \in S, NEW l \in S, b[k] = b[l] PROVE k = l
    <3>1. acts[k] = acts[l]
      BY <2>1, <2>3
    <3>2. k \in DOMAIN acts /\ l \in DOMAIN acts
      BY <1>10
    <3> QED
      BY <1>4, <3>1, <3>2
  <2>4. \A j \in 1 .. m : \E k \in S : b[k] = j
    <3> SUFFICES ASSUME NEW j \in 1 .. m PROVE \E k \in S : b[k] = j
      OBVIOUS
    <3>1. PICK k \in DOMAIN acts : acts[k] = t[i][j]
      BY <1>5
    <3>2. k \in S
      BY <1>9, <3>1
    <3> QED
      BY <1>7, <2>1, <3>1, <3>2
  <2>5. b \in Bijection(S, 1 .. m)
    <3>1. IsInjective(b)
      BY <2>2, <2>3 DEF IsInjective
    <3> QED
      BY <2>2, <2>4, <3>1 DEF Bijection, Injection, Surjection
  <2>6. Cardinality(S) = Cardinality(1 .. m)
    <3>1. ExistsBijection(S, 1 .. m)
      BY <2>5, Zenon DEF ExistsBijection
    <3> QED
      BY <1>13, <3>1, FS_Bijection
  <2>7. Cardinality(1 .. m) = m
    BY <1>6, FS_Interval
  <2> QED
    BY <2>6, <2>7
<1> QED
  BY <1>2, <1>11, <1>12, <1>14, <1>15 DEF m

\* The state of the second loop of trajectory_cmd after m rounds: as many
\* calls, each with the joints and values of its timepoint.
LoopState ==
  [idx : [Actuators -> Nat], array : Seq(Actuators \X (Nat \X Nat)), calls : Seq(Seq(Actuators \X (Nat \X Nat)))]

ValuesAt(t, i) == {<<t[i][j], <<i, j>>>> : j \in DOMAIN t[i]}

FollowedUpTo(t, off, m, s) ==
  /\ s \in LoopState
  /\ \A a \in Actuators : s.idx[a] = off[a][m] + 1
  /\ Len(s.calls) = m
  /\ \A i \in 1 .. m : ToSet(s.calls[i]) = ValuesAt(t, i)

\* One round of the second loop.
LEMMA StepFollows ==
  ASSUME NEW n \in Nat, NEW t \in [1 .. n -> Seq(Actuators)], WellFormed(t),
         NEW off, \A a \in Actuators : CountsCmds(t, a, off[a]),
         NEW m \in 0 .. n - 1, NEW s, FollowedUpTo(t, off, m, s)
  PROVE  FollowedUpTo(t, off, m + 1, Step(Pack(t), s, m + 1))
<1> DEFINE C == Actuators \X (Nat \X Nat)
           i == m + 1
           msg == Pack(t)
           idx == s.idx
           due == Due(msg, idx, i)
           val(a) == CmdsOf(msg, a)[idx[a]][2]
           new == [k \in DOMAIN due |-> <<due[k], val(due[k])>>]
           array == [k \in 1 .. msg.num_values[i] |->
                       IF k \in DOMAIN new THEN new[k] ELSE IF k \in DOMAIN s.array THEN s.array[k] ELSE <<>>]
           next == NextIdx(idx, due)
           z == [idx |-> next, array |-> array, calls |-> Append(s.calls, array)]
<1>1. Step(msg, s, i) = z
  BY DEF Step
<1>2. i \in 1 .. n /\ i - 1 = m /\ m \in Nat /\ i \in Nat
  OBVIOUS
<1>3. IsPacked(n, t, msg) /\ Len(t) = n
  BY PackedValues
<1>4. t[i] \in Seq(Actuators) /\ Len(t[i]) \in Nat /\ DOMAIN t[i] = 1 .. Len(t[i])
  BY <1>2
<1>5. idx \in [Actuators -> Nat] /\ s.calls \in Seq(Seq(C)) /\ Len(s.calls) = m
  BY DEF FollowedUpTo, LoopState
<1>6. \A a \in Actuators : CountsCmds(t, a, off[a]) /\ idx[a] = off[a][i - 1] + 1
  BY <1>2 DEF FollowedUpTo
<1>7. due \in Seq(Actuators) /\ Len(due) = Len(t[i]) /\ ToSet(due) = ToSet(t[i])
  <2>1. \A a \in Actuators : \E o : CountsCmds(t, a, o) /\ idx[a] = o[i - 1] + 1
    BY <1>6
  <2> HIDE DEF idx, i
  <2> QED
    BY <1>2, <1>5, <2>1, DueJoints
<1>8. msg.num_values[i] = Len(t[i])
  <2> HIDE DEF msg
  <2> QED
    BY <1>2, <1>3 DEF IsPacked
<1>9. ASSUME NEW a \in Actuators, NEW j \in 1 .. Len(t[i]), t[i][j] = a
      PROVE  off[a][i] = (off[a][i - 1] + 1) % IdxRange /\ val(a) = <<i, j>>
  <2>1. off[a][i] = (off[a][i - 1] + 1) % IdxRange /\ CmdsOf(Pack(t), a)[off[a][i - 1] + 1] = <<i, <<i, j>>>>
    BY <1>2, <1>3, <1>6, <1>9 DEF CountsCmds
  <2>2. <<i, <<i, j>>>>[2] = <<i, j>>
    OBVIOUS
  <2> QED
    BY <1>6, <2>1, <2>2
<1>10. ASSUME NEW a \in Actuators, \A j \in 1 .. Len(t[i]) : t[i][j] # a
       PROVE  off[a][i] = off[a][i - 1]
  BY <1>2, <1>3, <1>6, <1>10 DEF CountsCmds
<1>11. \A a \in Actuators : off[a][i] \in Nat /\ off[a][i - 1] \in Nat
  <2>1. i \in 0 .. n /\ i - 1 \in 0 .. n
    BY <1>2
  <2> HIDE DEF i
  <2> QED
    BY <1>3, <1>6, <2>1 DEF CountsCmds
<1>12. DOMAIN due = 1 .. Len(t[i]) /\ \A k \in 1 .. Len(t[i]) : due[k] \in Actuators
  BY <1>4, <1>7
<1>13. \A j, k \in 1 .. Len(t[i]) : t[i][j] = t[i][k] => j = k
  BY <1>2, <1>4 DEF WellFormed, IsInjective
<1> HIDE DEF msg, idx, due, i, val
<1>14. DOMAIN new = 1 .. Len(t[i]) /\ \A k \in 1 .. Len(t[i]) : new[k] = <<due[k], val(due[k])>>
  BY <1>12
<1>15. \A a : a \in ToSet(due) <=> \E j \in 1 .. Len(t[i]) : t[i][j] = a
  BY <1>4, <1>7 DEF ToSet
<1>16. ASSUME NEW k \in 1 .. Len(t[i])
       PROVE  \E j \in 1 .. Len(t[i]) : new[k] = <<t[i][j], <<i, j>>>> /\ new[k] \in C
  <2>1. due[k] \in ToSet(due)
    BY <1>12 DEF ToSet
  <2>2. PICK j \in 1 .. Len(t[i]) : t[i][j] = due[k]
    BY <1>15, <2>1
  <2>3. val(due[k]) = <<i, j>>
    BY <1>9, <1>12, <2>2
  <2>4. new[k] = <<t[i][j], <<i, j>>>>
    BY <1>14, <2>2, <2>3
  <2>5. t[i][j] \in Actuators /\ i \in Nat /\ j \in Nat
    BY <1>2, <1>4
  <2>6. <<t[i][j], <<i, j>>>> \in C
    BY <2>5
  <2> HIDE DEF new, C
  <2>7. new[k] \in C
    BY <2>4, <2>6
  <2> QED
    BY <2>4, <2>7
<1>17. array = new
  <2> HIDE DEF new
  <2>1. array = [k \in 1 .. Len(t[i]) |-> new[k]]
    BY <1>8, <1>14
  <2>2. new = [k \in 1 .. Len(t[i]) |-> new[k]]
    BY <1>14 DEF new
  <2> QED
    BY <2>1, <2>2
<1>18. ToSet(new) = ValuesAt(t, i)
  <2>1. ToSet(new) = {new[k] : k \in 1 .. Len(t[i])}
    BY <1>14, Zenon DEF ToSet
  <2>2. ValuesAt(t, i) = {<<t[i][j], <<i, j>>>> : j \in 1 .. Len(t[i])}
    BY <1>4, Zenon DEF ValuesAt
  <2> HIDE DEF new, C
  <2>3. ASSUME NEW j \in 1 .. Len(t[i]) PROVE \E k \in 1 .. Len(t[i]) : new[k] = <<t[i][j], <<i, j>>>>
    <3>1. t[i][j] \in ToSet(due)
      BY <1>15
    <3>2. PICK k \in 1 .. Len(t[i]) : due[k] = t[i][j]
      BY <1>12, <3>1 DEF ToSet
    <3>3. t[i][j] \in Actuators
      BY <1>4
    <3>4. val(due[k]) = <<i, j>>
      BY <1>9, <3>2, <3>3
    <3> QED
      BY <1>14, <3>2, <3>4
  <2> DEFINE v(j) == <<t[i][j], <<i, j>>>>
  <2>4. \A k \in 1 .. Len(t[i]) : \E j \in 1 .. Len(t[i]) : new[k] = v(j)
    BY <1>16
  <2>5. \A j \in 1 .. Len(t[i]) : \E k \in 1 .. Len(t[i]) : new[k] = v(j)
    BY <2>3
  <2>6. ValuesAt(t, i) = {v(j) : j \in 1 .. Len(t[i])}
    BY <2>2
  <2> HIDE DEF v
  <2> QED
    BY <2>1, <2>4, <2>5, <2>6
<1>19. new \in Seq(C)
  <2>1. \A k \in 1 .. Len(t[i]) : new[k] \in C
    BY <1>16
  <2>2. new = [k \in 1 .. Len(t[i]) |-> new[k]]
    BY <1>14
  <2> HIDE DEF new, C
  <2>3. new \in [1 .. Len(t[i]) -> C]
    BY <2>1, <2>2
  <2> DEFINE l == Len(t[i])
  <2>4. l \in Nat /\ new \in [1 .. l -> C]
    BY <1>4, <2>3
  <2> HIDE DEF l
  <2> QED
    BY <2>4
<1> HIDE DEF new, array, C
<1>20. ASSUME NEW a \in Actuators PROVE next[a] = off[a][i] + 1 /\ next[a] \in Nat
  <2>1. next[a] = IF a \in ToSet(due) THEN (idx[a] % IdxRange) + 1 ELSE idx[a]
    BY DEF NextIdx
  <2>2. CASE a \in ToSet(due)
    <3>1. PICK j \in 1 .. Len(t[i]) : t[i][j] = a
      BY <1>15, <2>2
    <3>2. off[a][i] = (off[a][i - 1] + 1) % IdxRange
      BY <1>9, <3>1
    <3> QED
      BY <1>6, <1>11, <2>1, <2>2, <3>2
  <2>3. CASE a \notin ToSet(due)
    <3>1. off[a][i] = off[a][i - 1]
      BY <1>10, <1>15, <2>3
    <3> QED
      BY <1>6, <1>11, <2>1, <2>3, <3>1
  <2> QED
    BY <2>2, <2>3
<1>21. next \in [Actuators -> Nat]
  <2>1. next = [a \in Actuators |-> next[a]]
    BY DEF NextIdx
  <2> HIDE DEF next
  <2> QED
    BY <1>20, <2>1
<1> HIDE DEF next
<1>22. /\ Append(s.calls, array) \in Seq(Seq(C)) /\ Len(Append(s.calls, array)) = i
       /\ \A k \in 1 .. m : Append(s.calls, array)[k] = s.calls[k]
       /\ Append(s.calls, array)[i] = array
  <2>1. array \in Seq(C)
    BY <1>17, <1>19
  <2> DEFINE w == s.calls
             D == Seq(C)
  <2>2. w \in Seq(D) /\ array \in D /\ Len(w) = m /\ i = m + 1
    BY <1>5, <2>1 DEF i
  <2> HIDE DEF w, D
  <2>3. /\ Append(w, array) \in Seq(D) /\ Len(Append(w, array)) = i
        /\ \A k \in 1 .. m : Append(w, array)[k] = w[k]
        /\ Append(w, array)[i] = array
    BY <1>2, <2>2
  <2> QED
    BY <2>3 DEF w, D
<1>23. z.idx = next /\ z.calls = Append(s.calls, array) /\ z \in LoopState
  BY <1>17, <1>19, <1>21, <1>22 DEF LoopState, C
<1>24. ASSUME NEW k \in 1 .. i PROVE ToSet(z.calls[k]) = ValuesAt(t, k)
  <2>1. CASE k = i
    BY <1>17, <1>18, <1>22, <1>23, <2>1
  <2>2. CASE k # i
    <3>1. k \in 1 .. m
      BY <1>2, <2>2
    <3> QED
      BY <1>22, <1>23, <3>1 DEF FollowedUpTo
  <2> QED
    BY <2>1, <2>2
<1> HIDE DEF z
<1>25. FollowedUpTo(t, off, i, z)
  BY <1>20, <1>22, <1>23, <1>24 DEF FollowedUpTo
<1> QED
  BY <1>1, <1>25 DEF i, msg

\* trajectory_cmd makes one call for each timepoint, with its joints and values.
LEMMA TrajectoryCalls ==
  ASSUME NEW n \in Nat, NEW t \in [1 .. n -> Seq(Actuators)], WellFormed(t)
  PROVE  Len(Calls(Pack(t))) = n /\ \A i \in 1 .. n : ToSet(Calls(Pack(t))[i]) = ValuesAt(t, i)
<1> DEFINE msg == Pack(t)
           off == [a \in Actuators |-> CHOOSE o : CountsCmds(t, a, o)]
           base == [idx |-> [a \in Actuators |-> 1], array |-> <<>>, calls |-> <<>>]
           Loop(g) == g = [i \in 0 .. n |-> IF i = 0 THEN base ELSE Step(msg, g[i - 1], i)]
           turn == CHOOSE g : Loop(g)
           next == [x \in (1 .. n) \X LoopState |->
                      IF Step(msg, x[2], x[1]) \in LoopState THEN Step(msg, x[2], x[1]) ELSE x[2]]
           Good(m, s) == FollowedUpTo(t, off, m, s)
<1>1. \A a \in Actuators : CountsCmds(t, a, off[a])
  BY CmdsCounted
<1> HIDE DEF off
<1>2. Len(msg.num_values) = n /\ Len(t) = n
  <2>1. IsPacked(n, t, msg)
    BY PackedValues
  <2> HIDE DEF msg
  <2> QED
    BY <2>1 DEF IsPacked
<1>3. Calls(Pack(t)) = turn[n].calls
  BY <1>2 DEF Calls
<1>4. base \in LoopState /\ base.idx = [a \in Actuators |-> 1] /\ base.calls = <<>>
  BY DEF LoopState
<1>5. Good(0, base)
  <2>1. \A a \in Actuators : off[a][0] = 0
    BY <1>1, <1>2 DEF CountsCmds
  <2>2. \A a \in Actuators : base.idx[a] = off[a][0] + 1
    BY <2>1
  <2>3. Len(base.calls) = 0 /\ 1 .. 0 = {}
    BY <1>4
  <2> HIDE DEF base
  <2> QED
    BY <1>4, <2>2, <2>3 DEF FollowedUpTo
<1> HIDE DEF base
<1>6. \A m \in 0 .. n - 1 : \A s : Good(m, s) => Good(m + 1, Step(msg, s, m + 1))
  BY <1>1, StepFollows
<1> HIDE DEF msg
<1>7. \A m, s : Good(m, s) => s \in LoopState
  BY DEF FollowedUpTo
<1> HIDE DEF Good
<1>8. next \in [(1 .. n) \X LoopState -> LoopState]
  OBVIOUS
<1>9. \A k \in 1 .. n, s \in LoopState : Step(msg, s, k) \in LoopState => next[<<k, s>>] = Step(msg, s, k)
  OBVIOUS
<1> HIDE DEF next
<1>10. \E g : Iterates(n, LoopState, base, next, g)
  BY <1>4, <1>8, RecursiveFunction
<1>11. PICK g \in [0 .. n -> LoopState] : g[0] = base /\ \A k \in 1 .. n : g[k] = next[<<k, g[k - 1]>>]
  BY <1>10 DEF Iterates
<1> DEFINE U == {m \in Nat : m + 1 <= n => Good(m, g[m]) /\ g[m + 1] = Step(msg, g[m], m + 1)}
<1>12. ASSUME NEW m \in Nat, m + 1 <= n, Good(m, g[m]) PROVE g[m + 1] = Step(msg, g[m], m + 1)
  <2>1. m \in 0 .. n - 1 /\ m + 1 \in 1 .. n /\ (m + 1) - 1 = m /\ m \in 0 .. n
    BY <1>12
  <2>2. Step(msg, g[m], m + 1) \in LoopState
    BY <1>6, <1>7, <1>12, <2>1
  <2>3. g[m + 1] = next[<<m + 1, g[m]>>] /\ g[m] \in LoopState
    BY <1>11, <2>1
  <2> QED
    BY <1>9, <2>1, <2>2, <2>3
<1>13. 0 \in U
  BY <1>5, <1>11, <1>12
<1>14. ASSUME NEW m \in U PROVE m + 1 \in U
  <2>1. m \in Nat /\ m + 1 \in Nat
    OBVIOUS
  <2>2. SUFFICES ASSUME (m + 1) + 1 <= n
                 PROVE  Good(m + 1, g[m + 1]) /\ g[(m + 1) + 1] = Step(msg, g[m + 1], (m + 1) + 1)
    BY <2>1
  <2>3. m + 1 <= n /\ m \in 0 .. n - 1
    BY <2>1, <2>2
  <2>4. Good(m, g[m]) /\ g[m + 1] = Step(msg, g[m], m + 1)
    BY <2>3
  <2>5. Good(m + 1, g[m + 1])
    BY <1>6, <2>3, <2>4
  <2> QED
    BY <1>12, <2>1, <2>2, <2>5
<1>15. U = Nat
  BY <1>13, <1>14, SetInduction
<1>16. \E h : Loop(h)
  <2>1. ASSUME NEW i \in 1 .. n PROVE g[i] = Step(msg, g[i - 1], i)
    <3>1. i - 1 \in Nat /\ (i - 1) + 1 = i /\ (i - 1) + 1 <= n
      OBVIOUS
    <3>2. i - 1 \in U
      BY <1>15, <3>1
    <3>3. g[(i - 1) + 1] = Step(msg, g[i - 1], (i - 1) + 1)
      BY <3>1, <3>2
    <3> QED
      BY <3>1, <3>3
  <2>2. ASSUME NEW i \in 0 .. n PROVE g[i] = IF i = 0 THEN base ELSE Step(msg, g[i - 1], i)
    <3>1. CASE i = 0
      BY <1>11, <3>1
    <3>2. CASE i # 0
      <4>1. i \in 1 .. n
        BY <3>2
      <4> QED
        BY <2>1, <3>2, <4>1
    <3> QED
      BY <3>1, <3>2
  <2>3. g = [i \in 0 .. n |-> g[i]]
    BY <1>11
  <2>4. Loop(g)
    BY <2>2, <2>3
  <2> QED
    BY <2>4
<1>17. Loop(turn)
  BY <1>16
<1> HIDE DEF turn
<1>18. \A i \in 0 .. n : turn[i] = IF i = 0 THEN base ELSE Step(msg, turn[i - 1], i)
  BY <1>17
<1> HIDE DEF Loop
<1> DEFINE W == {m \in Nat : m <= n => Good(m, turn[m])}
<1>19. 0 \in W
  BY <1>5, <1>18
<1>20. ASSUME NEW m \in W PROVE m + 1 \in W
  <2>1. m \in Nat /\ m + 1 \in Nat
    OBVIOUS
  <2>2. SUFFICES ASSUME m + 1 <= n PROVE Good(m + 1, turn[m + 1])
    BY <2>1
  <2>3. m <= n /\ m \in 0 .. n - 1 /\ m + 1 \in 0 .. n /\ m + 1 # 0 /\ (m + 1) - 1 = m
    BY <2>1, <2>2
  <2>4. Good(m, turn[m])
    BY <2>3
  <2>5. turn[m + 1] = Step(msg, turn[m], m + 1)
    BY <1>18, <2>3
  <2> QED
    BY <1>6, <2>3, <2>4, <2>5
<1>21. W = Nat
  BY <1>19, <1>20, SetInduction
<1>22. Good(n, turn[n])
  <2>1. n \in W /\ n <= n
    BY <1>21
  <2> QED
    BY <2>1
<1> QED
  BY <1>3, <1>22 DEF Good, FollowedUpTo

\* A trajectory as the module may get it.
LEMMA TrajectoryShape ==
  ASSUME NEW t \in Trajectories
  PROVE  \E n \in Nat : t \in [1 .. n -> Seq(Actuators)]
<1>1. PICK k \in 0 .. MaxPoints : t \in [1 .. k -> BoundedSeq(Actuators, MaxValues)]
  BY DEF Trajectories
<1>2. k \in Nat
  OBVIOUS
<1>3. BoundedSeq(Actuators, MaxValues) \subseteq Seq(Actuators)
  BY NaoAssumption DEF BoundedSeq, SeqOf
<1> QED
  BY <1>1, <1>2, <1>3

\* Trajectory::pack and trajectory_cmd together set every joint at its time, for
\* trajectories of any length that name no joint twice in a timepoint.
THEOREM TrajectoriesAreFollowed == NaoSpec => []TrajectoryFollowed
<1>1. NaoInit => TrajectoryFollowed
  <2> SUFFICES ASSUME NaoInit PROVE TrajectoryFollowed
    OBVIOUS
  <2>1. trajectory = <<>> /\ setAngles = <<>>
    BY DEF NaoInit
  <2>2. Len(setAngles) = Len(trajectory) /\ DOMAIN trajectory = {}
    BY <2>1
  <2> QED
    BY <2>2 DEF TrajectoryFollowed
<1>2. TrajectoryFollowed /\ [NaoNext]_naoVars => TrajectoryFollowed'
  <2> SUFFICES ASSUME TrajectoryFollowed, [NaoNext]_naoVars PROVE TrajectoryFollowed'
    OBVIOUS
  <2>1. ASSUME NEW t \in Trajectories, TrajectoryCmd(t) PROVE TrajectoryFollowed'
    <3>1. trajectory' = t /\ setAngles' = Calls(Pack(t))
      BY <2>1 DEF TrajectoryCmd
    <3>2. PICK n \in Nat : t \in [1 .. n -> Seq(Actuators)]
      BY TrajectoryShape
    <3>3. Len(t) = n /\ DOMAIN t = 1 .. n
      BY <3>2
    <3>4. ASSUME WellFormed(t)
          PROVE  /\ Len(Calls(Pack(t))) = Len(t)
                 /\ \A i \in DOMAIN t : ToSet(Calls(Pack(t))[i]) = {<<t[i][j], <<i, j>>>> : j \in DOMAIN t[i]}
      <4>1. Len(Calls(Pack(t))) = n /\ \A i \in 1 .. n : ToSet(Calls(Pack(t))[i]) = ValuesAt(t, i)
        BY <3>2, <3>4, TrajectoryCalls
      <4> QED
        BY <3>3, <4>1, Zenon DEF ValuesAt
    <3>5. WellFormed(trajectory)' <=> WellFormed(t)
      BY <3>1 DEF WellFormed
    <3> QED
      BY <3>1, <3>4, <3>5, Zenon DEF TrajectoryFollowed
  <2>2. ASSUME UNCHANGED <<trajectory, setAngles>> PROVE TrajectoryFollowed'
    BY <2>2 DEF TrajectoryFollowed, WellFormed
  <2>3. (\E t \in Trajectories : TrajectoryCmd(t)) \/ UNCHANGED <<trajectory, setAngles>>
    BY DEF NaoNext, naoVars, TtsSettings, TtsSay, TtsTake, TtsDone, GamepadB, GamepadCircle, Shutdown
  <2> QED
    BY <2>1, <2>2, <2>3
<1> QED
  BY <1>1, <1>2, PTL DEF NaoSpec
=============================================================================
