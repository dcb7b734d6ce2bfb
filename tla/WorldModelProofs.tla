--------------------------- MODULE WorldModelProofs ---------------------------
(***************************************************************************)
(* The world model, for any persons, names, markers and cameras and any    *)
(* settings of its counters: one object per person, events in turn,        *)
(* pointers to every reported object, and no percept of a camera that is   *)
(* not calibrated.                                                         *)
(***************************************************************************)
EXTENDS WorldModel, ArithmeticLemmas, FiniteSetTheorems, SequenceTheorems

-----------------------------------------------------------------------------
(* The invariant, as a statement about a vector of objects                 *)

Status == {"Hypothetical", "Tracked", "Lost"}
Object == [oid : ObjectIds, type : {"person", "movable"}, name : Names \cup {NoName}, id : Ids \cup Markers,
           status : Status, timeout_counter : Nat, sightings_counter : Nat, should_delete : BOOLEAN]
Limit == Max({TIMEOUT_LOCK, TIMEOUT_LOSE})

\* The status that an object has after an event.
StatusOf(e) == CASE e = "none" -> "Hypothetical" [] e = "Disappear" -> "Lost" [] OTHER -> "Tracked"

\* An object among the first n created.
Sound(o, n) ==
  /\ o \in Object /\ o.oid <= n /\ o.timeout_counter <= Limit /\ ~o.should_delete
  /\ o.type = "person" /\ o.name # NoName => o.id \in Ids /\ nameOf[o.id] = o.name

\* Two persons have two names.
Apart(o, p) == o.oid # p.oid /\ (o.type = "person" /\ p.type = "person" => o.name # p.name)

\* A vector of objects, where lst gives the last event of each.
VectorSound(objs, n, lst) ==
  /\ objs \in Seq(Object)
  /\ \A i \in DOMAIN objs : Sound(objs[i], n) /\ objs[i].status = StatusOf(lst[objs[i].oid])
  /\ \A i, j \in DOMAIN objs : i # j => Apart(objs[i], objs[j])

ControlInv ==
  /\ latest_events \in Seq(Event)
  /\ {new_percepts, is_paused, ticking} \subseteq BOOLEAN
  /\ created \in 0 .. MaxObjects
  /\ drained \in 0 .. MaxMessages
  /\ nameOf \in [Ids -> Names \cup {NoName}]

WorldParts ==
  /\ VectorSound(objects, created, last)
  /\ ControlInv /\ HistoryInv /\ CalibrationInv /\ PointersToReported

LEMMA LimitProperties == Limit \in Nat /\ TIMEOUT_LOCK <= Limit /\ TIMEOUT_LOSE <= Limit
<1>1. TIMEOUT_LOCK \in Nat /\ TIMEOUT_LOSE \in Nat
  BY WorldAssumption
<1> DEFINE S == {TIMEOUT_LOCK, TIMEOUT_LOSE}
<1>2. \E x \in S : \A y \in S : x >= y
  BY <1>1
<1>3. Limit \in S /\ \A y \in S : Limit >= y
  BY <1>2 DEF Limit, Max
<1> QED
  BY <1>1, <1>3

LEMMA WorldInvParts == WorldInv <=> WorldParts
<1>1. Limit \in Nat
  BY LimitProperties
<1>2. ASSUME objects \in Seq(Object), created \in 0 .. MaxObjects, NEW i \in DOMAIN objects
      PROVE  /\ objects[i].oid \in 1 .. created <=> objects[i].oid <= created
             /\ objects[i].timeout_counter \in 0 .. Limit <=> objects[i].timeout_counter <= Limit
             /\ objects[i].type \in {"person", "movable"} /\ objects[i].status \in Status
             /\ objects[i].sightings_counter \in Nat
             /\ objects[i].should_delete \in BOOLEAN
             /\ objects[i] \in Object
  <2>1. objects[i] \in Object
    BY <1>2
  <2>2. objects[i].oid \in 1 .. MaxObjects /\ objects[i].timeout_counter \in Nat
    BY <2>1 DEF Object, ObjectIds
  <2>3. /\ objects[i].type \in {"person", "movable"} /\ objects[i].status \in Status
        /\ objects[i].sightings_counter \in Nat
        /\ objects[i].should_delete \in BOOLEAN
    BY <2>1 DEF Object
  <2>4. MaxObjects \in Nat
    BY WorldAssumption
  <2> QED
    BY <1>1, <1>2, <2>1, <2>2, <2>3, <2>4
<1>3. ASSUME WorldInv PROVE WorldParts
  <2>1. objects \in Seq(Object) /\ created \in 0 .. MaxObjects
    BY <1>3 DEF WorldInv, ObjectsInv, Object, Status, WorldSound, WorldTypeOK
  <2>2. ASSUME NEW i \in DOMAIN objects
        PROVE  Sound(objects[i], created) /\ objects[i].status = StatusOf(last[objects[i].oid])
    <3>1. /\ objects[i].oid \in 1 .. created /\ objects[i].timeout_counter \in 0 .. Limit /\ ~objects[i].should_delete
          /\ objects[i].type = "person" /\ objects[i].name # NoName =>
               objects[i].id \in Ids /\ nameOf[objects[i].id] = objects[i].name
      BY <1>3 DEF WorldInv, ObjectsInv, WorldSound, WorldTypeOK, Limit
    <3>2. objects[i].status = StatusOf(last[objects[i].oid])
      BY <1>3 DEF WorldInv, WorldSound, StatusMatchesEvents, StatusOf
    <3> QED
      BY <1>2, <2>1, <3>1, <3>2 DEF Sound
  <2>3. ASSUME NEW i \in DOMAIN objects, NEW j \in DOMAIN objects, i # j
        PROVE  Apart(objects[i], objects[j])
    BY <1>3, <2>3 DEF WorldInv, ObjectsInv, WorldSound, UniquePersons, Apart
  <2>4. VectorSound(objects, created, last)
    BY <2>1, <2>2, <2>3 DEF VectorSound
  <2>5. ControlInv
    BY <1>3 DEF ControlInv, WorldInv, WorldSound, WorldTypeOK, ObjectsInv
  <2> QED
    BY <1>3, <2>4, <2>5 DEF WorldParts, WorldInv, WorldSound
<1>4. ASSUME WorldParts PROVE WorldInv
  <2>1. objects \in Seq(Object) /\ created \in 0 .. MaxObjects
    BY <1>4 DEF WorldParts, VectorSound, ControlInv
  <2>2. \A i \in DOMAIN objects : Sound(objects[i], created) /\ objects[i].status = StatusOf(last[objects[i].oid])
    BY <1>4 DEF WorldParts, VectorSound
  <2>3. \A i, j \in DOMAIN objects : i # j => Apart(objects[i], objects[j])
    BY <1>4 DEF WorldParts, VectorSound
  <2>4. UniquePersons
    BY <2>3 DEF UniquePersons, Apart
  <2>5. StatusMatchesEvents
    BY <2>2 DEF StatusMatchesEvents, StatusOf
  <2>6. ASSUME NEW i \in DOMAIN objects
        PROVE  /\ objects[i].oid \in 1 .. created
               /\ objects[i].type \in {"person", "movable"}
               /\ objects[i].status \in Status
               /\ objects[i].timeout_counter \in 0 .. Limit
               /\ objects[i].sightings_counter \in Nat
               /\ ~objects[i].should_delete
    BY <1>2, <2>1, <2>2 DEF Sound
  <2>7. \A s \in Sources : sources[s].samples_collected \in 0 .. SAMPLES /\ sources[s].divisions \in Nat
    BY <1>4 DEF WorldParts, CalibrationInv
  <2>8. WorldTypeOK
    BY <1>4, <2>6, <2>7 DEF WorldTypeOK, WorldParts, ControlInv, Limit, Status
  <2>9. objects \in Seq([oid : ObjectIds, type : {"person", "movable"}, name : Names \cup {NoName}, id : Ids \cup Markers,
                     status : {"Hypothetical", "Tracked", "Lost"}, timeout_counter : Nat,
                     sightings_counter : Nat, should_delete : BOOLEAN])
    BY <2>1 DEF Object, Status
  <2>10. ObjectsInv
    BY <1>4, <2>2, <2>3, <2>9 DEF ObjectsInv, Sound, Apart, WorldParts, ControlInv
  <2> QED
    BY <1>4, <2>4, <2>5, <2>8, <2>10 DEF WorldInv, WorldSound, WorldParts
<1> QED
  BY <1>3, <1>4

-----------------------------------------------------------------------------
(* One object                                                              *)

LEMMA ObjectFields ==
  ASSUME NEW o \in Object
  PROVE  /\ o.oid \in ObjectIds /\ o.type \in {"person", "movable"} /\ o.name \in Names \cup {NoName}
         /\ o.id \in Ids \cup Markers /\ o.status \in Status /\ o.timeout_counter \in Nat
         /\ o.sightings_counter \in Nat /\ o.should_delete \in BOOLEAN
  BY DEF Object

\* produce_sighting touches the counters only.
LEMMA SightedFields ==
  ASSUME NEW o \in Object, o.timeout_counter <= Limit
  PROVE  /\ Sighted(o) \in Object /\ Sighted(o).timeout_counter <= Limit
         /\ Sighted(o).oid = o.oid /\ Sighted(o).type = o.type /\ Sighted(o).name = o.name /\ Sighted(o).id = o.id
         /\ Sighted(o).status = o.status /\ Sighted(o).should_delete = o.should_delete
<1>1. TIMEOUT_LOCK \in Nat /\ TIMEOUT_LOSE \in Nat
  BY WorldAssumption
<1>2. Limit \in Nat /\ TIMEOUT_LOCK <= Limit /\ TIMEOUT_LOSE <= Limit
  BY LimitProperties
<1>3. o.timeout_counter \in Nat /\ o.sightings_counter \in Nat
  BY ObjectFields
<1>4. CASE o.status = "Tracked"
  <2>1. Sighted(o) = [o EXCEPT !.timeout_counter = TIMEOUT_LOSE]
    BY <1>4 DEF Sighted
  <2> QED
    BY <1>1, <1>2, <2>1 DEF Object
<1>5. CASE o.status # "Tracked"
  <2> DEFINE t == IF o.sightings_counter = 0 THEN TIMEOUT_LOCK ELSE o.timeout_counter
             c == o.sightings_counter + 1
  <2>1. Sighted(o) = [o EXCEPT !.timeout_counter = t, !.sightings_counter = c]
    BY <1>5 DEF Sighted
  <2>2. t \in Nat /\ c \in Nat /\ t <= Limit
    BY <1>1, <1>2, <1>3
  <2> HIDE DEF t, c
  <2> QED
    BY <2>1, <2>2 DEF Object
<1> QED
  BY <1>4, <1>5

\* A percept: of a person, with the name of its id, or of a marker.
Percept == [type : {"person", "movable"}, name : Names \cup {NoName}, id : Ids \cup Markers]
PerceptSound(p) == p \in Percept /\ (p.type = "person" => p.id \in Ids /\ p.name = nameOf[p.id])

\* A percept that matches a person is of that person's name: run_update
\* leaves every name as it is.
LEMMA MatchKeepsName ==
  ASSUME NEW n, NEW o, Sound(o, n), NEW p, PerceptSound(p), Match(o, p), p.type = "person"
  PROVE  o.name = p.name /\ o.type = "person"
<1>1. CASE o.name = NoName
  BY <1>1 DEF Match, Sound, PerceptSound
<1>2. CASE o.name # NoName
  BY <1>2 DEF Match, Sound, PerceptSound
<1> QED
  BY <1>1, <1>2

LEMMA UpdateSound ==
  ASSUME NEW n, NEW o, Sound(o, n), NEW p, PerceptSound(p), Match(o, p)
  PROVE  /\ Sound(RunUpdate(o, p), n)
         /\ RunUpdate(o, p).oid = o.oid /\ RunUpdate(o, p).type = o.type /\ RunUpdate(o, p).status = o.status
         /\ RunUpdate(o, p).name = o.name
<1> DEFINE s == Sighted(o)
<1>1. o \in Object /\ o.timeout_counter <= Limit
  BY DEF Sound
<1>2. /\ s \in Object /\ s.timeout_counter <= Limit
      /\ s.oid = o.oid /\ s.type = o.type /\ s.name = o.name /\ s.id = o.id
      /\ s.status = o.status /\ s.should_delete = o.should_delete
  BY <1>1, SightedFields
<1> HIDE DEF s
<1>3. CASE o.type # "person"
  BY <1>2, <1>3 DEF RunUpdate, Sound, s
<1>4. CASE o.type = "person"
  <2>1. p.type = "person" /\ p.id \in Ids /\ p.name = nameOf[p.id] /\ p.name \in Names \cup {NoName}
    BY <1>4 DEF Match, PerceptSound, Percept
  <2>2. o.name = p.name
    BY <2>1, MatchKeepsName
  <2> DEFINE u == RunUpdate(o, p)
  <2>3. u = [s EXCEPT !.name = p.name, !.id = p.id]
    BY <1>4 DEF RunUpdate, s
  <2>4. /\ u \in Object /\ u.timeout_counter = s.timeout_counter /\ u.oid = s.oid /\ u.type = s.type
        /\ u.name = p.name /\ u.id = p.id /\ u.status = s.status /\ u.should_delete = s.should_delete
    BY <1>2, <2>1, <2>3 DEF Object
  <2> HIDE DEF u
  <2>5. Sound(u, n)
    BY <1>2, <2>1, <2>4 DEF Sound
  <2> QED
    BY <1>2, <2>2, <2>4, <2>5 DEF u
<1> QED
  BY <1>3, <1>4

\* A percept that matches nothing becomes a hypothesis.
LEMMA NewObjectSound ==
  ASSUME NEW n, NEW oid \in ObjectIds, oid <= n, NEW p, PerceptSound(p)
  PROVE  /\ Sound(NewObject(oid, p), n)
         /\ NewObject(oid, p).oid = oid /\ NewObject(oid, p).type = p.type /\ NewObject(oid, p).name = p.name
         /\ NewObject(oid, p).status = "Hypothetical"
<1> DEFINE o == [oid |-> oid, type |-> p.type, name |-> p.name, id |-> p.id, status |-> "Hypothetical",
                 timeout_counter |-> 0, sightings_counter |-> 0, should_delete |-> FALSE]
<1>1. p.type \in {"person", "movable"} /\ p.name \in Names \cup {NoName} /\ p.id \in Ids \cup Markers
  BY DEF PerceptSound, Percept
<1>2. o \in Object
  BY <1>1 DEF Object, Status
<1>3. /\ o.oid = oid /\ o.type = p.type /\ o.name = p.name /\ o.id = p.id /\ o.status = "Hypothetical"
      /\ o.timeout_counter = 0 /\ ~o.should_delete
  OBVIOUS
<1>4. NewObject(oid, p) = Sighted(o)
  BY DEF NewObject
<1> HIDE DEF o
<1>5. 0 <= Limit
  BY LimitProperties
<1>6. /\ Sighted(o) \in Object /\ Sighted(o).timeout_counter <= Limit
      /\ Sighted(o).oid = o.oid /\ Sighted(o).type = o.type /\ Sighted(o).name = o.name /\ Sighted(o).id = o.id
      /\ Sighted(o).status = o.status /\ Sighted(o).should_delete = o.should_delete
  BY <1>2, <1>3, <1>5, SightedFields
<1> QED
  BY <1>3, <1>4, <1>6 DEF Sound, PerceptSound

-----------------------------------------------------------------------------
(* match_percepts                                                          *)

\* What the loop over the percepts has done after k turns: the objects keep
\* their places and names, and no percept left over has a person's name.
Matched(objs, percepts, n, k, acc) ==
  /\ acc = [objs |-> acc.objs, unused |-> acc.unused]
  /\ VectorSound(acc.objs, n, last) /\ DOMAIN acc.objs = DOMAIN objs
  /\ \A i \in DOMAIN objs :
       acc.objs[i].oid = objs[i].oid /\ acc.objs[i].type = objs[i].type /\ acc.objs[i].name = objs[i].name
  /\ IsFiniteSet(acc.unused)
  /\ \A p \in acc.unused :
       /\ \E j \in 1 .. k : p = percepts[j]
       /\ p.type = "person" => \A i \in DOMAIN objs : objs[i].type = "person" => objs[i].name # p.name

LEMMA MatchOneSound ==
  ASSUME NEW objs, NEW percepts, NEW n, NEW k \in Nat, NEW acc, Matched(objs, percepts, n, k, acc),
         PerceptSound(percepts[k + 1])
  PROVE  Matched(objs, percepts, n, k + 1, MatchOne(acc, percepts[k + 1]))
<1> DEFINE p == percepts[k + 1]
           a == acc.objs
           u == acc.unused
           hits == {i \in DOMAIN a : Match(a[i], p)}
           q == MatchOne(acc, p)
<1>1. /\ acc = [objs |-> a, unused |-> u]
      /\ VectorSound(a, n, last) /\ DOMAIN a = DOMAIN objs
      /\ \A i \in DOMAIN objs : a[i].oid = objs[i].oid /\ a[i].type = objs[i].type /\ a[i].name = objs[i].name
      /\ IsFiniteSet(u)
      /\ \A x \in u : /\ \E j \in 1 .. k : x = percepts[j]
                      /\ x.type = "person" => \A i \in DOMAIN objs : objs[i].type = "person" => objs[i].name # x.name
  BY DEF Matched
<1>2. /\ a \in Seq(Object) /\ DOMAIN a = 1 .. Len(a) /\ Len(a) \in Nat
      /\ \A i \in DOMAIN a : Sound(a[i], n) /\ a[i].status = StatusOf(last[a[i].oid])
      /\ \A i, j \in DOMAIN a : i # j => Apart(a[i], a[j])
  BY <1>1 DEF VectorSound
<1>3. PerceptSound(p)
  OBVIOUS
<1>0. \A x \in u : \E j \in 1 .. k + 1 : x = percepts[j]
  <2>1. \A j \in 1 .. k : j \in 1 .. k + 1
    OBVIOUS
  <2> HIDE DEF u, a, p
  <2>2. ASSUME NEW x \in u PROVE \E j \in 1 .. k : x = percepts[j]
    BY <1>1
  <2> QED
    BY <2>1, <2>2
<1>4. CASE hits = {}
  <2>1. q = [acc EXCEPT !.unused = u \cup {p}]
    BY <1>4 DEF MatchOne
  <2> HIDE DEF q, a, u
  <2>2. q = [objs |-> a, unused |-> u \cup {p}]
    BY <1>1, <2>1
  <2>3. q.objs = a /\ q.unused = u \cup {p}
    BY <2>2
  <2>4. IsFiniteSet(u \cup {p})
    BY <1>1, FS_AddElement
  <2>5. p.type = "person" => \A i \in DOMAIN objs : objs[i].type = "person" => objs[i].name # p.name
    <3>1. \A i \in DOMAIN a : ~Match(a[i], p)
      BY <1>4
    <3> QED
      BY <1>1, <3>1 DEF Match
  <2>7. k + 1 \in 1 .. k + 1
    OBVIOUS
  <2>8. \A x \in u \cup {p} :
          /\ \E j \in 1 .. k + 1 : x = percepts[j]
          /\ x.type = "person" => \A i \in DOMAIN objs : objs[i].type = "person" => objs[i].name # x.name
    BY <1>0, <1>1, <2>5, <2>7
  <2> HIDE DEF p
  <2>9. Matched(objs, percepts, n, k + 1, q)
    BY <1>1, <2>2, <2>3, <2>4, <2>8 DEF Matched
  <2> QED
    BY <2>9 DEF p, q
<1>5. CASE hits # {}
  <2> DEFINE h == Min(hits)
             o == RunUpdate(a[h], p)
             b == [a EXCEPT ![h] = o]
  <2>1. hits \in SUBSET Nat
    BY <1>2
  <2>2. \E x \in hits : \A y \in hits : x <= y
    BY <1>5, <2>1, LeastElement
  <2>3. h \in hits
    BY <2>2 DEF Min
  <2>4. h \in DOMAIN a /\ Match(a[h], p)
    BY <2>3
  <2>5. q = [acc EXCEPT !.objs = b]
    BY <1>5, <2>4 DEF MatchOne
  <2> HIDE DEF h, hits
  <2>6. Sound(a[h], n)
    BY <1>2, <2>4
  <2>7. Sound(o, n) /\ o.oid = a[h].oid /\ o.type = a[h].type /\ o.status = a[h].status /\ o.name = a[h].name
    BY <1>3, <2>4, <2>6, UpdateSound
  <2> HIDE DEF q, a, u, o, p
  <2>8. /\ DOMAIN b = DOMAIN a
        /\ \A i \in DOMAIN a : b[i] = IF i = h THEN o ELSE a[i]
    OBVIOUS
  <2>9. b \in Seq(Object)
    <3>1. o \in Object
      BY <2>7 DEF Sound
    <3> QED
      BY <1>2, <2>4, <3>1
  <2> HIDE DEF b
  <2>10. q = [objs |-> b, unused |-> u]
    BY <1>1, <2>5
  <2>11. q.objs = b /\ q.unused = u
    BY <2>10
  <2>12. \A i \in DOMAIN b : b[i].oid = a[i].oid /\ b[i].type = a[i].type /\ b[i].name = a[i].name /\ b[i].status = a[i].status
    BY <2>7, <2>8
  <2>13. \A i \in DOMAIN b : Sound(b[i], n)
    BY <1>2, <2>7, <2>8
  <2>14. \A i, j \in DOMAIN b : i # j => Apart(b[i], b[j])
    BY <1>2, <2>8, <2>12 DEF Apart
  <2>15. VectorSound(b, n, last)
    BY <1>2, <2>8, <2>9, <2>12, <2>13, <2>14 DEF VectorSound
  <2>17. \A i \in DOMAIN objs : b[i].oid = objs[i].oid /\ b[i].type = objs[i].type /\ b[i].name = objs[i].name
    BY <1>1, <2>8, <2>12
  <2>18. Matched(objs, percepts, n, k + 1, q)
    BY <1>1, <2>8, <2>10, <2>11, <2>15, <2>17, <1>0 DEF Matched
  <2> QED
    BY <2>18 DEF p, q
<1> QED
  BY <1>4, <1>5

\* The whole loop: that its recursive function is defined, and what it gives,
\* by induction on the number of percepts.
LEMMA MatchAllSound ==
  ASSUME NEW objs, NEW n, VectorSound(objs, n, last),
         NEW percepts \in Seq(Percept), \A j \in DOMAIN percepts : PerceptSound(percepts[j])
  PROVE  Matched(objs, percepts, n, Len(percepts), MatchAll(objs, percepts))
<1> DEFINE start == [objs |-> objs, unused |-> {}]
           Loop(m, g) == g = [k \in 0 .. m |-> IF k = 0 THEN start ELSE MatchOne(g[k - 1], percepts[k])]
           T == {m \in Nat : \E g : Loop(m, g)}
           len == Len(percepts)
<1>1. len \in Nat /\ \A j \in 1 .. len : PerceptSound(percepts[j])
  OBVIOUS
<1>a. Matched(objs, percepts, n, 0, start)
  <2>1. start.objs = objs /\ start.unused = {} /\ start = [objs |-> start.objs, unused |-> start.unused]
    OBVIOUS
  <2> HIDE DEF start
  <2>2. IsFiniteSet({})
    BY FS_EmptySet
  <2> QED
    BY <2>1, <2>2 DEF Matched
<1> HIDE DEF start
<1>2. 0 \in T
  <2>1. Loop(0, [i \in 0 .. 0 |-> start])
    OBVIOUS
  <2> QED
    BY <2>1
<1>3. ASSUME NEW m \in T PROVE m + 1 \in T
  <2>1. m \in Nat
    OBVIOUS
  <2>2. PICK g : Loop(m, g)
    OBVIOUS
  <2> DEFINE h == [i \in 0 .. m + 1 |-> IF i = m + 1 THEN MatchOne(g[m], percepts[m + 1]) ELSE g[i]]
  <2>3. ASSUME NEW i \in 0 .. m + 1
        PROVE  h[i] = IF i = 0 THEN start ELSE MatchOne(h[i - 1], percepts[i])
    <3>1. CASE i = m + 1
      <4>1. i # 0 /\ i - 1 = m /\ m \in 0 .. m + 1 /\ m # m + 1
        BY <3>1, <2>1
      <4>2. h[i] = MatchOne(g[m], percepts[m + 1]) /\ h[m] = g[m]
        BY <3>1, <4>1
      <4> QED
        BY <4>1, <4>2, <3>1
    <3>2. CASE i = 0
      BY <3>2, <2>1, <2>2
    <3>3. CASE i # 0 /\ i # m + 1
      <4>1. i \in 0 .. m /\ i - 1 \in 0 .. m + 1 /\ i - 1 # m + 1
        BY <3>3, <2>1
      <4>2. h[i] = g[i] /\ h[i - 1] = g[i - 1]
        BY <4>1, <3>3
      <4>3. g[i] = MatchOne(g[i - 1], percepts[i])
        BY <4>1, <3>3, <2>2
      <4> QED
        BY <4>2, <4>3, <3>3
    <3> QED
      BY <3>1, <3>2, <3>3
  <2>4. h = [i \in 0 .. m + 1 |-> h[i]]
    OBVIOUS
  <2> HIDE DEF h
  <2>5. Loop(m + 1, h)
    BY <2>3, <2>4
  <2> QED
    BY <2>1, <2>5
<1> HIDE DEF Loop
<1>4. T = Nat
  BY <1>2, <1>3, SetInduction
<1> DEFINE match == CHOOSE g : Loop(len, g)
<1>5. Loop(len, match)
  BY <1>1, <1>4
<1>6. MatchAll(objs, percepts) = match[len]
  BY DEF MatchAll, Loop, start
<1> HIDE DEF match, len
<1>7. /\ match[0] = start
      /\ \A i \in 1 .. len : match[i] = MatchOne(match[i - 1], percepts[i])
  BY <1>5, <1>1 DEF Loop
<1> DEFINE U == {m \in Nat : m <= len => Matched(objs, percepts, n, m, match[m])}
<1>8. 0 \in U
  BY <1>7, <1>a
<1>9. ASSUME NEW m \in U PROVE m + 1 \in U
  <2>1. m \in Nat /\ m + 1 \in Nat
    OBVIOUS
  <2>2. SUFFICES ASSUME m + 1 <= len
                 PROVE  Matched(objs, percepts, n, m + 1, match[m + 1])
    BY <2>1
  <2>3. m + 1 \in 1 .. len /\ m <= len /\ (m + 1) - 1 = m
    BY <2>1, <2>2, <1>1
  <2>4. Matched(objs, percepts, n, m, match[m])
    BY <2>3
  <2>5. PerceptSound(percepts[m + 1])
    BY <2>3, <1>1
  <2>6. match[m + 1] = MatchOne(match[m], percepts[m + 1])
    BY <2>3, <1>7
  <2>7. Matched(objs, percepts, n, m + 1, MatchOne(match[m], percepts[m + 1]))
    BY <2>1, <2>4, <2>5, MatchOneSound
  <2> QED
    BY <2>6, <2>7
<1>10. U = Nat
  BY <1>8, <1>9, SetInduction
<1> QED
  BY <1>1, <1>6, <1>10 DEF len

\* Persons of one message have different names.
MessageSound(percepts) ==
  /\ percepts \in Seq(Percept)
  /\ \A j \in DOMAIN percepts : PerceptSound(percepts[j])
  /\ \A j, k \in DOMAIN percepts :
       j # k /\ percepts[j].type = "person" /\ percepts[k].type = "person" => percepts[j].name # percepts[k].name

\* match_percepts keeps the vector sound; the new objects are the next ones.
LEMMA MatchPerceptsSound ==
  ASSUME NEW objs, NEW n \in Nat, VectorSound(objs, n, last),
         NEW percepts, MessageSound(percepts),
         NEW result \in MatchPercepts(objs, percepts, n),
         n + Len(result) - Len(objs) <= MaxObjects,
         \A o \in ObjectIds : o > n => last[o] = "none"
  PROVE  /\ VectorSound(result, n + Len(result) - Len(objs), last)
         /\ Len(result) \in Nat /\ Len(objs) \in Nat /\ Len(result) >= Len(objs)
         /\ \A i \in 1 .. Len(objs) : result[i].oid = objs[i].oid
         /\ \A i \in Len(objs) + 1 .. Len(result) : result[i].oid = n + i - Len(objs)
<1> DEFINE end == MatchAll(objs, percepts)
           a == end.objs
           New(order) == [i \in DOMAIN order |-> NewObject(n + i, order[i])]
<1>1. Matched(objs, percepts, n, Len(percepts), end)
  BY MatchAllSound DEF MessageSound
<1>2. PICK order \in SetToSeqs(end.unused) : result = a \o New(order)
  BY DEF MatchPercepts
<1> DEFINE u == end.unused
           c == Cardinality(u)
           new == New(order)
           l == Len(objs)
<1>3. /\ VectorSound(a, n, last) /\ DOMAIN a = DOMAIN objs
      /\ \A i \in DOMAIN objs : a[i].oid = objs[i].oid /\ a[i].type = objs[i].type /\ a[i].name = objs[i].name
      /\ IsFiniteSet(u)
      /\ \A p \in u :
           /\ \E j \in 1 .. Len(percepts) : p = percepts[j]
           /\ p.type = "person" => \A i \in DOMAIN objs : objs[i].type = "person" => objs[i].name # p.name
  BY <1>1 DEF Matched
<1>4. c \in Nat
  BY <1>3, FS_CardinalityType
<1>5. order \in [1 .. c -> u] /\ \A i, j \in 1 .. c : i # j => order[i] # order[j]
  BY DEF SetToSeqs
<1> HIDE DEF end, c, u
<1>6. /\ l \in Nat /\ DOMAIN objs = 1 .. l /\ a \in Seq(Object) /\ Len(a) = l /\ DOMAIN a = 1 .. l
  <2>1. objs \in Seq(Object) /\ a \in Seq(Object)
    BY <1>3 DEF VectorSound
  <2> HIDE DEF a
  <2> QED
    BY <1>3, <2>1
<1>7. /\ \A i \in 1 .. c : PerceptSound(order[i])
      /\ \A i, j \in 1 .. c : i # j /\ order[i].type = "person" /\ order[j].type = "person" => order[i].name # order[j].name
      /\ \A i \in 1 .. c : order[i].type = "person" =>
           \A k \in 1 .. l : a[k].type = "person" => a[k].name # order[i].name
  <2>1. \A i \in 1 .. c : \E j \in DOMAIN percepts : order[i] = percepts[j]
    <3>1. DOMAIN percepts = 1 .. Len(percepts)
      BY DEF MessageSound
    <3>2. \A i \in 1 .. c : order[i] \in u
      BY <1>5
    <3>3. \A p \in u : \E j \in 1 .. Len(percepts) : p = percepts[j]
      BY <1>3
    <3> QED
      BY <3>1, <3>2, <3>3
  <2>2. \A i \in 1 .. c : PerceptSound(order[i])
    BY <2>1 DEF MessageSound
  <2>3. \A i, j \in 1 .. c : i # j /\ order[i].type = "person" /\ order[j].type = "person" => order[i].name # order[j].name
    BY <1>5, <2>1 DEF MessageSound
  <2>4. \A i \in 1 .. c : order[i] \in u
    BY <1>5
  <2> HIDE DEF a, l
  <2>5. \A i \in 1 .. c : order[i].type = "person" =>
          \A k \in 1 .. l : a[k].type = "person" => a[k].name # order[i].name
    BY <1>3, <1>6, <2>4
  <2> QED
    BY <2>2, <2>3, <2>5
<1> HIDE DEF a
<1>8. DOMAIN order = 1 .. c
  BY <1>5
<1>9. new = [i \in 1 .. c |-> NewObject(n + i, order[i])]
  BY <1>8
<1> HIDE DEF New
<1> HIDE DEF new
<1>10. /\ Len(result) = l + c
       /\ \A i \in 1 .. l : result[i] = a[i]
       /\ \A i \in 1 .. c : result[l + i] = new[i]
  <2> DEFINE X == Object \cup {new[i] : i \in 1 .. c}
  <2>1. \A i \in 1 .. c : new[i] \in X
    OBVIOUS
  <2>2. Object \subseteq X
    OBVIOUS
  <2> HIDE DEF X
  <2>3. DOMAIN new = 1 .. c /\ new = [i \in 1 .. c |-> new[i]]
    BY <1>9
  <2>4. new \in [1 .. c -> X]
    BY <2>1, <2>3
  <2>5. new \in Seq(X) /\ Len(new) = c
    BY <1>4, <2>4
  <2>6. a \in Seq(X)
    BY <1>6, <2>2
  <2>7. result = a \o new
    BY <1>2 DEF new
  <2>8. /\ Len(a \o new) = Len(a) + Len(new)
        /\ \A i \in 1 .. Len(a) + Len(new) : (a \o new)[i] = IF i <= Len(a) THEN a[i] ELSE new[i - Len(a)]
    BY <2>5, <2>6, ConcatProperties
  <2>9. ASSUME NEW i \in 1 .. l PROVE result[i] = a[i]
    <3>1. i \in 1 .. Len(a) + Len(new) /\ i <= Len(a)
      BY <1>4, <1>6, <2>5
    <3> QED
      BY <2>7, <2>8, <3>1
  <2>10. ASSUME NEW i \in 1 .. c PROVE result[l + i] = new[i]
    <3>1. l + i \in 1 .. Len(a) + Len(new) /\ ~(l + i <= Len(a)) /\ (l + i) - Len(a) = i
      BY <1>4, <1>6, <2>5
    <3> QED
      BY <2>7, <2>8, <3>1
  <2> QED
    BY <1>6, <2>5, <2>7, <2>8, <2>9, <2>10
<1> DEFINE m == n + c
<1>11. m = n + Len(result) - Len(objs) /\ m \in Nat /\ m <= MaxObjects
  BY <1>4, <1>6, <1>10
<1> HIDE DEF l
<1>12. ASSUME NEW i \in 1 .. c
       PROVE  /\ Sound(new[i], m) /\ new[i].oid = n + i /\ new[i].type = order[i].type /\ new[i].name = order[i].name
              /\ new[i].status = "Hypothetical" /\ last[n + i] = "none"
  <2>1. n + i \in ObjectIds /\ n + i <= m /\ n + i > n
    BY <1>4, <1>11, WorldAssumption DEF ObjectIds
  <2>2. PerceptSound(order[i])
    BY <1>7
  <2>3. new[i] = NewObject(n + i, order[i])
    BY <1>9
  <2>4. last[n + i] = "none"
    BY <2>1
  <2>5. /\ Sound(NewObject(n + i, order[i]), m)
        /\ NewObject(n + i, order[i]).oid = n + i /\ NewObject(n + i, order[i]).type = order[i].type
        /\ NewObject(n + i, order[i]).name = order[i].name
        /\ NewObject(n + i, order[i]).status = "Hypothetical"
    BY <2>1, <2>2, NewObjectSound
  <2> QED
    BY <2>3, <2>4, <2>5
<1>13. ASSUME NEW i \in 1 .. l
       PROVE  Sound(a[i], m) /\ a[i].status = StatusOf(last[a[i].oid]) /\ a[i].oid <= n /\ a[i].oid \in Nat
  <2>1. Sound(a[i], n) /\ a[i].status = StatusOf(last[a[i].oid])
    BY <1>3, <1>6 DEF VectorSound
  <2>2. a[i].oid <= n /\ a[i].oid \in Nat
    BY <2>1, ObjectFields DEF Sound, ObjectIds
  <2>3. a[i].oid <= m
    BY <2>2, <1>4
  <2> QED
    BY <2>1, <2>2, <2>3 DEF Sound
<1>14. \A i \in 1 .. l + c : i \in 1 .. l \/ (i - l \in 1 .. c /\ i = l + (i - l))
  BY <1>4, <1>6
<1>15. ASSUME NEW i \in 1 .. l + c
       PROVE  Sound(result[i], m) /\ result[i].status = StatusOf(last[result[i].oid])
  <2>1. CASE i \in 1 .. l
    BY <1>10, <1>13, <2>1
  <2>2. CASE i - l \in 1 .. c /\ i = l + (i - l)
    <3> DEFINE k == i - l
    <3>1. k \in 1 .. c /\ result[i] = new[k]
      BY <1>10, <2>2
    <3> HIDE DEF k
    <3>2. StatusOf("none") = "Hypothetical"
      BY DEF StatusOf
    <3> QED
      BY <1>12, <3>1, <3>2
  <2> QED
    BY <1>14, <2>1, <2>2
<1>16. \A i, j \in 1 .. l : i # j => Apart(a[i], a[j])
  BY <1>3, <1>6 DEF VectorSound
<1>17. \A i, j \in 1 .. c : i # j => Apart(new[i], new[j])
  <2>1. ASSUME NEW i \in 1 .. c, NEW j \in 1 .. c, i # j PROVE Apart(new[i], new[j])
    <3>1. n + i # n + j
      BY <2>1
    <3> QED
      BY <1>7, <1>12, <2>1, <3>1 DEF Apart
  <2> QED
    BY <2>1
<1>18. \A i \in 1 .. l, j \in 1 .. c : Apart(a[i], new[j]) /\ Apart(new[j], a[i])
  <2>1. ASSUME NEW i \in 1 .. l, NEW j \in 1 .. c PROVE Apart(a[i], new[j]) /\ Apart(new[j], a[i])
    <3>1. a[i].oid # n + j
      BY <1>13
    <3> QED
      BY <1>7, <1>12, <3>1 DEF Apart
  <2> QED
    BY <2>1
<1>19. ASSUME NEW i \in 1 .. l + c, NEW j \in 1 .. l + c, i # j
       PROVE  Apart(result[i], result[j])
  <2>1. CASE i \in 1 .. l /\ j \in 1 .. l
    BY <1>10, <1>16, <1>19, <2>1
  <2>2. CASE i \in 1 .. l /\ j - l \in 1 .. c /\ j = l + (j - l)
    BY <1>10, <1>18, <2>2
  <2>3. CASE i - l \in 1 .. c /\ i = l + (i - l) /\ j \in 1 .. l
    BY <1>10, <1>18, <2>3
  <2>4. CASE i - l \in 1 .. c /\ i = l + (i - l) /\ j - l \in 1 .. c /\ j = l + (j - l)
    BY <1>10, <1>17, <1>19, <2>4
  <2> QED
    BY <1>14, <2>1, <2>2, <2>3, <2>4
<1>20. result \in Seq(Object) /\ DOMAIN result = 1 .. l + c
  <2>1. \A i \in 1 .. c : new[i] \in Object
    BY <1>12 DEF Sound
  <2>2. new = [i \in 1 .. c |-> new[i]]
    BY <1>9
  <2>3. new \in [1 .. c -> Object]
    BY <2>1, <2>2
  <2>4. new \in Seq(Object)
    BY <1>4, <2>3
  <2>5. result = a \o new
    BY <1>2 DEF new
  <2>6. result \in Seq(Object)
    BY <1>6, <2>4, <2>5
  <2> QED
    BY <1>10, <2>6
<1>21. VectorSound(result, m, last)
  BY <1>15, <1>19, <1>20 DEF VectorSound
<1>22. \A i \in 1 .. l : result[i].oid = objs[i].oid
  BY <1>3, <1>6, <1>10
<1>23. ASSUME NEW i \in l + 1 .. l + c PROVE result[i].oid = n + i - l
  <2>1. i - l \in 1 .. c /\ i = l + (i - l) /\ n + i - l = n + (i - l)
    BY <1>4, <1>6
  <2>2. result[i] = new[i - l]
    BY <1>10, <2>1
  <2> QED
    BY <1>12, <2>1, <2>2
<1> QED
  BY <1>4, <1>6, <1>10, <1>11, <1>21, <1>22, <1>23 DEF l

-----------------------------------------------------------------------------
(* The tick of the objects                                                 *)

\* The changes of status and the event that each produces.
Changes == {<<"Hypothetical", "Tracked", "NewObject">>, <<"Lost", "Tracked", "Appear">>, <<"Tracked", "Lost", "Disappear">>}

\* An object's tick changes its status with an event, or not at all, and only
\* hypotheses are to be deleted.
LEMMA TickFields ==
  ASSUME NEW n, NEW o, Sound(o, n)
  PROVE  /\ ObjectTick(o) \in Object /\ ObjectTick(o).timeout_counter <= Limit
         /\ ObjectTick(o).oid = o.oid /\ ObjectTick(o).type = o.type /\ ObjectTick(o).name = o.name
         /\ ObjectTick(o).id = o.id
         /\ \/ ObjectTick(o).status = o.status /\ EventsOf(o, ObjectTick(o)) = <<>>
            \/ /\ ~ObjectTick(o).should_delete
               /\ \E e : /\ <<o.status, ObjectTick(o).status, e>> \in Changes
                         /\ EventsOf(o, ObjectTick(o)) = <<[type |-> e, obj |-> o.oid]>>
         /\ ObjectTick(o).should_delete => o.status = "Hypothetical"
<1> DEFINE found == o.sightings_counter >= SIGHTINGS_TO_LOCK
           over == o.timeout_counter <= 0
           ticked ==
             CASE o.status # "Tracked" /\ found -> [o EXCEPT !.status = "Tracked", !.timeout_counter = TIMEOUT_LOSE]
               [] o.status = "Hypothetical" /\ ~found /\ over -> [o EXCEPT !.should_delete = TRUE]
               [] o.status = "Tracked" /\ over -> [o EXCEPT !.status = "Lost", !.sightings_counter = 0]
               [] o.status = "Lost" /\ ~found /\ over -> [o EXCEPT !.sightings_counter = 0]
               [] OTHER -> o
           t == ObjectTick(o)
           c == CountDown(ticked.timeout_counter)
<1>1. TIMEOUT_LOSE \in Nat /\ Limit \in Nat /\ TIMEOUT_LOSE <= Limit
  BY WorldAssumption, LimitProperties
<1>2. o \in Object /\ o.timeout_counter <= Limit /\ ~o.should_delete
  BY DEF Sound
<1>3. o.status \in Status /\ o.timeout_counter \in Nat /\ o.sightings_counter \in Nat /\ o.should_delete = FALSE
  BY <1>2, ObjectFields
<1>4. t = [ticked EXCEPT !.timeout_counter = c]
  BY DEF ObjectTick
<1> DEFINE Good(x) ==
             /\ x \in Object /\ x.timeout_counter <= Limit
             /\ x.oid = o.oid /\ x.type = o.type /\ x.name = o.name /\ x.id = o.id
             /\ x.status = o.status \/ (~x.should_delete /\ \E e : <<o.status, x.status, e>> \in Changes)
             /\ x.should_delete => o.status = "Hypothetical" /\ x.status = o.status
<1>5. Good(ticked)
  <2> HIDE DEF found, over
  <2>1. CASE o.status # "Tracked" /\ found
    <3>1. ticked = [o EXCEPT !.status = "Tracked", !.timeout_counter = TIMEOUT_LOSE]
      BY <2>1
    <3> HIDE DEF ticked
    <3>2. /\ ticked \in Object /\ ticked.timeout_counter = TIMEOUT_LOSE /\ ticked.status = "Tracked"
          /\ ticked.oid = o.oid /\ ticked.type = o.type /\ ticked.name = o.name /\ ticked.id = o.id
          /\ ticked.should_delete = o.should_delete
      BY <1>1, <1>2, <3>1 DEF Object, Status
    <3>3. \E e : <<o.status, "Tracked", e>> \in Changes
      BY <1>3, <2>1 DEF Changes, Status
    <3> QED
      BY <1>1, <1>2, <1>3, <3>2, <3>3
  <2>2. CASE o.status = "Hypothetical" /\ ~found /\ over
    <3>1. ticked = [o EXCEPT !.should_delete = TRUE]
      BY <2>2
    <3> HIDE DEF ticked
    <3> QED
      BY <1>2, <2>2, <3>1 DEF Object
  <2>3. CASE o.status = "Tracked" /\ over
    <3>1. ticked = [o EXCEPT !.status = "Lost", !.sightings_counter = 0]
      BY <2>3
    <3> HIDE DEF ticked
    <3>2. /\ ticked \in Object /\ ticked.timeout_counter = o.timeout_counter /\ ticked.status = "Lost"
          /\ ticked.oid = o.oid /\ ticked.type = o.type /\ ticked.name = o.name /\ ticked.id = o.id
          /\ ticked.should_delete = o.should_delete
      BY <1>2, <3>1 DEF Object, Status
    <3>3. \E e : <<o.status, "Lost", e>> \in Changes
      BY <2>3 DEF Changes
    <3> QED
      BY <1>2, <1>3, <3>2, <3>3
  <2>4. CASE o.status = "Lost" /\ ~found /\ over
    <3>1. ticked = [o EXCEPT !.sightings_counter = 0]
      BY <2>4
    <3> HIDE DEF ticked
    <3> QED
      BY <1>2, <1>3, <3>1 DEF Object
  <2>5. CASE /\ ~(o.status # "Tracked" /\ found) /\ ~(o.status = "Hypothetical" /\ ~found /\ over)
             /\ ~(o.status = "Tracked" /\ over) /\ ~(o.status = "Lost" /\ ~found /\ over)
    <3>1. ticked = o
      BY <2>5
    <3> HIDE DEF ticked
    <3> QED
      BY <1>2, <1>3, <3>1
  <2> QED
    BY <2>1, <2>2, <2>3, <2>4, <2>5
<1> HIDE DEF ticked
<1>6. c \in Nat /\ c <= Limit
  <2> DEFINE x == ticked.timeout_counter
             S == {x - 1, 0}
  <2>1. x \in Nat /\ x <= Limit
    BY <1>5, ObjectFields
  <2>2. c = Max(S)
    BY DEF CountDown
  <2> HIDE DEF x, c
  <2>3. \E y \in S : \A z \in S : y >= z
    BY <2>1
  <2>4. Max(S) \in S /\ \A z \in S : Max(S) >= z
    BY <2>3 DEF Max
  <2> QED
    BY <1>1, <2>1, <2>2, <2>4
<1> HIDE DEF c, t
<1>7. /\ t \in Object /\ t.timeout_counter = c /\ t.oid = ticked.oid /\ t.type = ticked.type /\ t.name = ticked.name
      /\ t.id = ticked.id /\ t.status = ticked.status /\ t.should_delete = ticked.should_delete
  <2>1. ticked \in Object
    BY <1>5
  <2> QED
    BY <1>4, <1>6, <2>1 DEF Object
<1>8. Good(t)
  BY <1>5, <1>6, <1>7
<1>9. t.status = o.status => EventsOf(o, t) = <<>>
  BY <1>3 DEF EventsOf, Status
<1>10. ASSUME NEW e, <<o.status, t.status, e>> \in Changes PROVE EventsOf(o, t) = <<[type |-> e, obj |-> o.oid]>>
  BY <1>10 DEF EventsOf, Changes
<1> QED
  BY <1>8, <1>9, <1>10 DEF t

\* The order in which the events of one object come.
Turns == {<<"none", "NewObject">>, <<"NewObject", "Disappear">>, <<"Disappear", "Appear">>, <<"Appear", "Disappear">>}

\* The event that an object's change of status produces is its next in turn.
LEMMA ChangeIsTurn ==
  ASSUME NEW l \in {"none", "NewObject", "Disappear", "Appear"}, NEW t, NEW e, <<StatusOf(l), t, e>> \in Changes
  PROVE  <<l, e>> \in Turns /\ t = StatusOf(e) /\ e \in {"NewObject", "Appear", "Disappear"}
  BY DEF Changes, Turns, StatusOf

\* What the status of object o says after the events evs of this tick.
Reported(o, evs) ==
  \/ \E j \in DOMAIN evs : evs[j].obj = o.oid /\ o.status = StatusOf(evs[j].type)
  \/ (\A j \in DOMAIN evs : evs[j].obj # o.oid) /\ o.status = StatusOf(last[o.oid])

\* What the loop over the objects has done after k turns: the objects further
\* on are as they were, no object has two events, an object with an event
\* has been ticked and is kept, and only hypotheses are gone.
Swept(objs, n, k, acc) ==
  /\ acc = [objs |-> acc.objs, evs |-> acc.evs]
  /\ acc.objs \in Seq(Object) /\ Len(acc.objs) <= Len(objs)
  /\ acc.evs \in Seq(Event)
  /\ \A i \in DOMAIN acc.objs : Sound(acc.objs[i], n) /\ Reported(acc.objs[i], acc.evs)
  /\ \A i, j \in DOMAIN acc.objs : i # j => Apart(acc.objs[i], acc.objs[j])
  /\ \A i \in DOMAIN acc.objs : i > k => acc.objs[i] = objs[i]
  /\ \A i \in DOMAIN acc.objs : \E j \in DOMAIN objs : objs[j].oid = acc.objs[i].oid
  /\ \A j \in DOMAIN objs : last[objs[j].oid] # "none" => \E i \in DOMAIN acc.objs : acc.objs[i].oid = objs[j].oid
  /\ \A j \in DOMAIN acc.evs :
       /\ \E i \in DOMAIN acc.objs : i <= k /\ acc.objs[i].oid = acc.evs[j].obj
       /\ <<last[acc.evs[j].obj], acc.evs[j].type>> \in Turns
  /\ \A i, j \in DOMAIN acc.evs : i # j => acc.evs[i].obj # acc.evs[j].obj

LEMMA LoopTurnSound ==
  ASSUME NEW objs, NEW n, VectorSound(objs, n, last), HistoryInv,
         NEW k \in Nat, k + 1 <= Len(objs), NEW acc, Swept(objs, n, k, acc)
  PROVE  Swept(objs, n, k + 1, LoopTurn(acc, k + 1))
<1> DEFINE a == acc.objs
           evs == acc.evs
           h == k + 1
           x == a[h]
           t == ObjectTick(x)
           L == Len(a)
           q == LoopTurn(acc, h)
<1>1. /\ acc = [objs |-> a, evs |-> evs]
      /\ a \in Seq(Object) /\ L <= Len(objs) /\ evs \in Seq(Event)
      /\ \A i \in DOMAIN a : Sound(a[i], n) /\ Reported(a[i], evs)
      /\ \A i, j \in DOMAIN a : i # j => Apart(a[i], a[j])
      /\ \A i \in DOMAIN a : i > k => a[i] = objs[i]
      /\ \A i \in DOMAIN a : \E j \in DOMAIN objs : objs[j].oid = a[i].oid
      /\ \A j \in DOMAIN objs : last[objs[j].oid] # "none" => \E i \in DOMAIN a : a[i].oid = objs[j].oid
      /\ \A j \in DOMAIN evs :
           /\ \E i \in DOMAIN a : i <= k /\ a[i].oid = evs[j].obj
           /\ <<last[evs[j].obj], evs[j].type>> \in Turns
      /\ \A i, j \in DOMAIN evs : i # j => evs[i].obj # evs[j].obj
  BY DEF Swept
<1>2. L \in Nat /\ DOMAIN a = 1 .. L
  BY <1>1
<1>3. CASE h > L
  <2>1. q = acc
    BY <1>3 DEF LoopTurn
  <2>2. \A i \in DOMAIN a : i > h => a[i] = objs[i]
    BY <1>1, <1>2, <1>3
  <2>3. \A i \in DOMAIN a : i <= k => i <= h
    BY <1>2
  <2>4. \A j \in DOMAIN evs : \E i \in DOMAIN a : i <= h /\ a[i].oid = evs[j].obj
    BY <1>1, <2>3
  <2>5. Swept(objs, n, h, acc)
    BY <1>1, <2>2, <2>4 DEF Swept
  <2> QED
    BY <2>1, <2>5
<1>4. CASE h <= L
  <2>1. h \in DOMAIN a /\ h \in 1 .. L /\ h > k /\ k < L
    BY <1>2, <1>4
  <2>2. Sound(x, n) /\ x = objs[h] /\ Reported(x, evs)
    BY <1>1, <2>1
  <2>3. \A j \in DOMAIN evs : evs[j].obj # x.oid
    <3>1. ASSUME NEW j \in DOMAIN evs PROVE evs[j].obj # x.oid
      <4>1. PICK i \in DOMAIN a : i <= k /\ a[i].oid = evs[j].obj
        BY <1>1
      <4>2. i # h
        BY <1>2, <2>1, <4>1
      <4> QED
        BY <1>1, <2>1, <4>1, <4>2 DEF Apart
    <3> QED
      BY <3>1
  <2>4. x.status = StatusOf(last[x.oid])
    BY <2>2, <2>3 DEF Reported
  <2>5. x.oid \in ObjectIds /\ last[x.oid] \in {"none", "NewObject", "Disappear", "Appear"}
    <3>1. x.oid \in ObjectIds
      BY <2>2, ObjectFields DEF Sound
    <3> QED
      BY <3>1 DEF HistoryInv
  <2>6. /\ t \in Object /\ t.timeout_counter <= Limit
        /\ t.oid = x.oid /\ t.type = x.type /\ t.name = x.name /\ t.id = x.id
        /\ \/ t.status = x.status /\ EventsOf(x, t) = <<>>
           \/ /\ ~t.should_delete
              /\ \E e : <<x.status, t.status, e>> \in Changes /\ EventsOf(x, t) = <<[type |-> e, obj |-> x.oid]>>
        /\ t.should_delete => x.status = "Hypothetical"
    BY <2>2, TickFields
  <2>7. q = IF t.should_delete
            THEN [objs |-> Front([a EXCEPT ![h] = Last(a)]), evs |-> evs \o EventsOf(x, t)]
            ELSE [objs |-> [a EXCEPT ![h] = t], evs |-> evs \o EventsOf(x, t)]
    BY <1>2, <1>4 DEF LoopTurn
  <2> HIDE DEF a, evs, t, q, L
  <2>8. CASE t.should_delete
    <3> DEFINE c == [a EXCEPT ![h] = Last(a)]
               b == Front(c)
               From(i) == IF i = h THEN L ELSE i
    <3>1. q = [objs |-> b, evs |-> evs]
      <4>1. EventsOf(x, t) = <<>>
        BY <2>6, <2>8
      <4>2. evs \o <<>> = evs
        BY <1>1, ConcatEmptySeq
      <4> QED
        BY <2>7, <2>8, <4>1, <4>2
    <3>2. q.objs = b /\ q.evs = evs
      BY <3>1
    <3>3. last[x.oid] = "none"
      BY <2>4, <2>5, <2>6, <2>8 DEF StatusOf
    <3>4. c \in Seq(Object) /\ Len(c) = L /\ \A i \in 1 .. L : c[i] = a[From(i)]
      <4>1. L \in 1 .. L /\ Last(a) = a[L]
        BY <1>2, <2>1 DEF Last, L
      <4>2. a[L] \in Object
        BY <1>1, <1>2, <4>1
      <4>3. c \in Seq(Object) /\ Len(c) = L
        BY <1>1, <1>2, <2>1, <4>1, <4>2 DEF L
      <4> QED
        BY <1>2, <2>1, <4>1, <4>3
    <3> HIDE DEF c
    <3>5. b \in Seq(Object) /\ Len(b) = L - 1 /\ DOMAIN b = 1 .. L - 1 /\ \A i \in 1 .. L - 1 : b[i] = a[From(i)]
      <4>1. b = SubSeq(c, 1, L - 1)
        BY <3>4 DEF Front
      <4>2. 1 .. L - 1 \subseteq 1 .. L
        BY <1>2
      <4>3. b = [i \in 1 .. L - 1 |-> c[i]]
        BY <1>2, <2>1, <3>4, <4>1, <4>2
      <4>4. \A i \in 1 .. L - 1 : c[i] \in Object
        BY <3>4, <4>2
      <4> HIDE DEF b
      <4>5. b \in [1 .. L - 1 -> Object]
        BY <4>3, <4>4
      <4>6. L - 1 \in Nat
        BY <1>2, <2>1
      <4>7. b \in Seq(Object) /\ Len(b) = L - 1
        BY <4>5, <4>6
      <4> QED
        BY <3>4, <4>2, <4>3, <4>7
    <3> HIDE DEF b
    <3>6. \A i \in 1 .. L - 1 : From(i) \in 1 .. L /\ From(i) # h
      BY <1>2, <2>1
    <3>7. \A i, j \in 1 .. L - 1 : i # j => From(i) # From(j)
      BY <1>2, <2>1
    <3>8. \A i \in 1 .. L - 1 : i > h => From(i) = i /\ i > k
      BY <1>2, <2>1
    <3>9. \A i \in 1 .. L : i <= k => i \in 1 .. L - 1 /\ From(i) = i /\ i <= h
      BY <1>2, <2>1
    <3>10. \A i \in 1 .. L : i # h => \E j \in 1 .. L - 1 : From(j) = i
      <4>1. ASSUME NEW i \in 1 .. L, i # h PROVE \E j \in 1 .. L - 1 : From(j) = i
        <5>1. CASE i = L
          BY <1>2, <2>1, <4>1, <5>1
        <5>2. CASE i # L
          BY <1>2, <2>1, <4>1, <5>2
        <5> QED
          BY <5>1, <5>2
      <4> QED
        BY <4>1
    <3> HIDE DEF From
    <3>11. \A i \in DOMAIN b : Sound(b[i], n) /\ Reported(b[i], evs)
      BY <1>1, <1>2, <3>5, <3>6
    <3>12. \A i, j \in DOMAIN b : i # j => Apart(b[i], b[j])
      BY <1>1, <1>2, <3>5, <3>6, <3>7
    <3>13. \A i \in DOMAIN b : i > h => b[i] = objs[i]
      BY <1>1, <1>2, <3>5, <3>6, <3>8
    <3>14. ASSUME NEW i \in DOMAIN b PROVE \E j \in DOMAIN objs : objs[j].oid = b[i].oid
      <4>1. From(i) \in DOMAIN a /\ b[i] = a[From(i)]
        BY <1>2, <3>5, <3>6
      <4> QED
        BY <1>1, <4>1, SMTT(60)
    <3>15. ASSUME NEW j \in DOMAIN objs, last[objs[j].oid] # "none"
           PROVE  \E i \in DOMAIN b : b[i].oid = objs[j].oid
      <4>1. PICK i \in DOMAIN a : a[i].oid = objs[j].oid
        BY <1>1, <3>15
      <4>2. i # h
        BY <3>3, <3>15, <4>1
      <4>3. PICK m \in 1 .. L - 1 : From(m) = i
        BY <1>2, <3>10, <4>2
      <4> QED
        BY <3>5, <4>1, <4>3
    <3>16. ASSUME NEW j \in DOMAIN evs PROVE \E i \in DOMAIN b : i <= h /\ b[i].oid = evs[j].obj
      <4>1. PICK i \in DOMAIN a : i <= k /\ a[i].oid = evs[j].obj
        BY <1>1
      <4> QED
        BY <1>2, <3>5, <3>9, <4>1
    <3>17. Len(b) <= Len(objs)
      <4>1. Len(objs) \in Nat
        BY DEF VectorSound
      <4> QED
        BY <1>1, <1>2, <3>5, <4>1
    <3>18. Swept(objs, n, h, q)
      BY <1>1, <3>1, <3>2, <3>5, <3>11, <3>12, <3>13, <3>14, <3>15, <3>16, <3>17 DEF Swept
    <3> QED
      BY <3>18 DEF q
  <2>9. CASE ~t.should_delete
    <3> DEFINE b == [a EXCEPT ![h] = t]
    <3>1. b \in Seq(Object) /\ Len(b) = L /\ DOMAIN b = DOMAIN a /\ \A i \in DOMAIN a : b[i] = IF i = h THEN t ELSE a[i]
      BY <1>1, <2>1, <2>6 DEF L
    <3>2. q = [objs |-> b, evs |-> evs \o EventsOf(x, t)]
      BY <2>7, <2>9
    <3>3. q.objs = b /\ q.evs = evs \o EventsOf(x, t)
      BY <3>2
    <3> HIDE DEF b
    <3>4. Sound(t, n)
      BY <2>2, <2>6, <2>9 DEF Sound
    <3>5. \A i \in DOMAIN b : Sound(b[i], n)
      BY <1>1, <3>1, <3>4
    <3>6. \A i \in DOMAIN b : b[i].oid = a[i].oid /\ b[i].type = a[i].type /\ b[i].name = a[i].name
      BY <2>6, <3>1
    <3>7. \A i, j \in DOMAIN b : i # j => Apart(b[i], b[j])
      BY <1>1, <3>1, <3>6, SMTT(60) DEF Apart
    <3>8. \A i \in DOMAIN b : i > h => b[i] = objs[i]
      BY <1>1, <1>2, <2>1, <3>1
    <3>9. \A i \in DOMAIN b : \E j \in DOMAIN objs : objs[j].oid = b[i].oid
      BY <1>1, <3>1, <3>6
    <3>10. ASSUME NEW j \in DOMAIN objs, last[objs[j].oid] # "none"
           PROVE  \E i \in DOMAIN b : b[i].oid = objs[j].oid
      <4>1. PICK i \in DOMAIN a : a[i].oid = objs[j].oid
        BY <1>1, <3>10
      <4> QED
        BY <3>1, <3>6, <4>1
    <3>11. ASSUME NEW j \in DOMAIN evs PROVE \E i \in DOMAIN b : i <= h /\ b[i].oid = evs[j].obj
      <4>1. PICK i \in DOMAIN a : i <= k /\ a[i].oid = evs[j].obj
        BY <1>1
      <4>2. i <= h
        BY <1>2, <4>1
      <4> QED
        BY <3>1, <3>6, <4>1, <4>2
    <3>12. \A i \in DOMAIN b : i # h => b[i].oid # x.oid /\ b[i] = a[i]
      BY <1>1, <2>1, <3>1 DEF Apart
    <3>15. Len(b) <= Len(objs)
      BY <1>1, <3>1
    <3>13. CASE t.status = x.status /\ EventsOf(x, t) = <<>>
      <4>1. q.evs = evs
        BY <1>1, <3>3, <3>13, ConcatEmptySeq
      <4>2. Reported(t, evs)
        BY <2>2, <2>6, <3>13 DEF Reported
      <4>3. \A i \in DOMAIN b : Reported(b[i], evs)
        BY <1>1, <3>1, <4>2
      <4>4. q = [objs |-> q.objs, evs |-> q.evs] /\ q.objs = b
        BY <3>2, <3>3
      <4>5. \A j \in DOMAIN evs :
              /\ \E i \in DOMAIN b : i <= h /\ b[i].oid = evs[j].obj
              /\ <<last[evs[j].obj], evs[j].type>> \in Turns
        BY <1>1, <3>11
      <4>6. evs \in Seq(Event) /\ \A i, j \in DOMAIN evs : i # j => evs[i].obj # evs[j].obj
        BY <1>1
      <4>7. Swept(objs, n, h, q)
        BY <4>6, <3>1, <3>5, <3>7, <3>8, <3>9, <3>10, <3>15, <4>1, <4>3, <4>4, <4>5, ZenonT(60) DEF Swept
      <4> QED
        BY <4>7 DEF q
    <3>14. ASSUME NEW e, <<x.status, t.status, e>> \in Changes, EventsOf(x, t) = <<[type |-> e, obj |-> x.oid]>>
           PROVE  Swept(objs, n, h, q)
      <4> DEFINE ev == [type |-> e, obj |-> x.oid]
                 m == Len(evs) + 1
                 w == q.evs
      <4>1. <<last[x.oid], e>> \in Turns /\ t.status = StatusOf(e) /\ e \in {"NewObject", "Appear", "Disappear"}
        BY <2>4, <2>5, <3>14, ChangeIsTurn
      <4>2. ev \in Event /\ ev.type = e /\ ev.obj = x.oid
        BY <2>5, <4>1 DEF Event
      <4>3. w = evs \o <<ev>>
        BY <3>3, <3>14
      <4> HIDE DEF ev
      <4>4. w = Append(evs, ev)
        BY <1>1, <4>2, <4>3
      <4> HIDE DEF w
      <4>5. /\ w \in Seq(Event) /\ m \in Nat /\ DOMAIN w = 1 .. m /\ DOMAIN evs = 1 .. m - 1
            /\ w[m] = ev /\ \A j \in 1 .. m - 1 : w[j] = evs[j]
        BY <1>1, <4>2, <4>4
      <4>6. \A j \in DOMAIN w : j = m \/ (j \in DOMAIN evs /\ w[j] = evs[j])
        BY <4>5
      <4>7. m \in DOMAIN w /\ (\A j \in DOMAIN evs : j \in DOMAIN w /\ w[j] = evs[j])
        BY <4>5
      <4> HIDE DEF m
      <4>8. Reported(t, w)
        BY <2>6, <4>1, <4>2, <4>5, <4>7 DEF Reported
      <4>9. ASSUME NEW i \in DOMAIN b, i # h PROVE Reported(b[i], w)
        <5>1. Reported(a[i], evs) /\ b[i] = a[i] /\ a[i].oid # x.oid
          BY <1>1, <3>1, <3>12, <4>9
        <5>2. w[m].obj # a[i].oid
          BY <4>2, <4>5, <5>1
        <5>3. Reported(a[i], w)
          BY <4>6, <4>7, <5>1, <5>2 DEF Reported
        <5> QED
          BY <5>1, <5>3
      <4>10. \A i \in DOMAIN b : Reported(b[i], w)
        BY <3>1, <4>8, <4>9
      <4>11. ASSUME NEW j \in DOMAIN w
             PROVE  /\ \E i \in DOMAIN b : i <= h /\ b[i].oid = w[j].obj
                    /\ <<last[w[j].obj], w[j].type>> \in Turns
        <5>1. CASE j = m
          <6>1. h \in DOMAIN b /\ h <= h /\ b[h].oid = w[j].obj
            BY <2>1, <2>6, <3>1, <4>2, <4>5, <5>1
          <6>2. <<last[w[j].obj], w[j].type>> \in Turns
            BY <4>1, <4>2, <4>5, <5>1
          <6> QED
            BY <6>1, <6>2
        <5>2. CASE j \in DOMAIN evs /\ w[j] = evs[j]
          BY <1>1, <3>11, <5>2
        <5> QED
          BY <4>6, <5>1, <5>2
      <4>12. \A i, j \in DOMAIN w : i # j => w[i].obj # w[j].obj
        BY <1>1, <2>3, <4>2, <4>5, <4>6
      <4>13. q = [objs |-> q.objs, evs |-> q.evs] /\ q.objs = b /\ q.evs = w
        BY <3>2, <3>3 DEF w
      <4> QED
        BY <3>1, <3>5, <3>7, <3>8, <3>9, <3>10, <3>15, <4>5, <4>10, <4>11, <4>12, <4>13, ZenonT(60) DEF Swept
    <3> QED
      BY <2>6, <3>13, <3>14 DEF q
  <2> QED
    BY <2>8, <2>9
<1> QED
  BY <1>2, <1>3, <1>4

\* The whole loop, by induction on the number of objects.
LEMMA TickAllSound ==
  ASSUME NEW objs, NEW n, VectorSound(objs, n, last), HistoryInv
  PROVE  Swept(objs, n, Len(objs), TickAll(objs))
<1> DEFINE start == [objs |-> objs, evs |-> <<>>]
           Loop(m, g) == g = [k \in 0 .. m |-> IF k = 0 THEN start ELSE LoopTurn(g[k - 1], k)]
           T == {m \in Nat : \E g : Loop(m, g)}
           len == Len(objs)
<1>1. len \in Nat /\ objs \in Seq(Object)
  BY DEF VectorSound
<1>a. Swept(objs, n, 0, start)
  <2>1. start.objs = objs /\ start.evs = <<>> /\ start = [objs |-> start.objs, evs |-> start.evs]
    OBVIOUS
  <2> HIDE DEF start
  <2>2. <<>> \in Seq(Event) /\ DOMAIN <<>> = {}
    OBVIOUS
  <2>3. \A i \in DOMAIN objs : Sound(objs[i], n) /\ Reported(objs[i], start.evs)
    BY <2>1, <2>2 DEF VectorSound, Reported
  <2>4. \A i, j \in DOMAIN objs : i # j => Apart(objs[i], objs[j])
    BY DEF VectorSound
  <2> QED
    BY <1>1, <2>1, <2>2, <2>3, <2>4 DEF Swept
<1> HIDE DEF start
<1>2. 0 \in T
  <2>1. Loop(0, [i \in 0 .. 0 |-> start])
    OBVIOUS
  <2> QED
    BY <2>1
<1>3. ASSUME NEW m \in T PROVE m + 1 \in T
  <2>1. m \in Nat
    OBVIOUS
  <2>2. PICK g : Loop(m, g)
    OBVIOUS
  <2> DEFINE h == [i \in 0 .. m + 1 |-> IF i = m + 1 THEN LoopTurn(g[m], m + 1) ELSE g[i]]
  <2>3. ASSUME NEW i \in 0 .. m + 1
        PROVE  h[i] = IF i = 0 THEN start ELSE LoopTurn(h[i - 1], i)
    <3>1. CASE i = m + 1
      <4>1. i # 0 /\ i - 1 = m /\ m \in 0 .. m + 1 /\ m # m + 1
        BY <3>1, <2>1
      <4>2. h[i] = LoopTurn(g[m], m + 1) /\ h[m] = g[m]
        BY <3>1, <4>1
      <4> QED
        BY <4>1, <4>2, <3>1
    <3>2. CASE i = 0
      BY <3>2, <2>1, <2>2
    <3>3. CASE i # 0 /\ i # m + 1
      <4>1. i \in 0 .. m /\ i - 1 \in 0 .. m + 1 /\ i - 1 # m + 1
        BY <3>3, <2>1
      <4>2. h[i] = g[i] /\ h[i - 1] = g[i - 1]
        BY <4>1, <3>3
      <4>3. g[i] = LoopTurn(g[i - 1], i)
        BY <4>1, <3>3, <2>2
      <4> QED
        BY <4>2, <4>3, <3>3
    <3> QED
      BY <3>1, <3>2, <3>3
  <2>4. h = [i \in 0 .. m + 1 |-> h[i]]
    OBVIOUS
  <2> HIDE DEF h
  <2>5. Loop(m + 1, h)
    BY <2>3, <2>4
  <2> QED
    BY <2>1, <2>5
<1> HIDE DEF Loop
<1>4. T = Nat
  BY <1>2, <1>3, SetInduction
<1> DEFINE turn == CHOOSE g : Loop(len, g)
<1>5. Loop(len, turn)
  BY <1>1, <1>4
<1>6. TickAll(objs) = turn[len]
  BY DEF TickAll, Loop, start
<1> HIDE DEF turn, len
<1>7. /\ turn[0] = start
      /\ \A i \in 1 .. len : turn[i] = LoopTurn(turn[i - 1], i)
  BY <1>5, <1>1 DEF Loop
<1> DEFINE U == {m \in Nat : m <= len => Swept(objs, n, m, turn[m])}
<1>8. 0 \in U
  BY <1>7, <1>a
<1>9. ASSUME NEW m \in U PROVE m + 1 \in U
  <2>1. m \in Nat /\ m + 1 \in Nat
    OBVIOUS
  <2>2. SUFFICES ASSUME m + 1 <= len
                 PROVE  Swept(objs, n, m + 1, turn[m + 1])
    BY <2>1
  <2>3. m + 1 \in 1 .. len /\ m <= len /\ (m + 1) - 1 = m
    BY <2>1, <2>2, <1>1
  <2>4. Swept(objs, n, m, turn[m])
    BY <2>3
  <2>5. turn[m + 1] = LoopTurn(turn[m], m + 1)
    BY <2>3, <1>7
  <2>6. Swept(objs, n, m + 1, LoopTurn(turn[m], m + 1))
    BY <2>1, <2>2, <2>4, LoopTurnSound DEF len
  <2> QED
    BY <2>5, <2>6
<1>10. U = Nat
  BY <1>8, <1>9, SetInduction
<1> QED
  BY <1>1, <1>6, <1>10 DEF len

-----------------------------------------------------------------------------
(* The steps of the world                                                  *)

\* The percepts of a frame are sound: the tracker publishes each name once.
LEMMA PersonMessagesSound ==
  ASSUME nameOf \in [Ids -> Names \cup {NoName}], NEW ps \in PersonMessages
  PROVE  MessageSound(ps)
<1>1. PICK f \in UNION {{g \in SetToSeqs(S) : \A j, k \in DOMAIN g : j < k => g[j] < g[k] /\ nameOf[g[j]] # nameOf[g[k]]} :
                       S \in SUBSET Ids} : ps = [k \in DOMAIN f |-> PersonPercept(f[k])]
  BY DEF PersonMessages
<1>2. PICK S \in SUBSET Ids :
        f \in SetToSeqs(S) /\ \A j, k \in DOMAIN f : j < k => f[j] < f[k] /\ nameOf[f[j]] # nameOf[f[k]]
  BY <1>1
<1> DEFINE c == Cardinality(S)
<1>3. c \in Nat
  BY WorldAssumption, FS_Subset, FS_CardinalityType
<1>4. f \in [1 .. c -> Ids]
  BY <1>2 DEF SetToSeqs
<1> HIDE DEF c
<1>5. ASSUME NEW k \in 1 .. c
      PROVE  ps[k] \in Percept /\ PerceptSound(ps[k]) /\ ps[k].name = nameOf[f[k]]
  <2>1. f[k] \in Ids /\ nameOf[f[k]] \in Names \cup {NoName}
    BY <1>4
  <2>2. ps[k] = [type |-> "person", name |-> nameOf[f[k]], id |-> f[k]]
    BY <1>1, <1>4 DEF PersonPercept
  <2>3. ps[k] \in Percept
    BY <2>1, <2>2 DEF Percept
  <2> QED
    BY <2>1, <2>2, <2>3 DEF PerceptSound
<1>6. DOMAIN ps = 1 .. c /\ ps = [k \in 1 .. c |-> ps[k]]
  BY <1>1, <1>4
<1>7. ps \in [1 .. c -> Percept]
  BY <1>5, <1>6
<1>8. ps \in Seq(Percept)
  BY <1>3, <1>7
<1>9. ASSUME NEW j \in 1 .. c, NEW k \in 1 .. c, j # k PROVE ps[j].name # ps[k].name
  <2>1. j < k \/ k < j
    BY <1>3, <1>9
  <2> QED
    BY <1>2, <1>4, <1>5, <2>1
<1> QED
  BY <1>5, <1>6, <1>8, <1>9 DEF MessageSound

LEMMA MarkerMessagesSound ==
  ASSUME NEW ms \in MarkerMessages
  PROVE  MessageSound(ms)
<1>1. PICK f \in UNION {SetToSeqs(S) : S \in SUBSET Markers} : ms = [k \in DOMAIN f |-> MarkerPercept(f[k])]
  BY DEF MarkerMessages
<1>2. PICK S \in SUBSET Markers : f \in SetToSeqs(S)
  BY <1>1
<1> DEFINE c == Cardinality(S)
<1>3. c \in Nat
  BY WorldAssumption, FS_Subset, FS_CardinalityType
<1>4. f \in [1 .. c -> Markers]
  BY <1>2 DEF SetToSeqs
<1> HIDE DEF c
<1>5. ASSUME NEW k \in 1 .. c
      PROVE  ms[k] \in Percept /\ PerceptSound(ms[k]) /\ ms[k].type = "movable"
  <2>1. f[k] \in Markers
    BY <1>4
  <2>2. ms[k] = [type |-> "movable", name |-> NoName, id |-> f[k]]
    BY <1>1, <1>4 DEF MarkerPercept
  <2>3. ms[k] \in Percept
    BY <2>1, <2>2 DEF Percept
  <2> QED
    BY <2>1, <2>2, <2>3 DEF PerceptSound
<1>6. DOMAIN ms = 1 .. c /\ ms = [k \in 1 .. c |-> ms[k]]
  BY <1>1, <1>4
<1>7. ms \in [1 .. c -> Percept]
  BY <1>5, <1>6
<1>8. ms \in Seq(Percept)
  BY <1>3, <1>7
<1> QED
  BY <1>5, <1>6, <1>8 DEF MessageSound

\* The counting of samples.
LEMMA CalibratedFields ==
  ASSUME CalibrationInv, NEW s \in Sources, ~sources[s].calibrated,
         sources' = [sources EXCEPT ![s] = Calibrated(@)], recalibrations' = recalibrations
  PROVE  CalibrationInv'
<1> DEFINE Source == [samples_collected : 0 .. SAMPLES, divisions : Nat, calibrated : BOOLEAN]
           src == sources[s]
           new == Calibrated(src)
<1>1. SAMPLES \in Nat /\ src \in Source /\ sources \in [Sources -> Source]
  BY WorldAssumption DEF CalibrationInv
<1>2. src.samples_collected \in 0 .. SAMPLES /\ src.divisions \in Nat
  BY <1>1
<1>3. CASE src.samples_collected < SAMPLES
  <2>1. new = [src EXCEPT !.samples_collected = src.samples_collected + 1]
    BY <1>3 DEF Calibrated
  <2>2. src.samples_collected + 1 \in 0 .. SAMPLES
    BY <1>1, <1>2, <1>3
  <2> HIDE DEF new, src
  <2>3. new \in Source /\ new.calibrated = src.calibrated /\ new.divisions = src.divisions
    BY <1>1, <2>1, <2>2
  <2> HIDE DEF Source
  <2>4. sources' \in [Sources -> Source]
    BY <1>1, <2>3 DEF new, src
  <2>5. \A x \in Sources : sources'[x] = IF x = s THEN new ELSE sources[x]
    BY <1>1 DEF new, src
  <2> QED
    BY <2>3, <2>4, <2>5 DEF CalibrationInv, Source, src
<1>4. CASE ~(src.samples_collected < SAMPLES)
  <2>1. new = [src EXCEPT !.divisions = src.divisions + 1, !.calibrated = TRUE]
    BY <1>4 DEF Calibrated
  <2>2. src.samples_collected = SAMPLES /\ src.divisions + 1 \in Nat
    BY <1>1, <1>2, <1>4
  <2> HIDE DEF new, src
  <2>3. new \in Source /\ new.calibrated = TRUE /\ new.divisions = src.divisions + 1 /\ new.samples_collected = SAMPLES
    BY <1>1, <2>1, <2>2
  <2> HIDE DEF Source
  <2>4. sources' \in [Sources -> Source]
    BY <1>1, <2>3 DEF new, src
  <2>5. \A x \in Sources : sources'[x] = IF x = s THEN new ELSE sources[x]
    BY <1>1 DEF new, src
  <2>6. recalibrations = 0 => src.divisions = 0
    BY DEF CalibrationInv, src
  <2> QED
    BY <2>3, <2>4, <2>5, <2>6 DEF CalibrationInv, Source
<1> QED
  BY <1>3, <1>4

\* The pointers to the objects lo + 1 .. hi, which are appended.
Following(lo, hi, new) == new \in [1 .. hi - lo -> Nat] /\ \A i \in 1 .. hi - lo : new[i] = lo + i

LEMMA PointersAppended ==
  ASSUME NEW b \in Nat, NEW lo \in Nat, NEW hi \in Nat, NEW n \in Nat, b <= n, lo <= hi, hi <= n,
         NEW ptrs \in Seq(1 .. b),
         NEW new, Following(lo, hi, new)
  PROVE  /\ ptrs \o new \in Seq(1 .. n)
         /\ ToSet(ptrs \o new) = ToSet(ptrs) \cup lo + 1 .. hi
<1> DEFINE d == hi - lo
           l == Len(ptrs)
           X == 1 .. n
           all == ptrs \o new
<1>1. d \in Nat /\ \A i \in 1 .. d : lo + i \in X /\ lo + i \in lo + 1 .. hi
  OBVIOUS
<1>2. \A x \in lo + 1 .. hi : x - lo \in 1 .. d /\ x = lo + (x - lo)
  OBVIOUS
<1>3. 1 .. b \subseteq X
  OBVIOUS
<1>4. DOMAIN new = 1 .. d /\ new = [i \in 1 .. d |-> new[i]]
  BY DEF Following
<1>5. \A i \in 1 .. d : new[i] = lo + i
  BY DEF Following
<1> HIDE DEF d, X
<1>a. new \in [1 .. d -> X]
  BY <1>1, <1>4, <1>5
<1>6. new \in Seq(X) /\ Len(new) = d
  BY ONLY <1>1, <1>a
<1>7. ptrs \in Seq(X) /\ l \in Nat /\ DOMAIN ptrs = 1 .. l
  BY <1>3
<1>8. all \in Seq(X) /\ Len(all) = l + d
  BY <1>6, <1>7, ConcatProperties
<1>9. \A i \in 1 .. l + d : all[i] = IF i <= l THEN ptrs[i] ELSE new[i - l]
  BY <1>6, <1>7, ConcatProperties
<1> HIDE DEF all, l
<1>10. DOMAIN all = 1 .. l + d
  BY <1>8
<1>11. ASSUME NEW x \in ToSet(all) PROVE x \in ToSet(ptrs) \cup lo + 1 .. hi
  <2>1. PICK i \in 1 .. l + d : x = all[i]
    BY <1>10 DEF ToSet
  <2>2. CASE i <= l
    <3>1. i \in DOMAIN ptrs /\ x = ptrs[i]
      BY <1>7, <1>9, <2>1, <2>2
    <3> QED
      BY <3>1 DEF ToSet
  <2>3. CASE ~(i <= l)
    <3>1. i - l \in 1 .. d /\ x = new[i - l]
      BY <1>1, <1>7, <1>9, <2>1, <2>3
    <3> QED
      BY <1>1, <1>5, <3>1
  <2> QED
    BY <2>2, <2>3
<1>12. ASSUME NEW x \in ToSet(ptrs) PROVE x \in ToSet(all)
  <2>1. PICK i \in 1 .. l : x = ptrs[i]
    BY <1>7 DEF ToSet
  <2>2. i \in 1 .. l + d /\ all[i] = x
    BY <1>1, <1>7, <1>9, <2>1
  <2> QED
    BY <1>10, <2>2 DEF ToSet
<1>13. ASSUME NEW x \in lo + 1 .. hi PROVE x \in ToSet(all)
  <2> DEFINE j == x - lo
  <2>1. j \in 1 .. d /\ x = lo + j
    BY <1>2
  <2> HIDE DEF j
  <2>2. l + j \in 1 .. l + d /\ ~(l + j <= l) /\ (l + j) - l = j
    BY <1>1, <1>7, <2>1
  <2>3. all[l + j] = x
    BY <1>5, <1>9, <2>1, <2>2
  <2> QED
    BY <1>10, <2>2, <2>3 DEF ToSet
<1>14. ToSet(all) = ToSet(ptrs) \cup lo + 1 .. hi
  BY <1>11, <1>12, <1>13
<1> QED
  BY <1>8, <1>14 DEF all, X

\* A message of percepts.
LEMMA PerceptsInductive ==
  ASSUME WorldInv, NEW s \in Sources, Percepts(s)
  PROVE  WorldInv' /\ last' = last
<1>1. PICK ms \in MarkerMessages, ps \in PersonMessages, calib \in BOOLEAN : ProcessPercepts(s, ms, ps, calib)
  BY DEF Percepts
<1>2. WorldParts
  BY WorldInvParts
<1>3. /\ UNCHANGED <<latest_events, is_paused, ticking, nameOf, last, recalibrations>>
      /\ drained < MaxMessages /\ drained' = drained + 1
      /\ sources' = IF calib /\ ~sources[s].calibrated THEN [sources EXCEPT ![s] = Calibrated(@)] ELSE sources
  BY <1>1 DEF ProcessPercepts
<1>4. /\ nameOf \in [Ids -> Names \cup {NoName}] /\ created \in Nat
      /\ VectorSound(objects, created, last) /\ HistoryInv /\ PointersToReported /\ ControlInv /\ CalibrationInv
  BY <1>2, WorldAssumption DEF WorldParts, ControlInv
<1>5. CalibrationInv'
  <2>1. CASE calib /\ ~sources[s].calibrated
    BY <1>3, <1>4, <2>1, CalibratedFields
  <2>2. CASE ~(calib /\ ~sources[s].calibrated)
    BY <1>3, <1>4, <2>2 DEF CalibrationInv
  <2> QED
    BY <2>1, <2>2
<1>6. drained' \in 0 .. MaxMessages
  BY <1>3, <1>4, WorldAssumption DEF ControlInv
<1>7. CASE UNCHANGED <<objectVars, new_percepts>>
  <2>1. UNCHANGED <<objects, person_objects, movable_objects, created, new_percepts>>
    BY <1>7 DEF objectVars
  <2>2. VectorSound(objects, created, last)'
    BY <1>3, <1>4, <2>1 DEF VectorSound, Sound
  <2>3. HistoryInv' /\ PointersToReported' /\ ControlInv'
    BY <1>3, <1>4, <1>6, <2>1 DEF HistoryInv, PointersToReported, Alive, ControlInv
  <2>4. WorldParts'
    BY <1>5, <2>2, <2>3 DEF WorldParts
  <2>5. WorldInv'
    BY <2>4, WorldInvParts, PTL
  <2> QED
    BY <1>3, <2>5
<1>8. ASSUME NEW markerObjs \in MatchPercepts(objects, ms, created), NEW created1,
             created1 = created + Len(markerObjs) - Len(objects),
             NEW allObjs \in MatchPercepts(markerObjs, ps, created1),
             objects' = allObjs,
             created' = created1 + Len(allObjs) - Len(markerObjs),
             {created1, created'} \subseteq 0 .. MaxObjects,
             movable_objects' = movable_objects \o [i \in 1 .. created1 - created |-> created + i],
             person_objects' = person_objects \o [i \in 1 .. created' - created1 |-> created1 + i],
             new_percepts' = TRUE
      PROVE  WorldInv'
  <2>1. created1 \in Nat /\ created1 <= MaxObjects /\ created' \in Nat /\ created' <= MaxObjects
    BY <1>8, WorldAssumption
  <2>2. \A o \in ObjectIds : o > created => last[o] = "none"
    BY <1>4 DEF HistoryInv
  <2>3. /\ VectorSound(markerObjs, created1, last)
        /\ Len(markerObjs) \in Nat /\ Len(objects) \in Nat /\ Len(markerObjs) >= Len(objects)
        /\ \A i \in 1 .. Len(objects) : markerObjs[i].oid = objects[i].oid
        /\ \A i \in Len(objects) + 1 .. Len(markerObjs) : markerObjs[i].oid = created + i - Len(objects)
    <3>1. MessageSound(ms)
      BY MarkerMessagesSound
    <3>2. created + Len(markerObjs) - Len(objects) <= MaxObjects
      BY <1>8, <2>1
    <3> QED
      BY <1>4, <1>8, <2>2, <3>1, <3>2, MatchPerceptsSound, SMTT(60)
  <2>4. created1 >= created /\ \A o \in ObjectIds : o > created1 => last[o] = "none"
    BY <1>4, <1>8, <2>1, <2>2, <2>3, WorldAssumption DEF ObjectIds
  <2>5. /\ VectorSound(allObjs, created', last)
        /\ Len(allObjs) \in Nat /\ Len(allObjs) >= Len(markerObjs)
        /\ \A i \in 1 .. Len(markerObjs) : allObjs[i].oid = markerObjs[i].oid
        /\ \A i \in Len(markerObjs) + 1 .. Len(allObjs) : allObjs[i].oid = created1 + i - Len(markerObjs)
    <3>1. MessageSound(ps)
      BY <1>4, PersonMessagesSound
    <3>2. created1 + Len(allObjs) - Len(markerObjs) <= MaxObjects
      BY <1>8, <2>1
    <3>3. /\ VectorSound(allObjs, created1 + Len(allObjs) - Len(markerObjs), last)
          /\ Len(allObjs) \in Nat /\ Len(allObjs) >= Len(markerObjs)
          /\ \A i \in 1 .. Len(markerObjs) : allObjs[i].oid = markerObjs[i].oid
          /\ \A i \in Len(markerObjs) + 1 .. Len(allObjs) : allObjs[i].oid = created1 + i - Len(markerObjs)
      BY <2>1, <2>3, <2>4, <3>1, <3>2, MatchPerceptsSound
    <3> QED
      BY <1>8, <3>3
  <2>6. VectorSound(objects, created, last)'
    BY <1>3, <1>8, <2>5 DEF VectorSound, Sound
  <2>7. ControlInv'
    BY <1>3, <1>4, <1>6, <1>8, <2>1 DEF ControlInv
  <2> DEFINE n == created'
  <2>8. n \in Nat /\ n >= created1 /\ created \in Nat
    BY <1>4, <1>8, <2>1, <2>3, <2>5
  <2>9. movable_objects \in Seq(1 .. created) /\ person_objects \in Seq(1 .. created)
    BY <1>4 DEF HistoryInv
  <2>10. /\ movable_objects' = movable_objects \o [i \in 1 .. created1 - created |-> created + i]
         /\ person_objects' = person_objects \o [i \in 1 .. n - created1 |-> created1 + i]
    BY <1>8
  <2> HIDE DEF n
  <2>11. /\ movable_objects' \in Seq(1 .. n) /\ person_objects' \in Seq(1 .. n)
         /\ ToSet(movable_objects') = ToSet(movable_objects) \cup created + 1 .. created1
         /\ ToSet(person_objects') = ToSet(person_objects) \cup created1 + 1 .. n
    <3>1. created <= n /\ created <= created1 /\ created1 <= n /\ n <= n
      BY <2>1, <2>4, <2>8
    <3> DEFINE mark == [i \in 1 .. created1 - created |-> created + i]
               pers == [i \in 1 .. n - created1 |-> created1 + i]
    <3>2. Following(created, created1, mark) /\ Following(created1, n, pers)
      BY <2>1, <2>8 DEF Following
    <3> HIDE DEF mark, pers
    <3>3. /\ movable_objects \o mark \in Seq(1 .. n)
          /\ ToSet(movable_objects \o mark) = ToSet(movable_objects) \cup created + 1 .. created1
      BY <2>1, <2>8, <2>9, <3>1, <3>2, PointersAppended
    <3>4. /\ person_objects \o pers \in Seq(1 .. n)
          /\ ToSet(person_objects \o pers) = ToSet(person_objects) \cup created1 + 1 .. n
      BY <2>1, <2>8, <2>9, <3>1, <3>2, PointersAppended
    <3> QED
      BY <2>10, <3>3, <3>4 DEF mark, pers
  <2>12. HistoryInv'
    <3>1. \A o \in ObjectIds : o > n => last[o] = "none"
      BY <2>1, <2>4, <2>8, WorldAssumption DEF ObjectIds
    <3> QED
      BY <1>3, <1>4, <2>11, <3>1 DEF HistoryInv, n
  <2>13. PointersToReported'
    <3> DEFINE L == Len(objects)
               M == Len(markerObjs)
               N == Len(allObjs)
               ptrs == ToSet(person_objects) \cup ToSet(movable_objects)
    <3>1. DOMAIN objects = 1 .. L /\ DOMAIN allObjs = 1 .. N
      BY <1>4, <2>5 DEF VectorSound
    <3>2. /\ L \in Nat /\ M \in Nat /\ N \in Nat /\ L <= M /\ M <= N
          /\ created1 = created + M - L /\ n = created1 + N - M
      BY <1>8, <2>3, <2>5 DEF n
    <3>3. /\ \A i \in 1 .. L : allObjs[i].oid = objects[i].oid
          /\ \A i \in L + 1 .. M : allObjs[i].oid = created + i - L
          /\ \A i \in M + 1 .. N : allObjs[i].oid = created1 + i - M
      <4>1. 1 .. L \subseteq 1 .. M /\ L + 1 .. M \subseteq 1 .. M
        BY <3>2
      <4>2. \A i \in 1 .. L : allObjs[i].oid = objects[i].oid
        BY <2>3, <2>5, <4>1
      <4>3. \A i \in L + 1 .. M : allObjs[i].oid = created + i - L
        BY <2>3, <2>5, <4>1
      <4> QED
        BY <2>5, <4>2, <4>3
    <3>4. Alive = {objects[i].oid : i \in 1 .. L} /\ Alive' = {allObjs[i].oid : i \in 1 .. N}
      BY <1>8, <3>1 DEF Alive
    <3>5. Alive \subseteq ptrs /\ \A o \in ptrs : last[o] # "none" => o \in Alive
      BY <1>4 DEF PointersToReported
    <3>6. ToSet(person_objects') \cup ToSet(movable_objects') = ptrs \cup created + 1 .. created1 \cup created1 + 1 .. n
      BY <2>11
    <3> HIDE DEF L, M, N, ptrs
    <3>7. Alive \subseteq Alive'
      BY <3>2, <3>3, <3>4
    <3>8. ASSUME NEW i \in 1 .. N
          PROVE  allObjs[i].oid \in ptrs \cup created + 1 .. created1 \cup created1 + 1 .. n
      <4>1. CASE i \in 1 .. L
        BY <3>3, <3>4, <3>5, <4>1
      <4>2. CASE i \in L + 1 .. M
        <5>1. created + i - L \in created + 1 .. created1
          BY <2>8, <3>2, <4>2
        <5> QED
          BY <3>3, <4>2, <5>1
      <4>3. CASE i \in M + 1 .. N
        <5>1. created1 + i - M \in created1 + 1 .. n
          BY <2>1, <3>2, <4>3
        <5> QED
          BY <3>3, <4>3, <5>1
      <4> QED
        BY <3>2, <4>1, <4>2, <4>3
    <3>9. \A o \in created + 1 .. created1 \cup created1 + 1 .. n : last[o] = "none"
      <4>1. \A o \in created + 1 .. created1 \cup created1 + 1 .. n : o \in ObjectIds /\ o > created
        BY <2>1, <2>4, <2>8, WorldAssumption DEF ObjectIds, n
      <4> QED
        BY <2>2, <4>1
    <3>10. Alive' \subseteq ToSet(person_objects') \cup ToSet(movable_objects')
      BY <3>4, <3>6, <3>8
    <3>11. \A o \in ToSet(person_objects') \cup ToSet(movable_objects') : last'[o] # "none" => o \in Alive'
      BY <1>3, <3>5, <3>6, <3>7, <3>9
    <3> QED
      BY <3>10, <3>11 DEF PointersToReported
  <2>14. WorldParts'
    BY <1>5, <2>6, <2>7, <2>12, <2>13 DEF WorldParts
  <2> QED
    BY <2>14, WorldInvParts, PTL
<1>9. CASE CanUsePercepts(s)
  <2>1. PICK markerObjs \in MatchPercepts(objects, ms, created) :
          LET created1 == created + Len(markerObjs) - Len(objects)
          IN  \E allObjs \in MatchPercepts(markerObjs, ps, created1) :
                /\ objects' = allObjs
                /\ created' = created1 + Len(allObjs) - Len(markerObjs)
                /\ {created1, created'} \subseteq 0 .. MaxObjects
                /\ movable_objects' = movable_objects \o [i \in 1 .. created1 - created |-> created + i]
                /\ person_objects' = person_objects \o [i \in 1 .. created' - created1 |-> created1 + i]
    BY <1>1, <1>9 DEF ProcessPercepts
  <2> DEFINE created1 == created + Len(markerObjs) - Len(objects)
  <2>2. new_percepts' = TRUE
    BY <1>1, <1>9 DEF ProcessPercepts
  <2>3. PICK allObjs \in MatchPercepts(markerObjs, ps, created1) :
                /\ objects' = allObjs
                /\ created' = created1 + Len(allObjs) - Len(markerObjs)
                /\ {created1, created'} \subseteq 0 .. MaxObjects
                /\ movable_objects' = movable_objects \o [i \in 1 .. created1 - created |-> created + i]
                /\ person_objects' = person_objects \o [i \in 1 .. created' - created1 |-> created1 + i]
    BY <2>1
  <2> HIDE DEF created1
  <2>4. created1 = created + Len(markerObjs) - Len(objects)
    BY DEF created1
  <2> QED
    BY <1>3, <1>8, <2>2, <2>3, <2>4
<1>10. CASE ~CanUsePercepts(s)
  BY <1>1, <1>3, <1>7, <1>10 DEF ProcessPercepts
<1> QED
  BY <1>9, <1>10

\* One step of the events: EventsAlternate without its box.
Alternates ==
  \A o \in ObjectIds : last'[o] # last[o] =>
    <<last[o], last'[o]>> \in {<<"none", "NewObject">>, <<"NewObject", "Disappear">>,
                               <<"Disappear", "Appear">>, <<"Appear", "Disappear">>}

LEMMA PointersInRange ==
  ASSUME NEW S, NEW ptrs \in Seq(S)
  PROVE  ToSet(ptrs) \subseteq S
<1>1. \A i \in DOMAIN ptrs : ptrs[i] \in S
  OBVIOUS
<1> QED
  BY <1>1 DEF ToSet

LEMMA TickObjectsInductive ==
  ASSUME WorldInv, TickObjects
  PROVE  WorldInv' /\ Alternates
<1>1. WorldParts
  BY WorldInvParts
<1>2. /\ ticking' = FALSE /\ drained' = 0 /\ new_percepts' = FALSE
      /\ UNCHANGED <<person_objects, movable_objects, created, is_paused, sources, nameOf, recalibrations>>
  BY DEF TickObjects
<1>3. VectorSound(objects, created, last) /\ HistoryInv /\ PointersToReported /\ ControlInv /\ CalibrationInv
  BY <1>1 DEF WorldParts
<1>4. CalibrationInv' /\ drained' \in 0 .. MaxMessages
  BY <1>2, <1>3, WorldAssumption DEF CalibrationInv
<1>5. CASE UNCHANGED <<objects, latest_events, last>>
  <2>1. VectorSound(objects, created, last)'
    BY <1>2, <1>3, <1>5 DEF VectorSound, Sound
  <2>2. HistoryInv' /\ PointersToReported' /\ ControlInv'
    BY <1>2, <1>3, <1>4, <1>5 DEF HistoryInv, PointersToReported, Alive, ControlInv
  <2>3. WorldParts'
    BY <1>4, <2>1, <2>2 DEF WorldParts
  <2>4. WorldInv'
    BY <2>3, WorldInvParts, PTL
  <2> QED
    BY <1>5, <2>4 DEF Alternates
<1>6. CASE new_percepts
  <2> DEFINE end == TickAll(objects)
             b == end.objs
             evs == end.evs
             Told(o) == \E k \in DOMAIN evs : evs[k].obj = o
  <2>1. /\ objects' = b /\ latest_events' = evs
        /\ last' = [o \in ObjectIds |-> IF Told(o) THEN (CHOOSE e \in ToSet(evs) : e.obj = o).type ELSE last[o]]
    BY <1>6 DEF TickObjects
  <2>2. Swept(objects, created, Len(objects), end)
    BY <1>3, TickAllSound
  <2>3. /\ b \in Seq(Object) /\ evs \in Seq(Event)
        /\ \A i \in DOMAIN b : Sound(b[i], created) /\ Reported(b[i], evs)
        /\ \A i, j \in DOMAIN b : i # j => Apart(b[i], b[j])
        /\ \A i \in DOMAIN b : \E j \in DOMAIN objects : objects[j].oid = b[i].oid
        /\ \A j \in DOMAIN objects : last[objects[j].oid] # "none" => \E i \in DOMAIN b : b[i].oid = objects[j].oid
        /\ \A i, j \in DOMAIN evs : i # j => evs[i].obj # evs[j].obj
    BY <2>2 DEF Swept
  <2>4. \A j \in DOMAIN evs :
          /\ \E i \in DOMAIN b : b[i].oid = evs[j].obj
          /\ <<last[evs[j].obj], evs[j].type>> \in Turns
    BY <2>2 DEF Swept
  <2> HIDE DEF end, b, evs
  <2>5. ASSUME NEW j \in DOMAIN evs
        PROVE  /\ evs[j].obj \in ObjectIds /\ evs[j].type \in {"NewObject", "Appear", "Disappear"}
               /\ last'[evs[j].obj] = evs[j].type
    <3> DEFINE e == evs[j]
               o == e.obj
    <3>1. e \in Event
      BY <2>3
    <3>2. o \in ObjectIds /\ e.type \in {"NewObject", "Appear", "Disappear"}
      BY <3>1 DEF Event
    <3>3. e \in ToSet(evs) /\ e.obj = o
      BY DEF ToSet
    <3>4. \A d \in ToSet(evs) : d.obj = o => d = e
      BY <2>3 DEF ToSet
    <3>5. (CHOOSE d \in ToSet(evs) : d.obj = o) = e
      BY <3>3, <3>4
    <3>6. Told(o)
      OBVIOUS
    <3> QED
      BY <2>1, <3>2, <3>5, <3>6
  <2>6. \A o \in ObjectIds : ~Told(o) => last'[o] = last[o]
    BY <2>1
  <2>7. last' \in [ObjectIds -> {"none", "NewObject", "Disappear", "Appear"}]
    <3>1. \A o \in ObjectIds : last[o] \in {"none", "NewObject", "Disappear", "Appear"}
      BY <1>3 DEF HistoryInv
    <3>2. \A o \in ObjectIds : last'[o] \in {"none", "NewObject", "Disappear", "Appear"}
      BY <2>5, <2>6, <3>1
    <3>3. last' = [o \in ObjectIds |-> last'[o]]
      BY <2>1
    <3> QED
      BY <3>2, <3>3
  <2>8. \A i \in DOMAIN b : b[i].oid \in ObjectIds /\ b[i].oid <= created
    BY <2>3, ObjectFields DEF Sound
  <2>9. Alternates
    <3>1. ASSUME NEW o \in ObjectIds, last'[o] # last[o]
          PROVE  <<last[o], last'[o]>> \in Turns
      <4>1. PICK j \in DOMAIN evs : evs[j].obj = o
        BY <2>6, <3>1
      <4> QED
        BY <2>4, <2>5, <4>1
    <3> QED
      BY <3>1 DEF Alternates, Turns
  <2>10. ASSUME NEW i \in DOMAIN b PROVE b[i].status = StatusOf(last'[b[i].oid])
    <3>1. Reported(b[i], evs)
      BY <2>3
    <3>2. CASE \E j \in DOMAIN evs : evs[j].obj = b[i].oid /\ b[i].status = StatusOf(evs[j].type)
      BY <2>5, <3>2
    <3>3. CASE (\A j \in DOMAIN evs : evs[j].obj # b[i].oid) /\ b[i].status = StatusOf(last[b[i].oid])
      BY <2>6, <2>8, <3>3
    <3> QED
      BY <3>1, <3>2, <3>3 DEF Reported
  <2>11. VectorSound(objects, created, last)'
    <3>1. VectorSound(b, created, last')
      BY <2>3, <2>10 DEF VectorSound
    <3> QED
      BY <1>2, <2>1, <3>1 DEF VectorSound, Sound
  <2>12. ControlInv'
    BY <1>2, <1>3, <1>4, <2>1, <2>3 DEF ControlInv
  <2>13. HistoryInv'
    <3>1. ASSUME NEW o \in ObjectIds, o > created PROVE last'[o] = "none"
      <4>1. ~Told(o)
        <5>1. SUFFICES ASSUME NEW j \in DOMAIN evs, evs[j].obj = o PROVE FALSE
          OBVIOUS
        <5>2. PICK i \in DOMAIN b : b[i].oid = o
          BY <2>4, <5>1
        <5>3. o \in Nat /\ created \in Nat /\ o <= created
          BY <1>3, <2>8, <5>2, WorldAssumption DEF ControlInv, ObjectIds
        <5> QED
          BY <3>1, <5>3
      <4> QED
        BY <1>3, <2>6, <3>1, <4>1 DEF HistoryInv
    <3> QED
      BY <1>2, <1>3, <2>7, <3>1 DEF HistoryInv
  <2>14. PointersToReported'
    <3> DEFINE ptrs == ToSet(person_objects) \cup ToSet(movable_objects)
    <3>1. Alive' = {b[i].oid : i \in DOMAIN b} /\ Alive = {objects[i].oid : i \in DOMAIN objects}
      BY <2>1 DEF Alive
    <3>2. Alive \subseteq ptrs /\ \A o \in ptrs : last[o] # "none" => o \in Alive
      BY <1>3 DEF PointersToReported
    <3>3. \A o \in ptrs : o \in ObjectIds
      <4>1. person_objects \in Seq(1 .. created) /\ movable_objects \in Seq(1 .. created)
        BY <1>3 DEF HistoryInv
      <4>2. ptrs \subseteq 1 .. created
        BY <4>1, PointersInRange
      <4>3. 1 .. created \subseteq ObjectIds
        BY <1>3, WorldAssumption DEF ObjectIds, ControlInv
      <4> QED
        BY <4>2, <4>3
    <3>4. Alive' \subseteq ptrs
      BY <2>3, <3>1, <3>2
    <3>5. ASSUME NEW o \in ptrs, last'[o] # "none" PROVE o \in Alive'
      <4>1. CASE Told(o)
        BY <2>4, <3>1, <4>1
      <4>2. CASE ~Told(o)
        <5>1. last[o] # "none"
          BY <2>6, <3>3, <3>5, <4>2
        <5> QED
          BY <2>3, <3>1, <3>2, <5>1
      <4> QED
        BY <4>1, <4>2
    <3> QED
      BY <1>2, <3>4, <3>5 DEF PointersToReported
  <2>15. WorldParts'
    BY <1>4, <2>11, <2>12, <2>13, <2>14 DEF WorldParts
  <2>16. WorldInv'
    BY <2>15, WorldInvParts, PTL
  <2> QED
    BY <2>9, <2>16
<1> QED
  BY <1>5, <1>6 DEF TickObjects

-----------------------------------------------------------------------------
(* The other steps                                                         *)

\* A step that leaves the objects, the pointers, the names and the history alone.
LEMMA ObjectsKept ==
  ASSUME WorldParts, UNCHANGED <<objectVars, nameOf, last>>, CalibrationInv', ControlInv'
  PROVE  WorldInv'
<1>1. UNCHANGED <<objects, person_objects, movable_objects, created>>
  BY DEF objectVars
<1>2. VectorSound(objects, created, last)'
  BY <1>1 DEF WorldParts, VectorSound, Sound
<1>3. HistoryInv' /\ PointersToReported'
  BY <1>1 DEF WorldParts, HistoryInv, PointersToReported, Alive
<1>4. WorldParts'
  BY <1>2, <1>3 DEF WorldParts
<1> QED
  BY <1>4, WorldInvParts, PTL

LEMMA TickBeginInductive ==
  ASSUME WorldInv, TickBegin
  PROVE  WorldInv' /\ last' = last
<1>1. WorldParts
  BY WorldInvParts
<1>2. ControlInv'
  <2>1. <<>> \in Seq(Event)
    OBVIOUS
  <2> QED
    BY <1>1, <2>1 DEF TickBegin, WorldParts, ControlInv, objectVars
<1>3. CalibrationInv'
  BY <1>1 DEF TickBegin, WorldParts, CalibrationInv
<1> QED
  BY <1>1, <1>2, <1>3, ObjectsKept DEF TickBegin

LEMMA PauseInductive ==
  ASSUME WorldInv, NEW p \in BOOLEAN, Pause(p)
  PROVE  WorldInv' /\ last' = last
<1>1. WorldParts
  BY WorldInvParts
<1>2. ControlInv'
  BY <1>1 DEF Pause, WorldParts, ControlInv, objectVars
<1>3. CalibrationInv'
  BY <1>1 DEF Pause, WorldParts, CalibrationInv
<1> QED
  BY <1>1, <1>2, <1>3, ObjectsKept DEF Pause

LEMMA RequestCalibrationInductive ==
  ASSUME WorldInv, RequestCalibration
  PROVE  WorldInv' /\ last' = last
<1>1. WorldParts
  BY WorldInvParts
<1>2. ControlInv'
  BY <1>1 DEF RequestCalibration, WorldParts, ControlInv, objectVars
<1>3. CalibrationInv'
  <2>1. recalibrations \in Nat /\ recalibrations' = recalibrations + 1
    BY <1>1 DEF RequestCalibration, WorldParts, CalibrationInv
  <2>2. /\ sources \in [Sources -> [samples_collected : 0 .. SAMPLES, divisions : Nat, calibrated : BOOLEAN]]
        /\ sources' = [s \in Sources |-> [sources[s] EXCEPT !.calibrated = FALSE]]
    BY <1>1 DEF RequestCalibration, WorldParts, CalibrationInv
  <2>3. /\ sources' \in [Sources -> [samples_collected : 0 .. SAMPLES, divisions : Nat, calibrated : BOOLEAN]]
        /\ \A s \in Sources : sources'[s].calibrated = FALSE
    BY <2>2
  <2> QED
    BY <2>1, <2>3 DEF CalibrationInv
<1> QED
  BY <1>1, <1>2, <1>3, ObjectsKept DEF RequestCalibration

LEMMA StutterInductive ==
  ASSUME WorldInv, UNCHANGED worldVars
  PROVE  WorldInv' /\ last' = last
<1>1. WorldParts
  BY WorldInvParts
<1>2. ControlInv'
  BY <1>1 DEF worldVars, objectVars, WorldParts, ControlInv
<1>3. CalibrationInv'
  BY <1>1 DEF worldVars, WorldParts, CalibrationInv
<1> QED
  BY <1>1, <1>2, <1>3, ObjectsKept DEF worldVars

LEMMA ClearInductive ==
  ASSUME WorldInv, Clear
  PROVE  WorldInv' /\ last' = last
<1>1. WorldParts
  BY WorldInvParts
<1>2. /\ objects' = <<>> /\ person_objects' = <<>> /\ movable_objects' = <<>> /\ latest_events' = <<>>
      /\ new_percepts' = FALSE
      /\ UNCHANGED <<drained, created, is_paused, sources, ticking, nameOf, last, recalibrations>>
  BY DEF Clear
<1>3. <<>> \in Seq(Object) /\ <<>> \in Seq(Event) /\ <<>> \in Seq(1 .. created) /\ DOMAIN <<>> = {}
  OBVIOUS
<1>4. VectorSound(objects, created, last)'
  BY <1>2, <1>3 DEF VectorSound
<1>5. ControlInv' /\ CalibrationInv' /\ HistoryInv'
  BY <1>1, <1>2, <1>3 DEF WorldParts, ControlInv, CalibrationInv, HistoryInv
<1>6. PointersToReported'
  BY <1>2, <1>3 DEF PointersToReported, Alive, ToSet
<1>7. WorldParts'
  BY <1>4, <1>5, <1>6 DEF WorldParts
<1>8. WorldInv'
  BY <1>7, WorldInvParts, PTL
<1> QED
  BY <1>2, <1>8

LEMMA IdentifyInductive ==
  ASSUME WorldInv, NEW i \in Ids, NEW n \in Names, Identify(i, n)
  PROVE  WorldInv' /\ last' = last
<1>1. WorldParts
  BY WorldInvParts
<1>2. /\ nameOf[i] = NoName /\ nameOf' = [nameOf EXCEPT ![i] = n]
      /\ UNCHANGED <<drained, objects, person_objects, movable_objects, created, latest_events, new_percepts,
                     is_paused, sources, ticking, last, recalibrations>>
  BY DEF Identify, objectVars
<1>3. nameOf \in [Ids -> Names \cup {NoName}]
  BY <1>1 DEF WorldParts, ControlInv
<1>4. \A k \in Ids : nameOf[k] # NoName => nameOf'[k] = nameOf[k]
  BY <1>2, <1>3
<1>5. VectorSound(objects, created, last)'
  BY <1>1, <1>2, <1>4 DEF WorldParts, VectorSound, Sound
<1>6. nameOf' \in [Ids -> Names \cup {NoName}]
  BY <1>2, <1>3
<1>7. ControlInv' /\ CalibrationInv' /\ HistoryInv' /\ PointersToReported'
  BY <1>1, <1>2, <1>6 DEF WorldParts, ControlInv, CalibrationInv, HistoryInv, PointersToReported, Alive
<1>8. WorldParts'
  BY <1>5, <1>7 DEF WorldParts
<1>9. WorldInv'
  BY <1>8, WorldInvParts, PTL
<1> QED
  BY <1>2, <1>9

LEMMA WorldInitial == WorldInit => WorldInv
<1>1. SUFFICES ASSUME WorldInit PROVE WorldParts
  BY WorldInvParts
<1>2. <<>> \in Seq(Object) /\ <<>> \in Seq(Event) /\ <<>> \in Seq(1 .. created) /\ DOMAIN <<>> = {}
  OBVIOUS
<1>3. VectorSound(objects, created, last)
  BY <1>1, <1>2 DEF VectorSound, WorldInit
<1>4. ControlInv
  <2>1. {new_percepts, is_paused, ticking} \subseteq BOOLEAN
    BY <1>1, Zenon DEF WorldInit
  <2>2. created \in 0 .. MaxObjects /\ drained \in 0 .. MaxMessages
    BY <1>1, WorldAssumption DEF WorldInit
  <2>3. latest_events \in Seq(Event) /\ nameOf \in [Ids -> Names \cup {NoName}]
    BY <1>1, <1>2 DEF WorldInit
  <2> QED
    BY <2>1, <2>2, <2>3 DEF ControlInv
<1>5. HistoryInv
  BY <1>1, <1>2 DEF HistoryInv, WorldInit
<1>6. CalibrationInv
  BY <1>1, WorldAssumption DEF CalibrationInv, WorldInit
<1>7. PointersToReported
  BY <1>1, <1>2 DEF PointersToReported, Alive, ToSet, WorldInit
<1> QED
  BY <1>3, <1>4, <1>5, <1>6, <1>7 DEF WorldParts

LEMMA WorldStep ==
  ASSUME WorldInv, [WorldNext]_worldVars
  PROVE  WorldInv' /\ Alternates
<1>1. CASE TickBegin
  BY <1>1, TickBeginInductive DEF Alternates
<1>2. CASE TickObjects
  BY <1>2, TickObjectsInductive
<1>3. CASE Clear
  BY <1>3, ClearInductive DEF Alternates
<1>4. CASE \E s \in Sources : Percepts(s)
  BY <1>4, PerceptsInductive DEF Alternates
<1>5. CASE \E p \in BOOLEAN : Pause(p)
  BY <1>5, PauseInductive DEF Alternates
<1>6. CASE RequestCalibration
  BY <1>6, RequestCalibrationInductive DEF Alternates
<1>7. CASE \E i \in Ids, n \in Names : Identify(i, n)
  BY <1>7, IdentifyInductive DEF Alternates
<1>8. CASE UNCHANGED worldVars
  BY <1>8, StutterInductive DEF Alternates
<1> QED
  BY <1>1, <1>2, <1>3, <1>4, <1>5, <1>6, <1>7, <1>8 DEF WorldNext

-----------------------------------------------------------------------------
(* The theorems                                                            *)

\* The objects, the pointers, the history and the cameras' calibration stay
\* consistent whatever the cameras deliver, however the tracker names and
\* renumbers persons, and whenever the world is cleared, paused or sent back
\* to calibration (WorldModel.cpp: tick, process_percepts, clear, pause).
THEOREM WorldInvariant == WorldSpec => []WorldInv
<1>1. WorldInit => WorldInv
  BY WorldInitial
<1>2. WorldInv /\ [WorldNext]_worldVars => WorldInv'
  BY WorldStep
<1> QED
  BY <1>1, <1>2, PTL DEF WorldSpec

\* What the executor's states read: one object per person, a status that
\* tells what has been reported, and pointers to every reported object.
THEOREM WorldIsSound == WorldSpec => []WorldSound
<1>1. WorldInv => WorldSound
  BY DEF WorldInv
<1> QED
  BY <1>1, WorldInvariant, PTL

\* No percept of a camera is used before all its samples are in
\* (SensorSources::calibrate), and the first matrix is their mean.
THEOREM CalibrationHolds == WorldSpec => []CalibratedOnSamples
<1>1. WorldInv => CalibratedOnSamples
  BY DEF WorldInv, CalibrationInv, CalibratedOnSamples
<1> QED
  BY <1>1, WorldInvariant, PTL

\* Each object is reported new once, then lost and found in turn, though the
\* loop of World::tick deletes from the vector that it walks.
THEOREM EventsInTurn == WorldSpec => EventsAlternate
<1>1. WorldInv /\ [WorldNext]_worldVars => [Alternates]_worldVars
  BY WorldStep
<1>2. WorldSpec => [][Alternates]_worldVars
  BY <1>1, WorldInvariant, PTL DEF WorldSpec
<1> QED
  BY <1>2 DEF EventsAlternate, Alternates
===============================================================================
