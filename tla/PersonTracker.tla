---------------------------- MODULE PersonTracker ----------------------------
(***************************************************************************)
(* The person tracker of src/perception/person/person_tracker.cpp: from a  *)
(* frame's skeletons it keeps a list of persons, each first a hypothesis   *)
(* and locked after enough sightings, gives names to the faces it knows    *)
(* and learns new faces on request.                                        *)
(*                                                                         *)
(* What the detectors see is nondeterministic: which tracked persons are   *)
(* matched with a skeleton (the greedy matching pairs each person and each *)
(* skeleton at most once), how many skeletons are left over, and what the  *)
(* face scan of a locked, unnamed person gives.  A face embedding is       *)
(* represented by the id of the tracked person it was taken from, 0 for    *)
(* the pictures in data/faces.                                             *)
(***************************************************************************)
EXTENDS Integers, Sequences, SequencesExt, FiniteSets

CONSTANTS
  Names,              \* names of persons
  NoName,             \* the empty string
  NoFace,             \* the face scan found no face
  Stored,             \* the names with pictures in data/faces
  LOSE_COUNTER, LOCK_COUNTER, SIGHTINGS_TO_LOCK,
  MaxId,              \* bound on the ids given out
  MaxKnown            \* bound on the number of known persons

ASSUME TrackerAssumption ==
  /\ Stored \subseteq Names /\ IsFiniteSet(Stored)
  /\ NoName \notin Names /\ NoFace \notin Names \cup {NoName}
  /\ {LOSE_COUNTER, LOCK_COUNTER, SIGHTINGS_TO_LOCK, MaxId, MaxKnown} \subseteq Nat \ {0}

VARIABLES
  persons,           \* the tracked persons, in the order of the vector
  known_persons,     \* names and embeddings
  next_id,
  learning_buffer,   \* the embeddings in the learning buffer
  learning_id,
  published          \* the percepts of the last frame, their names as they were then;
                     \* place: where in the vector the pointer to the name points

trackerVars == <<persons, known_persons, next_id, learning_buffer, learning_id, published>>

Ids == 1 .. MaxId
Person == [id : Ids, name : Names \cup {NoName}, should_delete : BOOLEAN, timeout_counter : Nat,
           sightings_counter : Nat, hypothesis : BOOLEAN]
Published == [id : Ids, name : Names \cup {NoName}, place : Nat \ {0}]

TrackerTypeOK ==
  /\ persons \in Seq(Person)
  /\ \A i \in DOMAIN persons :
       persons[i].timeout_counter \in 1 .. (IF persons[i].hypothesis THEN LOCK_COUNTER ELSE LOSE_COUNTER)
  /\ known_persons \in Seq([name : Names, faces : SUBSET (0 .. MaxId)])
  /\ next_id \in 1 .. MaxId + 1
  /\ learning_buffer \in SUBSET Ids
  /\ learning_id \in 0 .. MaxId
  /\ published \in Seq(Published)

\* load_known_persons, in the order of the directory, which is any order
TrackerInit ==
  /\ persons = <<>>
  /\ \E order \in SetToSeqs(Stored) :
       known_persons = [i \in 1 .. Cardinality(Stored) |-> [name |-> order[i], faces |-> {0}]]
  /\ next_id = 1
  /\ learning_buffer = {}
  /\ learning_id = 0
  /\ published = <<>>

-----------------------------------------------------------------------------
(* Requests                                                                *)

\* The loops that erase elements of a vector: what is left of seq are the
\* elements at the indices S, in their order.
Increasing(S) == {f \in SetToSeqs(S) : \A i, j \in DOMAIN f : i < j => f[i] < f[j]}
Kept(seq, S) == LET f == CHOOSE f \in Increasing(S) : TRUE IN [i \in 1 .. Cardinality(S) |-> seq[f[i]]]

\* Mutant: the learning buffer is not cleared.
StartLearnKeepsBuffer(id) ==
  /\ learning_id' = id
  /\ UNCHANGED <<persons, known_persons, next_id, learning_buffer, published>>

StartLearn(id) ==
  /\ learning_buffer' = {}
  /\ learning_id' = id
  /\ UNCHANGED <<persons, known_persons, next_id, published>>

\* The tracked person is marked, to be found again under its new name.  The
\* learning buffer keeps its content.
Learn(name) ==
  /\ persons' = [i \in DOMAIN persons |->
       [persons[i] EXCEPT !.should_delete = @ \/ persons[i].id = learning_id]]
  /\ known_persons' = Append(known_persons, [name |-> name, faces |-> learning_buffer])
  /\ learning_id' = 0
  /\ UNCHANGED <<next_id, learning_buffer, published>>

DeletePerson(name) ==
  /\ persons' = Kept(persons, {i \in DOMAIN persons : persons[i].name # name})
  /\ known_persons' = Kept(known_persons, {i \in DOMAIN known_persons : known_persons[i].name # name})
  /\ UNCHANGED <<next_id, learning_buffer, learning_id, published>>

-----------------------------------------------------------------------------
(* A frame: process calls update and tick                                  *)

\* identify_person: an entry without embeddings has the average 0/0, which
\* matches nothing.
Identifiable == {known_persons[i].name : i \in {j \in DOMAIN known_persons : known_persons[j].faces # {}}}

\* What face_scan_person may find on person p: it scans only unnamed ones,
\* and update calls it only for locked ones.
ScanResults(p) ==
  IF p.hypothesis \/ p.name # NoName THEN {NoFace} ELSE {NoFace, NoName} \cup Identifiable

\* update_person and face_scan_person
Updated(p, scan) ==
  [p EXCEPT !.sightings_counter = IF p.hypothesis THEN @ + 1 ELSE @,
            !.timeout_counter = IF p.hypothesis THEN @ ELSE LOSE_COUNTER,
            !.name = IF scan = NoFace THEN @ ELSE scan]

Hypothesis(i) ==
  [id |-> next_id + i - 1, name |-> NoName, should_delete |-> FALSE, timeout_counter |-> LOCK_COUNTER,
   sightings_counter |-> 0, hypothesis |-> TRUE]

\* update: the persons with an index in DOMAIN scan are matched, and unused
\* skeletons are left over.
AfterUpdate(scan, unused) ==
  [i \in DOMAIN persons |-> IF i \in DOMAIN scan THEN Updated(persons[i], scan[i]) ELSE persons[i]]
    \o [i \in 1 .. unused |-> Hypothesis(i)]

\* A face that nobody knows, of the person being learned.
FacesLearned(scan) ==
  {persons[i].id : i \in {j \in DOMAIN scan : scan[j] = NoName /\ persons[j].id = learning_id}}

Survives(p) == p.timeout_counter > 0 /\ ~p.should_delete

\* tick, for one person: lock it, count down
Ticked(p) ==
  LET locks == p.hypothesis /\ p.sightings_counter >= SIGHTINGS_TO_LOCK
      counter == IF locks THEN LOSE_COUNTER ELSE p.timeout_counter
  IN  [p EXCEPT !.hypothesis = @ /\ ~locks,
                !.timeout_counter = IF counter > 0 THEN counter - 1 ELSE 0]

\* Mutant: the names already published are not looked at.
PublishesAll(ps) == {i \in DOMAIN ps : ~ps[i].hypothesis}

\* Each name is published once, the empty one too.
Publishes(ps) ==
  {i \in DOMAIN ps : ~ps[i].hypothesis /\ \A j \in 1 .. i - 1 : ps[j].hypothesis \/ ps[j].name # ps[i].name}

\* Where in the vector tick finds the person it began with at i: those it has
\* erased before are gone.
Place(ps, i) == Cardinality({j \in 1 .. i - 1 : Survives(ps[j])}) + 1

Process(scan, unused) ==
  LET ticked == [i \in 1 .. Len(persons) + unused |-> Ticked(AfterUpdate(scan, unused)[i])]
      percepts == [i \in DOMAIN ticked |->
                     [id |-> ticked[i].id, name |-> ticked[i].name, place |-> Place(ticked, i)]]
  IN  /\ next_id' = next_id + unused
      /\ persons' = Kept(ticked, {i \in DOMAIN ticked : Survives(ticked[i])})
      /\ published' = Kept(percepts, Publishes(ticked))
      /\ learning_buffer' = learning_buffer \cup FacesLearned(scan)
      /\ UNCHANGED <<known_persons, learning_id>>

\* What the detectors may see in one frame.
Scans == UNION {{f \in [S -> Names \cup {NoName, NoFace}] : \A i \in S : f[i] \in ScanResults(persons[i])} :
                S \in SUBSET DOMAIN persons}
Unused == 0 .. MaxId + 1 - next_id

\* The tracker by itself, called by a single thread.
TrackerNext ==
  \/ \E id \in 0 .. MaxId : StartLearn(id)
  \/ \E name \in Names : Len(known_persons) < MaxKnown /\ Learn(name)
  \/ \E name \in Names : DeletePerson(name)
  \/ \E scan \in Scans, unused \in Unused : Process(scan, unused)

TrackerSpec == TrackerInit /\ [][TrackerNext]_trackerVars

-----------------------------------------------------------------------------
(* Properties                                                              *)

\* Two tracked persons never have the same id, so that start_learn and the
\* world model can refer to a person by it.
IdsUnique ==
  /\ \A i, j \in DOMAIN persons : i # j => persons[i].id # persons[j].id
  /\ \A i \in DOMAIN persons : persons[i].id < next_id

\* A name that a tracked person carries is the name of a known person: after
\* a delete the name is gone from both lists.
NamesAreKnown ==
  \A i \in DOMAIN persons :
    persons[i].name # NoName => \E k \in DOMAIN known_persons : known_persons[k].name = persons[i].name

\* The percepts of one frame carry each name at most once.
OnePerceptPerName ==
  \A i, j \in DOMAIN published : i # j => published[i].name # published[j].name

\* What a percept says identifies a person, whatever was requested and lost
\* between two frames: ids and names are unique, and names are known ones.
IdentitiesSound == TrackerTypeOK /\ IdsUnique /\ NamesAreKnown /\ OnePerceptPerName

\* The embeddings learned under one name were all taken from one tracked
\* person, whatever requests, frames and losses came between.
LearnedFromOnePerson ==
  \A k \in DOMAIN known_persons : Cardinality(known_persons[k].faces) <= 1

-----------------------------------------------------------------------------
(* The inductive invariant behind them.                                    *)

\* All embeddings in the learning buffer are of one person, the one being
\* learned or the one learned last.
BufferInv == \E p \in 0 .. MaxId : learning_buffer \subseteq {p} /\ learning_id \in {0, p}

\* So are those of each known person.
FacesInv == \A k \in DOMAIN known_persons : \E p \in 0 .. MaxId : known_persons[k].faces \subseteq {p}

TrackerInv == IdentitiesSound /\ BufferInv /\ FacesInv
=============================================================================
