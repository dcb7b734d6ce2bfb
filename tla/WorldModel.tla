------------------------------ MODULE WorldModel ------------------------------
(***************************************************************************)
(* The robot's model of the persons and objects around it                  *)
(* (include/reasoning/WorldModel.h, src/reasoning/WorldModel.cpp): percept *)
(* messages are matched with known objects or become hypotheses; an object *)
(* is Hypothetical until seen often enough, then Tracked, and Lost when it *)
(* has not been seen for a while; each change of status is an event that   *)
(* the epistemic reasoning consumes.  Percepts of a camera are used only   *)
(* after its position has been calibrated from a marker.                   *)
(*                                                                         *)
(* Positions are left out.  The camera matrix is represented by the number *)
(* of samples summed up in it and the number of divisions by SAMPLES.      *)
(* Triggers and transformers are functions of the executor's states and    *)
(* change nothing here.  The percepts of the object detector (matched by   *)
(* class) are left out: their names do not survive the copy into the       *)
(* message.                                                                *)
(***************************************************************************)
EXTENDS Integers, Sequences, SequencesExt, FiniteSets, FiniteSetsExt

CONSTANTS
  Ids, Names, NoName,   \* person ids and names, as the tracker gives them
  Markers,              \* ids of the movable markers
  Sources,              \* the cameras ...
  Active,               \* ... and those whose percepts are used
  SIGHTINGS_TO_LOCK, TIMEOUT_LOCK, TIMEOUT_LOSE,
  SAMPLES,              \* samples of one calibration (20 in the code)
  MaxObjects,           \* bound on the objects created
  MaxMessages,          \* bound on the messages of one tick (the queue's size in the code)
  MaxRecalibrations     \* bound on the calibrations thrown away

ASSUME WorldAssumption ==
  /\ NoName \notin Names
  /\ IsFiniteSet(Ids) /\ IsFiniteSet(Markers)
  /\ Active \subseteq Sources
  /\ {SIGHTINGS_TO_LOCK, TIMEOUT_LOCK, TIMEOUT_LOSE, SAMPLES} \subseteq Nat \ {0}
  /\ {MaxObjects, MaxMessages, MaxRecalibrations} \subseteq Nat

VARIABLES
  objects,          \* the objects, in the order of the vector
  person_objects, movable_objects,   \* pointers to objects, by type
  latest_events,
  new_percepts, is_paused,
  sources,
  ticking,          \* World::tick is draining the percept messages
  drained,          \* number of messages drained by this tick
  nameOf,           \* the name the tracker has given to each id
  \* History:
  created,          \* number of objects created
  last,             \* last[o]: the last event of object o
  recalibrations    \* number of requests that threw a calibration away

objectVars == <<objects, person_objects, movable_objects, created>>
worldVars == <<objectVars, latest_events, new_percepts, is_paused, sources, ticking, drained,
              nameOf, last, recalibrations>>

ObjectIds == 1 .. MaxObjects
Event == [type : {"NewObject", "Appear", "Disappear"}, obj : ObjectIds]

WorldTypeOK ==
  /\ \A i \in DOMAIN objects :
       /\ objects[i].oid \in 1 .. created
       /\ objects[i].type \in {"person", "movable"}
       /\ objects[i].status \in {"Hypothetical", "Tracked", "Lost"}
       /\ objects[i].timeout_counter \in 0 .. Max({TIMEOUT_LOCK, TIMEOUT_LOSE})
       /\ objects[i].sightings_counter \in Nat
       /\ ~objects[i].should_delete
  /\ latest_events \in Seq(Event)
  /\ {new_percepts, is_paused, ticking} \subseteq BOOLEAN
  /\ \A s \in Sources : sources[s].samples_collected \in 0 .. SAMPLES /\ sources[s].divisions \in Nat
  /\ created \in 0 .. MaxObjects
  /\ drained \in 0 .. MaxMessages

\* The constructor leaves new_percepts uninitialised.
WorldInit ==
  /\ objects = <<>>
  /\ person_objects = <<>>
  /\ movable_objects = <<>>
  /\ latest_events = <<>>
  /\ new_percepts \in BOOLEAN
  /\ is_paused = FALSE
  /\ sources = [s \in Sources |-> [samples_collected |-> 0, divisions |-> 0, calibrated |-> FALSE]]
  /\ ticking = FALSE
  /\ drained = 0
  /\ nameOf = [i \in Ids |-> NoName]
  /\ created = 0
  /\ last = [o \in ObjectIds |-> "none"]
  /\ recalibrations = 0

-----------------------------------------------------------------------------
(* Objects                                                                 *)

\* produce_sighting
Sighted(o) ==
  IF o.status = "Tracked" THEN [o EXCEPT !.timeout_counter = TIMEOUT_LOSE]
  ELSE [o EXCEPT !.timeout_counter = IF o.sightings_counter = 0 THEN TIMEOUT_LOCK ELSE @,
                 !.sightings_counter = @ + 1]

\* std::max(timeout_counter - 1, 0)
CountDown(t) == Max({t - 1, 0})

\* Mutant: a hypothesis does not time out.
ObjectTickKeepsHypotheses(o) ==
  LET found == o.sightings_counter >= SIGHTINGS_TO_LOCK
      over  == o.timeout_counter <= 0
      ticked ==
        CASE o.status # "Tracked" /\ found -> [o EXCEPT !.status = "Tracked", !.timeout_counter = TIMEOUT_LOSE]
          [] o.status = "Tracked" /\ over -> [o EXCEPT !.status = "Lost", !.sightings_counter = 0]
          [] o.status = "Lost" /\ ~found /\ over -> [o EXCEPT !.sightings_counter = 0]
          [] OTHER -> o
  IN  [ticked EXCEPT !.timeout_counter = CountDown(@)]

\* WorldObject::tick.  (Nothing sets the flag inconsistent.)
ObjectTick(o) ==
  LET found == o.sightings_counter >= SIGHTINGS_TO_LOCK
      over  == o.timeout_counter <= 0
      ticked ==
        CASE o.status # "Tracked" /\ found -> [o EXCEPT !.status = "Tracked", !.timeout_counter = TIMEOUT_LOSE]
          [] o.status = "Hypothetical" /\ ~found /\ over -> [o EXCEPT !.should_delete = TRUE]
          [] o.status = "Tracked" /\ over -> [o EXCEPT !.status = "Lost", !.sightings_counter = 0]
          [] o.status = "Lost" /\ ~found /\ over -> [o EXCEPT !.sightings_counter = 0]
          [] OTHER -> o
  IN  [ticked EXCEPT !.timeout_counter = CountDown(@)]

\* Mutant: an object that comes back is reported as a new one.
EventsOfNewAgain(o, p) ==
  CASE o.status # "Tracked" /\ p.status = "Tracked" -> <<[type |-> "NewObject", obj |-> o.oid]>>
    [] o.status = "Tracked" /\ p.status = "Lost" -> <<[type |-> "Disappear", obj |-> o.oid]>>
    [] OTHER -> <<>>

\* The event of a tick that turned object o into object p.
EventsOf(o, p) ==
  CASE o.status = "Hypothetical" /\ p.status = "Tracked" -> <<[type |-> "NewObject", obj |-> o.oid]>>
    [] o.status = "Lost" /\ p.status = "Tracked" -> <<[type |-> "Appear", obj |-> o.oid]>>
    [] o.status = "Tracked" /\ p.status = "Lost" -> <<[type |-> "Disappear", obj |-> o.oid]>>
    [] OTHER -> <<>>

-----------------------------------------------------------------------------
(* Percepts                                                                *)

\* Mutant: an unnamed percept is matched with unnamed objects only.
MatchByIdOnly(o, p) ==
  /\ o.type = p.type
  /\ \/ p.type = "movable" /\ o.id = p.id
     \/ p.type = "person" /\ p.name = NoName /\ o.name = NoName /\ o.id = p.id
     \/ p.type = "person" /\ p.name # NoName /\ o.name = p.name

\* PersonObj::match and MovableObj::match
Match(o, p) ==
  /\ o.type = p.type
  /\ \/ p.type = "movable" /\ o.id = p.id
     \/ p.type = "person" /\ p.name = NoName /\ o.id = p.id
     \/ p.type = "person" /\ o.name = p.name

\* run_update: a marker's update changes only its position.
RunUpdate(o, p) ==
  IF o.type = "person" THEN [Sighted(o) EXCEPT !.name = p.name, !.id = p.id] ELSE Sighted(o)

\* The constructors and run_update
NewObject(oid, p) ==
  Sighted([oid |-> oid, type |-> p.type, name |-> p.name, id |-> p.id, status |-> "Hypothetical",
           timeout_counter |-> 0, sightings_counter |-> 0, should_delete |-> FALSE])

\* The first loop of match_percepts: percept p updates the first object that
\* it matches, or is left over.
MatchOne(acc, p) ==
  LET hits == {i \in DOMAIN acc.objs : Match(acc.objs[i], p)}
  IN  IF hits = {} THEN [acc EXCEPT !.unused = @ \cup {p}]
      ELSE [acc EXCEPT !.objs[Min(hits)] = RunUpdate(@, p)]

MatchAll(objs, percepts) ==
  LET match[k \in 0 .. Len(percepts)] ==
        IF k = 0 THEN [objs |-> objs, unused |-> {}] ELSE MatchOne(match[k - 1], percepts[k])
  IN  match[Len(percepts)]

\* match_percepts and create_hypothesis, for percepts of one type: the unused
\* percepts become objects in the order of a hash set, which is any order.
MatchPercepts(objs, percepts, n) ==
  LET end == MatchAll(objs, percepts)
  IN  {end.objs \o [i \in DOMAIN order |-> NewObject(n + i, order[i])] : order \in SetToSeqs(end.unused)}

-----------------------------------------------------------------------------
(* Calibration                                                             *)

CanUsePercepts(s) == sources[s].calibrated /\ s \in Active

\* Mutant: one sample less is enough.
CalibratedHasty(src) ==
  IF src.samples_collected < SAMPLES - 1 THEN [src EXCEPT !.samples_collected = @ + 1]
  ELSE [src EXCEPT !.divisions = @ + 1, !.calibrated = TRUE]

\* SensorSources::calibrate
Calibrated(src) ==
  IF src.samples_collected < SAMPLES THEN [src EXCEPT !.samples_collected = @ + 1]
  ELSE [src EXCEPT !.divisions = @ + 1, !.calibrated = TRUE]

-----------------------------------------------------------------------------
(* World                                                                   *)

\* tick begins: the old events are cleared,
TickBegin ==
  /\ ~ticking /\ ~is_paused
  /\ ticking' = TRUE
  /\ latest_events' = <<>>
  /\ UNCHANGED <<objectVars, new_percepts, is_paused, sources, drained, nameOf, last, recalibrations>>

\* sub->tick calls process_percepts for every message in the queue.  calib:
\* the message shows the calibration marker, far enough away.
ProcessPercepts(s, markers, persons, calib) ==
  /\ ticking
  /\ drained < MaxMessages
  /\ drained' = drained + 1
  /\ \/ /\ CanUsePercepts(s)
        /\ \E markerObjs \in MatchPercepts(objects, markers, created) :
           LET created1 == created + Len(markerObjs) - Len(objects)
           IN  \E allObjs \in MatchPercepts(markerObjs, persons, created1) :
                 /\ objects' = allObjs
                 /\ created' = created1 + Len(allObjs) - Len(markerObjs)
                 /\ {created1, created'} \subseteq 0 .. MaxObjects
                 /\ movable_objects' = movable_objects \o [i \in 1 .. created1 - created |-> created + i]
                 /\ person_objects' = person_objects \o [i \in 1 .. created' - created1 |-> created1 + i]
        /\ new_percepts' = TRUE
     \/ /\ ~CanUsePercepts(s)
        /\ UNCHANGED <<objectVars, new_percepts>>
  /\ sources' = IF calib /\ ~sources[s].calibrated
                THEN [sources EXCEPT ![s] = Calibrated(@)] ELSE sources
  /\ UNCHANGED <<latest_events, is_paused, ticking, nameOf, last, recalibrations>>

\* One turn of the loop over the objects, at index i.  A deleted object is
\* replaced by the last one, which the loop then passes over.
LoopTurn(acc, i) ==
  IF i > Len(acc.objs) THEN acc
  ELSE LET o == ObjectTick(acc.objs[i])
           evs == acc.evs \o EventsOf(acc.objs[i], o)
       IN  IF o.should_delete
           THEN [objs |-> Front([acc.objs EXCEPT ![i] = Last(acc.objs)]), evs |-> evs]
           ELSE [objs |-> [acc.objs EXCEPT ![i] = o], evs |-> evs]

TickAll(objs) ==
  LET turn[n \in 0 .. Len(objs)] ==
        IF n = 0 THEN [objs |-> objs, evs |-> <<>>] ELSE LoopTurn(turn[n - 1], n)
  IN  turn[Len(objs)]

\* and the objects are ticked if there was something new.
TickObjects ==
  /\ ticking
  /\ ticking' = FALSE
  /\ drained' = 0
  /\ new_percepts' = FALSE
  /\ \/ /\ new_percepts
        /\ LET end == TickAll(objects)
           IN  /\ objects' = end.objs
               /\ latest_events' = end.evs
               /\ last' = [o \in ObjectIds |->
                    IF \E k \in DOMAIN end.evs : end.evs[k].obj = o
                    THEN (CHOOSE e \in ToSet(end.evs) : e.obj = o).type ELSE last[o]]
     \/ /\ ~new_percepts
        /\ UNCHANGED <<objects, latest_events, last>>
  /\ UNCHANGED <<person_objects, movable_objects, created, is_paused, sources, nameOf, recalibrations>>

\* clear
Clear ==
  /\ ~ticking
  /\ objects' = <<>> /\ person_objects' = <<>> /\ movable_objects' = <<>>
  /\ latest_events' = <<>>
  /\ new_percepts' = FALSE
  /\ UNCHANGED <<drained, created, is_paused, sources, ticking, nameOf, last, recalibrations>>

\* pause
Pause(p) ==
  /\ ~ticking
  /\ is_paused # p
  /\ is_paused' = p
  /\ UNCHANGED <<drained, objectVars, latest_events, new_percepts, sources, ticking, nameOf, last, recalibrations>>

\* Calibration::tick calls request_calibration of every source.
RequestCalibration ==
  /\ ~ticking
  /\ \E s \in Sources : sources[s].calibrated
  /\ recalibrations < MaxRecalibrations
  /\ recalibrations' = recalibrations + 1
  /\ sources' = [s \in Sources |-> [sources[s] EXCEPT !.calibrated = FALSE]]
  /\ UNCHANGED <<drained, objectVars, latest_events, new_percepts, is_paused, ticking, nameOf, last>>

\* The tracker identifies a person; it never takes a name back.
Identify(i, name) ==
  /\ nameOf[i] = NoName
  /\ nameOf' = [nameOf EXCEPT ![i] = name]
  /\ UNCHANGED <<drained, objectVars, latest_events, new_percepts, is_paused, sources, ticking, last, recalibrations>>

-----------------------------------------------------------------------------
\* The percepts of one frame, in the order of the tracker's vector: no two of
\* the same name, as PersonTracker's OnePerceptPerName says, no marker twice.
PersonPercept(i) == [type |-> "person", name |-> nameOf[i], id |-> i]
MarkerPercept(m) == [type |-> "movable", name |-> NoName, id |-> m]
PersonMessages ==
  {[k \in DOMAIN f |-> PersonPercept(f[k])] :
     f \in UNION {{g \in SetToSeqs(S) : \A j, k \in DOMAIN g : j < k => g[j] < g[k] /\ nameOf[g[j]] # nameOf[g[k]]} :
                  S \in SUBSET Ids}}
MarkerMessages ==
  {[k \in DOMAIN f |-> MarkerPercept(f[k])] : f \in UNION {SetToSeqs(S) : S \in SUBSET Markers}}

Percepts(s) ==
  \E ms \in MarkerMessages, ps \in PersonMessages, calib \in BOOLEAN : ProcessPercepts(s, ms, ps, calib)

WorldNext ==
  \/ TickBegin \/ TickObjects \/ Clear
  \/ \E s \in Sources : Percepts(s)
  \/ \E p \in BOOLEAN : Pause(p)
  \/ RequestCalibration
  \/ \E i \in Ids, n \in Names : Identify(i, n)

WorldSpec == WorldInit /\ [][WorldNext]_worldVars

\* TickObjects is the only step that ends a tick.
TickEnds == ticking /\ ticking' = FALSE

\* Between two ticks of the executor's state, which is what pauses and resumes
\* the world, the robot ticks the world once: no sequence of pauses keeps
\* tick from running.  A tick and a pause end, and the cameras deliver frames.
WorldFairSpec ==
  /\ WorldSpec
  /\ SF_worldVars(TickBegin) /\ WF_ticking(TickEnds) /\ WF_worldVars(Pause(FALSE))
  /\ \A s \in Sources : SF_worldVars(CanUsePercepts(s) /\ Percepts(s))

-----------------------------------------------------------------------------
(* Properties                                                              *)

\* There is never more than one person object with the same name, nor more
\* than one unnamed one, although the tracker renames, loses and renumbers
\* persons: which of several would be updated or talked about is never left
\* to the order of the vector.
UniquePersons ==
  \A i, j \in DOMAIN objects :
    i # j /\ objects[i].type = "person" /\ objects[j].type = "person" => objects[i].name # objects[j].name

\* The events of one object come in the order that the epistemic reasoning
\* relies on: NewObject once, then Disappear and Appear in turn.
EventsAlternate ==
  [][ \A o \in ObjectIds : last'[o] # last[o] =>
        <<last[o], last'[o]>> \in {<<"none", "NewObject">>, <<"NewObject", "Disappear">>,
                                   <<"Disappear", "Appear">>, <<"Appear", "Disappear">>} ]_worldVars

\* What an object's status says is what its last event said.
StatusMatchesEvents ==
  \A i \in DOMAIN objects :
    objects[i].status = (CASE last[objects[i].oid] = "none" -> "Hypothetical"
                           [] last[objects[i].oid] = "Disappear" -> "Lost"
                           [] OTHER -> "Tracked")

Alive == {objects[i].oid : i \in DOMAIN objects}

\* person_objects and movable_objects point to every object, and the only
\* pointers in them that dangle are those to hypotheses never reported: an
\* object with an event stays in memory until clear.
PointersToReported ==
  /\ Alive \subseteq ToSet(person_objects) \cup ToSet(movable_objects)
  /\ \A o \in ToSet(person_objects) \cup ToSet(movable_objects) : last[o] # "none" => o \in Alive

\* What the states of the executor read of the world between two ticks: one
\* object per person, a status that tells what has been reported, and
\* pointers to every reported object.
WorldSound == WorldTypeOK /\ UniquePersons /\ StatusMatchesEvents /\ PointersToReported

\* No percept of a camera is used before all its samples are in, and the
\* matrix of a camera whose calibration was never requested again is the
\* mean of its samples.
CalibratedOnSamples ==
  \A s \in Sources : sources[s].calibrated =>
    /\ sources[s].samples_collected = SAMPLES
    /\ recalibrations = 0 => sources[s].divisions = 1

\* Every hypothesis is confirmed or dropped in the end, unless all cameras
\* are sent back to calibration.
HypothesesResolve ==
  \A o \in ObjectIds :
    (\E i \in DOMAIN objects : objects[i].oid = o) ~>
      (o \notin Alive \/ last[o] # "none" \/ \A s \in Sources : ~CanUsePercepts(s))

-----------------------------------------------------------------------------
(* The inductive invariant behind them.                                    *)

\* The objects are distinct, and a named person carries the name that the
\* tracker has given to its id: an unnamed percept matches no named person.
ObjectsInv ==
  /\ objects \in Seq([oid : ObjectIds, type : {"person", "movable"}, name : Names \cup {NoName}, id : Ids \cup Markers,
                     status : {"Hypothetical", "Tracked", "Lost"}, timeout_counter : Nat,
                     sightings_counter : Nat, should_delete : BOOLEAN])
  /\ \A i, j \in DOMAIN objects : i # j => objects[i].oid # objects[j].oid
  /\ \A i \in DOMAIN objects : objects[i].type = "person" /\ objects[i].name # NoName =>
       objects[i].id \in Ids /\ nameOf[objects[i].id] = objects[i].name
  /\ nameOf \in [Ids -> Names \cup {NoName}]

\* No object has an event before it is created.
HistoryInv ==
  /\ last \in [ObjectIds -> {"none", "NewObject", "Disappear", "Appear"}]
  /\ \A o \in ObjectIds : o > created => last[o] = "none"
  /\ person_objects \in Seq(1 .. created) /\ movable_objects \in Seq(1 .. created)

\* A camera counts its samples, then divides once per calibration.
CalibrationInv ==
  /\ sources \in [Sources -> [samples_collected : 0 .. SAMPLES, divisions : Nat, calibrated : BOOLEAN]]
  /\ recalibrations \in Nat
  /\ \A s \in Sources :
       /\ sources[s].calibrated => sources[s].samples_collected = SAMPLES
       /\ recalibrations = 0 => sources[s].divisions = IF sources[s].calibrated THEN 1 ELSE 0

WorldInv == WorldSound /\ ObjectsInv /\ HistoryInv /\ CalibrationInv
=============================================================================
