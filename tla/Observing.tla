------------------------------- MODULE Observing -------------------------------
(***************************************************************************)
(* The false belief task: the executor's Observing state                   *)
(* (src/executor/states/Observing.cpp) and the epistemic reasoning that it *)
(* drives (include/reasoning/EpistemicReasoning.h, src/reasoning/          *)
(* EpistemicReasoning.cpp).  World events say that storable things (cubes  *)
(* and detected objects), boxes and named persons appear and disappear; a  *)
(* thing that disappears inside a box is in that box.  Persons who are     *)
(* away miss what happens, and when one of them reaches for the wrong box, *)
(* asks for a cube or holds a matching object, the robot tells where the   *)
(* thing is.                                                               *)
(*                                                                         *)
(* The library behind del::domain is external: a step is observed by the   *)
(* agents that attend to its proposition, and changes the beliefs of no    *)
(* other; a bottom-up step changes attention only.  The code makes an      *)
(* agent attend to all propositions when it appears and to none when it    *)
(* disappears, so attention is the set present.  Beliefs about beliefs are *)
(* left out.  Where the code takes the first answer of a query, in the     *)
(* order in which the objects were first seen, the model takes any answer. *)
(* Positions, wording, the views that are published and the movements are  *)
(* left out (the movements are in Executor).                               *)
(***************************************************************************)
EXTENDS Integers, Sequences, SequencesExt, FiniteSets, FiniteSetsExt

CONSTANTS
  Cubes,        \* markers 1 to 4
  Things,       \* detected objects, such as a knife and an apple
  Matching,     \* Matching[t]: the thing used with t (affordance_map), or None
  Boxes,        \* markers above 1000
  People,       \* names
  None,
  MaxEvents,    \* bound on the events of one tick of the world
  MaxSessions   \* bound on how often the state is entered

Storables == Cubes \cup Things
Objects == Storables \cup Boxes \cup People
In == Storables \X Boxes         \* the propositions in(storable,box)

ASSUME ObservingAssumption ==
  /\ Cubes \cap Things = {} /\ Storables \cap Boxes = {} /\ People \cap (Storables \cup Boxes) = {}
  /\ None \notin Objects
  /\ Matching \in [Things -> Storables \cup {None}]
  /\ {MaxEvents, MaxSessions} \subseteq Nat

VARIABLES
  active,             \* the executor is in this state
  status,             \* the world's status of each object; a hypothesis is "unseen"
  events,             \* events of this tick not yet given to the transformers
  known,              \* objects added to the epistemic reasoning
  present,            \* agents with Agent::State Present
  facts,              \* the propositions that hold, which is what the robot believes
  beliefs,            \* beliefs[p]: the propositions that p believes
  current_container,  \* a function from some storables to boxes
  sequence,           \* current_sequence, with what it tells to whom
  crashed,            \* why the process ended, or "no"
  \* History:
  placed,             \* placed[s]: boxes s was seen to vanish in, since the domain was set up
  muddled,            \* storables seen to vanish in several boxes, or with an entry left over
  missed,             \* agents who were away at some time since the domain was set up
  sessions

observingVars == <<active, status, events, known, present, facts, beliefs, current_container, sequence,
                   crashed, placed, muddled, missed, sessions>>
domainVars == <<facts, beliefs>>
observingGhosts == <<placed, muddled, missed, sessions>>

Nowhere == [s \in Storables |-> {}]

ObservingInit ==
  /\ active = FALSE
  /\ status = [o \in Objects |-> "unseen"]
  /\ events = <<>>
  /\ known = {} /\ present = {}
  /\ facts = {} /\ beliefs = [p \in People |-> {}]
  /\ current_container = <<>>
  /\ sequence = None
  /\ crashed = "no"
  /\ placed = Nowhere /\ muddled = {} /\ missed = {}
  /\ sessions = 0

-----------------------------------------------------------------------------
(* EpistemicReasoning                                                      *)

\* Mutant: the domain is kept and only extended.
SetupDomainExtends ==
  /\ UNCHANGED <<facts, beliefs>>
  /\ placed' = Nowhere
  /\ muddled' = {}
  /\ missed' = (known' \cap People) \ present'

\* setup_domain: all propositions are false in the new domain, and everyone
\* present attends to all of them.
SetupDomain ==
  /\ facts' = {}
  /\ beliefs' = [p \in People |-> {}]
  /\ placed' = Nowhere
  /\ muddled' = {}
  /\ missed' = (known' \cap People) \ present'

\* reset
Reset == known' = {} /\ present' = {} /\ SetupDomain

\* add_object: a person who is added is present.
AddObject(o) ==
  /\ known' = known \cup {o}
  /\ present' = present \cup ({o} \cap People)
  /\ SetupDomain

\* get_proposition_id finds in(s,b) if both have been added.
HasProposition(s, b) == {s, b} \subseteq known

\* del::domain: the propositions of add become true, those of del false, and
\* everyone present observes it.
PerformDo(add, del) ==
  /\ facts' = (facts \ del) \cup add
  /\ beliefs' = [p \in People |-> IF p \in present THEN (beliefs[p] \ del) \cup add ELSE beliefs[p]]

\* The boxes or storables that a query for in(s,x) or in(x,b) answers.
PlaceOf(s) == {b \in Boxes : <<s, b>> \in facts}
WrongBoxes(p, s) == {b \in Boxes : <<s, b>> \in beliefs[p] \ facts}
WronglyIn(p, b) == {s \in Storables : <<s, b>> \in beliefs[p] \ facts}

-----------------------------------------------------------------------------
(* The executor enters and leaves the state.                               *)

\* World::clear
ClearWorld ==
  /\ status' = [o \in Objects |-> "unseen"]
  /\ events' = <<>>

Quiet == active /\ crashed = "no" /\ events = <<>>

\* enter: epistemic.reset; current_container is not cleared.
Enter ==
  /\ ~active /\ crashed = "no"
  /\ sessions < MaxSessions
  /\ sessions' = sessions + 1
  /\ active' = TRUE
  /\ Reset
  /\ ClearWorld
  /\ sequence' = None
  /\ UNCHANGED <<current_container, crashed>>

\* leave
Leave ==
  /\ Quiet
  /\ active' = FALSE
  /\ ClearWorld
  /\ UNCHANGED <<known, present, domainVars, current_container, sequence, crashed, observingGhosts>>

-----------------------------------------------------------------------------
(* World events                                                            *)

EventOf(o) ==
  CASE status[o] = "unseen" -> "NewObject"
    [] status[o] = "Tracked" -> "Disappear"
    [] OTHER -> "Appear"

\* World::tick changes the status of all objects before the first transformer
\* is called.  A box that disappears or appears again changes nothing.
WorldTick(order) ==
  /\ Quiet
  /\ \A i \in DOMAIN order : order[i] \in Boxes => status[order[i]] = "unseen"
  /\ status' = [o \in Objects |->
       IF o \notin ToSet(order) THEN status[o] ELSE IF EventOf(o) = "Disappear" THEN "Lost" ELSE "Tracked"]
  /\ events' = [i \in DOMAIN order |-> [type |-> EventOf(order[i]), obj |-> order[i]]]
  /\ UNCHANGED <<active, known, present, domainVars, current_container, sequence, crashed, observingGhosts>>

\* The next event is e.
Transform(type, o) ==
  /\ active /\ crashed = "no"
  /\ events # <<>>
  /\ Head(events) = [type |-> type, obj |-> o]
  /\ events' = Tail(events)
  /\ UNCHANGED <<active, status, sequence, sessions>>

\* object_new_transformer: add_object and, for a person, agent_appear.
ObjectNew(o) ==
  /\ Transform("NewObject", o)
  /\ AddObject(o)
  /\ UNCHANGED <<current_container, crashed>>

\* agent_appear and agent_disappear find only agents that have been added.
PersonAppears(p) ==
  /\ Transform("Appear", p)
  /\ IF p \in known THEN present' = present \cup {p} /\ UNCHANGED crashed
                    ELSE crashed' = "agent" /\ UNCHANGED present
  /\ UNCHANGED <<known, domainVars, current_container, placed, muddled, missed>>

PersonDisappears(p) ==
  /\ Transform("Disappear", p)
  /\ IF p \in known THEN present' = present \ {p} /\ missed' = missed \cup {p} /\ UNCHANGED crashed
                    ELSE crashed' = "agent" /\ UNCHANGED <<present, missed>>
  /\ UNCHANGED <<known, domainVars, current_container, placed, muddled>>

Without(f, s) == [x \in DOMAIN f \ {s} |-> f[x]]

\* object_appear_transformer: it is taken out of the box it was put in.
StorableAppears(s) ==
  /\ Transform("Appear", s)
  /\ placed' = [placed EXCEPT ![s] = {}]
  /\ \/ /\ s \notin DOMAIN current_container
        /\ UNCHANGED <<domainVars, current_container, crashed>>
     \/ /\ s \in DOMAIN current_container
        /\ HasProposition(s, current_container[s])
        /\ PerformDo({}, {<<s, current_container[s]>>})
        /\ current_container' = Without(current_container, s)
        /\ UNCHANGED crashed
     \/ /\ s \in DOMAIN current_container
        /\ ~HasProposition(s, current_container[s])
        /\ crashed' = "take"
        /\ UNCHANGED <<domainVars, current_container>>
  /\ UNCHANGED <<known, present, muddled, missed>>

\* Mutant: hypothetical boxes count as well.
StorableDisappearsAnywhere(s, bs) ==
  /\ Transform("Disappear", s)
  /\ placed' = [placed EXCEPT ![s] = bs]
  /\ UNCHANGED muddled
  /\ IF \A b \in bs : HasProposition(s, b) THEN PerformDo({s} \X bs, {}) /\ UNCHANGED crashed
     ELSE crashed' = "put" /\ UNCHANGED domainVars
  /\ UNCHANGED <<known, present, missed, current_container>>

\* object_disappear_transformer, for a thing that was last seen inside the
\* boxes of bs.  A box whose own event comes later in the tick has no
\* proposition yet.  insert keeps an entry that is there.
StorableDisappears(s, bs) ==
  /\ Transform("Disappear", s)
  /\ \A b \in bs : status[b] # "unseen"
  /\ placed' = [placed EXCEPT ![s] = bs]
  /\ muddled' = IF bs # {} /\ (s \in DOMAIN current_container \/ \E b, c \in bs : b # c)
                THEN muddled \cup {s} ELSE muddled
  /\ \/ /\ \E b \in bs : ~HasProposition(s, b)
        /\ crashed' = "put"
        /\ UNCHANGED <<domainVars, current_container>>
     \/ /\ \A b \in bs : HasProposition(s, b)
        /\ PerformDo({s} \X bs, {})
        /\ IF bs = {} \/ s \in DOMAIN current_container THEN UNCHANGED current_container
           ELSE \E b \in bs : current_container' =
                  [x \in DOMAIN current_container \cup {s} |-> IF x = s THEN b ELSE current_container[x]]
        /\ UNCHANGED crashed
  /\ UNCHANGED <<known, present, missed>>

-----------------------------------------------------------------------------
(* The robot informs a person.                                             *)

\* Mutant: the boxes are exchanged.
InformSwapped(p, s, b, x) ==
  /\ sequence' = [by |-> "do", agent |-> p, obj |-> s, box |-> x]
  /\ PerformDo({<<s, b>>}, {<<s, x>>})
  /\ UNCHANGED <<active, status, events, known, present, current_container, crashed, observingGhosts>>

\* Mutant: the false belief is not taken back.
InformPutsOnly(p, s, b, x) ==
  /\ sequence' = [by |-> "do", agent |-> p, obj |-> s, box |-> x]
  /\ PerformDo({<<s, x>>}, {})
  /\ UNCHANGED <<active, status, events, known, present, current_container, crashed, observingGhosts>>

\* The end of inform_about_false_belief_box and _cube: s, which p believes to
\* be in box b, is in box x.
Inform(p, s, b, x) ==
  /\ sequence' = [by |-> "do", agent |-> p, obj |-> s, box |-> x]
  /\ PerformDo({<<s, x>>}, {<<s, b>>})
  /\ UNCHANGED <<active, status, events, known, present, current_container, crashed, observingGhosts>>

\* inform_about_false_belief_box
InformAboutBox(p, b) == \E s \in WronglyIn(p, b) : \E x \in PlaceOf(s) : Inform(p, s, b, x)

\* intention_trigger: a hand of person p is in box b.
IntentionTrigger(p, b) ==
  /\ Quiet
  /\ status[p] = "Tracked" /\ status[b] # "unseen"
  /\ InformAboutBox(p, b)

\* inform_about_false_belief_cube
InformAboutCube(p, s) == \E b \in WrongBoxes(p, s), x \in PlaceOf(s) : Inform(p, s, b, x)

\* "i have come for the ..." is heard while p is the last tracked person.
GoalStatementTrigger(p, s) ==
  /\ Quiet
  /\ status[p] = "Tracked"
  /\ InformAboutCube(p, s)

\* inform_about_false_belief_object: the first answer is read before it is
\* known that there is one.  What p believes after the conscious attention
\* shift is up to the library.
InformAboutObject(p, s) ==
  \E b \in WrongBoxes(p, s) :
    \/ /\ PlaceOf(s) = {}
       /\ crashed' = "read"
       /\ UNCHANGED <<sequence, beliefs>>
    \/ \E x \in PlaceOf(s) :
         /\ sequence' = [by |-> "attention", agent |-> p, obj |-> s, box |-> x]
         /\ beliefs' \in {beliefs, [beliefs EXCEPT ![p] = (@ \ {<<s, b>>}) \cup {<<s, x>>}]}
         /\ UNCHANGED crashed

\* intention_trigger_complementary: p holds the thing t.
IntentionTriggerComplementary(p, t) ==
  /\ Quiet
  /\ status[p] = "Tracked" /\ status[t] # "unseen"
  /\ Matching[t] # None
  /\ InformAboutObject(p, Matching[t])
  /\ UNCHANGED <<active, status, events, known, present, facts, current_container, observingGhosts>>

\* tick: the sequence ends (ShowBoxSequence).
SequenceDone ==
  /\ Quiet
  /\ sequence # None
  /\ sequence' = None
  /\ UNCHANGED <<active, status, events, known, present, domainVars, current_container, crashed, observingGhosts>>

Orders == UNION {SetToSeqs(os) : os \in {os \in SUBSET Objects : Cardinality(os) \in 1 .. MaxEvents}}

ObservingNext ==
  \/ Enter \/ Leave \/ SequenceDone
  \/ \E order \in Orders : WorldTick(order)
  \/ \E o \in Objects : ObjectNew(o)
  \/ \E p \in People : PersonAppears(p) \/ PersonDisappears(p)
  \/ \E s \in Storables : StorableAppears(s) \/ \E bs \in SUBSET Boxes : StorableDisappears(s, bs)
  \/ \E p \in People, b \in Boxes : IntentionTrigger(p, b)
  \/ \E p \in People, s \in Cubes : GoalStatementTrigger(p, s)
  \/ \E p \in People, t \in Things : IntentionTriggerComplementary(p, t)

ObservingSpec == ObservingInit /\ [][ObservingNext]_observingVars

-----------------------------------------------------------------------------
(* Properties                                                              *)

\* The robot's own picture is right: between two ticks, what it believes about
\* a thing is where the thing was last seen to vanish, if that was in one box
\* since the domain was set up, and that it is in no box if the thing is in
\* sight.  Telling a person something never changes it.
RobotKnowsPlace ==
  Quiet => \A s \in Storables \ muddled : PlaceOf(s) = placed[s]

\* A person who has been there since the domain was set up believes what the
\* robot believes: only an absence makes a false belief, and nobody who has
\* seen everything is told about one.  A tracked person is an agent that is present.
PresentAgentsKnow ==
  Quiet => /\ present = {p \in People : status[p] = "Tracked"}
           /\ \A p \in present \ missed : beliefs[p] = facts

FalseBeliefs(p) == beliefs[p] \ facts

\* When the robot starts to tell a person about a cube, it shows a box the
\* cube was seen to vanish in.  After a hand in a box or a question it has
\* removed a false belief of the person, so that the same trigger does not
\* start the sequence again with the next tick, and added none to anybody.
InformingHelps ==
  [][ sequence' # sequence /\ sequence' # None /\ crashed' = "no" =>
        /\ sequence'.obj \notin muddled => sequence'.box \in placed[sequence'.obj]
        /\ \A p \in People :
             /\ FalseBeliefs(p)' \subseteq FalseBeliefs(p)
             /\ p = sequence'.agent /\ sequence'.by = "do" => FalseBeliefs(p)' # FalseBeliefs(p) ]_observingVars

\* The process dies of a missing name or answer in three situations only: a
\* thing vanishes in a box whose own event is still to come, an entry of an
\* earlier session names a box that has not been seen in this one, or a
\* person holds a thing whose match the robot knows to be in no box.
FailsOnlyWhen ==
  CASE crashed = "no" -> TRUE
    [] crashed = "put" -> \E i \in DOMAIN events : events[i].type = "NewObject" /\ events[i].obj \in Boxes
    [] crashed = "take" -> sessions > 1
    [] crashed = "read" -> \E p \in present, s \in Storables : WrongBoxes(p, s) # {} /\ placed[s] = {}
    [] OTHER -> FALSE

-----------------------------------------------------------------------------
(* The inductive invariants behind these properties.                       *)

EventTypes == {"NewObject", "Appear", "Disappear"}
Event == [type : EventTypes, obj : Objects]
Telling == [by : {"do", "attention"}, agent : People, obj : Storables, box : Boxes]

ObservingTypeOK ==
  /\ active \in BOOLEAN
  /\ status \in [Objects -> {"unseen", "Tracked", "Lost"}]
  /\ events \in Seq(Event)
  /\ known \subseteq Objects /\ present \subseteq People
  /\ facts \subseteq In /\ beliefs \in [People -> SUBSET In]
  /\ DOMAIN current_container \subseteq Storables
  /\ current_container \in [DOMAIN current_container -> Boxes]
  /\ sequence \in Telling \cup {None}
  /\ crashed \in {"no", "put", "take", "read", "agent"}
  /\ placed \in [Storables -> SUBSET Boxes] /\ muddled \subseteq Storables /\ missed \subseteq People
  /\ sessions \in Nat

Working == active /\ crashed = "no"

\* An event of this type, or any event, of object o waits to be transformed.
PendingAs(type, o) == \E i \in DOMAIN events : events[i] = [type |-> type, obj |-> o]
Pending(o) == \E i \in DOMAIN events : events[i].obj = o

\* As far as the events that have been transformed tell, o is in sight.
Visible(o) == PendingAs("Disappear", o) \/ (status[o] = "Tracked" /\ ~Pending(o))

\* The status of an object is what its event will have told, no object has two
\* events in one tick, and the objects known are those whose first event has
\* been transformed.
EventsInv ==
  /\ \A i, j \in DOMAIN events : events[i].obj = events[j].obj => i = j
  /\ \A o \in Objects : PendingAs("Disappear", o) => status[o] = "Lost"
  /\ \A o \in Objects : PendingAs("Appear", o) \/ PendingAs("NewObject", o) => status[o] = "Tracked"
  /\ Working => known = {o \in Objects : status[o] # "unseen" /\ ~PendingAs("NewObject", o)}

\* The agents that attend are the persons in sight; all others have missed
\* something, and who has not believes what holds.
AgentsInv ==
  /\ Working => present = {p \in People : Visible(p)}
  /\ (known \cap People) \ present \subseteq missed
  /\ \A p \in present \ missed : beliefs[p] = facts

\* A thing is in the box it was last seen to vanish in, and in no other that
\* current_container does not know of; a thing in sight is in none.
PlacesInv ==
  /\ crashed = "no" => \A s \in Storables : placed[s] \subseteq PlaceOf(s)
  /\ Working => \A s \in Storables : Visible(s) => placed[s] = {}
  /\ crashed = "no" => \A s \in Storables \ muddled :
       /\ PlaceOf(s) \subseteq placed[s]
       /\ \A b \in PlaceOf(s) : s \in DOMAIN current_container /\ b = current_container[s]

\* In the first session current_container names known boxes only.
SessionInv ==
  /\ sessions = 0 => DOMAIN current_container = {} /\ ~active
  /\ sessions = 1 => \A s \in DOMAIN current_container : HasProposition(s, current_container[s])

ObservingInv == ObservingTypeOK /\ EventsInv /\ AgentsInv /\ PlacesInv /\ SessionInv
=============================================================================
