---------------------------- MODULE DELOperations ----------------------------
(***************************************************************************)
(* Epistemic states and what the planner does to them (Pepper_Planner:     *)
(* DEL_Operations, State, World, Action, Formula, Domain and the domain of *)
(* Environment_Loader).                                                    *)
(*                                                                         *)
(* A world is the set of its true propositions, its id is its index.       *)
(***************************************************************************)
EXTENDS Vectors, SequencesExt

CONSTANTS Agents, Props

-----------------------------------------------------------------------------
(* Formulas: a sequence of components that refer to earlier ones by index; *)
(* the last is the root.                                                   *)

\* f_top, f_prop, f_not and their like: the new component is the root.
Component(f, c) == Append(f, c)

Atom(p) == Component(<<>>, [type |-> "Prop", prop |-> p])
NotAtom(p) == Component(Atom(p), [type |-> "Not", arg |-> 1])
Truth == Component(<<>>, [type |-> "Top"])

\* Formula_Component::valuate.  A conjunction of nothing is false, and so is
\* every epistemic component: "TODO - Implement".
Valuate(f, props) ==
  LET val[k \in DOMAIN f] ==
        CASE f[k].type = "Top" -> TRUE
          [] f[k].type = "Prop" -> f[k].prop \in props
          [] f[k].type = "Not" -> ~val[f[k].arg]
          [] f[k].type = "And" -> f[k].args # {} /\ \A j \in f[k].args : val[j]
          [] f[k].type = "Or" -> \E j \in f[k].args : val[j]
          [] OTHER -> FALSE   \* Bot, Believes, Everyone_Believes, Common_Knowledge
  IN  val[Len(f)]

-----------------------------------------------------------------------------
(* States: [worlds : Seq(SUBSET Props), designated : ids,                  *)
(*          rel : [Agents -> set of pairs of ids]]                         *)

IsState(s) ==
  /\ s.worlds \in Seq(SUBSET Props)
  /\ s.designated \subseteq DOMAIN s.worlds
  /\ \A i \in Agents : s.rel[i] \subseteq (DOMAIN s.worlds) \X (DOMAIN s.worlds)

\* State::valuate: true in every designated world (and so when there is none).
Holds(s, f) == \A w \in s.designated : Valuate(f, s.worlds[w])

\* What agent i reaches from the worlds of W, itself included.
Reach(s, i, W) ==
  LET step[n \in 0 .. Len(s.worlds)] ==
        IF n = 0 THEN W
        ELSE LET prev == step[n - 1]
             IN  prev \cup {v \in DOMAIN s.worlds : \E w \in prev : <<w, v>> \in s.rel[i]}
  IN  step[Len(s.worlds)]

\* get_designated_world_reachables
DesignatedReachables(s, i) == Reach(s, i, s.designated)

\* set_global_for_agent: one designated world, and of the agent's relation
\* nothing is left but its loop.
SetGlobal(s, i, w) == [s EXCEPT !.designated = {w}, !.rel[i] = {<<w, w>>}]

SplitIntoGlobals(s, i) == {SetGlobal(s, i, w) : w \in s.designated}

\* is_valid_state
IsValid(s) == s.worlds # <<>> /\ s.designated # {}

\* The state with only the worlds of W, all of them designated.  (The worlds
\* are renumbered in the order of a hash table; here in their old order.)
Submodel(s, W) ==
  LET ids == Sorted(W)
  IN  [worlds |-> [k \in DOMAIN ids |-> s.worlds[ids[k]]],
       designated |-> DOMAIN ids,
       rel |-> [j \in Agents |-> {p \in (DOMAIN ids) \X (DOMAIN ids) : <<ids[p[1]], ids[p[2]]>> \in s.rel[j]}]]

\* Mutant: one step of the relation instead of its closure.
PerspectiveShiftOneStep(s, i) ==
  Submodel(s, s.designated \cup {v \in DOMAIN s.worlds : \E w \in s.designated : <<w, v>> \in s.rel[i]})

\* perform_perspective_shift: what agent i takes for possible.
PerspectiveShift(s, i) == Submodel(s, DesignatedReachables(s, i))

-----------------------------------------------------------------------------
(* Actions: [owner, events : Seq([pre, add, del]), designated, rel]        *)

IsAction(a) ==
  /\ a.owner \in Agents
  /\ Len(a.events) \in Nat /\ DOMAIN a.events = 1 .. Len(a.events)
  /\ \A e \in DOMAIN a.events : a.events[e].add \subseteq Props

Event(pre, add, del) == [pre |-> pre, add |-> add, del |-> del]

\* perform_product_update: a world for each pair of a world and an event that
\* fits in it, world by world.
ProductUpdate(s, a) ==
  LET m == Len(a.events)
      World(k) == ((k - 1) \div m) + 1
      Ev(k) == ((k - 1) % m) + 1
      entry == Sorted({k \in 1 .. Len(s.worlds) * m : Valuate(a.events[Ev(k)].pre, s.worlds[World(k)])})
  IN  [worlds |-> [k \in DOMAIN entry |->
                     (s.worlds[World(entry[k])] \ a.events[Ev(entry[k])].del) \cup a.events[Ev(entry[k])].add],
       designated |-> {k \in DOMAIN entry : World(entry[k]) \in s.designated /\ Ev(entry[k]) \in a.designated},
       rel |-> [i \in Agents |-> {p \in (DOMAIN entry) \X (DOMAIN entry) :
                  /\ <<World(entry[p[1]]), World(entry[p[2]])>> \in s.rel[i]
                  /\ <<Ev(entry[p[1]]), Ev(entry[p[2]])>> \in a.rel[i]}]]

\* is_action_applicable: some event fits in every world the owner reaches.
IsApplicable(s, a) ==
  \A w \in DesignatedReachables(s, a.owner) : \E e \in DOMAIN a.events : Valuate(a.events[e].pre, s.worlds[w])

Loops(n) == {<<e, e>> : e \in 1 .. n}

\* add_announce_action, add_pickup_action and add_perceive_action
Announce(i, p) == [owner |-> i, events |-> <<Event(Atom(p), {}, {})>>,
                   designated |-> {1}, rel |-> [j \in Agents |-> Loops(1)]]
Pickup(i, from, to) == [owner |-> i, events |-> <<Event(Atom(from), {to}, {from})>>,
                        designated |-> {1}, rel |-> [j \in Agents |-> Loops(1)]]
Perceive(i, p) == [owner |-> i, events |-> <<Event(Atom(p), {}, {}), Event(NotAtom(p), {}, {})>>,
                   designated |-> {1, 2}, rel |-> [j \in Agents |-> Loops(2)]]

\* Domain::perform_do: an action without designated events and without
\* relations, so that the state after it has neither.
PerformDo(s, i, add, del) ==
  ProductUpdate(s, [owner |-> i, events |-> <<Event(Truth, add, del)>>,
                    designated |-> {}, rel |-> [j \in Agents |-> {}]])

\* get_initial_state: one world per box, L cannot tell them apart, and Pepper
\* (whose relation is the loop of that world alone) knows the right one.
InitialState(inBox, right, Pepper, L) ==
  [worlds |-> [b \in DOMAIN inBox |-> {inBox[b]}],
   designated |-> {right},
   rel |-> [i \in {Pepper, L} |->
              IF i = L THEN (DOMAIN inBox) \X (DOMAIN inBox) ELSE {<<right, right>>}]]
==============================================================================
