---------------------------- MODULE MCBisimulation ----------------------------
(***************************************************************************)
(* Pairs of small states: chains and cycles of up to three worlds for one  *)
(* agent, two worlds with any relation, and what the operations of the     *)
(* planner make of the initial state of Environment_Loader.                *)
(***************************************************************************)
EXTENDS Bisimulation, TLC

CONSTANTS Pepper, L

InBox == <<"in(red,Box0)", "in(red,Box1)">>
Held == "in(red,L)"
MCProps == {InBox[1], InBox[2], Held}
MCSpelling == (InBox[1] :> <<1, 0>>) @@ (InBox[2] :> <<1, 1>>) @@ (Held :> <<1, 2>>)

MCLibrary ==
  UNION {{Announce(Pepper, InBox[b]), Pickup(L, InBox[b], Held), Perceive(L, InBox[b])} : b \in {1, 2}}

\* Two worlds at most, any relation of L, Pepper sees the truth.
Model(n, vals, rels, des) ==
  {[worlds |-> v, designated |-> d, rel |-> [i \in Agents |-> IF i = L THEN r ELSE {<<w, w>> : w \in 1 .. n}]] :
     v \in [1 .. n -> vals], r \in rels, d \in des}

Small == Model(2, {{}, {InBox[1]}}, SUBSET ((1 .. 2) \X (1 .. 2)), {{1}})
Single == Model(1, {{}, {InBox[1]}}, SUBSET {<<1, 1>>}, {{}, {1}})
\* Three worlds, each with one successor, two of them alike.
Chains == {[worlds |-> <<{}, {}, {InBox[1]}>>, designated |-> {1}, rel |-> [i \in Agents |-> IF i = L THEN {<<w, g[w]>> : w \in 1 .. 3} ELSE {}]] :
             g \in [1 .. 3 -> 1 .. 3]}

Start == InitialState(InBox, 1, Pepper, L)
After(S) == S \cup {PerspectiveShift(s, i) : s \in S, i \in Agents}
              \cup {ProductUpdate(s, a) : s \in S, a \in MCLibrary}
              \cup UNION {SplitIntoGlobals(s, i) : s \in S, i \in Agents}
              \cup {PerformDo(s, L, {Held}, {InBox[1]}) : s \in S}

MCPairs ==
  ((Small \cup Single) \X {s \in Small \cup Single : s.worlds[1] = {}}) \cup (After({Start}) \X After(After({Start}))) \cup (Chains \X Chains)
==============================================================================
