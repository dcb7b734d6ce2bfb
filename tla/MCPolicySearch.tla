---------------------------- MODULE MCPolicySearch ----------------------------
(***************************************************************************)
(* All domains of two open states, one goal and two actions with up to two *)
(* outcomes each.                                                          *)
(***************************************************************************)
EXTENDS PolicySearch

CONSTANTS s1, s2, goal

MCActions == <<"a", "b">>
MCOutcomes == {<<>>} \cup {<<s>> : s \in States} \cup {<<s1, s2>>, <<s1, goal>>, <<goal, s2>>}
=============================================================================
