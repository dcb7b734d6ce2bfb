------------------------------ MODULE MCObserving ------------------------------
(***************************************************************************)
(* A small table: a red storable thing, a knife that is used with it, two  *)
(* boxes that are alike.                                                   *)
(***************************************************************************)
EXTENDS Observing

CONSTANTS knife, red

MCMatching == knife :> red
MCSymmetry == Permutations(Boxes)
=============================================================================
