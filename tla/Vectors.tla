------------------------------- MODULE Vectors -------------------------------
(***************************************************************************)
(* The elements of a vector at given places, for the loops that keep some  *)
(* elements of a vector in their order.                                    *)
(***************************************************************************)
EXTENDS Naturals, Sequences, FiniteSets

\* The elements of a finite set of numbers in their order.
Sorted(S) == [k \in 1 .. Cardinality(S) |-> CHOOSE x \in S : Cardinality({y \in S : y <= x}) = k]

\* The elements of a sequence at the places S.
Among(seq, S) == LET ids == Sorted(S) IN [k \in DOMAIN ids |-> seq[ids[k]]]
==============================================================================
