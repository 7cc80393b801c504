------------------------------- MODULE Orders -------------------------------
(***************************************************************************)
(* Sequences by their places: the places of a set in rising order, and what*)
(* a sequence holds there.  It is how filter() is written here, as places  *)
(* can be counted.                                                         *)
(***************************************************************************)
EXTENDS Naturals, Sequences, FiniteSets

InOrder(S) == [n \in 1..Cardinality(S) |-> CHOOSE i \in S : Cardinality({j \in S : j <= i}) = n]
AtPlaces(s, S) == [n \in 1..Cardinality(S) |-> s[InOrder(S)[n]]]
=============================================================================
