-------------------------------- MODULE Places --------------------------------
(* A list filtered by the places of what stays, for lists and texts alike. *)
EXTENDS Integers, Sequences, FiniteSets

\* What stands at some places of a list, in its order.
AtPlaces(s, places) ==
  [n \in 1 .. Cardinality(places) |-> s[CHOOSE i \in places : Cardinality({j \in places : j < i}) = n - 1]]
=============================================================================
