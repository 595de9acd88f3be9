--------------------------------- MODULE Lists ---------------------------------
(***************************************************************************)
(* What is taken from lists by its place.                                  *)
(***************************************************************************)
EXTENDS Naturals, FiniteSets

\* What a list has at some places, in their order.
Picked(list, places) ==
    [n \in 1..Cardinality(places) |->
        list[CHOOSE i \in places : Cardinality({j \in places : j <= i}) = n]]

\* The first and the last of some places.
First(places) == CHOOSE i \in places : \A j \in places : i <= j
Latest(places) == CHOOSE i \in places : \A j \in places : j <= i

=============================================================================
