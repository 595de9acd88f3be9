------------------------------ MODULE MCSchedule ------------------------------
(***************************************************************************)
(* Instances of Schedule for TLC.                                          *)
(***************************************************************************)
EXTENDS Schedule, TLC

Symmetry == Permutations(Run) \cup Permutations(User)
=============================================================================
