------------------------------- MODULE MCBatch -------------------------------
(***************************************************************************)
(* Instances of Batch for TLC.                                             *)
(***************************************************************************)
EXTENDS Batch, TLC

CONSTANTS k1, k2

\* Cases 1 and 2 share an isolation key, the others do not.
MCIso == [c \in 1 .. NumCases |-> IF c <= 2 THEN k1 ELSE k2]
\* Case 2 carries reviewRequired.
MCReview == [c \in 1 .. NumCases |-> c = 2]

Symmetry == Permutations(Slot) \cup Permutations(Run)
=============================================================================
