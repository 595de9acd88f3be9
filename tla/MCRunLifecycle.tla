---------------------------- MODULE MCRunLifecycle ----------------------------
(***************************************************************************)
(* Instances of RunLifecycle for TLC.                                      *)
(***************************************************************************)
EXTENDS RunLifecycle, TLC

CONSTANT k1

\* All runs work with one account of one environment.
MCAccountOf == [r \in Run |-> k1]

Symmetry == Permutations(Run) \cup Permutations(User)

\* The process stays up, and nobody sends logs or marks a run as external: whoever
\* does so may put an old copy of the record back after the run has ended.
QuietNext ==
    \/ \E r \in Run : StartRun(r) \/ Execute(r)
    \/ \E u \in User : Continue(u) \/ \E r \in Run : CancelRead(u, r) \/ Delete(u, r)

QuietSpec == Init /\ [][QuietNext]_vars /\ Fairness
=============================================================================
