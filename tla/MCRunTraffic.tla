----------------------------- MODULE MCRunTraffic -----------------------------
(***************************************************************************)
(* Instances of RunTraffic for TLC.                                        *)
(***************************************************************************)
EXTENDS RunTraffic, MCRunLifecycle
=============================================================================
