---------------------------- MODULE MCConvergence ----------------------------
(* Instances of Convergence for TLC.                                       *)
EXTENDS Convergence
=============================================================================
