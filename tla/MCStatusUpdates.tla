--------------------------- MODULE MCStatusUpdates ---------------------------
(* Instances of StatusUpdates for TLC.                                     *)
EXTENDS StatusUpdates
=============================================================================
