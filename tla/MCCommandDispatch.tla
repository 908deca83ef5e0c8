------------------------- MODULE MCCommandDispatch -------------------------
(* Instances of CommandDispatch for TLC.                                   *)
EXTENDS CommandDispatch
=============================================================================
