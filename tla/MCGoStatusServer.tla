-------------------------- MODULE MCGoStatusServer --------------------------
(* Instances of GoStatusServer for TLC.                                    *)
EXTENDS GoStatusServer
=============================================================================
