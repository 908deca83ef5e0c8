---------------------------- MODULE MCDhtQueries ----------------------------
(* Instances of DhtQueries for TLC.                                        *)
EXTENDS DhtQueries
=============================================================================
