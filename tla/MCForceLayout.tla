--------------------------- MODULE MCForceLayout ---------------------------
(* Two containers, a remote peer, two maps. *)
EXTENDS ForceLayout

CONSTANTS c1, c2, r

\* The containers report each other, the second over two connections, and the
\* first a remote peer as well.
SomeReports == {<<c1, c1>>, <<c2>>, <<r, c2>>}
=============================================================================
