------------------------- MODULE ConnectionRegistry -------------------------
(***************************************************************************)
(* What the controller promises about its connections to containers,       *)
(* whatever tables and goroutines it keeps them with: a process connects   *)
(* to a container at most once, by a handshake that may also fail; the     *)
(* connection may break, and is then given up for good.                    *)
(***************************************************************************)
CONSTANT Container
VARIABLE entry  \* what a command finds under the container's id

Entry == {"absent",  \* not connected yet
          "usable",
          "broken",
          "gone"}    \* not connected any more, and never again

Fresh == [c \in Container |-> "absent"]

Init == entry = Fresh

Becomes(c, from, to) ==
  /\ entry[c] \in from
  /\ \E e \in to : entry' = [entry EXCEPT ![c] = e]

\* The handshake succeeds; the node may have died since.
Connects(c) == Becomes(c, {"absent"}, {"usable", "broken"})

\* No handshake succeeds in time.
Misses(c) == Becomes(c, {"absent"}, {"gone"})

\* The container ends, or a write to it fails.
Breaks(c) == Becomes(c, {"usable"}, {"broken"})

\* The container is stopped.
Closes(c) == Becomes(c, {"usable"}, {"gone"})

\* It is stopped, or the connection is found to be broken.
Reaps(c) == Becomes(c, {"broken"}, {"gone"})

\* Another process begins.
Restarts == entry' = Fresh

Next ==
  \/ Restarts
  \/ \E c \in Container :
       Connects(c) \/ Misses(c) \/ Breaks(c) \/ Closes(c) \/ Reaps(c)

Spec == Init /\ [][Next]_entry
=============================================================================
