------------------------- MODULE ControllerShutdown -------------------------
(***************************************************************************)
(* cleanup, the goroutine that SIGTERM and SIGINT start in the controller  *)
(* (controller/main.go), composed with everything ContainerLifecycle       *)
(* models: the HTTP server goes on serving until os.Exit.                  *)
(*                                                                         *)
(* cleanup ranges over runningContainers without its lock.  The range      *)
(* evaluates the slice once, so it fixes the length and the backing array, *)
(* while closeContainerConn deletes from that same array in place: the     *)
(* elements after a deleted one move up and the freed tail is zeroed.  An  *)
(* append by a concurrent start writes into the array, or moves the live   *)
(* slice to a new one and leaves the loop with the old.                    *)
(***************************************************************************)
EXTENDS ContainerLifecycle

VARIABLES
  step,       \* where cleanup is
  bound,      \* the length the range loop was entered with
  index,      \* the index it has reached
  array,      \* <<>> while it shares runningContainers' array, else <<its array>>
  current,    \* the id being cleaned up
  lock,       \* cleanup holds runningContainersMu
  targets,    \* history: the ids listed when the loop was entered
  asked       \* history: the ids Docker was asked to stop

cleanupVars == <<step, bound, index, array, current, lock, targets, asked>>
shutdownVars == <<vars, cleanupVars>>

Elements(s) == {s[i] : i \in DOMAIN s}
\* What the loop reads at index i.
ArrayAt(i) ==
  LET a == IF array = <<>> THEN running ELSE array[1]
  IN IF i <= Len(a) THEN a[i] ELSE NoId

NotCleaning ==
  /\ step = "off" /\ bound = 0 /\ index = 1 /\ array = <<>> /\ current = NoId
  /\ lock = FALSE /\ targets = {} /\ asked = {}

-----------------------------------------------------------------------------
(* Every other goroutine.                                                  *)

TakesRunningMu ==
  \/ \E h \in Handler : req[h].pc \in {"append", "unlist"} /\ req'[h] # req[h]
  \/ \E c \in Container : reader[c] = "unlist" /\ reader'[c] # "unlist"

\* An append while the loop runs finds room in the array, or moves.
ArrayAfter ==
  \/ UNCHANGED array
  \/ /\ step # "off" /\ array = <<>>
     /\ \E h \in Handler : req[h].pc = "append" /\ req'[h] # req[h]
     /\ array' = <<running>>

Serving ==
  /\ step # "exited"
  /\ Next /\ boots' = boots
  /\ lock => ~TakesRunningMu
  /\ ArrayAfter
  /\ UNCHANGED <<step, bound, index, current, lock, targets, asked>>

\* Killed, or exited, and started again.
Reboot ==
  /\ Restart
  /\ step' = "off" /\ bound' = 0 /\ index' = 1 /\ array' = <<>> /\ current' = NoId
  /\ lock' = FALSE /\ targets' = {} /\ asked' = {}

-----------------------------------------------------------------------------
(* cleanup.                                                                *)

\* Variant: the table is emptied and no channel closed.
StopStreamers_NoClose ==
  /\ step = "off"
  /\ step' = "range"
  /\ streamers' = {}
  /\ UNCHANGED <<dockerVars, running, connVars, stopSig, stream, creating, req, boots,
                 bound, index, array, current, lock, targets, asked>>

\* All log streamers are told to stop, under logStreamersMu.
StopStreamers ==
  /\ step = "off"
  /\ step' = "range"
  /\ streamers' = {} /\ stopSig' = stopSig \cup streamers
  /\ UNCHANGED <<dockerVars, running, connVars, stream, creating, req, boots,
                 bound, index, array, current, lock, targets, asked>>

EnterLoop ==
  /\ step = "range"
  /\ step' = "visit"
  /\ bound' = Len(running) /\ targets' = Elements(running)
  /\ UNCHANGED <<vars, index, array, current, lock, asked>>

\* Variant: runningContainersMu is taken before closeContainerConn.
Visit_LocksFirst ==
  /\ step = "visit" /\ index <= bound
  /\ step' = "unlist" /\ lock' = TRUE
  /\ current' = ArrayAt(index)
  /\ CloseConn(current')
  /\ UNCHANGED <<dockerVars, running, hs, reader, logVars, creating, req, boots,
                 bound, index, array, targets, asked>>

\* closeContainerConn(containerID), connection first ...
Visit ==
  /\ step = "visit" /\ index <= bound
  /\ step' = "unlist"
  /\ current' = ArrayAt(index)
  /\ CloseConn(current')
  /\ UNCHANGED <<dockerVars, running, hs, reader, logVars, creating, req, boots,
                 bound, index, array, lock, targets, asked>>

\* ... then the entry in runningContainers, under runningContainersMu.
UnlistVisited ==
  /\ step = "unlist" /\ ~lock
  /\ step' = "lock"
  /\ running' = RemoveValue(running, current)
  /\ UNCHANGED <<dockerVars, connVars, logVars, creating, req, boots,
                 bound, index, array, current, lock, targets, asked>>

LockRunning ==
  /\ step = "lock" /\ ~lock
  /\ step' = "stop" /\ lock' = TRUE
  /\ UNCHANGED <<vars, bound, index, array, current, targets, asked>>

\* ContainerStop; an error (a zeroed id always is one) is only printed.
StopVisited ==
  /\ step = "stop"
  /\ step' = "remove"
  /\ asked' = asked \cup {current}
  /\ \/ UNCHANGED <<docker, reach, sock>>
     \/ \E c \in Container :
          /\ c = current[1] /\ docker[c] = "running"
          /\ docker' = [docker EXCEPT ![c] = "exited"]
          /\ reach' = reach \ {c}
          /\ sock' = Severed(c)
  /\ UNCHANGED <<running, conns, hs, reader, logVars, creating, req, boots,
                 bound, index, array, current, lock, targets>>

\* ContainerRemove, the unlock, and the next iteration.
RemoveVisited ==
  /\ step = "remove"
  /\ step' = "visit" /\ lock' = FALSE /\ index' = index + 1
  /\ \/ UNCHANGED docker
     \/ \E c \in Container : /\ c = current[1] /\ docker[c] = "exited"
                             /\ docker' = [docker EXCEPT ![c] = "removed"]
  /\ UNCHANGED <<reach, running, connVars, logVars, creating, req, boots,
                 bound, array, current, targets, asked>>

\* runningContainers = nil, then os.Exit(0).
Exit ==
  /\ step = "visit" /\ index > bound
  /\ step' = "exited"
  /\ running' = <<>>
  /\ UNCHANGED <<dockerVars, connVars, logVars, creating, req, boots,
                 bound, index, array, current, lock, targets, asked>>

Cleanup ==
  \/ EnterLoop \/ Visit \/ UnlistVisited \/ LockRunning
  \/ StopVisited \/ RemoveVisited \/ Exit

-----------------------------------------------------------------------------
ShutdownInit == Init /\ NotCleaning

ShutdownNext == Serving \/ Reboot \/ StopStreamers \/ Cleanup

ShutdownSpec == ShutdownInit /\ [][ShutdownNext]_shutdownVars
\* Docker answers or its context expires, and the goroutine is scheduled.
FairShutdownSpec == ShutdownSpec /\ WF_shutdownVars(Cleanup)

-----------------------------------------------------------------------------
\* Type invariant.
ShutdownTypeOK ==
  /\ TypeOK
  /\ step \in {"off", "range", "visit", "unlist", "lock", "stop", "remove", "exited"}
  /\ bound \in Nat /\ index \in Nat /\ lock \in BOOLEAN
  /\ array = <<>> \/ (Len(array) = 1 /\ array[1] \in Seq(Id))
  /\ current \in Id \cup {NoId}
  /\ targets \subseteq Id /\ asked \subseteq Id \cup {NoId}

\* Once a signal has arrived the process exits (or is killed), however many
\* requests and readers change the list under the loop.
CleanupEnds == step # "off" ~> step \in {"off", "exited"}

\* "Ensure connections are closed" for every started container: the loop
\* reaches every entry of the list.  In place deletion makes it skip.
CleanupReachesAll == step = "exited" => targets \subseteq asked
=============================================================================
