------------------------- MODULE ContainerLifecycle -------------------------
(***************************************************************************)
(* The controller's record of the containers it manages                    *)
(* (controller/main.go).                                                   *)
(*                                                                         *)
(* Three tables, each under a mutex of its own, are kept by HTTP handlers  *)
(* and by goroutines that outlive them: runningContainers (a slice of      *)
(* ids), containerConns (one WebSocket per container, keyed by the short   *)
(* id) and logStreamers (one log follower per container, keyed by the full *)
(* id).  A handler that stops a container visits the three tables one      *)
(* after the other, while the goroutine that is still shaking hands with   *)
(* the container, the one that reads its updates and the one that follows  *)
(* its log run in between.                                                 *)
(*                                                                         *)
(* The Docker daemon is external: a container is created once, runs, exits *)
(* by itself or on request, may be started again (on another host port)    *)
(* and is finally removed.                                                 *)
(***************************************************************************)
EXTENDS Naturals, Sequences, FiniteSets, SequencesExt

CONSTANTS
  Container,  \* containers Docker will ever create
  Handler,    \* HTTP requests the controller serves at the same time
  MaxListed,  \* bound: no start request is served beyond this many entries
  MaxBoots    \* bound: how many times the controller process is started

ASSUME ContainerAssumption == IsFiniteSet(Container)
ASSUME BoundAssumption == MaxListed \in Nat /\ MaxBoots \in Nat \ {0}

VARIABLES
  docker,     \* the daemon's state of each container
  reach,      \* containers that run and whose host port the handshake knows
  running,    \* runningContainers
  conns,      \* the keys of containerConns
  sock,       \* the controller's end of each container's WebSocket
  hs,         \* the goroutine in setContainerIDAndListen, per container
  reader,     \* the goroutine reading node updates, per container
  streamers,  \* the keys of logStreamers
  stopSig,    \* containers whose stopChan has been closed
  stream,     \* the goroutine in startLogStreaming, per container
  creating,   \* create requests between container start and handshake
  req,        \* start, stop, stopall and command requests
  boots       \* controller processes started so far

vars == <<docker, reach, running, conns, sock, hs, reader, streamers, stopSig,
          stream, creating, req, boots>>
dockerVars == <<docker, reach>>
connVars == <<conns, sock, hs, reader>>
logVars == <<streamers, stopSig, stream>>

-----------------------------------------------------------------------------
(* Ids.  The UI and repopulateState use the first 12 characters of an id,  *)
(* the create response and the log streamers the whole of it.              *)

Short(c) == <<c, "short">>
Full(c) == <<c, "full">>
Id == Container \X {"short", "full"}
NoId == <<"none", "none">>

DockerState == {"absent", "running", "exited", "removed"}
SockState == {"none", "open", "dead", "closed"}
HandshakePC == {"none", "dial", "initial", "reply", "announce", "stopping", "done"}
ReaderPC == {"none", "reading", "closing", "unlist"}
StreamPC == {"none", "spawned", "opening", "following", "returned"}
RequestPC == {"idle", "append", "next", "kill", "remove", "streamer", "conn",
              "unlist", "write"}
Request == [op : {"none", "start", "stop", "stopall", "command"},
            pc : RequestPC, id : Id \cup {NoId},
            listed : SUBSET Container, live : SUBSET Container,
            todo : SUBSET Container, errors : BOOLEAN]
Idle == [op |-> "none", pc |-> "idle", id |-> NoId,
         listed |-> {}, live |-> {}, todo |-> {}, errors |-> FALSE]

InState(states) == {c \in Container : docker[c] \in states}
ManagedNow == InState({"running", "exited"})

\* What happens to a container's socket when its process is gone.
Severed(c) == [sock EXCEPT ![c] = IF @ = "open" THEN "dead" ELSE @]

\* Variant: the element is zeroed and stays.
RemoveValue_LeavesHole(s, v) == [i \in DOMAIN s |-> IF s[i] = v THEN NoId ELSE s[i]]

\* removeValue: the first occurrence goes, the rest moves up.
RemoveValue(s, v) == RemoveFirst(s, v)

-----------------------------------------------------------------------------
(* The process starts: all its tables are empty and repopulateState lists  *)
(* the running containers and spawns a handshake for each one that         *)
(* publishes a port.  It follows no logs.                                  *)

Listings(S) == SetToSeqs({Short(c) : c \in S})
Dialling(S) == [c \in Container |-> IF c \in S THEN "dial" ELSE "none"]
Everywhere(v) == [c \in Container |-> v]

Init ==
  /\ docker \in [Container -> {"absent", "running", "exited"}]
  /\ reach \in SUBSET InState({"running"})
  /\ running \in Listings(InState({"running"}))
  /\ hs = Dialling(reach)
  /\ conns = {} /\ sock = Everywhere("none") /\ reader = Everywhere("none")
  /\ streamers = {} /\ stopSig = {} /\ stream = Everywhere("none")
  /\ creating = {} /\ req = [h \in Handler |-> Idle]
  /\ boots = 1

\* The process dies (a signal, a panic) and is started again.
Restart ==
  /\ boots < MaxBoots
  /\ boots' = boots + 1
  /\ reach' \in SUBSET InState({"running"})
  /\ running' \in Listings(InState({"running"}))
  /\ hs' = Dialling(reach')
  /\ conns' = {} /\ sock' = Everywhere("none") /\ reader' = Everywhere("none")
  /\ streamers' = {} /\ stopSig' = {} /\ stream' = Everywhere("none")
  /\ creating' = {} /\ req' = [h \in Handler |-> Idle]
  /\ UNCHANGED docker

\* A container exits without being asked to.
ContainerDies(c) ==
  /\ docker[c] = "running"
  /\ docker' = [docker EXCEPT ![c] = "exited"]
  /\ reach' = reach \ {c}
  /\ sock' = Severed(c)
  /\ UNCHANGED <<running, conns, hs, reader, logVars, creating, req, boots>>

-----------------------------------------------------------------------------
(* createAndStartContainer.                                                *)

\* ContainerCreate and ContainerStart succeed; log streaming is spawned.
CreateStart(c) ==
  /\ docker[c] = "absent"
  /\ docker' = [docker EXCEPT ![c] = "running"]
  /\ stream' = [stream EXCEPT ![c] = "spawned"]
  /\ creating' = creating \cup {c}
  /\ UNCHANGED <<reach, running, connVars, streamers, stopSig, req, boots>>

\* ContainerCreate succeeds but ContainerStart does not.
CreateFails(c) ==
  /\ docker[c] = "absent"
  /\ docker' = [docker EXCEPT ![c] = "exited"]
  /\ UNCHANGED <<reach, running, connVars, logVars, creating, req, boots>>

\* ContainerInspect succeeds; the port it reports (0 unless the container
\* runs) goes to the handshake goroutine and the request returns.
CreateFinish(c) ==
  /\ c \in creating
  /\ docker[c] \in {"running", "exited"}
  /\ creating' = creating \ {c}
  /\ hs' = [hs EXCEPT ![c] = "dial"]
  /\ reach' = IF docker[c] = "running" THEN reach \cup {c} ELSE reach
  /\ UNCHANGED <<docker, running, conns, sock, reader, logVars, req, boots>>

\* ContainerInspect fails: the container is gone, or the client is.
CreateAborts(c) ==
  /\ c \in creating
  /\ creating' = creating \ {c}
  /\ UNCHANGED <<dockerVars, running, connVars, logVars, req, boots>>

-----------------------------------------------------------------------------
(* setContainerIDAndListen.  An attempt that fails goes back to "dial";    *)
(* an attempt whose dial is refused leaves no trace at all.                *)

\* Only to the port the container had when it was inspected.
Dial(c) ==
  /\ hs[c] = "dial" /\ c \in reach
  /\ hs' = [hs EXCEPT ![c] = "initial"]
  /\ sock' = [sock EXCEPT ![c] = "open"]
  /\ UNCHANGED <<dockerVars, running, conns, reader, logVars, creating, req, boots>>

\* Read the node's first message, then write set-id.  A message that
\* arrived before the node died can still be read.
ReadInitial(c) ==
  /\ hs[c] = "initial"
  /\ hs' = [hs EXCEPT ![c] = "reply"]
  /\ UNCHANGED <<dockerVars, running, conns, sock, reader, logVars, creating, req, boots>>

\* Read the next message, whatever it is, and store the connection.
ReadReply(c) ==
  /\ hs[c] = "reply"
  /\ hs' = [hs EXCEPT ![c] = "announce"]
  /\ conns' = conns \cup {c}
  /\ UNCHANGED <<dockerVars, running, sock, reader, logVars, creating, req, boots>>

\* Variant: a failed attempt forgets to close its socket.
AttemptFails_LeavesSocket(c) ==
  /\ hs[c] \in {"initial", "reply"}
  /\ hs' = [hs EXCEPT ![c] = "dial"]
  /\ UNCHANGED <<dockerVars, running, conns, sock, reader, logVars, creating, req, boots>>

\* A read or the write fails, because the node has gone, has reset the
\* connection or did not take set-id within 5 seconds: the socket is closed
\* and the attempt is over.  A node that is still there is dialled again.
AttemptFails(c) ==
  /\ hs[c] \in {"initial", "reply"}
  /\ hs' = [hs EXCEPT ![c] = "dial"]
  /\ sock' = [sock EXCEPT ![c] = "closed"]
  /\ UNCHANGED <<dockerVars, running, conns, reader, logVars, creating, req, boots>>

\* The container list and the node's status have been broadcast.
StartReader(c) ==
  /\ hs[c] = "announce"
  /\ hs' = [hs EXCEPT ![c] = "done"]
  /\ reader' = [reader EXCEPT ![c] = "reading"]
  /\ UNCHANGED <<dockerVars, running, conns, sock, logVars, creating, req, boots>>

\* Variant: the retries have no deadline.
GiveUp_Never(c) == hs[c] = "dial" /\ UNCHANGED vars

\* 15 seconds have passed.  The goroutine a create request has left behind
\* goes on to stop its container; repopulateState's only logs the failure.
GiveUp(c) ==
  /\ hs[c] = "dial"
  /\ hs' = [hs EXCEPT ![c] = IF stream[c] = "none" THEN "done" ELSE "stopping"]
  /\ UNCHANGED <<dockerVars, running, conns, sock, reader, logVars, creating, req, boots>>

\* stopContainer(r.Context(), id): the request has returned, so its context
\* is cancelled, ContainerInspect fails and stopContainer returns at once.
StopAfterFailure(c) ==
  /\ hs[c] = "stopping"
  /\ hs' = [hs EXCEPT ![c] = "done"]
  /\ UNCHANGED <<dockerVars, running, conns, sock, reader, logVars, creating, req, boots>>

-----------------------------------------------------------------------------
(* The goroutine that reads node updates, and the table it cleans up.      *)

\* closeContainerConn's first critical section: a no-op unless the id is
\* a key of containerConns.
CloseConn(id) ==
  /\ conns' = {c \in conns : Short(c) # id}
  /\ sock' = [c \in Container |->
                IF c \in conns /\ Short(c) = id THEN "closed" ELSE sock[c]]

\* Variant: the reader returns without its deferred closeContainerConn.
ReaderFails_JustReturns(c) ==
  /\ reader[c] = "reading" /\ sock[c] \in {"dead", "closed"}
  /\ reader' = [reader EXCEPT ![c] = "none"]
  /\ UNCHANGED <<dockerVars, running, conns, sock, hs, logVars, creating, req, boots>>

ReaderFails(c) ==
  /\ reader[c] = "reading" /\ sock[c] \in {"dead", "closed"}
  /\ reader' = [reader EXCEPT ![c] = "closing"]
  /\ UNCHANGED <<dockerVars, running, conns, sock, hs, logVars, creating, req, boots>>

ReaderCloses(c) ==
  /\ reader[c] = "closing"
  /\ CloseConn(Short(c))
  /\ reader' = [reader EXCEPT ![c] = "unlist"]
  /\ UNCHANGED <<dockerVars, running, hs, logVars, creating, req, boots>>

\* closeContainerConn's second critical section.
ReaderUnlists(c) ==
  /\ reader[c] = "unlist"
  /\ running' = RemoveValue(running, Short(c))
  /\ reader' = [reader EXCEPT ![c] = "none"]
  /\ UNCHANGED <<dockerVars, conns, sock, hs, logVars, creating, req, boots>>

-----------------------------------------------------------------------------
(* startLogStreaming.                                                      *)

RegisterStreamer(c) ==
  /\ stream[c] = "spawned"
  /\ stream' = [stream EXCEPT ![c] = "opening"]
  /\ streamers' = streamers \cup {c}
  /\ UNCHANGED <<dockerVars, running, connVars, stopSig, creating, req, boots>>

\* ContainerLogs fails (always when the container is gone) and the function
\* returns, leaving its streamer in the table.
OpenLogs(c) ==
  /\ stream[c] = "opening"
  /\ \/ stream' = [stream EXCEPT ![c] = "returned"]
     \/ /\ docker[c] # "removed"
        /\ stream' = [stream EXCEPT ![c] = "following"]
  /\ UNCHANGED <<dockerVars, running, connVars, streamers, stopSig, creating, req, boots>>

\* Variant: the follower waits for the end of the log, not for stopChan.
StopFollowing_AtEndOfLog(c) ==
  /\ stream[c] = "following" /\ docker[c] = "removed"
  /\ stream' = [stream EXCEPT ![c] = "returned"]
  /\ UNCHANGED <<dockerVars, running, connVars, streamers, stopSig, creating, req, boots>>

StopFollowing(c) ==
  /\ stream[c] = "following" /\ c \in stopSig
  /\ stream' = [stream EXCEPT ![c] = "returned"]
  /\ UNCHANGED <<dockerVars, running, connVars, streamers, stopSig, creating, req, boots>>

-----------------------------------------------------------------------------
(* Requests.  A request that fails before it has changed anything is not   *)
(* an action.                                                              *)

Begin(h, r) == req[h].pc = "idle" /\ req' = [req EXCEPT ![h] = r]
Goto(h, pc) == req' = [req EXCEPT ![h].pc = pc]
Return(h) == req' = [req EXCEPT ![h] = Idle]
\* What a stop does when it is done with a container; stopAllContainers
\* collects its errors and continues.
Leave(h, failed) ==
  IF req[h].op = "stopall"
  THEN req' = [req EXCEPT ![h].pc = "next", ![h].errors = @ \/ failed]
  ELSE Return(h)

\* Variant: a start reconnects, as a create does.
Start_Reconnects(h, id) ==
  /\ Len(running) < MaxListed
  /\ docker[id[1]] \in {"running", "exited"}
  /\ Begin(h, [Idle EXCEPT !.op = "start", !.pc = "append", !.id = id])
  /\ docker' = [docker EXCEPT ![id[1]] = "running"]
  /\ reach' = reach \cup {id[1]}
  /\ hs' = [hs EXCEPT ![id[1]] = "dial"]
  /\ UNCHANGED <<running, conns, sock, reader, logVars, creating, boots>>

\* startContainer: Docker starts the container, or finds it running.
Start(h, id) ==
  /\ Len(running) < MaxListed
  /\ docker[id[1]] \in {"running", "exited"}
  /\ Begin(h, [Idle EXCEPT !.op = "start", !.pc = "append", !.id = id])
  /\ docker' = [docker EXCEPT ![id[1]] = "running"]
  /\ UNCHANGED <<reach, running, connVars, logVars, creating, boots>>

AppendRunning(h) ==
  /\ req[h].pc = "append"
  /\ running' = Append(running, req[h].id)
  /\ Return(h)
  /\ UNCHANGED <<dockerVars, connVars, logVars, creating, boots>>

\* stopContainer inspects first and remembers whether the container runs.
Stop(h, id) ==
  /\ docker[id[1]] \in {"running", "exited"}
  /\ Begin(h, [Idle EXCEPT !.op = "stop", !.id = id,
                 !.pc = IF docker[id[1]] = "running" THEN "kill" ELSE "streamer"])
  /\ UNCHANGED <<dockerVars, running, connVars, logVars, creating, boots>>

\* stopAllContainers lists the managed containers with their state.
StopAll(h) ==
  /\ Begin(h, [Idle EXCEPT !.op = "stopall", !.pc = "next",
                 !.listed = ManagedNow, !.todo = ManagedNow,
                 !.live = InState({"running"})])
  /\ UNCHANGED <<dockerVars, running, connVars, logVars, creating, boots>>

NextContainer(h) ==
  /\ req[h].pc = "next"
  /\ \/ \E c \in req[h].todo :
          req' = [req EXCEPT ![h].todo = @ \ {c}, ![h].id = Full(c),
                    ![h].pc = IF c \in req[h].live THEN "kill" ELSE "remove"]
     \/ req[h].todo = {} /\ Return(h)
  /\ UNCHANGED <<dockerVars, running, connVars, logVars, creating, boots>>

\* ContainerStop; a container that has exited meanwhile counts as stopped.
Kill(h) ==
  LET c == req[h].id[1] IN
  /\ req[h].pc = "kill"
  /\ docker[c] \in {"running", "exited"}
  /\ docker' = [docker EXCEPT ![c] = "exited"]
  /\ reach' = reach \ {c}
  /\ sock' = Severed(c)
  /\ Goto(h, IF req[h].op = "stopall" THEN "remove" ELSE "streamer")
  /\ UNCHANGED <<running, conns, hs, reader, logVars, creating, boots>>

\* Variant: the failure is not collected.
KillFails_Swallowed(h) ==
  /\ req[h].pc = "kill"
  /\ Leave(h, FALSE)
  /\ UNCHANGED <<dockerVars, running, connVars, logVars, creating, boots>>

\* ContainerStop fails: stopContainer returns, stopAllContainers continues
\* with the next container.
KillFails(h) ==
  /\ req[h].pc = "kill"
  /\ Leave(h, TRUE)
  /\ UNCHANGED <<dockerVars, running, connVars, logVars, creating, boots>>

\* ContainerRemove: a container that runs again, or is gone, is an error,
\* and the tables are cleaned all the same.
RemoveFromDocker(h) ==
  LET c == req[h].id[1] IN
  /\ req[h].pc = "remove"
  /\ \/ /\ docker[c] = "exited"
        /\ docker' = [docker EXCEPT ![c] = "removed"]
        /\ Goto(h, "streamer")
     \/ /\ req' = [req EXCEPT ![h].pc = "streamer", ![h].errors = TRUE]
        /\ UNCHANGED docker
  /\ UNCHANGED <<reach, running, connVars, logVars, creating, boots>>

\* stopLogStreaming(id): finds nothing under a short id.  stopAllContainers
\* goes on with the short id, stopContainer with the id it was given.
StopStreamer(h) ==
  LET id == req[h].id
      found == {c \in streamers : Full(c) = id}
  IN
  /\ req[h].pc = "streamer"
  /\ streamers' = streamers \ found
  /\ stopSig' = stopSig \cup found
  /\ req' = [req EXCEPT ![h].pc = "conn",
               ![h].id = IF req[h].op = "stopall" THEN Short(id[1]) ELSE id]
  /\ UNCHANGED <<dockerVars, running, connVars, stream, creating, boots>>

CloseStopped(h) ==
  /\ req[h].pc = "conn"
  /\ CloseConn(req[h].id)
  /\ Goto(h, "unlist")
  /\ UNCHANGED <<dockerVars, running, hs, reader, logVars, creating, boots>>

Unlist(h) ==
  /\ req[h].pc = "unlist"
  /\ running' = RemoveValue(running, req[h].id)
  /\ Leave(h, FALSE)
  /\ UNCHANGED <<dockerVars, connVars, logVars, creating, boots>>

\* publish, connect, tcpdump, dht: the connection is looked up under the
\* lock and written to after it has been released.
Command(h, c) ==
  /\ c \in conns
  /\ Begin(h, [Idle EXCEPT !.op = "command", !.pc = "write", !.id = Short(c)])
  /\ UNCHANGED <<dockerVars, running, connVars, logVars, creating, boots>>

Written(h) ==
  /\ req[h].pc = "write" /\ sock[req[h].id[1]] # "closed"
  /\ Return(h)
  /\ UNCHANGED <<dockerVars, running, connVars, logVars, creating, boots>>

\* The write fails or times out: the socket is closed, its entry stays.
WriteFails(h) ==
  /\ req[h].pc = "write"
  /\ sock' = [sock EXCEPT ![req[h].id[1]] = "closed"]
  /\ Return(h)
  /\ UNCHANGED <<dockerVars, running, conns, hs, reader, logVars, creating, boots>>

-----------------------------------------------------------------------------
Attempt(c) == ReadInitial(c) \/ ReadReply(c) \/ AttemptFails(c) \/ StartReader(c)
\* What is read from a node that is gone: what it has sent, or an error.
EndOfStream(c) == sock[c] = "dead" /\ (ReadInitial(c) \/ ReadReply(c) \/ AttemptFails(c))
Deadline(c) == GiveUp(c) \/ StopAfterFailure(c)
Reader(c) == ReaderFails(c) \/ ReaderCloses(c) \/ ReaderUnlists(c)
Streamer(c) == RegisterStreamer(c) \/ OpenLogs(c) \/ StopFollowing(c)

Proceed(h) ==
  \/ AppendRunning(h) \/ NextContainer(h) \/ Kill(h) \/ KillFails(h) \/ RemoveFromDocker(h)
  \/ StopStreamer(h) \/ CloseStopped(h) \/ Unlist(h) \/ Written(h) \/ WriteFails(h)

Next ==
  \/ Restart
  \/ \E c \in Container :
       \/ ContainerDies(c)
       \/ CreateStart(c) \/ CreateFails(c) \/ CreateFinish(c) \/ CreateAborts(c)
       \/ Dial(c) \/ Attempt(c) \/ Deadline(c)
       \/ Reader(c) \/ Streamer(c)
  \/ \E h \in Handler :
       \/ \E id \in Id : Start(h, id) \/ Stop(h, id)
       \/ StopAll(h)
       \/ \E c \in Container : Command(h, c)
       \/ Proceed(h)

\* Goroutines are scheduled, reads return once the peer is gone, writes have
\* a deadline, and after every failed attempt the 15 second timer is looked
\* at, which fires.  Nobody has to send a request, no dial has to succeed and
\* no node has to say anything.
Fairness ==
  /\ \A c \in Container : /\ WF_vars(EndOfStream(c)) /\ WF_vars(StartReader(c))
                          /\ SF_vars(GiveUp(c)) /\ WF_vars(StopAfterFailure(c))
                          /\ WF_vars(Reader(c)) /\ WF_vars(Streamer(c))
  /\ \A h \in Handler : WF_vars(Proceed(h))

Spec == Init /\ [][Next]_vars
FairSpec == Spec /\ Fairness

-----------------------------------------------------------------------------
(* Properties.                                                             *)

\* Type invariant.
TypeOK ==
  /\ docker \in [Container -> DockerState] /\ reach \subseteq Container
  /\ running \in Seq(Id)
  /\ conns \subseteq Container /\ sock \in [Container -> SockState]
  /\ hs \in [Container -> HandshakePC] /\ reader \in [Container -> ReaderPC]
  /\ streamers \subseteq Container /\ stopSig \subseteq Container
  /\ stream \in [Container -> StreamPC]
  /\ creating \subseteq Container
  /\ req \in [Handler -> Request]
  /\ boots \in Nat

\* The order of a container's life in one controller process, which makes the
\* tables' keys as good as connections: it is created before anything else,
\* handed to one handshake, and read by one goroutine, which only starts
\* when the handshake is over.
OrderOfLife ==
  \A c \in Container :
    /\ docker[c] = "absent" => stream[c] = "none" /\ hs[c] = "none" /\ c \notin creating
    /\ c \in creating => hs[c] = "none"
    /\ reader[c] # "none" => hs[c] = "done"
    /\ stream[c] \in {"none", "spawned"} => c \notin streamers \cup stopSig

\* A connection in containerConns always has a goroutine that will take it
\* out again when the container goes away: its reader, or the handshake that
\* is about to start one.  closeContainerConn, the readers' deferred calls
\* and the stop handlers run in any order.
WatchedConn ==
  \A c \in conns : hs[c] = "announce" \/ reader[c] \in {"reading", "closing"}

\* No socket is lost: one the controller has not closed is either in the
\* hands of a handshake or in containerConns, where a stop finds it.
NoLostSocket ==
  \A c \in Container :
    sock[c] \in {"open", "dead"} => hs[c] \in {"initial", "reply"} \/ c \in conns

\* The deferred closeContainerConn(id) of a reader goes by id, not by
\* connection: it must never find a live one under its id.
ReaderClosesOnlyDead ==
  \A c \in Container : reader[c] = "closing" => sock[c] # "open"

\* A log follower blocked on its stopChan can still be told to stop: its
\* streamer is in logStreamers exactly until its channel is closed.
FollowerReachable ==
  \A c \in Container :
    stream[c] \in {"opening", "following"} => (c \in streamers <=> c \notin stopSig)

\* What commands find in containerConns, and whether they ever will.
entry ==
  [c \in Container |->
     IF c \in conns THEN IF sock[c] = "open" THEN "usable" ELSE "broken"
     ELSE IF hs[c] \in {"announce", "stopping", "done"} THEN "gone" ELSE "absent"]

Registry == INSTANCE ConnectionRegistry WITH entry <- entry

\* The controller implements the registry: whatever is created, started again,
\* stopped or killed, one process connects to a container at most once, and
\* once the connection has left containerConns, or the handshake has given
\* up, no command will ever find the container again.
ImplementsRegistry == Registry!Spec

\* A stopall that reports success has removed every container it listed,
\* although each one may be started, stopped or removed by somebody else
\* while the others are dealt with.
StopAllHonest ==
  [][ \A h \in Handler :
        /\ req[h].op = "stopall" /\ req'[h].op = "none"
        /\ boots' = boots /\ ~req[h].errors
        => \A c \in req[h].listed : docker'[c] = "removed" ]_vars

\* A connection whose container is gone, or which a failed write closed,
\* leaves containerConns.
DeadConnReaped ==
  \A c \in Container : c \in conns /\ sock[c] # "open" ~> c \notin conns

\* The handshake waits for a node that is there: its reads have no deadline.
Waits(c) == hs[c] \in {"initial", "reply"} /\ sock[c] = "open"

\* Every handshake ends, with a reader or by its deadline, however often it
\* dials again, unless it waits for ever for a node that stays and is silent.
HandshakeSettles ==
  \A c \in Container :
    []<>~Waits(c) => (hs[c] # "none" ~> hs[c] \in {"none", "done"})

\* Closing a follower's channel ends its goroutine.
FollowerStops ==
  \A c \in Container : c \in stopSig ~> stream[c] \in {"none", "returned"}
=============================================================================
