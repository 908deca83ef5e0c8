-------------------------- MODULE ContainerListFeed --------------------------
(***************************************************************************)
(* What the user interface is told: the list of running containers and the *)
(* status of their nodes, from the controller (controller/main.go) over    *)
(* one WebSocket to a page (controller-ui/src/pages/index.tsx).            *)
(*                                                                         *)
(* broadcastContainers asks Docker for the list and then broadcasts it; a  *)
(* goroutine per Docker event, one per new client, one per new container   *)
(* and a loop do so at the same time, so an old list may follow a newer    *)
(* one.  Readers of node connections broadcast the updates they read.  A   *)
(* broadcast has clientsMu locked from the first write to the last.        *)
(*                                                                         *)
(* The page keeps data for the containers of the last list, drops updates  *)
(* of containers it has no data for, and shows the peers its containers    *)
(* are connected to as remote peers unless they are containers.            *)
(*                                                                         *)
(* Taken for granted:                                                      *)
(*  - Messages of a connection arrive in order, so the page's state is the *)
(*    one it will have when it has read what was written to it.            *)
(*  - An update tells what the node is connected to when it is read, and   *)
(*    maybe the node's peer id (full updates do); how a node comes to send *)
(*    the right ones is StatusUpdates' and GoStatusServer's.               *)
(*  - Node and page read what they are sent: no write blocks for good.     *)
(*  - React renders after every message.  isPeerIdAssignedToContainer, in  *)
(*    the handler of a message, sees the data of the first render: none.   *)
(***************************************************************************)
EXTENDS Integers, FiniteSets, TLC

CONSTANTS
  Container,     \* containers; also stands for the peer ids of their nodes
  Outsider,      \* peers that are no containers
  Task,          \* bound: goroutines of broadcastContainers at once
  MaxChanges,    \* bound: changes of what runs and who is connected to whom
  MaxConnects,   \* bound: connections of the page
  MaxBoots       \* bound: starts of the controller

ASSUME BoundsAssumption ==
  /\ MaxChanges \in Nat /\ MaxConnects \in Nat /\ MaxBoots \in Nat \ {0}
ASSUME NamesAssumption == Container \cap Outsider = {} /\ "loop" \notin Task

VARIABLES
  running, made,   \* Docker: containers that run, that were ever created
  net,             \* the peers each node is connected to
  dialling,        \* containers whose handshake is going on
  cut,             \* those that ended: what is dialled or read is gone
  reader,          \* the goroutine of a container's handshake and updates
  caster,          \* the goroutines in broadcastContainers, the loop's too
  spawned,         \* those that have not asked Docker yet
  events,          \* Docker events not yet received
  watching,        \* the goroutine that receives them goes on
  clients,         \* the controller's clients, numbered as they connect
  joining,         \* upgraded, not yet entered in clients
  link,            \* the page's WebSocket
  connects, boots, changes,
  shown, data, remote   \* the page: containers, peerData, remotePeerData

docker == <<running, made, net, changes>>
readers == <<dialling, cut, reader>>
casters == <<caster, spawned, events, watching>>
server == <<clients, joining, boots>>
page == <<shown, data, remote>>
vars == <<docker, readers, casters, server, link, connects, page>>

Peer == Container \cup Outsider
Caster == Task \cup {"loop"}

Status == [id : Container, full : BOOLEAN, peers : SUBSET Peer]
NoList == [pc |-> "idle", list |-> {}]
Off(c) == [pc |-> "off", list |-> {}, msg |-> [id |-> c, full |-> FALSE, peers |-> {}]]

Init ==
  /\ running = {} /\ made = {} /\ net = [c \in Container |-> {}] /\ changes = 0
  /\ dialling = {} /\ cut = {} /\ reader = [c \in Container |-> Off(c)]
  /\ caster = [t \in Caster |-> NoList] /\ spawned = 0 /\ events = 0
  /\ watching = TRUE
  /\ clients = {} /\ joining = {} /\ boots = 1
  /\ link = "closed" /\ connects = 0
  /\ shown = {} /\ data = <<>> /\ remote = {}

-----------------------------------------------------------------------------
(* Docker and the nodes.                                                   *)

\* A container is created, and the controller dials it.
Created(c) ==
  /\ changes < MaxChanges /\ c \notin made
  /\ changes' = changes + 1
  /\ made' = made \cup {c} /\ running' = running \cup {c}
  /\ dialling' = dialling \cup {c} /\ events' = events + 1
  /\ UNCHANGED <<net, cut, reader, caster, spawned, watching, server, link, connects, page>>

\* A container that was stopped is started again; nobody dials it.
Started(c) ==
  /\ changes < MaxChanges /\ c \in made \ running
  /\ changes' = changes + 1
  /\ running' = running \cup {c} /\ events' = events + 1
  /\ UNCHANGED <<made, net, readers, caster, spawned, watching, server, link,
                 connects, page>>

\* It is stopped, or exits by itself: that is a "die", which the controller
\* has not subscribed to.
Ended(c) ==
  /\ changes < MaxChanges /\ c \in running
  /\ changes' = changes + 1
  /\ running' = running \ {c} /\ net' = [net EXCEPT ![c] = {}]
  /\ cut' = cut \cup {c} /\ events' \in {events, events + 1}
  /\ UNCHANGED <<made, dialling, reader, caster, spawned, watching, server, link, connects, page>>

\* A node gains or loses a connection.
Connection(c, p) ==
  /\ changes < MaxChanges /\ c \in running /\ p # c
  /\ changes' = changes + 1
  /\ net' = [net EXCEPT ![c] = IF p \in @ THEN @ \ {p} ELSE @ \cup {p}]
  /\ UNCHANGED <<running, made, readers, casters, server, link, connects, page>>

-----------------------------------------------------------------------------
(* The page.                                                               *)

\* The effect that prunes remotePeerData to the peers in use.
Prune(peers, known) == peers \cap UNION {known[c].peers : c \in DOMAIN known}

\* initializeContainerData: data of containers still listed is retained.
Initialized(list) ==
  [c \in list |-> IF c \in DOMAIN data THEN data[c] ELSE [named |-> FALSE, peers |-> {}]]

\* A containerList message.
Lists(list) ==
  /\ shown' = list
  /\ data' = Initialized(list)
  /\ remote' = Prune(remote, data')

\* Peers the page knows to be containers.
ContainerPeers == {c \in DOMAIN data : data[c].named}

\* Variant: those that are containers are skipped only.
Merged_Skips(peers) == remote \cup (peers \ ContainerPeers)

\* The remote peers of an update: those that are containers are removed, the
\* others tracked.
Merged(peers) == (remote \ (peers \cap ContainerPeers)) \cup (peers \ ContainerPeers)

\* Variant: the handler updates the data it closes over, that of the first
\* render, and not the latest.
Updates_Closure(msg) ==
  /\ data' = (msg.id :> [named |-> msg.full, peers |-> msg.peers])
  /\ remote' = Prune(Merged(msg.peers), data')
  /\ UNCHANGED shown

\* handleNodeStatusUpdate.
Updates(msg) ==
  \/ /\ msg.id \notin DOMAIN data
     /\ remote' = IF msg.full THEN remote \ {msg.id} ELSE remote
     /\ UNCHANGED <<shown, data>>
  \/ /\ msg.id \in DOMAIN data
     /\ data' = [data EXCEPT ![msg.id] = [named |-> @.named \/ msg.full, peers |-> msg.peers]]
     /\ remote' = Prune(Merged(msg.peers), data')
     /\ UNCHANGED shown

\* stopAllContainers of the page empties it before it asks the controller,
\* which stops the containers one by one (Ended).  A refusal is only logged.
Empties ==
  /\ changes < MaxChanges /\ changes' = changes + 1
  /\ shown' = {} /\ data' = <<>> /\ remote' = {}
  /\ UNCHANGED <<running, made, net, readers, casters, server, link, connects>>

\* The WebSocket opens, at first or after the 3 seconds of attemptReconnect.
Opens ==
  /\ link = "closed" /\ connects < MaxConnects
  /\ link' = "open" /\ connects' = connects + 1
  /\ joining' = joining \cup {connects'}
  /\ UNCHANGED <<docker, readers, casters, clients, boots, page>>

\* It breaks.  What is written to it from now on is lost.
Breaks ==
  /\ link = "open" /\ link' = "broken"
  /\ UNCHANGED <<docker, readers, casters, server, connects, page>>

\* onclose: the page keeps what it has.
Notices ==
  /\ link = "broken" /\ link' = "closed"
  /\ UNCHANGED <<docker, readers, casters, server, connects, page>>

-----------------------------------------------------------------------------
(* The controller.                                                         *)

\* The connection the page listens to.
Live == IF link = "open" THEN {connects} ELSE {}

\* broadcastToClients.  A write to a connection that is broken may fail, and
\* the client is dropped; it may also look as if it had been sent.
Drops == \E gone \in SUBSET (clients \ Live) : clients' = clients \ gone

Heard == Live \cap clients # {}

CastList(list) ==
  /\ Drops
  /\ IF Heard THEN Lists(list) ELSE UNCHANGED page

CastStatus(msg) ==
  /\ Drops
  /\ IF Heard THEN Updates(msg) ELSE UNCHANGED page

\* broadcastContainers asks Docker, which may fail, in a goroutine that was
\* spawned for it ...
AsksDocker(t) ==
  /\ spawned > 0 /\ caster[t].pc = "idle"
  /\ spawned' = spawned - 1
  /\ \/ caster' = [caster EXCEPT ![t] = [pc |-> "cast", list |-> running]]
     \/ UNCHANGED caster
  /\ UNCHANGED <<docker, readers, events, watching, server, link, connects, page>>

\* Variant: the loop broadcasts the containers the controller started.
LoopAsks_Made ==
  /\ caster["loop"].pc = "idle"
  /\ caster' = [caster EXCEPT !["loop"] = [pc |-> "cast", list |-> made]]
  /\ UNCHANGED <<docker, readers, spawned, events, watching, server, link, connects, page>>

\* ... or every 5 seconds ...
LoopAsks ==
  /\ caster["loop"].pc = "idle"
  /\ caster' = [caster EXCEPT !["loop"] = [pc |-> "cast", list |-> running]]
  /\ UNCHANGED <<docker, readers, spawned, events, watching, server, link, connects, page>>

\* ... and broadcasts the answer.
Casts(t) ==
  /\ caster[t].pc = "cast"
  /\ CastList(caster[t].list)
  /\ caster' = [caster EXCEPT ![t] = NoList]
  /\ UNCHANGED <<docker, readers, spawned, events, watching, joining, boots, link, connects>>

\* Variant: it goes on receiving when there is nothing to receive.
Event_Closed ==
  /\ watching
  /\ events' = events - 1 /\ spawned' = spawned + 1
  /\ UNCHANGED <<docker, readers, caster, watching, server, link, connects, page>>

\* An event is received.
Event ==
  /\ watching /\ events > 0
  /\ events' = events - 1 /\ spawned' = spawned + 1
  /\ UNCHANGED <<docker, readers, caster, watching, server, link, connects, page>>

\* The event stream fails, and its goroutine returns for good.
EventsFail ==
  /\ watching /\ watching' = FALSE /\ events' = 0
  /\ UNCHANGED <<docker, readers, caster, spawned, server, link, connects, page>>

\* wsHandler, after the upgrade.
Joins(n) ==
  /\ n \in joining /\ joining' = joining \ {n}
  /\ clients' = clients \cup {n}
  /\ spawned' = spawned + 1
  /\ UNCHANGED <<docker, readers, caster, events, watching, boots, link, connects, page>>

\* The read loop of a client that has gone.
Leaves(n) ==
  /\ n \in clients \ Live
  /\ clients' = clients \ {n}
  /\ UNCHANGED <<docker, readers, casters, joining, boots, link, connects, page>>

\* The response to set-id has been read, and the connection is stored.
Handshake(c) ==
  /\ c \in dialling \ cut /\ reader[c].pc = "off"
  /\ dialling' = dialling \ {c}
  /\ \E full \in BOOLEAN :
       reader' = [reader EXCEPT ![c] =
                    [pc |-> "ask", list |-> {}, msg |-> [id |-> c, full |-> full, peers |-> net[c]]]]
  /\ UNCHANGED <<docker, cut, casters, server, link, connects, page>>

\* The 15 seconds are over; a creation ends with a broadcast.
GivesUp(c) ==
  /\ c \in dialling /\ dialling' = dialling \ {c}
  /\ spawned' \in {spawned, spawned + 1}
  /\ UNCHANGED <<docker, cut, reader, caster, events, watching, server, link, connects, page>>

\* The list is sent before the first update, unless Docker fails ...
ReaderAsks(c) ==
  /\ reader[c].pc = "ask"
  /\ \/ reader' = [reader EXCEPT ![c].pc = "list", ![c].list = running]
     \/ reader' = [reader EXCEPT ![c].pc = "first"]
  /\ UNCHANGED <<docker, dialling, cut, casters, server, link, connects, page>>

ReaderLists(c) ==
  /\ reader[c].pc = "list"
  /\ CastList(reader[c].list)
  /\ reader' = [reader EXCEPT ![c].pc = "first", ![c].list = {}]
  /\ UNCHANGED <<docker, dialling, cut, casters, joining, boots, link, connects>>

\* ... then the response.  A creation ends with another broadcast.
ReaderStarts(c) ==
  /\ reader[c].pc = "first"
  /\ CastStatus(reader[c].msg)
  /\ reader' = [reader EXCEPT ![c] = [Off(c) EXCEPT !.pc = "read"]]
  /\ spawned' \in {spawned, spawned + 1}
  /\ UNCHANGED <<docker, dialling, cut, caster, events, watching, joining, boots, link, connects>>

Reads(c) ==
  /\ reader[c].pc = "read" /\ c \notin cut
  /\ \E full \in BOOLEAN :
       reader' = [reader EXCEPT ![c].pc = "send",
                                ![c].msg = [id |-> c, full |-> full, peers |-> net[c]]]
  /\ UNCHANGED <<docker, dialling, cut, casters, server, link, connects, page>>

\* A full update comes again and again.
ReadsFull(c) == Reads(c) /\ reader'[c].msg.full

Sends(c) ==
  /\ reader[c].pc = "send"
  /\ CastStatus(reader[c].msg)
  /\ reader' = [reader EXCEPT ![c] = [Off(c) EXCEPT !.pc = "read"]]
  /\ UNCHANGED <<docker, dialling, cut, casters, joining, boots, link, connects>>

\* The container has ended.  (One that was started again has a new port and
\* process: the old connection is just as dead.)
ReaderEnds(c) ==
  /\ reader[c].pc = "read" /\ c \in cut
  /\ reader' = [reader EXCEPT ![c] = Off(c)]
  /\ UNCHANGED <<docker, dialling, cut, casters, server, link, connects, page>>

\* The controller stops and is started again: it dials what runs.
Restart ==
  /\ boots < MaxBoots /\ boots' = boots + 1
  /\ dialling' = running /\ cut' = {} /\ reader' = [c \in Container |-> Off(c)]
  /\ caster' = [t \in Caster |-> NoList] /\ spawned' = 0
  /\ events' = 0 /\ watching' = TRUE
  /\ clients' = {} /\ joining' = {}
  /\ link' = IF link = "open" THEN "broken" ELSE link
  /\ UNCHANGED <<docker, connects, page>>
-----------------------------------------------------------------------------
CasterStep ==
  \/ LoopAsks \/ Event
  \/ \E t \in Task : AsksDocker(t)
  \/ \E t \in Caster : Casts(t)

ReaderStep(c) ==
  \/ Handshake(c) \/ ReaderAsks(c) \/ ReaderLists(c) \/ ReaderStarts(c)
  \/ Reads(c) \/ Sends(c) \/ ReaderEnds(c)

Next ==
  \/ \E c \in Container :
       Created(c) \/ Started(c) \/ Ended(c) \/ GivesUp(c) \/ ReaderStep(c)
  \/ \E c \in Container, p \in Peer : Connection(c, p)
  \/ Empties \/ Opens \/ Breaks \/ Notices
  \/ CasterStep \/ EventsFail \/ Restart
  \/ \E n \in 1..MaxConnects : Joins(n) \/ Leaves(n)

Spec == Init /\ [][Next]_vars

\* Goroutines run, a node sends full updates for ever, the page's timer fires
\* and its WebSocket opens.  Docker need not report an event (the stream may
\* fail), nor answer a single listing except that the loop's goes through
\* again and again; no handshake need succeed.
Fairness ==
  /\ WF_vars(LoopAsks) /\ WF_vars(Opens) /\ WF_vars(Notices)
  /\ \A t \in Task : WF_vars(AsksDocker(t))
  /\ \A t \in Caster : WF_vars(Casts(t))
  /\ \A n \in 1..MaxConnects : WF_vars(Joins(n))
  /\ \A c \in Container :
       /\ WF_vars(ReaderAsks(c) \/ ReaderLists(c) \/ ReaderStarts(c) \/ Sends(c) \/ ReaderEnds(c))
       /\ SF_vars(ReadsFull(c))

FairSpec == Spec /\ Fairness

-----------------------------------------------------------------------------
(* Properties.                                                             *)

\* The types of the variables.
TypeOK ==
  /\ running \subseteq made /\ made \subseteq Container
  /\ net \in [Container -> SUBSET Peer] /\ changes \in 0..MaxChanges
  /\ dialling \subseteq Container /\ cut \subseteq Container
  /\ reader \in [Container -> [pc : {"off", "ask", "list", "first", "read", "send"},
                                list : SUBSET Container, msg : Status]]
  /\ caster \in [Caster -> [pc : {"idle", "cast"}, list : SUBSET Container]]
  /\ spawned \in Nat /\ events \in Nat /\ watching \in BOOLEAN
  /\ clients \subseteq 1..MaxConnects /\ joining \subseteq 1..MaxConnects
  /\ boots \in 1..MaxBoots
  /\ link \in {"closed", "open", "broken"} /\ connects \in 0..MaxConnects
  /\ shown \subseteq Container /\ remote \subseteq Peer
  /\ \A c \in DOMAIN data : c \in Container /\ data[c] \in [named : BOOLEAN, peers : SUBSET Peer]

\* Whatever order lists were asked for and broadcast in, whatever events got
\* lost and however often the page has connected again, a page that is
\* connected ends up showing the containers that run.
ListConverges == <>[](link = "open" => shown = running)

Linked(c) == reader[c].pc \in {"read", "send"} /\ c \notin cut

\* ... and knows of each of them that has a connection to the controller who
\* it is and whom it is connected to, although it drops updates that come
\* before the container is listed and data of containers an old list misses,
\* and the controller starts again and the page connects to the new one.
StatusConverges ==
  <>[](link = "open" => \A c \in running :
         Linked(c) => c \in DOMAIN data /\ data[c] = [named |-> TRUE, peers |-> net[c]])

\* A node that was first seen as the remote peer of another one does not stay
\* there once it is known as a container.  (The containers shown must be
\* linked: one that was stopped and started again between two lists keeps
\* its last data, and with it the remote peers it had.)
NobodyShownTwice ==
  <>[](link = "open" /\ (\A c \in running : Linked(c)) => remote \cap ContainerPeers = {})
=============================================================================
