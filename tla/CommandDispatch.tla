-------------------------- MODULE CommandDispatch --------------------------
(***************************************************************************)
(* How the controller hands commands to nodes (controller/main.go).        *)
(*                                                                         *)
(* An HTTP handler looks a connection up in containerConns under the read  *)
(* lock of containerConnsMu, lets the lock go and writes.  A publish may   *)
(* first tell all nodes to clear their counts: broadcastToAllContainers    *)
(* keeps the read lock while one goroutine per connection writes, and the  *)
(* handler waits for all of them.  Nothing keeps two requests from writing *)
(* to the same connection at once, which gorilla/websocket forbids: a      *)
(* writer then may fail, lose its message or panic.  net/http recovers the *)
(* panic of a handler; a panic in a goroutine of the broadcast ends the    *)
(* process.                                                                *)
(*                                                                         *)
(* The other users of the table are the goroutines of each connection: the *)
(* handshake that stores it, the reader that removes it when it breaks,    *)
(* and a stop.  They take the write lock; a reader also waits for the UI   *)
(* clients it forwards updates to, which have no write deadline.           *)
(*                                                                         *)
(* A container is connected at most once per process, as                   *)
(* ContainerLifecycle shows.                                               *)
(***************************************************************************)
EXTENDS Naturals, Sequences, FiniteSets

CONSTANTS
  Container,  \* containers that will ever be connected
  Publisher,  \* requests to publish, each served once
  Commander   \* requests to connect or to use the DHT, each served once

VARIABLES
  up,       \* the controller process lives
  uiStuck,  \* a UI client keeps its connection but does not read
  table,    \* the keys of containerConns
  sock,     \* the controller's end of each container's WebSocket
  conn,     \* the goroutine of each connection: handshake, then reader
  stopping, \* stops that wait for the write lock, by container
  want,     \* which URL a request that has not been looked at is for
  phase,    \* how far each request is
  todo,     \* writes that have been decided on
  writing,  \* writes inside WriteMessage
  mixed,    \* of those, the ones that have met another writer
  inbox,    \* history: the pubsub commands each node has been sent
  owed      \* history: the containers each publish must have told to clear,
            \* which are those it wrote to without an error

vars == <<up, uiStuck, table, sock, conn, stopping, want, phase, todo, writing,
          mixed, inbox, owed>>
connVars == <<table, sock, conn, stopping>>
requestVars == <<want, phase>>
writeVars == <<todo, writing, mixed>>

Request == Publisher \cup Commander
\* A job is a write: "command" stands for publish, connect and the DHT's.
Job == [by : Request, to : Container, what : {"clear", "command"}]

\* The peer of a stalled socket does not read, so that writes wait for their
\* deadline; after a deadline gorilla fails all writes (spoiled).  Reading
\* goes on in both cases.
SockState == {"none", "open", "stalled", "spoiled", "dead", "closed"}
Usable == {"open", "stalled", "spoiled"}
Phase == {"idle", "asked", "clearing", "choosing", "writing", "answered"}
JobsOf(r) == {j \in todo \cup writing : j.by = r}

\* containerConnsMu.  A goroutine that waits for the write lock keeps new
\* readers out; one that gets it lets it go before anything else happens.
ReadLocked == \E p \in Publisher : phase[p] = "clearing"
WriterWaits ==
  stopping # {} \/ \E c \in Container : conn[c] \in {"joining", "leaving"}

Init ==
  /\ up = TRUE /\ uiStuck = FALSE
  /\ table = {} /\ sock = [c \in Container |-> "none"]
  /\ conn = [c \in Container |-> "none"] /\ stopping = {}
  /\ want = [r \in Request |-> "none"] /\ phase = [r \in Request |-> "idle"]
  /\ todo = {} /\ writing = {} /\ mixed = {}
  /\ inbox = [c \in Container |-> <<>>]
  /\ owed = [p \in Publisher |-> {}]

-----------------------------------------------------------------------------
(* The surroundings: nodes die or stop reading, UI clients get stuck.      *)

NodeDies(c) ==
  /\ sock[c] \in Usable
  /\ sock' = [sock EXCEPT ![c] = "dead"]
  /\ UNCHANGED <<up, uiStuck, table, conn, stopping, requestVars, writeVars, inbox, owed>>

NodeStalls(c) ==
  /\ sock[c] = "open"
  /\ sock' = [sock EXCEPT ![c] = "stalled"]
  /\ UNCHANGED <<up, uiStuck, table, conn, stopping, requestVars, writeVars, inbox, owed>>

UiTurns ==
  /\ uiStuck' = ~uiStuck
  /\ UNCHANGED <<up, connVars, requestVars, writeVars, inbox, owed>>

-----------------------------------------------------------------------------
(* The goroutines of a connection.                                         *)

Goes(c, from, to) == conn[c] = from /\ conn' = [conn EXCEPT ![c] = to]

\* The node has answered set-id.
Replies(c) ==
  /\ Goes(c, "none", "joining")
  /\ sock' = [sock EXCEPT ![c] = "open"]
  /\ UNCHANGED <<up, uiStuck, table, stopping, requestVars, writeVars, inbox, owed>>

\* setContainerConn.  The handshake then announces the container to the UI
\* and starts the reader: it waits for the UI as the reader does.
Joins(c) ==
  /\ ~ReadLocked
  /\ Goes(c, "joining", "forwarding")
  /\ table' = table \cup {c}
  /\ UNCHANGED <<up, uiStuck, sock, stopping, requestVars, writeVars, inbox, owed>>

\* broadcastToClients has written to every UI client; reading goes on.  As
\* long as no client is stuck, forwarding an update takes no time.
Forwarded(c) ==
  /\ ~uiStuck
  /\ Goes(c, "forwarding", "reading")
  /\ UNCHANGED <<up, uiStuck, table, sock, stopping, requestVars, writeVars, inbox, owed>>

ReadsUpdate(c) ==
  /\ uiStuck /\ sock[c] \in Usable
  /\ Goes(c, "reading", "forwarding")
  /\ UNCHANGED <<up, uiStuck, table, sock, stopping, requestVars, writeVars, inbox, owed>>

ReadFails(c) ==
  /\ sock[c] \in {"dead", "closed"}
  /\ Goes(c, "reading", "leaving")
  /\ UNCHANGED <<up, uiStuck, table, sock, stopping, requestVars, writeVars, inbox, owed>>

\* Variant: the entry is found but not deleted.
Leaves_KeepsEntry(c) ==
  /\ ~ReadLocked
  /\ Goes(c, "leaving", "gone")
  /\ sock' = [sock EXCEPT ![c] = "closed"]
  /\ UNCHANGED <<up, uiStuck, table, stopping, requestVars, writeVars, inbox, owed>>

\* The reader's deferred closeContainerConn.
Leaves(c) ==
  /\ ~ReadLocked
  /\ Goes(c, "leaving", "gone")
  /\ table' = table \ {c}
  /\ sock' = [sock EXCEPT ![c] = "closed"]
  /\ UNCHANGED <<up, uiStuck, stopping, requestVars, writeVars, inbox, owed>>

\* The closeContainerConn of a stop has to wait for the write lock.  Where
\* there is no connection that call changes nothing and is left out.
StopWaits(c) ==
  /\ ReadLocked /\ c \in table \ stopping
  /\ stopping' = stopping \cup {c}
  /\ UNCHANGED <<up, uiStuck, table, sock, conn, requestVars, writeVars, inbox, owed>>

\* A stop closes the connection, unless the reader has been there before.
\* The reader will notice.
Stops(c) ==
  /\ ~ReadLocked /\ c \in table \cup stopping
  /\ stopping' = stopping \ {c}
  /\ table' = table \ {c}
  /\ sock' = [sock EXCEPT ![c] = "closed"]
  /\ UNCHANGED <<up, uiStuck, conn, requestVars, writeVars, inbox, owed>>

-----------------------------------------------------------------------------
(* What the UI asks for.  It knows containers from the list, so the one it *)
(* names may not be connected yet, or any more: any container may be meant *)
(* when the handler reads the request.                                     *)

Asks(r, url) ==
  /\ phase[r] = "idle"
  /\ want' = [want EXCEPT ![r] = url]
  /\ phase' = [phase EXCEPT ![r] = "asked"]
  /\ UNCHANGED <<up, uiStuck, connVars, writeVars, inbox, owed>>

\* publishToTopic.
PublishToTopic(p) == Asks(p, "publish")

\* connectTo, from connectContainers or a click on a remote peer.
ConnectTo(r) == Asks(r, "connect")

\* handleDhtProvide, ..., handleDhtGet: a POST to /dht/...
HandleDht(r) == Asks(r, "dht")

-----------------------------------------------------------------------------
(* The handlers.                                                           *)

Answers(r, answer) == phase' = [phase EXCEPT ![r] = answer]

\* Variant: the handler does not check the connection before it uses it.
LooksUp_NoCheck(r, from, c) ==
  /\ phase[r] = from /\ up /\ ~WriterWaits
  /\ want' = [want EXCEPT ![r] = "none"]
  /\ Answers(r, "writing")
  /\ todo' = todo \cup {[by |-> r, to |-> c, what |-> "command"]}
  /\ UNCHANGED <<up, uiStuck, connVars, writing, mixed, inbox, owed>>

\* RLock, find the connection of c, RUnlock.
LooksUp(r, from, c) ==
  /\ phase[r] = from /\ up /\ ~WriterWaits
  /\ want' = [want EXCEPT ![r] = "none"]
  /\ IF c \in table
     THEN Answers(r, "writing") /\ todo' = todo \cup {[by |-> r, to |-> c, what |-> "command"]}
     ELSE Answers(r, "answered") /\ UNCHANGED todo
  /\ UNCHANGED <<up, uiStuck, connVars, writing, mixed, inbox, owed>>

Handles(r, url) == want[r] = url /\ \E c \in Container : LooksUp(r, "asked", c)

ConnectHandler(r) == Handles(r, "connect")
DhtProvideHandler(r) == Handles(r, "dht")
DhtFindProviderHandler(r) == Handles(r, "dht")
DhtFindPeerHandler(r) == Handles(r, "dht")
DhtPutHandler(r) == Handles(r, "dht")
DhtGetHandler(r) == Handles(r, "dht")

\* clearStats: broadcastToAllContainers takes the read lock and spawns its
\* goroutines.
BroadcastClear(p) ==
  /\ phase[p] = "asked" /\ up /\ ~WriterWaits
  /\ todo' = todo \cup {[by |-> p, to |-> c, what |-> "clear"] : c \in table}
  /\ owed' = [owed EXCEPT ![p] = table]
  /\ Answers(p, "clearing")
  /\ UNCHANGED <<up, uiStuck, connVars, want, writing, mixed, inbox>>

\* Variant: wg.Wait is missing.
AllCleared_NoWait(p) ==
  /\ phase[p] = "clearing" /\ up
  /\ Answers(p, "choosing")
  /\ UNCHANGED <<up, uiStuck, connVars, want, writeVars, inbox, owed>>

\* wg.Wait returns and the read lock is let go.
AllCleared(p) ==
  /\ phase[p] = "clearing" /\ JobsOf(p) = {} /\ up
  /\ Answers(p, "choosing")
  /\ UNCHANGED <<up, uiStuck, connVars, want, writeVars, inbox, owed>>

\* getRandomContainerConn: no id and no connection when nobody is connected.
Chosen == IF table = {} THEN {"none"} ELSE table

\* The container the UI has named, or any one.
PublishHandler(p) ==
  \E from \in {"asked", "choosing"} :
    \/ \E c \in Container : LooksUp(p, from, c)
    \/ \E c \in Chosen : LooksUp(p, from, c)

-----------------------------------------------------------------------------
(* WriteMessage.                                                           *)

Meets(j) == {k \in writing : k.to = j.to}

Ends(j) ==
  /\ writing' = writing \ {j} /\ mixed' = mixed \ {j}
  /\ UNCHANGED todo

Starts(j) ==
  /\ j \in todo /\ up
  /\ todo' = todo \ {j} /\ writing' = writing \cup {j}
  /\ IF Meets(j) = {}
     THEN UNCHANGED mixed
     ELSE mixed' = mixed \cup Meets(j) \cup {j}
  /\ UNCHANGED <<up, uiStuck, connVars, requestVars, inbox, owed>>

Written(j) ==
  /\ j \in writing /\ up /\ sock[j.to] = "open"
  /\ Ends(j)
  /\ inbox' = IF j.by \in Publisher
              THEN [inbox EXCEPT ![j.to] = Append(@, <<j.by, j.what>>)] ELSE inbox
  /\ IF j.what = "clear" THEN UNCHANGED phase ELSE Answers(j.by, "answered")
  /\ UNCHANGED <<up, uiStuck, connVars, want, owed>>

\* The connection is broken, the deadline passes, or another writer has
\* finished this one's message.
MayFail(j) == sock[j.to] # "open" \/ j \in mixed

\* Variant: the broadcast closes connections it cannot write to, by
\* closeContainerConn, which takes the write lock.
ClearFails_ClosesConn(j) ==
  /\ j \in writing /\ j.what = "clear" /\ up /\ MayFail(j)
  /\ ~ReadLocked
  /\ Ends(j)
  /\ table' = table \ {j.to} /\ sock' = [sock EXCEPT ![j.to] = "closed"]
  /\ owed' = [owed EXCEPT ![j.by] = @ \ {j.to}]
  /\ UNCHANGED <<up, uiStuck, conn, stopping, requestVars, inbox>>

\* A broadcast only logs the error.
ClearFails(j) ==
  /\ j \in writing /\ j.what = "clear" /\ up /\ MayFail(j)
  /\ Ends(j)
  /\ sock' = [sock EXCEPT ![j.to] = IF @ = "stalled" THEN "spoiled" ELSE @]
  /\ owed' = [owed EXCEPT ![j.by] = @ \ {j.to}]
  /\ UNCHANGED <<up, uiStuck, table, conn, stopping, requestVars, inbox>>

\* A handler closes the connection and leaves its entry to the reader.
CommandFails(j) ==
  /\ j \in writing /\ j.what # "clear" /\ up /\ MayFail(j)
  /\ Ends(j)
  /\ sock' = [sock EXCEPT ![j.to] = "closed"]
  /\ Answers(j.by, "answered")
  /\ UNCHANGED <<up, uiStuck, table, conn, stopping, want, inbox, owed>>

\* "concurrent write to websocket connection".
Panics(j) ==
  /\ j \in mixed /\ up
  /\ Ends(j)
  /\ IF j.what = "clear"
     THEN up' = FALSE /\ UNCHANGED phase
     ELSE Answers(j.by, "answered") /\ UNCHANGED up
  /\ UNCHANGED <<uiStuck, connVars, want, inbox, owed>>

-----------------------------------------------------------------------------
Connection(c) == up /\ (Joins(c) \/ Forwarded(c) \/ ReadFails(c) \/ Leaves(c))
Handler(r) ==
  \/ ConnectHandler(r) \/ DhtProvideHandler(r) \/ DhtFindProviderHandler(r)
  \/ DhtFindPeerHandler(r) \/ DhtPutHandler(r) \/ DhtGetHandler(r)
Publishing(p) == BroadcastClear(p) \/ AllCleared(p) \/ PublishHandler(p)
Write(j) == Starts(j) \/ Written(j) \/ ClearFails(j) \/ CommandFails(j) \/ Panics(j)

Next ==
  \/ up /\ UiTurns
  \/ \E c \in Container :
       \/ up /\ (NodeDies(c) \/ NodeStalls(c) \/ Replies(c) \/ ReadsUpdate(c)
                 \/ StopWaits(c) \/ Stops(c))
       \/ Connection(c)
  \/ \E p \in Publisher : PublishToTopic(p) \/ Publishing(p)
  \/ \E r \in Commander : ConnectTo(r) \/ HandleDht(r) \/ Handler(r)
  \/ \E j \in todo \cup writing : Write(j)

Spec == Init /\ [][Next]_vars
FairSpec ==
  /\ Spec
  /\ \A c \in Container : WF_vars(Connection(c)) /\ WF_vars(up /\ c \in stopping /\ Stops(c))
  /\ WF_vars(\E p \in Publisher : Publishing(p))
  /\ WF_vars(\E r \in Commander : Handler(r))
  /\ WF_vars(\E j \in todo \cup writing : Write(j))

-----------------------------------------------------------------------------
(* Properties.                                                             *)

\* Type invariant.
TypeOK ==
  /\ up \in BOOLEAN /\ uiStuck \in BOOLEAN
  /\ table \subseteq Container
  /\ sock \in [Container -> SockState]
  /\ conn \in [Container -> {"none", "joining", "reading",
                            "forwarding", "leaving", "gone"}]
  /\ stopping \subseteq Container
  /\ want \in [Request -> {"none", "publish", "connect", "dht"}] /\ phase \in [Request -> Phase]
  /\ todo \subseteq Job /\ writing \subseteq Job /\ mixed \subseteq writing
  /\ inbox \in [Container -> Seq(Publisher \X {"clear", "command"})]
  /\ owed \in [Publisher -> SUBSET Container]

\* One request alone never has two writers on a connection, so a clash, with
\* its lost message, its panic or the end of the process, takes two requests
\* at the same time: the goroutines of a broadcast are over before the
\* handler writes to one of the connections they wrote to.
ClashTakesTwo ==
  \A j, k \in writing : j.to = k.to /\ j # k => j.by # k.by

\* When a publish that clears has reached a node, every node connected at
\* the time of the clear has been told to clear, unless that write failed,
\* and the publishing node was told before: a count that is raised by this
\* publish is not reset by its clear.
ClearedBeforePublish ==
  \A p \in Publisher, c \in Container :
    \A i \in DOMAIN inbox[c] :
      inbox[c][i] = <<p, "command">> =>
        \A d \in owed[p] :
          \E k \in DOMAIN inbox[d] :
            inbox[d][k] = <<p, "clear">> /\ (d = c => k < i)

\* Every request is answered as long as the process lives, whether or not
\* nodes read, connections come and go, or a UI client has got stuck: the
\* commands never wait for the UI, and the read lock a broadcast keeps is
\* let go by the deadlines of its writes.
RequestsAnswered ==
  \A r \in Request : phase[r] # "idle" ~> phase[r] = "answered" \/ ~up

\* A connection that is broken, or that a failed command has closed, leaves
\* the table, unless some UI client stays stuck: the readers forward updates
\* under clientsMu without a deadline.
BrokenConnLeaves ==
  \A c \in Container :
    c \in table /\ sock[c] \in {"dead", "closed"} ~> c \notin table \/ uiStuck \/ ~up

\* What a command finds under the container's id.
entry ==
  [c \in Container |->
     IF c \in table THEN IF sock[c] \in Usable THEN "usable" ELSE "broken"
     ELSE IF conn[c] \in {"none", "joining"} THEN "absent" ELSE "gone"]

Registry == INSTANCE ConnectionRegistry WITH entry <- entry

\* To those who send commands the table is the registry ContainerLifecycle
\* implements: whatever broadcasts, commands that fail and readers that wait
\* for the UI do to it, nobody who is gone is found again.
ImplementsRegistry == Registry!Spec
=============================================================================
