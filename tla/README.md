# TLA+ verification of the libp2p playground

The playground runs libp2p nodes in Docker containers, shapes their network, and
shows what they do. This directory models the parts of it that carry state through
concurrency, failure and retries, checks them with TLC on small instances and
proves, with TLAPS, every safety property of its passing runs for every size: those of the
controller's connections, commands, lists and shutdown, of both nodes, and of the page's
list, counts and layout. What stays with TLC is liveness.
Line numbers refer to the repository's `src/` tree.

## The system

| Component | Where | State | Operations | Talks to |
|---|---|---|---|---|
| container lifecycle | `controller/main.go` | `runningContainers`, `containerConns`, `logStreamers`, each under its own mutex; one goroutine per handshake, reader and log follower | create, start, stop, stopall, `repopulateState` | Docker (API), nodes (WebSocket), UI (HTTP) |
| controller shutdown | `controller/main.go` `cleanup` | a range loop over `runningContainers` | SIGTERM/SIGINT | lifecycle, Docker |
| container list feed | `controller/main.go` `listContainers`, `broadcastContainers`, `wsHandler` | `clients` | list, broadcast, Docker events, 5 s loop | UI (WebSocket) |
| command dispatch | `controller/main.go` `publishHandler` ... `dhtGetHandler`, the page's requests for them | none of its own; a read lock kept across the writes of a broadcast | look a connection up, write a command, broadcast one | nodes, UI (HTTP) |
| network emulation, logs, tcpdump | `controller/main.go` | none | `tc`, `docker logs`, `tcpdump` in the container | Docker |
| status updates | `js-nodes/src/status-server.ts` | the `last*` members, the update counter, its intervals | delta and full updates, libp2p events | controller |
| DHT commands | `js-nodes/src/status-server.ts` | `lastDht*`, one `AbortController` per abortable command | provide, find provider, find peer, put, get | controller, DHT |
| pubsub commands | `js-nodes/src/status-server.ts` | `message`, `messageCount` | publish, clearpubsub, message event | controller, gossipsub |
| node set-up | `js-nodes/src/*.ts`, `go-nodes/bootstrapper` | configuration | start | libp2p |
| Go status server | `go-nodes/.../statusserver.go` | `clients`, `MessageCount` | full updates by handler and ticker | controller |
| user interface | `controller-ui/src/pages/index.tsx` | `containers`, `peerData`, `remotePeerData`, convergence; edges, refs and counters of the simulation | requests, WebSocket messages, effects, animation frames | controller |
| legacy nodes | `legacy-nodes/src` | as the JavaScript node | older copy of it | controller |

How a container lives: the UI asks for one (`POST /containers/create`); the
controller creates and starts it, spawns a goroutine that follows its log, inspects
it for its host port and spawns the handshake, which dials the node's status server,
reads a message, writes `set-id`, reads another message, stores the connection in
`containerConns` and leaves a reader goroutine behind that forwards the node's
updates to all UI clients. Commands look the connection up and write to it. A stop
visits the three tables one after the other; so does the reader when its connection
breaks.

### What is hard in it, and what makes it correct

* **Three tables, three locks.** No operation holds two of them. Correct means that
  whatever the order, an entry of `containerConns` has somebody to remove it, a
  socket is never lost, a log follower can be told to stop, and a deferred close by
  id never hits another connection.
* **Goroutines that outlive their request**: handshake, reader, follower. They race
  with stop, stopall, the death of the container and the controller's restart.
* **Partial failure** in `stopAllContainers`, which continues after errors.
* **Shutdown** ranges over a slice that it and others modify in place.
* **Async updates that overtake one another** in the node: they read, await, read
  again, compare with shared memory and send. Correct means that the observer ends up
  with the truth, and that the fields read last never go backwards.
* **Lists, updates and counts that travel apart.** The controller lists and then
  broadcasts, a node gathers an update and then waits for a lock, a command that clears a
  count races with the messages to be counted. Correct means that what is shown last is
  right, and that what is shown on the way is never contradictory.
* **Several writers of one WebSocket** in the Go node, with a table of clients that each
  client's handler and each broadcast remove from.
* **Commands that share a connection.** Handlers look it up under a lock and write to it
  without one; a broadcast writes to all of them under a read lock that readers, stops and
  handshakes wait for. Correct means that a request never gets in its own way, that a
  publish does not overtake its own clear, and that every request is answered.
* **Effects and frames** in the page: every frame sets the data that the edges depend on,
  and the edges restart the simulation. Correct means one simulation, which ends, and
  ends with the page's edges.
* **Commands that share a result** and abort each other. Correct means that a result
  is settled when nobody works on it and that the newest command is not the one
  aborted.

Every hazard met is listed with its line in `PROJECT.json`.

## Modules

| Module | Models |
|---|---|
| `ContainerLifecycle` | the container lifecycle: controller process, tables, goroutines, requests, Docker, restart |
| `MCContainerLifecycle` | its instances for TLC |
| `ContainerLifecycleProofs` | its theorems and those of `ControllerShutdown` |
| `ConnectionRegistry` | the abstract specification of the controller's connections, implemented by `ContainerLifecycle`, `ControllerShutdown` and `CommandDispatch` |
| `ControllerShutdown` | `cleanup`, composed with all of `ContainerLifecycle` |
| `MCControllerShutdown` | its instances, and the initial states in which all containers run |
| `CommandDispatch` | the requests that become commands to nodes, and who else uses the connections |
| `MCCommandDispatch` | its instance |
| `CommandDispatchProofs` | its theorems |
| `StatusUpdates` | deltas, full updates and event updates of one node, its observer |
| `MCStatusUpdates` | its instances |
| `StatusUpdatesProofs` | its theorems |
| `DhtQueries` | the five DHT commands of one node |
| `MCDhtQueries` | its instances |
| `DhtQueriesProofs` | its theorems |
| `GoStatusServer` | the status server of the Go node and the handshake the controller has with it |
| `MCGoStatusServer` | its instances |
| `GoStatusServerProofs` | its theorems |
| `ContainerListFeed` | the controller's list and update broadcasts, and the page they reach |
| `MCContainerListFeed` | its instances, and the initial states of a page that has just connected |
| `ContainerListFeedProofs` | its theorems |
| `Convergence` | clearing, publishing, counting, and the page's decision that all nodes have it |
| `MCConvergence` | its instances |
| `ConvergenceProofs` | its theorems |
| `ForceLayout` | the page's graph: edges, effects and the simulation |
| `MCForceLayout` | its instance |
| `ForceLayoutProofs` | its theorems |

Each module starts with what it takes for granted. Some of its operators have a twin
with a suffix (`ReaderFails_JustReturns` next to `ReaderFails`): the same step with a
plausible mistake in it. Nothing uses the twins; replacing an operator by its twin
shows that a property notices.

### ContainerLifecycle

| Variable | Code |
|---|---|
| `docker`, `reach` | the daemon's containers; those whose host port is the one the handshake was given. A restarted container gets a new port, so it leaves `reach` when it exits |
| `running` | `runningContainers`, with short and full ids, as callers append them |
| `conns` | the keys of `containerConns` |
| `sock` | the controller's socket for the container: `open`, `dead` (the peer is gone), `closed` (the controller closed it) |
| `hs` | the goroutine in `setContainerIDAndListen` |
| `reader` | the goroutine reading updates, with the two critical sections of its deferred `closeContainerConn` |
| `streamers`, `stopSig`, `stream` | the keys of `logStreamers`, the closed `stopChan`s, the goroutine in `startLogStreaming` |
| `creating`, `req` | create requests after the container was started; start, stop, stopall and command requests between two of their steps |
| `boots` | controller processes |

One action is one critical section or one Docker call of a handler; a mutex that is
held without a Docker call or a wait inside is the atomicity of its action. Docker
may fail at any call that changes something.

Things the module takes for granted, each from the code:

* Keys are as good as connections: a container is handed to `setContainerIDAndListen`
  once per controller process, by create or by `repopulateState`. `OrderOfLife`, which is proved, says
  that.
* A refused dial changes nothing, so its retries are stuttering.
* Nodes send JSON objects, so `addTypeToMessage` does not fail (`main.go:521-524`; if it
  did, the connection would be in the table without a reader).
* The context of a create request is cancelled when its handler returns, which is
  before the handshake can fail; `ContainerInspect` in the `stopContainer` that follows
  therefore fails (`StopAfterFailure`).
* Stop may be asked with a short id (the UI's list) or a full one (the create
  response): `stopLogStreaming` only knows full ids, `closeContainerConn` short ones.

Bounds: `Container`, `Handler`, `MaxListed` (entries of `running` a start may add to),
`MaxBoots`.

### ConnectionRegistry

What a command finds under the id of a container: `absent` until the handshake has
stored a connection, then `usable` or `broken`, then `gone` until the controller is
restarted. `ContainerLifecycle` maps its tables, sockets, handshakes and readers to it;
`CommandDispatch` maps its own, smaller view of the same code. What the second takes for
granted (a container joins once) is what the first provides, and both provide that who
is gone is never found again.

### ControllerShutdown

Adds the goroutine of the signal handler: `step`, the `bound` and `index` of its range
loop, the `array` it ranges over (shared with `running` until an append moves one of
them), the `lock` it holds across two Docker calls, and two history variables. Every
other step of the controller goes on (`Serving`), except that an operation that needs
`runningContainersMu` waits while `lock` is set.

### CommandDispatch

| Variable | Code |
|---|---|
| `table`, `sock`, `conn` | `containerConns`, its sockets, and the goroutine of each connection: the end of the handshake, the reader, its deferred close |
| `stopping` | stops that wait for the write lock to close a connection |
| `want`, `phase` | the request a page has made, and how far its handler is |
| `todo`, `writing`, `mixed` | writes decided on, inside `WriteMessage`, and those that have met another writer there |
| `up`, `uiStuck` | the process lives; a UI client does not read |
| `inbox`, `owed` | history: what each node has been sent, and who had to be told to clear |

`containerConnsMu` is a read-write lock: `ReadLocked` while a broadcast waits for its
writes, `WriterWaits` while a goroutine waits to write the table, which keeps new readers
out. A write on a stalled socket ends by its deadline and spoils the socket, as gorilla
does. Two writers on one connection: either message may get lost, or the later writer
panics; net/http recovers a handler's panic and nobody that of a broadcast's goroutine.
The JSON of the commands is left out, and with it all that tells the five DHT commands
apart.

### StatusUpdates

The fields of an update are grouped by what the code does with them: read before the
first await (`peers`), only in full updates and events (`conns`), read in the second
await (`remote`), read in the block that sends (`mesh`), and three with a twist
(`fanout`: not looked for by `sendUpdate`; `rtts`: also written by a timer;
`dialTime`: compared but not remembered by a delta). Values are version numbers. An
async call is a `task` that stops at each await; two may be in progress. After the
last await a block of code runs to its `ws.send` without waiting for anything but
resolved promises, so it is one step. `Dialled` is the end of the `connect` handler, which
sets the dial time for later updates to send.

### DhtQueries

A handler per command received, stopped at its awaits: sending the "aborted" update,
sending the "searching" update, and the query. `control` says whose `AbortController`
the member holds. Results are sequences of items; `found` stands for a peer id or an
address. A search that ends without a provider leaves its list at "searching"
(`NoMoreProviders`): `WorkShownIsUnderWay` claims nothing of it.

### GoStatusServer

| Variable | Code |
|---|---|
| `phase` | how far `main` is: the message reader runs after `JoinSubscribe`, `n.Topic` is set after `Relay`. A full update before that calls `ListPeers` on a zero topic, which kills the process |
| `named`, `count` | `ContainerId` and `MessageCount` (with `LastMessage`), written without a lock |
| `clients`, `mu` | `ss.clients`, and who holds `clientsMu` across a write |
| `handler`, `cast` | the goroutine of each connection; the ticker and the message reader |
| `writers` | who is inside `WriteMessage` on a connection: two of them may make gorilla panic |
| `sock` | the client has left and the server has not noticed, or has closed its end |
| `view`, `setId` | the last update the controller has been sent, and how far its `set-id` is |

The data races on the two strings are modelled by their outcomes: until a string has
been written once, a reader may see a nil pointer with a length and crash the process.
A process that died stays down (`up`); the container lifecycle models what follows.

### ContainerListFeed

The goroutines in `broadcastContainers` (`caster`) hold the list they got from Docker
until they broadcast it. A broadcast is one step: `clientsMu` is held from the first
write to the last. The readers of node connections are the ones of
`ContainerLifecycle`, reduced to what they broadcast. The page is its three pieces of
state, `containers` (`shown`), `peerData` (`data`) and `remotePeerData` (`remote`),
changed by one action per message together with the effects that React runs after it.

Two things the model says of the code: `isPeerIdAssignedToContainer`, called in a
WebSocket handler made by the first render, always sees an empty page, so its branch
is dead; and a container that stops and starts between two lists keeps its old data in
the page until the first full update, since the page only compares ids.

### ForceLayout

One thread takes turns: a message or click (`Listed`, `Reported`, `SetMapType`,
`SetMapView`, `SetPauseSim`) sets state, `Commit` renders and runs the effects that are
due, in the order of their declaration, `Frame` runs one animation frame. `peerDirty` and
`edgesSet` say which state has been set since the last commit, `seen` which values the
effects have closed over; `rafs` holds the frames the browser will run and `rafId` the one
the page remembers. Positions are left out: a frame finds all nodes slow, or some fast.
`shown` holds the edges of the last render: in the graph view these are those of the ref,
which the effects of the same commit set only afterwards, so a render is one commit behind
until a frame or a message causes the next. A page whose simulation runs catches up at
once. A quiet one, paused or not yet settled, may go on showing the edges of the map chosen
before; `EdgesFollowData` claims the rendered edges for a settled graph and for the other
views, and for the rest the edges the page has computed.
`ran` is history: frames since the simulation was given its edges.

Kept out of the model by its instances: more than ten containers, where the size of nodes
changes and restarts the simulation as well; and what the code does not promise, that a
first container or a remote peer that appears after the layout has settled, without a new
edge, is laid out.

### Convergence

Commands to a node (`commands`), messages on their way to it (`gossip`) and updates on
their way to the page (`feed`) are three paths without an order between them. A
publish request writes to all nodes first (clear) and then to one (publish), one
WebSocket at a time. Go nodes (`Deaf`) count messages and ignore both commands.
`published`, `seen` and `base` are history: they say what the counts should tell.

## What is checked

| Run | Specification | Instance | Shows |
|---|---|---|---|
| `lifecycle` | `FairSpec` | 1 container, 1 request at a time, 2 listings, 2 boots | `TypeOK`, `WatchedConn`, `NoLostSocket`, `StopAllHonest`, `ImplementsRegistry`, `DeadConnReaped`, `HandshakeSettles`, `FollowerStops` |
| `shutdown` | `FairManagedSpec` | 1 container, connected or listed at the start, 1 listing, 2 boots | `FollowerReachable`, `CleanupEnds` |
| `shutdown_skip` | `RepopulatedSpec` | 2 containers | violation of `CleanupReachesAll` |
| `dispatch` | `FairSpec` | 2 containers, 1 publish, 1 command | `TypeOK`, `ClashTakesTwo`, `ClearedBeforePublish`, `RequestsAnswered`, `BrokenConnLeaves` |
| `status` | `FairSpec` | every class of fields, 2 overlapping calls, 2 connections | `TypeOK`, `NothingLost`, `TailNeverGoesBack`, `EventuallyConsistent` |
| `dht` | `FairSpec` | 3 commands of any kind | `TypeOK`, `WorkShownIsUnderWay`, `NewestNotAborted`, `StatusSettles` |
| `go` | `FairSpec` | 1 connection, 3 messages | `TypeOK`, `ClientsAreAttended`, `ClientsCatchUp`, `GoneIsClosed` |
| `feed_list` | `FairFreshSpec` | 1 container that runs at the start or not, 1 caster and the loop, 2 changes, 2 connections | `TypeOK`, `ListConverges` |
| `feed_peers` | `FairOpenedSpec` | 2 containers that run or of which one is created, the loop, 2 connections, 2 boots (three starts, below) | `StatusConverges`, `NobodyShownTwice` |
| `converge` | `FairSpec` | a JavaScript and a Go node, 2 messages, 2 clicks | `TypeOK`, `CountedOnce`, `ConvergedMeansSeen`, `DisplayCatchesUp` |
| `converge_false` | `Spec` | 2 JavaScript nodes, 1 message, 2 clicks | violation of `ConvergedIsTrue` |
| `layout` | `FairSpec` | 2 containers, 1 remote peer, 2 maps, 3 changes, limits 2 and 2 | `TypeOK`, `OneSimulation`, `EdgesFollowData`, `SettledWithTheseEdges`, `LayoutSettles` |

Why these bounds are enough to be interesting:

* The tables of the lifecycle are keyed by container and their invariants speak of one
  container at a time, so one container with a request, a handshake, a reader, a
  follower, a death and a restart has the races between the goroutines. Two requests at
  once, and two containers under one stopall, are where the theorems below take over:
  they hold for every number of both.
* The same goes for the Go node: with one connection the handler, the ticker and the
  message reader meet on it; that the invariants hold for several is proved.
* The cleanup starts from a controller that has listed its containers, or connected
  them with their followers not yet scheduled; what may come before is the lifecycle's.
* In `dispatch` a publish that clears has two connections to broadcast to, so one write
  can stall while the other is done, and the command may go to either; the order between
  clear and publish is proved for any number of requests.
* The instance of `StatusUpdates` lets a full update fall between two deltas and two
  calls overlap at every await; the one of `DhtQueries` lets two searches abort each
  other while a third command is in progress.
* Two changes let a container be created and stopped, or stopped and started again, while
  lists overtake one another and the page reconnects; starting from a running container
  stands for the third. Peers need a second container, hence `feed_peers`, which has three
  starts to stay small: two running containers and a last change, so that an old list can
  take the data of a linked container from the page (`ChangeInit`); two connected ones with
  nothing left to change while the controller starts again and the page opens a new
  connection to it (`AgainInit`); a creation across the same (`CreationInit`).
* Two clicks are needed for a publish that is still under way when the next is measured.
* The limits of the simulation, 20 stable and 450 unstable frames, are 2 and 2: the
  counters only matter by being below or at them, and by being reset in between.

Runs do not check for deadlock: requests, changes and boots are bounded, so every
instance may come to rest.

### Fairness

Goroutines run; a read returns when the peer has written or is gone; writes of the
controller to nodes have a deadline of 3 to 10 seconds, its writes to UI clients none (so
`BrokenConnLeaves` speaks of a UI that is not stuck); the 15 second limit of the handshake is
reached, and looked at after every failed attempt, though the handshake need not be between
two attempts when it is (strong fairness of `GiveUp`); Docker answers. That a node answers a
handshake is not assumed: its reads have no deadline, and `HandshakeSettles` is about handshakes
that do not wait for a silent node for ever. Nobody is
obliged to send a request, no dial has to succeed, Docker need not succeed, and the
controller need not be restarted. In the node, the peer store answers and the interval
fires; DHT queries end, by their 60 or 30 second timeout or, for put and provide, by
the DHT's own. The Go node's ticker fires, the controller's loop runs every 5 seconds,
the page's reconnect timer fires, and messages written to a peer that stays are read.
The browser renders what is set and runs the frames that are scheduled; the user need
never do anything.
`ClientsCatchUp` speaks of a process that does not die and `ListConverges` of a page
that stays connected: neither is promised by fairness.

### Disagreements found

* **`cleanup` skips containers** (`shutdown_skip`). `closeContainerConn` at
  `main.go:1741` deletes in place from the slice the loop at `:1740` ranges over.
* **Convergence is declared too early** (`converge_false`). The counts are only reset in
  the page (`index.tsx:643`), and an update from before the clear raises them again.

More things the models say, or modelling showed, which no document of the repository
contradicts clearly enough to list above:

* The message the controller takes for the reply to `set-id` (`main.go:507`) may be a
  broadcast that a Go node sent before it read `set-id`; nothing confirms the id, and only
  `ClientsCatchUp` tells that it arrives in the end.
* Started containers are never reconnected (`ImplementsRegistry`). A stop with a short id
  leaves the log follower running, one with a full id leaves the connection to the reader.
* A container whose handshake fails goes on running: `main.go:414` says it is being
  stopped, but the stop uses the request's context, cancelled by then (`StopAfterFailure`).
* The end of an aborted search is written into the list of the search that aborted it
  (`status-server.ts:457`): "no-providers-found" may be the head of a list of providers.
* A broadcast whose write fails leaves the spoiled connection in the table
  (`main.go:1059`): gorilla fails every later write to it, until one of them makes a
  handler close it. `BrokenConnLeaves` therefore speaks of dead and closed connections.
* The write deadline of four DHT commands, 10 seconds, is longer than the HTTP server's
  `WriteTimeout`, 7 seconds (`main.go:1885`): a request that met a stalled node is answered
  too late for the answer to be sent.
* A UI client that does not read holds up every reader of the controller, under
  `clientsMu`, but no command.
* `main.go:1313` says "run synchronously so we wait for the process to exit" of a `pkill`
  that only sends the signal.
* The refresh in `gossip-peer.ts` compares `getMeshPeers.length`, the number of parameters
  of the method, so the intended test of the mesh never happens.

## What is proved

`ContainerLifecycleProofs`, for any finite set of containers, any set of concurrent
requests and any bounds:

* `Invariance`: `Spec => []IInv`, where `IInv` is `TypeOK`, the five table invariants
  and `RequestsNamed` together. The table invariants are not inductive one by one:
  `WatchedConn` needs to know from `OrderOfLife` that a container being created has no
  reader, `ReaderClosesOnlyDead` that nobody dials while a reader exists,
  `NoLostSocket` that a socket taken out of the table was closed. `RequestsNamed` (a
  request in the middle of its work has an id) is what `TypeOK` needs for the ids that
  `append` and `stopLogStreaming` pass on.
* Its corollaries: `TypeCorrectness`, `LifeIsOrdered`, `ConnsAreWatched`,
  `SocketsAreKept`, `ReaderClosesDead`, `FollowersAreReachable`.
* `RegistryImplemented`: `Spec => ImplementsRegistry`. Every step is one of
  `ConnectionRegistry` or leaves every entry as it is; only a handshake that waits for its
  reply adds to `containerConns`, and by `OrderOfLife` it has no entry and no reader.
* `StopAllIsHonest`: `Spec => StopAllHonest`, by the invariant `StopAllProgress`: as
  long as no error has been collected, a listed container is still to do, being dealt
  with, or gone for good (`RemovedForGood`).

The lemmas about data: `RemoveValueType` (what `removeValue` returns is a list of the
same kind of things), `ListingsType`, and the typing of requests.

The only assumption used is that `Container` is finite.

`GoStatusServerProofs`, for any set of connections and any number of messages:

* `Invariance`: `Spec => []Inv`. `Inv` adds to the checked invariants what they rest on:
  `RangingHoldsLock` and `WritingOne` (who is inside `WriteMessage` for a broadcast is
  ranging, hence holds `clientsMu`), `RegisteredNotClosed` (a connection is deleted
  before it is closed or in the same step), `TouchedRegistered` (a broadcast has to do
  only with registered connections, so it cannot close one that is about to register),
  `GoneOnly` (only a client that has gone makes writes and reads fail) and `RoomToCount`
  (the bound on messages).
* Its corollaries `TypeCorrectness`, `TurnsAreTaken`, `ClientsHaveHandlers` and
  `ClosedAreGone`, and `OpenAreKept`: `Spec => OnlyBrokenDropped`, because only `Leave`
  and `EndsBroadcast` remove clients from the table of a process that lives.

The only assumption used is that `MaxMessages` is a natural number.

`ContainerLifecycleProofs` again, for the composition with cleanup and the same parameters:

* `ShutdownInvariance`: `ShutdownSpec => []SInv`, where `SInv` is `IInv` with the types of
  the variables of `cleanup` (`CleanupTypes`). The steps of the lifecycle keep `IInv`
  whatever cleanup has done before; the lemmas say so for the steps of cleanup, where
  `ArrayAtType` is about reading from the array that others change.
* Its corollaries `ShutdownTypeCorrectness`, `ShutdownFollowersReachable` and
  `ShutdownConnsWatched`.
* `ShutdownImplementsRegistry`: the composition still implements `ConnectionRegistry`.

`CommandDispatchProofs`, for any containers and any requests, without assumptions:

* `Invariance`: `Spec => []Inv`. `ClearedBeforePublish` looks at the past of several
  nodes, so `Inv` says what the present knows of it: a write belongs to a phase of its
  request (`JobsFit`), is decided on once (`DecidedOnce`), a handler writes one command
  (`OneCommand`), whoever is owed a clear has been told or will be before the broadcast
  ends (`OwedIsPaid`), and a publish does nothing after its command (`CommandIsLast`).
* `ClashesTakeTwo`, `ClearsComeFirst` and `TypeCorrectness` follow.
* `RegistryImplemented`: `Spec => ImplementsRegistry`, from a small invariant of its own:
  what is in the table has been joined (`TableIsJoined`).

`StatusUpdatesProofs`, for any fields and any number of calls in progress:

* `Invariance`: `Spec => []Inv`. `NothingLost` rests on what a call carries across an await:
  never a field of the block that sends (`Types`, with `Part`), so that block decides alone;
  on the observer never being ahead of the node (`NotAhead`); and on a first full update
  belonging to a connection made (`FirstUpdates`), so that, as long as there has been one
  only, it is for that one.
* `DeltasLoseNothing`, and `TailOnlyForward`: `Spec => TailNeverGoesBack`, since every step
  leaves such a field of the observer alone or brings it to the node's value (`Forward`).
* `TypeCorrectness`. Intervals are never cleared, so their number is bounded only by that of
  the connections made: `IntervalsPaid` says that the first full updates in progress,
  counted as a finite set of calls, and the intervals together are not more. The assumption
  used, for this theorem only, is that the bounds are natural numbers.

`ContainerListFeedProofs`, for any containers and other peers and any number of goroutines,
changes, connections and starts of the controller:

* `Invariance`: `Spec => []Inv`. What goroutines have listed was created (`ListsMade`), a
  connection is in `clients` or about to be as long as it holds (`ClientInv`), and the
  page's containers, data and remote peers fit each other (`PageInv`).
* `TypeCorrectness`, and what the invariant says of the code: `LivePageIsAttended` (no
  broadcast and no read loop takes the connection the page listens to out of `clients`) and
  `PageAlwaysFits` (data for the containers shown and no others, remote peers that one of
  them is connected to).
* `PageShowsWhatRan`: `PastSpec => []ShowsWhatRan`. `past` is a history variable of the
  proofs: the sets of containers that have run together. The page may be late and may go
  back, but what it shows at once did run at once.

`DhtQueriesProofs`, for any commands in any number, and lists of any length:

* `Invariance`: `Spec => []Inv`. That a result is settled when nobody works on it
  (`QuietMeansSettled`) needs to know which results are unsettled: "searching" stands alone
  in its list and "aborted" is shown only while the search that says so has yet to announce
  itself (`SearchLists`), `provide` has a status only (`ProvideList`). That the newest is not
  the one aborted needs to know that the held `AbortController` belongs to a query of the
  command that has arrived (`Arrived`). Every action is a handler that moves on
  (`HandlerMoves`), with a list that fits.
* `TypeCorrectness`, `ShownIsUnderWay` and `NewestIsKept` follow. The only assumption used is
  that `Command` is a subset of the five.

`ConvergenceProofs`, for any nodes and any number of messages and clicks:

* `Invariance`: `Spec => []Inv`. `NeverTooMany` is what `ConvergedMeansSeen` rests on: the
  count of a node, the counts on their way to the page, and the one displayed are all at most
  what the node has seen, because clearing only takes away and nothing seen is forgotten.
* `MessagesCountOnce` and `ConvergedIsSeen` follow.
* `TypeCorrectness`. That no count exceeds what the clicks have asked for is a fact about the
  sum of all queues, loops and requests. Instead of a sum the invariant `Backed` has tokens:
  a click brings as many as its messages, each is in one place (unused, in the queue of
  commands or the loop of a node, or spent), a place holds at least the tokens it needs, and
  there are not more of them than clicks times messages. The assumptions used are that
  there is a node and that the bounds are natural numbers.

`ForceLayoutProofs`, for any finite set of containers, any remote peers and maps, and any
limits of the simulation of which the one for unstable frames is not the smaller:

* `Invariance`: `Spec => []Inv`. The frames that run are those of the view the effects have
  seen (`OneLoop`), which is the page's only when it is quiet; edges the simulation does not
  know make its effect due (`EdgesKnown`), in the very commit in which it gets them, so its
  counters never count frames of other edges (`FramesCounted`).
* `OneLoopOnly` and `SettledLayoutsAreCurrent` follow.
* The two loops of the edge effect: `DirectedEdges` (the edges of all containers are there)
  and `UniqueEdges` (every pair of ends is kept, and once). They are recursive functions;
  that these exist (`Recursion`) and what they compute is shown by the least counterexample
  (`Induct`), since the provers cannot use the library's induction.
* `EdgesOfSeenData`: `Spec => []EdgeInv`. As long as no data are set the edges are those of
  the data, for the map the effects have seen (`EdgesCurrent`); a change of the map alone
  makes the effect due. With the lemmas about the loops this gives the first two parts of
  `EdgesFollowData`; the third, about what is rendered, is `ShownInv`: once a frame has run
  with edges they have been rendered, and the other views render the state. Together,
  `EdgesShown`: `Spec => []EdgesFollowData`. Reports may name a peer more than once, as a
  node with several connections to a peer does.
* `TypeCorrectness`: a counter of the loop stays below its limit until it has settled the
  layout (`LoopBounds`), and by `OneLoop` no frame counts after that.

Only model-checked: liveness (`DeadConnReaped`, `HandshakeSettles`, `FollowerStops`,
`CleanupEnds`, `RequestsAnswered`, `BrokenConnLeaves`, `EventuallyConsistent`,
`StatusSettles`, `ClientsCatchUp`, `GoneIsClosed`, `ListConverges`, `StatusConverges`,
`NobodyShownTwice`, `DisplayCatchesUp`, `LayoutSettles`), out of the prover's reach.

## What is not modelled

* The contents of commands and updates beyond what the properties tell apart; colours,
  addresses, positions; the page's forms, hover and remaining requests, which send one
  request and keep no state that others read.
* `tc` (`parseNetworkConfig`, `applyNetworkConfig`): a fixed sequence of command lines run
  in a container before anybody else knows it; it keeps no state.
* Logs and tcpdump: streams copied from Docker to one response.
* Node set-up: data handed to libp2p once. What the Go node's set-up orders (a full update
  before the topic is joined) is in `GoStatusServer`.
* Legacy nodes: an older copy of the JavaScript node that neither the controller nor the
  page names; only the `Makefile` still builds it.
* A page that does not read is in `CommandDispatch` only; elsewhere UI clients read.
* `repopulateState` lists every running container of the host, whoever started it;
  the model has only containers of the controller.
* The outcome of a request (201 or 500) beyond its being answered.

## Plan

Done: the lifecycle, its composition with cleanup, the node servers, the feed to the page,
convergence, command dispatch, the layout, and the registry they share. What is left:

1. `ContainerListFeed` with a UI client that does not read.
2. An abstract specification of the page's view, refined by `ContainerListFeed`; its safety
   part, that the page shows what ran at some moment, is `PageShowsWhatRan`.
