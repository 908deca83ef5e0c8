------------------------- MODULE MCContainerListFeed -------------------------
(* Instances of ContainerListFeed for TLC.                                 *)
EXTENDS ContainerListFeed

NoPeers == [c \in Container |-> {}]

\* The controller has been started with these containers running, and the
\* page has just opened its WebSocket.  The counters say how many changes,
\* connections and starts of the controller of those allowed are over.
Opened(up, peers, over) ==
  /\ running = up /\ made = up /\ net = peers /\ changes = over.changes
  /\ dialling = up /\ cut = {} /\ reader = [c \in Container |-> Off(c)]
  /\ caster = [t \in Caster |-> NoList] /\ spawned = 0 /\ events = 0
  /\ watching = TRUE
  /\ clients = {} /\ joining = {over.connects} /\ boots = over.boots
  /\ link = "open" /\ connects = over.connects
  /\ shown = {} /\ data = <<>> /\ remote = {}

RepopulatedInit == Opened(Container, NoPeers, [changes |-> 0, connects |-> 1, boots |-> 1])

\* A connection changes, a container ends or the page is emptied.
ChangeInit ==
  Opened(Container, NoPeers,
         [changes |-> MaxChanges - 1, connects |-> MaxConnects, boots |-> MaxBoots])

\* One node is connected to another; only page and controller start again.
AgainInit ==
  \E c, p \in Container :
    /\ c # p
    /\ Opened(Container, [NoPeers EXCEPT ![c] = {p}],
              [changes |-> MaxChanges, connects |-> 1, boots |-> 1])

\* A container is created, and page and controller start again.
CreationInit ==
  Opened({}, NoPeers, [changes |-> MaxChanges - 1, connects |-> 1, boots |-> 1])

FairFreshSpec == (Init \/ RepopulatedInit) /\ [][Next]_vars /\ Fairness

FairOpenedSpec ==
  (ChangeInit \/ AgainInit \/ CreationInit) /\ [][Next]_vars /\ Fairness
=============================================================================
