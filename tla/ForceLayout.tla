---------------------------- MODULE ForceLayout ----------------------------
(***************************************************************************)
(* The graph of the page (controller-ui/src/pages/index.tsx): edges are    *)
(* derived from what the nodes report, and a simulation moves the nodes    *)
(* until they have settled.                                                *)
(*                                                                         *)
(* Everything happens in one thread, in turns: a message or a click sets   *)
(* React state; a commit renders it and runs the effects whose             *)
(* dependencies have changed, in the order they are declared; a frame, if  *)
(* one is scheduled, runs the simulation.  Frames see refs and the values  *)
(* their effect has closed over, not the current state, and each one sets  *)
(* peerData and so makes the edge effect due again.                        *)
(*                                                                         *)
(* Positions and velocities are left out: a frame finds the nodes fast or  *)
(* slow.  So is the size of nodes, which is constant up to ten of them.    *)
(* The lists of a topic stand for those of a map type.                     *)
(***************************************************************************)
EXTENDS Naturals, SequencesExt

CONSTANTS
  Container,
  Remote,            \* peers that are not in a container
  MapType,
  Reports,           \* lists of peers a node may report for a map type: a
                     \* peer is in it once for every connection
  StableIterations,  \* STABLE_ITERATIONS, 20 in the code
  MaxUnstable,       \* MAX_UNSTABLE_ITERATIONS, 450 in the code
  MaxChanges         \* bound: changes of containers, connections and map

Peer == Container \cup Remote  \* a container stands for its peer id as well

ASSUME LayoutAssumption ==
  /\ StableIterations \in Nat /\ MaxUnstable \in Nat
  /\ 0 < StableIterations /\ StableIterations <= MaxUnstable
  /\ MaxChanges \in Nat /\ IsFiniteSet(Container)
  /\ Reports \subseteq Seq(Peer)

VARIABLES
  order,       \* keys of peerData, in order
  lists,       \* the peers a container reports for each map type, in order
  known,       \* containers whose peer id has been reported
  mapView, mapType, pauseSim,
  peerDirty,   \* peerData has been set since the last commit
  edges,       \* state, and prevEdgesRef
  edgesSet,    \* setEdges has been called since the last commit
  edgesRef,    \* what the simulation knows
  nodesRef,
  shown,       \* the edges the last commit has rendered
  seen,        \* dependencies of the last commit
  rafs,        \* frames the browser has to run
  rafId,       \* rafIdRef
  stableCount, unstableCount, stabilized,
  ran,         \* history: steps since the simulation was given these edges
  changes

dataVars == <<order, lists, known, changes>>
viewVars == <<mapView, mapType, pauseSim>>
edgeVars == <<edges, edgesSet, edgesRef, nodesRef, shown, seen>>
loopVars == <<rafs, rafId, stableCount, unstableCount, stabilized, ran>>
vars == <<dataVars, viewVars, peerDirty, edgeVars, loopVars>>

Orders == {o \in SeqOf(Container, Cardinality(Container)) : IsInjective(o)}
NoLists == [t \in MapType |-> <<>>]

\* nodeSize and minDistance, as far as they change: the distance is at its
\* maximum up to the second container.
MinDistance(n) == IF n < 2 THEN 1 ELSE n
\* What the simulation's effect depends on, apart from the edges.
Dependencies == [view |-> mapView, type |-> mapType, paused |-> pauseSim,
                 distance |-> MinDistance(Len(order))]

Init ==
  /\ order = <<>> /\ lists = [c \in Container |-> NoLists] /\ known = {}
  /\ changes = 0
  /\ mapView = "graph" /\ mapType \in MapType /\ pauseSim = FALSE
  /\ peerDirty = FALSE
  /\ edges = <<>> /\ edgesSet = FALSE /\ edgesRef = <<>> /\ nodesRef = {}
  /\ shown = <<>>
  /\ seen = Dependencies
  /\ rafs = {1} /\ rafId = 1
  /\ stableCount = 0 /\ unstableCount = 0 /\ stabilized = FALSE /\ ran = 0

-----------------------------------------------------------------------------
(* State is set.                                                           *)

\* setPeerData with other data counts as a change; nodes report over and
\* over, most often what is known.
SetsPeerData ==
  /\ peerDirty' = TRUE
  /\ IF <<order, lists, known>>' = <<order, lists, known>>
     THEN UNCHANGED changes
     ELSE changes < MaxChanges /\ changes' = changes + 1
  /\ UNCHANGED <<viewVars, edgeVars, loopVars>>

\* Variant: known is not reset with the rest of the entry.
Listed_KeepsPeerId(o) ==
  /\ order' = o
  /\ lists' = [c \in Container |->
                 IF c \in ToSet(order) \cap ToSet(o) THEN lists[c] ELSE NoLists]
  /\ UNCHANGED known
  /\ SetsPeerData

\* initializeContainerData: containers that stay keep their data.
Listed(o) ==
  /\ order' = o
  /\ lists' = [c \in Container |->
                 IF c \in ToSet(order) \cap ToSet(o) THEN lists[c] ELSE NoLists]
  /\ known' = known \cap ToSet(o)
  /\ SetsPeerData

\* handleNodeStatusUpdate.
Reported(c, t, l) ==
  /\ c \in ToSet(order)
  /\ lists' = [lists EXCEPT ![c][t] = l]
  /\ known' = known \cup {c}
  /\ UNCHANGED order
  /\ SetsPeerData

SetMapType(t) ==
  /\ t # mapType /\ mapType' = t
  /\ changes < MaxChanges /\ changes' = changes + 1
  /\ UNCHANGED <<order, lists, known, mapView, pauseSim, peerDirty, edgeVars, loopVars>>

\* "circle" stands for the views without a simulation.
SetMapView(v) ==
  /\ v # mapView /\ mapView' = v
  /\ UNCHANGED <<dataVars, mapType, pauseSim, peerDirty, edgeVars, loopVars>>

SetPauseSim(b) ==
  /\ b # pauseSim /\ pauseSim' = b
  /\ UNCHANGED <<dataVars, mapView, mapType, peerDirty, edgeVars, loopVars>>

-----------------------------------------------------------------------------
(* Edges.                                                                  *)

\* A peer id is drawn as the container that has reported it.
Node(p) == IF p \in known THEN [container |-> p] ELSE [peer |-> p]
\* The edges a container adds to newEdges.
EdgesFrom(c, type) ==
  [k \in DOMAIN lists[c][type] |->
     [from |-> [container |-> c], to |-> Node(lists[c][type][k])]]
\* newEdges: container after container.
Directed(type) ==
  LET new[n \in 0 .. Len(order)] ==
        IF n = 0 THEN <<>> ELSE new[n - 1] \o EdgesFrom(order[n], type)
  IN new[Len(order)]

Ends(e) == {e.from, e.to}

\* Variant: the ends of the key are not sorted.
Unique_Directed(s) ==
  FoldLeft(LAMBDA uniq, e : IF e \in ToSet(uniq) THEN uniq ELSE Append(uniq, e), <<>>, s)

\* uniq: an edge is left out if one with the same ends has been seen.
Keep(uniq, e) ==
  IF \E d \in ToSet(uniq) : Ends(d) = Ends(e) THEN uniq ELSE Append(uniq, e)
Unique(s) ==
  LET uniq[n \in 0 .. Len(s)] == IF n = 0 THEN <<>> ELSE Keep(uniq[n - 1], s[n])
  IN uniq[Len(s)]

\* Variant: new edges are set whatever they are.
EdgesDiffer_Always(new) == TRUE
EdgesDiffer(new) == new # edges

GenerateEdges ==
  LET new == Unique(Directed(mapType))
  IN IF (peerDirty \/ mapType # seen.type) /\ EdgesDiffer(new)
     THEN edges' = new /\ edgesSet' = TRUE
     ELSE edgesSet' = FALSE /\ UNCHANGED edges

-----------------------------------------------------------------------------
(* The simulation.                                                         *)

NewFrame(rest) == CHOOSE i \in 1 .. 3 : i \notin rest

Restart(rest) ==
  /\ rafId' = NewFrame(rest) /\ rafs' = rest \cup {NewFrame(rest)}
  /\ stableCount' = 0 /\ unstableCount' = 0 /\ stabilized' = FALSE

\* Variant: the frame that is scheduled is not cancelled.
RunEffect_NoCancel ==
  IF mapView = "graph"
  THEN Restart(rafs) ELSE UNCHANGED <<rafs, rafId, stableCount, unstableCount, stabilized>>

\* The clean-up of the previous effect, and the effect.
RunEffect ==
  IF mapView = "graph"
  THEN Restart(rafs \ {rafId})
  ELSE /\ rafs' = rafs \ {rafId}
       /\ UNCHANGED <<rafId, stableCount, unstableCount, stabilized>>

\* Variant: the simulation does not depend on the edges.
EffectIsDue_NotForEdges == Dependencies # seen
EffectIsDue == edgesSet \/ Dependencies # seen

\* What is rendered: in the graph the edges of the ref, which the effects of
\* the same commit set only afterwards, in the other views the state.  (Of
\* these an edge is left out while one of its ends has no node.)
Rendered == IF mapView = "graph" THEN edgesRef ELSE edges

Commit ==
  /\ peerDirty \/ EffectIsDue
  /\ UNCHANGED <<dataVars, viewVars>>
  /\ peerDirty' = FALSE
  /\ shown' = Rendered
  /\ GenerateEdges
  /\ nodesRef' = ToSet(order) /\ edgesRef' = edges
  /\ ran' = IF edgesRef = edges THEN ran ELSE 0
  /\ seen' = Dependencies
  /\ IF EffectIsDue
     THEN RunEffect ELSE UNCHANGED <<rafs, rafId, stableCount, unstableCount, stabilized>>

\* stepSimulation: slow says that no node was faster than the threshold.  A
\* fast node starts the count of slow frames again, and no frame the count
\* of the others.
Step(slow) ==
  /\ peerDirty' = TRUE
  /\ ran' = IF ran < StableIterations THEN ran + 1 ELSE ran
  /\ IF slow
     THEN /\ stableCount' = stableCount + 1
          /\ stabilized' = (stabilized \/ stableCount' >= StableIterations)
          /\ UNCHANGED unstableCount
     ELSE /\ nodesRef # {}
          /\ stableCount' = 0 /\ unstableCount' = unstableCount + 1
          /\ stabilized' = (stabilized \/ unstableCount' > MaxUnstable)

Paused == UNCHANGED <<peerDirty, ran, stableCount, unstableCount, stabilized>>

\* loop.
Frame(i) ==
  /\ i \in rafs
  /\ UNCHANGED <<dataVars, viewVars, edgeVars>>
  /\ IF seen.paused THEN Paused ELSE \E slow \in BOOLEAN : Step(slow)
  /\ LET rest == rafs \ {i}
     IN IF stabilized'
        THEN rafs' = rest /\ UNCHANGED rafId
        ELSE rafId' = NewFrame(rest) /\ rafs' = rest \cup {NewFrame(rest)}

-----------------------------------------------------------------------------
Next ==
  \/ \E o \in Orders : Listed(o)
  \/ \E c \in Container, t \in MapType, l \in Reports :
       c \notin ToSet(l) /\ Reported(c, t, l)
  \/ \E t \in MapType : SetMapType(t)
  \/ \E v \in {"graph", "circle"} : SetMapView(v)
  \/ \E b \in BOOLEAN : SetPauseSim(b)
  \/ Commit
  \/ \E i \in rafs : Frame(i)

Spec == Init /\ [][Next]_vars
\* The browser goes on rendering and running frames.
FairSpec == Spec /\ WF_vars(Commit) /\ WF_vars(\E i \in rafs : Frame(i))

-----------------------------------------------------------------------------
(* Properties.                                                             *)

NodeId == [container : Container] \cup [peer : Peer]

\* Type invariant.
TypeOK ==
  /\ order \in Orders /\ known \subseteq ToSet(order)
  /\ lists \in [Container -> [MapType -> Reports \cup {<<>>}]]
  /\ mapView \in {"graph", "circle"} /\ mapType \in MapType /\ pauseSim \in BOOLEAN
  /\ peerDirty \in BOOLEAN /\ edgesSet \in BOOLEAN
  /\ \A s \in {edges, edgesRef, shown} : ToSet(s) \subseteq [from : NodeId, to : NodeId]
  /\ nodesRef \subseteq Container
  /\ seen \in [view : {"graph", "circle"}, type : MapType, paused : BOOLEAN,
               distance : {MinDistance(n) : n \in 0 .. Cardinality(Container)}]
  /\ rafs \subseteq 1 .. 3 /\ rafId \in 1 .. 3
  /\ stableCount \in 0 .. StableIterations /\ unstableCount \in 0 .. MaxUnstable + 1
  /\ stabilized \in BOOLEAN /\ ran \in 0 .. StableIterations
  /\ changes \in 0 .. MaxChanges

\* Every effect has run that the current state asks for.
Quiet == ~peerDirty /\ ~EffectIsDue

\* There is one simulation: never are two frames scheduled, none in a view
\* without a simulation or once the layout has settled, and one, which the
\* next effect will be able to cancel, as long as it has not.
OneSimulation ==
  /\ rafs \subseteq {rafId}
  /\ stabilized => rafs = {}
  /\ Quiet => (rafs # {} <=> mapView = "graph" /\ ~stabilized)

\* Whatever updates have been batched, once the page is quiet its edges are
\* the connections of the chosen map, each once though both ends or several
\* connections report it, and with the container as end as soon as that has
\* told its peer id; and in a graph that has settled, as in a view without
\* simulation, they are the edges that have been rendered.  (A quiet graph
\* that has not settled may show older ones: the next frame renders the new
\* ones, but if the simulation is paused only the next update does.)
EdgesFollowData ==
  Quiet =>
    /\ {Ends(edges[i]) : i \in DOMAIN edges} =
         UNION {{{[container |-> c], Node(p)} : p \in ToSet(lists[c][mapType])} :
                  c \in ToSet(order)}
    /\ \A i, j \in DOMAIN edges : Ends(edges[i]) = Ends(edges[j]) => i = j
    /\ (mapView = "graph" => stabilized) => shown = edges

\* A layout that has settled is the layout of the edges the page shows: it
\* has been simulated with them often enough to be called stable.
SettledWithTheseEdges ==
  Quiet /\ stabilized /\ mapView = "graph" => edgesRef = edges /\ ran >= StableIterations

\* Once containers, connections and map change no more the layout settles,
\* although every frame sets peerData, nodes keep reporting, and some nodes
\* may never slow down; unless the user pauses it or looks at another view.
LayoutSettles == []<>(stabilized \/ pauseSim \/ mapView # "graph")
=============================================================================
