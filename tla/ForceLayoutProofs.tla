------------------------- MODULE ForceLayoutProofs -------------------------
(***************************************************************************)
(* Proofs about ForceLayout, for any finite set of containers, any remote  *)
(* peers and maps, and any limits of the simulation.                       *)
(***************************************************************************)
EXTENDS ForceLayout, FiniteSetTheorems, SequenceTheorems,
        WellFoundedInduction, TLAPS

LoopTypes ==
  /\ stableCount \in Nat /\ unstableCount \in Nat /\ ran \in Nat
  /\ stabilized \in BOOLEAN

\* The frames are those of the view the effects have seen.
OneLoop ==
  /\ rafs \subseteq {rafId}
  /\ rafs # {} <=> seen.view = "graph" /\ ~stabilized

\* Edges the simulation does not know will make its effect due.
EdgesKnown == edgesSet \/ edgesRef = edges

\* In a view with a simulation, the frames that were counted have run with
\* these edges.
Counted(n) == n <= ran \/ ran >= StableIterations
FramesCounted ==
  seen.view = "graph" =>
    /\ Counted(stableCount) /\ Counted(unstableCount)
    /\ stabilized => ran >= StableIterations

\* The inductive invariant.
Inv == LoopTypes /\ OneLoop /\ EdgesKnown /\ FramesCounted

-----------------------------------------------------------------------------
(* Lemmas about the data: induction, and what the two loops of the edge      *)
(* effect compute.                                                           *)

\* Induction up to N, for a set.
LEMMA Induct ==
  ASSUME NEW N \in Nat, NEW S, 0 \in S, \A n \in 0 .. N - 1 : n \in S => n + 1 \in S
  PROVE  N \in S
<1> DEFINE I == {n \in 0 .. N : n \notin S}
<1>1. SUFFICES ASSUME I # {} PROVE FALSE
  OBVIOUS
<1>2. I \subseteq Nat
  OBVIOUS
<1> HIDE DEF I
<1>3. \E x \in I : \A y \in I : ~ (<<y, x>> \in OpToRel(<, Nat))
  BY <1>1, <1>2, NatLessThanWellFounded, WFMin
<1>4. \A x, y \in Nat : ~ (<<y, x>> \in OpToRel(<, Nat)) => ~ (y < x)
  BY Zenon DEF OpToRel
<1>5. PICK x \in I : \A y \in I : ~ (y < x)
  BY <1>2, <1>3, <1>4
<1>6. x \in 1 .. N /\ x \notin S
  BY <1>5 DEF I
<1>7. x - 1 \in 0 .. N - 1 /\ x - 1 \notin I
  BY <1>5, <1>6
<1>8. QED  BY <1>6, <1>7 DEF I

\* f is what step makes of a, as far as k.
Recurs(k, f, A, a, step) ==
  f \in [0 .. k -> A] /\ f[0] = a /\ \A n \in 1 .. k : f[n] = step[n][f[n-1]]

\* Functions defined by recursion exist.
LEMMA Recursion ==
  ASSUME NEW N \in Nat, NEW A, NEW a \in A, NEW step \in [1 .. N -> [A -> A]]
  PROVE  \E f : Recurs(N, f, A, a, step)
<1> DEFINE S == {k \in 0 .. N : \E f : Recurs(k, f, A, a, step)}
<1>1. 0 \in S
  <2>1. Recurs(0, [n \in 0 .. 0 |-> a], A, a, step)
    BY DEF Recurs
  <2>2. QED  BY <2>1
<1>2. ASSUME NEW k \in 0 .. N - 1, k \in S PROVE k + 1 \in S
  <2>1. PICK f : Recurs(k, f, A, a, step)
    BY <1>2
  <2>2. f \in [0 .. k -> A] /\ f[0] = a /\ \A n \in 1 .. k : f[n] = step[n][f[n-1]]
    BY <2>1 DEF Recurs
  <2> DEFINE g == [n \in 0 .. k + 1 |-> IF n = k + 1 THEN step[k + 1][f[k]] ELSE f[n]]
  <2>3. g \in [0 .. k + 1 -> A]
    <3>1. k + 1 \in 1 .. N /\ f[k] \in A
      BY <2>2
    <3>2. step[k+1][f[k]] \in A
      BY <3>1
    <3>3. \A n \in 0 .. k + 1 : n # k + 1 => n \in 0 .. k
      OBVIOUS
    <3>4. QED  BY <2>2, <3>2, <3>3
  <2>4. g[0] = a
    BY <2>2
  <2>5. ASSUME NEW n \in 1 .. k + 1 PROVE g[n] = step[n][g[n-1]]
    <3>1. n - 1 \in 0 .. k /\ n - 1 # k + 1
      OBVIOUS
    <3>2. g[n - 1] = f[n - 1]
      BY <3>1
    <3>3. CASE n = k + 1
      BY <3>2, <3>3
    <3>4. CASE n # k + 1
      BY <2>2, <3>2, <3>4
    <3>5. QED  BY <3>3, <3>4
  <2> HIDE DEF g
  <2>6. Recurs(k + 1, g, A, a, step)
    BY <2>3, <2>4, <2>5 DEF Recurs
  <2>7. k + 1 \in 0 .. N
    OBVIOUS
  <2>8. QED  BY <2>6, <2>7
<1> HIDE DEF S
<1>3. N \in S
  BY <1>1, <1>2, Induct
<1>4. QED  BY <1>3 DEF S

Edge == [from : NodeId, to : NodeId]
EndsOf(s) == {Ends(s[i]) : i \in DOMAIN s}
OnceEach(s) == \A i, j \in DOMAIN s : Ends(s[i]) = Ends(s[j]) => i = j

\* One turn of the loop that leaves out edges that have been seen.
LEMMA KeepEdge ==
  ASSUME NEW u \in Seq(Edge), NEW e \in Edge
  PROVE  /\ Keep(u, e) \in Seq(Edge)
         /\ EndsOf(Keep(u, e)) = EndsOf(u) \cup {Ends(e)}
         /\ OnceEach(u) => OnceEach(Keep(u, e))
<1>1. CASE \E d \in ToSet(u) : Ends(d) = Ends(e)
  <2>1. Keep(u, e) = u
    BY <1>1 DEF Keep
  <2>2. Ends(e) \in EndsOf(u)
    BY <1>1 DEF ToSet, EndsOf
  <2>3. QED  BY <2>1, <2>2
<1>2. CASE ~ \E d \in ToSet(u) : Ends(d) = Ends(e)
  <2>1. Keep(u, e) = Append(u, e)
    BY <1>2 DEF Keep
  <2>2. /\ Append(u, e) \in Seq(Edge) /\ Len(u) \in Nat
        /\ DOMAIN u = 1 .. Len(u) /\ DOMAIN Append(u, e) = 1 .. Len(u) + 1
        /\ Append(u, e)[Len(u) + 1] = e
        /\ \A i \in 1 .. Len(u) : Append(u, e)[i] = u[i]
    OBVIOUS
  <2>3. \A i \in 1 .. Len(u) : Ends(u[i]) # Ends(e)
    BY <1>2, <2>2 DEF ToSet
  <2> DEFINE v == Append(u, e)
  <2>4. DOMAIN v = DOMAIN u \cup {Len(u) + 1} /\ v[Len(u) + 1] = e
    BY <2>2
  <2>5. \A i \in DOMAIN u : v[i] = u[i] /\ Ends(u[i]) # Ends(e)
    BY <2>2, <2>3
  <2> HIDE DEF v
  <2>6. EndsOf(v) = EndsOf(u) \cup {Ends(e)}
    BY <2>4, <2>5 DEF EndsOf
  <2>7. OnceEach(u) => OnceEach(v)
    BY <2>4, <2>5 DEF OnceEach
  <2>8. QED  BY <2>1, <2>2, <2>6, <2>7 DEF v
<1>3. QED  BY <1>1, <1>2

\* The lists the loop goes through.
IsUniq(s, u) ==
  u = [n \in 0 .. Len(s) |-> IF n = 0 THEN <<>> ELSE Keep(u[n - 1], s[n])]

LEMMA UniqueRuns ==
  ASSUME NEW s \in Seq(Edge)
  PROVE  \E u : IsUniq(s, u) /\ Unique(s) = u[Len(s)]
<1> DEFINE A == Seq(Edge)
           step == [n \in 1 .. Len(s) |-> [u \in A |-> Keep(u, s[n])]]
<1>1. Len(s) \in Nat /\ <<>> \in A
  OBVIOUS
<1>2. step \in [1 .. Len(s) -> [A -> A]]
  <2>1. \A n \in 1 .. Len(s) : s[n] \in Edge
    OBVIOUS
  <2>2. \A n \in 1 .. Len(s) : [u \in A |-> Keep(u, s[n])] \in [A -> A]
    BY <2>1, KeepEdge
  <2>3. QED  BY <2>2
<1> HIDE DEF A, step
<1>3. PICK f : Recurs(Len(s), f, A, <<>>, step)
  BY <1>1, <1>2, Recursion
<1>4. /\ f \in [0 .. Len(s) -> A] /\ f[0] = <<>>
      /\ \A n \in 1 .. Len(s) : f[n] = step[n][f[n - 1]]
  BY <1>3 DEF Recurs
<1>5. ASSUME NEW n \in 1 .. Len(s) PROVE f[n] = Keep(f[n - 1], s[n])
  <2>1. n - 1 \in 0 .. Len(s)
    BY <1>1
  <2>2. f[n - 1] \in A
    BY <1>4, <2>1
  <2>3. QED  BY <1>4, <2>2 DEF step
<1>6. IsUniq(s, f)
  <2>1. \A n \in 0 .. Len(s) : n # 0 => n \in 1 .. Len(s)
    BY <1>1
  <2>2. QED  BY <1>4, <1>5, <2>1 DEF IsUniq
<1> DEFINE u == CHOOSE g : IsUniq(s, g)
<1>7. IsUniq(s, u)
  BY <1>6
<1>8. Unique(s) = u[Len(s)]
  BY DEF Unique, IsUniq
<1>9. QED  BY <1>7, <1>8

\* Every pair of ends is drawn, and once.
LEMMA UniqueEdges ==
  ASSUME NEW s \in Seq(Edge)
  PROVE  /\ Unique(s) \in Seq(Edge)
         /\ EndsOf(Unique(s)) = EndsOf(s) /\ OnceEach(Unique(s))
<1>1. PICK u : IsUniq(s, u) /\ Unique(s) = u[Len(s)]
  BY UniqueRuns
<1> DEFINE Good(n) == /\ u[n] \in Seq(Edge) /\ OnceEach(u[n])
                      /\ EndsOf(u[n]) = {Ends(s[i]) : i \in 1 .. n}
           S == {n \in 0 .. Len(s) : Good(n)}
<1>2. Len(s) \in Nat /\ DOMAIN s = 1 .. Len(s)
  OBVIOUS
<1>3. Good(0)
  <2>1. u[0] = <<>>
    BY <1>1, <1>2 DEF IsUniq
  <2>2. <<>> \in Seq(Edge) /\ DOMAIN <<>> = {} /\ 1 .. 0 = {}
    OBVIOUS
  <2>3. QED  BY <2>1, <2>2 DEF EndsOf, OnceEach
<1>4. ASSUME NEW n \in 0 .. Len(s) - 1, Good(n) PROVE Good(n + 1)
  <2>1. n + 1 \in 0 .. Len(s) /\ n + 1 \in 1 .. Len(s) /\ n + 1 # 0 /\ (n + 1) - 1 = n
    BY <1>2
  <2>2. u[n + 1] = Keep(u[n], s[n + 1])
    BY <1>1, <2>1 DEF IsUniq
  <2>3. s[n + 1] \in Edge
    BY <2>1
  <2>4. 1 .. n + 1 = 1 .. n \cup {n + 1}
    BY <1>2
  <2>5. u[n] \in Seq(Edge) /\ OnceEach(u[n]) /\ EndsOf(u[n]) = {Ends(s[i]) : i \in 1 .. n}
    BY <1>4
  <2>6. /\ u[n + 1] \in Seq(Edge) /\ OnceEach(u[n + 1])
        /\ EndsOf(u[n + 1]) = EndsOf(u[n]) \cup {Ends(s[n + 1])}
    BY <2>2, <2>3, <2>5, KeepEdge
  <2>7. EndsOf(u[n + 1]) = {Ends(s[i]) : i \in 1 .. n + 1}
    BY <2>4, <2>5, <2>6
  <2>8. QED  BY <2>6, <2>7
<1>5. 0 \in S /\ \A n \in 0 .. Len(s) - 1 : n \in S => n + 1 \in S
  <2>1. \A n \in 0 .. Len(s) - 1 : n + 1 \in 0 .. Len(s)
    BY <1>2
  <2>2. 0 \in 0 .. Len(s)
    BY <1>2
  <2> HIDE DEF Good
  <2>3. QED  BY <1>3, <1>4, <2>1, <2>2
<1> HIDE DEF S
<1>6. Len(s) \in S
  BY <1>2, <1>5, Induct
<1>7. QED  BY <1>1, <1>2, <1>6 DEF S, EndsOf

LEMMA ConcatEdges ==
  ASSUME NEW a \in Seq(Edge), NEW b \in Seq(Edge)
  PROVE  a \o b \in Seq(Edge) /\ EndsOf(a \o b) = EndsOf(a) \cup EndsOf(b)
<1>1. /\ Len(a) \in Nat /\ Len(b) \in Nat /\ a \o b \in Seq(Edge)
      /\ DOMAIN a = 1 .. Len(a) /\ DOMAIN b = 1 .. Len(b)
      /\ DOMAIN (a \o b) = 1 .. Len(a) + Len(b)
      /\ \A i \in 1 .. Len(a) : (a \o b)[i] = a[i]
      /\ \A i \in 1 .. Len(b) : (a \o b)[Len(a) + i] = b[i]
  OBVIOUS
<1>2. \A i \in 1 .. Len(a) + Len(b) : i \notin 1 .. Len(a) =>
        \E j \in 1 .. Len(b) : i = Len(a) + j
  <2>1. ASSUME NEW i \in 1 .. Len(a) + Len(b), i \notin 1 .. Len(a)
        PROVE  i - Len(a) \in 1 .. Len(b) /\ i = Len(a) + (i - Len(a))
    BY <1>1, <2>1
  <2>2. QED  BY <2>1
<1>3. \A j \in 1 .. Len(b) : Len(a) + j \in 1 .. Len(a) + Len(b)
  BY <1>1
<1>4. \A i \in 1 .. Len(a) : i \in 1 .. Len(a) + Len(b)
  BY <1>1
<1>5. EndsOf(a \o b) \subseteq EndsOf(a) \cup EndsOf(b)
  <2>1. ASSUME NEW i \in 1 .. Len(a) + Len(b)
        PROVE  Ends((a \o b)[i]) \in EndsOf(a) \cup EndsOf(b)
    BY <1>1, <1>2 DEF EndsOf
  <2>2. QED  BY <1>1, <2>1 DEF EndsOf
<1>6. EndsOf(a) \subseteq EndsOf(a \o b)
  BY <1>1, <1>4 DEF EndsOf
<1>7. EndsOf(b) \subseteq EndsOf(a \o b)
  BY <1>1, <1>3 DEF EndsOf
<1>8. QED  BY <1>1, <1>5, <1>6, <1>7

\* The data of the page, as nodes have reported it.
DataTypes ==
  /\ order \in Orders /\ known \subseteq ToSet(order)
  /\ lists \in [Container -> [MapType -> Reports \cup {<<>>}]]

LEMMA OrderType ==
  ASSUME DataTypes
  PROVE  /\ order \in Seq(Container) /\ ToSet(order) \subseteq Container
         /\ Len(order) \in 0 .. Cardinality(Container)
<1>1. PICK m \in 0 .. Cardinality(Container) : order \in [1 .. m -> Container]
  BY DEF DataTypes, Orders, SeqOf
<1>2. Cardinality(Container) \in Nat
  BY LayoutAssumption, FS_CardinalityType
<1>3. order \in Seq(Container) /\ Len(order) = m
  BY <1>1, <1>2
<1>4. QED  BY <1>3 DEF ToSet

LEMMA ListType ==
  ASSUME DataTypes, NEW c \in Container, NEW t \in MapType
  PROVE  lists[c][t] \in Seq(Peer)
<1>1. lists[c][t] \in Reports \cup {<<>>}
  BY DEF DataTypes
<1>2. <<>> \in Seq(Peer)
  OBVIOUS
<1>3. QED  BY <1>1, <1>2, LayoutAssumption

\* The ends of the edges of a container.
EndsFrom(c, t) == {{[container |-> c], Node(p)} : p \in ToSet(lists[c][t])}

LEMMA EdgesOfContainer ==
  ASSUME DataTypes, NEW c \in Container, NEW t \in MapType
  PROVE  EdgesFrom(c, t) \in Seq(Edge) /\ EndsOf(EdgesFrom(c, t)) = EndsFrom(c, t)
<1> DEFINE l == lists[c][t]
           e(k) == [from |-> [container |-> c], to |-> Node(l[k])]
<1>1. l \in Seq(Peer)
  BY ListType
<1>2. EdgesFrom(c, t) = [k \in DOMAIN l |-> e(k)]
  BY DEF EdgesFrom
<1> HIDE DEF l
<1>3. Len(l) \in Nat /\ DOMAIN l = 1 .. Len(l) /\ \A k \in DOMAIN l : l[k] \in Peer
  BY <1>1
<1>4. \A p \in Peer : Node(p) \in NodeId
  <2>1. known \subseteq Container
    BY OrderType DEF DataTypes
  <2>2. QED  BY <2>1 DEF Node, NodeId
<1>5. \A k \in DOMAIN l : e(k) \in Edge /\ Ends(e(k)) = {[container |-> c], Node(l[k])}
  BY <1>3, <1>4 DEF Edge, Ends, NodeId
<1> HIDE DEF e
<1>6. EdgesFrom(c, t) \in Seq(Edge)
  BY <1>2, <1>3, <1>5
<1>7. EndsOf(EdgesFrom(c, t)) = {{[container |-> c], Node(l[k])} : k \in DOMAIN l}
  BY <1>2, <1>5 DEF EndsOf
<1>8. QED  BY <1>6, <1>7 DEF EndsFrom, ToSet, l

IsDirected(t, new) ==
  new = [n \in 0 .. Len(order) |->
           IF n = 0 THEN <<>> ELSE new[n - 1] \o EdgesFrom(order[n], t)]

LEMMA DirectedRuns ==
  ASSUME DataTypes, NEW t \in MapType
  PROVE  \E new : IsDirected(t, new) /\ Directed(t) = new[Len(order)]
<1> DEFINE A == Seq(Edge)
           step == [n \in 1 .. Len(order) |-> [u \in A |-> u \o EdgesFrom(order[n], t)]]
<1>1. Len(order) \in Nat /\ <<>> \in A /\ \A n \in 1 .. Len(order) : order[n] \in Container
  BY OrderType
<1>2. step \in [1 .. Len(order) -> [A -> A]]
  <2>1. \A n \in 1 .. Len(order) : EdgesFrom(order[n], t) \in A
    BY <1>1, EdgesOfContainer
  <2>2. \A n \in 1 .. Len(order) : [u \in A |-> u \o EdgesFrom(order[n], t)] \in [A -> A]
    BY <2>1, ConcatEdges
  <2>3. QED  BY <2>2
<1> HIDE DEF A, step
<1>3. PICK f : Recurs(Len(order), f, A, <<>>, step)
  BY <1>1, <1>2, Recursion
<1>4. /\ f \in [0 .. Len(order) -> A] /\ f[0] = <<>>
      /\ \A n \in 1 .. Len(order) : f[n] = step[n][f[n - 1]]
  BY <1>3 DEF Recurs
<1>5. ASSUME NEW n \in 1 .. Len(order) PROVE f[n] = f[n - 1] \o EdgesFrom(order[n], t)
  <2>1. n - 1 \in 0 .. Len(order)
    BY <1>1
  <2>2. f[n - 1] \in A
    BY <1>4, <2>1
  <2>3. QED  BY <1>4, <2>2 DEF step
<1>6. IsDirected(t, f)
  <2>1. \A n \in 0 .. Len(order) : n # 0 => n \in 1 .. Len(order)
    BY <1>1
  <2>2. QED  BY <1>4, <1>5, <2>1 DEF IsDirected
<1> DEFINE new == CHOOSE g : IsDirected(t, g)
<1>7. IsDirected(t, new)
  BY <1>6
<1>8. Directed(t) = new[Len(order)]
  BY DEF Directed, IsDirected
<1>9. QED  BY <1>7, <1>8

\* newEdges has the connections of every container.
LEMMA DirectedEdges ==
  ASSUME DataTypes, NEW t \in MapType
  PROVE  /\ Directed(t) \in Seq(Edge)
         /\ EndsOf(Directed(t)) = UNION {EndsFrom(c, t) : c \in ToSet(order)}
<1>1. PICK u : IsDirected(t, u) /\ Directed(t) = u[Len(order)]
  BY DirectedRuns
<1> DEFINE E(n) == UNION {EndsFrom(order[i], t) : i \in 1 .. n}
           Good(n) == u[n] \in Seq(Edge) /\ EndsOf(u[n]) = E(n)
           S == {n \in 0 .. Len(order) : Good(n)}
<1>2. /\ Len(order) \in Nat /\ DOMAIN order = 1 .. Len(order)
      /\ \A n \in 1 .. Len(order) : order[n] \in Container
  BY OrderType
<1>3. Good(0)
  <2>1. u[0] = <<>>
    BY <1>1, <1>2 DEF IsDirected
  <2>2. <<>> \in Seq(Edge) /\ DOMAIN <<>> = {} /\ 1 .. 0 = {}
    OBVIOUS
  <2>3. QED  BY <2>1, <2>2 DEF EndsOf
<1>4. ASSUME NEW n \in 0 .. Len(order) - 1, Good(n) PROVE Good(n + 1)
  <2>1. n + 1 \in 0 .. Len(order) /\ n + 1 \in 1 .. Len(order) /\ n + 1 # 0 /\ (n + 1) - 1 = n
    BY <1>2
  <2>2. u[n + 1] = u[n] \o EdgesFrom(order[n + 1], t)
    BY <1>1, <2>1 DEF IsDirected
  <2>3. /\ EdgesFrom(order[n + 1], t) \in Seq(Edge)
        /\ EndsOf(EdgesFrom(order[n + 1], t)) = EndsFrom(order[n + 1], t)
    BY <1>2, <2>1, EdgesOfContainer
  <2>4. u[n] \in Seq(Edge) /\ EndsOf(u[n]) = E(n)
    BY <1>4
  <2>5. /\ u[n + 1] \in Seq(Edge)
        /\ EndsOf(u[n + 1]) = E(n) \cup EndsFrom(order[n + 1], t)
    BY <2>2, <2>3, <2>4, ConcatEdges
  <2>6. 1 .. n + 1 = 1 .. n \cup {n + 1}
    BY <1>2
  <2>7. E(n + 1) = E(n) \cup EndsFrom(order[n + 1], t)
    BY <2>6
  <2>8. QED  BY <2>5, <2>7
<1>5. 0 \in S /\ \A n \in 0 .. Len(order) - 1 : n \in S => n + 1 \in S
  <2>1. \A n \in 0 .. Len(order) - 1 : n + 1 \in 0 .. Len(order)
    BY <1>2
  <2>2. 0 \in 0 .. Len(order)
    BY <1>2
  <2> HIDE DEF Good
  <2>3. QED  BY <1>3, <1>4, <2>1, <2>2
<1> HIDE DEF S
<1>6. Len(order) \in S
  BY <1>2, <1>5, Induct
<1>7. E(Len(order)) = UNION {EndsFrom(c, t) : c \in ToSet(order)}
  BY <1>2 DEF ToSet
<1>8. QED  BY <1>1, <1>6, <1>7 DEF S

\* What the edge effect makes of the data.
LEMMA EdgesOfData ==
  ASSUME DataTypes, NEW t \in MapType
  PROVE  /\ Unique(Directed(t)) \in Seq(Edge) /\ OnceEach(Unique(Directed(t)))
         /\ EndsOf(Unique(Directed(t))) = UNION {EndsFrom(c, t) : c \in ToSet(order)}
BY DirectedEdges, UniqueEdges

-----------------------------------------------------------------------------
LEMMA InvInit == Init => Inv
<1>1. SUFFICES ASSUME Init PROVE Inv
  OBVIOUS
<1>2. /\ rafs = {rafId} /\ seen.view = "graph" /\ edgesRef = edges
      /\ stableCount = 0 /\ unstableCount = 0 /\ ran = 0
  BY <1>1 DEF Init, Dependencies
<1>3. stabilized \in BOOLEAN /\ ~stabilized
  BY <1>1, Zenon DEF Init
<1>4. QED  BY <1>2, <1>3 DEF Inv, LoopTypes, OneLoop, EdgesKnown, FramesCounted, Counted

\* What sets state only makes effects due.
LEMMA StateIsSet ==
  ASSUME Inv, UNCHANGED <<edgeVars, loopVars>>
  PROVE  Inv'
BY DEF Inv, edgeVars, loopVars, LoopTypes, OneLoop, EdgesKnown, FramesCounted, Counted

\* A simulation that starts has one frame, and has counted nothing.
LEMMA Restarted ==
  ASSUME NEW rest, rest = {}, Restart(rest)
  PROVE  /\ rafs' = {rafId'} /\ stabilized' = FALSE
         /\ stableCount' = 0 /\ unstableCount' = 0
BY DEF Restart

\* Effects of a commit.  Edges the simulation has not known yet set ran back
\* to 0; the effect that restarts it runs in the same commit.
LEMMA CommitStep ==
  ASSUME Inv, Commit
  PROVE  Inv'
<1>1. /\ edgesRef' = edges /\ seen'.view = mapView
      /\ ran' = IF edgesRef = edges THEN ran ELSE 0
  BY DEF Commit, Dependencies
<1>2. EdgesKnown'
  <2>1. edgesSet' \/ edges' = edges
    BY DEF Commit, GenerateEdges
  <2>2. QED  BY <1>1, <2>1 DEF EdgesKnown
<1>3. ran' \in Nat
  BY <1>1 DEF Inv, LoopTypes
<1>4. CASE EffectIsDue /\ mapView = "graph"
  <2>1. rafs \ {rafId} = {}
    BY DEF Inv, OneLoop
  <2>2. /\ rafs' = {rafId'} /\ stabilized' = FALSE
        /\ stableCount' = 0 /\ unstableCount' = 0
    BY <1>4, <2>1, Restarted DEF Commit, RunEffect
  <2>3. stabilized' \in BOOLEAN /\ ~stabilized'
    BY <2>2, Zenon
  <2>4. LoopTypes' /\ OneLoop' /\ FramesCounted'
    BY <1>1, <1>3, <1>4, <2>2, <2>3 DEF LoopTypes, OneLoop, FramesCounted, Counted
  <2>5. QED  BY <1>2, <2>4 DEF Inv
<1>5. CASE EffectIsDue /\ mapView # "graph"
  <2>1. rafs' = {} /\ UNCHANGED <<rafId, stableCount, unstableCount, stabilized>>
    BY <1>5 DEF Commit, RunEffect, Inv, OneLoop
  <2>2. LoopTypes' /\ OneLoop' /\ FramesCounted'
    BY <1>1, <1>3, <1>5, <2>1 DEF Inv, LoopTypes, OneLoop, FramesCounted
  <2>3. QED  BY <1>2, <2>2 DEF Inv
<1>6. CASE ~EffectIsDue
  <2>1. UNCHANGED <<rafs, rafId, stableCount, unstableCount, stabilized>>
    BY <1>6 DEF Commit
  <2>2. seen'.view = seen.view
    BY <1>1, <1>6 DEF EffectIsDue, Dependencies
  <2>3. ran' = ran
    BY <1>1, <1>6 DEF EffectIsDue, Inv, EdgesKnown
  <2>4. LoopTypes' /\ OneLoop' /\ FramesCounted'
    BY <2>1, <2>2, <2>3 DEF Inv, LoopTypes, OneLoop, FramesCounted, Counted
  <2>5. QED  BY <1>2, <2>4 DEF Inv
<1>7. QED  BY <1>4, <1>5, <1>6

\* A frame is the only one, so the layout has not settled; it schedules the
\* next one unless it has now.
LEMMA FrameStep ==
  ASSUME Inv, NEW i \in rafs, Frame(i)
  PROVE  Inv'
<1>1. rafs \ {i} = {} /\ seen.view = "graph" /\ stabilized = FALSE
  BY DEF Inv, OneLoop, LoopTypes
<1>2. UNCHANGED <<edges, edgesSet, edgesRef, seen>>
  BY DEF Frame, edgeVars
<1>3. LoopTypes' /\ FramesCounted'
  <2>1. CASE seen.paused
    BY <1>2, <2>1 DEF Frame, Paused, Inv, LoopTypes, FramesCounted, Counted
  <2>2. CASE ~seen.paused
    <3>1. PICK slow \in BOOLEAN : Step(slow)
      BY <2>2 DEF Frame
    <3>2. /\ ran' = IF ran < StableIterations THEN ran + 1 ELSE ran
          /\ ran \in Nat /\ stableCount \in Nat /\ unstableCount \in Nat
          /\ Counted(stableCount) /\ Counted(unstableCount)
      BY <1>1, <3>1 DEF Step, Inv, LoopTypes, FramesCounted
    <3>3. CASE slow
      <4>1. stableCount' = stableCount + 1 /\ unstableCount' = unstableCount
        BY <3>1, <3>3 DEF Step
      <4>2. stabilized' = (stabilized \/ stableCount' >= StableIterations)
        BY <3>1, <3>3, Zenon DEF Step
      <4>3. (stableCount' >= StableIterations) \in BOOLEAN
        BY <3>2, <4>1, LayoutAssumption
      <4>4. stabilized' \in BOOLEAN /\ (stabilized' => stableCount' >= StableIterations)
        BY <1>1, <4>2, <4>3, Zenon
      <4>5. QED
        BY <1>2, <3>2, <4>1, <4>4, LayoutAssumption DEF LoopTypes, FramesCounted, Counted
    <3>4. CASE ~slow
      <4>1. stableCount' = 0 /\ unstableCount' = unstableCount + 1
        BY <3>1, <3>4 DEF Step
      <4>2. stabilized' = (stabilized \/ unstableCount' > MaxUnstable)
        BY <3>1, <3>4, Zenon DEF Step
      <4>3. (unstableCount' > MaxUnstable) \in BOOLEAN
        BY <3>2, <4>1, LayoutAssumption
      <4>4. stabilized' \in BOOLEAN /\ (stabilized' => unstableCount' > MaxUnstable)
        BY <1>1, <4>2, <4>3, Zenon
      <4>5. QED
        BY <1>2, <3>2, <4>1, <4>4, LayoutAssumption DEF LoopTypes, FramesCounted, Counted
    <3>5. QED  BY <3>3, <3>4
  <2>3. QED  BY <2>1, <2>2
<1>4. OneLoop'
  <2>1. CASE stabilized'
    BY <1>1, <1>2, <2>1 DEF Frame, OneLoop
  <2>2. CASE ~stabilized'
    <3>1. rafs' = {rafId'}
      BY <1>1, <2>2 DEF Frame
    <3>2. QED  BY <1>1, <1>2, <2>2, <3>1 DEF OneLoop
  <2>3. QED  BY <2>1, <2>2
<1>5. QED  BY <1>2, <1>3, <1>4 DEF Inv, EdgesKnown

\* One step per action.
LEMMA InvStep == Inv /\ [Next]_vars => Inv'
<1>1. SUFFICES ASSUME Inv, [Next]_vars PROVE Inv'
  OBVIOUS
<1>2. CASE \E o \in Orders : Listed(o)
  BY <1>1, <1>2, StateIsSet DEF Listed, SetsPeerData
<1>3. CASE \E c \in Container, t \in MapType, l \in Reports :
             c \notin ToSet(l) /\ Reported(c, t, l)
  BY <1>1, <1>3, StateIsSet DEF Reported, SetsPeerData
<1>4. CASE \E t \in MapType : SetMapType(t)
  BY <1>1, <1>4, StateIsSet DEF SetMapType
<1>5. CASE \E v \in {"graph", "circle"} : SetMapView(v)
  BY <1>1, <1>5, StateIsSet DEF SetMapView
<1>6. CASE \E b \in BOOLEAN : SetPauseSim(b)
  BY <1>1, <1>6, StateIsSet DEF SetPauseSim
<1>7. CASE Commit
  BY <1>1, <1>7, CommitStep
<1>8. CASE \E i \in rafs : Frame(i)
  BY <1>1, <1>8, FrameStep
<1>9. CASE UNCHANGED vars
  BY <1>1, <1>9, StateIsSet DEF vars
<1>10. QED  BY <1>1, <1>2, <1>3, <1>4, <1>5, <1>6, <1>7, <1>8, <1>9 DEF Next

-----------------------------------------------------------------------------
(* The theorems.                                                           *)

\* The inductive invariant: one loop for the view the effects have seen, and
\* counters of frames that have run with the edges it knows.
THEOREM Invariance == Spec => []Inv
<1>1. QED  BY InvInit, InvStep, PTL DEF Spec

\* However messages, clicks, commits and frames fall, the effect's clean-up
\* leaves no second requestAnimationFrame loop behind, and none ends early.
THEOREM OneLoopOnly == Spec => []OneSimulation
<1>1. Inv => OneSimulation
  <2>1. SUFFICES ASSUME Inv PROVE OneSimulation
    OBVIOUS
  <2>2. rafs \subseteq {rafId} /\ (stabilized => rafs = {})
    BY <2>1 DEF Inv, OneLoop
  <2>3. ASSUME Quiet PROVE mapView = seen.view
    BY <2>3 DEF Quiet, EffectIsDue, Dependencies
  <2>4. QED  BY <2>1, <2>2, <2>3 DEF Inv, OneLoop, OneSimulation
<1>2. QED  BY <1>1, Invariance, PTL

\* stabilizedRef never outlives the edges it was set for: a settled layout
\* has been simulated with the edges that are shown.
THEOREM SettledLayoutsAreCurrent == Spec => []SettledWithTheseEdges
<1>1. Inv => SettledWithTheseEdges
  <2>1. SUFFICES ASSUME Inv, Quiet, stabilized, mapView = "graph"
                 PROVE  edgesRef = edges /\ ran >= StableIterations
    BY DEF SettledWithTheseEdges
  <2>2. ~edgesSet /\ seen.view = "graph"
    BY <2>1 DEF Quiet, EffectIsDue, Dependencies
  <2>3. QED  BY <2>1, <2>2 DEF Inv, EdgesKnown, FramesCounted
<1>2. QED  BY <1>1, Invariance, PTL

-----------------------------------------------------------------------------
(* The edges follow the data.                                              *)

Views == {"graph", "circle"}
SeenTypes == [view : Views, type : MapType, paused : BOOLEAN,
              distance : {MinDistance(n) : n \in 0 .. Cardinality(Container)}]
ViewTypes == mapView \in Views /\ mapType \in MapType /\ pauseSim \in BOOLEAN

\* What a commit has made of the data stays so until the data are set again;
\* a change of the map alone leaves the edges of the map the effects have
\* seen.
EdgesCurrent == ~peerDirty => edges = Unique(Directed(seen.type))

EdgeInv == DataTypes /\ ViewTypes /\ seen \in SeenTypes /\ EdgesCurrent

LEMMA DependenciesType == DataTypes /\ ViewTypes => Dependencies \in SeenTypes
<1>1. SUFFICES ASSUME DataTypes, ViewTypes PROVE Dependencies \in SeenTypes
  OBVIOUS
<1>2. MinDistance(Len(order)) \in {MinDistance(n) : n \in 0 .. Cardinality(Container)}
  BY <1>1, OrderType
<1>3. mapView \in Views /\ mapType \in MapType /\ pauseSim \in BOOLEAN
  BY <1>1 DEF ViewTypes
<1> HIDE DEF MinDistance
<1>4. QED  BY <1>2, <1>3 DEF Dependencies, SeenTypes

LEMMA EdgeInit == Init => EdgeInv
<1>1. SUFFICES ASSUME Init PROVE EdgeInv
  OBVIOUS
<1>2. order = <<>> /\ edges = <<>> /\ Len(order) = 0 /\ ToSet(order) = {}
  BY <1>1 DEF Init, ToSet
<1>3. DataTypes
  <2>1. Cardinality(Container) \in Nat
    BY LayoutAssumption, FS_CardinalityType
  <2>2. <<>> \in [1 .. 0 -> Container] /\ IsInjective(<<>>)
    BY DEF IsInjective
  <2>3. order \in Orders
    BY <1>2, <2>1, <2>2 DEF Orders, SeqOf
  <2>4. known = {} /\ lists \in [Container -> [MapType -> Reports \cup {<<>>}]]
    BY <1>1 DEF Init, NoLists
  <2>5. QED  BY <1>2, <2>3, <2>4 DEF DataTypes
<1>4. ViewTypes
  BY <1>1 DEF Init, ViewTypes, Views
<1>5. seen \in SeenTypes
  BY <1>1, <1>3, <1>4, DependenciesType DEF Init
<1>6. seen.type \in MapType
  BY <1>1 DEF Init, Dependencies
<1>7. Unique(Directed(seen.type)) = <<>>
  <2>1. PICK new : IsDirected(seen.type, new) /\ Directed(seen.type) = new[Len(order)]
    BY <1>3, <1>6, DirectedRuns
  <2>2. Directed(seen.type) = <<>>
    BY <1>2, <2>1 DEF IsDirected
  <2>3. <<>> \in Seq(Edge) /\ Len(<<>>) = 0
    OBVIOUS
  <2>4. PICK u : IsUniq(<<>>, u) /\ Unique(<<>>) = u[0]
    BY <2>3, UniqueRuns
  <2>5. Unique(<<>>) = <<>>
    BY <2>3, <2>4 DEF IsUniq
  <2>6. QED  BY <2>2, <2>5
<1>8. QED  BY <1>2, <1>3, <1>4, <1>5, <1>7 DEF EdgeInv, EdgesCurrent

\* What is drawn changes with the data only.
LEMMA SameEdges ==
  ASSUME UNCHANGED <<order, lists, known>>, NEW t
  PROVE  Unique(Directed(t))' = Unique(Directed(t))
<1>1. \A p : Node(p)' = Node(p)
  BY DEF Node
<1>2. \A c : EdgesFrom(c, t)' = EdgesFrom(c, t)
  BY <1>1 DEF EdgesFrom
<1>3. ASSUME NEW new
      PROVE  [n \in 0 .. Len(order) |->
                IF n = 0 THEN <<>> ELSE new[n - 1] \o EdgesFrom(order[n], t)]' =
             [n \in 0 .. Len(order) |->
                IF n = 0 THEN <<>> ELSE new[n - 1] \o EdgesFrom(order[n], t)]
  BY <1>2
<1>4. \A new : IsDirected(t, new)' <=> IsDirected(t, new)
  BY <1>3 DEF IsDirected
<1>5. (CHOOSE new : IsDirected(t, new))' = CHOOSE new : IsDirected(t, new)
  BY <1>4, Zenon
<1>6. Directed(t) = (CHOOSE new : IsDirected(t, new))[Len(order)]
  BY DEF Directed, IsDirected
<1>7. Directed(t)' = (CHOOSE new : IsDirected(t, new))'[Len(order)]
  BY DEF Directed, IsDirected
<1>8. QED  BY <1>5, <1>6, <1>7

LEMMA ListedData ==
  ASSUME DataTypes, NEW o \in Orders, Listed(o)
  PROVE  DataTypes'
<1>1. order' \in Orders /\ known' \subseteq ToSet(order')
  BY DEF Listed
<1>2. NoLists \in [MapType -> Reports \cup {<<>>}]
  BY DEF NoLists
<1>3. \A c \in Container : lists[c] \in [MapType -> Reports \cup {<<>>}]
  BY DEF DataTypes
<1>4. lists' = [c \in Container |->
                  IF c \in ToSet(order) \cap ToSet(o) THEN lists[c] ELSE NoLists]
  BY DEF Listed
<1> HIDE DEF NoLists
<1>5. lists' \in [Container -> [MapType -> Reports \cup {<<>>}]]
  BY <1>2, <1>3, <1>4
<1>6. QED  BY <1>1, <1>5 DEF DataTypes

LEMMA ReportedData ==
  ASSUME DataTypes, NEW c \in Container, NEW t \in MapType, NEW l \in Reports,
         Reported(c, t, l)
  PROVE  DataTypes'
<1>1. order' = order /\ known' = known \cup {c} /\ c \in ToSet(order)
  BY DEF Reported
<1>2. lists' = [lists EXCEPT ![c][t] = l]
  BY DEF Reported
<1>3. lists' \in [Container -> [MapType -> Reports \cup {<<>>}]]
  BY <1>2 DEF DataTypes
<1>4. QED  BY <1>1, <1>3 DEF DataTypes

LEMMA EdgeStep == Inv /\ EdgeInv /\ [Next]_vars => EdgeInv'
<1>1. SUFFICES ASSUME Inv, EdgeInv, [Next]_vars PROVE EdgeInv'
  OBVIOUS
<1>2. DataTypes /\ ViewTypes /\ seen \in SeenTypes /\ EdgesCurrent
  BY <1>1 DEF EdgeInv
<1>3. CASE \E o \in Orders : Listed(o)
  <2>1. PICK o \in Orders : Listed(o)
    BY <1>3
  <2>2. DataTypes'
    BY <1>2, <2>1, ListedData
  <2>3. peerDirty' = TRUE /\ UNCHANGED <<mapView, mapType, pauseSim, seen>>
    BY <2>1 DEF Listed, SetsPeerData, viewVars, edgeVars
  <2>4. QED  BY <1>2, <2>2, <2>3 DEF EdgeInv, ViewTypes, EdgesCurrent
<1>4. CASE \E c \in Container, t \in MapType, l \in Reports :
             c \notin ToSet(l) /\ Reported(c, t, l)
  <2>1. PICK c \in Container, t \in MapType, l \in Reports : Reported(c, t, l)
    BY <1>4
  <2>2. DataTypes'
    BY <1>2, <2>1, ReportedData
  <2>3. peerDirty' = TRUE /\ UNCHANGED <<mapView, mapType, pauseSim, seen>>
    BY <2>1 DEF Reported, SetsPeerData, viewVars, edgeVars
  <2>4. QED  BY <1>2, <2>2, <2>3 DEF EdgeInv, ViewTypes, EdgesCurrent
<1>5. ASSUME UNCHANGED <<order, lists, known, peerDirty, edges, seen>>
      PROVE  DataTypes' /\ (seen \in SeenTypes)' /\ EdgesCurrent'
  <2>1. \A t : Unique(Directed(t))' = Unique(Directed(t))
    BY <1>5, SameEdges
  <2>2. EdgesCurrent'
    BY <1>2, <1>5, <2>1 DEF EdgesCurrent
  <2>3. QED  BY <1>2, <1>5, <2>2 DEF DataTypes
<1>6. CASE \E t \in MapType : SetMapType(t)
  <2>1. ViewTypes' /\ UNCHANGED <<order, lists, known, peerDirty, edges, seen>>
    BY <1>2, <1>6 DEF SetMapType, ViewTypes, edgeVars
  <2>2. QED  BY <1>5, <2>1 DEF EdgeInv
<1>7. CASE \E v \in {"graph", "circle"} : SetMapView(v)
  <2>1. ViewTypes' /\ UNCHANGED <<order, lists, known, peerDirty, edges, seen>>
    BY <1>2, <1>7 DEF SetMapView, ViewTypes, Views, dataVars, edgeVars
  <2>2. QED  BY <1>5, <2>1 DEF EdgeInv
<1>8. CASE \E b \in BOOLEAN : SetPauseSim(b)
  <2>1. ViewTypes' /\ UNCHANGED <<order, lists, known, peerDirty, edges, seen>>
    BY <1>2, <1>8 DEF SetPauseSim, ViewTypes, dataVars, edgeVars
  <2>2. QED  BY <1>5, <2>1 DEF EdgeInv
<1>9. CASE Commit
  <2>1. UNCHANGED <<order, lists, known, mapView, mapType, pauseSim>>
    BY <1>9 DEF Commit, dataVars, viewVars
  <2>2. DataTypes' /\ ViewTypes'
    BY <1>2, <2>1 DEF DataTypes, ViewTypes
  <2>3. (seen \in SeenTypes)' /\ seen'.type = mapType
    BY <1>2, <1>9, DependenciesType DEF Commit, Dependencies
  <2>4. edges' = Unique(Directed(mapType))
    BY <1>2, <1>9 DEF Commit, GenerateEdges, EdgesDiffer, EdgesCurrent
  <2>5. \A t : Unique(Directed(t))' = Unique(Directed(t))
    BY <2>1, SameEdges
  <2>6. EdgesCurrent'
    BY <2>3, <2>4, <2>5 DEF EdgesCurrent
  <2>7. QED  BY <2>2, <2>3, <2>6 DEF EdgeInv
<1>10. CASE \E i \in rafs : Frame(i)
  <2>1. PICK i \in rafs : Frame(i)
    BY <1>10
  <2>2. UNCHANGED <<order, lists, known, mapView, mapType, pauseSim, edges, seen>>
    BY <2>1 DEF Frame, dataVars, viewVars, edgeVars
  <2>3. peerDirty' = TRUE \/ peerDirty' = peerDirty
    BY <2>1 DEF Frame, Step, Paused
  <2>4. DataTypes' /\ ViewTypes' /\ (seen \in SeenTypes)'
    BY <1>2, <2>2 DEF DataTypes, ViewTypes
  <2>5. \A t : Unique(Directed(t))' = Unique(Directed(t))
    BY <2>2, SameEdges
  <2>6. EdgesCurrent'
    BY <1>2, <2>2, <2>3, <2>5 DEF EdgesCurrent
  <2>7. QED  BY <2>4, <2>6 DEF EdgeInv
<1>11. CASE UNCHANGED vars
  <2>1. ViewTypes' /\ UNCHANGED <<order, lists, known, peerDirty, edges, seen>>
    BY <1>2, <1>11 DEF vars, dataVars, viewVars, edgeVars, ViewTypes
  <2>2. QED  BY <1>5, <2>1 DEF EdgeInv
<1>12. QED
  BY <1>1, <1>3, <1>4, <1>6, <1>7, <1>8, <1>9, <1>10, <1>11 DEF Next

\* The second inductive invariant: the edges are those of the data the
\* effects have seen.
THEOREM EdgesOfSeenData == Spec => []EdgeInv
<1>1. QED  BY Invariance, EdgeInit, EdgeStep, PTL DEF Spec

-----------------------------------------------------------------------------
(* What is rendered.  The graph renders the ref of the commit before: a frame *)
(* that has run with the edges has set peerData, so that a commit has come    *)
(* after the one that set the ref.                                            *)

GraphShown == ran > 0 /\ ~peerDirty /\ edgesRef = edges => shown = edges
OthersShown == seen.view # "graph" /\ ~edgesSet => shown = edges
ShownInv == GraphShown /\ OthersShown

LEMMA ShownInit == Init => ShownInv
BY DEF Init, Dependencies, ShownInv, GraphShown, OthersShown

\* State that is set, or peerData alone: nothing is rendered yet.
LEMMA ShownUnchanged ==
  ASSUME ShownInv, UNCHANGED <<edgeVars, loopVars>>,
         peerDirty' = TRUE \/ UNCHANGED peerDirty
  PROVE  ShownInv'
<1>1. UNCHANGED <<edges, edgesSet, edgesRef, shown, seen, ran>>
  BY DEF edgeVars, loopVars
<1>2. peerDirty => peerDirty'
  BY Zenon
<1>3. QED  BY <1>1, <1>2 DEF ShownInv, GraphShown, OthersShown

LEMMA ShownStep == Inv /\ ShownInv /\ [Next]_vars => ShownInv'
<1>1. SUFFICES ASSUME Inv, ShownInv, [Next]_vars PROVE ShownInv'
  OBVIOUS
<1>2. CASE \E o \in Orders : Listed(o)
  BY <1>1, <1>2, ShownUnchanged DEF Listed, SetsPeerData
<1>3. CASE \E c \in Container, t \in MapType, l \in Reports :
             c \notin ToSet(l) /\ Reported(c, t, l)
  BY <1>1, <1>3, ShownUnchanged DEF Reported, SetsPeerData
<1>4. CASE \E t \in MapType : SetMapType(t)
  BY <1>1, <1>4, ShownUnchanged DEF SetMapType
<1>5. CASE \E v \in {"graph", "circle"} : SetMapView(v)
  BY <1>1, <1>5, ShownUnchanged DEF SetMapView
<1>6. CASE \E b \in BOOLEAN : SetPauseSim(b)
  BY <1>1, <1>6, ShownUnchanged DEF SetPauseSim
<1>7. CASE Commit
  <2>1. /\ edgesRef' = edges /\ seen'.view = mapView
        /\ ran' = IF edgesRef = edges THEN ran ELSE 0
        /\ shown' = IF mapView = "graph" THEN edgesRef ELSE edges
    BY <1>7 DEF Commit, Dependencies, Rendered
  <2>2. edgesSet' \/ edges' = edges
    BY <1>7 DEF Commit, GenerateEdges
  <2>3. GraphShown'
    BY <2>1 DEF GraphShown
  <2>4. OthersShown'
    BY <2>1, <2>2 DEF OthersShown
  <2>5. QED  BY <2>3, <2>4 DEF ShownInv
<1>8. CASE \E i \in rafs : Frame(i)
  <2>1. PICK i \in rafs : Frame(i)
    BY <1>8
  <2>2. UNCHANGED <<edges, edgesSet, edgesRef, shown, seen>>
    BY <2>1 DEF Frame, edgeVars
  <2>3. peerDirty' = TRUE \/ UNCHANGED <<peerDirty, ran>>
    BY <2>1, Zenon DEF Frame, Step, Paused
  <2>4. QED  BY <1>1, <2>2, <2>3 DEF ShownInv, GraphShown, OthersShown
<1>9. CASE UNCHANGED vars
  BY <1>1, <1>9, ShownUnchanged DEF vars
<1>10. QED  BY <1>1, <1>2, <1>3, <1>4, <1>5, <1>6, <1>7, <1>8, <1>9 DEF Next

\* However data setters, clicks, commits and frames fall between two
\* commits, the edges of a page at rest are the connections of the chosen
\* map, each once; and a graph that has settled, or a view without
\* simulation, has rendered these and no older ones.
THEOREM EdgesShown == Spec => []EdgesFollowData
<1>1. Inv /\ EdgeInv /\ ShownInv => EdgesFollowData
  <2>1. SUFFICES ASSUME Inv, EdgeInv, ShownInv, Quiet
                 PROVE  /\ EndsOf(edges) = UNION {EndsFrom(c, mapType) : c \in ToSet(order)}
                        /\ OnceEach(edges)
                        /\ (mapView = "graph" => stabilized) => shown = edges
    BY DEF EdgesFollowData, EndsOf, EndsFrom, OnceEach
  <2>2. seen.type = mapType /\ seen.view = mapView /\ ~edgesSet /\ ~peerDirty
    BY <2>1 DEF Quiet, EffectIsDue, Dependencies
  <2>3. edges = Unique(Directed(mapType))
    BY <2>1, <2>2 DEF EdgeInv, EdgesCurrent
  <2>4. ASSUME mapView = "graph", stabilized PROVE shown = edges
    <3>1. edgesRef = edges /\ ran >= StableIterations /\ ran \in Nat
      BY <2>1, <2>2, <2>4 DEF Inv, EdgesKnown, FramesCounted, LoopTypes
    <3>2. ran > 0
      BY <3>1, LayoutAssumption
    <3>3. QED  BY <2>1, <2>2, <3>1, <3>2 DEF ShownInv, GraphShown
  <2>5. (mapView = "graph" => stabilized) => shown = edges
    <3>1. mapView # "graph" => shown = edges
      BY <2>1, <2>2 DEF ShownInv, OthersShown
    <3>2. QED  BY <2>4, <3>1
  <2>6. QED  BY <2>1, <2>3, <2>5, EdgesOfData DEF EdgeInv, ViewTypes
<1>2. QED
  BY <1>1, Invariance, EdgesOfSeenData, InvInit, InvStep, ShownInit, ShownStep, PTL DEF Spec

-----------------------------------------------------------------------------
(* Types.  The counters stay below their limits until they have settled the  *)
(* layout, and no frame counts after that.                                   *)

LoopBounds ==
  /\ rafId \in 1 .. 3 /\ ran \in 0 .. StableIterations
  /\ stableCount \in 0 .. StableIterations /\ unstableCount \in 0 .. MaxUnstable + 1
  /\ ~stabilized => stableCount < StableIterations /\ unstableCount <= MaxUnstable

EdgeTypes ==
  /\ edges \in Seq(Edge) /\ edgesRef \in Seq(Edge) /\ shown \in Seq(Edge)
  /\ nodesRef \subseteq Container
Flags == peerDirty \in BOOLEAN /\ edgesSet \in BOOLEAN
ChangesBound == changes \in 0 .. MaxChanges

TypeInv == LoopBounds /\ EdgeTypes /\ Flags /\ ChangesBound

LEMMA TypeInit == Init => TypeInv
<1>1. SUFFICES ASSUME Init PROVE TypeInv
  OBVIOUS
<1>2. /\ rafId = 1 /\ ran = 0 /\ stableCount = 0 /\ unstableCount = 0 /\ changes = 0
      /\ edges = <<>> /\ edgesRef = <<>> /\ shown = <<>> /\ nodesRef = {}
  BY <1>1 DEF Init
<1>3. LoopBounds /\ ChangesBound
  BY <1>2, LayoutAssumption DEF LoopBounds, ChangesBound
<1>4. EdgeTypes
  BY <1>2 DEF EdgeTypes
<1>5. Flags
  BY <1>1, Zenon DEF Init, Flags
<1>6. QED  BY <1>3, <1>4, <1>5 DEF TypeInv

\* What the simulation and the edge effect keep.
LEMMA LoopUnchanged == LoopBounds /\ UNCHANGED loopVars => LoopBounds'
BY DEF LoopBounds, loopVars
LEMMA EdgesUnchanged == EdgeTypes /\ UNCHANGED edgeVars => EdgeTypes'
BY DEF EdgeTypes, edgeVars

LEMMA SetsPeerDataTypes ==
  ASSUME TypeInv, SetsPeerData
  PROVE  TypeInv'
<1>1. UNCHANGED <<edgeVars, loopVars>>
  BY DEF SetsPeerData
<1>2. LoopBounds' /\ EdgeTypes'
  BY <1>1, LoopUnchanged, EdgesUnchanged DEF TypeInv
<1>3. Flags'
  <2>1. peerDirty' = TRUE /\ edgesSet' = edgesSet
    BY Zenon DEF SetsPeerData, edgeVars
  <2>2. QED  BY <2>1, Zenon DEF TypeInv, Flags
<1>4. changes \in Nat
  BY LayoutAssumption DEF TypeInv, ChangesBound
<1>5. changes' = changes \/ (changes < MaxChanges /\ changes' = changes + 1)
  BY DEF SetsPeerData
<1>6. ChangesBound'
  BY <1>4, <1>5, LayoutAssumption DEF TypeInv, ChangesBound
<1>7. QED  BY <1>2, <1>3, <1>6 DEF TypeInv

LEMMA NewFrameType == NewFrame({}) \in 1 .. 3
<1>1. 1 \in 1 .. 3 /\ 1 \notin {}
  OBVIOUS
<1>2. QED  BY <1>1 DEF NewFrame

LEMMA CommitTypes ==
  ASSUME Inv, EdgeInv, TypeInv, Commit
  PROVE  TypeInv'
<1>1. /\ changes' = changes /\ nodesRef' = ToSet(order) /\ edgesRef' = edges
      /\ ran' = IF edgesRef = edges THEN ran ELSE 0
  BY DEF Commit, dataVars
<1>2. ChangesBound'
  BY <1>1 DEF TypeInv, ChangesBound
<1>3. EdgeTypes'
  <2>1. DataTypes /\ mapType \in MapType
    BY DEF EdgeInv, ViewTypes
  <2>2. edges' = edges \/ edges' = Unique(Directed(mapType))
    BY DEF Commit, GenerateEdges
  <2>3. edges' \in Seq(Edge)
    BY <2>1, <2>2, EdgesOfData DEF TypeInv, EdgeTypes
  <2>4. nodesRef' \subseteq Container
    BY <1>1, <2>1, OrderType
  <2>5. shown' \in Seq(Edge)
    BY DEF Commit, Rendered, TypeInv, EdgeTypes
  <2>6. QED  BY <1>1, <2>3, <2>4, <2>5 DEF TypeInv, EdgeTypes
<1>4. Flags'
  <2>1. peerDirty' = FALSE
    BY Zenon DEF Commit
  <2>2. edgesSet' = TRUE \/ edgesSet' = FALSE
    BY Zenon DEF Commit, GenerateEdges
  <2>3. QED  BY <2>1, <2>2, Zenon DEF Flags
<1>5. ran' \in 0 .. StableIterations
  BY <1>1, LayoutAssumption DEF TypeInv, LoopBounds
<1>6. LoopBounds'
  <2>1. CASE EffectIsDue /\ mapView = "graph"
    <3>1. rafs \ {rafId} = {}
      BY DEF Inv, OneLoop
    <3>2. rafId' = NewFrame({}) /\ stableCount' = 0 /\ unstableCount' = 0
      BY <2>1, <3>1 DEF Commit, RunEffect, Restart
    <3>3. QED  BY <1>5, <3>2, NewFrameType, LayoutAssumption DEF LoopBounds
  <2>2. CASE ~(EffectIsDue /\ mapView = "graph")
    <3>1. UNCHANGED <<rafId, stableCount, unstableCount, stabilized>>
      BY <2>2 DEF Commit, RunEffect
    <3>2. QED  BY <1>5, <3>1 DEF TypeInv, LoopBounds
  <2>3. QED  BY <2>1, <2>2
<1>7. QED  BY <1>2, <1>3, <1>4, <1>6 DEF TypeInv

LEMMA FrameTypes ==
  ASSUME Inv, TypeInv, NEW i \in rafs, Frame(i)
  PROVE  TypeInv'
<1>1. rafs \ {i} = {} /\ stabilized = FALSE
  BY DEF Inv, OneLoop, LoopTypes
<1>2. changes' = changes /\ UNCHANGED edgeVars
  BY DEF Frame, dataVars
<1>3. ChangesBound' /\ EdgeTypes'
  BY <1>2, EdgesUnchanged DEF TypeInv, ChangesBound
<1>4. Flags'
  <2>1. peerDirty' = TRUE \/ peerDirty' = peerDirty
    BY Zenon DEF Frame, Step, Paused
  <2>2. edgesSet' = edgesSet
    BY <1>2 DEF edgeVars
  <2>3. QED  BY <2>1, <2>2, Zenon DEF TypeInv, Flags
<1>5. rafId' \in 1 .. 3
  <2>1. CASE stabilized'
    BY <2>1 DEF Frame, TypeInv, LoopBounds
  <2>2. CASE ~stabilized'
    BY <1>1, <2>2, NewFrameType DEF Frame
  <2>3. QED  BY <2>1, <2>2
<1>6. /\ ran \in 0 .. StableIterations
      /\ stableCount \in 0 .. StableIterations - 1 /\ unstableCount \in 0 .. MaxUnstable
  BY <1>1, LayoutAssumption DEF TypeInv, LoopBounds
<1>7. CASE seen.paused
  <2>1. UNCHANGED <<ran, stableCount, unstableCount, stabilized>>
    BY <1>7 DEF Frame, Paused
  <2>2. QED  BY <1>3, <1>4, <1>5, <2>1 DEF TypeInv, LoopBounds
<1>8. CASE ~seen.paused
  <2>1. PICK slow \in BOOLEAN : Step(slow)
    BY <1>8 DEF Frame
  <2>2. ran' \in 0 .. StableIterations
    <3>1. ran' = IF ran < StableIterations THEN ran + 1 ELSE ran
      BY <2>1 DEF Step
    <3>2. QED  BY <1>6, <3>1, LayoutAssumption
  <2>3. CASE slow
    <3>1. stableCount' = stableCount + 1 /\ unstableCount' = unstableCount
      BY <2>1, <2>3 DEF Step
    <3>2. stabilized' = (stabilized \/ stableCount' >= StableIterations)
      BY <2>1, <2>3, Zenon DEF Step
    <3>3. ~stabilized' => ~(stableCount' >= StableIterations)
      BY <1>1, <3>2, Zenon
    <3>4. LoopBounds'
      BY <1>5, <1>6, <2>2, <3>1, <3>3, LayoutAssumption DEF LoopBounds
    <3>5. QED  BY <1>3, <1>4, <3>4 DEF TypeInv
  <2>4. CASE ~slow
    <3>1. stableCount' = 0 /\ unstableCount' = unstableCount + 1
      BY <2>1, <2>4 DEF Step
    <3>2. stabilized' = (stabilized \/ unstableCount' > MaxUnstable)
      BY <2>1, <2>4, Zenon DEF Step
    <3>3. ~stabilized' => ~(unstableCount' > MaxUnstable)
      BY <1>1, <3>2, Zenon
    <3>4. LoopBounds'
      BY <1>5, <1>6, <2>2, <3>1, <3>3, LayoutAssumption DEF LoopBounds
    <3>5. QED  BY <1>3, <1>4, <3>4 DEF TypeInv
  <2>5. QED  BY <2>3, <2>4
<1>9. QED  BY <1>7, <1>8

LEMMA TypeStep == Inv /\ EdgeInv /\ TypeInv /\ [Next]_vars => TypeInv'
<1>1. SUFFICES ASSUME Inv, EdgeInv, TypeInv, [Next]_vars PROVE TypeInv'
  OBVIOUS
<1>2. CASE \E o \in Orders : Listed(o)
  BY <1>1, <1>2, SetsPeerDataTypes DEF Listed
<1>3. CASE \E c \in Container, t \in MapType, l \in Reports :
             c \notin ToSet(l) /\ Reported(c, t, l)
  BY <1>1, <1>3, SetsPeerDataTypes DEF Reported
<1>4. ASSUME UNCHANGED <<edgeVars, loopVars, peerDirty>>
      PROVE  LoopBounds' /\ EdgeTypes' /\ Flags'
  <2>1. edgesSet' = edgesSet /\ peerDirty' = peerDirty
    BY <1>4 DEF edgeVars
  <2>2. Flags'
    BY <1>1, <2>1 DEF TypeInv, Flags
  <2>3. QED  BY <1>1, <1>4, <2>2, LoopUnchanged, EdgesUnchanged DEF TypeInv
<1>5. CASE \E t \in MapType : SetMapType(t)
  <2>1. /\ UNCHANGED <<edgeVars, loopVars, peerDirty>>
        /\ changes < MaxChanges /\ changes' = changes + 1
    BY <1>5 DEF SetMapType
  <2>2. ChangesBound'
    BY <1>1, <2>1, LayoutAssumption DEF TypeInv, ChangesBound
  <2>3. QED  BY <1>4, <2>1, <2>2 DEF TypeInv
<1>6. CASE \E v \in {"graph", "circle"} : SetMapView(v)
  <2>1. UNCHANGED <<edgeVars, loopVars, peerDirty, changes>>
    BY <1>6 DEF SetMapView, dataVars
  <2>2. QED  BY <1>1, <1>4, <2>1 DEF TypeInv, ChangesBound
<1>7. CASE \E b \in BOOLEAN : SetPauseSim(b)
  <2>1. UNCHANGED <<edgeVars, loopVars, peerDirty, changes>>
    BY <1>7 DEF SetPauseSim, dataVars
  <2>2. QED  BY <1>1, <1>4, <2>1 DEF TypeInv, ChangesBound
<1>8. CASE Commit
  BY <1>1, <1>8, CommitTypes
<1>9. CASE \E i \in rafs : Frame(i)
  BY <1>1, <1>9, FrameTypes
<1>10. CASE UNCHANGED vars
  <2>1. UNCHANGED <<edgeVars, loopVars, peerDirty, changes>>
    BY <1>10 DEF vars, dataVars
  <2>2. QED  BY <1>1, <1>4, <2>1 DEF TypeInv, ChangesBound
<1>11. QED
  BY <1>1, <1>2, <1>3, <1>5, <1>6, <1>7, <1>8, <1>9, <1>10 DEF Next

\* The state keeps its types: a page with any number of containers never
\* asks for more than the one frame of its loop, and no counter of the loop
\* runs past its limit.
THEOREM TypeCorrectness == Spec => []TypeOK
<1>1. Inv /\ EdgeInv /\ TypeInv => TypeOK
  <2>1. SUFFICES ASSUME Inv, EdgeInv, TypeInv PROVE TypeOK
    OBVIOUS
  <2>2. /\ order \in Orders /\ known \subseteq ToSet(order)
        /\ lists \in [Container -> [MapType -> Reports \cup {<<>>}]]
        /\ mapView \in {"graph", "circle"} /\ mapType \in MapType /\ pauseSim \in BOOLEAN
    BY <2>1 DEF EdgeInv, DataTypes, ViewTypes, Views
  <2>3. \A s \in {edges, edgesRef, shown} : ToSet(s) \subseteq [from : NodeId, to : NodeId]
    <3>1. \A s \in Seq(Edge) : ToSet(s) \subseteq Edge
      BY DEF ToSet
    <3>2. QED  BY <2>1, <3>1 DEF TypeInv, EdgeTypes, Edge
  <2>4. seen \in [view : {"graph", "circle"}, type : MapType, paused : BOOLEAN,
                  distance : {MinDistance(n) : n \in 0 .. Cardinality(Container)}]
    BY <2>1 DEF EdgeInv, SeenTypes, Views
  <2>5. /\ peerDirty \in BOOLEAN /\ edgesSet \in BOOLEAN
        /\ nodesRef \subseteq Container /\ changes \in 0 .. MaxChanges
    BY <2>1 DEF TypeInv, Flags, EdgeTypes, ChangesBound
  <2>6. /\ rafs \subseteq 1 .. 3 /\ rafId \in 1 .. 3
        /\ stableCount \in 0 .. StableIterations
        /\ unstableCount \in 0 .. MaxUnstable + 1
        /\ stabilized \in BOOLEAN /\ ran \in 0 .. StableIterations
    BY <2>1 DEF TypeInv, LoopBounds, Inv, OneLoop, LoopTypes
  <2>7. QED  BY <2>2, <2>3, <2>4, <2>5, <2>6, Zenon DEF TypeOK
<1>2. QED
  BY <1>1, Invariance, EdgesOfSeenData, EdgeInit, TypeInit, InvInit, InvStep,
     EdgeStep, TypeStep, PTL DEF Spec
=============================================================================
