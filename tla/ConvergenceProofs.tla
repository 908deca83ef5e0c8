------------------------- MODULE ConvergenceProofs -------------------------
(***************************************************************************)
(* Proofs about Convergence, for any set of nodes and any number of clicks *)
(* and messages.                                                           *)
(***************************************************************************)
EXTENDS Convergence, FiniteSetTheorems, SequenceTheorems, TLAPS

\* The types of the counts, without their bounds.
CountTypes ==
  /\ count \in [Node -> Nat] /\ seen \in [Node -> Nat]
  /\ gossip \in [Node -> Nat] /\ published \in Nat
  /\ feed \in [Node -> Seq(Nat)]
  /\ display \in [Node -> Nat] /\ goal \in Nat
  /\ tracking \in BOOLEAN /\ converged \in BOOLEAN

\* Whatever is counted, sent or shown of a node, the node has once seen at
\* least as many messages: clearing only takes from it.
NeverTooMany ==
  \A n \in Node :
    /\ count[n] <= seen[n] /\ display[n] <= seen[n]
    /\ \A i \in 1 .. Len(feed[n]) : feed[n][i] <= seen[n]

\* The inductive invariant.
Inv == CountTypes /\ CountedOnce /\ NeverTooMany /\ ConvergedMeansSeen

-----------------------------------------------------------------------------
LEMMA InvInit == Init => Inv
<1>1. SUFFICES ASSUME Init PROVE Inv
  OBVIOUS
<1>2. CountTypes
  <2>1. /\ count = [n \in Node |-> 0] /\ gossip = [n \in Node |-> 0]
        /\ feed = [n \in Node |-> <<>>] /\ display = [n \in Node |-> 0] /\ goal = 0
        /\ published = 0 /\ seen = [n \in Node |-> 0]
    BY <1>1 DEF Init
  <2>2. tracking \in BOOLEAN /\ converged \in BOOLEAN
    BY <1>1, Zenon DEF Init
  <2>3. QED  BY <2>1, <2>2 DEF CountTypes
<1>3. CountedOnce /\ NeverTooMany
  BY <1>1 DEF Init, CountedOnce, NeverTooMany
<1>4. ConvergedMeansSeen
  BY <1>1 DEF Init, ConvergedMeansSeen
<1>5. QED  BY <1>2, <1>3, <1>4 DEF Inv

\* What the steps of a node may do to a queue of updates: one that the node
\* has seen enough messages for is added.
LEMMA SendsOne ==
  ASSUME CountTypes, NeverTooMany, NEW n \in Node, NEW value \in Nat, Sends(n, value),
         seen' \in [Node -> Nat], \A m \in Node : seen[m] <= seen'[m], value <= seen'[n]
  PROVE  /\ feed' \in [Node -> Seq(Nat)]
         /\ \A m \in Node : \A i \in 1 .. Len(feed'[m]) : feed'[m][i] <= seen'[m]
<1>1. feed' = [feed EXCEPT ![n] = Append(feed[n], value)]
  BY DEF Sends
<1>2. feed \in [Node -> Seq(Nat)] /\ seen \in [Node -> Nat]
  BY DEF CountTypes
<1>3. Append(feed[n], value) \in Seq(Nat)
  BY <1>2
<1>4. feed' \in [Node -> Seq(Nat)]
  BY <1>1, <1>2, <1>3
<1>5. ASSUME NEW m \in Node, NEW i \in 1 .. Len(feed'[m]) PROVE feed'[m][i] <= seen'[m]
  <2>1. CASE m # n
    <3>1. feed'[m] = feed[m]
      BY <1>1, <1>2, <2>1
    <3>2. feed[m][i] <= seen[m]
      BY <1>5, <3>1 DEF NeverTooMany
    <3>3. feed[m] \in Seq(Nat)
      BY <1>2
    <3>4. feed[m][i] \in Nat
      BY <1>5, <3>1, <3>3, ElementOfSeq
    <3>5. QED  BY <1>2, <3>1, <3>2, <3>4
  <2>2. CASE m = n
    <3>1. feed'[n] = Append(feed[n], value) /\ feed[n] \in Seq(Nat)
      BY <1>1, <1>2
    <3>2. CASE i = Len(feed[n]) + 1
      BY <2>2, <3>1, <3>2
    <3>3. CASE i \in 1 .. Len(feed[n])
      <4>1. feed'[n][i] = feed[n][i] /\ feed[n][i] \in Nat
        BY <3>1, <3>3, ElementOfSeq
      <4>2. feed[n][i] <= seen[n]
        BY <3>3 DEF NeverTooMany
      <4>3. QED  BY <1>2, <2>2, <4>1, <4>2
    <3>4. i \in 1 .. Len(feed[n]) + 1
      BY <1>5, <2>2, <3>1
    <3>5. QED  BY <3>1, <3>2, <3>3, <3>4
  <2>3. QED  BY <2>1, <2>2
<1>6. QED  BY <1>4, <1>5

\* What Inv depends on.
LEMMA InvKept ==
  ASSUME Inv, UNCHANGED <<count, feed, gossip, published, seen, page>>
  PROVE  Inv'
<1>1. CountTypes' /\ CountedOnce' /\ NeverTooMany'
  BY DEF page, Inv, CountTypes, CountedOnce, NeverTooMany
<1>2. ConvergedMeansSeen'
  BY Zenon DEF page, Inv, ConvergedMeansSeen
<1>3. QED  BY <1>1, <1>2 DEF Inv

\* Updates under way when a node counts.
LEMMA FeedKept ==
  ASSUME Inv, feed' = feed, seen' \in [Node -> Nat], \A m \in Node : seen[m] <= seen'[m]
  PROVE  \A m \in Node : \A i \in 1 .. Len(feed'[m]) : feed'[m][i] <= seen'[m]
<1>1. SUFFICES ASSUME NEW m \in Node, NEW i \in 1 .. Len(feed[m])
               PROVE  feed[m][i] <= seen'[m]
  OBVIOUS
<1>2. feed[m] \in Seq(Nat) /\ seen[m] \in Nat /\ seen'[m] \in Nat
  BY DEF Inv, CountTypes
<1>3. feed[m][i] \in Nat
  BY <1>2, ElementOfSeq
<1>4. feed[m][i] <= seen[m]
  BY DEF Inv, NeverTooMany
<1>5. QED  BY <1>2, <1>3, <1>4

-----------------------------------------------------------------------------
(* The steps.                                                              *)

\* The page sets counts to 0, takes updates, and looks for convergence.
LEMMA PageStep ==
  ASSUME Inv, NEW n \in Node, Measure(n) \/ Publish(n) \/ Arrives(n)
  PROVE  Inv'
<1>1. CASE Measure(n)
  <2>1. /\ UNCHANGED <<count, feed, gossip, published, seen>>
        /\ display' = [m \in Node |-> 0] /\ goal' = Amount
        /\ tracking' = TRUE /\ converged' = FALSE
    BY <1>1 DEF Measure, nodes
  <2>2. CountTypes'
    BY <2>1, BoundsAssumption DEF Inv, CountTypes
  <2>3. CountedOnce'
    BY <2>1 DEF Inv, CountedOnce
  <2>4. NeverTooMany'
    BY <2>1 DEF Inv, CountTypes, NeverTooMany
  <2>5. ConvergedMeansSeen'
    BY <2>1 DEF ConvergedMeansSeen
  <2>6. QED  BY <2>2, <2>3, <2>4, <2>5 DEF Inv
<1>2. CASE Publish(n)
  <2>1. UNCHANGED <<count, feed, gossip, published, seen, page>>
    BY <1>2 DEF Publish, nodes
  <2>2. QED  BY <2>1, InvKept
<1>3. CASE Arrives(n)
  <2>0. /\ feed[n] \in Seq(Nat) /\ feed[n] # <<>> /\ feed \in [Node -> Seq(Nat)]
        /\ feed' = [feed EXCEPT ![n] = Tail(feed[n])]
        /\ display' = [display EXCEPT ![n] = Head(feed[n])]
        /\ seen' = seen /\ goal' = goal /\ count' = count /\ gossip' = gossip
        /\ published' = published /\ seen \in [Node -> Nat] /\ display \in [Node -> Nat]
    BY <1>3 DEF Arrives, Inv, CountTypes
  <2>1. Head(feed[n]) \in Nat /\ Head(feed[n]) <= seen[n]
    BY <2>0 DEF Inv, NeverTooMany
  <2>2. display' \in [Node -> Nat] /\ \A m \in Node : display'[m] <= seen'[m]
    BY <2>0, <2>1 DEF Inv, NeverTooMany
  <2>3. feed' \in [Node -> Seq(Nat)]
    BY <2>0
  <2>4. ASSUME NEW m \in Node, NEW i \in 1 .. Len(feed'[m])
        PROVE  feed'[m][i] <= seen'[m]
    <3>1. CASE m # n
      BY <2>0, <2>4, <3>1 DEF Inv, NeverTooMany
    <3>2. CASE m = n
      <4>1. feed'[m] = Tail(feed[n])
        BY <2>0, <3>2
      <4>2. i + 1 \in 1 .. Len(feed[n]) /\ feed'[m][i] = feed[n][i + 1]
        <5>1. Len(Tail(feed[n])) = Len(feed[n]) - 1 /\ Len(feed[n]) \in Nat
          BY <2>0, HeadTailProperties
        <5>2. i \in 1 .. Len(Tail(feed[n]))
          BY <2>4, <4>1
        <5>3. Tail(feed[n])[i] = feed[n][i + 1]
          BY <2>0, <5>2, HeadTailProperties
        <5>4. QED  BY <4>1, <5>1, <5>2, <5>3
      <4>3. QED  BY <2>0, <3>2, <4>2 DEF Inv, NeverTooMany
    <3>3. QED  BY <3>1, <3>2
  <2>5. NeverTooMany'
    BY <2>0, <2>2, <2>4 DEF Inv, NeverTooMany
  <2>6. CountTypes' /\ CountedOnce'
    <3>1. tracking' \in BOOLEAN /\ converged' \in BOOLEAN
      BY <1>3, Zenon DEF Arrives, Inv, CountTypes
    <3>2. CountedOnce'
      BY <2>0 DEF Inv, CountedOnce
    <3>3. QED  BY <2>0, <2>2, <2>3, <3>1, <3>2 DEF Inv, CountTypes
  <2>7. ConvergedMeansSeen'
    <3>1. SUFFICES ASSUME converged', NEW m \in Node PROVE seen[m] >= goal
      BY <2>0 DEF ConvergedMeansSeen
    <3>2. CASE converged
      BY <3>2 DEF Inv, ConvergedMeansSeen
    <3>3. CASE ~converged
      <4>1. AllReach(display')
        BY <1>3, <3>1, <3>3 DEF Arrives
      <4>2. display'[m] >= goal
        BY <4>1 DEF AllReach
      <4>3. display'[m] <= seen[m] /\ display'[m] \in Nat /\ seen[m] \in Nat /\ goal \in Nat
        BY <2>0, <2>2 DEF Inv, CountTypes
      <4>4. QED  BY <4>2, <4>3
    <3>4. QED  BY <3>2, <3>3
  <2>8. QED  BY <2>5, <2>6, <2>7 DEF Inv
<1>4. QED  BY <1>1, <1>2, <1>3

\* The controller only writes commands.
LEMMA ControllerStep ==
  ASSUME Inv, NEW k \in Click, WritesPublish(k) \/ \E n \in Node : WritesClear(k, n)
  PROVE  Inv'
<1>1. UNCHANGED <<count, feed, gossip, published, seen, page>>
  BY DEF WritesPublish, WritesClear
<1>2. QED  BY <1>1, InvKept

\* The nodes.  A message is counted by the one that publishes it, and travels
\* to the others only.
LEMMA NodeSteps ==
  ASSUME Inv, NEW n \in Node, NodeStep(n) \/ FullUpdate(n)
  PROVE  Inv'
<1>0. /\ count \in [Node -> Nat] /\ seen \in [Node -> Nat] /\ gossip \in [Node -> Nat]
      /\ published \in Nat /\ feed \in [Node -> Seq(Nat)]
      /\ display \in [Node -> Nat] /\ goal \in Nat
      /\ \A m \in Node : /\ seen[m] + gossip[m] <= published
                         /\ count[m] <= seen[m] /\ display[m] <= seen[m]
  BY DEF Inv, CountTypes, CountedOnce, NeverTooMany
<1>1. UNCHANGED page
  BY DEF NodeStep, Reads, PublishesOne, SendsPublished, Receives, FullUpdate
\* What is left to show of a step.
<1>2. ASSUME /\ seen' \in [Node -> Nat] /\ \A m \in Node : seen[m] <= seen'[m]
             /\ gossip' \in [Node -> Nat] /\ published' \in Nat
             /\ \A m \in Node : seen'[m] + gossip'[m] <= published'
             /\ count' \in [Node -> Nat] /\ \A m \in Node : count'[m] <= seen'[m]
             /\ feed' \in [Node -> Seq(Nat)]
             /\ \A m \in Node : \A i \in 1 .. Len(feed'[m]) : feed'[m][i] <= seen'[m]
      PROVE  Inv'
  <2>1. display' = display /\ goal' = goal /\ converged' = converged /\ tracking' = tracking
    BY <1>1 DEF page
  <2>2. \A m \in Node : display'[m] <= seen'[m]
    <3>1. SUFFICES ASSUME NEW m \in Node PROVE display[m] <= seen'[m]
      BY <2>1
    <3>2. display[m] <= seen[m] /\ seen[m] <= seen'[m]
          /\ display[m] \in Nat /\ seen[m] \in Nat /\ seen'[m] \in Nat
      BY <1>0, <1>2
    <3>3. QED  BY <3>2
  <2>3. ASSUME converged', NEW m \in Node  PROVE seen'[m] >= goal'
    <3>1. converged  BY <2>1, <2>3, Zenon
    <3>2. seen[m] >= goal  BY <3>1 DEF Inv, ConvergedMeansSeen
    <3>3. seen[m] <= seen'[m] /\ goal \in Nat /\ seen[m] \in Nat /\ seen'[m] \in Nat
      BY <1>0, <1>2
    <3>4. QED  BY <2>1, <3>2, <3>3
  <2>4. tracking' \in BOOLEAN /\ converged' \in BOOLEAN
    BY <2>1, Zenon DEF Inv, CountTypes
  <2>5. CountTypes'
    BY <1>0, <1>2, <2>1, <2>4 DEF CountTypes
  <2>6. CountedOnce'
    BY <1>2 DEF CountedOnce
  <2>7. NeverTooMany'
    BY <1>2, <2>2 DEF NeverTooMany
  <2>8. QED  BY <2>3, <2>5, <2>6, <2>7 DEF Inv, ConvergedMeansSeen
<1>3. CASE Reads(n)
  <2>1. UNCHANGED <<seen, gossip, published, feed>>
    BY <1>3 DEF Reads
  <2>2. count' \in [Node -> Nat] /\ \A m \in Node : count'[m] <= seen[m]
    <3>1. count' = count \/ count' = [count EXCEPT ![n] = 0]
      BY <1>3 DEF Reads
    <3>2. CASE count' = count
      BY <1>0, <3>2
    <3>3. CASE count' = [count EXCEPT ![n] = 0]
      BY <1>0, <3>3
    <3>4. QED  BY <3>1, <3>2, <3>3
  <2>3. \A m \in Node : seen[m] <= seen'[m]
    BY <1>0, <2>1
  <2>4. \A m \in Node : \A i \in 1 .. Len(feed'[m]) : feed'[m][i] <= seen'[m]
    BY <1>0, <2>1, <2>3, FeedKept
  <2>5. QED  BY <1>0, <1>2, <2>1, <2>2, <2>3, <2>4
<1>4. CASE PublishesOne(n)
  <2>1. /\ count' = [count EXCEPT ![n] = count[n] + 1]
        /\ seen' = [seen EXCEPT ![n] = seen[n] + 1]
        /\ published' = published + 1 /\ feed' = feed
    BY <1>4 DEF PublishesOne, Counts
  <2>2. \/ gossip' = [m \in Node |-> IF m \in Node \ {n} THEN gossip[m] + 1 ELSE gossip[m]]
        \/ gossip' = gossip
    BY <1>4 DEF PublishesOne, Recipients
  <2>3. seen' \in [Node -> Nat] /\ \A m \in Node : seen[m] <= seen'[m]
    BY <1>0, <2>1
  <2>4. gossip' \in [Node -> Nat] /\ \A m \in Node : seen'[m] + gossip'[m] <= published'
    <3>1. CASE gossip' = [m \in Node |-> IF m \in Node \ {n} THEN gossip[m] + 1 ELSE gossip[m]]
      <4>1. gossip' \in [Node -> Nat]
        BY <1>0, <3>1
      <4>2. ASSUME NEW m \in Node PROVE seen'[m] + gossip'[m] <= published'
        <5>1. /\ seen[m] \in Nat /\ gossip[m] \in Nat /\ published \in Nat
              /\ seen[m] + gossip[m] <= published
          BY <1>0
        <5>2. \/ m = n /\ seen'[m] = seen[m] + 1 /\ gossip'[m] = gossip[m]
              \/ m # n /\ seen'[m] = seen[m] /\ gossip'[m] = gossip[m] + 1
          BY <1>0, <2>1, <3>1
        <5>3. published' = published + 1
          BY <2>1
        <5>4. QED  BY ONLY <5>1, <5>2, <5>3
      <4>3. QED  BY <4>1, <4>2
    <3>2. CASE gossip' = gossip
      <4>1. ASSUME NEW m \in Node PROVE seen'[m] + gossip'[m] <= published'
        <5>1. /\ seen[m] \in Nat /\ gossip[m] \in Nat /\ published \in Nat
              /\ seen[m] + gossip[m] <= published
          BY <1>0
        <5>2. seen'[m] = seen[m] + 1 \/ seen'[m] = seen[m]
          BY <1>0, <2>1
        <5>3. published' = published + 1 /\ gossip'[m] = gossip[m]
          BY <2>1, <3>2
        <5>4. QED  BY ONLY <5>1, <5>2, <5>3
      <4>2. QED  BY <1>0, <3>2, <4>1
    <3>3. QED  BY <2>2, <3>1, <3>2
  <2>5. count' \in [Node -> Nat] /\ \A m \in Node : count'[m] <= seen'[m]
    BY <1>0, <2>1
  <2>6. \A m \in Node : \A i \in 1 .. Len(feed'[m]) : feed'[m][i] <= seen'[m]
    BY <2>1, <2>3, FeedKept
  <2>7. published' \in Nat /\ feed' \in [Node -> Seq(Nat)]
    BY <1>0, <2>1
  <2>8. QED  BY <1>2, <2>3, <2>4, <2>5, <2>6, <2>7
<1>5. CASE SendsPublished(n) \/ FullUpdate(n)
  <2>1. UNCHANGED <<count, seen, gossip, published>> /\ Sends(n, count[n])
    BY <1>5 DEF SendsPublished, FullUpdate
  <2>2. /\ feed' \in [Node -> Seq(Nat)]
        /\ \A m \in Node : \A i \in 1 .. Len(feed'[m]) : feed'[m][i] <= seen'[m]
    <3>1. /\ count[n] \in Nat /\ count[n] <= seen'[n]
          /\ seen' \in [Node -> Nat] /\ \A m \in Node : seen[m] <= seen'[m]
      BY <1>0, <2>1
    <3>2. QED  BY <2>1, <3>1, SendsOne DEF Inv
  <2>3. QED  BY <1>0, <1>2, <2>1, <2>2
<1>6. CASE Receives(n)
  <2>1. /\ count' = [count EXCEPT ![n] = count[n] + 1]
        /\ seen' = [seen EXCEPT ![n] = seen[n] + 1]
        /\ gossip[n] > 0 /\ gossip' = [gossip EXCEPT ![n] = gossip[n] - 1]
        /\ published' = published /\ Sends(n, count[n] + 1)
    BY <1>6 DEF Receives, Counts
  <2>2. seen' \in [Node -> Nat] /\ \A m \in Node : seen[m] <= seen'[m]
    BY <1>0, <2>1
  <2>3. gossip' \in [Node -> Nat] /\ \A m \in Node : seen'[m] + gossip'[m] <= published'
    BY <1>0, <2>1
  <2>4. count' \in [Node -> Nat] /\ \A m \in Node : count'[m] <= seen'[m]
    BY <1>0, <2>1
  <2>5. count[n] + 1 \in Nat /\ count[n] + 1 <= seen'[n]
    BY <1>0, <2>1
  <2>6. /\ feed' \in [Node -> Seq(Nat)]
        /\ \A m \in Node : \A i \in 1 .. Len(feed'[m]) : feed'[m][i] <= seen'[m]
    BY <2>1, <2>2, <2>5, SendsOne DEF Inv
  <2>7. QED  BY <1>0, <1>2, <2>1, <2>2, <2>3, <2>4, <2>6
<1>7. QED  BY <1>3, <1>4, <1>5, <1>6 DEF NodeStep

LEMMA InvStep == Inv /\ [Next]_vars => Inv'
<1>1. SUFFICES ASSUME Inv, [Next]_vars PROVE Inv'
  OBVIOUS
<1>2. CASE UNCHANGED vars
  <2>1. UNCHANGED <<count, feed, gossip, published, seen, page>>
    BY <1>2 DEF vars, nodes
  <2>2. QED  BY <1>1, <2>1, InvKept
<1>3. ASSUME NEW n \in Node,
             Measure(n) \/ Publish(n) \/ Arrives(n) \/ NodeStep(n) \/ FullUpdate(n)
      PROVE  Inv'
  BY <1>1, <1>3, PageStep, NodeSteps
<1>4. ASSUME NEW k \in Click, WritesPublish(k) \/ \E n \in Node : WritesClear(k, n)
      PROVE  Inv'
  BY <1>1, <1>4, ControllerStep
<1>5. QED  BY <1>1, <1>2, <1>3, <1>4 DEF Next

-----------------------------------------------------------------------------
(* The theorems.                                                           *)

\* Counts, updates under way and what the page shows never exceed what was
\* seen, and what was seen never what was published.
THEOREM Invariance == Spec => []Inv
<1>1. QED  BY InvInit, InvStep, PTL DEF Spec

\* No node counts a message twice, however many publish at once.
THEOREM MessagesCountOnce == Spec => []CountedOnce
<1>1. Inv => CountedOnce
  BY DEF Inv
<1>2. QED  BY <1>1, Invariance, PTL

\* What the page calls converged, every node has counted enough messages for.
THEOREM ConvergedIsSeen == Spec => []ConvergedMeansSeen
<1>1. Inv => ConvergedMeansSeen
  BY DEF Inv
<1>2. QED  BY <1>1, Invariance, PTL

-----------------------------------------------------------------------------
(* Types.  That no count runs past what clicks can have asked for is a fact  *)
(* about sums over nodes, commands and requests.  It is shown without them:  *)
(* every message that may be published is a token of its click, and each     *)
(* token is in one place, so what all places hold together cannot exceed     *)
(* what the clicks have brought in.                                          *)

Token == Click \X (1 .. Amount)

\* A token is with a node, in its queue of commands or, at position 0, in
\* what it has yet to publish; it is spent at -1, and unused at -2.
At(who, pos, n, i) == {t \in Token : who[t] = n /\ pos[t] = i}
Spent(pos) == {t \in Token : pos[t] = -1}
Held(n, i) == IF i = 0 THEN left[n] ELSE commands[n][i]

\* Every message to publish and every published one has a token of its own.
Backs(who, pos) ==
  /\ who \in [Token -> Node] /\ pos \in [Token -> Int]
  /\ published <= Cardinality(Spent(pos))
  /\ \A n \in Node : \A i \in 0 .. Len(commands[n]) :
       Held(n, i) <= Cardinality(At(who, pos, n, i))
  /\ \A k \in Click : request[k].pc # "done" =>
       \A j \in 1 .. Amount : pos[<<k, j>>] = -2
Backed == \E who, pos : Backs(who, pos)

Requests == [pc : {"none", "clear", "done"}, todo : SUBSET Node,
             target : Node, amount : {0, 1, Amount}]

QueueTypes ==
  /\ left \in [Node -> Nat] /\ unsent \in [Node -> Nat] /\ base \in [Node -> Nat]
  /\ commands \in [Node -> Seq({Clear, 1, Amount})]
  /\ request \in [Click -> Requests]
  /\ clicks \in 0 .. MaxClicks /\ goal \in {0, Amount}
  /\ \A k \in Click : k > clicks => request[k].pc = "none"

\* Updates a node has yet to send, and what a measurement began with.
SeenAlready == \A n \in Node : unsent[n] <= seen[n] /\ base[n] <= seen[n]

TypeInv == QueueTypes /\ SeenAlready /\ Backed

LEMMA Tokens ==
  /\ IsFiniteSet(Token) /\ Cardinality(Token) = MaxCount /\ MaxCount \in Nat
  /\ \A k \in Click : \A j \in 1 .. Amount : <<k, j>> \in Token
<1>1. Amount \in Nat /\ MaxClicks \in Nat
  BY BoundsAssumption
<1>2. /\ IsFiniteSet(1 .. MaxClicks) /\ Cardinality(1 .. MaxClicks) = MaxClicks
      /\ IsFiniteSet(1 .. Amount) /\ Cardinality(1 .. Amount) = Amount
  BY <1>1, FS_Interval
<1>3. IsFiniteSet(Token) /\ Cardinality(Token) = MaxClicks * Amount
  <2>1. /\ IsFiniteSet(Click \X (1 .. Amount))
        /\ Cardinality(Click \X (1 .. Amount)) = Cardinality(Click) * Cardinality(1 .. Amount)
    <3>1. IsFiniteSet(Click) /\ IsFiniteSet(1 .. Amount)
      BY <1>2 DEF Click
    <3>2. QED  BY ONLY <3>1, FS_Product
  <2>2. Cardinality(Click) = MaxClicks
    BY <1>2 DEF Click
  <2>3. QED  BY <1>2, <2>1, <2>2 DEF Token
<1>4. MaxClicks * Amount = MaxCount /\ MaxCount \in Nat
  BY <1>1 DEF MaxCount
<1>5. QED  BY <1>3, <1>4 DEF Token

LEMMA TokenSets ==
  ASSUME NEW T \in SUBSET Token
  PROVE  /\ IsFiniteSet(T) /\ Cardinality(T) \in Nat /\ Cardinality(T) <= MaxCount
         /\ \A U \in SUBSET T : Cardinality(U) \in Nat /\ Cardinality(U) <= Cardinality(T)
<1>1. IsFiniteSet(T) /\ Cardinality(T) <= MaxCount
  BY Tokens, FS_Subset
<1>2. ASSUME NEW U \in SUBSET T
      PROVE  Cardinality(U) \in Nat /\ Cardinality(U) <= Cardinality(T)
  BY <1>1, FS_Subset, FS_CardinalityType
<1>3. QED  BY <1>1, <1>2, FS_CardinalityType

LEMMA HeldType ==
  ASSUME QueueTypes, NEW n \in Node
  PROVE  /\ Len(commands[n]) \in Nat /\ commands[n] \in Seq({Clear, 1, Amount})
         /\ left[n] \in Nat
         /\ \A i \in 1 .. Len(commands[n]) :
              commands[n][i] \in {Clear, 1, Amount} /\ commands[n][i] \in Nat
<1>1. commands[n] \in Seq({Clear, 1, Amount}) /\ left[n] \in Nat
  BY DEF QueueTypes
<1>2. {Clear, 1, Amount} \subseteq Nat
  BY BoundsAssumption DEF Clear
<1>3. \A i \in 1 .. Len(commands[n]) : commands[n][i] \in {Clear, 1, Amount}
  BY <1>1, ElementOfSeq
<1>4. QED  BY <1>1, <1>2, <1>3

LEMMA TypeInit == Init => TypeInv
<1>1. SUFFICES ASSUME Init PROVE TypeInv
  OBVIOUS
<1>2. PICK n0 \in Node : TRUE
  BY NodeAssumption
<1>3. (CHOOSE n \in Node : TRUE) \in Node
  BY NodeAssumption
<1>4. NoRequest(CHOOSE n \in Node : TRUE) \in Requests
  BY <1>3 DEF NoRequest, Requests
<1>5. QueueTypes
  <2>1. /\ left = [n \in Node |-> 0] /\ unsent = [n \in Node |-> 0]
        /\ base = [n \in Node |-> 0] /\ commands = [n \in Node |-> <<>>]
        /\ request = [k \in Click |-> NoRequest(CHOOSE n \in Node : TRUE)]
        /\ clicks = 0 /\ goal = 0
    BY <1>1 DEF Init
  <2>2. \A k \in Click : request[k].pc = "none"
    BY <2>1 DEF NoRequest
  <2>3. QED  BY <1>4, <2>1, <2>2, BoundsAssumption DEF QueueTypes
<1>6. SeenAlready
  BY <1>1 DEF Init, SeenAlready
<1>7. Backed
  <2> DEFINE who == [t \in Token |-> n0]
             pos == [t \in Token |-> -2]
  <2>1. who \in [Token -> Node] /\ pos \in [Token -> Int]
    OBVIOUS
  <2>2. \A k \in Click, j \in 1 .. Amount : pos[<<k, j>>] = -2
    BY Tokens
  <2> HIDE DEF who, pos
  <2>3. published <= Cardinality(Spent(pos))
    <3>1. published = 0 /\ Cardinality(Spent(pos)) \in Nat
      BY <1>1, TokenSets DEF Init, Spent
    <3>2. QED  BY <3>1
  <2>4. ASSUME NEW n \in Node, NEW i \in 0 .. Len(commands[n])
        PROVE  Held(n, i) <= Cardinality(At(who, pos, n, i))
    <3>1. i = 0 /\ left[n] = 0
      BY <1>1 DEF Init
    <3>2. Cardinality(At(who, pos, n, i)) \in Nat
      BY TokenSets DEF At
    <3>3. QED  BY <3>1, <3>2 DEF Held
  <2>5. Backs(who, pos)
    BY <2>1, <2>2, <2>3, <2>4 DEF Backs
  <2>6. QED  BY <2>5 DEF Backed
<1>8. QED  BY <1>5, <1>6, <1>7 DEF TypeInv

\* Steps that neither give out commands, read one, nor publish.
LEMMA BackedKept ==
  ASSUME Backed, UNCHANGED <<left, commands, published>>,
         \A k \in Click : request'[k].pc # "done" => request[k].pc # "done"
  PROVE  Backed'
<1>1. PICK who, pos : Backs(who, pos)
  BY DEF Backed
<1>2. Backs(who, pos)'
  BY <1>1 DEF Backs, Held, At, Spent
<1>3. QED  BY <1>2 DEF Backed

\* A node that reads a command moves the tokens of the others up, and those
\* of the command to what it has yet to publish.
LEMMA ReadsBacked ==
  ASSUME QueueTypes, Backed, NEW n \in Node, Reads(n)
  PROVE  Backed'
<1>1. PICK who, pos : Backs(who, pos)
  BY DEF Backed
<1>2. /\ who \in [Token -> Node] /\ pos \in [Token -> Int]
      /\ \A m \in Node : \A i \in 0 .. Len(commands[m]) :
           Held(m, i) <= Cardinality(At(who, pos, m, i))
  BY <1>1 DEF Backs
<1> DEFINE up == [t \in Token |-> IF who[t] = n /\ pos[t] >= 1 THEN pos[t] - 1 ELSE pos[t]]
<1>3. up \in [Token -> Int]
  BY <1>2
<1>4. /\ \A t \in Token : who[t] # n \/ pos[t] < 1 => up[t] = pos[t]
      /\ \A t \in Token : who[t] = n /\ pos[t] >= 1 => up[t] = pos[t] - 1
      /\ \A t \in Token : pos[t] \in Int
  BY <1>2
<1> HIDE DEF up
<1>5. Spent(up) = Spent(pos)
  BY <1>4 DEF Spent
<1>6. /\ \A m \in Node \ {n} : \A i \in Nat : At(who, up, m, i) = At(who, pos, m, i)
      /\ \A i \in Nat \ {0} : At(who, up, n, i) = At(who, pos, n, i + 1)
  BY <1>4 DEF At
<1>7. At(who, up, n, 0) = At(who, pos, n, 0) \cup At(who, pos, n, 1)
  BY <1>4 DEF At
<1>8. /\ commands[n] \in Seq({Clear, 1, Amount}) /\ commands[n] # <<>>
      /\ commands' = [commands EXCEPT ![n] = Tail(commands[n])]
      /\ published' = published /\ request' = request
  BY DEF Reads, QueueTypes
<1>9. /\ Len(commands[n]) \in Nat \ {0} /\ Len(commands'[n]) = Len(commands[n]) - 1
      /\ \A i \in 1 .. Len(commands'[n]) : commands'[n][i] = commands[n][i + 1]
      /\ Head(commands[n]) = commands[n][1]
  <2>1. commands'[n] = Tail(commands[n])
    BY <1>8 DEF QueueTypes
  <2>2. Len(commands[n]) \in Nat \ {0}
    BY <1>8
  <2>3. /\ Len(Tail(commands[n])) = Len(commands[n]) - 1
        /\ \A i \in 1 .. Len(Tail(commands[n])) : Tail(commands[n])[i] = commands[n][i + 1]
    BY <1>8, HeadTailProperties
  <2>4. Head(commands[n]) = commands[n][1]
    BY <1>8
  <2>5. QED  BY <2>1, <2>2, <2>3, <2>4
<1>10. ASSUME NEW m \in Node, NEW i \in 0 .. Len(commands'[m])
       PROVE  Held(m, i)' <= Cardinality(At(who, up, m, i))
  <2>1. /\ \A x \in Node, j \in Nat : Cardinality(At(who, pos, x, j)) \in Nat
        /\ \A x \in Node, j \in Nat : At(who, pos, x, j) \in SUBSET Token
    BY TokenSets DEF At
  <2>2. CASE m # n
    <3>1. commands'[m] = commands[m] /\ left'[m] = left[m]
      BY <1>8, <2>2 DEF Reads, QueueTypes
    <3>2. Held(m, i)' = Held(m, i) /\ i \in Nat
      BY <3>1 DEF Held
    <3>3. QED  BY <1>2, <1>6, <2>2, <3>1, <3>2
  <2>3. CASE m = n /\ i # 0
    <3>1. i \in Nat \ {0} /\ i + 1 \in 1 .. Len(commands[n]) /\ i \in 1 .. Len(commands'[n])
      BY <1>9, <2>3
    <3>2. Held(n, i)' = Held(n, i + 1)
      BY <1>9, <3>1 DEF Held
    <3>3. At(who, up, n, i) = At(who, pos, n, i + 1)
      BY <1>6, <3>1
    <3>4. i + 1 \in 0 .. Len(commands[n])
      BY <3>1
    <3>5. QED  BY <1>2, <2>3, <3>2, <3>3, <3>4
  <2>4. CASE m = n /\ i = 0
    <3> DEFINE a == Cardinality(At(who, pos, n, 0))
               b == Cardinality(At(who, pos, n, 1))
    <3>1. left[n] <= a /\ commands[n][1] <= b
      <4>1. 0 \in 0 .. Len(commands[n]) /\ 1 \in 0 .. Len(commands[n])
        BY <1>9
      <4>2. Held(n, 0) <= a /\ Held(n, 1) <= b
        BY <1>2, <4>1
      <4>3. QED  BY <4>2 DEF Held
    <3>2. Cardinality(At(who, up, n, 0)) = a + b
      <4>1. /\ IsFiniteSet(At(who, pos, n, 0)) /\ IsFiniteSet(At(who, pos, n, 1))
        BY <2>1, TokenSets
      <4>2. At(who, pos, n, 0) \cap At(who, pos, n, 1) = {}
        BY DEF At
      <4>3. Cardinality(At(who, pos, n, 0) \cup At(who, pos, n, 1)) = a + b - Cardinality({})
        BY <4>1, <4>2, FS_Union
      <4>4. a \in Nat /\ b \in Nat
        BY <2>1
      <4>5. Cardinality({}) = 0
        BY FS_EmptySet
      <4>6. Cardinality(At(who, up, n, 0)) = a + b - 0
        BY <1>7, <4>3, <4>5
      <4> HIDE DEF a, b
      <4>7. QED  BY <4>4, <4>6
    <3>3. left'[n] = left[n] \/ left'[n] = left[n] + commands[n][1]
      BY <1>9 DEF Reads, QueueTypes
    <3>4. left[n] \in Nat /\ commands[n][1] \in Nat /\ a \in Nat /\ b \in Nat
      <4>1. 1 \in 1 .. Len(commands[n])
        BY <1>9
      <4>2. QED  BY <2>1, <4>1, HeldType
    <3> HIDE DEF a, b
    <3>5. left'[n] <= a + b
      BY <3>1, <3>3, <3>4
    <3>6. QED  BY <2>4, <3>2, <3>5 DEF Held
  <2>5. QED  BY <2>2, <2>3, <2>4
<1>11. \A k \in Click : request'[k].pc # "done" => \A j \in 1 .. Amount : up[<<k, j>>] = -2
  <2>1. \A k \in Click : request[k].pc # "done" => \A j \in 1 .. Amount : pos[<<k, j>>] = -2
    BY <1>1 DEF Backs
  <2>2. QED  BY <1>4, <1>8, <2>1, Tokens
<1>12. Backs(who, up)'
  BY <1>1, <1>2, <1>3, <1>5, <1>8, <1>10, <1>11 DEF Backs, Spent, At
<1>13. QED  BY <1>12 DEF Backed

\* Publishing spends a token of what is left.
LEMMA PublishesBacked ==
  ASSUME QueueTypes, Backed, published \in Nat, NEW n \in Node, PublishesOne(n)
  PROVE  Backed'
<1>1. PICK who, pos : Backs(who, pos)
  BY DEF Backed
<1>2. /\ who \in [Token -> Node] /\ pos \in [Token -> Int]
      /\ published <= Cardinality(Spent(pos))
      /\ \A m \in Node : \A i \in 0 .. Len(commands[m]) :
           Held(m, i) <= Cardinality(At(who, pos, m, i))
      /\ \A k \in Click : request[k].pc # "done" => \A j \in 1 .. Amount : pos[<<k, j>>] = -2
  BY <1>1 DEF Backs
<1>3. /\ left[n] \in Nat \ {0} /\ left' = [left EXCEPT ![n] = left[n] - 1]
      /\ left \in [Node -> Nat] /\ commands' = commands /\ request' = request
      /\ published' = published + 1
  BY DEF PublishesOne, QueueTypes
<1>4. \A m \in Node : Len(commands[m]) \in Nat
  BY HeldType
<1>5. PICK t0 \in At(who, pos, n, 0) : TRUE
  <2>1. 0 \in 0 .. Len(commands[n])
    BY <1>4
  <2>2. left[n] <= Cardinality(At(who, pos, n, 0))
    BY <1>2, <2>1 DEF Held
  <2>3. Cardinality({}) = 0
    BY FS_EmptySet
  <2>4. QED  BY <1>3, <2>2, <2>3
<1>6. t0 \in Token /\ who[t0] = n /\ pos[t0] = 0
  BY <1>5 DEF At
<1> DEFINE spent == [pos EXCEPT ![t0] = -1]
<1>7. spent \in [Token -> Int] /\ spent[t0] = -1 /\ \A t \in Token \ {t0} : spent[t] = pos[t]
  BY <1>2, <1>6
<1> HIDE DEF spent
<1>8. Spent(spent) = Spent(pos) \cup {t0} /\ t0 \notin Spent(pos)
  BY <1>6, <1>7 DEF Spent
<1>9. At(who, spent, n, 0) = At(who, pos, n, 0) \ {t0}
  BY <1>6, <1>7 DEF At
<1>10. ASSUME NEW m \in Node, NEW i \in Nat, m # n \/ i # 0
       PROVE  At(who, spent, m, i) = At(who, pos, m, i)
  BY <1>6, <1>7, <1>10 DEF At
<1>11. \A T \in SUBSET Token : IsFiniteSet(T) /\ Cardinality(T) \in Nat
  BY TokenSets
<1>12. published + 1 <= Cardinality(Spent(spent))
  <2>1. IsFiniteSet(Spent(pos)) /\ Cardinality(Spent(pos)) \in Nat
    BY <1>11 DEF Spent
  <2>2. Cardinality(Spent(spent)) = Cardinality(Spent(pos)) + 1
    BY <1>8, <2>1, FS_AddElement
  <2>3. QED  BY <1>2, <2>1, <2>2
<1>13. ASSUME NEW m \in Node, NEW i \in 0 .. Len(commands[m])
       PROVE  Held(m, i)' <= Cardinality(At(who, spent, m, i))
  <2>1. CASE m # n \/ i # 0
    <3>1. Held(m, i)' = Held(m, i)
      BY <1>3, <2>1 DEF Held
    <3>2. i \in Nat
      BY <1>4
    <3>3. QED  BY <1>2, <1>10, <2>1, <3>1, <3>2
  <2>2. CASE m = n /\ i = 0
    <3>1. left[n] <= Cardinality(At(who, pos, n, 0))
      BY <1>2, <2>2 DEF Held
    <3>2. IsFiniteSet(At(who, pos, n, 0)) /\ Cardinality(At(who, pos, n, 0)) \in Nat
      BY <1>11 DEF At
    <3>3. Cardinality(At(who, spent, n, 0)) = Cardinality(At(who, pos, n, 0)) - 1
      BY <1>5, <1>9, <3>2, FS_RemoveElement
    <3>4. Held(m, i)' = left[n] - 1
      BY <1>3, <2>2 DEF Held
    <3>5. QED  BY <1>3, <2>2, <3>1, <3>2, <3>3, <3>4
  <2>3. QED  BY <2>1, <2>2
<1>14. \A k \in Click : request[k].pc # "done" => \A j \in 1 .. Amount : spent[<<k, j>>] = -2
  <2>1. ASSUME NEW k \in Click, request[k].pc # "done", NEW j \in 1 .. Amount
        PROVE  spent[<<k, j>>] = -2
    <3>1. pos[<<k, j>>] = -2 /\ <<k, j>> \in Token
      BY <1>2, <2>1, Tokens
    <3>2. <<k, j>> # t0
      BY <1>6, <3>1
    <3>3. QED  BY <1>7, <3>1, <3>2
  <2>2. QED  BY <2>1
<1>15. Backs(who, spent)'
  BY <1>2, <1>3, <1>7, <1>12, <1>13, <1>14 DEF Backs, Spent, At
<1>16. QED  BY <1>15 DEF Backed

\* The end of a queue of commands.
LEMMA WriteAppends ==
  ASSUME QueueTypes, NEW n \in Node, NEW c \in {Clear, 1, Amount}, Write(n, c)
  PROVE  /\ commands' \in [Node -> Seq({Clear, 1, Amount})]
         /\ Len(commands'[n]) = Len(commands[n]) + 1
         /\ commands'[n][Len(commands[n]) + 1] = c
         /\ \A i \in 1 .. Len(commands[n]) : commands'[n][i] = commands[n][i]
         /\ \A m \in Node \ {n} : commands'[m] = commands[m]
<1>1. /\ commands' = [commands EXCEPT ![n] = Append(commands[n], c)]
      /\ commands \in [Node -> Seq({Clear, 1, Amount})]
  BY DEF Write, QueueTypes
<1>2. Append(commands[n], c) \in Seq({Clear, 1, Amount})
  BY <1>1
<1>3. /\ commands' \in [Node -> Seq({Clear, 1, Amount})]
      /\ commands'[n] = Append(commands[n], c)
      /\ \A m \in Node \ {n} : commands'[m] = commands[m]
  BY <1>1, <1>2
<1>4. commands[n] \in Seq({Clear, 1, Amount})
  BY <1>1
<1>5. QED  BY <1>3, <1>4

\* A command to clear needs no token.
LEMMA ClearBacked ==
  ASSUME QueueTypes, Backed, NEW k \in Click, NEW n \in Node, WritesClear(k, n)
  PROVE  Backed'
<1>1. PICK who, pos : Backs(who, pos)
  BY DEF Backed
<1>2. /\ Write(n, Clear) /\ left' = left /\ published' = published
      /\ \A j \in Click : request'[j].pc = request[j].pc
  BY DEF WritesClear, QueueTypes, Requests
<1>3. ASSUME NEW m \in Node, NEW i \in 0 .. Len(commands'[m])
      PROVE  Held(m, i)' <= Cardinality(At(who, pos, m, i))
  <2>1. Cardinality(At(who, pos, m, i)) \in Nat
    BY TokenSets DEF At
  <2>2. Len(commands[m]) \in Nat
    BY HeldType
  <2>3. CASE m = n /\ i = Len(commands[n]) + 1
    <3>1. Held(m, i)' = 0
      BY <1>2, <2>2, <2>3, WriteAppends DEF Held, Clear
    <3>2. QED  BY <2>1, <3>1
  <2>4. CASE ~(m = n /\ i = Len(commands[n]) + 1)
    <3>1. i \in 0 .. Len(commands[m])
      BY <1>2, <2>2, <2>4, WriteAppends
    <3>2. i # 0 => i \in 1 .. Len(commands[m])
      BY <3>1
    <3>3. Held(m, i)' = Held(m, i)
      BY <1>2, <3>2, WriteAppends DEF Held
    <3>4. QED  BY <1>1, <3>1, <3>3 DEF Backs
  <2>5. QED  BY <2>3, <2>4
<1>4. Backs(who, pos)'
  BY <1>1, <1>2, <1>3 DEF Backs, Spent, At
<1>5. QED  BY <1>4 DEF Backed

\* A command to publish brings the tokens of its click.
LEMMA PublishBacked ==
  ASSUME QueueTypes, Backed, NEW k \in Click, WritesPublish(k)
  PROVE  Backed'
<1>1. PICK who, pos : Backs(who, pos)
  BY DEF Backed
<1>2. request[k] \in Requests /\ request[k].pc = "clear"
  BY DEF QueueTypes, WritesPublish
<1>3. PICK n \in Node : n = request[k].target /\ request[k].amount \in {Clear, 1, Amount}
  BY <1>2 DEF Requests, Clear
<1>4. /\ Write(n, request[k].amount) /\ left' = left /\ published' = published
      /\ request'[k].pc = "done" /\ \A j \in Click \ {k} : request'[j] = request[j]
  BY <1>3 DEF WritesPublish, NoRequest, QueueTypes
<1>5. PICK p \in Nat \ {0} : p = Len(commands[n]) + 1
  BY HeldType
<1>6. /\ who \in [Token -> Node] /\ pos \in [Token -> Int]
      /\ published <= Cardinality(Spent(pos))
      /\ \A m \in Node : \A i \in 0 .. Len(commands[m]) :
           Held(m, i) <= Cardinality(At(who, pos, m, i))
      /\ \A j \in Click : request[j].pc # "done" => \A a \in 1 .. Amount : pos[<<j, a>>] = -2
  BY <1>1 DEF Backs
<1> DEFINE new == {k} \X (1 .. Amount)
           who2 == [t \in Token |-> IF t \in new THEN n ELSE who[t]]
           pos2 == [t \in Token |-> IF t \in new THEN p ELSE pos[t]]
<1>7. new \subseteq Token /\ \A t \in new : pos[t] = -2
  <2>1. request[k].pc # "done"
    BY <1>2
  <2>2. QED  BY <1>6, <2>1 DEF Token
<1>8. who2 \in [Token -> Node] /\ pos2 \in [Token -> Int]
  BY <1>3, <1>5, <1>6
<1>9. /\ \A t \in new : who2[t] = n /\ pos2[t] = p
      /\ \A t \in Token \ new : who2[t] = who[t] /\ pos2[t] = pos[t]
  BY <1>7
<1>10. IsFiniteSet(new) /\ Cardinality(new) = Amount
  <2>1. /\ IsFiniteSet({k}) /\ Cardinality({k}) = 1
        /\ IsFiniteSet(1 .. Amount) /\ Cardinality(1 .. Amount) = Amount /\ Amount \in Nat
    <3>1. IsFiniteSet({k}) /\ Cardinality({k}) = 1
      BY FS_Singleton
    <3>2. IsFiniteSet(1 .. Amount) /\ Cardinality(1 .. Amount) = Amount /\ Amount \in Nat
      BY BoundsAssumption, FS_Interval
    <3>3. QED  BY <3>1, <3>2
  <2>2. IsFiniteSet(new) /\ Cardinality(new) = Cardinality({k}) * Cardinality(1 .. Amount)
    BY ONLY <2>1, FS_Product
  <2>3. QED  BY <2>1, <2>2
<1>11. \A j \in Click \ {k}, a \in 1 .. Amount : <<j, a>> \notin new
  OBVIOUS
<1> HIDE DEF new, who2, pos2
<1>12. Spent(pos2) = Spent(pos)
  BY <1>5, <1>7, <1>9 DEF Spent
<1>13. \A m \in Node, i \in Nat : At(who, pos, m, i) \subseteq At(who2, pos2, m, i)
  BY <1>7, <1>9 DEF At
<1>14. new \subseteq At(who2, pos2, n, p)
  BY <1>7, <1>9 DEF At
<1>15. \A m \in Node, i \in Nat : At(who2, pos2, m, i) \in SUBSET Token
  BY DEF At
<1>16. ASSUME NEW m \in Node, NEW i \in 0 .. Len(commands'[m])
       PROVE  Held(m, i)' <= Cardinality(At(who2, pos2, m, i))
  <2>1. Len(commands[m]) \in Nat /\ Len(commands[n]) \in Nat
    BY HeldType
  <2>2. CASE m = n /\ i = p
    <3>1. Held(m, i)' = request[k].amount
      BY <1>3, <1>4, <1>5, <2>2, WriteAppends DEF Held
    <3>2. Amount <= Cardinality(At(who2, pos2, n, p)) /\ Cardinality(At(who2, pos2, n, p)) \in Nat
      BY <1>3, <1>5, <1>10, <1>14, <1>15, TokenSets
    <3>3. QED  BY <1>3, <2>2, <3>1, <3>2, BoundsAssumption DEF Clear
  <2>3. CASE ~(m = n /\ i = p)
    <3>1. i \in 0 .. Len(commands[m]) /\ i \in Nat
      BY <1>3, <1>4, <2>1, <1>5, <2>3, WriteAppends
    <3>2. i # 0 => i \in 1 .. Len(commands[m])
      BY <3>1
    <3>3. Held(m, i)' = Held(m, i)
      BY <1>3, <1>4, <3>2, WriteAppends DEF Held
    <3>4. Held(m, i) <= Cardinality(At(who, pos, m, i))
      BY <1>6, <3>1
    <3>5. /\ Cardinality(At(who, pos, m, i)) \in Nat
          /\ Cardinality(At(who2, pos2, m, i)) \in Nat
          /\ Cardinality(At(who, pos, m, i)) <= Cardinality(At(who2, pos2, m, i))
      BY <1>13, <1>15, <3>1, TokenSets
    <3>6. Held(m, i) \in Nat
      BY <3>2, HeldType DEF Held
    <3>7. QED  BY <3>3, <3>4, <3>5, <3>6
  <2>4. QED  BY <2>2, <2>3
<1>17. \A j \in Click : request'[j].pc # "done" => \A a \in 1 .. Amount : pos2[<<j, a>>] = -2
  <2>1. ASSUME NEW j \in Click, request'[j].pc # "done", NEW a \in 1 .. Amount
        PROVE  pos2[<<j, a>>] = -2
    <3>1. j # k
      BY <1>4, <2>1
    <3>2. request[j].pc # "done"
      BY <1>4, <2>1, <3>1
    <3>3. <<j, a>> \in Token \ new /\ pos[<<j, a>>] = -2
      BY <1>6, <1>11, <3>1, <3>2, Tokens
    <3>4. QED  BY <1>9, <3>3
  <2>2. QED  BY <2>1
<1>18. Backs(who2, pos2)'
  BY <1>4, <1>6, <1>8, <1>12, <1>16, <1>17 DEF Backs, Spent, At
<1>19. QED  BY <1>18 DEF Backed

\* One step per action.
LEMMA BackedStep ==
  ASSUME Inv, QueueTypes, Backed, [Next]_vars
  PROVE  Backed'
<1>1. ASSUME NEW n \in Node, Measure(n) \/ Publish(n)
      PROVE  Backed'
  <2>1. /\ UNCHANGED <<left, commands, published>>
        /\ clicks < MaxClicks /\ clicks' = clicks + 1
        /\ \A k \in Click : k # clicks' => request'[k] = request[k]
    BY <1>1 DEF Measure, Publish, nodes, QueueTypes
  <2>2. clicks' \in Click /\ clicks' > clicks
    BY <2>1, BoundsAssumption DEF QueueTypes, Click
  <2>3. request[clicks'].pc # "done"
    BY <2>2 DEF QueueTypes
  <2>4. \A k \in Click : request'[k].pc # "done" => request[k].pc # "done"
    BY <2>1, <2>3
  <2>5. QED  BY <2>1, <2>4, BackedKept
<1>2. ASSUME UNCHANGED <<left, commands, published, request>> PROVE Backed'
  BY <1>2, BackedKept
<1>3. ASSUME NEW n \in Node, Arrives(n) \/ SendsPublished(n) \/ Receives(n) \/ FullUpdate(n)
      PROVE  Backed'
  BY <1>2, <1>3 DEF Arrives, SendsPublished, Receives, FullUpdate
<1>4. CASE UNCHANGED vars
  BY <1>2, <1>4 DEF vars, nodes
<1>5. ASSUME NEW n \in Node, Reads(n) PROVE Backed'
  BY <1>5, ReadsBacked
<1>6. ASSUME NEW n \in Node, PublishesOne(n) PROVE Backed'
  BY <1>6, PublishesBacked DEF Inv, CountTypes
<1>7. ASSUME NEW k \in Click, WritesPublish(k) PROVE Backed'
  BY <1>7, PublishBacked
<1>8. ASSUME NEW k \in Click, NEW n \in Node, WritesClear(k, n) PROVE Backed'
  BY <1>8, ClearBacked
<1>9. QED
  BY <1>1, <1>3, <1>4, <1>5, <1>6, <1>7, <1>8 DEF Next, NodeStep

\* A click takes the next request.
LEMMA ClickTypes ==
  ASSUME Inv, QueueTypes, NEW n \in Node, Measure(n) \/ Publish(n)
  PROVE  QueueTypes'
<1>1. /\ UNCHANGED <<left, unsent, commands>>
      /\ clicks < MaxClicks /\ clicks' = clicks + 1
  BY DEF Measure, Publish, nodes
<1>2. clicks \in Nat /\ clicks' \in Click
  BY <1>1, BoundsAssumption DEF QueueTypes, Click
<1>3. base' = seen \/ base' = base
  BY DEF Measure, Publish, page
<1>4. goal' = Amount \/ goal' = goal
  BY DEF Measure, Publish, page
<1>5. PICK r \in Requests : request' = [request EXCEPT ![clicks'] = r]
  <2>1. CASE Measure(n)
    <3>1. [pc |-> "clear", todo |-> Node, target |-> n, amount |-> Amount] \in Requests
      BY DEF Requests
    <3>2. QED  BY <2>1, <3>1 DEF Measure
  <2>2. CASE Publish(n)
    <3>1. [pc |-> "clear", todo |-> {}, target |-> n, amount |-> 1] \in Requests
      BY DEF Requests
    <3>2. QED  BY <2>2, <3>1 DEF Publish
  <2>3. QED  BY <2>1, <2>2
<1>6. /\ request' \in [Click -> Requests]
      /\ \A k \in Click : k > clicks' => request'[k].pc = "none"
  <2>1. \A k \in Click : k > clicks' => k > clicks /\ k # clicks'
    BY <1>1, <1>2 DEF Click
  <2>2. QED  BY <1>2, <1>5, <2>1 DEF QueueTypes
<1>7. clicks' \in 0 .. MaxClicks
  BY <1>1, <1>2, BoundsAssumption
<1>8. base' \in [Node -> Nat]
  BY <1>3 DEF QueueTypes, Inv, CountTypes
<1>9. QED  BY <1>1, <1>4, <1>6, <1>7, <1>8 DEF QueueTypes

LEMMA RequestTypes ==
  ASSUME QueueTypes, NEW k \in Click,
         WritesPublish(k) \/ \E n \in Node : WritesClear(k, n)
  PROVE  QueueTypes'
<1>1. UNCHANGED <<left, unsent, base, clicks, goal>>
  BY DEF WritesPublish, WritesClear, page
<1>2. request[k] \in Requests /\ request[k].pc = "clear"
  BY DEF QueueTypes, WritesPublish, WritesClear
<1>3. CASE WritesPublish(k)
  <2>1. request[k].target \in Node /\ request[k].amount \in {Clear, 1, Amount}
    BY <1>2 DEF Requests, Clear
  <2>2. commands' \in [Node -> Seq({Clear, 1, Amount})]
    BY <1>3, <2>1, WriteAppends DEF WritesPublish
  <2>3. [NoRequest(request[k].target) EXCEPT !.pc = "done"] \in Requests
    BY <2>1 DEF NoRequest, Requests
  <2>4. request' = [request EXCEPT ![k] = [NoRequest(request[k].target) EXCEPT !.pc = "done"]]
    BY <1>3 DEF WritesPublish
  <2>5. /\ request' \in [Click -> Requests]
        /\ \A j \in Click : j # k => request'[j] = request[j]
    BY <2>3, <2>4 DEF QueueTypes
  <2>6. ~(k > clicks)
    BY <1>2 DEF QueueTypes
  <2>7. QED  BY <1>1, <2>2, <2>5, <2>6 DEF QueueTypes
<1>4. ASSUME NEW n \in Node, WritesClear(k, n) PROVE QueueTypes'
  <2>1. commands' \in [Node -> Seq({Clear, 1, Amount})]
    BY <1>4, WriteAppends DEF WritesClear, Clear
  <2>2. request' = [request EXCEPT ![k].todo = request[k].todo \ {n}]
    BY <1>4 DEF WritesClear
  <2>3. /\ request' \in [Click -> Requests]
        /\ \A j \in Click : request'[j].pc = request[j].pc
    BY <1>2, <2>2 DEF QueueTypes, Requests
  <2>4. QED  BY <1>1, <2>1, <2>3 DEF QueueTypes
<1>5. QED  BY <1>3, <1>4

LEMMA NodeTypes ==
  ASSUME QueueTypes, NEW n \in Node, NodeStep(n) \/ FullUpdate(n) \/ Arrives(n)
  PROVE  QueueTypes'
<1>1. UNCHANGED <<base, clicks, goal, request>>
  BY DEF NodeStep, Reads, PublishesOne, SendsPublished, Receives, FullUpdate, Arrives, page
<1>2. left \in [Node -> Nat] /\ unsent \in [Node -> Nat]
  BY DEF QueueTypes
<1>3. CASE Reads(n)
  <2>1. commands[n] \in Seq({Clear, 1, Amount}) /\ commands[n] # <<>> /\ unsent' = unsent
    BY <1>3 DEF Reads, QueueTypes
  <2>2. Tail(commands[n]) \in Seq({Clear, 1, Amount}) /\ Head(commands[n]) \in {Clear, 1, Amount}
    BY <2>1
  <2>3. Head(commands[n]) \in Nat
    BY <2>2, BoundsAssumption DEF Clear
  <2>4. commands' \in [Node -> Seq({Clear, 1, Amount})]
    BY <1>3, <2>2 DEF Reads, QueueTypes
  <2>5. left' = left \/ left' = [left EXCEPT ![n] = left[n] + Head(commands[n])]
    BY <1>3 DEF Reads
  <2>6. left' \in [Node -> Nat]
    BY <1>2, <2>3, <2>5
  <2>7. QED  BY <1>1, <2>1, <2>4, <2>6 DEF QueueTypes
<1>4. CASE PublishesOne(n)
  <2>1. /\ left[n] > 0 /\ left' = [left EXCEPT ![n] = left[n] - 1] /\ commands' = commands
        /\ unsent' = unsent \/ unsent' = [unsent EXCEPT ![n] = unsent[n] + 1]
    BY <1>4 DEF PublishesOne
  <2>2. left[n] - 1 \in Nat /\ unsent[n] + 1 \in Nat
    BY <1>2, <2>1
  <2>3. left' \in [Node -> Nat] /\ unsent' \in [Node -> Nat]
    BY <1>2, <2>1, <2>2
  <2>4. QED  BY <1>1, <2>1, <2>3 DEF QueueTypes
<1>5. CASE SendsPublished(n)
  <2>1. /\ unsent[n] > 0 /\ unsent' = [unsent EXCEPT ![n] = unsent[n] - 1]
        /\ left' = left /\ commands' = commands
    BY <1>5 DEF SendsPublished
  <2>2. unsent[n] - 1 \in Nat
    BY <1>2, <2>1
  <2>3. unsent' \in [Node -> Nat]
    BY <1>2, <2>1, <2>2
  <2>4. QED  BY <1>1, <2>1, <2>3 DEF QueueTypes
<1>6. CASE Receives(n) \/ FullUpdate(n) \/ Arrives(n)
  <2>1. UNCHANGED <<left, unsent, commands>>
    BY <1>6 DEF Receives, FullUpdate, Arrives
  <2>2. QED  BY <1>1, <2>1 DEF QueueTypes
<1>7. QED  BY <1>3, <1>4, <1>5, <1>6 DEF NodeStep

\* A node counts a message before it has its update to send.
LEMMA SeenStep ==
  ASSUME Inv, QueueTypes, SeenAlready, [Next]_vars
  PROVE  SeenAlready'
<1>1. /\ seen \in [Node -> Nat] /\ unsent \in [Node -> Nat] /\ base \in [Node -> Nat]
      /\ \A m \in Node : unsent[m] <= seen[m] /\ base[m] <= seen[m]
  BY DEF Inv, CountTypes, QueueTypes, SeenAlready
<1>2. ASSUME NEW n \in Node, PublishesOne(n) PROVE SeenAlready'
  <2>1. /\ seen' = [seen EXCEPT ![n] = seen[n] + 1] /\ base' = base
        /\ unsent' = unsent \/ unsent' = [unsent EXCEPT ![n] = unsent[n] + 1]
    BY <1>2 DEF PublishesOne, Counts, page
  <2>2. QED  BY <1>1, <2>1 DEF SeenAlready
<1>3. ASSUME NEW n \in Node, SendsPublished(n) PROVE SeenAlready'
  <2>1. seen' = seen /\ base' = base /\ unsent' = [unsent EXCEPT ![n] = unsent[n] - 1]
    BY <1>3 DEF SendsPublished, page
  <2>2. QED  BY <1>1, <2>1 DEF SeenAlready
<1>4. ASSUME NEW n \in Node, Receives(n) PROVE SeenAlready'
  <2>1. seen' = [seen EXCEPT ![n] = seen[n] + 1] /\ base' = base /\ unsent' = unsent
    BY <1>4 DEF Receives, Counts, page
  <2>2. QED  BY <1>1, <2>1 DEF SeenAlready
<1>5. ASSUME seen' = seen, unsent' = unsent, base' = base \/ base' = seen
      PROVE  SeenAlready'
  BY <1>1, <1>5 DEF SeenAlready
<1>6. ASSUME NEW n \in Node,
             Measure(n) \/ Publish(n) \/ Arrives(n) \/ Reads(n) \/ FullUpdate(n)
      PROVE  SeenAlready'
  <2>1. seen' = seen /\ unsent' = unsent /\ (base' = base \/ base' = seen)
    BY <1>6 DEF Measure, Publish, Arrives, Reads, FullUpdate, nodes, page
  <2>2. QED  BY <1>5, <2>1
<1>7. ASSUME NEW k \in Click, WritesPublish(k) \/ \E n \in Node : WritesClear(k, n)
      PROVE  SeenAlready'
  <2>1. seen' = seen /\ unsent' = unsent /\ base' = base
    BY <1>7 DEF WritesPublish, WritesClear, page
  <2>2. QED  BY <1>5, <2>1
<1>8. CASE UNCHANGED vars
  BY <1>5, <1>8 DEF vars, nodes, page
<1>9. QED  BY <1>2, <1>3, <1>4, <1>6, <1>7, <1>8 DEF Next, NodeStep

LEMMA TypeStep == Inv /\ TypeInv /\ [Next]_vars => TypeInv'
<1>1. SUFFICES ASSUME Inv, TypeInv, [Next]_vars PROVE TypeInv'
  OBVIOUS
<1>2. QueueTypes /\ SeenAlready /\ Backed
  BY <1>1 DEF TypeInv
<1>3. QueueTypes'
  <2>1. CASE UNCHANGED vars
    BY <1>2, <2>1 DEF vars, nodes, page, QueueTypes
  <2>2. ASSUME NEW n \in Node, Measure(n) \/ Publish(n) PROVE QueueTypes'
    BY <1>1, <1>2, <2>2, ClickTypes
  <2>3. ASSUME NEW n \in Node, NodeStep(n) \/ FullUpdate(n) \/ Arrives(n) PROVE QueueTypes'
    BY <1>2, <2>3, NodeTypes
  <2>4. ASSUME NEW k \in Click, WritesPublish(k) \/ \E n \in Node : WritesClear(k, n)
        PROVE  QueueTypes'
    BY <1>2, <2>4, RequestTypes
  <2>5. QED  BY <1>1, <2>1, <2>2, <2>3, <2>4 DEF Next
<1>4. SeenAlready' /\ Backed'
  BY <1>1, <1>2, SeenStep, BackedStep
<1>5. QED  BY <1>3, <1>4 DEF TypeInv

LEMMA BoundedSeq ==
  ASSUME NEW s \in Seq(Nat), NEW b \in Nat, \A i \in 1 .. Len(s) : s[i] <= b
  PROVE  s \in Seq(0 .. b)
<1>1. \A i \in 1 .. Len(s) : s[i] \in 0 .. b
  <2>1. ASSUME NEW i \in 1 .. Len(s) PROVE s[i] \in 0 .. b
    <3>1. s[i] \in Nat
      BY ElementOfSeq
    <3>2. QED  BY <3>1
  <2>2. QED  BY <2>1
<1>2. Len(s) \in Nat /\ s = [i \in 1 .. Len(s) |-> s[i]]
  OBVIOUS
<1>3. s \in [1 .. Len(s) -> 0 .. b]
  BY <1>1, <1>2
<1>4. QED  BY <1>2, <1>3, SeqDef

\* The state keeps its types, and with them the bounds of its counts:
\* however commands of several clicks overlap at the nodes, no more is
\* published, counted or shown than the clicks have asked for.
THEOREM TypeCorrectness == Spec => []TypeOK
<1>1. Inv /\ TypeInv => TypeOK
  <2>1. SUFFICES ASSUME Inv, TypeInv PROVE TypeOK
    OBVIOUS
  <2>2. QueueTypes /\ SeenAlready /\ CountTypes /\ CountedOnce /\ NeverTooMany
    BY <2>1 DEF Inv, TypeInv
  <2>3. PICK who, pos : Backs(who, pos)
    BY <2>1 DEF TypeInv, Backed
  <2>4. published \in 0 .. MaxCount
    <3>1. Cardinality(Spent(pos)) \in Nat /\ Cardinality(Spent(pos)) <= MaxCount
      BY TokenSets DEF Spent
    <3>2. published <= Cardinality(Spent(pos)) /\ published \in Nat
      BY <2>2, <2>3 DEF Backs, CountTypes
    <3>3. QED  BY <3>1, <3>2, Tokens
  <2>5. ASSUME NEW n \in Node PROVE left[n] \in 0 .. MaxCount
    <3>1. 0 \in 0 .. Len(commands[n])
      BY <2>2, HeldType
    <3>2. left[n] <= Cardinality(At(who, pos, n, 0))
      BY <2>3, <3>1 DEF Backs, Held
    <3>3. /\ Cardinality(At(who, pos, n, 0)) \in Nat
          /\ Cardinality(At(who, pos, n, 0)) <= MaxCount
      BY TokenSets DEF At
    <3>4. QED  BY <2>2, <3>2, <3>3, HeldType, Tokens
  <2>6. \A n \in Node :
          /\ seen[n] \in Nat /\ gossip[n] \in Nat /\ seen[n] + gossip[n] <= published
          /\ count[n] \in Nat /\ count[n] <= seen[n]
          /\ display[n] \in Nat /\ display[n] <= seen[n]
          /\ unsent[n] \in Nat /\ unsent[n] <= seen[n]
          /\ base[n] \in Nat /\ base[n] <= seen[n]
    BY <2>2 DEF CountTypes, QueueTypes, CountedOnce, NeverTooMany, SeenAlready
  <2>7. \A n \in Node :
          /\ seen[n] \in 0 .. MaxCount /\ gossip[n] \in 0 .. MaxCount
          /\ count[n] \in 0 .. MaxCount /\ display[n] \in 0 .. MaxCount
          /\ unsent[n] \in 0 .. MaxCount /\ base[n] \in 0 .. MaxCount
    BY <2>4, <2>6, Tokens
  <2>8. /\ count \in [Node -> 0..MaxCount] /\ seen \in [Node -> 0..MaxCount]
        /\ left \in [Node -> 0..MaxCount] /\ unsent \in [Node -> 0..MaxCount]
        /\ gossip \in [Node -> 0..MaxCount] /\ base \in [Node -> 0..MaxCount]
        /\ display \in [Node -> 0..MaxCount]
    BY <2>2, <2>5, <2>7 DEF CountTypes, QueueTypes
  <2>9. ASSUME NEW n \in Node
        PROVE  commands[n] \in Seq({Clear, 1, Amount}) /\ feed[n] \in Seq(0..MaxCount)
    <3>1. feed[n] \in Seq(Nat) /\ \A i \in 1 .. Len(feed[n]) : feed[n][i] <= seen[n]
      BY <2>2 DEF CountTypes, NeverTooMany
    <3>2. \A i \in 1 .. Len(feed[n]) : feed[n][i] <= MaxCount
      <4>1. ASSUME NEW i \in 1 .. Len(feed[n]) PROVE feed[n][i] <= MaxCount
        <5>1. feed[n][i] \in Nat /\ feed[n][i] <= seen[n]
          BY <3>1, ElementOfSeq
        <5>2. seen[n] \in Nat /\ seen[n] <= MaxCount /\ MaxCount \in Nat
          BY <2>7, Tokens
        <5>3. QED  BY ONLY <5>1, <5>2
      <4>2. QED  BY <4>1
    <3>3. feed[n] \in Seq(0..MaxCount)
      BY <3>1, <3>2, Tokens, BoundedSeq
    <3>4. QED  BY <2>2, <3>3 DEF QueueTypes
  <2>10. request \in [Click -> [pc : {"none", "clear", "done"}, todo : SUBSET Node,
                                target : Node, amount : {0, 1, Amount}]]
    BY <2>2 DEF QueueTypes, Requests
  <2>11. /\ clicks \in 0..MaxClicks /\ goal \in {0, Amount}
         /\ tracking \in BOOLEAN /\ converged \in BOOLEAN
    BY <2>2 DEF QueueTypes, CountTypes
  <2>12. QED  BY <2>4, <2>8, <2>9, <2>10, <2>11, Zenon DEF TypeOK
<1>2. QED
  BY <1>1, InvInit, InvStep, TypeInit, TypeStep, PTL DEF Spec
=============================================================================
