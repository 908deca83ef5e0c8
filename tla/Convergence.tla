----------------------------- MODULE Convergence -----------------------------
(***************************************************************************)
(* Publishing to the topic and measuring how long it takes to reach every  *)
(* node: the page (controller-ui/src/pages/index.tsx) sets the counts it   *)
(* shows to 0 and asks the controller (controller/main.go) to clear the    *)
(* counts of all nodes and to let one of them publish; nodes               *)
(* (js-nodes/src/status-server.ts) count what they publish and receive;    *)
(* the page calls it converged when every count it shows has reached the   *)
(* amount.                                                                 *)
(*                                                                         *)
(* Commands, gossip and updates travel on their own paths: a message may   *)
(* reach a node before the command that clears its count does, and an      *)
(* update from before may reach the page after it has set the counts to 0. *)
(*                                                                         *)
(* Taken for granted: the nodes stay connected to the controller, writes   *)
(* to them succeed, and gossipsub delivers a message it accepts once to    *)
(* every node but the one that publishes it (emitSelf is off).             *)
(***************************************************************************)
EXTENDS Integers, Sequences, FiniteSets

CONSTANTS
  Node,
  Deaf,        \* Go nodes: they count messages and know no pubsub commands
  Amount,      \* messages of a measured publish
  MaxClicks,   \* bound: publishes asked for
  MaxFeed      \* bound: updates of a node under way when it sends a full one

ASSUME NodeAssumption == Deaf \subseteq Node /\ Node # {}
ASSUME BoundsAssumption ==
  Amount \in Nat \ {0} /\ MaxClicks \in Nat /\ MaxFeed \in Nat \ {0}

VARIABLES
  count,      \* messageCount of each node
  commands,   \* commands written to a node that it has not read
  left,       \* messages its publish commands have yet to publish
  unsent,     \* messages published, their updates not yet sent
  gossip,     \* messages on their way to a node
  feed,       \* its updates on their way to the page
  request,    \* the publishHandler of each click
  clicks,
  display,    \* messageCount in peerData
  goal,       \* convergeCount
  tracking,   \* trackConverge
  converged,
  published,  \* history: messages published by any node
  seen,       \* history: messages a node ever counted
  base        \* history: seen when the last measurement began

nodes == <<count, commands, left, unsent, gossip, feed, published, seen>>
page == <<display, goal, tracking, converged, base>>
vars == <<nodes, request, clicks, page>>

Click == 1..MaxClicks
NoRequest(n) == [pc |-> "none", todo |-> {}, target |-> n, amount |-> 0]
Clear == 0      \* a command is Clear or an amount to publish

Init ==
  /\ count = [n \in Node |-> 0] /\ commands = [n \in Node |-> <<>>]
  /\ left = [n \in Node |-> 0] /\ unsent = [n \in Node |-> 0]
  /\ gossip = [n \in Node |-> 0] /\ feed = [n \in Node |-> <<>>]
  /\ request = [k \in Click |-> NoRequest(CHOOSE n \in Node : TRUE)] /\ clicks = 0
  /\ display = [n \in Node |-> 0] /\ goal = 0
  /\ tracking = FALSE /\ converged = FALSE
  /\ published = 0 /\ seen = [n \in Node |-> 0] /\ base = seen

-----------------------------------------------------------------------------
(* The page.                                                               *)

\* publishToTopic, with and without measuring.
Measure(n) ==
  /\ clicks < MaxClicks /\ clicks' = clicks + 1
  /\ display' = [m \in Node |-> 0] /\ goal' = Amount
  /\ tracking' = TRUE /\ converged' = FALSE /\ base' = seen
  /\ request' = [request EXCEPT ![clicks'] =
                   [pc |-> "clear", todo |-> Node, target |-> n, amount |-> Amount]]
  /\ UNCHANGED nodes

Publish(n) ==
  /\ clicks < MaxClicks /\ clicks' = clicks + 1
  /\ request' = [request EXCEPT ![clicks'] =
                   [pc |-> "clear", todo |-> {}, target |-> n, amount |-> 1]]
  /\ UNCHANGED <<nodes, page>>

\* Variant: some in place of every.
AllReach_Some(shown) == \E n \in Node : shown[n] >= goal

AllReach(shown) == \A n \in Node : shown[n] >= goal

\* An update arrives, and the effect that looks for convergence runs.
Arrives(n) ==
  /\ feed[n] # <<>>
  /\ feed' = [feed EXCEPT ![n] = Tail(@)]
  /\ display' = [display EXCEPT ![n] = Head(feed[n])]
  /\ LET done == tracking /\ AllReach(display') IN
       /\ converged' = (converged \/ done)
       /\ tracking' = (tracking /\ ~done)
  /\ UNCHANGED <<count, commands, left, unsent, gossip, published, seen, request,
                 clicks, goal, base>>

-----------------------------------------------------------------------------
(* The controller.                                                         *)

Write(n, command) == commands' = [commands EXCEPT ![n] = Append(@, command)]

\* clearPubsubStats writes to all nodes at once and waits for all writes.
WritesClear(k, n) ==
  /\ request[k].pc = "clear" /\ n \in request[k].todo
  /\ Write(n, Clear)
  /\ request' = [request EXCEPT ![k].todo = @ \ {n}]
  /\ UNCHANGED <<count, left, unsent, gossip, feed, published, seen, clicks, page>>

WritesPublish(k) ==
  /\ request[k].pc = "clear" /\ request[k].todo = {}
  /\ Write(request[k].target, request[k].amount)
  /\ request' = [request EXCEPT ![k] = [NoRequest(@.target) EXCEPT !.pc = "done"]]
  /\ UNCHANGED <<count, left, unsent, gossip, feed, published, seen, clicks, page>>

-----------------------------------------------------------------------------
(* The nodes.                                                              *)

Counts(n, value) ==
  /\ count' = [count EXCEPT ![n] = value]
  /\ seen' = [seen EXCEPT ![n] = @ + 1]

Sends(n, value) == feed' = [feed EXCEPT ![n] = Append(@, value)]

\* A command is read: clearpubsub sends no update, and publish starts its loop.
Reads(n) ==
  /\ commands[n] # <<>>
  /\ commands' = [commands EXCEPT ![n] = Tail(@)]
  /\ LET command == Head(commands[n]) IN
       \/ /\ n \in Deaf
          /\ UNCHANGED <<count, left>>
       \/ /\ n \notin Deaf /\ command = Clear
          /\ count' = [count EXCEPT ![n] = 0] /\ UNCHANGED left
       \/ /\ n \notin Deaf /\ command # Clear
          /\ left' = [left EXCEPT ![n] = @ + command] /\ UNCHANGED count
  /\ UNCHANGED <<unsent, gossip, feed, published, seen, request, clicks, page>>

\* Variant: emitSelf.
Recipients_EmitSelf(n) == Node

\* gossipsub does not give a node its own messages.
Recipients(n) == Node \ {n}

\* A pass of the loop, up to the await of publish, which may reject (nobody
\* subscribed) and then ends the pass without an update.
PublishesOne(n) ==
  /\ left[n] > 0 /\ left' = [left EXCEPT ![n] = @ - 1]
  /\ Counts(n, count[n] + 1) /\ published' = published + 1
  /\ \/ /\ gossip' = [m \in Node |-> IF m \in Recipients(n) THEN gossip[m] + 1 ELSE gossip[m]]
        /\ unsent' = [unsent EXCEPT ![n] = @ + 1]
     \/ UNCHANGED <<gossip, unsent>>
  /\ UNCHANGED <<commands, feed, request, clicks, page>>

SendsPublished(n) ==
  /\ unsent[n] > 0 /\ unsent' = [unsent EXCEPT ![n] = @ - 1]
  /\ Sends(n, count[n])
  /\ UNCHANGED <<count, commands, left, gossip, published, seen, request, clicks, page>>

\* handlePubsubMessageEvent.
Receives(n) ==
  /\ gossip[n] > 0 /\ gossip' = [gossip EXCEPT ![n] = @ - 1]
  /\ Counts(n, count[n] + 1) /\ Sends(n, count[n] + 1)
  /\ UNCHANGED <<commands, left, unsent, published, request, clicks, page>>

\* Variant: all nodes omit a count of 0.
FullUpdate_OmitsZero(n) ==
  /\ Len(feed[n]) < MaxFeed /\ count[n] # 0
  /\ Sends(n, count[n])
  /\ UNCHANGED <<count, commands, left, unsent, gossip, published, seen, request,
                 clicks, page>>

\* Every 10 seconds.  The Go node omits a count of 0.
FullUpdate(n) ==
  /\ Len(feed[n]) < MaxFeed /\ (n \in Deaf => count[n] # 0)
  /\ Sends(n, count[n])
  /\ UNCHANGED <<count, commands, left, unsent, gossip, published, seen, request,
                 clicks, page>>

-----------------------------------------------------------------------------
NodeStep(n) == Reads(n) \/ PublishesOne(n) \/ SendsPublished(n) \/ Receives(n)

Next ==
  \/ \E n \in Node : Measure(n) \/ Publish(n) \/ Arrives(n) \/ NodeStep(n) \/ FullUpdate(n)
  \/ \E k \in Click : WritesPublish(k) \/ \E n \in Node : WritesClear(k, n)

Spec == Init /\ [][Next]_vars

\* Nodes, controller and page do what they have begun, messages arrive, and
\* full updates are sent for ever.  Nobody has to click.
FairSpec ==
  /\ Spec
  /\ \A n \in Node :
       WF_vars(Arrives(n)) /\ WF_vars(NodeStep(n)) /\ WF_vars(FullUpdate(n))
  /\ \A k \in Click : WF_vars(WritesPublish(k) \/ \E n \in Node : WritesClear(k, n))

-----------------------------------------------------------------------------
(* Properties.                                                             *)

MaxCount == Amount * MaxClicks

\* The types of the variables.
TypeOK ==
  /\ count \in [Node -> 0..MaxCount] /\ seen \in [Node -> 0..MaxCount]
  /\ left \in [Node -> 0..MaxCount] /\ unsent \in [Node -> 0..MaxCount]
  /\ gossip \in [Node -> 0..MaxCount] /\ published \in 0..MaxCount
  /\ base \in [Node -> 0..MaxCount]
  /\ \A n \in Node : commands[n] \in Seq({Clear, 1, Amount}) /\ feed[n] \in Seq(0..MaxCount)
  /\ request \in [Click -> [pc : {"none", "clear", "done"}, todo : SUBSET Node,
                            target : Node, amount : {0, 1, Amount}]]
  /\ clicks \in 0..MaxClicks
  /\ display \in [Node -> 0..MaxCount] /\ goal \in {0, Amount}
  /\ tracking \in BOOLEAN /\ converged \in BOOLEAN

\* No message counts twice at a node, with those still on their way to it:
\* neither at the one that publishes it, nor when commands overlap.
CountedOnce == \A n \in Node : seen[n] + gossip[n] <= published

\* The page never calls converged what some node has not counted as many
\* messages for, in whatever order counts were cleared and shown.
ConvergedMeansSeen == converged => \A n \in Node : seen[n] >= goal

\* The page ends up showing the counts of the nodes, although it sets them to
\* 0 by itself and a node that clears its own says nothing.
DisplayCatchesUp == <>[](display = count)

\* "Time to converge" (index.tsx:2615) is the time until every node has
\* counted as many messages since the click, all counts having been set to 0 first ("Reset
\* all counts to 0", index.tsx:643): when the page says so, they have.
ConvergedIsTrue == converged => \A n \in Node : seen[n] - base[n] >= goal
=============================================================================
