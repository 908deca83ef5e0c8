---------------------------- MODULE StatusUpdates ----------------------------
(***************************************************************************)
(* How a JavaScript node keeps its observer (the controller) up to date    *)
(* (js-nodes/src/status-server.ts).                                        *)
(*                                                                         *)
(* A timer sends the fields that differ from the ones sent last, and every *)
(* so many ticks all of them; handlers send some or all fields as well.    *)
(* All of these are async functions: they read some fields, await the peer *)
(* store, read others, await again, and compare what they have read with   *)
(* last* values that every one of them shares.  Any number of them are in  *)
(* progress at once.  A node changes at any time.                          *)
(*                                                                         *)
(* The fields stand for the classes the code tells apart:                  *)
(*   peers     read before the first await (libp2pPeers)                   *)
(*   conns     only in full updates and connection events (connections)    *)
(*   remote    read during the second await (remotePeers)                  *)
(*   mesh      read after it, when the update is sent (streams, protocols, *)
(*             multiaddrs, subscribersList, pubsubPeers, meshPeersList,    *)
(*             peerScores, dhtPeers)                                       *)
(*   fanout    the same, but not looked for by sendUpdate (fanoutList,     *)
(*             topics)                                                     *)
(*   rtts      as mesh, and overwritten by a timer of its own              *)
(*   dialTime  as mesh, but a delta does not remember it (connectTime)     *)
(* Versions grow: a stale value is a smaller one.                          *)
(*                                                                         *)
(* Messages reach the observer in the order they are sent, so view is what *)
(* it will have once it has read everything sent so far.                   *)
(***************************************************************************)
EXTENDS Integers, FiniteSets, Functions

CONSTANTS
  Field,            \* the fields of this node; those of a service it lacks stay empty
  Task,             \* bound: async calls in progress at once
  MaxChanges,       \* bound: changes of the node
  MaxConnects,      \* bound: connections the observer makes
  MaxRequests,      \* bound: set-id and self:peer:update full updates
  UpdatesBeforeFullData

\* The members of an Update, by class.
AllFields == {"peers", "conns", "remote", "mesh", "fanout", "rtts", "dialTime"}
ASSUME FieldAssumption == Field \subseteq AllFields
ASSUME BoundAssumption ==
  /\ MaxChanges \in Nat /\ MaxConnects \in Nat /\ MaxRequests \in Nat
  /\ UpdatesBeforeFullData \in Nat \ {0}

VARIABLES
  truth,       \* the node's own state
  last,        \* the last* members
  view,        \* what the observer has been sent, NotSent at first
  task,        \* the async calls
  connected,   \* the observer's connection is open
  synced,      \* ... and has been sent its first full update
  connects,    \* connections made so far
  intervals,   \* intervals started by scheduleUpdates
  updateCount, \* ticks since the last full update
  changes, requests

vars == <<truth, last, view, task, connected, synced, connects, intervals,
          updateCount, changes, requests>>

NotSent == 0 - 1

\* Fields a delta compares with their last value, and those it then
\* remembers.  Connections are left to their own handler.
Compared == Field \ {"conns"}
Remembered == Compared \ {"dialTime"}
\* Fields read in the block that sends the update.
Tail == Field \cap {"mesh", "fanout", "rtts", "dialTime"}

\* Variant: sendUpdate does not look for the mesh fields either.
Guarded_NoMesh(upd) ==
  {f \in DOMAIN upd \ {"fanout", "mesh"} : f = "dialTime" => upd[f] # 0}

\* Fields sendUpdate looks for.  A connectTime of 0 is no field at all.
Guarded(upd) ==
  {f \in DOMAIN upd \ {"fanout"} : f = "dialTime" => upd[f] # 0}

Free == [kind |-> "free", pc |-> "start", got |-> <<>>, upd |-> <<>>, conn |-> 0]
Started(kind, pc, got) == [kind |-> kind, pc |-> pc, got |-> got, upd |-> <<>>,
                           conn |-> connects]

\* The getters: fields of the node as they are now.
Pick(S) == [f \in S |-> truth[f]]
\* What a comparison of the fields of read puts into a delta.
Differing(read) == Restrict(read, {f \in DOMAIN read : read[f] # last[f]})
Remember(read) == [f \in Field |-> IF f \in DOMAIN read THEN read[f] ELSE last[f]]

\* What a call has read before, and what it now reads of S besides.
Read(got, S) ==
  [f \in DOMAIN got \cup S |-> IF f \in DOMAIN got THEN got[f] ELSE truth[f]]
\* The update object, filled before and after an await.
Both(upd, more) ==
  [f \in DOMAIN upd \cup DOMAIN more |-> IF f \in DOMAIN upd THEN upd[f] ELSE more[f]]
\* What the observer has after a message: it keeps what the message leaves out.
Shown(upd) == [f \in Field |-> IF f \in DOMAIN upd THEN upd[f] ELSE view[f]]

\* sendUpdate, to an observer that is connected.
Broadcast(upd) ==
  view' = IF connected /\ Guarded(upd) # {} THEN Shown(upd) ELSE view

Init ==
  /\ truth = [f \in Field |-> 0] /\ last = [f \in Field |-> NotSent]
  /\ view = [f \in Field |-> NotSent]
  /\ task = [t \in Task |-> Free]
  /\ connected = FALSE /\ synced = FALSE /\ connects = 0
  /\ intervals = 0 /\ updateCount = 0 /\ changes = 0 /\ requests = 0

-----------------------------------------------------------------------------
(* The node.                                                               *)

\* Something changes that has no event.
Change(f) ==
  /\ changes < MaxChanges /\ f \notin {"conns", "dialTime"}
  /\ changes' = changes + 1
  /\ truth' = [truth EXCEPT ![f] = @ + 1]
  /\ UNCHANGED <<last, view, task, connected, synced, connects, intervals,
                 updateCount, requests>>

\* The 'connect' handler: the dial it awaits, and the measurement that may
\* follow, are over and it sets connectTime, for others to send.  After a dial
\* that fails it leaves it as it was.
Dialled ==
  /\ changes < MaxChanges /\ "dialTime" \in Field
  /\ changes' = changes + 1
  /\ truth' = [truth EXCEPT !["dialTime"] = @ + 1]
  /\ UNCHANGED <<last, view, task, connected, synced, connects, intervals,
                 updateCount, requests>>

\* A connection is opened, closed or pruned.  handleConnectionEvent lists
\* the connections at once and then looks the remote peers up.
ConnectionEvent(t) ==
  /\ changes < MaxChanges /\ "conns" \in Field /\ task[t] = Free
  /\ changes' = changes + 1
  /\ truth' = [f \in Field |-> IF f \in {"conns", "remote"} THEN truth[f] + 1 ELSE truth[f]]
  /\ task' = [task EXCEPT ![t] =
                Started("event", "remote", [f \in Field \cap {"conns", "remote"} |-> truth'[f]])]
  /\ UNCHANGED <<last, view, connected, synced, connects, intervals, updateCount, requests>>

\* rttSetup's timer remembers the times and sends nothing.
SampleRTTs ==
  /\ "rtts" \in Field
  /\ last' = [last EXCEPT !["rtts"] = truth["rtts"]]
  /\ UNCHANGED <<truth, view, task, connected, synced, connects, intervals,
                 updateCount, changes, requests>>

-----------------------------------------------------------------------------
(* The observer and the calls it and the timer start.                      *)

\* The 'connection' handler asks for a full update for this socket alone.
Connect(t) ==
  /\ ~connected /\ connects < MaxConnects /\ task[t] = Free
  /\ connected' = TRUE /\ synced' = FALSE /\ connects' = connects + 1
  /\ task' = [task EXCEPT ![t] = [Started("initial", "peers", Pick(Field \cap {"peers"}))
                                    EXCEPT !.conn = connects']]
  /\ UNCHANGED <<truth, last, view, intervals, updateCount, changes, requests>>

\* The intervals go on: nothing clears them before the server closes.
Disconnect ==
  /\ connected
  /\ connected' = FALSE /\ synced' = FALSE
  /\ view' = [f \in Field |-> NotSent]
  /\ UNCHANGED <<truth, last, task, connects, intervals, updateCount, changes, requests>>

\* Variant: the count is not reset by a full update.
Tick_NoReset(t) ==
  /\ intervals > 0 /\ task[t] = Free
  /\ LET full == updateCount + 1 >= UpdatesBeforeFullData IN
     /\ updateCount' = updateCount + 1
     /\ task' = [task EXCEPT ![t] = Started(IF full THEN "full" ELSE "delta", "peers",
                                            Pick(Field \cap {"peers"}))]
  /\ UNCHANGED <<truth, last, view, connected, synced, connects, intervals, changes, requests>>

\* Variant: the timer only ever sends deltas.
Tick_OnlyDeltas(t) ==
  /\ intervals > 0 /\ task[t] = Free
  /\ updateCount' = (updateCount + 1) % UpdatesBeforeFullData
  /\ task' = [task EXCEPT ![t] = Started("delta", "peers", Pick(Field \cap {"peers"}))]
  /\ UNCHANGED <<truth, last, view, connected, synced, connects, intervals, changes, requests>>

\* One of the intervals fires.
Tick(t) ==
  /\ intervals > 0 /\ task[t] = Free
  /\ LET full == updateCount + 1 >= UpdatesBeforeFullData IN
     /\ updateCount' = IF full THEN 0 ELSE updateCount + 1
     /\ task' = [task EXCEPT ![t] = Started(IF full THEN "full" ELSE "delta", "peers",
                                            Pick(Field \cap {"peers"}))]
  /\ UNCHANGED <<truth, last, view, connected, synced, connects, intervals, changes, requests>>

\* set-id, or handleSelfPeerUpdate.
Request(t) ==
  /\ requests < MaxRequests /\ task[t] = Free
  /\ requests' = requests + 1
  /\ task' = [task EXCEPT ![t] = Started("full", "peers", Pick(Field \cap {"peers"}))]
  /\ UNCHANGED <<truth, last, view, connected, synced, connects, intervals,
                 updateCount, changes>>

-----------------------------------------------------------------------------
(* deltaUpdate and fullUpdate between their awaits.                        *)

\* Variant: the rest of a delta is read before getRemotePeers is awaited.
DeltaPeers_ReadsAll(t) ==
  /\ task[t].kind = "delta" /\ task[t].pc = "peers"
  /\ task' = [task EXCEPT ![t].pc = "remote",
                ![t].upd = Differing(task[t].got),
                ![t].got = Pick((Field \cap {"remote"}) \cup Tail)]
  /\ last' = Remember(task[t].got)
  /\ UNCHANGED <<truth, view, connected, synced, connects, intervals, updateCount,
                 changes, requests>>

\* The peer store has answered; getRemotePeers begins.
DeltaPeers(t) ==
  /\ task[t].kind = "delta" /\ task[t].pc = "peers"
  /\ task' = [task EXCEPT ![t].pc = "remote",
                ![t].upd = Differing(task[t].got),
                ![t].got = Pick(Field \cap {"remote"})]
  /\ last' = Remember(task[t].got)
  /\ UNCHANGED <<truth, view, connected, synced, connects, intervals, updateCount,
                 changes, requests>>

FullPeers(t) ==
  LET read == Read(task[t].got, Field \cap {"conns"}) IN
  /\ task[t].kind \in {"full", "initial"} /\ task[t].pc = "peers"
  /\ task' = [task EXCEPT ![t].pc = "remote", ![t].upd = read,
                ![t].got = Pick(Field \cap {"remote"})]
  /\ last' = Remember(read)
  /\ UNCHANGED <<truth, view, connected, synced, connects, intervals, updateCount,
                 changes, requests>>

\* The remote peers are known: everything else is compared and the delta
\* is sent, or dropped by sendUpdate.
DeltaSend(t) ==
  LET read == Read(task[t].got, Tail) IN
  /\ task[t].kind = "delta" /\ task[t].pc = "remote"
  /\ Broadcast(Both(task[t].upd, Differing(read)))
  /\ last' = Remember(Restrict(read, DOMAIN read \cap Remembered))
  /\ task' = [task EXCEPT ![t] = Free]
  /\ UNCHANGED <<truth, connected, synced, connects, intervals, updateCount,
                 changes, requests>>

\* A full update always has a type, so it is always sent.
FullSend(t) ==
  LET read == Read(task[t].got, Tail) IN
  /\ task[t].kind = "full" /\ task[t].pc = "remote"
  /\ view' = IF connected THEN Shown(Both(task[t].upd, read)) ELSE view
  /\ last' = Remember(read)
  /\ task' = [task EXCEPT ![t] = Free]
  /\ UNCHANGED <<truth, connected, synced, connects, intervals, updateCount,
                 changes, requests>>

\* The first full update, to the connection that was waiting for it if it is
\* still there; then that connection's own interval.
InitialSend(t) ==
  LET read == Read(task[t].got, Tail)
      here == connected /\ task[t].conn = connects
  IN
  /\ task[t].kind = "initial" /\ task[t].pc = "remote"
  /\ view' = IF here THEN Shown(Both(task[t].upd, read)) ELSE view
  /\ synced' = (synced \/ here)
  /\ last' = Remember(read)
  /\ intervals' = intervals + 1
  /\ task' = [task EXCEPT ![t] = Free]
  /\ UNCHANGED <<truth, connected, connects, updateCount, changes, requests>>

EventSend(t) ==
  /\ task[t].kind = "event" /\ task[t].pc = "remote"
  /\ Broadcast(task[t].got)
  /\ task' = [task EXCEPT ![t] = Free]
  /\ UNCHANGED <<truth, last, connected, synced, connects, intervals, updateCount,
                 changes, requests>>

-----------------------------------------------------------------------------
Continue(t) ==
  \/ DeltaPeers(t) \/ FullPeers(t)
  \/ DeltaSend(t) \/ FullSend(t) \/ InitialSend(t) \/ EventSend(t)

Next ==
  \/ \E f \in Field : Change(f)
  \/ Dialled
  \/ SampleRTTs
  \/ Disconnect
  \/ \E t \in Task :
       ConnectionEvent(t) \/ Connect(t) \/ Tick(t) \/ Request(t) \/ Continue(t)

\* The peer store answers, and the intervals go on firing.
Fairness ==
  /\ \A t \in Task : WF_vars(Continue(t))
  /\ WF_vars(\E t \in Task : Tick(t))

Spec == Init /\ [][Next]_vars
FairSpec == Spec /\ Fairness

-----------------------------------------------------------------------------
(* Properties.                                                             *)

Version == 0 .. MaxChanges
Update == UNION {[S -> Version] : S \in SUBSET Field}

\* Type invariant.
TypeOK ==
  /\ truth \in [Field -> Version]
  /\ last \in [Field -> Version \cup {NotSent}]
  /\ view \in [Field -> Version \cup {NotSent}]
  /\ \A t \in Task :
       /\ task[t].kind \in {"free", "delta", "full", "initial", "event"}
       /\ task[t].pc \in {"start", "peers", "remote"}
       /\ task[t].got \in Update /\ task[t].upd \in Update
       /\ task[t].conn \in 0 .. MaxConnects
  /\ connected \in BOOLEAN /\ synced \in BOOLEAN
  /\ connects \in 0 .. MaxConnects /\ intervals \in 0 .. MaxConnects
  /\ updateCount \in 0 .. UpdatesBeforeFullData - 1
  /\ changes \in 0 .. MaxChanges /\ requests \in 0 .. MaxRequests

\* A delta loses nothing of the fields that are compared, remembered and
\* looked for in the block that sends them: what the shared last* says was
\* sent is what the observer has, whoever sent it.  This is so only while
\* one connection has ever been made: the first full update of another one
\* marks as sent what it shows to that one alone.
NothingLost ==
  synced /\ connects = 1 => \A f \in Field \cap {"mesh"} : view[f] = last[f]

\* The observer never sees a field of the sending block go back to an older
\* value, however the updates in progress overtake one another.
TailNeverGoesBack ==
  [][ synced /\ synced' => \A f \in Tail : view'[f] >= view[f] ]_vars

\* Everything else - a value read before an await and sent after a newer
\* one, a delta sendUpdate drops, round trip times remembered but not sent, a
\* change another connection's first update has used up - is repaired: once
\* the node has stopped changing the observer, if there is one, ends up with
\* the node's state.
EventuallyConsistent == <>[](connected => synced /\ view = truth)

=============================================================================
