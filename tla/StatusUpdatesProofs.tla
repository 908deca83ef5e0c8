------------------------ MODULE StatusUpdatesProofs ------------------------
(***************************************************************************)
(* Proofs about StatusUpdates, for any fields, any number of calls in      *)
(* progress, and any number of changes, connections and requests.          *)
(***************************************************************************)
EXTENDS StatusUpdates, FiniteSetTheorems, TLAPS

\* What a call carries across an await has no field of the sending block.
Part == UNION {[S -> Int] : S \in SUBSET (Field \ Tail)}

Call == [kind : {"free", "delta", "full", "initial", "event"},
         pc : {"start", "peers", "remote"}, got : Part, upd : Part, conn : Nat]

Types ==
  /\ truth \in [Field -> Nat] /\ last \in [Field -> Int] /\ view \in [Field -> Int]
  /\ task \in [Task -> Call]
  /\ connects \in Nat

\* A call that waits to send a first full update has been started by a
\* connection; only a connected observer is synced.
FirstUpdates ==
  /\ \A t \in Task : task[t].kind = "initial" =>
       1 <= task[t].conn /\ task[t].conn <= connects
  /\ synced => connected

\* The observer is not ahead of the node.
NotAhead == \A f \in Tail : view[f] <= truth[f]

\* The inductive invariant.
Inv == Types /\ FirstUpdates /\ NotAhead /\ NothingLost

\* What a step does to the fields of the sending block.
Forward == \A f \in Tail : view'[f] = view[f] \/ view'[f] = truth[f]

-----------------------------------------------------------------------------
(* Lemmas about the data.                                                  *)

LEMMA Parts ==
  /\ Tail \subseteq Field
  /\ "mesh" \in Field => "mesh" \in Tail
  /\ \A p \in Part : /\ DOMAIN p \subseteq Field \ Tail
                     /\ \A f \in DOMAIN p : p[f] \in Int
  /\ \A S \in SUBSET (Field \ Tail) : [S -> Int] \subseteq Part
BY DEF Part, Tail

LEMMA NoPart == <<>> \in Part
<1>1. <<>> \in [{} -> Int]
  OBVIOUS
<1>2. QED  BY <1>1 DEF Part

\* Fields read between two awaits.
LEMMA PickPart ==
  ASSUME Types, NEW S \in SUBSET (Field \ Tail)
  PROVE  Pick(S) \in Part
<1>1. Pick(S) \in [S -> Int]
  BY DEF Pick, Types
<1>2. QED  BY <1>1 DEF Part

LEMMA ReadPart ==
  ASSUME Types, NEW got \in Part, NEW S \in SUBSET (Field \ Tail)
  PROVE  Read(got, S) \in Part
<1>1. DOMAIN got \cup S \in SUBSET (Field \ Tail)
  BY Parts
<1>2. Read(got, S) \in [DOMAIN got \cup S -> Int]
  BY <1>1, Parts DEF Read, Types
<1>3. QED  BY <1>1, <1>2 DEF Part

LEMMA DifferingPart ==
  ASSUME NEW got \in Part
  PROVE  Differing(got) \in Part
<1> DEFINE D == {f \in DOMAIN got : got[f] # last[f]}
<1>1. D \in SUBSET (Field \ Tail)
  BY Parts
<1>2. Differing(got) \in [D -> Int]
  BY Parts DEF Differing, Restrict
<1>3. QED  BY <1>1, <1>2 DEF Part

\* What is read when an update is sent.
LEMMA ReadTail ==
  ASSUME Types, NEW got \in Part
  PROVE  /\ DOMAIN Read(got, Tail) = DOMAIN got \cup Tail
         /\ DOMAIN Read(got, Tail) \subseteq Field
         /\ \A f \in DOMAIN Read(got, Tail) : Read(got, Tail)[f] \in Int
         /\ \A f \in Tail : Read(got, Tail)[f] = truth[f]
BY Parts DEF Read, Types

LEMMA RememberType ==
  ASSUME Types, NEW read, \A f \in DOMAIN read : read[f] \in Int
  PROVE  Remember(read) \in [Field -> Int]
BY DEF Remember, Types

\* What the observer has after an update whose fields of the sending block
\* are as the node has them.
LEMMA ShownUpdate ==
  ASSUME Types, NEW upd, \A f \in DOMAIN upd : upd[f] \in Int,
         \A f \in Tail \cap DOMAIN upd : upd[f] = truth[f]
  PROVE  /\ Shown(upd) \in [Field -> Int]
         /\ \A f \in Tail : Shown(upd)[f] = IF f \in DOMAIN upd THEN truth[f] ELSE view[f]
BY Parts DEF Shown, Types

LEMMA BothParts ==
  ASSUME NEW upd \in Part, NEW more, \A f \in DOMAIN more : more[f] \in Int,
         \A f \in Tail \cap DOMAIN more : more[f] = truth[f]
  PROVE  /\ DOMAIN Both(upd, more) = DOMAIN upd \cup DOMAIN more
         /\ \A f \in DOMAIN Both(upd, more) : Both(upd, more)[f] \in Int
         /\ \A f \in Tail \cap DOMAIN Both(upd, more) : Both(upd, more)[f] = truth[f]
BY Parts DEF Both

\* The calls that begin.
LEMMA FreeCall == Free \in Call
BY NoPart DEF Free, Call

LEMMA StartedCall ==
  ASSUME Types, NEW kind \in {"delta", "full", "initial", "event"},
         NEW pc \in {"peers", "remote"}, NEW got \in Part
  PROVE  Started(kind, pc, got) \in Call
BY NoPart DEF Started, Call, Types

-----------------------------------------------------------------------------
(* The steps.                                                              *)

\* Nothing is sent, and mesh not remembered.
LEMMA NothingSent ==
  ASSUME Inv, task' \in [Task -> Call],
         \A t \in Task : task'[t].kind = "initial" =>
           task[t].kind = "initial" /\ task'[t].conn = task[t].conn,
         truth' \in [Field -> Nat], \A f \in Tail : truth[f] <= truth'[f],
         last' \in [Field -> Int], "mesh" \in Field => last'["mesh"] = last["mesh"],
         UNCHANGED <<view, connected, synced, connects>>
  PROVE  Inv' /\ Forward
<1>1. Types' /\ FirstUpdates' /\ Forward
  BY DEF Inv, Types, FirstUpdates, Forward
<1>2. NotAhead'
  <2>1. ASSUME NEW f \in Tail PROVE view[f] <= truth'[f]
    <3>1. view[f] \in Int /\ truth[f] \in Int /\ truth'[f] \in Int
      BY Parts DEF Inv, Types
    <3>2. QED  BY <3>1 DEF Inv, NotAhead
  <2>2. QED  BY <2>1 DEF NotAhead
<1>3. NothingLost'
  BY DEF Inv, NothingLost
<1>4. QED  BY <1>1, <1>2, <1>3 DEF Inv

\* A call sends its update, or finds that it need not, and ends.
LEMMA CallEnds ==
  ASSUME Inv, NEW t \in Task, task' = [task EXCEPT ![t] = Free],
         UNCHANGED <<truth, connected, connects>>, synced' => connected,
         last' \in [Field -> Int], view' \in [Field -> Int], Forward,
         "mesh" \in Field /\ synced' /\ connects = 1 => view'["mesh"] = last'["mesh"]
  PROVE  Inv' /\ Forward
<1>1. task' \in [Task -> Call]
  BY FreeCall DEF Inv, Types
<1>2. Types' /\ NothingLost'
  BY <1>1 DEF Inv, Types, NothingLost
<1>3. FirstUpdates'
  <2>1. \A u \in Task : task'[u].kind = "initial" => task'[u] = task[u]
    BY DEF Inv, Types, Free
  <2>2. QED  BY <2>1 DEF Inv, FirstUpdates
<1>4. NotAhead'
  <2>1. ASSUME NEW f \in Tail PROVE view'[f] <= truth[f]
    <3>1. view[f] <= truth[f] /\ truth[f] \in Int
      BY Parts DEF Inv, NotAhead, Types
    <3>2. QED  BY <3>1 DEF Forward
  <2>2. QED  BY <2>1 DEF NotAhead
<1>5. QED  BY <1>2, <1>3, <1>4 DEF Inv

LEMMA ChangeStep ==
  ASSUME Inv, NEW f \in Field, Change(f)
  PROVE  Inv' /\ Forward
<1>1. truth' \in [Field -> Nat] /\ \A g \in Field : truth[g] <= truth'[g]
  BY DEF Change, Inv, Types
<1>2. UNCHANGED <<last, view, task, connected, synced, connects>>
  BY DEF Change
<1>3. QED  BY <1>1, <1>2, NothingSent, Parts DEF Inv, Types

LEMMA DialledStep ==
  ASSUME Inv, Dialled
  PROVE  Inv' /\ Forward
<1>1. truth' \in [Field -> Nat] /\ \A g \in Field : truth[g] <= truth'[g]
  BY DEF Dialled, Inv, Types
<1>2. UNCHANGED <<last, view, task, connected, synced, connects>>
  BY DEF Dialled
<1>3. QED  BY <1>1, <1>2, NothingSent, Parts DEF Inv, Types

LEMMA ConnectionEventStep ==
  ASSUME Inv, NEW t \in Task, ConnectionEvent(t)
  PROVE  Inv' /\ Forward
<1> DEFINE got == [f \in Field \cap {"conns", "remote"} |-> truth'[f]]
<1>1. truth' \in [Field -> Nat] /\ \A f \in Field : truth[f] <= truth'[f]
  BY DEF ConnectionEvent, Inv, Types
<1>2. got \in Part
  <2>1. Field \cap {"conns", "remote"} \in SUBSET (Field \ Tail)
    BY DEF Tail
  <2>2. got \in [Field \cap {"conns", "remote"} -> Int]
    BY <1>1
  <2>3. QED  BY <2>1, <2>2, Parts
<1>3. Started("event", "remote", got) \in Call
  BY <1>2, StartedCall DEF Inv
<1>4. task' = [task EXCEPT ![t] = Started("event", "remote", got)]
  BY DEF ConnectionEvent
<1>5. Started("event", "remote", got).kind = "event"
  BY DEF Started
<1> HIDE DEF got
<1>6. /\ task' \in [Task -> Call]
      /\ \A u \in Task : task'[u].kind = "initial" => task'[u] = task[u]
  BY <1>3, <1>4, <1>5 DEF Inv, Types
<1>7. UNCHANGED <<last, view, connected, synced, connects>>
  BY DEF ConnectionEvent
<1>8. QED  BY <1>1, <1>6, <1>7, NothingSent, Parts DEF Inv, Types

LEMMA SampleRTTsStep ==
  ASSUME Inv, SampleRTTs
  PROVE  Inv' /\ Forward
<1>1. /\ last' \in [Field -> Int]
      /\ "mesh" \in Field => last'["mesh"] = last["mesh"]
      /\ UNCHANGED <<truth, view, task, connected, synced, connects>>
  BY DEF SampleRTTs, Inv, Types
<1>2. /\ truth' \in [Field -> Nat] /\ \A f \in Tail : truth[f] <= truth'[f]
      /\ task' \in [Task -> Call]
  BY <1>1, Parts DEF Inv, Types
<1>3. QED  BY <1>1, <1>2, NothingSent

\* Full updates and deltas that a timer or a request begins.
LEMMA CallBegins ==
  ASSUME Inv, NEW t \in Task, NEW kind \in {"delta", "full"},
         task' = [task EXCEPT ![t] = Started(kind, "peers", Pick(Field \cap {"peers"}))],
         UNCHANGED <<truth, last, view, connected, synced, connects>>
  PROVE  Inv' /\ Forward
<1> DEFINE call == Started(kind, "peers", Pick(Field \cap {"peers"}))
<1>1. call \in Call
  <2>1. Field \cap {"peers"} \in SUBSET (Field \ Tail)
    BY DEF Tail
  <2>2. QED  BY <2>1, PickPart, StartedCall DEF Inv
<1>2. call.kind # "initial"
  BY DEF Started
<1> HIDE DEF call
<1>3. /\ task' \in [Task -> Call]
      /\ \A u \in Task : task'[u].kind = "initial" => task'[u] = task[u]
  BY <1>1, <1>2 DEF Inv, Types, call
<1>4. truth' \in [Field -> Nat] /\ \A f \in Tail : truth[f] <= truth'[f]
  BY Parts DEF Inv, Types
<1>5. last' \in [Field -> Int]
  BY DEF Inv, Types
<1>6. QED  BY <1>3, <1>4, <1>5, NothingSent

\* The first full update of a connection is asked for by this connection.
LEMMA ConnectStep ==
  ASSUME Inv, NEW t \in Task, Connect(t)
  PROVE  Inv' /\ synced' = FALSE
<1> DEFINE call == [Started("initial", "peers", Pick(Field \cap {"peers"}))
                      EXCEPT !.conn = connects']
<1>1. /\ synced' = FALSE /\ connects' = connects + 1
      /\ UNCHANGED <<truth, last, view>>
      /\ task' = [task EXCEPT ![t] = call]
  BY DEF Connect
<1>2. call \in Call /\ call.conn = connects + 1
  <2>1. Field \cap {"peers"} \in SUBSET (Field \ Tail)
    BY DEF Tail
  <2>2. Started("initial", "peers", Pick(Field \cap {"peers"})) \in Call
    BY <2>1, PickPart, StartedCall DEF Inv
  <2>3. connects + 1 \in Nat
    BY DEF Inv, Types
  <2>4. QED  BY <1>1, <2>2, <2>3 DEF Call
<1> HIDE DEF call
<1>3. Types'
  BY <1>1, <1>2 DEF Inv, Types
<1>4. FirstUpdates'
  <2>1. ASSUME NEW u \in Task, task'[u].kind = "initial"
        PROVE  1 <= task'[u].conn /\ task'[u].conn <= connects + 1
    <3>1. CASE u = t
      BY <1>1, <1>2, <3>1 DEF Inv, Types
    <3>2. CASE u # t
      <4>1. task'[u] = task[u]
        BY <1>1, <3>2 DEF Inv, Types
      <4>2. task[u].conn \in Nat /\ connects \in Nat
        BY DEF Inv, Types, Call
      <4>3. QED  BY <2>1, <4>1, <4>2 DEF Inv, FirstUpdates
    <3>3. QED  BY <3>1, <3>2
  <2>2. ~synced'
    BY <1>1, Zenon
  <2>3. QED  BY <1>1, <2>1, <2>2 DEF FirstUpdates
<1>5. NotAhead'
  BY <1>1 DEF Inv, NotAhead
<1>6. NothingLost'
  BY <1>1, Zenon DEF NothingLost
<1>7. QED  BY <1>1, <1>3, <1>4, <1>5, <1>6 DEF Inv

\* Nothing has been sent to the observer that comes next.
LEMMA DisconnectStep ==
  ASSUME Inv, Disconnect
  PROVE  Inv' /\ synced' = FALSE
<1>1. /\ synced' = FALSE /\ UNCHANGED <<truth, last, task, connects>>
      /\ view' = [f \in Field |-> NotSent]
  BY DEF Disconnect
<1>2. ~synced'
  BY <1>1, Zenon
<1>3. Types' /\ FirstUpdates' /\ NothingLost'
  BY <1>1, <1>2 DEF Inv, Types, FirstUpdates, NothingLost, NotSent
<1>4. NotAhead'
  BY <1>1, Parts DEF Inv, Types, NotAhead, NotSent
<1>5. QED  BY <1>1, <1>3, <1>4 DEF Inv

LEMMA DeltaPeersStep ==
  ASSUME Inv, NEW t \in Task, DeltaPeers(t)
  PROVE  Inv' /\ Forward
<1> DEFINE got == Pick(Field \cap {"remote"})
           upd == Differing(task[t].got)
<1>1. /\ task[t] \in Call /\ task[t].got \in Part /\ task[t].kind = "delta"
  BY DEF DeltaPeers, Inv, Types, Call
<1>2. got \in Part /\ upd \in Part
  <2>1. Field \cap {"remote"} \in SUBSET (Field \ Tail)
    BY DEF Tail
  <2>2. QED  BY <1>1, <2>1, PickPart, DifferingPart DEF Inv
<1>3. /\ task' = [task EXCEPT ![t].pc = "remote", ![t].upd = upd, ![t].got = got]
      /\ last' = Remember(task[t].got)
      /\ UNCHANGED <<truth, view, connected, synced, connects>>
  BY DEF DeltaPeers
<1> HIDE DEF got, upd
<1>4. /\ task' \in [Task -> Call]
      /\ \A u \in Task : task'[u].kind = task[u].kind /\ task'[u].conn = task[u].conn
  BY <1>2, <1>3 DEF Inv, Types, Call
<1>5. /\ last' \in [Field -> Int]
      /\ "mesh" \in Field => last'["mesh"] = last["mesh"]
  BY <1>1, <1>3, Parts, RememberType DEF Inv, Remember
<1>6. truth' \in [Field -> Nat] /\ \A f \in Tail : truth[f] <= truth'[f]
  BY <1>3, Parts DEF Inv, Types
<1>7. QED  BY <1>3, <1>4, <1>5, <1>6, NothingSent

LEMMA FullPeersStep ==
  ASSUME Inv, NEW t \in Task, FullPeers(t)
  PROVE  Inv' /\ Forward
<1> DEFINE got == Pick(Field \cap {"remote"})
           read == Read(task[t].got, Field \cap {"conns"})
<1>1. task[t] \in Call /\ task[t].got \in Part
  BY DEF Inv, Types, Call
<1>2. got \in Part /\ read \in Part
  <2>1. /\ Field \cap {"remote"} \in SUBSET (Field \ Tail)
        /\ Field \cap {"conns"} \in SUBSET (Field \ Tail)
    BY DEF Tail
  <2>2. QED  BY <1>1, <2>1, PickPart, ReadPart DEF Inv
<1>3. /\ task' = [task EXCEPT ![t].pc = "remote", ![t].upd = read, ![t].got = got]
      /\ last' = Remember(read)
      /\ UNCHANGED <<truth, view, connected, synced, connects>>
  BY DEF FullPeers
<1> HIDE DEF got, read
<1>4. /\ task' \in [Task -> Call]
      /\ \A u \in Task : task'[u].kind = task[u].kind /\ task'[u].conn = task[u].conn
  BY <1>2, <1>3 DEF Inv, Types, Call
<1>5. /\ last' \in [Field -> Int]
      /\ "mesh" \in Field => last'["mesh"] = last["mesh"]
  BY <1>2, <1>3, Parts, RememberType DEF Inv, Remember
<1>6. truth' \in [Field -> Nat] /\ \A f \in Tail : truth[f] <= truth'[f]
  BY <1>3, Parts DEF Inv, Types
<1>7. QED  BY <1>3, <1>4, <1>5, <1>6, NothingSent

\* A delta sends mesh if it differs from what was sent last, so either the
\* observer gets it or it has it.
LEMMA DeltaSendStep ==
  ASSUME Inv, NEW t \in Task, DeltaSend(t)
  PROVE  Inv' /\ Forward
<1> DEFINE read == Read(task[t].got, Tail)
           more == Differing(read)
           upd == Both(task[t].upd, more)
<1>1. task[t].got \in Part /\ task[t].upd \in Part
  BY DEF Inv, Types, Call
<1>2. /\ DOMAIN read \subseteq Field /\ Tail \subseteq DOMAIN read
      /\ \A f \in DOMAIN read : read[f] \in Int
      /\ \A f \in Tail : read[f] = truth[f]
  BY <1>1, ReadTail DEF Inv
<1>3. /\ task' = [task EXCEPT ![t] = Free]
      /\ UNCHANGED <<truth, connected, synced, connects>>
      /\ last' = Remember(Restrict(read, DOMAIN read \cap Remembered))
      /\ view' = IF connected /\ Guarded(upd) # {} THEN Shown(upd) ELSE view
  BY DEF DeltaSend, Broadcast
<1> HIDE DEF read
<1>4. /\ DOMAIN more = {f \in DOMAIN read : read[f] # last[f]}
      /\ \A f \in DOMAIN more : more[f] \in Int
      /\ \A f \in Tail \cap DOMAIN more : more[f] = truth[f]
  BY <1>2 DEF Differing, Restrict
<1> HIDE DEF more
<1>5. /\ DOMAIN upd = DOMAIN task[t].upd \cup DOMAIN more
      /\ \A f \in DOMAIN upd : upd[f] \in Int
      /\ \A f \in Tail \cap DOMAIN upd : upd[f] = truth[f]
  BY <1>1, <1>4, BothParts
<1> HIDE DEF upd
<1>6. /\ Shown(upd) \in [Field -> Int]
      /\ \A f \in Tail : Shown(upd)[f] = IF f \in DOMAIN upd THEN truth[f] ELSE view[f]
  BY <1>5, ShownUpdate DEF Inv
<1>7. view' \in [Field -> Int] /\ Forward
  BY <1>3, <1>6 DEF Inv, Types, Forward
<1>8. last' \in [Field -> Int]
  <2>1. \A f \in DOMAIN read \cap Remembered :
          Restrict(read, DOMAIN read \cap Remembered)[f] \in Int
    BY <1>2 DEF Restrict
  <2>2. DOMAIN Restrict(read, DOMAIN read \cap Remembered) = DOMAIN read \cap Remembered
    BY DEF Restrict
  <2>3. QED  BY <1>3, <2>1, <2>2, RememberType DEF Inv
<1>9. ASSUME "mesh" \in Field, synced', connects = 1
      PROVE  view'["mesh"] = last'["mesh"]
  <2>1. "mesh" \in Tail /\ "mesh" \in DOMAIN read \cap Remembered
    BY <1>2, <1>9, Parts DEF Remembered, Compared
  <2>2. last'["mesh"] = truth["mesh"]
    BY <1>2, <1>3, <1>9, <2>1 DEF Remember, Restrict
  <2>3. synced
    BY <1>3, <1>9, Zenon
  <2>4. connected /\ view["mesh"] = last["mesh"]
    BY <1>9, <2>3 DEF Inv, FirstUpdates, NothingLost
  <2>5. "mesh" \notin DOMAIN task[t].upd
    BY <1>1, <2>1, Parts
  <2>6. CASE truth["mesh"] # last["mesh"]
    <3>1. "mesh" \in DOMAIN upd
      BY <1>2, <1>4, <1>5, <2>1, <2>6
    <3>2. Guarded(upd) # {}
      BY <3>1 DEF Guarded
    <3>3. QED  BY <1>3, <1>6, <2>1, <2>2, <2>4, <3>1, <3>2
  <2>7. CASE truth["mesh"] = last["mesh"]
    <3>1. "mesh" \notin DOMAIN upd
      BY <1>2, <1>4, <1>5, <2>1, <2>5, <2>7
    <3>2. QED  BY <1>3, <1>6, <2>1, <2>2, <2>4, <2>7, <3>1
  <2>8. QED  BY <2>6, <2>7
<1>10. synced' => connected
  BY <1>3, Zenon DEF Inv, FirstUpdates
<1>11. QED  BY <1>3, <1>7, <1>8, <1>9, <1>10, CallEnds

\* What full updates have in common: all fields are read and remembered, and
\* the only observer there has been is shown them.
LEMMA FullUpdateSent ==
  ASSUME Inv, NEW t \in Task,
         task' = [task EXCEPT ![t] = Free],
         UNCHANGED <<truth, connected, connects>>, synced' => connected,
         last' = Remember(Read(task[t].got, Tail)),
         \/ view' = view
         \/ view' = Shown(Both(task[t].upd, Read(task[t].got, Tail))),
         connects = 1 /\ synced' =>
           view' = Shown(Both(task[t].upd, Read(task[t].got, Tail)))
  PROVE  Inv' /\ Forward
<1> DEFINE read == Read(task[t].got, Tail)
           upd == Both(task[t].upd, read)
<1>1. task[t].got \in Part /\ task[t].upd \in Part
  BY DEF Inv, Types, Call
<1>2. /\ DOMAIN read \subseteq Field /\ Tail \subseteq DOMAIN read
      /\ \A f \in DOMAIN read : read[f] \in Int
      /\ \A f \in Tail : read[f] = truth[f]
  BY <1>1, ReadTail DEF Inv
<1>3. /\ last' = Remember(read) /\ (view' = view \/ view' = Shown(upd))
      /\ connects = 1 /\ synced' => view' = Shown(upd)
  OBVIOUS
<1> HIDE DEF read
<1>4. /\ DOMAIN upd = DOMAIN task[t].upd \cup DOMAIN read
      /\ \A f \in DOMAIN upd : upd[f] \in Int
      /\ \A f \in Tail \cap DOMAIN upd : upd[f] = truth[f]
  BY <1>1, <1>2, BothParts
<1> HIDE DEF upd
<1>5. /\ Shown(upd) \in [Field -> Int]
      /\ \A f \in Tail : Shown(upd)[f] = IF f \in DOMAIN upd THEN truth[f] ELSE view[f]
  BY <1>4, ShownUpdate DEF Inv
<1>6. view' \in [Field -> Int] /\ Forward
  BY <1>3, <1>5 DEF Inv, Types, Forward
<1>7. last' \in [Field -> Int]
  BY <1>2, <1>3, RememberType DEF Inv
<1>8. ASSUME "mesh" \in Field, synced', connects = 1
      PROVE  view'["mesh"] = last'["mesh"]
  <2>1. "mesh" \in Tail /\ "mesh" \in DOMAIN read /\ "mesh" \in DOMAIN upd
    BY <1>2, <1>4, <1>8, Parts
  <2>2. last'["mesh"] = truth["mesh"]
    BY <1>2, <1>3, <1>8, <2>1 DEF Remember
  <2>3. QED  BY <1>3, <1>5, <1>8, <2>1, <2>2
<1>9. QED  BY <1>6, <1>7, <1>8, CallEnds

LEMMA FullSendStep ==
  ASSUME Inv, NEW t \in Task, FullSend(t)
  PROVE  Inv' /\ Forward
<1>1. /\ task' = [task EXCEPT ![t] = Free]
      /\ UNCHANGED <<truth, connected, synced, connects>>
      /\ last' = Remember(Read(task[t].got, Tail))
      /\ view' = IF connected THEN Shown(Both(task[t].upd, Read(task[t].got, Tail))) ELSE view
  BY DEF FullSend
<1>2. synced' => connected
  BY <1>1, Zenon DEF Inv, FirstUpdates
<1>3. /\ \/ view' = view
         \/ view' = Shown(Both(task[t].upd, Read(task[t].got, Tail)))
      /\ connects = 1 /\ synced' =>
           view' = Shown(Both(task[t].upd, Read(task[t].got, Tail)))
  BY <1>1, <1>2
<1>4. QED  BY <1>1, <1>2, <1>3, FullUpdateSent

\* As long as there has been one connection only, a first full update is for
\* that one.
LEMMA InitialSendStep ==
  ASSUME Inv, NEW t \in Task, InitialSend(t)
  PROVE  Inv' /\ Forward
<1> DEFINE here == connected /\ task[t].conn = connects
<1>1. /\ task' = [task EXCEPT ![t] = Free]
      /\ UNCHANGED <<truth, connected, connects>>
      /\ last' = Remember(Read(task[t].got, Tail))
      /\ view' = IF here THEN Shown(Both(task[t].upd, Read(task[t].got, Tail))) ELSE view
  BY DEF InitialSend
<1>2. synced' => connected
  BY Zenon DEF InitialSend, Inv, FirstUpdates
<1>3. connects = 1 => task[t].conn = connects
  <2>1. task[t].kind = "initial" /\ task[t].conn \in Nat
    BY DEF InitialSend, Inv, Types, Call
  <2>2. QED  BY <2>1 DEF Inv, FirstUpdates
<1>4. /\ \/ view' = view
         \/ view' = Shown(Both(task[t].upd, Read(task[t].got, Tail)))
      /\ connects = 1 /\ synced' =>
           view' = Shown(Both(task[t].upd, Read(task[t].got, Tail)))
  BY <1>1, <1>2, <1>3
<1>5. QED  BY <1>1, <1>2, <1>4, FullUpdateSent

LEMMA EventSendStep ==
  ASSUME Inv, NEW t \in Task, EventSend(t)
  PROVE  Inv' /\ Forward
<1>1. task[t].got \in Part
  BY DEF Inv, Types, Call
<1>2. /\ \A f \in DOMAIN task[t].got : task[t].got[f] \in Int
      /\ Tail \cap DOMAIN task[t].got = {}
  BY <1>1, Parts
<1>3. /\ Shown(task[t].got) \in [Field -> Int]
      /\ \A f \in Tail : Shown(task[t].got)[f] = view[f]
  BY <1>2, ShownUpdate DEF Inv
<1>4. /\ task' = [task EXCEPT ![t] = Free]
      /\ UNCHANGED <<truth, last, connected, synced, connects>>
      /\ view' = view \/ view' = Shown(task[t].got)
  BY DEF EventSend, Broadcast
<1>5. /\ view' \in [Field -> Int] /\ last' \in [Field -> Int]
      /\ \A f \in Tail : view'[f] = view[f]
  BY <1>3, <1>4 DEF Inv, Types
<1>6. Forward
  BY <1>5 DEF Forward
<1>7. synced' => synced /\ connected
  BY <1>4, Zenon DEF Inv, FirstUpdates
<1>8. "mesh" \in Field /\ synced' /\ connects = 1 => view'["mesh"] = last'["mesh"]
  BY <1>4, <1>5, <1>7, Parts DEF Inv, NothingLost
<1>9. QED  BY <1>4, <1>5, <1>6, <1>7, <1>8, CallEnds

-----------------------------------------------------------------------------
(* The type invariant.  Values are numbers of changes, so what is read, sent  *)
(* and remembered is bounded by the changes made.  An interval is started by *)
(* a first full update, and a connection asks for one only.                  *)

\* A call that waits to send a first full update.
Initial == {t \in Task : task[t].kind = "initial"}

\* A connection has started its interval, or has yet to, or has ended before.
IntervalsPaid ==
  IsFiniteSet(Initial) /\ Cardinality(Initial) + intervals <= connects

TypedCall == [kind : {"free", "delta", "full", "initial", "event"},
              pc : {"start", "peers", "remote"}, got : Update, upd : Update,
              conn : 0 .. MaxConnects]

Shows == [Field -> Version \cup {NotSent}]

TypedData == truth \in [Field -> 0 .. changes] /\ last \in Shows /\ view \in Shows

Flags == connected \in BOOLEAN /\ synced \in BOOLEAN

TypedCounters ==
  /\ connects \in 0 .. MaxConnects /\ intervals \in Nat
  /\ updateCount \in 0 .. UpdatesBeforeFullData - 1
  /\ changes \in 0 .. MaxChanges /\ requests \in 0 .. MaxRequests

\* The inductive invariant behind TypeOK.
TypeInv ==
  /\ TypedData /\ task \in [Task -> TypedCall]
  /\ Flags /\ TypedCounters /\ IntervalsPaid

LEMMA Updates ==
  /\ \A S \in SUBSET Field : [S -> Version] \subseteq Update
  /\ \A u \in Update : /\ DOMAIN u \subseteq Field
                       /\ \A f \in DOMAIN u : u[f] \in Version
BY DEF Update

LEMMA NoUpdate == <<>> \in Update
<1>1. <<>> \in [{} -> Version]
  OBVIOUS
<1>2. QED  BY <1>1, Updates

\* Values of the node.
LEMMA TruthVersion ==
  ASSUME TypeInv
  PROVE  truth \in [Field -> Version]
BY BoundAssumption DEF TypeInv, TypedData, TypedCounters, Version

LEMMA PickUpdate ==
  ASSUME TypeInv, NEW S \in SUBSET Field
  PROVE  Pick(S) \in Update
<1>1. Pick(S) \in [S -> Version]
  BY TruthVersion DEF Pick
<1>2. QED  BY <1>1, Updates

LEMMA ReadUpdate ==
  ASSUME TypeInv, NEW got \in Update, NEW S \in SUBSET Field
  PROVE  Read(got, S) \in Update
<1>1. DOMAIN got \cup S \in SUBSET Field
  BY Updates
<1>2. Read(got, S) \in [DOMAIN got \cup S -> Version]
  BY TruthVersion, Updates DEF Read
<1>3. QED  BY <1>1, <1>2, Updates

LEMMA RestrictUpdate ==
  ASSUME NEW u \in Update, NEW S \in SUBSET DOMAIN u
  PROVE  Restrict(u, S) \in Update
<1>1. S \in SUBSET Field /\ Restrict(u, S) \in [S -> Version]
  BY Updates DEF Restrict
<1>2. QED  BY <1>1, Updates

LEMMA DifferingUpdate ==
  ASSUME NEW read \in Update
  PROVE  Differing(read) \in Update
<1>1. {f \in DOMAIN read : read[f] # last[f]} \in SUBSET DOMAIN read
  OBVIOUS
<1>2. QED  BY <1>1, RestrictUpdate DEF Differing

LEMMA BothUpdates ==
  ASSUME NEW upd \in Update, NEW more \in Update
  PROVE  Both(upd, more) \in Update
<1>1. DOMAIN upd \cup DOMAIN more \in SUBSET Field
  BY Updates
<1>2. Both(upd, more) \in [DOMAIN upd \cup DOMAIN more -> Version]
  BY Updates DEF Both
<1>3. QED  BY <1>1, <1>2, Updates

LEMMA ShownType ==
  ASSUME TypedData, NEW upd \in Update
  PROVE  Shown(upd) \in Shows
BY Updates DEF Shown, Shows, TypedData

LEMMA RememberVersions ==
  ASSUME TypedData, NEW read \in Update
  PROVE  Remember(read) \in Shows
BY Updates DEF Remember, Shows, TypedData

LEMMA TypedFree == Free \in TypedCall
BY NoUpdate, BoundAssumption DEF Free, TypedCall

LEMMA TypedStarted ==
  ASSUME TypeInv, NEW kind \in {"delta", "full", "initial", "event"},
         NEW pc \in {"peers", "remote"}, NEW got \in Update
  PROVE  Started(kind, pc, got) \in TypedCall
BY NoUpdate DEF Started, TypedCall, TypeInv, TypedCounters

\* A change of the node that no call sees yet.
LEMMA TypedChange ==
  ASSUME TypedData, TypedCounters, changes < MaxChanges, changes' = changes + 1,
         NEW S \in SUBSET Field,
         truth' = [f \in Field |-> IF f \in S THEN truth[f] + 1 ELSE truth[f]],
         UNCHANGED <<last, view, connects, intervals, updateCount, requests>>
  PROVE  TypedData' /\ TypedCounters' /\ truth' \in [Field -> Version]
<1>1. changes \in Nat /\ changes + 1 <= MaxChanges
  BY BoundAssumption DEF TypedCounters
<1>2. truth' \in [Field -> 0 .. changes + 1]
  <2>1. ASSUME NEW f \in Field
        PROVE  (IF f \in S THEN truth[f] + 1 ELSE truth[f]) \in 0 .. changes + 1
    BY <1>1 DEF TypedData
  <2>2. QED  BY <2>1
<1>3. truth' \in [Field -> Version]
  BY <1>1, <1>2, BoundAssumption DEF Version
<1>4. TypedCounters'
  BY <1>1, BoundAssumption DEF TypedCounters
<1>5. TypedData'
  BY <1>2 DEF TypedData, Shows
<1>6. QED  BY <1>3, <1>4, <1>5

\* The calls that wait to send a first full update stay the same.
LEMMA SameInitial ==
  ASSUME IntervalsPaid, UNCHANGED <<intervals, connects>>,
         \A t \in Task : task'[t].kind = "initial" <=> task[t].kind = "initial"
  PROVE  IntervalsPaid'
<1>1. Initial' = Initial
  BY DEF Initial
<1>2. QED  BY <1>1 DEF IntervalsPaid

\* A call that begins, moves on or ends, and is no first full update.
LEMMA CallMoves ==
  ASSUME TypeInv, NEW t \in Task, NEW call \in TypedCall,
         task' = [task EXCEPT ![t] = call],
         call.kind = "initial" <=> task[t].kind = "initial",
         UNCHANGED <<intervals, connects>>
  PROVE  task' \in [Task -> TypedCall] /\ IntervalsPaid'
<1>1. task' \in [Task -> TypedCall]
  BY DEF TypeInv
<1>2. \A u \in Task : task'[u].kind = "initial" <=> task[u].kind = "initial"
  BY DEF TypeInv
<1>3. QED  BY <1>1, <1>2, SameInitial DEF TypeInv

LEMMA TypeInit == Init => TypeInv
<1>1. SUFFICES ASSUME Init PROVE TypeInv
  OBVIOUS
<1>2. TypedData
  BY <1>1, BoundAssumption DEF Init, TypedData, Shows, Version
<1>3. task \in [Task -> TypedCall]
  BY <1>1, TypedFree DEF Init
<1>4. Flags /\ TypedCounters
  <2>1. Flags
    BY <1>1, Zenon DEF Init, Flags
  <2>2. TypedCounters
    <3>1. /\ connects = 0 /\ intervals = 0 /\ updateCount = 0
          /\ changes = 0 /\ requests = 0
      BY <1>1 DEF Init
    <3>2. QED  BY <3>1, BoundAssumption DEF TypedCounters
  <2>3. QED  BY <2>1, <2>2
<1>5. Initial = {}
  <2>1. ASSUME NEW t \in Task PROVE task[t].kind # "initial"
    BY <1>1 DEF Init, Free
  <2>2. QED  BY <2>1 DEF Initial
<1>6. IntervalsPaid
  BY <1>1, <1>5, FS_EmptySet DEF IntervalsPaid, Init
<1>7. QED  BY <1>2, <1>3, <1>4, <1>6 DEF TypeInv

LEMMA TypedChangeStep ==
  ASSUME TypeInv, NEW f \in Field, Change(f) \/ (f = "dialTime" /\ Dialled)
  PROVE  TypeInv'
<1>1. /\ changes < MaxChanges /\ changes' = changes + 1
      /\ truth' = [truth EXCEPT ![f] = @ + 1]
      /\ UNCHANGED <<last, view, task, connected, synced, connects, intervals,
                     updateCount, requests>>
  BY DEF Change, Dialled
<1>2. truth' = [g \in Field |-> IF g \in {f} THEN truth[g] + 1 ELSE truth[g]]
  BY <1>1 DEF TypeInv, TypedData
<1>3. TypedData' /\ TypedCounters'
  BY <1>1, <1>2, TypedChange DEF TypeInv
<1>4. IntervalsPaid'
  BY <1>1, SameInitial DEF TypeInv
<1>5. Flags' /\ task' \in [Task -> TypedCall]
  BY <1>1 DEF TypeInv, Flags
<1>6. QED  BY <1>3, <1>4, <1>5 DEF TypeInv

LEMMA TypedEventStep ==
  ASSUME TypeInv, NEW t \in Task, ConnectionEvent(t)
  PROVE  TypeInv'
<1> DEFINE S == Field \cap {"conns", "remote"}
           got == [f \in S |-> truth'[f]]
           call == Started("event", "remote", got)
<1>1. /\ changes < MaxChanges /\ changes' = changes + 1 /\ task[t] = Free
      /\ truth' = [f \in Field |-> IF f \in S THEN truth[f] + 1 ELSE truth[f]]
      /\ task' = [task EXCEPT ![t] = call]
      /\ UNCHANGED <<last, view, connected, synced, connects, intervals, updateCount,
                     requests>>
  BY DEF ConnectionEvent
<1>2. TypedData' /\ TypedCounters' /\ truth' \in [Field -> Version]
  BY <1>1, TypedChange DEF TypeInv
<1>3. got \in Update
  <2>1. S \in SUBSET Field /\ got \in [S -> Version]
    BY <1>2
  <2>2. QED  BY <2>1, Updates
<1>4. call \in TypedCall /\ call.kind = "event"
  BY <1>3, TypedStarted DEF Started
<1> HIDE DEF call
<1>5. task' \in [Task -> TypedCall] /\ IntervalsPaid'
  <2>1. task[t].kind # "initial"
    BY <1>1 DEF Free
  <2>2. QED  BY <1>1, <1>4, <2>1, CallMoves
<1>6. Flags'
  BY <1>1 DEF TypeInv, Flags
<1>7. QED  BY <1>2, <1>5, <1>6 DEF TypeInv

\* A call whose step changes neither the node nor the counters.
LEMMA TypedCallStep ==
  ASSUME TypeInv, NEW t \in Task, NEW call \in TypedCall,
         task' = [task EXCEPT ![t] = call],
         call.kind = "initial" <=> task[t].kind = "initial",
         last' \in Shows, view' \in Shows,
         UNCHANGED <<truth, connected, synced, connects, intervals, updateCount,
                     changes, requests>>
  PROVE  TypeInv'
<1>1. task' \in [Task -> TypedCall] /\ IntervalsPaid'
  BY CallMoves
<1>2. TypedData' /\ TypedCounters'
  BY DEF TypeInv, TypedData, TypedCounters, Shows
<1>3. Flags'
  BY DEF TypeInv, Flags
<1>4. QED  BY <1>1, <1>2, <1>3 DEF TypeInv

LEMMA TypedSampleStep ==
  ASSUME TypeInv, SampleRTTs
  PROVE  TypeInv'
<1>1. /\ "rtts" \in Field /\ last' = [last EXCEPT !["rtts"] = truth["rtts"]]
      /\ UNCHANGED <<truth, view, task, connected, synced, connects, intervals,
                     updateCount, changes, requests>>
  BY DEF SampleRTTs
<1>2. last' \in Shows
  BY <1>1, TruthVersion DEF TypeInv, TypedData, Shows
<1>3. TypedData' /\ TypedCounters' /\ task' \in [Task -> TypedCall]
  BY <1>1, <1>2 DEF TypeInv, TypedData, TypedCounters, Shows
<1>4. IntervalsPaid'
  BY <1>1, SameInitial DEF TypeInv
<1>5. Flags'
  BY <1>1 DEF TypeInv, Flags
<1>6. QED  BY <1>3, <1>4, <1>5 DEF TypeInv

\* What a connection, an interval or a request starts.
LEMMA TypedPeersCall ==
  ASSUME TypeInv, NEW kind \in {"delta", "full", "initial"}
  PROVE  Started(kind, "peers", Pick(Field \cap {"peers"})) \in TypedCall
BY PickUpdate, TypedStarted

LEMMA TypedConnectStep ==
  ASSUME TypeInv, NEW t \in Task, Connect(t)
  PROVE  TypeInv'
<1> DEFINE call == [Started("initial", "peers", Pick(Field \cap {"peers"}))
                      EXCEPT !.conn = connects']
<1>1. /\ connects < MaxConnects /\ connects' = connects + 1 /\ task[t] = Free
      /\ task' = [task EXCEPT ![t] = call]
      /\ UNCHANGED <<truth, last, view, intervals, updateCount, changes, requests>>
  BY DEF Connect
<1>2. connects \in Nat /\ connects' \in 0 .. MaxConnects /\ intervals \in Nat
  BY <1>1, BoundAssumption DEF TypeInv, TypedCounters
<1>3. call \in TypedCall /\ call.kind = "initial"
  BY <1>2, TypedPeersCall DEF TypedCall, Started
<1> HIDE DEF call
<1>4. task' \in [Task -> TypedCall]
  BY <1>1, <1>3 DEF TypeInv
<1>5. t \notin Initial /\ Initial' = Initial \cup {t}
  <2>1. \A u \in Task : task'[u].kind = "initial" <=> task[u].kind = "initial" \/ u = t
    BY <1>1, <1>3 DEF TypeInv
  <2>2. QED  BY <1>1, <2>1 DEF Initial, Free
<1>6. IntervalsPaid'
  <2>1. /\ IsFiniteSet(Initial') /\ Cardinality(Initial') = Cardinality(Initial) + 1
        /\ Cardinality(Initial) \in Nat
    BY <1>5, FS_AddElement, FS_CardinalityType DEF TypeInv, IntervalsPaid
  <2>2. QED  BY <1>1, <1>2, <2>1 DEF TypeInv, IntervalsPaid
<1>7. TypedData' /\ TypedCounters'
  BY <1>1, <1>2 DEF TypeInv, TypedData, TypedCounters, Shows
<1>8. Flags'
  BY Zenon DEF Connect, Flags
<1>9. QED  BY <1>4, <1>6, <1>7, <1>8 DEF TypeInv

LEMMA TypedDisconnectStep ==
  ASSUME TypeInv, Disconnect
  PROVE  TypeInv'
<1>1. /\ view' = [f \in Field |-> NotSent]
      /\ UNCHANGED <<truth, last, task, connects, intervals, updateCount, changes,
                     requests>>
  BY DEF Disconnect
<1>2. TypedData' /\ TypedCounters' /\ task' \in [Task -> TypedCall]
  BY <1>1 DEF TypeInv, TypedData, TypedCounters, Shows
<1>3. IntervalsPaid'
  BY <1>1, SameInitial DEF TypeInv
<1>4. Flags'
  BY Zenon DEF Disconnect, Flags
<1>5. QED  BY <1>2, <1>3, <1>4 DEF TypeInv

\* The count of ticks starts again with each full update.
LEMMA TypedTickStep ==
  ASSUME TypeInv, NEW t \in Task, Tick(t)
  PROVE  TypeInv'
<1>1. PICK kind \in {"delta", "full"} :
        task' = [task EXCEPT ![t] = Started(kind, "peers", Pick(Field \cap {"peers"}))]
  BY DEF Tick
<1>2. /\ task[t] = Free
      /\ updateCount' = IF updateCount + 1 >= UpdatesBeforeFullData
                        THEN 0 ELSE updateCount + 1
      /\ UNCHANGED <<truth, last, view, connects, intervals, changes, requests>>
  BY DEF Tick
<1>3. UNCHANGED <<connected, synced>>
  BY DEF Tick
<1> DEFINE call == Started(kind, "peers", Pick(Field \cap {"peers"}))
<1>4. call \in TypedCall /\ call.kind # "initial" /\ task[t].kind # "initial"
  BY <1>2, TypedPeersCall DEF Started, Free
<1>5. task' = [task EXCEPT ![t] = call]
  BY <1>1
<1> HIDE DEF call
<1>6. task' \in [Task -> TypedCall] /\ IntervalsPaid'
  BY <1>2, <1>4, <1>5, CallMoves
<1>7. updateCount' \in 0 .. UpdatesBeforeFullData - 1
  BY <1>2, BoundAssumption DEF TypeInv, TypedCounters
<1>8. TypedData' /\ TypedCounters'
  BY <1>2, <1>7 DEF TypeInv, TypedData, TypedCounters, Shows
<1>9. Flags'
  BY <1>3 DEF TypeInv, Flags
<1>10. QED  BY <1>6, <1>8, <1>9 DEF TypeInv

LEMMA TypedRequestStep ==
  ASSUME TypeInv, NEW t \in Task, Request(t)
  PROVE  TypeInv'
<1> DEFINE call == Started("full", "peers", Pick(Field \cap {"peers"}))
<1>1. /\ task[t] = Free /\ requests < MaxRequests /\ requests' = requests + 1
      /\ task' = [task EXCEPT ![t] = call]
      /\ UNCHANGED <<truth, last, view, connects, intervals, updateCount, changes>>
  BY DEF Request
<1>2. UNCHANGED <<connected, synced>>
  BY DEF Request
<1>3. call \in TypedCall /\ call.kind # "initial"
  BY TypedPeersCall DEF Started
<1> HIDE DEF call
<1>4. task' \in [Task -> TypedCall] /\ IntervalsPaid'
  <2>1. task[t].kind # "initial"
    BY <1>1 DEF Free
  <2>2. QED  BY <1>1, <1>3, <2>1, CallMoves
<1>5. TypedData' /\ TypedCounters'
  BY <1>1, BoundAssumption DEF TypeInv, TypedData, TypedCounters, Shows
<1>6. Flags'
  BY <1>2 DEF TypeInv, Flags
<1>7. QED  BY <1>4, <1>5, <1>6 DEF TypeInv

LEMMA TypedPeersStep ==
  ASSUME TypeInv, NEW t \in Task, DeltaPeers(t) \/ FullPeers(t)
  PROVE  TypeInv'
<1>1. task[t] \in TypedCall /\ task[t].got \in Update
  BY DEF TypeInv, TypedCall
<1>2. PICK upd \in Update, read \in Update :
        /\ task' = [task EXCEPT ![t].pc = "remote", ![t].upd = upd,
                                ![t].got = Pick(Field \cap {"remote"})]
        /\ last' = Remember(read)
  <2>1. CASE DeltaPeers(t)
    BY <1>1, <2>1, DifferingUpdate DEF DeltaPeers
  <2>2. CASE FullPeers(t)
    BY <1>1, <2>2, ReadUpdate DEF FullPeers
  <2>3. QED  BY <2>1, <2>2
<1>3. UNCHANGED <<truth, view, connected, synced, connects, intervals, updateCount,
                  changes, requests>>
  BY DEF DeltaPeers, FullPeers
<1> DEFINE got == Pick(Field \cap {"remote"})
           call == [task[t] EXCEPT !.pc = "remote", !.upd = upd, !.got = got]
<1>4. got \in Update
  BY PickUpdate
<1> HIDE DEF got
<1>5. call \in TypedCall /\ call.kind = task[t].kind
  BY <1>1, <1>4 DEF TypedCall
<1>6. task' = [task EXCEPT ![t] = call]
  BY <1>2 DEF TypeInv, got
<1> HIDE DEF call
<1>7. last' \in Shows /\ view' \in Shows
  BY <1>2, <1>3, RememberVersions DEF TypeInv, TypedData, Shows
<1>8. QED  BY <1>3, <1>5, <1>6, <1>7, TypedCallStep

\* What a call reads and sends last.
LEMMA TypedSending ==
  ASSUME TypeInv, NEW t \in Task
  PROVE  /\ task[t].got \in Update
         /\ Read(task[t].got, Tail) \in Update
         /\ Both(task[t].upd, Read(task[t].got, Tail)) \in Update
         /\ Both(task[t].upd, Differing(Read(task[t].got, Tail))) \in Update
<1>1. task[t].got \in Update /\ task[t].upd \in Update
  BY DEF TypeInv, TypedCall
<1>2. Tail \in SUBSET Field
  BY DEF Tail
<1>3. QED  BY <1>1, <1>2, ReadUpdate, DifferingUpdate, BothUpdates

LEMMA TypedSendStep ==
  ASSUME TypeInv, NEW t \in Task, DeltaSend(t) \/ FullSend(t) \/ EventSend(t)
  PROVE  TypeInv'
<1> DEFINE read == Read(task[t].got, Tail)
<1>1. /\ task[t].kind # "initial" /\ task' = [task EXCEPT ![t] = Free]
      /\ UNCHANGED <<truth, connected, synced, connects, intervals, updateCount,
                     changes, requests>>
  BY DEF DeltaSend, FullSend, EventSend
<1>2. last' \in Shows /\ view' \in Shows
  <2>1. CASE DeltaSend(t)
    <3>1. DOMAIN read \cap Remembered \in SUBSET DOMAIN read
      OBVIOUS
    <3>2. Restrict(read, DOMAIN read \cap Remembered) \in Update
      BY <3>1, TypedSending, RestrictUpdate
    <3>3. /\ last' = Remember(Restrict(read, DOMAIN read \cap Remembered))
          /\ view' \in {view, Shown(Both(task[t].upd, Differing(read)))}
      BY <2>1 DEF DeltaSend, Broadcast
    <3>4. QED  BY <3>2, <3>3, TypedSending, RememberVersions, ShownType DEF TypeInv, TypedData
  <2>2. CASE FullSend(t)
    <3>1. /\ last' = Remember(read)
          /\ view' \in {view, Shown(Both(task[t].upd, read))}
      BY <2>2 DEF FullSend
    <3>2. QED  BY <3>1, TypedSending, RememberVersions, ShownType DEF TypeInv, TypedData
  <2>3. CASE EventSend(t)
    <3>1. last' = last /\ view' \in {view, Shown(task[t].got)}
      BY <2>3 DEF EventSend, Broadcast
    <3>2. QED  BY <3>1, TypedSending, ShownType DEF TypeInv, TypedData
  <2>4. QED  BY <2>1, <2>2, <2>3
<1>3. Free \in TypedCall /\ Free.kind # "initial"
  BY TypedFree DEF Free
<1>4. QED  BY <1>1, <1>2, <1>3, TypedCallStep

\* The call ends and its interval begins.
LEMMA TypedInitialStep ==
  ASSUME TypeInv, NEW t \in Task, InitialSend(t)
  PROVE  TypeInv'
<1> DEFINE read == Read(task[t].got, Tail)
<1>1. /\ task[t].kind = "initial" /\ task' = [task EXCEPT ![t] = Free]
      /\ intervals' = intervals + 1
      /\ UNCHANGED <<truth, connects, updateCount, changes, requests>>
      /\ last' = Remember(read)
      /\ view' \in {view, Shown(Both(task[t].upd, read))}
  BY DEF InitialSend
<1>2. last' \in Shows /\ view' \in Shows
  BY <1>1, TypedSending, RememberVersions, ShownType DEF TypeInv, TypedData
<1>3. task' \in [Task -> TypedCall]
  BY <1>1, TypedFree DEF TypeInv
<1>4. t \in Initial /\ Initial' = Initial \ {t}
  <2>1. \A u \in Task : task'[u].kind = "initial" <=> task[u].kind = "initial" /\ u # t
    BY <1>1 DEF TypeInv, Free
  <2>2. QED  BY <1>1, <2>1 DEF Initial
<1>5. IntervalsPaid' /\ intervals' \in Nat
  <2>1. intervals \in Nat /\ connects \in Nat
    BY DEF TypeInv, TypedCounters
  <2>2. /\ IsFiniteSet(Initial') /\ Cardinality(Initial') = Cardinality(Initial) - 1
        /\ Cardinality(Initial) \in Nat
    BY <1>4, FS_RemoveElement, FS_CardinalityType DEF TypeInv, IntervalsPaid
  <2>3. QED  BY <1>1, <2>1, <2>2 DEF TypeInv, IntervalsPaid
<1>6. TypedData' /\ TypedCounters'
  BY <1>1, <1>2, <1>5 DEF TypeInv, TypedData, TypedCounters, Shows
<1>7. Flags'
  BY Zenon DEF InitialSend, TypeInv, Flags
<1>8. QED  BY <1>3, <1>5, <1>6, <1>7 DEF TypeInv

\* One step per action.
LEMMA TypeStep == TypeInv /\ [Next]_vars => TypeInv'
<1>1. SUFFICES ASSUME TypeInv, [Next]_vars PROVE TypeInv'
  OBVIOUS
<1>2. ASSUME NEW f \in Field, Change(f) PROVE TypeInv'
  <2>1. Change(f) \/ (f = "dialTime" /\ Dialled)
    BY <1>2
  <2>2. QED  BY <1>1, <2>1, TypedChangeStep
<1>3. CASE Dialled
  <2>1. "dialTime" \in Field
    BY <1>3 DEF Dialled
  <2>2. Change("dialTime") \/ ("dialTime" = "dialTime" /\ Dialled)
    BY <1>3
  <2>3. QED  BY <1>1, <2>1, <2>2, TypedChangeStep
<1>4. CASE SampleRTTs
  BY <1>1, <1>4, TypedSampleStep
<1>5. CASE Disconnect
  BY <1>1, <1>5, TypedDisconnectStep
<1>6. ASSUME NEW t \in Task, ConnectionEvent(t) PROVE TypeInv'
  BY <1>1, <1>6, TypedEventStep
<1>7. ASSUME NEW t \in Task, Connect(t) PROVE TypeInv'
  BY <1>1, <1>7, TypedConnectStep
<1>8. ASSUME NEW t \in Task, Tick(t) PROVE TypeInv'
  BY <1>1, <1>8, TypedTickStep
<1>9. ASSUME NEW t \in Task, Request(t) PROVE TypeInv'
  BY <1>1, <1>9, TypedRequestStep
<1>10. ASSUME NEW t \in Task, Continue(t) PROVE TypeInv'
  BY <1>1, <1>10, TypedPeersStep, TypedSendStep, TypedInitialStep DEF Continue
<1>11. CASE UNCHANGED vars
  <2>1. /\ UNCHANGED <<truth, last, view, task, connects, intervals, updateCount,
                       changes, requests>>
        /\ UNCHANGED <<connected, synced>>
    BY <1>11 DEF vars
  <2>2. TypedData' /\ TypedCounters' /\ task' \in [Task -> TypedCall]
    BY <1>1, <2>1 DEF TypeInv, TypedData, TypedCounters, Shows
  <2>3. IntervalsPaid'
    BY <1>1, <2>1, SameInitial DEF TypeInv
  <2>4. Flags'
    BY <1>1, <2>1 DEF TypeInv, Flags
  <2>5. QED  BY <2>2, <2>3, <2>4 DEF TypeInv
<1>12. QED
  BY <1>1, <1>2, <1>3, <1>4, <1>5, <1>6, <1>7, <1>8, <1>9, <1>10, <1>11 DEF Next

-----------------------------------------------------------------------------
(* The theorems.                                                           *)

LEMMA InvInit == Init => Inv
<1>1. SUFFICES ASSUME Init PROVE Inv
  OBVIOUS
<1>2. ~synced
  BY <1>1, Zenon DEF Init
<1>3. Types /\ NotAhead
  BY <1>1, FreeCall, Parts DEF Init, Types, NotAhead, NotSent
<1>4. FirstUpdates
  BY <1>1, <1>2 DEF Init, FirstUpdates, Free
<1>5. NothingLost
  BY <1>2 DEF NothingLost
<1>6. QED  BY <1>3, <1>4, <1>5 DEF Inv

\* One step per action.
LEMMA InvStep == Inv /\ [Next]_vars => Inv' /\ (Forward \/ synced' = FALSE)
<1>1. SUFFICES ASSUME Inv, [Next]_vars PROVE Inv' /\ (Forward \/ synced' = FALSE)
  OBVIOUS
<1>2. ASSUME NEW f \in Field, Change(f) PROVE Inv' /\ Forward
  BY <1>1, <1>2, ChangeStep
<1>3. CASE SampleRTTs
  BY <1>1, <1>3, SampleRTTsStep
<1>4. CASE Disconnect
  BY <1>1, <1>4, DisconnectStep
<1>5. ASSUME NEW t \in Task, ConnectionEvent(t) PROVE Inv' /\ Forward
  BY <1>1, <1>5, ConnectionEventStep
<1>6. ASSUME NEW t \in Task, Connect(t) PROVE Inv' /\ synced' = FALSE
  BY <1>1, <1>6, ConnectStep
<1>7. ASSUME NEW t \in Task, Tick(t) PROVE Inv' /\ Forward
  <2>1. PICK kind \in {"delta", "full"} :
          task' = [task EXCEPT ![t] = Started(kind, "peers", Pick(Field \cap {"peers"}))]
    BY <1>7 DEF Tick
  <2>2. UNCHANGED <<truth, last, view, connected, synced, connects>>
    BY <1>7 DEF Tick
  <2>3. QED  BY <1>1, <2>1, <2>2, CallBegins
<1>8. ASSUME NEW t \in Task, Request(t) PROVE Inv' /\ Forward
  <2>1. /\ task' = [task EXCEPT ![t] = Started("full", "peers", Pick(Field \cap {"peers"}))]
        /\ UNCHANGED <<truth, last, view, connected, synced, connects>>
    BY <1>8 DEF Request
  <2>2. QED  BY <1>1, <2>1, CallBegins
<1>9. ASSUME NEW t \in Task, Continue(t) PROVE Inv' /\ Forward
  BY <1>1, <1>9, DeltaPeersStep, FullPeersStep, DeltaSendStep, FullSendStep,
     InitialSendStep, EventSendStep DEF Continue
<1>10. CASE UNCHANGED vars
  <2>1. UNCHANGED <<truth, last, view, task, connected, synced, connects>>
    BY <1>10 DEF vars
  <2>2. \A f \in Tail : truth[f] <= truth[f]
    BY <1>1, Parts DEF Inv, Types
  <2>3. Inv'
    BY <1>1, <2>1 DEF Inv, Types, FirstUpdates, NotAhead, NothingLost
  <2>4. QED  BY <2>1, <2>3 DEF Forward
<1>11. CASE Dialled
  BY <1>1, <1>11, DialledStep
<1>12. QED
  BY <1>1, <1>2, <1>3, <1>4, <1>5, <1>6, <1>7, <1>8, <1>9, <1>10,
     <1>11 DEF Next

\* The inductive invariant: what calls carry across an await has no field of
\* the sending block, the observer is not ahead of the node, and nothing is
\* lost.
THEOREM Invariance == Spec => []Inv
<1>1. QED  BY InvInit, InvStep, PTL DEF Spec

\* The last* members, shared by all deltaUpdate and fullUpdate calls in
\* progress, never claim that the observer has been sent what it has not.
THEOREM DeltasLoseNothing == Spec => []NothingLost
<1>1. Inv => NothingLost
  BY DEF Inv
<1>2. QED  BY <1>1, Invariance, PTL

\* Calls that overtake one another never send an old value of a field that
\* they read in the block that sends it.
THEOREM TailOnlyForward == Spec => TailNeverGoesBack
<1>1. Inv /\ [Next]_vars => [synced /\ synced' => \A f \in Tail : view'[f] >= view[f]]_vars
  <2>1. SUFFICES ASSUME Inv, [Next]_vars, synced, synced', NEW f \in Tail
                 PROVE  view'[f] >= view[f]
    OBVIOUS
  <2>2. Forward
    <3>1. synced' # FALSE
      BY <2>1, Zenon
    <3>2. QED  BY <2>1, <3>1, InvStep
  <2>3. view[f] <= truth[f] /\ view[f] \in Int /\ truth[f] \in Int
    BY <2>1, Parts DEF Inv, Types, NotAhead
  <2>4. QED  BY <2>2, <2>3 DEF Forward
<1>2. QED  BY <1>1, Invariance, PTL DEF Spec, TailNeverGoesBack
\* Every variable keeps its type: no update carries a value the node has not
\* had, and the node runs no more intervals than connections have been made to
\* it.
THEOREM TypeCorrectness == Spec => []TypeOK
<1>1. TypeInv => TypeOK
  <2>1. SUFFICES ASSUME TypeInv PROVE TypeOK
    OBVIOUS
  <2>2. intervals \in 0 .. MaxConnects
    <3>1. Cardinality(Initial) \in Nat
      BY <2>1, FS_CardinalityType DEF TypeInv, IntervalsPaid
    <3>2. QED  BY <2>1, <3>1, BoundAssumption DEF TypeInv, IntervalsPaid, TypedCounters
  <2>3. \A t \in Task :
          /\ task[t].kind \in {"free", "delta", "full", "initial", "event"}
          /\ task[t].pc \in {"start", "peers", "remote"}
          /\ task[t].got \in Update /\ task[t].upd \in Update
          /\ task[t].conn \in 0 .. MaxConnects
    BY <2>1 DEF TypeInv, TypedCall
  <2>4. QED
    BY <2>1, <2>2, <2>3, TruthVersion
    DEF TypeInv, TypedData, TypedCounters, Flags, Shows, TypeOK
<1>2. QED  BY <1>1, TypeInit, TypeStep, PTL DEF Spec

=============================================================================
