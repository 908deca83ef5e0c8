---------------------- MODULE ContainerLifecycleProofs ----------------------
(***************************************************************************)
(* Proofs about ContainerLifecycle and its composition with cleanup, for   *)
(* any finite set of containers, any number of concurrent requests and any *)
(* bounds.                                                                 *)
(***************************************************************************)
EXTENDS ControllerShutdown, FiniteSetTheorems, SequenceTheorems, TLAPS

\* The least element SelectInSeq looks for exists.
LEMMA LeastIndex ==
  ASSUME NEW I \in SUBSET Nat, I # {}
  PROVE  Min(I) \in I
<1>1. \E x \in I : \A y \in I : ~ (<<y, x>> \in OpToRel(<, Nat))
  BY NatLessThanWellFounded, WFMin
<1>2. \A x, y \in Nat : ~ (<<y, x>> \in OpToRel(<, Nat)) => ~ (y < x)
  BY Zenon DEF OpToRel
<1>3. PICK x \in I : \A y \in I : ~ (y < x)
  BY <1>1, <1>2
<1>4. \A y \in I : x =< y
  BY <1>3
<1>5. QED  BY <1>4 DEF Min

\* What removeValue returns is a list of the same kind of elements.
LEMMA RemoveValueType ==
  ASSUME NEW S, NEW s \in Seq(S), NEW v
  PROVE  RemoveValue(s, v) \in Seq(S)
<1>1. CASE \E i \in 1 .. Len(s) : s[i] = v
  <2> DEFINE k == SelectInSeq(s, LAMBDA x : x = v)
  <2> DEFINE I == {i \in 1 .. Len(s) : s[i] = v}
  <2>1. k \in 1 .. Len(s)
    <3>1. I \in SUBSET Nat /\ I # {}  BY <1>1
    <3>2. Min(I) \in I  BY <3>1, LeastIndex
    <3>3. k = Min(I)  BY <3>1 DEF SelectInSeq
    <3>4. QED  BY <3>2, <3>3
  <2> HIDE DEF k
  <2>2. Len(s) \in Nat /\ \A i \in 1 .. Len(s) : s[i] \in S
    BY ElementOfSeq
  <2>3. SubSeq(s, 1, k - 1) \in Seq(S) /\ SubSeq(s, k + 1, Len(s)) \in Seq(S)
    <3>1. \A i \in 1 .. k - 1 : s[i] \in S  BY <2>1, <2>2
    <3>2. \A i \in k + 1 .. Len(s) : s[i] \in S  BY <2>1, <2>2
    <3>3. k - 1 \in Int /\ k + 1 \in Int /\ 1 \in Int /\ Len(s) \in Int  BY <2>1, <2>2
    <3>4. QED  BY <3>1, <3>2, <3>3, SubSeqProperties
  <2>4. RemoveAt(s, k) \in Seq(S)
    BY <2>3, ConcatProperties DEF RemoveAt
  <2>5. QED  BY <1>1, <2>4 DEF RemoveValue, RemoveFirst, k
<1>2. CASE ~ \E i \in 1 .. Len(s) : s[i] = v
  BY <1>2 DEF RemoveValue, RemoveFirst
<1>3. QED  BY <1>1, <1>2
-----------------------------------------------------------------------------
(* A list of containers is a list of ids.                                  *)

LEMMA ListingsType ==
  ASSUME NEW S \in SUBSET Container
  PROVE  Listings(S) \subseteq Seq(Id)
<1> DEFINE T == {Short(c) : c \in S}
           f == [c \in S |-> Short(c)]
<1>1. IsFiniteSet(S)
  BY ContainerAssumption, FS_Subset
<1>2. f \in Surjection(S, T)
  BY DEF Surjection
<1>3. Cardinality(T) \in Nat
  BY <1>1, <1>2, FS_Surjection, FS_CardinalityType
<1>4. T \subseteq Id
  BY DEF Short, Id
<1>5. [1 .. Cardinality(T) -> T] \subseteq [1 .. Cardinality(T) -> Id]
  BY <1>4
<1>6. [1 .. Cardinality(T) -> Id] \subseteq Seq(Id)
  BY <1>3, SeqDef
<1>7. QED  BY <1>5, <1>6 DEF Listings, SetToSeqs

\* The id a request works on is one the program was given, from its first
\* step on a container to its last.
RequestsNamed ==
  \A h \in Handler : req[h].pc \notin {"idle", "next"} => req[h].id \in Id

\* The inductive invariant: the checked ones together, and RequestsNamed.
Tables ==
  /\ OrderOfLife /\ WatchedConn /\ NoLostSocket
  /\ ReaderClosesOnlyDead /\ FollowerReachable

IInv == TypeOK /\ RequestsNamed /\ Tables

LEMMA IdleType == Idle \in Request /\ Idle.pc = "idle"
  BY DEF Idle, Request, RequestPC

-----------------------------------------------------------------------------
LEMMA TypeInit == Init => TypeOK /\ RequestsNamed
<1> SUFFICES ASSUME Init PROVE TypeOK /\ RequestsNamed
  OBVIOUS
<1>1. running \in Seq(Id)
  BY ListingsType DEF Init, InState
<1>2. QED
  BY <1>1, IdleType DEF Init, TypeOK, RequestsNamed, InState, Dialling, Everywhere,
     DockerState, SockState, HandshakePC, ReaderPC, StreamPC

\* A request that takes a step stays a request.
LEMMA RequestUpdate ==
  ASSUME TypeOK, RequestsNamed, NEW h \in Handler, NEW r \in Request,
         r.pc \notin {"idle", "next"} => r.id \in Id,
         req' = [req EXCEPT ![h] = r]
  PROVE  req' \in [Handler -> Request] /\ RequestsNamed'
  BY DEF TypeOK, RequestsNamed

LEMMA GotoType ==
  ASSUME TypeOK, RequestsNamed, NEW h \in Handler, NEW pc \in RequestPC,
         req[h].id \in Id, Goto(h, pc)
  PROVE  req' \in [Handler -> Request] /\ RequestsNamed'
<1> DEFINE r == [req[h] EXCEPT !.pc = pc]
<1>1. req[h] \in Request
  BY DEF TypeOK
<1>2. r \in Request /\ r.id \in Id
  BY <1>1 DEF Request
<1>3. req' = [req EXCEPT ![h] = r]
  BY DEF Goto
<1>4. QED  BY <1>2, <1>3, RequestUpdate

LEMMA ReturnType ==
  ASSUME TypeOK, RequestsNamed, NEW h \in Handler, Return(h)
  PROVE  req' \in [Handler -> Request] /\ RequestsNamed'
  BY IdleType, RequestUpdate DEF Return

LEMMA LeaveType ==
  ASSUME TypeOK, RequestsNamed, NEW h \in Handler, NEW failed \in BOOLEAN, Leave(h, failed)
  PROVE  req' \in [Handler -> Request] /\ RequestsNamed'
<1>1. CASE req[h].op = "stopall"
  <2> DEFINE r == [req[h] EXCEPT !.pc = "next", !.errors = @ \/ failed]
  <2>1. req[h] \in Request
    BY DEF TypeOK
  <2>2. r \in Request /\ r.pc = "next"
    BY <2>1 DEF Request, RequestPC
  <2>3. req' = [req EXCEPT ![h] = r]
    BY <1>1 DEF Leave
  <2>4. QED  BY <2>2, <2>3, RequestUpdate
<1>2. CASE req[h].op # "stopall"
  BY <1>2, ReturnType DEF Leave
<1>3. QED  BY <1>1, <1>2

LEMMA TypeStep ==
  ASSUME TypeOK, RequestsNamed, [Next]_vars
  PROVE  TypeOK' /\ RequestsNamed'
<1> USE DEF dockerVars, connVars, logVars
<1>1. CASE Restart
  <2>1. running' \in Seq(Id)
    BY <1>1, ListingsType DEF Restart, InState
  <2>2. QED
    BY <1>1, <2>1, IdleType DEF Restart, TypeOK, RequestsNamed, InState, Dialling,
       Everywhere, SockState, HandshakePC, ReaderPC, StreamPC
<1>2. ASSUME NEW c \in Container,
             ContainerDies(c) \/ CreateStart(c) \/ CreateFails(c)
             \/ CreateFinish(c) \/ CreateAborts(c)
      PROVE  TypeOK' /\ RequestsNamed'
  BY <1>2 DEF ContainerDies, CreateStart, CreateFails, CreateFinish, CreateAborts, Severed,
     TypeOK, RequestsNamed, DockerState, SockState, HandshakePC, StreamPC
<1>3. ASSUME NEW c \in Container, Dial(c) \/ Attempt(c) \/ Deadline(c)
      PROVE  TypeOK' /\ RequestsNamed'
  BY <1>3 DEF Dial, Attempt, ReadInitial, ReadReply, AttemptFails, StartReader, Deadline,
     GiveUp, StopAfterFailure, TypeOK, RequestsNamed, SockState, HandshakePC, ReaderPC
<1>4. ASSUME NEW c \in Container, Reader(c)
      PROVE  TypeOK' /\ RequestsNamed'
  <2>1. CASE ReaderFails(c)
    BY <2>1 DEF ReaderFails, TypeOK, RequestsNamed, ReaderPC
  <2>2. CASE ReaderCloses(c)
    BY <2>2 DEF ReaderCloses, CloseConn, TypeOK, RequestsNamed, SockState, ReaderPC
  <2>3. CASE ReaderUnlists(c)
    <3>1. running' \in Seq(Id)
      BY <2>3, RemoveValueType DEF ReaderUnlists, TypeOK
    <3>2. QED  BY <2>3, <3>1 DEF ReaderUnlists, TypeOK, RequestsNamed, ReaderPC
  <2>4. QED  BY <1>4, <2>1, <2>2, <2>3 DEF Reader
<1>5. ASSUME NEW c \in Container, Streamer(c)
      PROVE  TypeOK' /\ RequestsNamed'
  BY <1>5 DEF Streamer, RegisterStreamer, OpenLogs, StopFollowing, TypeOK, RequestsNamed,
     StreamPC
<1>6. ASSUME NEW h \in Handler, NEW id \in Id, Start(h, id) \/ Stop(h, id)
      PROVE  TypeOK' /\ RequestsNamed'
  <2>1. CASE Start(h, id)
    <3> DEFINE r == [Idle EXCEPT !.op = "start", !.pc = "append", !.id = id]
    <3>1. r \in Request /\ r.id \in Id
      BY DEF Idle, Request, RequestPC
    <3>2. req' \in [Handler -> Request] /\ RequestsNamed'
      BY <2>1, <3>1, RequestUpdate DEF Start, Begin
    <3>3. QED  BY <2>1, <3>2 DEF Start, TypeOK, DockerState
  <2>2. CASE Stop(h, id)
    <3> DEFINE first == IF docker[id[1]] = "running" THEN "kill" ELSE "streamer"
               r == [Idle EXCEPT !.op = "stop", !.id = id, !.pc = first]
    <3>1. r \in Request /\ r.id \in Id
      BY DEF Idle, Request, RequestPC
    <3>2. req' \in [Handler -> Request] /\ RequestsNamed'
      BY <2>2, <3>1, RequestUpdate DEF Stop, Begin
    <3>3. QED  BY <2>2, <3>2 DEF Stop, TypeOK
  <2>3. QED  BY <1>6, <2>1, <2>2
<1>7. ASSUME NEW h \in Handler, StopAll(h)
      PROVE  TypeOK' /\ RequestsNamed'
  BY <1>7 DEF StopAll, Begin, Idle, Request, RequestPC, ManagedNow, InState, TypeOK,
     RequestsNamed
<1>8. ASSUME NEW h \in Handler, NEW c \in Container, Command(h, c)
      PROVE  TypeOK' /\ RequestsNamed'
  BY <1>8 DEF Command, Begin, Idle, Request, RequestPC, Id, Short, TypeOK, RequestsNamed
<1>9. ASSUME NEW h \in Handler, Proceed(h)
      PROVE  TypeOK' /\ RequestsNamed'
  <2>0. req[h] \in Request /\ (req[h].pc \notin {"idle", "next"} => req[h].id \in Id)
    BY DEF TypeOK, RequestsNamed
  <2>1. CASE AppendRunning(h)
    BY <2>0, <2>1, ReturnType DEF AppendRunning, TypeOK
  <2>2. CASE NextContainer(h)
    <3>1. ASSUME NEW c \in req[h].todo,
                 req' = [req EXCEPT ![h].todo = @ \ {c}, ![h].id = Full(c),
                           ![h].pc = IF c \in req[h].live THEN "kill" ELSE "remove"]
          PROVE  req' \in [Handler -> Request] /\ RequestsNamed'
      <4> DEFINE first == IF c \in req[h].live THEN "kill" ELSE "remove"
                 r == [req[h] EXCEPT !.todo = @ \ {c}, !.id = Full(c), !.pc = first]
      <4>1. c \in Container /\ Full(c) \in Id
        BY <2>0 DEF Request, Full, Id
      <4>2. r \in Request /\ r.id \in Id
        BY <2>0, <4>1 DEF Request, RequestPC
      <4>3. req' = [req EXCEPT ![h] = r]
        BY <3>1
      <4>4. QED  BY <4>2, <4>3, RequestUpdate
    <3>2. req' \in [Handler -> Request] /\ RequestsNamed'
      BY <2>2, <3>1, ReturnType DEF NextContainer
    <3>3. QED  BY <2>2, <3>2 DEF NextContainer, TypeOK
  <2>3. CASE Kill(h)
    <3>1. req' \in [Handler -> Request] /\ RequestsNamed'
      BY <2>0, <2>3, GotoType DEF Kill, RequestPC
    <3>2. QED  BY <2>3, <3>1 DEF Kill, Severed, TypeOK, DockerState, SockState
  <2>4. CASE KillFails(h)
    BY <2>4, LeaveType DEF KillFails, TypeOK
  <2>5. CASE RemoveFromDocker(h)
    <3> DEFINE r == [req[h] EXCEPT !.pc = "streamer", !.errors = TRUE]
    <3>1. r \in Request /\ r.id = req[h].id
      BY <2>0 DEF Request, RequestPC
    <3>2. Goto(h, "streamer") \/ req' = [req EXCEPT ![h] = r]
      BY <2>5 DEF RemoveFromDocker
    <3>3. req' \in [Handler -> Request] /\ RequestsNamed'
      BY <2>0, <2>5, <3>1, <3>2, GotoType, RequestUpdate DEF RemoveFromDocker, RequestPC
    <3>4. QED  BY <2>5, <3>3 DEF RemoveFromDocker, TypeOK, DockerState
  <2>6. CASE StopStreamer(h)
    <3> DEFINE next == IF req[h].op = "stopall" THEN Short(req[h].id[1]) ELSE req[h].id
               r == [req[h] EXCEPT !.pc = "conn", !.id = next]
    <3>1. next \in Id
      BY <2>0, <2>6 DEF StopStreamer, Short, Id
    <3>2. r \in Request /\ r.id \in Id
      BY <2>0, <3>1 DEF Request, RequestPC
    <3>3. req' = [req EXCEPT ![h] = r]
      BY <2>6 DEF StopStreamer
    <3>4. req' \in [Handler -> Request] /\ RequestsNamed'
      BY <3>2, <3>3, RequestUpdate
    <3>5. QED  BY <2>6, <3>4 DEF StopStreamer, TypeOK
  <2>7. CASE CloseStopped(h)
    <3>1. req' \in [Handler -> Request] /\ RequestsNamed'
      BY <2>0, <2>7, GotoType DEF CloseStopped, RequestPC
    <3>2. QED  BY <2>7, <3>1 DEF CloseStopped, CloseConn, TypeOK, SockState
  <2>8. CASE Unlist(h)
    <3>1. running' \in Seq(Id)
      BY <2>8, RemoveValueType DEF Unlist, TypeOK
    <3>2. QED  BY <2>8, <3>1, LeaveType DEF Unlist, TypeOK
  <2>9. CASE Written(h)
    BY <2>9, ReturnType DEF Written, TypeOK
  <2>10. CASE WriteFails(h)
    BY <2>10, ReturnType DEF WriteFails, TypeOK, SockState
  <2>11. QED
    BY <1>9, <2>1, <2>2, <2>3, <2>4, <2>5, <2>6, <2>7, <2>8, <2>9, <2>10 DEF Proceed
<1>10. CASE UNCHANGED vars
  BY <1>10 DEF vars, TypeOK, RequestsNamed
<1>11. QED
  BY <1>1, <1>2, <1>3, <1>4, <1>5, <1>6, <1>7, <1>8, <1>9, <1>10 DEF Next
-----------------------------------------------------------------------------
LEMMA TablesInit == Init => Tables
  BY DEF Init, Tables, OrderOfLife, WatchedConn, NoLostSocket, ReaderClosesOnlyDead,
     FollowerReachable, Everywhere, Dialling, InState

LEMMA TablesStep ==
  ASSUME IInv, [Next]_vars
  PROVE  Tables'
<1> USE DEF IInv, TypeOK, Tables, OrderOfLife, WatchedConn, NoLostSocket,
            ReaderClosesOnlyDead, FollowerReachable, dockerVars, connVars, logVars
<1>1. CASE Restart
  BY <1>1 DEF Restart, Everywhere, Dialling, InState
<1>2. ASSUME NEW c \in Container, ContainerDies(c)  PROVE Tables'
  BY <1>2 DEF ContainerDies, Severed
<1>3. ASSUME NEW c \in Container, CreateStart(c)  PROVE Tables'
  BY <1>3 DEF CreateStart
<1>4. ASSUME NEW c \in Container, CreateFails(c)  PROVE Tables'
  BY <1>4 DEF CreateFails
<1>5. ASSUME NEW c \in Container, CreateFinish(c)  PROVE Tables'
  BY <1>5 DEF CreateFinish
<1>6. ASSUME NEW c \in Container, CreateAborts(c)  PROVE Tables'
  BY <1>6 DEF CreateAborts
<1>7. ASSUME NEW c \in Container, Dial(c)  PROVE Tables'
  BY <1>7 DEF Dial
<1>8. ASSUME NEW c \in Container, ReadInitial(c)  PROVE Tables'
  BY <1>8 DEF ReadInitial
<1>9. ASSUME NEW c \in Container, ReadReply(c)  PROVE Tables'
  BY <1>9 DEF ReadReply
<1>10. ASSUME NEW c \in Container, AttemptFails(c)  PROVE Tables'
  BY <1>10 DEF AttemptFails
<1>11. ASSUME NEW c \in Container, StartReader(c)  PROVE Tables'
  BY <1>11 DEF StartReader
<1>12. ASSUME NEW c \in Container, GiveUp(c)  PROVE Tables'
  BY <1>12 DEF GiveUp
<1>13. ASSUME NEW c \in Container, StopAfterFailure(c)  PROVE Tables'
  BY <1>13 DEF StopAfterFailure
<1>14. ASSUME NEW c \in Container, ReaderFails(c)  PROVE Tables'
  BY <1>14 DEF ReaderFails
<1>15. ASSUME NEW c \in Container, ReaderCloses(c)  PROVE Tables'
  BY <1>15 DEF ReaderCloses, CloseConn
<1>16. ASSUME NEW c \in Container, ReaderUnlists(c)  PROVE Tables'
  BY <1>16 DEF ReaderUnlists
<1>17. ASSUME NEW c \in Container, RegisterStreamer(c)  PROVE Tables'
  BY <1>17 DEF RegisterStreamer
<1>18. ASSUME NEW c \in Container, OpenLogs(c)  PROVE Tables'
  BY <1>18 DEF OpenLogs
<1>19. ASSUME NEW c \in Container, StopFollowing(c)  PROVE Tables'
  BY <1>19 DEF StopFollowing
<1>20. ASSUME NEW h \in Handler, NEW id \in Id, Start(h, id) \/ Stop(h, id)  PROVE Tables'
  BY <1>20 DEF Start, Stop
<1>21. ASSUME NEW h \in Handler, NEW c \in Container, Command(h, c)  PROVE Tables'
  BY <1>21 DEF Command
<1>22. ASSUME NEW h \in Handler, StopAll(h)  PROVE Tables'
  BY <1>22 DEF StopAll
<1>23. ASSUME NEW h \in Handler, AppendRunning(h)  PROVE Tables'
  BY <1>23 DEF AppendRunning
<1>24. ASSUME NEW h \in Handler, NextContainer(h)  PROVE Tables'
  BY <1>24 DEF NextContainer
<1>25. ASSUME NEW h \in Handler, Kill(h)  PROVE Tables'
  BY <1>25 DEF Kill, Severed
<1>26. ASSUME NEW h \in Handler, KillFails(h)  PROVE Tables'
  BY <1>26 DEF KillFails
<1>27. ASSUME NEW h \in Handler, RemoveFromDocker(h)  PROVE Tables'
  BY <1>27 DEF RemoveFromDocker
<1>28. ASSUME NEW h \in Handler, StopStreamer(h)  PROVE Tables'
  BY <1>28 DEF StopStreamer
<1>29. ASSUME NEW h \in Handler, CloseStopped(h)  PROVE Tables'
  BY <1>29 DEF CloseStopped, CloseConn
<1>30. ASSUME NEW h \in Handler, Unlist(h)  PROVE Tables'
  BY <1>30 DEF Unlist
<1>31. ASSUME NEW h \in Handler, Written(h)  PROVE Tables'
  BY <1>31 DEF Written
<1>32. ASSUME NEW h \in Handler, WriteFails(h)  PROVE Tables'
  BY <1>32 DEF WriteFails
<1>33. CASE UNCHANGED vars
  BY <1>33 DEF vars
<1>34. QED
  BY <1>1, <1>2, <1>3, <1>4, <1>5, <1>6, <1>7, <1>8, <1>9, <1>10, <1>11,
     <1>12, <1>13, <1>14, <1>15, <1>16, <1>17, <1>18, <1>19, <1>20, <1>21,
     <1>22, <1>23, <1>24, <1>25, <1>26, <1>27, <1>28, <1>29, <1>30, <1>31,
     <1>32, <1>33
     DEF Next, Attempt, Deadline, Reader, Streamer, Proceed

-----------------------------------------------------------------------------
(* The invariants hold in every reachable state.                           *)

\* Everything the three tables are relied on for holds together, because each
\* conjunct needs the others to survive a step.
THEOREM Invariance == Spec => []IInv
<1>1. Init => IInv
  BY TypeInit, TablesInit DEF IInv
<1>2. IInv /\ [Next]_vars => IInv'
  BY TypeStep, TablesStep DEF IInv
<1>3. QED
  BY <1>1, <1>2, PTL DEF Spec

\* The handlers keep every table to ids of their own kind.
THEOREM TypeCorrectness == Spec => []TypeOK
<1>1. IInv => TypeOK
  BY DEF IInv
<1>2. QED  BY <1>1, Invariance, PTL

\* One creation, one handshake and one reader for each container of a process.
THEOREM LifeIsOrdered == Spec => []OrderOfLife
<1>1. IInv => OrderOfLife
  BY DEF IInv, Tables
<1>2. QED  BY <1>1, Invariance, PTL

\* No entry of containerConns is left without a goroutine to remove it.
THEOREM ConnsAreWatched == Spec => []WatchedConn
<1>1. IInv => WatchedConn
  BY DEF IInv, Tables
<1>2. QED  BY <1>1, Invariance, PTL

\* No unclosed socket is out of the reach of both handshake and table.
THEOREM SocketsAreKept == Spec => []NoLostSocket
<1>1. IInv => NoLostSocket
  BY DEF IInv, Tables
<1>2. QED  BY <1>1, Invariance, PTL

\* The deferred close of a reader never finds a live connection.
THEOREM ReaderClosesDead == Spec => []ReaderClosesOnlyDead
<1>1. IInv => ReaderClosesOnlyDead
  BY DEF IInv, Tables
<1>2. QED  BY <1>1, Invariance, PTL

\* A log follower can be told to stop until it has been told.
THEOREM FollowersAreReachable == Spec => []FollowerReachable
<1>1. IInv => FollowerReachable
  BY DEF IInv, Tables
<1>2. QED  BY <1>1, Invariance, PTL

-----------------------------------------------------------------------------
(* The controller implements the registry.                                 *)

\* A step that leaves connections, sockets and handshakes alone.
LEMMA EntryUnmoved ==
  ASSUME conns' = conns, sock' = sock, hs' = hs
  PROVE  entry' = entry
  BY DEF entry

\* A step that moves one entry is an EXCEPT.
LEMMA EntryOfOne ==
  ASSUME NEW c \in Container, \A d \in Container \ {c} : entry'[d] = entry[d]
  PROVE  entry' = [entry EXCEPT ![c] = entry'[c]]
  BY DEF entry

\* CloseConn(id) has to do with one container only, and leaves it "gone".
LEMMA CloseConnEntry ==
  ASSUME IInv, NEW id, CloseConn(id), hs' = hs
  PROVE  [Registry!Next]_entry
<1>1. CASE \E c \in conns : Short(c) = id
  <2>1. PICK c \in conns : Short(c) = id
    BY <1>1
  <2>2. c \in Container /\ \A d \in Container : Short(d) = id <=> d = c
    BY <2>1 DEF IInv, TypeOK, Short
  <2>3. \A d \in Container \ {c} : entry'[d] = entry[d]
    BY <2>2 DEF CloseConn, entry, IInv, TypeOK
  <2>4. hs[c] \in {"announce", "done"}
    BY <2>1, <2>2 DEF IInv, Tables, WatchedConn, OrderOfLife
  <2>5. entry[c] \in {"usable", "broken"} /\ entry'[c] = "gone"
    BY <2>1, <2>2, <2>4 DEF CloseConn, entry
  <2>6. entry' = [entry EXCEPT ![c] = "gone"]
    BY <2>2, <2>3, <2>5, EntryOfOne
  <2>7. Registry!Closes(c) \/ Registry!Reaps(c)
    BY <2>5, <2>6 DEF Registry!Closes, Registry!Reaps, Registry!Becomes
  <2>8. QED  BY <2>2, <2>7 DEF Registry!Next
<1>2. CASE ~ \E c \in conns : Short(c) = id
  <2>1. conns' = conns /\ sock' = sock
    BY <1>2 DEF CloseConn, IInv, TypeOK
  <2>2. QED  BY <2>1, EntryUnmoved
<1>3. QED  BY <1>1, <1>2

\* The end of a socket breaks at most one entry.
LEMMA SocketEntry ==
  ASSUME IInv, NEW c \in Container, NEW s \in {"dead", "closed"}, conns' = conns, hs' = hs,
         sock' = [sock EXCEPT ![c] = s] \/ sock' = sock
  PROVE  [Registry!Next]_entry
<1>1. CASE sock' = sock
  BY <1>1, EntryUnmoved
<1>2. CASE sock' = [sock EXCEPT ![c] = s]
  <2>1. \A d \in Container \ {c} : entry'[d] = entry[d]
    BY <1>2 DEF entry, IInv, TypeOK
  <2>2. entry' = [entry EXCEPT ![c] = entry'[c]]
    BY <2>1, EntryOfOne
  <2>3. entry'[c] = entry[c] \/ (entry[c] = "usable" /\ entry'[c] = "broken")
    BY <1>2 DEF entry, IInv, TypeOK
  <2>4. CASE entry'[c] = entry[c]
    BY <2>2, <2>4 DEF entry
  <2>5. CASE entry[c] = "usable" /\ entry'[c] = "broken"
    <3>1. Registry!Breaks(c)
      BY <2>2, <2>5 DEF Registry!Breaks, Registry!Becomes
    <3>2. QED  BY <3>1 DEF Registry!Next
  <2>6. QED  BY <2>3, <2>4, <2>5
<1>3. QED  BY <1>1, <1>2

LEMMA RegistryInit == Init => Registry!Init
  BY DEF Init, Everywhere, Dialling, entry, Registry!Init, Registry!Fresh

\* Every step of the controller is one of the registry, or a stutter.
LEMMA RegistryStep ==
  ASSUME IInv, [Next]_vars
  PROVE  [Registry!Next]_entry
<1> USE DEF dockerVars, connVars, logVars
<1>1. CASE Restart
  <2>1. entry' = Registry!Fresh
    BY <1>1 DEF Restart, Everywhere, Dialling, entry, Registry!Fresh
  <2>2. QED  BY <2>1 DEF Registry!Next, Registry!Restarts
<1>2. ASSUME NEW c \in Container, ContainerDies(c)  PROVE [Registry!Next]_entry
  <2>1. sock' = [sock EXCEPT ![c] = "dead"] \/ sock' = sock
    BY <1>2 DEF ContainerDies, Severed, IInv, TypeOK
  <2>2. QED  BY <1>2, <2>1, SocketEntry DEF ContainerDies
<1>3. ASSUME NEW c \in Container,
             \/ CreateStart(c) \/ CreateFails(c) \/ CreateAborts(c)
             \/ ReaderFails(c) \/ ReaderUnlists(c) \/ Streamer(c)
      PROVE  entry' = entry
  BY <1>3, EntryUnmoved DEF CreateStart, CreateFails, CreateAborts, ReaderFails,
     ReaderUnlists, Streamer, RegisterStreamer, OpenLogs, StopFollowing
<1>4. ASSUME NEW c \in Container, CreateFinish(c)  PROVE entry' = entry
  <2>1. hs[c] = "none" /\ reader[c] = "none" /\ hs' = [hs EXCEPT ![c] = "dial"]
    BY <1>4 DEF CreateFinish, IInv, TypeOK, Tables, OrderOfLife, ReaderPC
  <2>2. QED  BY <1>4, <2>1 DEF CreateFinish, entry, IInv, TypeOK
<1>5. ASSUME NEW c \in Container, Dial(c) \/ ReadInitial(c) \/ AttemptFails(c)
      PROVE  entry' = entry
  <2>1. hs[c] \in {"dial", "initial", "reply"} /\ c \notin conns
    BY <1>5 DEF Dial, ReadInitial, AttemptFails, IInv, TypeOK, Tables, OrderOfLife,
       WatchedConn
  <2>2. \A d \in Container \ {c} : hs'[d] = hs[d] /\ sock'[d] = sock[d]
    BY <1>5 DEF Dial, ReadInitial, AttemptFails, IInv, TypeOK
  <2>3. conns' = conns /\ hs'[c] \in {"dial", "initial", "reply"}
    BY <1>5 DEF Dial, ReadInitial, AttemptFails, IInv, TypeOK
  <2>4. QED  BY <2>1, <2>2, <2>3 DEF entry
<1>6. ASSUME NEW c \in Container, ReadReply(c)  PROVE [Registry!Next]_entry
  <2>1. \A d \in Container \ {c} : entry'[d] = entry[d]
    BY <1>6 DEF ReadReply, entry, IInv, TypeOK
  <2>2. entry[c] = "absent" /\ entry'[c] \in {"usable", "broken"}
    BY <1>6 DEF ReadReply, entry, IInv, TypeOK, Tables, WatchedConn, OrderOfLife
  <2>3. entry' = [entry EXCEPT ![c] = entry'[c]]
    BY <2>1, EntryOfOne
  <2>4. Registry!Connects(c)
    BY <2>2, <2>3 DEF Registry!Connects, Registry!Becomes
  <2>5. QED  BY <2>4 DEF Registry!Next
<1>7. ASSUME NEW c \in Container, StartReader(c) \/ StopAfterFailure(c)  PROVE entry' = entry
  <2>1. /\ hs[c] \in {"announce", "stopping"} /\ hs' = [hs EXCEPT ![c] = "done"]
        /\ conns' = conns /\ sock' = sock
    BY <1>7 DEF StartReader, StopAfterFailure
  <2>2. QED  BY <2>1 DEF entry, IInv, TypeOK
<1>8. ASSUME NEW c \in Container, GiveUp(c)  PROVE [Registry!Next]_entry
  <2>1. hs[c] = "dial" /\ c \notin conns /\ conns' = conns /\ sock' = sock
    BY <1>8 DEF GiveUp, IInv, TypeOK, Tables, WatchedConn, OrderOfLife
  <2>2. \A d \in Container \ {c} : entry'[d] = entry[d]
    BY <1>8 DEF GiveUp, entry, IInv, TypeOK
  <2>3. hs'[c] \in {"done", "stopping"}
    BY <1>8 DEF GiveUp, IInv, TypeOK
  <2>4. entry[c] = "absent" /\ entry'[c] = "gone"
    BY <2>1, <2>3 DEF entry
  <2>5. entry' = [entry EXCEPT ![c] = "gone"]
    BY <2>2, <2>4, EntryOfOne
  <2>6. Registry!Misses(c)
    BY <2>4, <2>5 DEF Registry!Misses, Registry!Becomes
  <2>7. QED  BY <2>6 DEF Registry!Next
<1>9. ASSUME NEW c \in Container, ReaderCloses(c)  PROVE [Registry!Next]_entry
  BY <1>9, CloseConnEntry DEF ReaderCloses
<1>10. ASSUME NEW h \in Handler,
              \/ \E id \in Id : Start(h, id) \/ Stop(h, id)
              \/ StopAll(h) \/ (\E c \in Container : Command(h, c))
              \/ AppendRunning(h) \/ NextContainer(h) \/ KillFails(h) \/ RemoveFromDocker(h)
              \/ StopStreamer(h) \/ Unlist(h) \/ Written(h)
       PROVE  entry' = entry
  BY <1>10, EntryUnmoved DEF Start, Stop, StopAll, Command, AppendRunning, NextContainer,
     KillFails, RemoveFromDocker, StopStreamer, Unlist, Written
<1>11. ASSUME NEW h \in Handler, Kill(h)  PROVE [Registry!Next]_entry
  <2> DEFINE c == req[h].id[1]
  <2>1. c \in Container
    BY <1>11 DEF Kill, IInv, RequestsNamed, Id
  <2>2. sock' = [sock EXCEPT ![c] = "dead"] \/ sock' = sock
    BY <1>11, <2>1 DEF Kill, Severed, IInv, TypeOK
  <2>3. conns' = conns /\ hs' = hs
    BY <1>11 DEF Kill
  <2> HIDE DEF c
  <2>4. QED  BY <2>1, <2>2, <2>3, SocketEntry
<1>12. ASSUME NEW h \in Handler, CloseStopped(h)  PROVE [Registry!Next]_entry
  BY <1>12, CloseConnEntry DEF CloseStopped
<1>13. ASSUME NEW h \in Handler, WriteFails(h)  PROVE [Registry!Next]_entry
  <2>1. req[h].id[1] \in Container
    BY <1>13 DEF WriteFails, IInv, RequestsNamed, Id
  <2>2. QED  BY <1>13, <2>1, SocketEntry DEF WriteFails
<1>14. CASE UNCHANGED vars
  BY <1>14, EntryUnmoved DEF vars
<1>15. QED
  BY <1>1, <1>2, <1>3, <1>4, <1>5, <1>6, <1>7, <1>8, <1>9, <1>10, <1>11, <1>12, <1>13, <1>14
     DEF Next, Attempt, Deadline, Reader, Proceed

\* The tables and goroutines keep the promise of ConnectionRegistry: a
\* container whose connection has been dropped, or whose handshake has failed,
\* is never connected again by the same controller process.
THEOREM RegistryImplemented == Spec => ImplementsRegistry
<1>1. Init => Registry!Init
  BY RegistryInit
<1>2. IInv /\ [Next]_vars => [Registry!Next]_entry
  BY RegistryStep
<1>3. QED
  BY <1>1, <1>2, Invariance, PTL DEF Spec, ImplementsRegistry, Registry!Spec

-----------------------------------------------------------------------------
(* stopAllContainers.                                                      *)

\* A container it has listed and not collected an error for is still to do,
\* being dealt with, or gone.
StopAllProgress ==
  \A h \in Handler :
    req[h].op = "stopall" =>
      /\ req[h].pc \in {"next", "kill", "remove", "streamer", "conn", "unlist"}
      /\ ~req[h].errors =>
           \A c \in req[h].listed \ req[h].todo :
             docker[c] = "removed" \/ (req[h].pc \in {"kill", "remove"} /\ req[h].id = Full(c))

\* A removed container stays removed.
LEMMA RemovedForGood ==
  ASSUME TypeOK, [Next]_vars, NEW c \in Container, docker[c] = "removed"
  PROVE  docker'[c] = "removed"
  BY DEF TypeOK, Next, vars, dockerVars, Restart, ContainerDies, CreateStart,
     CreateFails, CreateFinish, CreateAborts, Dial, Attempt, ReadInitial, ReadReply,
     AttemptFails, StartReader, Deadline, GiveUp, StopAfterFailure, Reader, ReaderFails,
     ReaderCloses, ReaderUnlists, Streamer, RegisterStreamer, OpenLogs,
     StopFollowing, Start, Stop, StopAll, Command, Proceed, AppendRunning, NextContainer,
     Kill, KillFails, RemoveFromDocker, StopStreamer, CloseStopped, Unlist, Written,
     WriteFails

\* A request only moves by its own steps.
LEMMA OwnSteps ==
  ASSUME TypeOK, [Next]_vars, NEW h \in Handler, req'[h] # req[h]
  PROVE  \/ Restart
         \/ \E id \in Id : Start(h, id) \/ Stop(h, id)
         \/ StopAll(h) \/ Proceed(h)
         \/ \E c \in Container : Command(h, c)
<1>0. req \in [Handler -> Request]
  BY DEF TypeOK
<1>1. ASSUME NEW c \in Container,
             \/ ContainerDies(c)
             \/ CreateStart(c) \/ CreateFails(c) \/ CreateFinish(c) \/ CreateAborts(c)
             \/ Dial(c) \/ Attempt(c) \/ Deadline(c) \/ Reader(c) \/ Streamer(c)
      PROVE  req' = req
  BY <1>1 DEF ContainerDies, CreateStart, CreateFails, CreateFinish, CreateAborts, Dial,
     Attempt, ReadInitial, ReadReply, AttemptFails, StartReader, Deadline, GiveUp,
     StopAfterFailure, Reader, ReaderFails, ReaderCloses, ReaderUnlists, Streamer,
     RegisterStreamer, OpenLogs, StopFollowing
<1>2. ASSUME NEW g \in Handler, NEW id \in Id, g # h, Start(g, id) \/ Stop(g, id)
      PROVE  req'[h] = req[h]
  BY <1>0, <1>2 DEF Start, Stop, Begin
<1>3. ASSUME NEW g \in Handler, g # h, StopAll(g) \/ \E c \in Container : Command(g, c)
      PROVE  req'[h] = req[h]
  BY <1>0, <1>3 DEF StopAll, Command, Begin
<1>4. ASSUME NEW g \in Handler, g # h, Proceed(g)
      PROVE  req'[h] = req[h]
  BY <1>0, <1>4 DEF Proceed, AppendRunning, NextContainer, Kill, KillFails, RemoveFromDocker,
     StopStreamer, CloseStopped, Unlist, Written, WriteFails, Goto, Return, Leave
<1>5. UNCHANGED vars => req' = req
  BY DEF vars
<1>6. QED
  BY <1>1, <1>2, <1>3, <1>4, <1>5 DEF Next

\* What a request is after its first step.
LEMMA BeginOp ==
  ASSUME TypeOK, NEW h \in Handler
  PROVE  /\ \A id \in Id : Start(h, id) => req'[h].op = "start"
         /\ \A id \in Id : Stop(h, id) => req'[h].op = "stop"
         /\ \A c \in Container : Command(h, c) => req'[h].op = "command"
         /\ StopAll(h) => req'[h].op = "stopall"
         /\ Restart => req'[h].op = "none" /\ boots' # boots
<1>0. req \in [Handler -> Request] /\ boots \in Nat
  BY DEF TypeOK
<1>1. ASSUME NEW id \in Id, Start(h, id)  PROVE req'[h].op = "start"
  BY <1>0, <1>1 DEF Start, Begin, Idle
<1>2. ASSUME NEW id \in Id, Stop(h, id)  PROVE req'[h].op = "stop"
  <2> DEFINE first == IF docker[id[1]] = "running" THEN "kill" ELSE "streamer"
  <2>1. req' = [req EXCEPT ![h] = [Idle EXCEPT !.op = "stop", !.id = id, !.pc = first]]
    BY <1>2 DEF Stop, Begin
  <2> HIDE DEF first
  <2>2. QED  BY <1>0, <2>1 DEF Idle
<1>3. ASSUME NEW c \in Container, Command(h, c)  PROVE req'[h].op = "command"
  BY <1>0, <1>3 DEF Command, Begin, Idle
<1>4. StopAll(h) => req'[h].op = "stopall"
  BY <1>0 DEF StopAll, Begin, Idle
<1>5. Restart => req'[h].op = "none" /\ boots' # boots
  BY <1>0 DEF Restart, Idle
<1>6. QED  BY <1>1, <1>2, <1>3, <1>4, <1>5

LEMMA StopAllStep ==
  ASSUME TypeOK, StopAllProgress, [Next]_vars
  PROVE  StopAllProgress'
<1> SUFFICES ASSUME NEW h \in Handler, req'[h].op = "stopall"
             PROVE  /\ req'[h].pc \in {"next", "kill", "remove", "streamer", "conn", "unlist"}
                    /\ ~req'[h].errors =>
                         \A c \in req'[h].listed \ req'[h].todo :
                           \/ docker'[c] = "removed"
                           \/ req'[h].pc \in {"kill", "remove"} /\ req'[h].id = Full(c)
  BY DEF StopAllProgress
<1>0. req[h] \in Request /\ req \in [Handler -> Request]
  BY DEF TypeOK
<1>1. CASE req'[h] = req[h]
  BY <1>0, <1>1, RemovedForGood DEF StopAllProgress, Request
<1>2. CASE Restart \/ (\E id \in Id : Start(h, id) \/ Stop(h, id))
           \/ (\E c \in Container : Command(h, c))
  BY <1>2, BeginOp
<1>3. CASE StopAll(h)
  BY <1>0, <1>3 DEF StopAll, Begin, Idle
<1>4. CASE AppendRunning(h) \/ Written(h) \/ WriteFails(h)
  BY <1>0, <1>4 DEF AppendRunning, Written, WriteFails, Return, Idle
<1>5. CASE NextContainer(h)
  <2>1. ASSUME NEW c \in req[h].todo,
               req' = [req EXCEPT ![h].todo = @ \ {c}, ![h].id = Full(c),
                         ![h].pc = IF c \in req[h].live THEN "kill" ELSE "remove"]
        PROVE  /\ req'[h].pc \in {"kill", "remove"} /\ req'[h].id = Full(c)
               /\ req'[h].op = req[h].op /\ req'[h].errors = req[h].errors
               /\ req'[h].listed = req[h].listed /\ req'[h].todo = req[h].todo \ {c}
    <3> DEFINE first == IF c \in req[h].live THEN "kill" ELSE "remove"
    <3>1. first \in {"kill", "remove"}
      OBVIOUS
    <3>2. req' = [req EXCEPT ![h] = [req[h] EXCEPT !.todo = @ \ {c}, !.id = Full(c),
                                       !.pc = first]]
      BY <2>1
    <3> HIDE DEF first
    <3>3. QED  BY <1>0, <3>1, <3>2 DEF Request
  <2>2. \E c \in req[h].todo :
          req' = [req EXCEPT ![h].todo = @ \ {c}, ![h].id = Full(c),
                    ![h].pc = IF c \in req[h].live THEN "kill" ELSE "remove"]
    <3>1. ~ Return(h)
      BY <1>0 DEF Return, Idle
    <3>2. QED  BY <1>5, <3>1 DEF NextContainer
  <2>3. req[h].pc = "next" /\ docker' = docker
    BY <1>5 DEF NextContainer, dockerVars
  <2>4. QED  BY <2>1, <2>2, <2>3 DEF StopAllProgress
<1>6. CASE Kill(h)
  BY <1>0, <1>6, RemovedForGood DEF Kill, Goto, StopAllProgress, Request
<1>7. CASE KillFails(h)
  BY <1>0, <1>7 DEF KillFails, Leave, Return, Idle, Request
<1>8. CASE RemoveFromDocker(h)
  <2>1. req[h].op = "stopall" /\ req[h].pc = "remove"
    BY <1>0, <1>8 DEF RemoveFromDocker, Goto, Request
  <2>2. CASE docker[req[h].id[1]] = "exited" /\ Goto(h, "streamer")
             /\ docker' = [docker EXCEPT ![req[h].id[1]] = "removed"]
    <3>1. /\ req'[h].pc = "streamer" /\ req'[h].errors = req[h].errors
          /\ req'[h].listed = req[h].listed /\ req'[h].todo = req[h].todo
      BY <1>0, <2>2 DEF Goto, Request
    <3>2. ASSUME NEW c \in Container, req[h].id = Full(c)  PROVE docker'[c] = "removed"
      BY <2>2, <3>2 DEF Full, TypeOK
    <3>3. req[h].listed \subseteq Container
      BY <1>0 DEF Request
    <3>4. QED  BY <2>1, <3>1, <3>2, <3>3, RemovedForGood DEF StopAllProgress
  <2>3. CASE req' = [req EXCEPT ![h].pc = "streamer", ![h].errors = TRUE]
    BY <1>0, <2>3 DEF Request
  <2>4. QED  BY <1>8, <2>2, <2>3 DEF RemoveFromDocker
<1>9. CASE StopStreamer(h)
  BY <1>0, <1>9, RemovedForGood DEF StopStreamer, StopAllProgress, Request
<1>10. CASE CloseStopped(h)
  BY <1>0, <1>10, RemovedForGood DEF CloseStopped, Goto, StopAllProgress, Request
<1>11. CASE Unlist(h)
  BY <1>0, <1>11, RemovedForGood DEF Unlist, Leave, Return, Idle, StopAllProgress, Request
<1>12. QED
  BY <1>1, <1>2, <1>3, <1>4, <1>5, <1>6, <1>7, <1>8, <1>9, <1>10, <1>11, OwnSteps
     DEF Proceed

\* A stopall that answers without an error has removed all it listed.
THEOREM StopAllIsHonest == Spec => StopAllHonest
<1> DEFINE A == \A h \in Handler :
                  /\ req[h].op = "stopall" /\ req'[h].op = "none"
                  /\ boots' = boots /\ ~req[h].errors
                  => \A c \in req[h].listed : docker'[c] = "removed"
<1>1. Init => StopAllProgress
  BY DEF Init, StopAllProgress, Idle
<1>2. IInv /\ StopAllProgress /\ [Next]_vars => StopAllProgress'
  BY StopAllStep DEF IInv
<1>3. IInv /\ StopAllProgress /\ [Next]_vars => [A]_vars
  <2> SUFFICES ASSUME IInv, StopAllProgress, [Next]_vars, NEW h \in Handler,
                      req[h].op = "stopall", req'[h].op = "none",
                      boots' = boots, ~req[h].errors,
                      NEW c \in req[h].listed
               PROVE  docker'[c] = "removed"
    OBVIOUS
  <2>1. TypeOK /\ req[h] \in Request /\ req \in [Handler -> Request] /\ boots \in Nat
    BY DEF IInv, TypeOK
  <2>2. Proceed(h)
    BY <2>1, OwnSteps, BeginOp
  <2>3. req[h].pc = "next" /\ req[h].todo = {}
    <3>1. req[h].pc \in {"next", "kill", "remove", "streamer", "conn", "unlist"}
      BY DEF StopAllProgress
    <3>2. CASE NextContainer(h)
      <4>1. ASSUME NEW k \in req[h].todo,
                   req' = [req EXCEPT ![h].todo = @ \ {k}, ![h].id = Full(k),
                             ![h].pc = IF k \in req[h].live THEN "kill" ELSE "remove"]
            PROVE  FALSE
        <5> DEFINE first == IF k \in req[h].live THEN "kill" ELSE "remove"
        <5>1. req' = [req EXCEPT ![h] = [req[h] EXCEPT !.todo = @ \ {k}, !.id = Full(k),
                                           !.pc = first]]
          BY <4>1
        <5> HIDE DEF first
        <5>2. QED  BY <2>1, <5>1 DEF Request
      <4>2. QED  BY <3>2, <4>1 DEF NextContainer
    <3>3. CASE Kill(h)
      BY <2>1, <3>3 DEF Kill, Goto, Request
    <3>4. CASE RemoveFromDocker(h)
      BY <2>1, <3>4 DEF RemoveFromDocker, Goto, Request
    <3>5. CASE StopStreamer(h)
      BY <2>1, <3>5 DEF StopStreamer, Request
    <3>6. CASE CloseStopped(h)
      BY <2>1, <3>6 DEF CloseStopped, Goto, Request
    <3>7. CASE KillFails(h) \/ Unlist(h)
      BY <2>1, <3>7 DEF KillFails, Unlist, Leave, Request
    <3>8. CASE AppendRunning(h) \/ Written(h) \/ WriteFails(h)
      BY <3>1, <3>8 DEF AppendRunning, Written, WriteFails
    <3>9. QED
      BY <2>2, <3>2, <3>3, <3>4, <3>5, <3>6, <3>7, <3>8 DEF Proceed
  <2>4. docker[c] = "removed" /\ c \in Container
    BY <2>1, <2>3 DEF StopAllProgress, Request
  <2>5. QED  BY <2>1, <2>4, RemovedForGood
<1>4. QED
  BY <1>1, <1>2, <1>3, Invariance, PTL DEF Spec, StopAllHonest
-----------------------------------------------------------------------------
(***************************************************************************)
(* The composition with cleanup (ControllerShutdown): what the lifecycle   *)
(* keeps is also kept while cleanup closes, stops and removes under the    *)
(* requests that are still served.                                         *)
(***************************************************************************)

\* The variables of cleanup itself.  An index starts at 1, as the range does.
CleanupTypes ==
  /\ step \in {"off", "range", "visit", "unlist", "lock", "stop", "remove", "exited"}
  /\ bound \in Nat /\ index \in Nat \ {0} /\ lock \in BOOLEAN
  /\ array = <<>> \/ (Len(array) = 1 /\ array[1] \in Seq(Id))
  /\ current \in Id \cup {NoId}
  /\ targets \subseteq Id /\ asked \subseteq Id \cup {NoId}

SInv == IInv /\ CleanupTypes

\* What the loop reads is an id, or the zero value of a freed element.
LEMMA ArrayAtType ==
  ASSUME SInv
  PROVE  ArrayAt(index) \in Id \cup {NoId}
<1> DEFINE a == IF array = <<>> THEN running ELSE array[1]
<1>1. a \in Seq(Id)
  BY DEF SInv, IInv, TypeOK, CleanupTypes
<1>2. index \in Nat \ {0}
  BY DEF SInv, CleanupTypes
<1>3. index <= Len(a) => a[index] \in Id
  BY <1>1, <1>2, ElementOfSeq
<1>4. QED  BY <1>3 DEF ArrayAt

-----------------------------------------------------------------------------
(* cleanup and the tables.                                                 *)

\* A step of cleanup leaves the requests alone.
LEMMA RequestsKept ==
  ASSUME SInv, StopStreamers \/ Cleanup
  PROVE  req' = req /\ boots' = boots
  BY DEF Cleanup, StopStreamers, EnterLoop, Visit, UnlistVisited, LockRunning, StopVisited,
     RemoveVisited, Exit, vars

\* cleanup keeps the tables well formed ...
LEMMA CleanupTypeStep ==
  ASSUME SInv, StopStreamers \/ Cleanup
  PROVE  TypeOK' /\ RequestsNamed'
<1> USE DEF dockerVars, connVars, logVars
<1>1. RequestsNamed'
  BY RequestsKept DEF SInv, IInv, RequestsNamed
<1>2. CASE StopStreamers
  BY <1>1, <1>2 DEF StopStreamers, SInv, IInv, TypeOK
<1>3. CASE EnterLoop \/ LockRunning
  BY <1>1, <1>3 DEF EnterLoop, LockRunning, vars, SInv, IInv, TypeOK
<1>4. CASE Visit
  BY <1>1, <1>4 DEF Visit, CloseConn, SInv, IInv, TypeOK, SockState
<1>5. CASE UnlistVisited
  <2>1. running' \in Seq(Id)
    BY <1>5, RemoveValueType DEF UnlistVisited, SInv, IInv, TypeOK
  <2>2. QED  BY <1>1, <1>5, <2>1 DEF UnlistVisited, SInv, IInv, TypeOK
<1>6. CASE StopVisited
  BY <1>1, <1>6 DEF StopVisited, Severed, SInv, IInv, TypeOK, DockerState, SockState
<1>7. CASE RemoveVisited
  BY <1>1, <1>7 DEF RemoveVisited, SInv, IInv, TypeOK, DockerState
<1>8. CASE Exit
  BY <1>1, <1>8 DEF Exit, SInv, IInv, TypeOK
<1>9. QED  BY <1>2, <1>3, <1>4, <1>5, <1>6, <1>7, <1>8 DEF Cleanup

\* ... and consistent with the goroutines that serve them: it closes a
\* connection with its entry, and a channel with its.
LEMMA CleanupTablesStep ==
  ASSUME SInv, StopStreamers \/ Cleanup
  PROVE  Tables'
<1> USE DEF SInv, IInv, TypeOK, Tables, OrderOfLife, WatchedConn, NoLostSocket,
            ReaderClosesOnlyDead, FollowerReachable, dockerVars, connVars, logVars
<1>1. CASE StopStreamers
  BY <1>1 DEF StopStreamers
<1>2. CASE EnterLoop \/ LockRunning
  BY <1>2 DEF EnterLoop, LockRunning, vars
<1>3. CASE Visit
  BY <1>3 DEF Visit, CloseConn
<1>4. CASE UnlistVisited \/ Exit
  BY <1>4 DEF UnlistVisited, Exit
<1>5. CASE StopVisited
  BY <1>5 DEF StopVisited, Severed
<1>6. CASE RemoveVisited
  BY <1>6 DEF RemoveVisited
<1>7. QED  BY <1>1, <1>2, <1>3, <1>4, <1>5, <1>6 DEF Cleanup

-----------------------------------------------------------------------------
(* cleanup's own variables.                                                *)

LEMMA CleanupTypesStep ==
  ASSUME SInv, [ShutdownNext]_shutdownVars
  PROVE  CleanupTypes'
<1> USE DEF CleanupTypes
<1>1. CASE Serving
  <2>1. running \in Seq(Id)
    BY DEF SInv, IInv, TypeOK
  <2>2. array' = array \/ array' = <<running>>
    BY <1>1 DEF Serving, ArrayAfter
  <2>3. array' = <<>> \/ (Len(array') = 1 /\ array'[1] \in Seq(Id))
    BY <2>1, <2>2 DEF SInv
  <2>4. QED  BY <1>1, <2>3 DEF Serving, SInv
<1>2. CASE Reboot
  <2>1. lock' \in BOOLEAN
    BY <1>2, Zenon DEF Reboot
  <2>2. QED  BY <1>2, <2>1 DEF Reboot
<1>3. CASE StopStreamers \/ LockRunning \/ UnlistVisited \/ Exit
  BY <1>3 DEF SInv, StopStreamers, LockRunning, UnlistVisited, Exit
<1>4. CASE EnterLoop
  <2>1. Len(running) \in Nat /\ Elements(running) \subseteq Id
    BY ElementOfSeq DEF SInv, IInv, TypeOK, Elements
  <2>2. QED  BY <1>4, <2>1 DEF EnterLoop, SInv
<1>5. CASE Visit
  BY <1>5, ArrayAtType DEF Visit, SInv
<1>6. CASE StopVisited
  BY <1>6 DEF StopVisited, SInv
<1>7. CASE RemoveVisited
  <2>1. lock' \in BOOLEAN
    BY <1>7, Zenon DEF RemoveVisited
  <2>2. QED  BY <1>7, <2>1 DEF RemoveVisited, SInv
<1>8. CASE UNCHANGED shutdownVars
  BY <1>8 DEF shutdownVars, cleanupVars, SInv
<1>9. QED
  BY <1>1, <1>2, <1>3, <1>4, <1>5, <1>6, <1>7, <1>8 DEF ShutdownNext, Cleanup

-----------------------------------------------------------------------------
(* The composition.                                                        *)

\* Every other step is one of the lifecycle.
LEMMA OtherSteps ==
  ASSUME Serving \/ Reboot \/ UNCHANGED shutdownVars
  PROVE  [Next]_vars
  BY DEF Serving, Reboot, Next, shutdownVars

LEMMA ShutdownInitInv == ShutdownInit => SInv
<1> SUFFICES ASSUME ShutdownInit PROVE SInv
  OBVIOUS
<1>1. IInv
  BY TypeInit, TablesInit DEF ShutdownInit, IInv
<1>2. lock \in BOOLEAN
  BY Zenon DEF ShutdownInit, NotCleaning
<1>3. CleanupTypes
  BY <1>2 DEF ShutdownInit, NotCleaning, CleanupTypes
<1>4. QED  BY <1>1, <1>3 DEF SInv

LEMMA ShutdownStep ==
  ASSUME SInv, [ShutdownNext]_shutdownVars
  PROVE  SInv'
<1>1. CleanupTypes'
  BY CleanupTypesStep
<1>2. CASE StopStreamers \/ Cleanup
  BY <1>1, <1>2, CleanupTypeStep, CleanupTablesStep DEF SInv, IInv
<1>3. CASE Serving \/ Reboot \/ UNCHANGED shutdownVars
  BY <1>1, <1>3, OtherSteps, TypeStep, TablesStep DEF SInv, IInv
<1>4. QED  BY <1>2, <1>3 DEF ShutdownNext

\* The invariants of the lifecycle and the types of cleanup hold together in a
\* controller that is told to stop at any moment and goes on serving.
THEOREM ShutdownInvariance == ShutdownSpec => []SInv
<1>1. ShutdownInit => SInv
  BY ShutdownInitInv
<1>2. SInv /\ [ShutdownNext]_shutdownVars => SInv'
  BY ShutdownStep
<1>3. QED  BY <1>1, <1>2, PTL DEF ShutdownSpec

\* The type invariant: whatever cleanup reads from an array that is changed
\* under it is an id or a zeroed one.
THEOREM ShutdownTypeCorrectness == ShutdownSpec => []ShutdownTypeOK
<1>1. SInv => ShutdownTypeOK
  BY DEF SInv, IInv, CleanupTypes, ShutdownTypeOK
<1>2. QED  BY <1>1, ShutdownInvariance, PTL

\* Closing all channels at once, while stop requests close them one by one,
\* leaves no follower that nobody can stop.
THEOREM ShutdownFollowersReachable == ShutdownSpec => []FollowerReachable
<1>1. SInv => FollowerReachable
  BY DEF SInv, IInv, Tables
<1>2. QED  BY <1>1, ShutdownInvariance, PTL

\* No connection loses its watcher, no socket is lost, while cleanup closes
\* connections from a list that is out of date.
THEOREM ShutdownConnsWatched == ShutdownSpec => [](WatchedConn /\ NoLostSocket)
<1>1. SInv => WatchedConn /\ NoLostSocket
  BY DEF SInv, IInv, Tables
<1>2. QED  BY <1>1, ShutdownInvariance, PTL

-----------------------------------------------------------------------------
(* The registry.                                                           *)

LEMMA CleanupRegistryStep ==
  ASSUME SInv, StopStreamers \/ Cleanup
  PROVE  [Registry!Next]_entry
<1> USE DEF dockerVars, connVars, logVars, vars
<1>1. CASE StopStreamers \/ EnterLoop \/ LockRunning \/ UnlistVisited \/ RemoveVisited \/ Exit
  BY <1>1, EntryUnmoved DEF StopStreamers, EnterLoop, LockRunning, UnlistVisited,
     RemoveVisited, Exit
<1>2. CASE Visit
  <2>1. CloseConn(current') /\ hs' = hs /\ IInv
    BY <1>2 DEF Visit, SInv
  <2>2. QED  BY <2>1, CloseConnEntry
<1>3. CASE StopVisited
  <2>1. conns' = conns /\ hs' = hs /\ IInv
    BY <1>3 DEF StopVisited, SInv
  <2>2. CASE sock' = sock
    BY <2>1, <2>2, EntryUnmoved
  <2>3. ASSUME NEW c \in Container, sock' = Severed(c)
        PROVE  [Registry!Next]_entry
    <3>1. sock' = [sock EXCEPT ![c] = "dead"] \/ sock' = sock
      BY <2>1, <2>3 DEF Severed, IInv, TypeOK
    <3>2. QED  BY <2>1, <3>1, SocketEntry
  <2>4. QED  BY <1>3, <2>2, <2>3 DEF StopVisited
<1>4. QED  BY <1>1, <1>2, <1>3 DEF Cleanup

\* The controller keeps its promise about connections while it shuts down.
THEOREM ShutdownImplementsRegistry == ShutdownSpec => ImplementsRegistry
<1>1. ShutdownInit => Registry!Init
  BY RegistryInit DEF ShutdownInit
<1>2. SInv /\ [ShutdownNext]_shutdownVars => [Registry!Next]_entry
  BY CleanupRegistryStep, OtherSteps, RegistryStep DEF ShutdownNext, SInv
<1>3. QED
  BY <1>1, <1>2, ShutdownInvariance, PTL DEF ShutdownSpec, ImplementsRegistry, Registry!Spec
=============================================================================
