------------------------ MODULE GoStatusServerProofs ------------------------
(* Theorems about GoStatusServer, for any set of connections and messages. *)
EXTENDS GoStatusServer, TLAPS

-----------------------------------------------------------------------------
(* The inductive invariant.                                                *)

\* A message is only received as long as there is room to count it.
RoomToCount == cast["message"].pc = "storing" => count < MaxMessages

\* Who ranges over the clients, or writes to one of them, has locked them.
RangingHoldsLock ==
  \A b \in Caster : cast[b].pc \in {"range", "writing"} => mu = b

\* A broadcast that is inside WriteMessage is there for one connection.
WritingOne ==
  \A b \in Caster : \A c \in Conn :
    b \in writers[c] => /\ cast[b].pc = "writing"
                        /\ \A d \in Conn : b \in writers[d] => d = c

\* A connection is deleted before it is closed, or in the same step.
RegisteredNotClosed == \A c \in clients : sock[c] # "closed"
RegisteringNotClosed == \A c \in Conn : handler[c].pc = "register" => sock[c] # "closed"

\* A broadcast has only to do with connections that were registered.
TouchedRegistered ==
  \A b \in Caster : \A c \in cast[b].todo \cup cast[b].failed :
    handler[c].pc \notin {"none", "register"}

\* A write fails, and a handler leaves, only if the client has gone.
GoneOnly ==
  /\ \A b \in Caster : \A c \in cast[b].failed : sock[c] # "open"
  /\ \A c \in Conn : handler[c].pc = "leave" => sock[c] # "open"

Registry ==
  /\ ClientsAreAttended /\ RegisteredNotClosed /\ RegisteringNotClosed
  /\ TouchedRegistered /\ GoneOnly

Inv == TypeOK /\ RoomToCount /\ RangingHoldsLock /\ WritingOne /\ Registry

-----------------------------------------------------------------------------
(* Types.                                                                  *)

LEMMA Updates ==
  /\ NoUpdate \in Update
  /\ \A k \in 0..MaxMessages : \A n \in BOOLEAN : [count |-> k, named |-> n] \in Update
BY MaxMessagesAssumption DEF NoUpdate, Update

\* Every step keeps the types.
LEMMA TypeStep ==
  ASSUME Inv, [Next]_vars
  PROVE  TypeOK'
<1> USE DEF Inv, TypeOK, Handling, Casting, Caster
<1>1. CASE Dies
  <2>1. Unheard \in Handling /\ Idle \in Casting  BY Updates DEF Unheard, Idle
  <2>2. 0 \in 0..MaxMessages  BY MaxMessagesAssumption
  <2>3. QED  BY <1>1, <2>1, <2>2, Updates DEF Dies
<1>2. CASE UNCHANGED vars
  BY <1>2 DEF vars
<1>3. CASE Subscribe
  BY <1>3, Updates DEF Subscribe
<1>4. CASE Join
  BY <1>4, Updates DEF Join
<1>5. CASE Tick
  <2>1. PICK n \in NamedNow :
          cast' = [cast EXCEPT !["ticker"] =
                     [Idle EXCEPT !.pc = "lock", !.upd = [count |-> count, named |-> n]]]
    BY <1>5 DEF Tick
  <2>2. n \in BOOLEAN  BY <2>1 DEF NamedNow
  <2>3. [count |-> count, named |-> n] \in Update  BY <2>2, Updates
  <2>4. cast' \in [Caster -> Casting]  BY <2>1, <2>3 DEF Idle
  <2>5. QED  BY <1>5, <2>4 DEF Tick
<1>6. CASE Receive
  BY <1>6, Updates DEF Receive
<1>7. CASE Counts
  <2>1. PICK n \in NamedNow :
          cast' = [cast EXCEPT !["message"] =
                     [Idle EXCEPT !.pc = "lock", !.upd = [count |-> count', named |-> n]]]
    BY <1>7 DEF Counts
  <2>2. n \in BOOLEAN  BY <2>1 DEF NamedNow
  <2>3. count' \in 0..MaxMessages  BY <1>7, MaxMessagesAssumption DEF Counts, RoomToCount
  <2>4. [count |-> count', named |-> n] \in Update  BY <2>2, <2>3, Updates
  <2>5. cast' \in [Caster -> Casting]  BY <2>1, <2>4 DEF Idle
  <2>6. QED  BY <1>7, <2>3, <2>5 DEF Counts
<1>8. ASSUME NEW c \in Conn, Accept(c) PROVE TypeOK'
  BY <1>8, Updates DEF Accept, Goto
<1>9. ASSUME NEW c \in Conn, Register(c) PROVE TypeOK'
  BY <1>9, Updates DEF Register, Goto
<1>10. ASSUME NEW c \in Conn, Gather(c) PROVE TypeOK'
  <2>1. PICK n \in NamedNow :
          handler' = [handler EXCEPT ![c] =
                        [pc |-> "send", upd |-> [count |-> count, named |-> n]]]
    BY <1>10 DEF Gather
  <2>2. n \in BOOLEAN  BY <2>1 DEF NamedNow
  <2>3. [count |-> count, named |-> n] \in Update  BY <2>2, Updates
  <2>4. handler' \in [Conn -> Handling]  BY <2>1, <2>3
  <2>5. QED  BY <1>10, <2>4 DEF Gather
<1>11. ASSUME NEW c \in Conn, BeginsSend(c) PROVE TypeOK'
  <2>1. CASE Dies
    BY <2>1, <1>1
  <2>2. CASE /\ Goto(c, "sending")
             /\ writers' = [writers EXCEPT ![c] = @ \cup {"handler"}]
             /\ UNCHANGED <<up, phase, named, count, clients, mu, cast, sock, view, setId>>
    BY <1>11, <2>2, Updates DEF BeginsSend, Goto
  <2>3. QED  BY <1>11, <2>1, <2>2, Zenon DEF BeginsSend, Collides
<1>12. ASSUME NEW c \in Conn, EndsSend(c) PROVE TypeOK'
  <2>1. PICK pc \in {"read", "leave"} :
          handler' = [handler EXCEPT ![c] = [pc |-> pc, upd |-> NoUpdate]]
    BY <1>12 DEF EndsSend
  <2>2. handler' \in [Conn -> Handling]  BY <2>1, Updates
  <2>3. view' \in [Conn -> Update] /\ setId' \in [Conn -> {"none", "sent", "read"}]
    BY <1>12 DEF EndsSend, Delivered, Undelivered
  <2>4. writers' \in [Conn -> SUBSET (Caster \cup {"handler"})]
    BY <1>12 DEF EndsSend
  <2>5. UNCHANGED <<up, phase, named, count, clients, mu, cast, sock>>
    BY <1>12 DEF EndsSend
  <2>6. QED  BY <2>2, <2>3, <2>4, <2>5
<1>13. ASSUME NEW c \in Conn, ReadsSetId(c) PROVE TypeOK'
  BY <1>13, Updates DEF ReadsSetId, Goto
<1>14. ASSUME NEW c \in Conn, Names(c) PROVE TypeOK'
  BY <1>14, Updates DEF Names, Goto
<1>15. ASSUME NEW c \in Conn, ReadFails(c) PROVE TypeOK'
  BY <1>15, Updates DEF ReadFails, Goto
<1>16. ASSUME NEW c \in Conn, Leave(c) PROVE TypeOK'
  BY <1>16, Updates DEF Leave, Goto
<1>17. ASSUME NEW c \in Conn, Closes(c) PROVE TypeOK'
  BY <1>17, Updates DEF Closes, Goto
<1>18. ASSUME NEW c \in Conn, ClientLeaves(c) PROVE TypeOK'
  BY <1>18, Updates DEF ClientLeaves
<1>19. ASSUME NEW b \in Caster, Locks(b) PROVE TypeOK'
  <2>1. cast[b] \in Casting /\ clients \in SUBSET Conn  OBVIOUS
  <2>2. [cast[b] EXCEPT !.pc = "range", !.todo = clients] \in Casting  BY <2>1
  <2>3. cast' \in [Caster -> Casting]  BY <1>19, <2>2 DEF Locks
  <2>4. mu' \in Caster \cup {"free"}  BY <1>19 DEF Locks
  <2>5. QED  BY <1>19, <2>3, <2>4 DEF Locks
<1>20. ASSUME NEW b \in Caster, EndsBroadcast(b) PROVE TypeOK'
  BY <1>20, Updates DEF EndsBroadcast, Idle
<1>21. ASSUME NEW b \in Caster, NEW c \in Conn, BeginsWrite(b, c)
       PROVE TypeOK'
  <2>1. CASE Dies
    BY <2>1, <1>1
  <2>2. CASE /\ cast' = [cast EXCEPT ![b].pc = "writing"]
             /\ writers' = [writers EXCEPT ![c] = @ \cup {b}]
             /\ UNCHANGED <<up, phase, named, count, clients, mu, handler, sock, view, setId>>
    BY <1>21, <2>2, Updates DEF BeginsWrite
  <2>3. QED  BY <1>21, <2>1, <2>2, Zenon DEF BeginsWrite, Collides
<1>22. ASSUME NEW b \in Caster, NEW c \in Conn, EndsWrite(b, c)
       PROVE TypeOK'
  <2>1. cast' \in [Caster -> Casting]
    BY <1>22 DEF EndsWrite
  <2>2. view' \in [Conn -> Update] /\ setId' \in [Conn -> {"none", "sent", "read"}]
    <3>1. cast[b].upd \in Update  OBVIOUS
    <3>2. Delivered(c, cast[b].upd) \/ Undelivered  BY <1>22 DEF EndsWrite
    <3>3. QED  BY <3>1, <3>2 DEF Delivered, Undelivered
  <2>3. writers' \in [Conn -> SUBSET (Caster \cup {"handler"})]
    BY <1>22 DEF EndsWrite
  <2>4. UNCHANGED <<up, phase, named, count, clients, mu, handler, sock>>
    BY <1>22 DEF EndsWrite
  <2>5. QED  BY <2>1, <2>2, <2>3, <2>4
<1>23. QED
  BY <1>1, <1>2, <1>3, <1>4, <1>5, <1>6, <1>7, <1>8, <1>9, <1>10, <1>11,
     <1>12, <1>13, <1>14, <1>15, <1>16, <1>17, <1>18, <1>19, <1>20, <1>21, <1>22
  DEF Next, HandlerStep, CasterStep, TickerStep, MessageStep, SetupFails,
      GatherDies, TickDies, CountsDies

\* Every step leaves room to count the message at hand.
LEMMA RoomStep ==
  ASSUME Inv, [Next]_vars
  PROVE  RoomToCount'
<1> USE DEF Inv, TypeOK, Handling, Casting, RoomToCount, Caster
<1>1. CASE Dies
  BY <1>1, MaxMessagesAssumption DEF Dies, Unheard, Idle
<1>2. CASE UNCHANGED vars
  BY <1>2 DEF vars
<1>3. CASE Subscribe
  BY <1>3 DEF Subscribe
<1>4. CASE Join
  BY <1>4 DEF Join
<1>5. CASE Tick
  BY <1>5 DEF Tick, Idle, NamedNow
<1>6. CASE Receive
  BY <1>6 DEF Receive
<1>7. CASE Counts
  BY <1>7 DEF Counts, Idle, NamedNow
<1>8. ASSUME NEW c \in Conn, Accept(c) PROVE RoomToCount'
  BY <1>8 DEF Accept, Goto
<1>9. ASSUME NEW c \in Conn, Register(c) PROVE RoomToCount'
  BY <1>9 DEF Register, Goto
<1>10. ASSUME NEW c \in Conn, Gather(c) PROVE RoomToCount'
  BY <1>10 DEF Gather, NamedNow
<1>11. ASSUME NEW c \in Conn, BeginsSend(c) PROVE RoomToCount'
  <2>1. CASE Dies
    BY <2>1, <1>1
  <2>2. CASE /\ Goto(c, "sending")
             /\ writers' = [writers EXCEPT ![c] = @ \cup {"handler"}]
             /\ UNCHANGED <<up, phase, named, count, clients, mu, cast, sock, view, setId>>
    BY <1>11, <2>2 DEF BeginsSend, Goto
  <2>3. QED  BY <1>11, <2>1, <2>2, Zenon DEF BeginsSend, Collides
<1>12. ASSUME NEW c \in Conn, EndsSend(c) PROVE RoomToCount'
  BY <1>12 DEF EndsSend, Delivered, Undelivered
<1>13. ASSUME NEW c \in Conn, ReadsSetId(c) PROVE RoomToCount'
  BY <1>13 DEF ReadsSetId, Goto
<1>14. ASSUME NEW c \in Conn, Names(c) PROVE RoomToCount'
  BY <1>14 DEF Names, Goto
<1>15. ASSUME NEW c \in Conn, ReadFails(c) PROVE RoomToCount'
  BY <1>15 DEF ReadFails, Goto
<1>16. ASSUME NEW c \in Conn, Leave(c) PROVE RoomToCount'
  BY <1>16 DEF Leave, Goto
<1>17. ASSUME NEW c \in Conn, Closes(c) PROVE RoomToCount'
  BY <1>17 DEF Closes, Goto
<1>18. ASSUME NEW c \in Conn, ClientLeaves(c) PROVE RoomToCount'
  BY <1>18 DEF ClientLeaves
<1>19. ASSUME NEW b \in Caster, Locks(b) PROVE RoomToCount'
  BY <1>19 DEF Locks
<1>20. ASSUME NEW b \in Caster, EndsBroadcast(b) PROVE RoomToCount'
  BY <1>20 DEF EndsBroadcast, Idle
<1>21. ASSUME NEW b \in Caster, NEW c \in Conn, BeginsWrite(b, c)
       PROVE RoomToCount'
  <2>1. CASE Dies
    BY <2>1, <1>1
  <2>2. CASE /\ cast' = [cast EXCEPT ![b].pc = "writing"]
             /\ writers' = [writers EXCEPT ![c] = @ \cup {b}]
             /\ UNCHANGED <<up, phase, named, count, clients, mu, handler, sock, view, setId>>
    BY <1>21, <2>2 DEF BeginsWrite
  <2>3. QED  BY <1>21, <2>1, <2>2, Zenon DEF BeginsWrite, Collides
<1>22. ASSUME NEW b \in Caster, NEW c \in Conn, EndsWrite(b, c)
       PROVE RoomToCount'
  BY <1>22 DEF EndsWrite, Delivered, Undelivered
<1>23. QED
  BY <1>1, <1>2, <1>3, <1>4, <1>5, <1>6, <1>7, <1>8, <1>9, <1>10, <1>11,
     <1>12, <1>13, <1>14, <1>15, <1>16, <1>17, <1>18, <1>19, <1>20, <1>21, <1>22
  DEF Next, HandlerStep, CasterStep, TickerStep, MessageStep, SetupFails,
      GatherDies, TickDies, CountsDies

\* Every step keeps the lock and the writers in order.
LEMMA LockStep ==
  ASSUME Inv, [Next]_vars
  PROVE  RangingHoldsLock' /\ WritingOne'
<1> USE DEF Inv, TypeOK, Handling, Casting, RangingHoldsLock, WritingOne, Caster
<1>1. CASE Dies
  BY <1>1, MaxMessagesAssumption DEF Dies, Unheard, Idle
<1>2. CASE UNCHANGED vars
  BY <1>2 DEF vars
<1>3. CASE Subscribe
  BY <1>3 DEF Subscribe
<1>4. CASE Join
  BY <1>4 DEF Join
<1>5. CASE Tick
  BY <1>5 DEF Tick, Idle, NamedNow
<1>6. CASE Receive
  BY <1>6 DEF Receive
<1>7. CASE Counts
  BY <1>7 DEF Counts, Idle, NamedNow
<1>8. ASSUME NEW c \in Conn, Accept(c) PROVE RangingHoldsLock' /\ WritingOne'
  BY <1>8 DEF Accept, Goto
<1>9. ASSUME NEW c \in Conn, Register(c) PROVE RangingHoldsLock' /\ WritingOne'
  BY <1>9 DEF Register, Goto
<1>10. ASSUME NEW c \in Conn, Gather(c) PROVE RangingHoldsLock' /\ WritingOne'
  BY <1>10 DEF Gather, NamedNow
<1>11. ASSUME NEW c \in Conn, BeginsSend(c) PROVE RangingHoldsLock' /\ WritingOne'
  <2>1. CASE Dies
    BY <2>1, <1>1
  <2>2. CASE /\ Goto(c, "sending")
             /\ writers' = [writers EXCEPT ![c] = @ \cup {"handler"}]
             /\ UNCHANGED <<up, phase, named, count, clients, mu, cast, sock, view, setId>>
    BY <1>11, <2>2 DEF BeginsSend, Goto
  <2>3. QED  BY <1>11, <2>1, <2>2, Zenon DEF BeginsSend, Collides
<1>12. ASSUME NEW c \in Conn, EndsSend(c) PROVE RangingHoldsLock' /\ WritingOne'
  BY <1>12 DEF EndsSend, Delivered, Undelivered
<1>13. ASSUME NEW c \in Conn, ReadsSetId(c) PROVE RangingHoldsLock' /\ WritingOne'
  BY <1>13 DEF ReadsSetId, Goto
<1>14. ASSUME NEW c \in Conn, Names(c) PROVE RangingHoldsLock' /\ WritingOne'
  BY <1>14 DEF Names, Goto
<1>15. ASSUME NEW c \in Conn, ReadFails(c) PROVE RangingHoldsLock' /\ WritingOne'
  BY <1>15 DEF ReadFails, Goto
<1>16. ASSUME NEW c \in Conn, Leave(c) PROVE RangingHoldsLock' /\ WritingOne'
  BY <1>16 DEF Leave, Goto
<1>17. ASSUME NEW c \in Conn, Closes(c) PROVE RangingHoldsLock' /\ WritingOne'
  BY <1>17 DEF Closes, Goto
<1>18. ASSUME NEW c \in Conn, ClientLeaves(c) PROVE RangingHoldsLock' /\ WritingOne'
  BY <1>18 DEF ClientLeaves
<1>19. ASSUME NEW b \in Caster, Locks(b) PROVE RangingHoldsLock' /\ WritingOne'
  BY <1>19 DEF Locks
<1>20. ASSUME NEW b \in Caster, EndsBroadcast(b) PROVE RangingHoldsLock' /\ WritingOne'
  BY <1>20 DEF EndsBroadcast, Idle
<1>21. ASSUME NEW b \in Caster, NEW c \in Conn, BeginsWrite(b, c)
       PROVE RangingHoldsLock' /\ WritingOne'
  <2>1. CASE Dies
    BY <2>1, <1>1
  <2>2. CASE /\ cast' = [cast EXCEPT ![b].pc = "writing"]
             /\ writers' = [writers EXCEPT ![c] = @ \cup {b}]
             /\ UNCHANGED <<up, phase, named, count, clients, mu, handler, sock, view, setId>>
    BY <1>21, <2>2 DEF BeginsWrite
  <2>3. QED  BY <1>21, <2>1, <2>2, Zenon DEF BeginsWrite, Collides
<1>22. ASSUME NEW b \in Caster, NEW c \in Conn, EndsWrite(b, c)
       PROVE RangingHoldsLock' /\ WritingOne'
  BY <1>22 DEF EndsWrite, Delivered, Undelivered
<1>23. QED
  BY <1>1, <1>2, <1>3, <1>4, <1>5, <1>6, <1>7, <1>8, <1>9, <1>10, <1>11,
     <1>12, <1>13, <1>14, <1>15, <1>16, <1>17, <1>18, <1>19, <1>20, <1>21, <1>22
  DEF Next, HandlerStep, CasterStep, TickerStep, MessageStep, SetupFails,
      GatherDies, TickDies, CountsDies

\* Every step keeps the table of clients in order.
LEMMA RegistryStep ==
  ASSUME Inv, [Next]_vars
  PROVE  Registry'
<1> USE DEF Inv, TypeOK, Handling, Casting, Registry, ClientsAreAttended, RegisteredNotClosed, RegisteringNotClosed, TouchedRegistered, GoneOnly, Caster
<1>1. CASE Dies
  BY <1>1, MaxMessagesAssumption DEF Dies, Unheard, Idle
<1>2. CASE UNCHANGED vars
  BY <1>2 DEF vars
<1>3. CASE Subscribe
  BY <1>3 DEF Subscribe
<1>4. CASE Join
  BY <1>4 DEF Join
<1>5. CASE Tick
  BY <1>5 DEF Tick, Idle, NamedNow
<1>6. CASE Receive
  BY <1>6 DEF Receive
<1>7. CASE Counts
  BY <1>7 DEF Counts, Idle, NamedNow
<1>8. ASSUME NEW c \in Conn, Accept(c) PROVE Registry'
  BY <1>8 DEF Accept, Goto
<1>9. ASSUME NEW c \in Conn, Register(c) PROVE Registry'
  BY <1>9 DEF Register, Goto
<1>10. ASSUME NEW c \in Conn, Gather(c) PROVE Registry'
  BY <1>10 DEF Gather, NamedNow
<1>11. ASSUME NEW c \in Conn, BeginsSend(c) PROVE Registry'
  <2>1. CASE Dies
    BY <2>1, <1>1
  <2>2. CASE /\ Goto(c, "sending")
             /\ writers' = [writers EXCEPT ![c] = @ \cup {"handler"}]
             /\ UNCHANGED <<up, phase, named, count, clients, mu, cast, sock, view, setId>>
    BY <1>11, <2>2 DEF BeginsSend, Goto
  <2>3. QED  BY <1>11, <2>1, <2>2, Zenon DEF BeginsSend, Collides
<1>12. ASSUME NEW c \in Conn, EndsSend(c) PROVE Registry'
  <2>1. PICK pc \in {"read", "leave"} :
          /\ handler' = [handler EXCEPT ![c] = [pc |-> pc, upd |-> NoUpdate]]
          /\ pc = "leave" => sock[c] # "open"
    BY <1>12 DEF EndsSend
  <2>2. /\ handler[c].pc = "sending" /\ handler'[c].pc = pc
        /\ \A d \in Conn \ {c} : handler'[d] = handler[d]
    BY <1>12, <2>1 DEF EndsSend
  <2>3. UNCHANGED <<clients, cast, sock>>  BY <1>12 DEF EndsSend
  <2>4. QED  BY <2>1, <2>2, <2>3
<1>13. ASSUME NEW c \in Conn, ReadsSetId(c) PROVE Registry'
  BY <1>13 DEF ReadsSetId, Goto
<1>14. ASSUME NEW c \in Conn, Names(c) PROVE Registry'
  BY <1>14 DEF Names, Goto
<1>15. ASSUME NEW c \in Conn, ReadFails(c) PROVE Registry'
  BY <1>15 DEF ReadFails, Goto
<1>16. ASSUME NEW c \in Conn, Leave(c) PROVE Registry'
  BY <1>16 DEF Leave, Goto
<1>17. ASSUME NEW c \in Conn, Closes(c) PROVE Registry'
  BY <1>17 DEF Closes, Goto
<1>18. ASSUME NEW c \in Conn, ClientLeaves(c) PROVE Registry'
  BY <1>18 DEF ClientLeaves
<1>19. ASSUME NEW b \in Caster, Locks(b) PROVE Registry'
  BY <1>19 DEF Locks
<1>20. ASSUME NEW b \in Caster, EndsBroadcast(b) PROVE Registry'
  BY <1>20 DEF EndsBroadcast, Idle
<1>21. ASSUME NEW b \in Caster, NEW c \in Conn, BeginsWrite(b, c)
       PROVE Registry'
  <2>1. CASE Dies
    BY <2>1, <1>1
  <2>2. CASE /\ cast' = [cast EXCEPT ![b].pc = "writing"]
             /\ writers' = [writers EXCEPT ![c] = @ \cup {b}]
             /\ UNCHANGED <<up, phase, named, count, clients, mu, handler, sock, view, setId>>
    BY <1>21, <2>2 DEF BeginsWrite
  <2>3. QED  BY <1>21, <2>1, <2>2, Zenon DEF BeginsWrite, Collides
<1>22. ASSUME NEW b \in Caster, NEW c \in Conn, EndsWrite(b, c)
       PROVE Registry'
  BY <1>22 DEF EndsWrite, Delivered, Undelivered
<1>23. QED
  BY <1>1, <1>2, <1>3, <1>4, <1>5, <1>6, <1>7, <1>8, <1>9, <1>10, <1>11,
     <1>12, <1>13, <1>14, <1>15, <1>16, <1>17, <1>18, <1>19, <1>20, <1>21, <1>22
  DEF Next, HandlerStep, CasterStep, TickerStep, MessageStep, SetupFails,
      GatherDies, TickDies, CountsDies

-----------------------------------------------------------------------------
(* Theorems.                                                               *)

LEMMA Initially == Init => Inv
<1> SUFFICES ASSUME Init PROVE Inv
  OBVIOUS
<1>1. Unheard \in Handling /\ Idle \in Casting /\ 0 \in 0..MaxMessages
  BY Updates, MaxMessagesAssumption DEF Unheard, Idle, Handling, Casting
<1>2. TypeOK
  BY <1>1, Updates DEF Init, TypeOK
<1>3. RoomToCount /\ RangingHoldsLock /\ WritingOne
  BY DEF Init, Idle, RoomToCount, RangingHoldsLock, WritingOne, Caster
<1>4. Registry
  BY DEF Init, Idle, Unheard, Registry, ClientsAreAttended, RegisteredNotClosed,
         RegisteringNotClosed, TouchedRegistered, GoneOnly
<1>5. QED  BY <1>2, <1>3, <1>4 DEF Inv

\* The invariant of the status server holds in every state: its parts hold at
\* first and every step of New, wsHandler, scheduleUpdates, broadcastUpdate
\* and HandlePubsubMessageEvent keeps them together.
THEOREM Invariance == Spec => []Inv
<1>1. Init => Inv
  BY Initially
<1>2. Inv /\ [Next]_vars => Inv'
  BY TypeStep, RoomStep, LockStep, RegistryStep DEF Inv
<1>3. QED  BY <1>1, <1>2, PTL DEF Spec

\* The handlers and broadcasts keep the server's state well formed.
THEOREM TypeCorrectness == Spec => []TypeOK
<1>1. Inv => TypeOK
  BY DEF Inv
<1>2. QED  BY Invariance, <1>1, PTL

\* Two broadcasts are never inside WriteMessage on the same connection: each
\* holds clientsMu while it ranges (broadcastUpdate).
THEOREM TurnsAreTaken == Spec => []BroadcastsTakeTurns
<1>1. Inv => BroadcastsTakeTurns
  <2> SUFFICES ASSUME Inv, NEW c \in Conn, Caster \subseteq writers[c] PROVE FALSE
    BY DEF BroadcastsTakeTurns
  <2>1. cast["ticker"].pc = "writing" /\ cast["message"].pc = "writing"
    BY DEF Inv, WritingOne, Caster
  <2>2. mu = "ticker" /\ mu = "message"
    BY <2>1 DEF Inv, RangingHoldsLock, Caster
  <2>3. QED  BY <2>2
<1>2. QED  BY Invariance, <1>1, PTL

\* Every registered client has a handler that will delete it (wsHandler).
THEOREM ClientsHaveHandlers == Spec => []ClientsAreAttended
<1>1. Inv => ClientsAreAttended
  BY DEF Inv, Registry
<1>2. QED  BY Invariance, <1>1, PTL

\* Whoever can lock the clients finds no closed connection among them.
THEOREM ClosedAreGone == Spec => []ClosedIsForgotten
<1>1. Inv => ClosedIsForgotten
  BY DEF Inv, Registry, RegisteredNotClosed, ClosedIsForgotten
<1>2. QED  BY Invariance, <1>1, PTL

\* Neither the deferred delete of wsHandler nor the cleaning up of
\* broadcastUpdate drops a client that is still there.
THEOREM OpenAreKept == Spec => OnlyBrokenDropped
<1>1. Inv /\ [Next]_vars => [up' => \A c \in clients \ clients' : sock[c] # "open"]_vars
  <2> SUFFICES ASSUME Inv, Next, up', NEW c \in clients \ clients'
               PROVE  sock[c] # "open"
    OBVIOUS
  <2>1. CASE Dies
    BY <2>1 DEF Dies
  <2>2. CASE \E d \in Conn : Leave(d)
    BY <2>2 DEF Leave, Inv, Registry, GoneOnly
  <2>3. CASE \E b \in Caster : EndsBroadcast(b)
    BY <2>3 DEF EndsBroadcast, Inv, Registry, GoneOnly
  <2>4. CASE \E d \in Conn : Register(d)
    BY <2>4 DEF Register
  <2>5. ASSUME ~Dies, ~ \E d \in Conn : Leave(d) \/ Register(d),
               ~ \E b \in Caster : EndsBroadcast(b)
        PROVE  clients' = clients
    <3>1. CASE Subscribe \/ Join \/ Tick \/ Receive \/ Counts
      BY <3>1 DEF Subscribe, Join, Tick, Receive, Counts
    <3>2. CASE \E d \in Conn : \/ Accept(d) \/ Gather(d) \/ EndsSend(d) \/ ReadsSetId(d)
                               \/ Names(d) \/ ReadFails(d) \/ Closes(d) \/ ClientLeaves(d)
      BY <3>2 DEF Accept, Gather, EndsSend, ReadsSetId, Names, ReadFails, Closes, ClientLeaves
    <3>3. CASE \E d \in Conn : BeginsSend(d)
      BY <3>3, <2>5, Zenon DEF BeginsSend, Collides
    <3>4. CASE \E b \in Caster : Locks(b)
      BY <3>4 DEF Locks
    <3>5. CASE \E b \in Caster : \E d \in Conn : BeginsWrite(b, d)
      BY <3>5, <2>5, Zenon DEF BeginsWrite, Collides
    <3>6. CASE \E b \in Caster : \E d \in Conn : EndsWrite(b, d)
      BY <3>6 DEF EndsWrite
    <3>7. QED
      BY <2>5, <3>1, <3>2, <3>3, <3>4, <3>5, <3>6
      DEF Next, HandlerStep, CasterStep, TickerStep, MessageStep, SetupFails,
          GatherDies, TickDies, CountsDies
  <2>6. QED  BY <2>1, <2>2, <2>3, <2>4, <2>5
<1>2. QED  BY Invariance, <1>1, PTL DEF Spec, OnlyBrokenDropped
=============================================================================
