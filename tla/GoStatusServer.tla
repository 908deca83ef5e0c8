--------------------------- MODULE GoStatusServer ---------------------------
(***************************************************************************)
(* The status server of the Go node (go-nodes/bootstrapper), and the       *)
(* controller's handshake with it.                                         *)
(*                                                                         *)
(* Three kinds of goroutine write to the WebSocket clients: the handler of *)
(* each client, a ticker, and the reader of pubsub messages.  The last two *)
(* broadcast to all clients with clientsMu locked; a handler writes to its *)
(* own client without the lock.  A gorilla connection takes one writer at  *)
(* a time and panics, as a rule, when it notices a second one: that ends   *)
(* the process.  So does a full update before the topic has been joined    *)
(* (Topic.ListPeers on a zero Topic).                                      *)
(*                                                                         *)
(* An update is the two parts of it that change: count (MessageCount, with *)
(* LastMessage) and named (ContainerId is set).  Both strings are written  *)
(* without a lock, in two words, while others read them.  Going from empty *)
(* to something the mix of the two words is a nil pointer with a length,   *)
(* which kills the process that marshals it; later on all values have the  *)
(* same length (ids of 12 characters, colours of 7), and every mix is one  *)
(* of the two.                                                             *)
(*                                                                         *)
(* Taken for granted: a write to a client that is still there returns      *)
(* without an error (there is no write deadline), and only a client that   *)
(* left makes writes and reads fail.                                       *)
(***************************************************************************)
EXTENDS Naturals, FiniteSets

CONSTANTS
  Conn,          \* connections of the controller, in whatever order
  MaxMessages    \* bound: pubsub messages received

ASSUME MaxMessagesAssumption == MaxMessages \in Nat

VARIABLES
  up,        \* the process runs
  phase,     \* of main: the message reader runs, n.Topic is set
  named,     \* ss.ContainerId # ""
  count,     \* ss.MessageCount
  clients,   \* ss.clients
  mu,        \* who holds ss.clientsMu across a wait
  handler,   \* the goroutine of wsHandler, for each connection
  cast,      \* the two goroutines that broadcast
  sock,      \* the server's end: the client has left it broken
  writers,   \* who is inside WriteMessage on the connection
  view,      \* the last update the client has been sent
  setId      \* its set-id: not sent yet, sent, read

vars == <<up, phase, named, count, clients, mu, handler, cast, sock, writers,
          view, setId>>

Caster == {"ticker", "message"}
Update == [count : 0..MaxMessages, named : BOOLEAN]
NoUpdate == [count |-> 0, named |-> FALSE]

Handling == [pc : {"none", "register", "gather", "send", "sending", "read", "naming",
                   "leave", "closing", "over"}, upd : Update]
Casting == [pc : {"idle", "storing", "lock", "range", "writing"}, upd : Update,
            todo : SUBSET Conn, failed : SUBSET Conn]

Unheard == [pc |-> "none", upd |-> NoUpdate]
Idle == [pc |-> "idle", upd |-> NoUpdate, todo |-> {}, failed |-> {}]

Init ==
  /\ up = TRUE
  /\ phase = "starting" /\ named = FALSE /\ count = 0
  /\ clients = {} /\ mu = "free"
  /\ handler = [c \in Conn |-> Unheard]
  /\ cast = [b \in Caster |-> Idle]
  /\ sock = [c \in Conn |-> "none"] /\ writers = [c \in Conn |-> {}]
  /\ view = [c \in Conn |-> NoUpdate] /\ setId = [c \in Conn |-> "none"]

-----------------------------------------------------------------------------
(* Reading and writing.                                                    *)

\* A string is being written over an empty one.
Tearing ==
  \/ ~named /\ \E c \in Conn : handler[c].pc = "naming"
  \/ count = 0 /\ cast["message"].pc = "storing"

\* What a read of ss.ContainerId may give while it is being written.
NamedNow == {named} \cup {TRUE : c \in {d \in Conn : handler[d].pc = "naming"}}

\* A panic or an exit ends the process: nothing is left of it, and nobody
\* asks what its clients have read.
Dies ==
  /\ up' = FALSE
  /\ phase' = "starting" /\ named' = FALSE /\ count' = 0
  /\ clients' = {} /\ mu' = "free"
  /\ handler' = [c \in Conn |-> Unheard]
  /\ cast' = [b \in Caster |-> Idle]
  /\ sock' = [c \in Conn |-> "none"] /\ writers' = [c \in Conn |-> {}]
  /\ view' = [c \in Conn |-> NoUpdate] /\ setId' = [c \in Conn |-> "none"]

\* WriteMessage gets to the client.  The controller answers the first message
\* of a connection with set-id, and takes whatever comes second for the reply.
Delivered(c, upd) ==
  /\ view' = [view EXCEPT ![c] = upd]
  /\ setId' = [setId EXCEPT ![c] = IF @ = "none" THEN "sent" ELSE @]

Undelivered == UNCHANGED <<view, setId>>

\* A second writer: gorilla panics if it notices, and it need not.
Collides(c) == writers[c] # {} /\ Dies

-----------------------------------------------------------------------------
(* main, after statusserver.New has started the server and the ticker.     *)

Subscribe ==
  /\ up /\ phase = "starting" /\ phase' = "subscribed"
  /\ UNCHANGED <<up, named, count, clients, mu, handler, cast, sock, writers,
                 view, setId>>

Join ==
  /\ up /\ phase = "subscribed" /\ phase' = "joined"
  /\ UNCHANGED <<up, named, count, clients, mu, handler, cast, sock, writers,
                 view, setId>>

\* gossip.New, JoinSubscribe or Relay returns an error: os.Exit(1).
SetupFails == up /\ phase # "joined" /\ Dies

-----------------------------------------------------------------------------
(* wsHandler.                                                              *)

Goto(c, pc) == handler' = [handler EXCEPT ![c].pc = pc]

Accept(c) ==
  /\ up /\ handler[c].pc = "none"
  /\ Goto(c, "register") /\ sock' = [sock EXCEPT ![c] = "open"]
  /\ UNCHANGED <<up, phase, named, count, clients, mu, cast, writers, view, setId>>

Register(c) ==
  /\ up /\ handler[c].pc = "register" /\ mu = "free"
  /\ clients' = clients \cup {c}
  /\ Goto(c, "gather")
  /\ UNCHANGED <<up, phase, named, count, mu, cast, sock, writers, view, setId>>

\* fullUpdate for this client: its first one, or the answer to set-id.
Gather(c) ==
  /\ up /\ handler[c].pc = "gather" /\ phase = "joined"
  /\ \E n \in NamedNow :
       handler' = [handler EXCEPT ![c] =
                     [pc |-> "send", upd |-> [count |-> count, named |-> n]]]
  /\ UNCHANGED <<up, phase, named, count, clients, mu, cast, sock, writers,
                 view, setId>>

GatherDies(c) ==
  /\ up /\ handler[c].pc = "gather"
  /\ phase # "joined" \/ Tearing
  /\ Dies

\* sendUpdate, which does not lock.
BeginsSend(c) ==
  /\ up /\ handler[c].pc = "send"
  /\ \/ /\ Goto(c, "sending")
        /\ writers' = [writers EXCEPT ![c] = @ \cup {"handler"}]
        /\ UNCHANGED <<up, phase, named, count, clients, mu, cast, sock, view, setId>>
     \/ Collides(c)

EndsSend(c) ==
  /\ up /\ handler[c].pc = "sending"
  /\ writers' = [writers EXCEPT ![c] = @ \ {"handler"}]
  /\ \/ /\ sock[c] = "open" /\ Delivered(c, handler[c].upd)
        /\ handler' = [handler EXCEPT ![c] = [pc |-> "read", upd |-> NoUpdate]]
     \/ /\ sock[c] # "open" /\ Undelivered
        /\ \E pc \in {"read", "leave"} :
             handler' = [handler EXCEPT ![c] = [pc |-> pc, upd |-> NoUpdate]]
  /\ UNCHANGED <<up, phase, named, count, clients, mu, cast, sock>>

\* The client has read an update and sent set-id, which is read here.
ReadsSetId(c) ==
  /\ up /\ handler[c].pc = "read" /\ sock[c] # "closed"
  /\ setId[c] = "sent" /\ setId' = [setId EXCEPT ![c] = "read"]
  /\ Goto(c, "naming")
  /\ UNCHANGED <<up, phase, named, count, clients, mu, cast, sock, writers,
                 view>>

Names(c) ==
  /\ up /\ handler[c].pc = "naming"
  /\ named' = TRUE /\ Goto(c, "gather")
  /\ UNCHANGED <<up, phase, count, clients, mu, cast, sock, writers, view, setId>>

\* ReadMessage fails, once the client has gone or a broadcast has closed it.
ReadFails(c) ==
  /\ up /\ handler[c].pc = "read" /\ sock[c] # "open"
  /\ Goto(c, "leave")
  /\ UNCHANGED <<up, phase, named, count, clients, mu, cast, sock, writers,
                 view, setId>>

\* Variant: the handler returns without the deferred delete.
Leave_KeepsClient(c) ==
  /\ up /\ handler[c].pc = "leave"
  /\ Goto(c, "closing")
  /\ UNCHANGED <<up, phase, named, count, clients, mu, cast, sock, writers,
                 view, setId>>

\* The deferred delete and Close.
Leave(c) ==
  /\ up /\ handler[c].pc = "leave" /\ mu = "free"
  /\ clients' = clients \ {c}
  /\ Goto(c, "closing")
  /\ UNCHANGED <<up, phase, named, count, mu, cast, sock, writers, view, setId>>

\* Variant: the deferred function only deletes.
Closes_Not(c) ==
  /\ up /\ handler[c].pc = "closing"
  /\ Goto(c, "over")
  /\ UNCHANGED <<up, phase, named, count, clients, mu, cast, sock, writers,
                 view, setId>>

Closes(c) ==
  /\ up /\ handler[c].pc = "closing"
  /\ sock' = [sock EXCEPT ![c] = "closed"]
  /\ Goto(c, "over")
  /\ UNCHANGED <<up, phase, named, count, clients, mu, cast, writers, view, setId>>

\* The client goes away.
ClientLeaves(c) ==
  /\ up /\ sock[c] = "open" /\ sock' = [sock EXCEPT ![c] = "broken"]
  /\ view' = [view EXCEPT ![c] = NoUpdate]
  /\ UNCHANGED <<up, phase, named, count, clients, mu, handler, cast, writers, setId>>

-----------------------------------------------------------------------------
(* Broadcasting.                                                           *)

\* Variant: the ticker sends what it gathered the first time.
Tick_Once ==
  /\ up /\ phase = "joined" /\ cast["ticker"].pc = "idle"
  /\ cast' = [cast EXCEPT !["ticker"] = [Idle EXCEPT !.pc = "lock"]]
  /\ UNCHANGED <<up, phase, named, count, clients, mu, handler, sock, writers,
                 view, setId>>

\* The ticker's fullUpdate.
Tick ==
  /\ up /\ phase = "joined" /\ cast["ticker"].pc = "idle"
  /\ \E n \in NamedNow :
       cast' = [cast EXCEPT !["ticker"] =
                  [Idle EXCEPT !.pc = "lock", !.upd = [count |-> count, named |-> n]]]
  /\ UNCHANGED <<up, phase, named, count, clients, mu, handler, sock, writers,
                 view, setId>>

TickDies ==
  /\ up /\ cast["ticker"].pc = "idle"
  /\ phase # "joined" \/ Tearing
  /\ Dies

\* HandlePubsubMessageEvent assigns LastMessage ...
Receive ==
  /\ up /\ phase # "starting" /\ cast["message"].pc = "idle" /\ count < MaxMessages
  /\ cast' = [cast EXCEPT !["message"].pc = "storing"]
  /\ UNCHANGED <<up, phase, named, count, clients, mu, handler, sock, writers,
                 view, setId>>

\* Variant: it is counted once more than it arrived.
Counts_Twice ==
  /\ up /\ cast["message"].pc = "storing"
  /\ count' = count + 2
  /\ \E n \in NamedNow :
       cast' = [cast EXCEPT !["message"] =
                  [Idle EXCEPT !.pc = "lock", !.upd = [count |-> count', named |-> n]]]
  /\ UNCHANGED <<up, phase, named, clients, mu, handler, sock, writers, view, setId>>

\* ... counts, and makes an update of them.
Counts ==
  /\ up /\ cast["message"].pc = "storing"
  /\ count' = count + 1
  /\ \E n \in NamedNow :
       cast' = [cast EXCEPT !["message"] =
                  [Idle EXCEPT !.pc = "lock", !.upd = [count |-> count', named |-> n]]]
  /\ UNCHANGED <<up, phase, named, clients, mu, handler, sock, writers, view, setId>>

CountsDies ==
  /\ up /\ cast["message"].pc = "storing"
  /\ ~named /\ \E c \in Conn : handler[c].pc = "naming"
  /\ Dies

\* broadcastUpdate locks and ranges over the clients, in any order.
Locks(b) ==
  /\ up /\ cast[b].pc = "lock" /\ mu = "free"
  /\ mu' = b
  /\ cast' = [cast EXCEPT ![b].pc = "range", ![b].todo = clients]
  /\ UNCHANGED <<up, phase, named, count, clients, handler, sock, writers, view, setId>>

BeginsWrite(b, c) ==
  /\ up /\ cast[b].pc = "range" /\ c \in cast[b].todo
  /\ \/ /\ cast' = [cast EXCEPT ![b].pc = "writing"]
        /\ writers' = [writers EXCEPT ![c] = @ \cup {b}]
        /\ UNCHANGED <<up, phase, named, count, clients, mu, handler, sock,
                       view, setId>>
     \/ Collides(c)

EndsWrite(b, c) ==
  /\ up /\ cast[b].pc = "writing" /\ b \in writers[c]
  /\ writers' = [writers EXCEPT ![c] = @ \ {b}]
  /\ \/ /\ sock[c] = "open" /\ Delivered(c, cast[b].upd)
        /\ cast' = [cast EXCEPT ![b].pc = "range", ![b].todo = @ \ {c}]
     \/ /\ sock[c] # "open" /\ Undelivered
        /\ \E failed \in {{}, {c}} :
             cast' = [cast EXCEPT ![b].pc = "range", ![b].todo = @ \ {c},
                                  ![b].failed = @ \cup failed]
  /\ UNCHANGED <<up, phase, named, count, clients, mu, handler, sock>>

\* The failed ones are closed and forgotten, and the lock is released.
EndsBroadcast(b) ==
  /\ up /\ cast[b].pc = "range" /\ cast[b].todo = {}
  /\ sock' = [c \in Conn |-> IF c \in cast[b].failed THEN "closed" ELSE sock[c]]
  /\ clients' = clients \ cast[b].failed
  /\ mu' = "free"
  /\ cast' = [cast EXCEPT ![b] = Idle]
  /\ UNCHANGED <<up, phase, named, count, handler, writers, view, setId>>

-----------------------------------------------------------------------------
HandlerStep(c) ==
  \/ Register(c) \/ Gather(c) \/ GatherDies(c) \/ BeginsSend(c) \/ EndsSend(c)
  \/ ReadsSetId(c) \/ Names(c) \/ ReadFails(c) \/ Leave(c) \/ Closes(c)

CasterStep(b) ==
  \/ Locks(b) \/ EndsBroadcast(b)
  \/ \E c \in Conn : BeginsWrite(b, c) \/ EndsWrite(b, c)

TickerStep == Tick \/ TickDies
MessageStep == Counts \/ CountsDies

Next ==
  \/ Subscribe \/ Join \/ SetupFails
  \/ \E c \in Conn : Accept(c) \/ HandlerStep(c) \/ ClientLeaves(c)
  \/ TickerStep \/ Receive \/ MessageStep
  \/ \E b \in Caster : CasterStep(b)

Spec == Init /\ [][Next]_vars

\* Goroutines run, a mutex that is released again and again is acquired (Go
\* hands it to a waiter that starves), and the ticker fires.  Nobody has to
\* connect, to leave, or to publish.
FairSpec ==
  /\ Spec
  /\ \A c \in Conn :
       /\ SF_vars(Register(c)) /\ SF_vars(Leave(c))
       /\ WF_vars(HandlerStep(c))
  /\ \A b \in Caster :
       /\ SF_vars(Locks(b))
       /\ WF_vars(CasterStep(b))
  /\ WF_vars(TickerStep) /\ WF_vars(MessageStep)

-----------------------------------------------------------------------------
(* Properties.                                                             *)

\* The types of the variables.
TypeOK ==
  /\ up \in BOOLEAN /\ phase \in {"starting", "subscribed", "joined"}
  /\ named \in BOOLEAN /\ count \in 0..MaxMessages
  /\ clients \subseteq Conn /\ mu \in Caster \cup {"free"}
  /\ handler \in [Conn -> Handling] /\ cast \in [Caster -> Casting]
  /\ sock \in [Conn -> {"none", "open", "broken", "closed"}]
  /\ writers \in [Conn -> SUBSET (Caster \cup {"handler"})]
  /\ view \in [Conn -> Update] /\ setId \in [Conn -> {"none", "sent", "read"}]

\* Two broadcasts never write to the same connection at once: the ticker's and
\* a message's wait for each other in broadcastUpdate.  (A handler and a
\* broadcast may meet; that is the crash the module begins with.)
BroadcastsTakeTurns == \A c \in Conn : ~(Caster \subseteq writers[c])

\* A registered client has a handler that will still delete it, whatever
\* broadcasts did to its connection in the meantime.
ClientsAreAttended ==
  \A c \in clients : handler[c].pc \in {"gather", "send", "sending", "read", "naming", "leave"}

\* Nobody who can lock the clients finds a connection among them that the
\* server has closed.
ClosedIsForgotten == mu = "free" => \A c \in clients : sock[c] # "closed"

\* A client that is still there is never dropped, whoever else fails.
OnlyBrokenDropped == [][up' => \A c \in clients \ clients' : sock[c] # "open"]_vars

\* Whatever older update overtook a newer one (a full update gathered before a
\* message arrived or the id was set, sent after), every client again and
\* again has what the server knows, as long as it stays and the process lives.
ClientsCatchUp ==
  \A c \in Conn :
    []<>(up /\ c \in clients /\ sock[c] = "open"
           => view[c] = [count |-> count, named |-> named])

\* A client that has gone is closed and forgotten.
GoneIsClosed ==
  \A c \in Conn :
    sock[c] = "broken" ~> (up => sock[c] = "closed" /\ c \notin clients)
=============================================================================
