----------------------- MODULE CommandDispatchProofs -----------------------
(***************************************************************************)
(* Proofs about CommandDispatch, for any containers and any requests.      *)
(***************************************************************************)
EXTENDS CommandDispatch, SequenceTheorems, TLAPS

\* A write of a broadcast is under way only while its publish waits for it,
\* any other only while its handler waits for it.
JobsFit ==
  \A j \in todo \cup writing :
    IF j.what = "clear" THEN j.by \in Publisher /\ phase[j.by] = "clearing"
    ELSE phase[j.by] = "writing"

\* A write is decided on once.
DecidedOnce == todo \cap writing = {}

\* A handler writes one command.
OneCommand ==
  \A j, k \in todo \cup writing : j.by = k.by /\ j.what = "command" => j = k

Clear(p, c) == [by |-> p, to |-> c, what |-> "clear"]

Told(p, c) == \E k \in DOMAIN inbox[c] : inbox[c][k] = <<p, "clear">>

\* As long as the process lives, who has to be told to clear has been told,
\* or is about to be while the publish waits.
OwedIsPaid ==
  up => \A p \in Publisher : \A c \in owed[p] :
          Told(p, c) \/ (phase[p] = "clearing" /\ Clear(p, c) \in todo \cup writing)

\* The command of a publish is the last thing the publish does.
CommandIsLast ==
  \A p \in Publisher, c \in Container :
    \A i \in DOMAIN inbox[c] : inbox[c][i] = <<p, "command">> => phase[p] = "answered"

\* The inductive invariant.
Inv ==
  /\ TypeOK /\ JobsFit /\ DecidedOnce /\ OneCommand
  /\ OwedIsPaid /\ CommandIsLast /\ ClearedBeforePublish

-----------------------------------------------------------------------------
(* What the actions have in common.                                        *)

Inbox == Seq(Publisher \X {"clear", "command"})

LEMMA JobFields ==
  ASSUME NEW j \in Job
  PROVE  /\ j.by \in Request /\ j.to \in Container /\ j.what \in {"clear", "command"}
         /\ j = [by |-> j.by, to |-> j.to, what |-> j.what]
  BY DEF Job

\* What Append does to an inbox.
LEMMA InboxAppend ==
  ASSUME NEW s \in Inbox, NEW m \in Publisher \X {"clear", "command"}
  PROVE  /\ Append(s, m) \in Inbox
         /\ Len(s) \in Nat /\ DOMAIN s = 1 .. Len(s)
         /\ DOMAIN Append(s, m) = 1 .. Len(s) + 1
         /\ Append(s, m)[Len(s) + 1] = m
         /\ \A i \in 1 .. Len(s) : Append(s, m)[i] = s[i]
  BY DEF Inbox

\* A write that ends without being written.
LEMMA AfterEnds ==
  ASSUME Inv, NEW j \in writing, Ends(j)
  PROVE  /\ todo' = todo /\ writing' = writing \ {j} /\ writing' \subseteq Job
         /\ mixed' \subseteq writing' /\ j \in Job
         /\ OneCommand' /\ DecidedOnce'
         /\ j.what = "command" =>
              \A k \in todo' \cup writing' : k.by # j.by
<1>1. todo' = todo /\ writing' = writing \ {j} /\ mixed' = mixed \ {j} /\ j \in Job
  BY DEF Ends, Inv, TypeOK
<1>2. writing' \subseteq Job /\ mixed' \subseteq writing' /\ OneCommand' /\ DecidedOnce'
  BY <1>1 DEF Inv, TypeOK, OneCommand, DecidedOnce
<1>3. ASSUME j.what = "command", NEW k \in todo' \cup writing', k.by = j.by  PROVE FALSE
  <2>1. k \in todo \/ (k \in writing /\ k # j)
    BY <1>1, <1>3
  <2>2. k # j /\ k \in todo \cup writing
    BY <2>1 DEF Inv, DecidedOnce
  <2>3. QED  BY <1>3, <2>2 DEF Inv, OneCommand
<1>4. QED  BY <1>1, <1>2, <1>3

-----------------------------------------------------------------------------
LEMMA InvInit == Init => Inv
<1> SUFFICES ASSUME Init PROVE Inv
  OBVIOUS
<1>1. TypeOK
  <2>1. inbox \in [Container -> Seq(Publisher \X {"clear", "command"})]
    BY EmptySeq DEF Init
  <2>2. QED  BY <2>1 DEF Init, TypeOK, SockState, Phase
<1>2. JobsFit /\ DecidedOnce /\ OneCommand
  BY DEF Init, JobsFit, DecidedOnce, OneCommand
<1>3. OwedIsPaid
  BY DEF Init, OwedIsPaid
<1>4. \A c \in Container : inbox[c] = <<>> /\ DOMAIN inbox[c] = {}
  BY EmptySeq DEF Init
<1>5. CommandIsLast /\ ClearedBeforePublish
  BY <1>4 DEF CommandIsLast, ClearedBeforePublish
<1>6. QED  BY <1>1, <1>2, <1>3, <1>5 DEF Inv

\* A step that has nothing to do with the writes of a request in progress.
LEMMA WritesUnmoved ==
  ASSUME Inv, TypeOK', UNCHANGED <<up, phase, todo, writing, inbox, owed>>
  PROVE  Inv'
<1>1. JobsFit' /\ DecidedOnce' /\ OneCommand'
  BY DEF Inv, JobsFit, DecidedOnce, OneCommand
<1>2. OwedIsPaid'
  BY DEF Inv, OwedIsPaid, Told, Clear
<1>3. CommandIsLast' /\ ClearedBeforePublish'
  BY DEF Inv, CommandIsLast, ClearedBeforePublish
<1>4. QED  BY <1>1, <1>2, <1>3 DEF Inv

LEMMA SurroundingStep ==
  ASSUME Inv, NEW c \in Container,
         UiTurns \/ NodeDies(c) \/ NodeStalls(c) \/ Replies(c) \/ ReadsUpdate(c)
             \/ StopWaits(c) \/ Stops(c)
  PROVE  Inv'
<1>1. TypeOK'
  BY DEF Inv, TypeOK, UiTurns, NodeDies, NodeStalls, Replies, ReadsUpdate, StopWaits, Stops, Goes,
     connVars, requestVars, writeVars, SockState
<1>2. UNCHANGED <<up, phase, todo, writing, inbox, owed>>
  BY DEF UiTurns, NodeDies, NodeStalls, Replies, ReadsUpdate, StopWaits, Stops, requestVars, writeVars
<1>3. QED  BY <1>1, <1>2, WritesUnmoved

LEMMA ConnectionStep ==
  ASSUME Inv, NEW c \in Container, Connection(c)
  PROVE  Inv'
<1>1. TypeOK'
  BY DEF Inv, TypeOK, Connection, Joins, Forwarded, ReadFails, Leaves, Goes,
     connVars, requestVars, writeVars, SockState
<1>2. UNCHANGED <<up, phase, todo, writing, inbox, owed>>
  BY DEF Connection, Joins, Forwarded, ReadFails, Leaves, requestVars, writeVars
<1>3. QED  BY <1>1, <1>2, WritesUnmoved

\* What is asked for has not been looked at: there are no writes for it.
LEMMA AsksStep ==
  ASSUME Inv, NEW r \in Request, NEW url \in {"publish", "connect", "dht"}, Asks(r, url)
  PROVE  Inv'
<1> USE DEF connVars, writeVars
<1>1. TypeOK'
  BY DEF Inv, TypeOK, Asks, Phase
<1>2. phase[r] = "idle" /\ phase' = [phase EXCEPT ![r] = "asked"]
  BY DEF Asks
<1>3. phase \in [Request -> Phase]
  BY DEF Inv, TypeOK
<1>4. JobsFit' /\ DecidedOnce' /\ OneCommand'
  BY <1>2, <1>3 DEF Inv, TypeOK, Job, JobsFit, DecidedOnce, OneCommand, Asks
<1>5. OwedIsPaid'
  BY <1>2, <1>3 DEF Inv, OwedIsPaid, Told, Clear, Asks, Request
<1>6. CommandIsLast' /\ ClearedBeforePublish'
  <2>1. UNCHANGED <<inbox, owed>>
    BY DEF Asks
  <2>2. CommandIsLast'
    BY <1>2, <1>3, <2>1 DEF Inv, CommandIsLast
  <2>3. QED  BY <2>1, <2>2 DEF Inv, ClearedBeforePublish
<1>7. QED  BY <1>1, <1>4, <1>5, <1>6 DEF Inv

LEMMA LooksUpStep ==
  ASSUME Inv, NEW r \in Request, NEW from \in {"asked", "choosing"}, NEW c,
         LooksUp(r, from, c)
  PROVE  Inv'
<1> USE DEF connVars
<1> DEFINE j == [by |-> r, to |-> c, what |-> "command"]
<1>0. /\ phase \in [Request -> Phase] /\ phase[r] = from /\ up
      /\ UNCHANGED <<up, table, writing, mixed, inbox, owed>>
  BY DEF Inv, TypeOK, LooksUp
<1>1. \A k \in todo \cup writing : k.by # r
  BY <1>0 DEF Inv, JobsFit
<1>2. PICK next \in {"writing", "answered"} : phase' = [phase EXCEPT ![r] = next]
  BY DEF LooksUp, Answers
<1>3. (c \in table /\ todo' = todo \cup {j} /\ next = "writing") \/ todo' = todo
  BY <1>0, <1>2 DEF LooksUp, Answers
<1>4. j.by = r /\ j.what = "command" /\ (c \in table => j \in Job)
  BY DEF Inv, TypeOK, Job
<1>5. TypeOK'
  BY <1>0, <1>2, <1>3, <1>4 DEF Inv, TypeOK, LooksUp, Phase
<1> HIDE DEF j
<1>6. JobsFit'
  <2> SUFFICES ASSUME NEW k \in todo' \cup writing'
               PROVE  IF k.what = "clear" THEN k.by \in Publisher /\ phase'[k.by] = "clearing"
                      ELSE phase'[k.by] = "writing"
    BY DEF JobsFit
  <2>1. CASE k \in todo \cup writing
    <3>1. k.by # r /\ k.by \in Request
      BY <1>1, <2>1 DEF Inv, TypeOK, Job
    <3>2. phase'[k.by] = phase[k.by]
      BY <1>0, <1>2, <3>1
    <3>3. QED  BY <2>1, <3>2 DEF Inv, JobsFit
  <2>2. CASE k = j /\ next = "writing"
    BY <1>0, <1>2, <1>4, <2>2
  <2>3. QED  BY <1>0, <1>3, <2>1, <2>2
<1>7. DecidedOnce' /\ OneCommand'
  BY <1>0, <1>1, <1>3, <1>4 DEF Inv, DecidedOnce, OneCommand
<1>8. OwedIsPaid'
  BY <1>0, <1>2, <1>3 DEF Inv, OwedIsPaid, Told, Clear, Request
<1>9. CommandIsLast' /\ ClearedBeforePublish'
  BY <1>0, <1>2 DEF Inv, CommandIsLast, ClearedBeforePublish, Request
<1>10. QED  BY <1>5, <1>6, <1>7, <1>8, <1>9 DEF Inv

LEMMA BroadcastClearStep ==
  ASSUME Inv, NEW p \in Publisher, BroadcastClear(p)
  PROVE  Inv'
<1> USE DEF connVars
<1> DEFINE new == {[by |-> p, to |-> c, what |-> "clear"] : c \in table}
<1>0. /\ phase \in [Request -> Phase] /\ phase[p] = "asked" /\ up /\ p \in Request
      /\ phase' = [phase EXCEPT ![p] = "clearing"]
      /\ todo' = todo \cup new /\ owed' = [owed EXCEPT ![p] = table]
      /\ UNCHANGED <<up, table, writing, mixed, inbox>>
      /\ table \subseteq Container /\ owed \in [Publisher -> SUBSET Container]
  BY DEF Inv, TypeOK, BroadcastClear, Answers, Request
<1>1. \A k \in todo \cup writing : k.by # p
  BY <1>0 DEF Inv, JobsFit
<1>2. new \subseteq Job /\ \A j \in new : j.by = p /\ j.what = "clear"
  BY <1>0 DEF Job
<1>3. \A c \in table : Clear(p, c) \in new
  BY DEF Clear
<1>4. TypeOK'
  BY <1>0, <1>2 DEF Inv, TypeOK, BroadcastClear, Phase
<1> HIDE DEF new
<1>5. JobsFit'
  <2> SUFFICES ASSUME NEW k \in todo' \cup writing'
               PROVE  IF k.what = "clear" THEN k.by \in Publisher /\ phase'[k.by] = "clearing"
                      ELSE phase'[k.by] = "writing"
    BY DEF JobsFit
  <2>1. CASE k \in todo \cup writing
    <3>1. k.by # p /\ k.by \in Request
      BY <1>1, <2>1 DEF Inv, TypeOK, Job
    <3>2. phase'[k.by] = phase[k.by]
      BY <1>0, <3>1
    <3>3. QED  BY <2>1, <3>2 DEF Inv, JobsFit
  <2>2. CASE k \in new
    BY <1>0, <1>2, <2>2
  <2>3. QED  BY <1>0, <2>1, <2>2
<1>6. DecidedOnce' /\ OneCommand'
  BY <1>0, <1>1, <1>2 DEF Inv, DecidedOnce, OneCommand
<1>7. OwedIsPaid'
  <2> SUFFICES ASSUME NEW q \in Publisher, NEW c \in owed'[q]
               PROVE  Told(q, c)'
                      \/ (phase'[q] = "clearing" /\ Clear(q, c) \in todo' \cup writing')
    BY DEF OwedIsPaid, Clear
  <2>1. CASE q = p
    BY <1>0, <1>3, <2>1
  <2>2. CASE q # p
    <3>1. owed'[q] = owed[q] /\ phase'[q] = phase[q] /\ q \in Request
      BY <1>0, <2>2 DEF Request
    <3>2. QED  BY <1>0, <3>1 DEF Inv, OwedIsPaid, Told
  <2>3. QED  BY <2>1, <2>2
<1>8. CommandIsLast'
  BY <1>0 DEF Inv, CommandIsLast, Request
<1>9. ClearedBeforePublish'
  <2> SUFFICES ASSUME NEW q \in Publisher, NEW c \in Container, NEW i \in DOMAIN inbox[c],
                      inbox[c][i] = <<q, "command">>, NEW d \in owed'[q]
               PROVE  \E k \in DOMAIN inbox[d] :
                        inbox[d][k] = <<q, "clear">> /\ (d = c => k < i)
    BY <1>0 DEF ClearedBeforePublish
  <2>1. phase[q] = "answered" /\ q # p
    BY <1>0 DEF Inv, CommandIsLast
  <2>2. owed'[q] = owed[q]
    BY <1>0, <2>1
  <2>3. QED  BY <2>2 DEF Inv, ClearedBeforePublish
<1>10. QED  BY <1>4, <1>5, <1>6, <1>7, <1>8, <1>9 DEF Inv

LEMMA AllClearedStep ==
  ASSUME Inv, NEW p \in Publisher, AllCleared(p)
  PROVE  Inv'
<1> USE DEF connVars, writeVars
<1>0. /\ phase \in [Request -> Phase] /\ phase[p] = "clearing" /\ up /\ p \in Request
      /\ phase' = [phase EXCEPT ![p] = "choosing"]
      /\ UNCHANGED <<up, todo, writing, inbox, owed>>
  BY DEF Inv, TypeOK, AllCleared, Answers, Request
<1>1. \A k \in todo \cup writing : k.by # p
  BY DEF AllCleared, JobsOf
<1>2. TypeOK'
  BY <1>0 DEF Inv, TypeOK, AllCleared, Phase
<1>3. JobsFit'
  BY <1>0, <1>1 DEF Inv, TypeOK, Job, JobsFit
<1>4. DecidedOnce' /\ OneCommand'
  BY <1>0 DEF Inv, DecidedOnce, OneCommand
<1>5. OwedIsPaid'
  <2>1. \A c : Clear(p, c) \notin todo \cup writing
    BY <1>1 DEF Clear
  <2>2. \A q \in Publisher : q # p => phase'[q] = phase[q]
    BY <1>0 DEF Request
  <2>3. QED  BY <1>0, <2>1, <2>2 DEF Inv, OwedIsPaid, Told, Clear
<1>6. CommandIsLast' /\ ClearedBeforePublish'
  <2>1. CommandIsLast'
    BY <1>0 DEF Inv, CommandIsLast
  <2>2. QED  BY <1>0, <2>1 DEF Inv, ClearedBeforePublish
<1>7. QED  BY <1>2, <1>3, <1>4, <1>5, <1>6 DEF Inv

-----------------------------------------------------------------------------
(* The writes.                                                             *)

LEMMA StartsStep ==
  ASSUME Inv, NEW j \in todo \cup writing, Starts(j)
  PROVE  Inv'
<1> USE DEF connVars, requestVars
<1>0. /\ j \in todo /\ todo' = todo \ {j} /\ writing' = writing \cup {j}
      /\ UNCHANGED <<up, phase, inbox, owed>>
  BY DEF Starts
<1>1. mixed' \subseteq writing'
  BY <1>0 DEF Starts, Meets, Inv, TypeOK
<1>2. TypeOK'
  BY <1>0, <1>1 DEF Starts, Inv, TypeOK
<1>3. todo' \cup writing' = todo \cup writing
  BY <1>0
<1>4. JobsFit' /\ OneCommand' /\ DecidedOnce'
  BY <1>0, <1>3 DEF Inv, JobsFit, OneCommand, DecidedOnce
<1>5. OwedIsPaid'
  BY <1>0, <1>3 DEF Inv, OwedIsPaid, Told, Clear
<1>6. CommandIsLast' /\ ClearedBeforePublish'
  BY <1>0 DEF Inv, CommandIsLast, ClearedBeforePublish
<1>7. QED  BY <1>2, <1>4, <1>5, <1>6 DEF Inv

\* A write of a broadcast that is over leaves the phases alone.
LEMMA ClearEnds ==
  ASSUME Inv, NEW j \in writing, Ends(j), j.what = "clear", phase' = phase
  PROVE  JobsFit'
  BY AfterEnds DEF Inv, JobsFit

\* A command that is over answers its request.
LEMMA CommandEnds ==
  ASSUME Inv, NEW j \in writing, Ends(j), j.what # "clear", Answers(j.by, "answered")
  PROVE  /\ phase' = [phase EXCEPT ![j.by] = "answered"] /\ phase[j.by] = "writing"
         /\ phase' \in [Request -> Phase] /\ j.by \in Request
         /\ JobsFit'
<1>1. /\ j \in Job /\ j.what = "command" /\ j.by \in Request
      /\ phase \in [Request -> Phase] /\ phase' = [phase EXCEPT ![j.by] = "answered"]
  BY JobFields DEF Inv, TypeOK, Answers
<1>2. \A k \in todo' \cup writing' : k.by # j.by /\ k \in todo \cup writing /\ k.by \in Request
  BY <1>1, AfterEnds, JobFields DEF Inv, TypeOK
<1>3. JobsFit'
  BY <1>1, <1>2 DEF Inv, JobsFit
<1>4. QED  BY <1>1, <1>3 DEF Inv, JobsFit, Phase

\* Answering a request, without a message to any node, keeps the history true.
LEMMA AnswerHistory ==
  ASSUME Inv, NEW r \in Request, phase[r] = "writing", todo' = todo,
         NEW j \in writing, j.by = r, writing' = writing \ {j}, up' = up,
         phase' = [phase EXCEPT ![r] = "answered"], UNCHANGED <<inbox, owed>>
  PROVE  OwedIsPaid' /\ CommandIsLast' /\ ClearedBeforePublish'
<1>1. phase \in [Request -> Phase] /\ Publisher \subseteq Request
  BY DEF Inv, TypeOK, Request
<1>2. OwedIsPaid'
  <2> SUFFICES ASSUME up, NEW p \in Publisher, NEW c \in owed[p], ~Told(p, c)
               PROVE  phase'[p] = "clearing" /\ Clear(p, c) \in todo' \cup writing'
    BY DEF OwedIsPaid, Told, Clear
  <2>1. phase[p] = "clearing" /\ Clear(p, c) \in todo \cup writing
    BY DEF Inv, OwedIsPaid
  <2>2. p # r /\ p \in Request /\ Clear(p, c).by = p
    BY <1>1, <2>1 DEF Clear
  <2>3. QED  BY <1>1, <2>1, <2>2
<1>3. CommandIsLast'
  BY <1>1 DEF Inv, CommandIsLast
<1>4. ClearedBeforePublish'
  BY DEF Inv, ClearedBeforePublish
<1>5. QED  BY <1>2, <1>3, <1>4

LEMMA CommandFailsStep ==
  ASSUME Inv, NEW j \in todo \cup writing, CommandFails(j)
  PROVE  Inv'
<1>0. /\ j \in writing /\ Ends(j) /\ j.what # "clear" /\ Answers(j.by, "answered")
      /\ sock' = [sock EXCEPT ![j.to] = "closed"]
      /\ UNCHANGED <<up, uiStuck, table, conn, stopping, want, inbox, owed>>
  BY DEF CommandFails
<1>1. /\ phase' = [phase EXCEPT ![j.by] = "answered"] /\ phase[j.by] = "writing"
      /\ phase' \in [Request -> Phase] /\ j.by \in Request /\ JobsFit'
  BY <1>0, CommandEnds
<1>2. /\ todo' = todo /\ writing' = writing \ {j} /\ writing' \subseteq Job
      /\ mixed' \subseteq writing' /\ OneCommand' /\ DecidedOnce'
  BY <1>0, AfterEnds
<1>3. TypeOK'
  BY <1>0, <1>1, <1>2 DEF Inv, TypeOK, SockState
<1>4. OwedIsPaid' /\ CommandIsLast' /\ ClearedBeforePublish'
  BY <1>0, <1>1, <1>2, AnswerHistory
<1>5. QED  BY <1>1, <1>2, <1>3, <1>4 DEF Inv

LEMMA PanicsStep ==
  ASSUME Inv, NEW j \in todo \cup writing, Panics(j)
  PROVE  Inv'
<1> USE DEF connVars
<1>0. /\ j \in writing /\ Ends(j)
      /\ UNCHANGED <<uiStuck, table, sock, conn, stopping, want, inbox, owed>>
  BY DEF Panics, Inv, TypeOK
<1>1. /\ todo' = todo /\ writing' = writing \ {j} /\ writing' \subseteq Job
      /\ mixed' \subseteq writing' /\ OneCommand' /\ DecidedOnce'
  BY <1>0, AfterEnds
<1>2. CASE j.what = "clear"
  <2>1. up' = FALSE /\ phase' = phase
    BY <1>2 DEF Panics
  <2>2. TypeOK'
    BY <1>0, <1>1, <2>1 DEF Inv, TypeOK
  <2>3. JobsFit'
    BY <1>0, <1>2, <2>1, ClearEnds
  <2>4. OwedIsPaid'
    BY <2>1 DEF OwedIsPaid
  <2>5. CommandIsLast' /\ ClearedBeforePublish'
    BY <1>0, <2>1 DEF Inv, CommandIsLast, ClearedBeforePublish
  <2>6. QED  BY <1>1, <2>2, <2>3, <2>4, <2>5 DEF Inv
<1>3. CASE j.what # "clear"
  <2>1. Answers(j.by, "answered") /\ up' = up
    BY <1>3 DEF Panics
  <2>2. /\ phase' = [phase EXCEPT ![j.by] = "answered"] /\ phase[j.by] = "writing"
        /\ phase' \in [Request -> Phase] /\ j.by \in Request /\ JobsFit'
    BY <1>0, <1>3, <2>1, CommandEnds
  <2>3. TypeOK'
    BY <1>0, <1>1, <2>1, <2>2 DEF Inv, TypeOK
  <2>4. OwedIsPaid' /\ CommandIsLast' /\ ClearedBeforePublish'
    BY <1>0, <1>1, <2>1, <2>2, AnswerHistory
  <2>5. QED  BY <1>1, <2>2, <2>3, <2>4 DEF Inv
<1>4. QED  BY <1>2, <1>3

\* A node that has not been reached is not counted on.
LEMMA ClearFailsStep ==
  ASSUME Inv, NEW j \in todo \cup writing, ClearFails(j)
  PROVE  Inv'
<1> USE DEF requestVars
<1>0. /\ j \in writing /\ j.what = "clear" /\ Ends(j)
      /\ owed' = [owed EXCEPT ![j.by] = @ \ {j.to}]
      /\ UNCHANGED <<up, uiStuck, table, conn, stopping, want, phase, inbox>>
      /\ sock' \in [Container -> SockState]
      /\ owed \in [Publisher -> SUBSET Container]
  BY DEF ClearFails, Inv, TypeOK, SockState
<1>1. /\ todo' = todo /\ writing' = writing \ {j} /\ writing' \subseteq Job
      /\ mixed' \subseteq writing' /\ OneCommand' /\ DecidedOnce' /\ j \in Job
  BY <1>0, AfterEnds
<1>2. j.by \in Publisher /\ j = Clear(j.by, j.to)
  BY <1>0, <1>1, JobFields DEF Inv, JobsFit, Clear
<1>3. TypeOK'
  BY <1>0, <1>1, <1>2 DEF Inv, TypeOK
<1>4. JobsFit'
  BY <1>0, ClearEnds
<1>5. \A p \in Publisher : owed'[p] \subseteq owed[p]
                           /\ (p = j.by => j.to \notin owed'[p])
  BY <1>0, <1>2
<1>6. OwedIsPaid'
  <2> SUFFICES ASSUME up, NEW p \in Publisher, NEW c \in owed'[p], ~Told(p, c)
               PROVE  phase'[p] = "clearing" /\ Clear(p, c) \in todo' \cup writing'
    BY <1>0 DEF OwedIsPaid, Told, Clear
  <2>1. phase[p] = "clearing" /\ Clear(p, c) \in todo \cup writing
    BY <1>5 DEF Inv, OwedIsPaid
  <2>2. Clear(p, c) # j
    BY <1>5 DEF Clear
  <2>3. QED  BY <1>0, <1>1, <2>1, <2>2
<1>7. CommandIsLast'
  BY <1>0 DEF Inv, CommandIsLast
<1>8. ClearedBeforePublish'
  <2> SUFFICES ASSUME NEW p \in Publisher, NEW c \in Container, NEW i \in DOMAIN inbox[c],
                      inbox[c][i] = <<p, "command">>, NEW d \in owed'[p]
               PROVE  \E k \in DOMAIN inbox[d] :
                        inbox[d][k] = <<p, "clear">> /\ (d = c => k < i)
    BY <1>0 DEF ClearedBeforePublish
  <2>1. d \in owed[p]
    BY <1>5
  <2>2. QED  BY <2>1 DEF Inv, ClearedBeforePublish
<1>9. QED  BY <1>1, <1>3, <1>4, <1>6, <1>7, <1>8 DEF Inv

\* Inboxes only get longer, and by the message that is written.
LEMMA InboxGrows ==
  ASSUME Inv, NEW j \in writing, j \in Job,
         inbox' = IF j.by \in Publisher
                  THEN [inbox EXCEPT ![j.to] = Append(@, <<j.by, j.what>>)] ELSE inbox
  PROVE  /\ inbox' \in [Container -> Seq(Publisher \X {"clear", "command"})]
         /\ \A c \in Container : \A i \in DOMAIN inbox[c] :
              i \in DOMAIN inbox'[c] /\ inbox'[c][i] = inbox[c][i]
         /\ \A c \in Container : \A i \in DOMAIN inbox'[c] \ DOMAIN inbox[c] :
              /\ c = j.to /\ inbox'[c][i] = <<j.by, j.what>>
              /\ \A k \in DOMAIN inbox[c] : k < i
         /\ j.by \in Publisher =>
              \E i \in DOMAIN inbox'[j.to] : inbox'[j.to][i] = <<j.by, j.what>>
<1>0. inbox \in [Container -> Inbox] /\ j.to \in Container /\ j.what \in {"clear", "command"}
  BY JobFields DEF Inv, TypeOK, Inbox
<1>1. CASE j.by \notin Publisher
  BY <1>0, <1>1 DEF Inbox
<1>2. CASE j.by \in Publisher
  <2> DEFINE m == <<j.by, j.what>>
             s == inbox[j.to]
  <2>1. m \in Publisher \X {"clear", "command"} /\ s \in Inbox
    BY <1>0, <1>2
  <2>2. inbox' = [inbox EXCEPT ![j.to] = Append(s, m)]
    BY <1>2
  <2> HIDE DEF m
  <2>3. /\ Append(s, m) \in Inbox /\ Len(s) \in Nat /\ DOMAIN s = 1 .. Len(s)
        /\ DOMAIN Append(s, m) = 1 .. Len(s) + 1 /\ Append(s, m)[Len(s) + 1] = m
        /\ \A i \in 1 .. Len(s) : Append(s, m)[i] = s[i]
    BY <2>1, InboxAppend
  <2>4. inbox'[j.to] = Append(s, m) /\ \A c \in Container \ {j.to} : inbox'[c] = inbox[c]
    BY <1>0, <2>2
  <2>5. inbox' \in [Container -> Inbox]
    BY <1>0, <2>2, <2>3
  <2>6. ASSUME NEW c \in Container, NEW i \in DOMAIN inbox[c]
        PROVE  i \in DOMAIN inbox'[c] /\ inbox'[c][i] = inbox[c][i]
    <3>1. CASE c = j.to
      BY <2>3, <2>4, <3>1
    <3>2. CASE c # j.to
      BY <2>4, <3>2
    <3>3. QED  BY <3>1, <3>2
  <2>7. ASSUME NEW c \in Container, NEW i \in DOMAIN inbox'[c] \ DOMAIN inbox[c]
        PROVE  c = j.to /\ inbox'[c][i] = m /\ \A k \in DOMAIN inbox[c] : k < i
    <3>1. c = j.to
      BY <2>4
    <3>2. i = Len(s) + 1
      BY <2>3, <2>4, <3>1
    <3>3. QED  BY <2>3, <2>4, <3>1, <3>2
  <2>8. Len(s) + 1 \in DOMAIN inbox'[j.to] /\ inbox'[j.to][Len(s) + 1] = m
    BY <2>3, <2>4
  <2>9. QED  BY <2>5, <2>6, <2>7, <2>8 DEF m, Inbox
<1>3. QED  BY <1>1, <1>2

LEMMA WrittenStep ==
  ASSUME Inv, NEW j \in todo \cup writing, Written(j)
  PROVE  Inv'
<1> USE DEF connVars
<1>0. /\ j \in writing /\ Ends(j) /\ up
      /\ inbox' = IF j.by \in Publisher
                  THEN [inbox EXCEPT ![j.to] = Append(@, <<j.by, j.what>>)] ELSE inbox
      /\ UNCHANGED <<up, uiStuck, table, sock, conn, stopping, want, owed>>
  BY DEF Written
<1>1. /\ todo' = todo /\ writing' = writing \ {j} /\ writing' \subseteq Job
      /\ mixed' \subseteq writing' /\ OneCommand' /\ DecidedOnce' /\ j \in Job
  BY <1>0, AfterEnds
<1>2. /\ j.by \in Request /\ j.to \in Container /\ j.what \in {"clear", "command"}
      /\ j = [by |-> j.by, to |-> j.to, what |-> j.what]
  BY <1>1, JobFields
<1>3. /\ inbox' \in [Container -> Seq(Publisher \X {"clear", "command"})]
      /\ \A c \in Container : \A i \in DOMAIN inbox[c] :
           i \in DOMAIN inbox'[c] /\ inbox'[c][i] = inbox[c][i]
      /\ \A c \in Container : \A i \in DOMAIN inbox'[c] \ DOMAIN inbox[c] :
           /\ c = j.to /\ inbox'[c][i] = <<j.by, j.what>>
           /\ \A k \in DOMAIN inbox[c] : k < i
      /\ j.by \in Publisher =>
           \E i \in DOMAIN inbox'[j.to] : inbox'[j.to][i] = <<j.by, j.what>>
  BY <1>0, <1>1, InboxGrows
<1>4. \A p, c : c \in Container /\ Told(p, c) => Told(p, c)'
  BY <1>3 DEF Told
<1>5. owed \in [Publisher -> SUBSET Container] /\ phase \in [Request -> Phase]
  BY DEF Inv, TypeOK
<1>6. CASE j.what = "clear"
  <2>1. phase' = phase /\ j.by \in Publisher
    BY <1>0, <1>6 DEF Written, Inv, JobsFit
  <2>2. TypeOK'
    BY <1>0, <1>1, <1>3, <2>1 DEF Inv, TypeOK
  <2>3. JobsFit'
    BY <1>0, <1>6, <2>1, ClearEnds
  <2>4. Told(j.by, j.to)'
    BY <1>3, <1>6, <2>1 DEF Told
  <2>5. OwedIsPaid'
    <3> SUFFICES ASSUME NEW p \in Publisher, NEW c \in owed[p], ~Told(p, c)'
                 PROVE  phase'[p] = "clearing" /\ Clear(p, c) \in todo' \cup writing'
      BY <1>0 DEF OwedIsPaid, Clear
    <3>1. c \in Container /\ ~Told(p, c)
      BY <1>4, <1>5
    <3>2. phase[p] = "clearing" /\ Clear(p, c) \in todo \cup writing
      BY <1>0, <3>1 DEF Inv, OwedIsPaid
    <3>3. Clear(p, c) # j
      BY <2>4 DEF Clear
    <3>4. QED  BY <1>1, <2>1, <3>2, <3>3
  <2>6. \A p, c : c \in Container =>
          \A i \in DOMAIN inbox'[c] : inbox'[c][i] = <<p, "command">> =>
            i \in DOMAIN inbox[c] /\ inbox[c][i] = <<p, "command">>
    BY <1>3, <1>6
  <2>7. CommandIsLast'
    BY <2>1, <2>6 DEF Inv, CommandIsLast
  <2>8. ClearedBeforePublish'
    <3> SUFFICES ASSUME NEW p \in Publisher, NEW c \in Container, NEW i \in DOMAIN inbox'[c],
                        inbox'[c][i] = <<p, "command">>, NEW d \in owed'[p]
                 PROVE  \E k \in DOMAIN inbox'[d] :
                          inbox'[d][k] = <<p, "clear">> /\ (d = c => k < i)
      BY DEF ClearedBeforePublish
    <3>0. d \in owed[p] /\ d \in Container
      BY <1>0, <1>5
    <3>1. i \in DOMAIN inbox[c] /\ inbox[c][i] = <<p, "command">>
      BY <2>6
    <3>2. PICK k \in DOMAIN inbox[d] : inbox[d][k] = <<p, "clear">> /\ (d = c => k < i)
      BY <3>0, <3>1 DEF Inv, ClearedBeforePublish
    <3>3. k \in DOMAIN inbox'[d] /\ inbox'[d][k] = <<p, "clear">>
      BY <1>3, <3>0, <3>2
    <3>4. QED  BY <3>2, <3>3
  <2>9. QED  BY <1>1, <2>2, <2>3, <2>5, <2>7, <2>8 DEF Inv
<1>7. CASE j.what # "clear"
  <2>0. Answers(j.by, "answered")
    BY <1>7 DEF Written
  <2>1. /\ phase' = [phase EXCEPT ![j.by] = "answered"] /\ phase[j.by] = "writing"
        /\ phase' \in [Request -> Phase] /\ JobsFit'
    BY <1>0, <1>7, <2>0, CommandEnds
  <2>2. TypeOK'
    BY <1>0, <1>1, <1>3, <2>1 DEF Inv, TypeOK
  <2>3. OwedIsPaid'
    <3> SUFFICES ASSUME NEW p \in Publisher, NEW c \in owed[p], ~Told(p, c)'
                 PROVE  phase'[p] = "clearing" /\ Clear(p, c) \in todo' \cup writing'
      BY <1>0 DEF OwedIsPaid, Clear
    <3>1. c \in Container /\ ~Told(p, c)
      BY <1>4, <1>5
    <3>2. phase[p] = "clearing" /\ Clear(p, c) \in todo \cup writing
      BY <1>0, <3>1 DEF Inv, OwedIsPaid
    <3>3. p # j.by /\ p \in Request /\ Clear(p, c) # j
      BY <1>7, <2>1, <3>2 DEF Clear, Request
    <3>4. QED  BY <1>1, <1>5, <2>1, <3>2, <3>3
  <2>4. CommandIsLast'
    <3> SUFFICES ASSUME NEW p \in Publisher, NEW c \in Container, NEW i \in DOMAIN inbox'[c],
                        inbox'[c][i] = <<p, "command">>
                 PROVE  phase'[p] = "answered"
      BY DEF CommandIsLast
    <3>1. p \in Request
      BY DEF Request
    <3>2. CASE i \in DOMAIN inbox[c]
      BY <1>3, <1>5, <2>1, <3>1, <3>2 DEF Inv, CommandIsLast
    <3>3. CASE i \notin DOMAIN inbox[c]
      BY <1>2, <1>3, <1>5, <2>1, <3>3
    <3>4. QED  BY <3>2, <3>3
  <2>5. ClearedBeforePublish'
    <3> SUFFICES ASSUME NEW p \in Publisher, NEW c \in Container, NEW i \in DOMAIN inbox'[c],
                        inbox'[c][i] = <<p, "command">>, NEW d \in owed'[p]
                 PROVE  \E k \in DOMAIN inbox'[d] :
                          inbox'[d][k] = <<p, "clear">> /\ (d = c => k < i)
      BY DEF ClearedBeforePublish
    <3>0. d \in owed[p] /\ d \in Container
      BY <1>0, <1>5
    <3>1. CASE i \in DOMAIN inbox[c]
      <4>1. inbox[c][i] = <<p, "command">>
        BY <1>3, <3>1
      <4>2. PICK k \in DOMAIN inbox[d] : inbox[d][k] = <<p, "clear">> /\ (d = c => k < i)
        BY <3>0, <3>1, <4>1 DEF Inv, ClearedBeforePublish
      <4>3. k \in DOMAIN inbox'[d] /\ inbox'[d][k] = <<p, "clear">>
        BY <1>3, <3>0, <4>2
      <4>4. QED  BY <4>2, <4>3
    <3>2. CASE i \notin DOMAIN inbox[c]
      <4>1. p = j.by /\ \A k \in DOMAIN inbox[c] : k < i
        BY <1>3, <3>2
      <4>2. Told(p, d)
        BY <1>0, <2>1, <3>0, <4>1 DEF Inv, OwedIsPaid
      <4>3. PICK k \in DOMAIN inbox[d] : inbox[d][k] = <<p, "clear">>
        BY <4>2 DEF Told
      <4>4. k \in DOMAIN inbox'[d] /\ inbox'[d][k] = <<p, "clear">>
        BY <1>3, <3>0, <4>3
      <4>5. QED  BY <4>1, <4>3, <4>4
    <3>3. QED  BY <3>1, <3>2
  <2>6. QED  BY <1>1, <2>1, <2>2, <2>3, <2>4, <2>5 DEF Inv
<1>8. QED  BY <1>6, <1>7

LEMMA InvStep ==
  ASSUME Inv, [Next]_vars
  PROVE  Inv'
<1>1. CASE up /\ UiTurns
  <2>1. TypeOK'
    BY <1>1 DEF Inv, TypeOK, UiTurns, connVars, requestVars, writeVars
  <2>2. QED  BY <1>1, <2>1, WritesUnmoved DEF UiTurns, requestVars, writeVars
<1>2. ASSUME NEW c \in Container,
             \/ up /\ (NodeDies(c) \/ NodeStalls(c) \/ Replies(c) \/ ReadsUpdate(c)
                      \/ StopWaits(c) \/ Stops(c))
             \/ Connection(c)
      PROVE  Inv'
  BY <1>2, SurroundingStep, ConnectionStep
<1>3. ASSUME NEW p \in Publisher, PublishToTopic(p) \/ Publishing(p)  PROVE Inv'
  <2>1. p \in Request
    BY DEF Request
  <2>2. CASE PublishToTopic(p)
    BY <2>1, <2>2, AsksStep DEF PublishToTopic
  <2>3. CASE BroadcastClear(p) \/ AllCleared(p)
    BY <2>3, BroadcastClearStep, AllClearedStep
  <2>4. CASE PublishHandler(p)
    BY <2>1, <2>4, LooksUpStep DEF PublishHandler
  <2>5. QED  BY <1>3, <2>2, <2>3, <2>4 DEF Publishing
<1>4. ASSUME NEW r \in Commander, ConnectTo(r) \/ HandleDht(r) \/ Handler(r)  PROVE Inv'
  <2>1. r \in Request
    BY DEF Request
  <2>2. CASE ConnectTo(r) \/ HandleDht(r)
    BY <2>1, <2>2, AsksStep DEF ConnectTo, HandleDht
  <2>3. CASE Handler(r)
    BY <2>1, <2>3, LooksUpStep DEF Handler, Handles, ConnectHandler, DhtProvideHandler,
       DhtFindProviderHandler, DhtFindPeerHandler, DhtPutHandler, DhtGetHandler
  <2>4. QED  BY <1>4, <2>2, <2>3
<1>5. ASSUME NEW j \in todo \cup writing, Write(j)  PROVE Inv'
  BY <1>5, StartsStep, WrittenStep, ClearFailsStep, CommandFailsStep, PanicsStep DEF Write
<1>6. CASE UNCHANGED vars
  <2>1. TypeOK'
    BY <1>6 DEF vars, Inv, TypeOK
  <2>2. QED  BY <1>6, <2>1, WritesUnmoved DEF vars
<1>7. QED
  BY <1>1, <1>2, <1>3, <1>4, <1>5, <1>6 DEF Next

-----------------------------------------------------------------------------
(* The theorems.                                                           *)

\* The order in which a request does its work holds for any number of
\* requests that meet on any number of connections.
THEOREM Invariance == Spec => []Inv
<1>1. QED
  BY InvInit, InvStep, PTL DEF Spec

\* The state of the handlers and of the table stays well formed.
THEOREM TypeCorrectness == Spec => []TypeOK
<1>1. Inv => TypeOK
  BY DEF Inv
<1>2. QED  BY <1>1, Invariance, PTL

\* Two writers on one connection come from two requests.
THEOREM ClashesTakeTwo == Spec => []ClashTakesTwo
<1>1. Inv => ClashTakesTwo
  <2> SUFFICES ASSUME Inv, NEW j \in writing, NEW k \in writing,
                      j.to = k.to, j.by = k.by
               PROVE  j = k
    BY DEF ClashTakesTwo
  <2>1. j \in Job /\ k \in Job
    BY DEF Inv, TypeOK
  <2>2. CASE j.what = "command" \/ k.what = "command"
    BY <2>2 DEF Inv, OneCommand
  <2>3. CASE j.what = "clear" /\ k.what = "clear"
    BY <2>1, <2>3, JobFields
  <2>4. QED  BY <2>1, <2>2, <2>3, JobFields
<1>2. QED  BY <1>1, Invariance, PTL

\* A publish never overtakes its own clear.
THEOREM ClearsComeFirst == Spec => []ClearedBeforePublish
<1>1. Inv => ClearedBeforePublish
  BY DEF Inv
<1>2. QED  BY <1>1, Invariance, PTL

-----------------------------------------------------------------------------
(* The table implements the registry.                                      *)

\* A container that is in the table has been connected.
TableIsJoined == \A c \in table : conn[c] \notin {"none", "joining"}

LEMMA TableStep ==
  ASSUME TypeOK, TableIsJoined, [Next]_vars
  PROVE  TableIsJoined'
<1>1. ASSUME NEW c \in Container,
             NodeDies(c) \/ NodeStalls(c) \/ Replies(c) \/ ReadsUpdate(c)
             \/ StopWaits(c) \/ Stops(c)
             \/ Connection(c)
      PROVE  TableIsJoined'
  BY <1>1 DEF TypeOK, TableIsJoined, NodeDies, NodeStalls, Replies, ReadsUpdate, StopWaits, Stops,
     Connection, Joins, Forwarded, ReadFails, Leaves, Goes
<1>2. ASSUME table' = table, conn' = conn  PROVE TableIsJoined'
  BY <1>2 DEF TableIsJoined
<1>3. UiTurns => table' = table /\ conn' = conn
  BY DEF UiTurns, connVars
<1>4. ASSUME NEW p \in Publisher, PublishToTopic(p) \/ Publishing(p)
      PROVE  table' = table /\ conn' = conn
  BY <1>4 DEF connVars, PublishToTopic, Asks, Publishing, BroadcastClear, AllCleared,
     PublishHandler, LooksUp
<1>5. ASSUME NEW r \in Commander, ConnectTo(r) \/ HandleDht(r) \/ Handler(r)
      PROVE  table' = table /\ conn' = conn
  BY <1>5 DEF connVars, ConnectTo, HandleDht, Asks, Handler, Handles, LooksUp,
     ConnectHandler, DhtProvideHandler, DhtFindProviderHandler, DhtFindPeerHandler,
     DhtPutHandler, DhtGetHandler
<1>6. ASSUME NEW j \in todo \cup writing, Write(j)
      PROVE  table' = table /\ conn' = conn
  BY <1>6 DEF connVars, Write, Starts, Written, ClearFails, CommandFails, Panics
<1>7. UNCHANGED vars => table' = table /\ conn' = conn
  BY DEF vars
<1>8. QED
  BY <1>1, <1>2, <1>3, <1>4, <1>5, <1>6, <1>7 DEF Next

LEMMA EntryUnmoved ==
  ASSUME table' = table, sock' = sock, conn' = conn
  PROVE  entry' = entry
  BY DEF entry

\* A step that moves one entry is an EXCEPT.
LEMMA EntryOfOne ==
  ASSUME NEW c \in Container, \A d \in Container \ {c} : entry'[d] = entry[d]
  PROVE  entry' = [entry EXCEPT ![c] = entry'[c]]
  BY DEF entry

\* A step that has to do with one connection, and what the registry allows.
LEMMA EntryMoves ==
  ASSUME NEW c \in Container, \A d \in Container \ {c} : entry'[d] = entry[d],
         \/ entry'[c] = entry[c]
         \/ entry[c] = "absent" /\ entry'[c] \in {"usable", "broken"}
         \/ entry[c] = "usable" /\ entry'[c] \in {"broken", "gone"}
         \/ entry[c] = "broken" /\ entry'[c] = "gone"
  PROVE  [Registry!Next]_entry
<1>1. entry' = [entry EXCEPT ![c] = entry'[c]]
  BY EntryOfOne
<1>2. CASE entry'[c] = entry[c]
  BY <1>1, <1>2 DEF entry
<1>3. CASE entry[c] = "absent" /\ entry'[c] \in {"usable", "broken"}
  BY <1>1, <1>3 DEF Registry!Next, Registry!Connects, Registry!Becomes
<1>4. CASE entry[c] = "usable" /\ entry'[c] = "broken"
  BY <1>1, <1>4 DEF Registry!Next, Registry!Breaks, Registry!Becomes
<1>5. CASE entry[c] = "usable" /\ entry'[c] = "gone"
  BY <1>1, <1>5 DEF Registry!Next, Registry!Closes, Registry!Becomes
<1>6. CASE entry[c] = "broken" /\ entry'[c] = "gone"
  BY <1>1, <1>6 DEF Registry!Next, Registry!Reaps, Registry!Becomes
<1>7. QED  BY <1>2, <1>3, <1>4, <1>5, <1>6

LEMMA RegistryStep ==
  ASSUME TypeOK, TableIsJoined, [Next]_vars
  PROVE  [Registry!Next]_entry
<1>0. /\ sock \in [Container -> SockState] /\ table \subseteq Container
      /\ todo \cup writing \subseteq Job
      /\ conn \in [Container -> {"none", "joining", "reading",
                                "forwarding", "leaving", "gone"}]
  BY DEF TypeOK
<1>1. ASSUME NEW c \in Container,
             NodeDies(c) \/ NodeStalls(c) \/ Replies(c) \/ ReadsUpdate(c)
             \/ StopWaits(c) \/ Stops(c)
             \/ Connection(c)
      PROVE  [Registry!Next]_entry
  <2>1. \A d \in Container \ {c} : entry'[d] = entry[d]
    BY <1>0, <1>1 DEF entry, NodeDies, NodeStalls, Replies, ReadsUpdate, StopWaits, Stops, Connection,
       Joins, Forwarded, ReadFails, Leaves, Goes
  <2>2. CASE NodeDies(c)
    BY <1>0, <2>1, <2>2, EntryMoves DEF entry, NodeDies, Usable
  <2>3. CASE NodeStalls(c) \/ ReadsUpdate(c) \/ Forwarded(c) \/ ReadFails(c)
    <3>1. entry'[c] = entry[c]
      BY <1>0, <2>3 DEF entry, NodeStalls, ReadsUpdate, Forwarded, ReadFails, Goes, Usable,
         TableIsJoined
    <3>2. QED  BY <2>1, <3>1, EntryMoves
  <2>4. CASE Replies(c)
    BY <1>0, <2>1, <2>4, EntryMoves DEF entry, Replies, Goes, TableIsJoined
  <2>5. CASE Joins(c)
    BY <1>0, <2>1, <2>5, EntryMoves DEF entry, Joins, Goes, TableIsJoined
  <2>6. CASE Leaves(c)
    BY <1>0, <2>1, <2>6, EntryMoves DEF entry, Leaves, Goes, TableIsJoined
  <2>7. CASE StopWaits(c)
    BY <2>1, <2>7, EntryMoves DEF entry, StopWaits
  <2>8. CASE Stops(c)
    BY <1>0, <2>1, <2>8, EntryMoves DEF entry, Stops, TableIsJoined
  <2>9. QED  BY <1>1, <2>2, <2>3, <2>4, <2>5, <2>6, <2>7, <2>8 DEF Connection
<1>2. UiTurns => entry' = entry
  BY EntryUnmoved DEF UiTurns, connVars
<1>3. ASSUME NEW p \in Publisher, PublishToTopic(p) \/ Publishing(p)  PROVE entry' = entry
  BY <1>3, EntryUnmoved DEF connVars, PublishToTopic, Asks, Publishing, BroadcastClear,
     AllCleared, PublishHandler, LooksUp
<1>4. ASSUME NEW r \in Commander, ConnectTo(r) \/ HandleDht(r) \/ Handler(r)
      PROVE  entry' = entry
  BY <1>4, EntryUnmoved DEF connVars, ConnectTo, HandleDht, Asks, Handler, Handles, LooksUp,
     ConnectHandler, DhtProvideHandler, DhtFindProviderHandler, DhtFindPeerHandler,
     DhtPutHandler, DhtGetHandler
<1>5. ASSUME NEW j \in todo \cup writing, Write(j)  PROVE [Registry!Next]_entry
  <2>1. j.to \in Container
    BY <1>0, JobFields
  <2>2. CASE Starts(j) \/ Written(j) \/ Panics(j)
    BY <2>2, EntryUnmoved DEF Starts, Written, Panics, connVars
  <2>3. CASE ClearFails(j)
    <3>1. \A d \in Container : entry'[d] = entry[d]
      BY <1>0, <2>3 DEF entry, ClearFails, Usable
    <3>2. QED  BY <2>1, <3>1, EntryMoves
  <2>4. CASE CommandFails(j)
    <3>1. \A d \in Container \ {j.to} : entry'[d] = entry[d]
      BY <1>0, <2>4 DEF entry, CommandFails
    <3>2. entry'[j.to] = entry[j.to]
          \/ (entry[j.to] = "usable" /\ entry'[j.to] = "broken")
      BY <1>0, <2>1, <2>4 DEF entry, CommandFails, Usable
    <3>3. QED  BY <2>1, <3>1, <3>2, EntryMoves
  <2>5. QED  BY <1>5, <2>2, <2>3, <2>4 DEF Write
<1>6. UNCHANGED vars => entry' = entry
  BY EntryUnmoved DEF vars
<1>7. QED
  BY <1>1, <1>2, <1>3, <1>4, <1>5, <1>6 DEF Next

\* Commands, broadcasts and readers that wait for the UI keep the promise of
\* ConnectionRegistry, which ContainerLifecycle keeps for the rest of the
\* controller: what commands take for granted is what the lifecycle provides.
THEOREM RegistryImplemented == Spec => ImplementsRegistry
<1>1. Init => Registry!Init /\ TableIsJoined
  BY DEF Init, entry, TableIsJoined, Registry!Init, Registry!Fresh
<1>2. TypeOK /\ TableIsJoined /\ [Next]_vars => TableIsJoined' /\ [Registry!Next]_entry
  BY TableStep, RegistryStep
<1>3. QED
  BY <1>1, <1>2, TypeCorrectness, PTL DEF Spec, ImplementsRegistry, Registry!Spec
=============================================================================
