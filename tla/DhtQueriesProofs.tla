-------------------------- MODULE DhtQueriesProofs --------------------------
(***************************************************************************)
(* Proofs about DhtQueries, for any set of commands received and lists of  *)
(* providers of any length.                                                *)
(***************************************************************************)
EXTENDS DhtQueries, SequenceTheorems, TLAPS

\* A handler has a command once it is no longer new.
Handling == [cmd : Command \cup {"none"},
             pc : {"new", "aborting", "prepared", "running", "done"}]
Started ==
  /\ query \in [Query -> Handling]
  /\ \A q \in Query :
       /\ query[q].pc = "new" <=> query[q].cmd = "none"
       /\ query[q].pc = "aborting" => query[q].cmd \in Searches

\* What a search shows: "searching" stands alone, "aborted" is shown only
\* while the search that says so has yet to announce itself.
SearchLists ==
  \A cmd \in Command \cap Searches :
    /\ status[cmd] # "inprogress"
    /\ \A i \in 1 .. Len(result[cmd]) :
         /\ result[cmd][i] = "searching" => i = 1 /\ Len(result[cmd]) = 1
         /\ result[cmd][i] = "aborted" => \E p \in Query : At(p, cmd, "aborting")
         /\ result[cmd][i] # "storing"
\* provide shows a status only.
ProvideList == "provide" \in Command => result["provide"] = <<>>
Lists == SearchLists /\ ProvideList

\* The commands that have arrived are in order, and a controller belongs to a
\* query of its command.
Arrived ==
  /\ \A q \in Query : query[q].pc # "new" <=> \E i \in 1 .. Len(order) : order[i] = q
  /\ \A cmd \in Command : \A q \in control[cmd] : query[q].cmd = cmd

\* The inductive invariant.
Inv == TypeOK /\ Started /\ Lists /\ QuietMeansSettled /\ Arrived /\ NewestNotAborted

-----------------------------------------------------------------------------
(* Lemmas about the data.                                                  *)

LEMMA InvTypes ==
  ASSUME Inv
  PROVE  /\ query \in [Query -> Handling]
         /\ result \in [Command -> Seq(Item)]
         /\ status \in [Command -> {"null", "inprogress", "done", "error"}]
         /\ control \in [Command -> SUBSET Query]
         /\ aborted \subseteq Query /\ order \in Seq(Query)
  BY DEF Inv, TypeOK, Started

\* Lists of one item.
LEMMA OneItem ==
  ASSUME NEW x \in Item
  PROVE  <<x>> \in Seq(Item) /\ Len(<<x>>) = 1 /\ <<x>>[1] = x
  OBVIOUS

LEMMA Items ==
  /\ {"aborted", "searching", "storing", "found", "value", "invalid", "error"} \subseteq Item
  /\ "ended-after-60s" \in Item
  /\ \A cmd \in Commands : NotFound(cmd) \in Item
                           /\ NotFound(cmd) \notin {"searching", "aborted", "storing"}
  BY DEF Item, NotFound

\* What Append does to a list.
LEMMA Appended ==
  ASSUME NEW S, NEW s \in Seq(S), NEW x \in S
  PROVE  /\ Append(s, x) \in Seq(S) /\ Len(s) \in Nat
         /\ Len(Append(s, x)) = Len(s) + 1
         /\ Append(s, x)[Len(s) + 1] = x
         /\ \A i \in 1 .. Len(s) : Append(s, x)[i] = s[i]
  OBVIOUS

\* Another first item.
LEMMA Replaced ==
  ASSUME NEW S, NEW s \in Seq(S), s # <<>>, NEW x \in S
  PROVE  /\ [s EXCEPT ![1] = x] \in Seq(S)
         /\ Len([s EXCEPT ![1] = x]) = Len(s) /\ Len(s) \in Nat \ {0}
         /\ [s EXCEPT ![1] = x][1] = x
         /\ \A i \in 2 .. Len(s) : [s EXCEPT ![1] = x][i] = s[i]
  BY ExceptSeq, EmptySeq, LenProperties

-----------------------------------------------------------------------------
(* Handlers, lists and statuses.                                           *)

\* One status or list is settled.
Settled(s, list, cmd) ==
  /\ s # "inprogress"
  /\ cmd # "findprovider" =>
       \A i \in 1 .. Len(list) : list[i] \notin {"searching", "aborted", "storing"}

\* Another handler of the command is at work.
Others(q, cmd) == \E p \in Query \ {q} : query[p].cmd = cmd /\ query[p].pc # "done"

\* What a list of a search may be after a step that takes a handler to pc.
SearchFits(q, cmd, pc, list) ==
  \A i \in 1 .. Len(list) :
    /\ list[i] = "searching" => i = 1 /\ Len(list) = 1
    /\ list[i] = "aborted" =>
         pc = "aborting" \/ \E p \in Query \ {q} : At(p, cmd, "aborting")
    /\ list[i] # "storing"

\* What every step is: a handler that may change the list and the status of
\* its own command, with a list that fits, and with somebody still at work on
\* the command or a result that is settled.
HandlerMoves(q, cmd, pc, list, s) ==
  /\ query[q].cmd = cmd \/ query[q].cmd = "none"
  /\ query' = [query EXCEPT ![q] = [cmd |-> cmd, pc |-> pc]]
  /\ result' = [result EXCEPT ![cmd] = list] /\ status' = [status EXCEPT ![cmd] = s]
  /\ pc = "aborting" => cmd \in Searches
  /\ cmd \in Searches => s # "inprogress" /\ SearchFits(q, cmd, pc, list)
  /\ cmd = "provide" => list = <<>>
  /\ pc # "done" \/ Settled(s, list, cmd) \/ Others(q, cmd)

\* Such a step keeps the invariants about lists and statuses.
LEMMA HandlerStep ==
  ASSUME Inv, NEW q \in Query, NEW cmd \in Command,
         NEW pc \in {"aborting", "prepared", "running", "done"},
         NEW list \in Seq(Item), NEW s \in {"null", "inprogress", "done", "error"},
         HandlerMoves(q, cmd, pc, list, s)
  PROVE  /\ Started' /\ Lists' /\ QuietMeansSettled'
         /\ result' \in [Command -> Seq(Item)]
         /\ status' \in [Command -> {"null", "inprogress", "done", "error"}]
<1> /\ query[q].cmd = cmd \/ query[q].cmd = "none"
    /\ query' = [query EXCEPT ![q] = [cmd |-> cmd, pc |-> pc]]
    /\ result' = [result EXCEPT ![cmd] = list] /\ status' = [status EXCEPT ![cmd] = s]
    /\ pc = "aborting" => cmd \in Searches
    /\ cmd \in Searches => s # "inprogress" /\ SearchFits(q, cmd, pc, list)
    /\ cmd = "provide" => list = <<>>
    /\ pc # "done" \/ Settled(s, list, cmd) \/ Others(q, cmd)
  BY DEF HandlerMoves
<1>1. /\ query \in [Query -> Handling] /\ result \in [Command -> Seq(Item)]
      /\ status \in [Command -> {"null", "inprogress", "done", "error"}]
  BY InvTypes
<1>2. /\ query'[q].cmd = cmd /\ query'[q].pc = pc
      /\ \A p \in Query \ {q} : query'[p] = query[p]
  BY <1>1
<1>3. /\ result'[cmd] = list /\ status'[cmd] = s
      /\ \A d \in Command \ {cmd} : result'[d] = result[d] /\ status'[d] = status[d]
  BY <1>1
<1>4. Started'
  <2>1. cmd # "none"
    BY CommandAssumption DEF Commands
  <2>2. [cmd |-> cmd, pc |-> pc] \in Handling
    BY DEF Handling
  <2>3. query' \in [Query -> Handling]
    BY <1>1, <2>2
  <2>4. QED  BY <1>2, <2>1, <2>3 DEF Inv, Started
<1>5. SearchLists'
  <2>1. SUFFICES ASSUME NEW d \in Command \cap Searches
                 PROVE  /\ status'[d] # "inprogress"
                        /\ \A i \in 1 .. Len(result'[d]) :
                             /\ result'[d][i] = "searching" => i = 1 /\ Len(result'[d]) = 1
                             /\ result'[d][i] = "aborted" =>
                                  \E p \in Query : At(p, d, "aborting")'
                             /\ result'[d][i] # "storing"
    BY Zenon DEF SearchLists
  <2>2. CASE d = cmd
    BY <1>2, <1>3, <2>2 DEF SearchFits, At
  <2>3. CASE d # cmd
    <3>1. result'[d] = result[d] /\ status'[d] = status[d]
      BY <1>3, <2>3
    <3>2. ASSUME NEW p \in Query, At(p, d, "aborting")
          PROVE  At(p, d, "aborting")'
      <4>1. d # "none"
        BY DEF Searches
      <4>2. p # q
        BY <2>3, <3>2, <4>1 DEF At
      <4>3. QED  BY <1>2, <3>2, <4>2 DEF At
    <3>3. QED  BY <3>1, <3>2 DEF Inv, Lists, SearchLists
  <2>4. QED  BY <2>2, <2>3
<1>6. ProvideList'
  BY <1>3 DEF Inv, Lists, ProvideList
<1>7. QuietMeansSettled'
  <2>1. SUFFICES ASSUME NEW d \in Command, Active(d)' = {}
                 PROVE  Settled(status'[d], result'[d], d)
    <3>1. \A d \in Command : DOMAIN result'[d] = 1 .. Len(result'[d])
      BY <1>1
    <3>2. QED  BY <3>1 DEF QuietMeansSettled, Settled
  <2>2. \A p \in Query : query'[p].cmd = d => query'[p].pc = "done"
    BY <2>1 DEF Active
  <2>3. CASE d = cmd
    BY <1>2, <1>3, <2>2, <2>3 DEF Others
  <2>4. CASE d # cmd
    <3>1. result'[d] = result[d] /\ status'[d] = status[d]
      BY <1>3, <2>4
    <3>2. d # "none"
      BY CommandAssumption DEF Commands
    <3>3. Active(d) = {}
      BY <1>2, <2>2, <2>4, <3>2 DEF Active
    <3>4. DOMAIN result[d] = 1 .. Len(result[d])
      BY <1>1
    <3>5. QED  BY <3>1, <3>3, <3>4 DEF Inv, QuietMeansSettled, Settled
  <2>5. QED  BY <2>3, <2>4
<1>8. QED  BY <1>1, <1>3, <1>4, <1>5, <1>6, <1>7 DEF Lists
-----------------------------------------------------------------------------
(* Order and aborts.                                                       *)

\* A handler that goes on may install its controller.
LEMMA GoesOn ==
  ASSUME Inv, NEW q \in Query, NEW cmd \in Command, NEW pc,
         query[q].cmd = cmd, pc # "new",
         query' = [query EXCEPT ![q] = [cmd |-> cmd, pc |-> pc]],
         control' = control \/ control' = [control EXCEPT ![cmd] = {q}],
         aborted' = aborted, order' = order
  PROVE  Arrived' /\ NewestNotAborted' /\ control' \in [Command -> SUBSET Query]
<1>1. query \in [Query -> Handling] /\ control \in [Command -> SUBSET Query]
  BY InvTypes
<1>2. query[q].pc # "new"
  BY CommandAssumption DEF Inv, Started, Commands
<1>3. \A p \in Query : /\ query'[p].cmd = query[p].cmd
                       /\ query'[p].pc # "new" <=> query[p].pc # "new"
  BY <1>1, <1>2
<1>4. control' \in [Command -> SUBSET Query]
  BY <1>1
<1>5. \A d \in Command : \A p \in control'[d] : query'[p].cmd = d
  BY <1>1, <1>3 DEF Inv, Arrived
<1>6. Arrived'
  BY <1>3, <1>5 DEF Inv, Arrived
<1>7. NewestNotAborted'
  <2>1. \A p, r \in Query : Newer(p, r)' <=> Newer(p, r)
    BY DEF Newer
  <2>2. aborted \subseteq Query
    BY InvTypes
  <2>3. QED  BY <1>3, <2>1, <2>2 DEF Inv, NewestNotAborted
<1>8. QED  BY <1>4, <1>6, <1>7

\* A command that arrives may abort the query the controller belongs to,
\* which has arrived before it.
LEMMA ArrivesInOrder ==
  ASSUME Inv, NEW q \in Query, NEW cmd \in Command, NEW pc, pc # "new",
         Arrives(q, cmd, pc), control' = control,
         aborted' = aborted \/ aborted' = aborted \cup control[cmd]
  PROVE  /\ Arrived' /\ NewestNotAborted' /\ control' \in [Command -> SUBSET Query]
         /\ aborted' \subseteq Query /\ order' \in Seq(Query)
<1>1. /\ query \in [Query -> Handling] /\ control \in [Command -> SUBSET Query]
      /\ aborted \subseteq Query /\ order \in Seq(Query)
  BY InvTypes
<1>2. /\ query[q] = NewQuery /\ order' = Append(order, q)
      /\ query' = [query EXCEPT ![q] = [cmd |-> cmd, pc |-> pc]]
  BY DEF Arrives
<1>3. /\ query'[q].cmd = cmd /\ query'[q].pc = pc
      /\ \A p \in Query \ {q} : query'[p] = query[p]
      /\ query[q].pc = "new" /\ query[q].cmd = "none"
  BY <1>1, <1>2 DEF NewQuery
<1>4. /\ order' \in Seq(Query) /\ Len(order) \in Nat /\ Len(order') = Len(order) + 1
      /\ order'[Len(order) + 1] = q /\ \A i \in 1 .. Len(order) : order'[i] = order[i]
      /\ DOMAIN order = 1 .. Len(order) /\ DOMAIN order' = 1 .. Len(order) + 1
  BY <1>1, <1>2, Appended
<1>5. \A p \in Query : query[p].pc # "new" => query'[p] = query[p]
  BY <1>3
<1>6. \A d \in Command : \A p \in control[d] : query[p].pc # "new" /\ query[p].cmd = d
  BY <1>1, CommandAssumption DEF Inv, Arrived, Started, Commands
<1>7. Arrived'
  <2>1. ASSUME NEW p \in Query
        PROVE  query'[p].pc # "new" <=> \E i \in 1 .. Len(order') : order'[i] = p
    <3>1. CASE p = q
      BY <1>3, <1>4, <3>1
    <3>2. CASE p # q
      <4>1. query'[p].pc # "new" <=> \E i \in 1 .. Len(order) : order[i] = p
        BY <1>3, <3>2 DEF Inv, Arrived
      <4>2. (\E i \in 1 .. Len(order) : order[i] = p)
            <=> \E i \in 1 .. Len(order') : order'[i] = p
        BY <1>4, <3>2
      <4>3. QED  BY <4>1, <4>2
    <3>3. QED  BY <3>1, <3>2
  <2>2. \A d \in Command : \A p \in control'[d] : query'[p].cmd = d
    BY <1>1, <1>5, <1>6
  <2>3. QED  BY <2>1, <2>2 DEF Arrived
<1>8. aborted' \subseteq Query
  BY <1>1
<1>9. NewestNotAborted'
  <2>1. SUFFICES ASSUME NEW r \in aborted'
                 PROVE  \E p \in Query : query'[p].cmd = query'[r].cmd /\ Newer(p, r)'
    BY Zenon DEF NewestNotAborted
  <2>2. CASE r \in aborted
    <3>1. PICK p \in Query : query[p].cmd = query[r].cmd /\ Newer(p, r)
      BY <2>2 DEF Inv, NewestNotAborted
    <3>2. PICK i, j \in 1 .. Len(order) : i < j /\ order[i] = r /\ order[j] = p
      BY <1>4, <3>1 DEF Newer
    <3>3. Newer(p, r)'
      <4>1. i \in DOMAIN order' /\ j \in DOMAIN order' /\ order'[i] = r /\ order'[j] = p
        BY <1>4, <3>2
      <4>2. QED  BY <3>2, <4>1 DEF Newer
    <3>4. r \in Query /\ query[p].pc # "new" /\ query[r].pc # "new"
      BY <1>1, <2>2, <3>2 DEF Inv, Arrived
    <3>5. QED  BY <1>5, <3>1, <3>3, <3>4
  <2>3. CASE r \in control[cmd]
    <3>1. r \in Query /\ query[r].pc # "new" /\ query[r].cmd = cmd
      BY <1>1, <1>6, <2>3
    <3>2. PICK i \in 1 .. Len(order) : order[i] = r
      BY <3>1 DEF Inv, Arrived
    <3>3. Newer(q, r)'
      <4>1. i \in DOMAIN order' /\ Len(order) + 1 \in DOMAIN order'
            /\ i < Len(order) + 1 /\ order'[i] = r /\ order'[Len(order) + 1] = q
        BY <1>4, <3>2
      <4>2. QED  BY <4>1 DEF Newer
    <3>4. QED  BY <1>3, <1>5, <3>1, <3>3
  <2>4. QED  BY <2>2, <2>3
<1>10. QED  BY <1>1, <1>4, <1>7, <1>8, <1>9
-----------------------------------------------------------------------------
(* The steps.                                                              *)

\* What HandlerStep and one of the lemmas about the order give together.
LEMMA Together ==
  ASSUME Inv, Started', Lists', QuietMeansSettled', Arrived', NewestNotAborted',
         result' \in [Command -> Seq(Item)],
         status' \in [Command -> {"null", "inprogress", "done", "error"}],
         control' \in [Command -> SUBSET Query], aborted' \subseteq Query,
         order' \in Seq(Query), dht' = dht
  PROVE  Inv'
<1>1. \A q \in Query :
        /\ query'[q].cmd \in Command \cup {"none"}
        /\ query'[q].pc \in {"new", "aborting", "prepared", "running", "done"}
  BY DEF Started, Handling
<1>2. dht' \in BOOLEAN
  BY Zenon DEF Inv, TypeOK
<1>3. QED  BY <1>1, <1>2 DEF Inv, TypeOK

\* The list and the status of a command that a step leaves alone.
LEMMA LeftAlone ==
  ASSUME Inv, NEW cmd \in Command
  PROVE  /\ result = [result EXCEPT ![cmd] = result[cmd]]
         /\ status = [status EXCEPT ![cmd] = status[cmd]]
         /\ control = [control EXCEPT ![cmd] = control[cmd]]
         /\ result[cmd] \in Seq(Item)
         /\ status[cmd] \in {"null", "inprogress", "done", "error"}
         /\ cmd \in Searches => status[cmd] # "inprogress"
         /\ cmd = "provide" => result[cmd] = <<>>
  BY InvTypes DEF Inv, Lists, SearchLists, ProvideList

\* Commands that arrive.
LEMMA ArrivalStep ==
  ASSUME Inv, NEW q \in Query, NEW cmd \in Command,
         NEW pc \in {"aborting", "prepared", "done"}, Arrives(q, cmd, pc),
         NEW list \in Seq(Item), NEW s \in {"null", "inprogress", "done", "error"},
         result' = [result EXCEPT ![cmd] = list], status' = [status EXCEPT ![cmd] = s],
         control' = control, aborted' = aborted \/ aborted' = aborted \cup control[cmd],
         dht' = dht,
         pc = "aborting" => cmd \in Searches,
         cmd \in Searches => s # "inprogress" /\ SearchFits(q, cmd, pc, list),
         cmd = "provide" => list = <<>>,
         pc # "done" \/ Settled(s, list, cmd)
  PROVE  Inv'
<1>1. (query[q].cmd = cmd \/ query[q].cmd = "none") /\ query' = [query EXCEPT ![q] = [cmd |-> cmd, pc |-> pc]]
  BY DEF Arrives, NewQuery
<1>2. /\ Started' /\ Lists' /\ QuietMeansSettled'
      /\ result' \in [Command -> Seq(Item)]
      /\ status' \in [Command -> {"null", "inprogress", "done", "error"}]
  <2>1. HandlerMoves(q, cmd, pc, list, s)
    BY <1>1 DEF HandlerMoves
  <2>2. QED  BY <2>1, HandlerStep
<1>3. /\ Arrived' /\ NewestNotAborted' /\ control' \in [Command -> SUBSET Query]
      /\ aborted' \subseteq Query /\ order' \in Seq(Query)
  BY ArrivesInOrder
<1>4. QED  BY <1>2, <1>3, Together

\* Handlers that go on.
LEMMA ProgressStep ==
  ASSUME Inv, NEW q \in Query, NEW cmd \in Command, query[q].cmd = cmd,
         NEW pc \in {"prepared", "running", "done"}, Goto(q, pc),
         NEW list \in Seq(Item), NEW s \in {"null", "inprogress", "done", "error"},
         result' = [result EXCEPT ![cmd] = list], status' = [status EXCEPT ![cmd] = s],
         control' = control \/ control' = [control EXCEPT ![cmd] = {q}],
         aborted' = aborted, order' = order, dht' = dht,
         cmd \in Searches => s # "inprogress" /\ SearchFits(q, cmd, pc, list),
         cmd = "provide" => list = <<>>,
         pc # "done" \/ Settled(s, list, cmd) \/ Others(q, cmd)
  PROVE  Inv'
<1>1. query' = [query EXCEPT ![q] = [cmd |-> cmd, pc |-> pc]]
  <2>1. query \in [Query -> Handling]
    BY InvTypes
  <2>2. [query[q] EXCEPT !.pc = pc] = [cmd |-> cmd, pc |-> pc]
    BY <2>1 DEF Handling
  <2>3. QED  BY <2>2 DEF Goto
<1>2. /\ Started' /\ Lists' /\ QuietMeansSettled'
      /\ result' \in [Command -> Seq(Item)]
      /\ status' \in [Command -> {"null", "inprogress", "done", "error"}]
  <2>1. HandlerMoves(q, cmd, pc, list, s)
    BY <1>1 DEF HandlerMoves
  <2>2. QED  BY <2>1, HandlerStep
<1>3. Arrived' /\ NewestNotAborted' /\ control' \in [Command -> SUBSET Query]
  BY <1>1, GoesOn
<1>4. aborted' \subseteq Query /\ order' \in Seq(Query)
  BY InvTypes
<1>5. QED  BY <1>2, <1>3, <1>4, Together

LEMMA RefuseStep ==
  ASSUME Inv, NEW q \in Query, NEW cmd \in Command, Refuse(q, cmd)
  PROVE  Inv'
<1> DEFINE list == IF cmd = "provide" THEN result[cmd] ELSE <<"invalid">>
           s == IF cmd \in WithStatus THEN "error" ELSE status[cmd]
<1>1. /\ Arrives(q, cmd, "done") /\ control' = control /\ aborted' = aborted /\ dht' = dht
      /\ result' = [result EXCEPT ![cmd] = list]
      /\ status' = [status EXCEPT ![cmd] = s]
  BY LeftAlone DEF Refuse, Show, Report
<1>2. list \in Seq(Item) /\ s \in {"null", "inprogress", "done", "error"}
  BY LeftAlone, Items, OneItem
<1>3. cmd \in Searches => SearchFits(q, cmd, "done", list)
  BY DEF SearchFits, Searches
<1>4. s # "inprogress"
  BY LeftAlone, CommandAssumption DEF WithStatus, Searches, Commands
<1>5. (cmd = "provide" => list = <<>>) /\ Settled(s, list, cmd)
  BY <1>4, LeftAlone DEF Settled
<1> HIDE DEF list, s
<1>6. QED  BY <1>1, <1>2, <1>3, <1>4, <1>5, ArrivalStep

LEMMA SearchStep ==
  ASSUME Inv, NEW q \in Query, NEW cmd \in Command, Search(q, cmd)
  PROVE  Inv'
<1>1. /\ cmd \in Searches /\ status' = [status EXCEPT ![cmd] = status[cmd]]
      /\ control' = control /\ aborted' = aborted \cup control[cmd] /\ dht' = dht
  BY LeftAlone DEF Search
<1>2. status[cmd] \in {"null", "inprogress", "done", "error"} /\ status[cmd] # "inprogress"
  BY <1>1, LeftAlone
<1>3. cmd # "provide"
  BY <1>1 DEF Searches
<1>4. CASE control[cmd] # {}
  <2>1. Arrives(q, cmd, "aborting") /\ result' = [result EXCEPT ![cmd] = <<"aborted">>]
    BY <1>4 DEF Search, Show
  <2>2. <<"aborted">> \in Seq(Item) /\ SearchFits(q, cmd, "aborting", <<"aborted">>)
    BY Items, OneItem DEF SearchFits
  <2>3. QED  BY <1>1, <1>2, <1>3, <2>1, <2>2, ArrivalStep
<1>5. CASE control[cmd] = {}
  <2>1. Arrives(q, cmd, "prepared") /\ result' = [result EXCEPT ![cmd] = <<"searching">>]
    BY <1>5 DEF Search, Show
  <2>2. <<"searching">> \in Seq(Item) /\ SearchFits(q, cmd, "prepared", <<"searching">>)
    BY Items, OneItem DEF SearchFits
  <2>3. QED  BY <1>1, <1>2, <1>3, <2>1, <2>2, ArrivalStep
<1>6. QED  BY <1>4, <1>5

LEMMA GetStep ==
  ASSUME Inv, NEW q \in Query, Get(q)
  PROVE  Inv'
<1>1. /\ "get" \in Command /\ Arrives(q, "get", "prepared")
      /\ result' = [result EXCEPT !["get"] = <<"searching">>]
      /\ status' = [status EXCEPT !["get"] = "inprogress"]
      /\ control' = control /\ aborted' = aborted \cup control["get"] /\ dht' = dht
  BY DEF Get, Show, Report
<1>2. <<"searching">> \in Seq(Item) /\ "get" \notin Searches
  BY Items, OneItem DEF Searches
<1>3. QED  BY <1>1, <1>2, ArrivalStep

LEMMA StoreStep ==
  ASSUME Inv, NEW q \in Query, NEW cmd \in Command, Store(q, cmd)
  PROVE  Inv'
<1> DEFINE list == IF cmd = "put" THEN <<"storing">> ELSE result[cmd]
<1>1. /\ cmd \in {"put", "provide"} /\ Arrives(q, cmd, "prepared")
      /\ result' = [result EXCEPT ![cmd] = list]
      /\ status' = [status EXCEPT ![cmd] = "inprogress"]
      /\ control' = control /\ aborted' = aborted /\ dht' = dht
  BY LeftAlone DEF Store, Show, Report
<1>2. list \in Seq(Item) /\ cmd \notin Searches /\ (cmd = "provide" => list = <<>>)
  BY <1>1, LeftAlone, Items, OneItem DEF Searches
<1> HIDE DEF list
<1>3. QED  BY <1>1, <1>2, ArrivalStep
\* A handler at work has a command in use.
LEMMA AtWork ==
  ASSUME Inv, NEW q \in Query, query[q].pc # "new"
  PROVE  query[q].cmd \in Command
  BY InvTypes DEF Inv, Started, Handling

\* A search goes on: its status is not touched, nor any controller.
LEMMA SearchGoesOn ==
  ASSUME Inv, NEW q \in Query, NEW cmd \in Command, cmd \in Searches, query[q].cmd = cmd,
         NEW pc \in {"prepared", "running", "done"}, Goto(q, pc),
         NEW list \in Seq(Item), result' = [result EXCEPT ![cmd] = list],
         UNCHANGED <<status, control, aborted, dht, order>>,
         SearchFits(q, cmd, pc, list),
         pc # "done" \/ (\A i \in 1 .. Len(list) : list[i] \notin {"searching", "aborted"})
           \/ Others(q, cmd) \/ cmd = "findprovider"
  PROVE  Inv'
<1>1. /\ status[cmd] \in {"null", "inprogress", "done", "error"}
      /\ status[cmd] # "inprogress" /\ cmd # "provide"
      /\ status' = [status EXCEPT ![cmd] = status[cmd]]
  BY LeftAlone DEF Searches
<1>2. /\ Inv /\ q \in Query /\ cmd \in Command /\ query[q].cmd = cmd /\ list \in Seq(Item)
      /\ Goto(q, pc) /\ result' = [result EXCEPT ![cmd] = list] /\ SearchFits(q, cmd, pc, list)
      /\ control' = control /\ aborted' = aborted /\ dht' = dht /\ order' = order
      /\ pc \in {"prepared", "running", "done"}
  OBVIOUS
<1>3. pc # "done" \/ Settled(status[cmd], list, cmd) \/ Others(q, cmd)
  BY <1>1, <1>2 DEF Settled, SearchFits
<1>4. QED  BY ONLY <1>1, <1>2, <1>3, ProgressStep

LEMMA AnnounceStep ==
  ASSUME Inv, NEW q \in Query, Announce(q)
  PROVE  Inv'
<1>1. query[q].cmd \in Command /\ query[q].cmd \in Searches
  BY AtWork DEF Announce, Inv, Started
<1>2. <<"searching">> \in Seq(Item) /\ SearchFits(q, query[q].cmd, "prepared", <<"searching">>)
  BY Items, OneItem DEF SearchFits
<1>3. QED  BY <1>1, <1>2, SearchGoesOn DEF Announce, Show

LEMMA UnsupportedStep ==
  ASSUME Inv, NEW q \in Query, Unsupported(q)
  PROVE  Inv'
<1> DEFINE cmd == query[q].cmd
<1>1. /\ cmd \in Command \cap {"put", "get"} /\ Goto(q, "done")
      /\ result' = [result EXCEPT ![cmd] = <<"error">>]
      /\ status' = [status EXCEPT ![cmd] = "error"]
      /\ UNCHANGED <<control, aborted, dht, order>>
  BY AtWork DEF Unsupported, Show, Report
<1>2. <<"error">> \in Seq(Item) /\ Settled("error", <<"error">>, cmd) /\ cmd \notin Searches
  BY <1>1, Items, OneItem DEF Settled, Searches
<1>3. QED  BY <1>1, <1>2, ProgressStep

\* A list that a search leaves alone still fits.
LEMMA ListStays ==
  ASSUME Inv, NEW q \in Query, NEW cmd \in Command \cap Searches, NEW pc,
         ~At(q, cmd, "aborting")
  PROVE  SearchFits(q, cmd, pc, result[cmd])
  BY DEF Inv, Lists, SearchLists, SearchFits

LEMMA BeginStep ==
  ASSUME Inv, NEW q \in Query, Begin(q)
  PROVE  Inv'
<1> DEFINE cmd == query[q].cmd
<1>1. /\ cmd \in Command /\ query[q].pc = "prepared" /\ Goto(q, "running")
      /\ UNCHANGED <<result, status, aborted, dht, order>>
      /\ control' = [control EXCEPT ![cmd] = IF cmd \in Abortable THEN {q} ELSE control[cmd]]
  BY AtWork DEF Begin
<1>2. control' = control \/ control' = [control EXCEPT ![cmd] = {q}]
  BY <1>1, LeftAlone
<1>3. cmd \in Searches => SearchFits(q, cmd, "running", result[cmd])
  BY <1>1, ListStays DEF At
<1> HIDE DEF cmd
<1>4. query[q].cmd = cmd
  BY DEF cmd
<1>5. /\ result' = [result EXCEPT ![cmd] = result[cmd]] /\ result[cmd] \in Seq(Item)
      /\ status' = [status EXCEPT ![cmd] = status[cmd]]
      /\ status[cmd] \in {"null", "inprogress", "done", "error"}
      /\ cmd \in Searches => status[cmd] # "inprogress"
      /\ cmd = "provide" => result[cmd] = <<>>
  BY <1>1, LeftAlone
<1>6. /\ Inv /\ q \in Query /\ cmd \in Command /\ Goto(q, "running")
      /\ aborted' = aborted /\ order' = order /\ dht' = dht
  BY <1>1
<1>7. QED  BY ONLY <1>2, <1>3, <1>4, <1>5, <1>6, ProgressStep
LEMMA FoundProviderStep ==
  ASSUME Inv, NEW q \in Query, FoundProvider(q)
  PROVE  Inv'
<1> DEFINE old == result["findprovider"]
           list == IF old = <<"searching">> THEN <<"found">> ELSE Append(old, "found")
<1>1. /\ query[q].cmd = "findprovider" /\ query[q].pc = "running"
      /\ result' = [result EXCEPT !["findprovider"] = list]
      /\ UNCHANGED <<query, status, control, aborted, dht, order>>
  BY DEF FoundProvider, At, Show
<1>2. "findprovider" \in Command /\ "findprovider" \in Searches
  BY <1>1, AtWork DEF Searches
<1>3. old \in Seq(Item)
  BY <1>2, LeftAlone
<1>4. SearchFits(q, "findprovider", "running", old)
  BY <1>1, <1>2, ListStays DEF At
<1>5. list \in Seq(Item) /\ SearchFits(q, "findprovider", "running", list)
  <2>1. CASE old = <<"searching">>
    BY <2>1, Items, OneItem DEF SearchFits
  <2>2. CASE old # <<"searching">>
    <3>1. /\ list = Append(old, "found") /\ list \in Seq(Item) /\ Len(old) \in Nat
          /\ Len(list) = Len(old) + 1 /\ list[Len(old) + 1] = "found"
          /\ \A i \in 1 .. Len(old) : list[i] = old[i]
      BY <1>3, <2>2, Items, Appended
    <3>2. \A i \in 1 .. Len(old) : old[i] # "searching"
      <4>1. SUFFICES ASSUME NEW i \in 1 .. Len(old), old[i] = "searching" PROVE FALSE
        OBVIOUS
      <4>2. Len(old) = 1 /\ old[1] = "searching"
        BY <1>4, <4>1 DEF SearchFits
      <4>3. old = <<"searching">>
        BY <1>3, <4>2
      <4>4. QED  BY <2>2, <4>3
    <3>3. ASSUME NEW i \in 1 .. Len(list)
          PROVE  /\ list[i] # "searching" /\ list[i] # "storing"
                 /\ list[i] = "aborted" =>
                      \E p \in Query \ {q} : At(p, "findprovider", "aborting")
      <4>1. CASE i = Len(old) + 1
        BY <3>1, <4>1
      <4>2. CASE i \in 1 .. Len(old)
        BY <1>4, <3>1, <3>2, <4>2 DEF SearchFits
      <4>3. QED  BY <3>1, <3>3, <4>1, <4>2
    <3>4. QED  BY <3>1, <3>3 DEF SearchFits
  <2>3. QED  BY <2>1, <2>2
<1> HIDE DEF list
<1>6. query' = [query EXCEPT ![q] = [cmd |-> "findprovider", pc |-> "running"]]
  <2>1. query \in [Query -> Handling]
    BY InvTypes
  <2>2. query[q] = [cmd |-> "findprovider", pc |-> "running"]
    BY <1>1, <2>1 DEF Handling
  <2>3. QED  BY <1>1, <2>1, <2>2
<1>7. Goto(q, "running")
  BY <1>6, <1>1, InvTypes DEF Goto, Handling
<1>8. QED  BY <1>1, <1>2, <1>5, <1>7, SearchGoesOn

LEMMA NoMoreProvidersStep ==
  ASSUME Inv, NEW q \in Query, NoMoreProviders(q)
  PROVE  Inv'
<1>1. /\ query[q].cmd = "findprovider" /\ query[q].pc = "running" /\ Goto(q, "done")
      /\ UNCHANGED <<result, status, control, aborted, dht, order>>
  BY DEF NoMoreProviders, At
<1>2. "findprovider" \in Command /\ "findprovider" \in Searches
  BY <1>1, AtWork DEF Searches
<1>3. SearchFits(q, "findprovider", "done", result["findprovider"])
  BY <1>1, <1>2, ListStays DEF At
<1>4. /\ result["findprovider"] \in Seq(Item)
      /\ result' = [result EXCEPT !["findprovider"] = result["findprovider"]]
  BY <1>1, <1>2, LeftAlone
<1>5. QED  BY <1>1, <1>2, <1>3, <1>4, SearchGoesOn

LEMMA FoundPeerStep ==
  ASSUME Inv, NEW q \in Query, FoundPeer(q)
  PROVE  Inv'
<1>1. /\ query[q].cmd = "findpeer" /\ query[q].pc = "running" /\ Goto(q, "done")
      /\ result' = [result EXCEPT !["findpeer"] = <<"found">>]
      /\ UNCHANGED <<status, control, aborted, dht, order>>
  BY DEF FoundPeer, At, Show
<1>2. "findpeer" \in Command /\ "findpeer" \in Searches
  BY <1>1, AtWork DEF Searches
<1>3. <<"found">> \in Seq(Item) /\ SearchFits(q, "findpeer", "done", <<"found">>)
  BY Items, OneItem DEF SearchFits
<1>4. \A i \in 1 .. Len(<<"found">>) : <<"found">>[i] \notin {"searching", "aborted"}
  BY Items, OneItem
<1>5. QED  BY <1>1, <1>2, <1>3, <1>4, SearchGoesOn

LEMMA SearchFailsStep ==
  ASSUME Inv, NEW q \in Query, SearchFails(q)
  PROVE  Inv'
<1> DEFINE cmd == query[q].cmd
<1>1. /\ cmd \in Command \cap Searches /\ Goto(q, "done")
      /\ result' = [result EXCEPT ![cmd] = <<"error">>]
      /\ UNCHANGED <<status, control, aborted, dht, order>>
  BY AtWork DEF SearchFails, Show
<1>2. <<"error">> \in Seq(Item) /\ SearchFits(q, cmd, "done", <<"error">>)
  BY Items, OneItem DEF SearchFits
<1>3. \A i \in 1 .. Len(<<"error">>) : <<"error">>[i] \notin {"searching", "aborted"}
  BY Items, OneItem
<1>4. QED  BY <1>1, <1>2, <1>3, SearchGoesOn

LEMMA EndsStep ==
  ASSUME Inv, NEW q \in Query, Ends(q)
  PROVE  Inv'
<1> DEFINE cmd == query[q].cmd
<1>1. /\ cmd \in Command \cap WithStatus /\ Goto(q, "done")
      /\ UNCHANGED <<control, aborted, dht, order>>
  BY AtWork DEF Ends
<1>2. PICK s \in {"done", "error"} :
        /\ status' = [status EXCEPT ![cmd] = s]
        /\ IF cmd = "provide" THEN UNCHANGED result
           ELSE result' = [result EXCEPT ![cmd] = IF s = "done" THEN <<"value">> ELSE <<"error">>]
  BY DEF Ends, Show, Report
<1> DEFINE list == IF cmd = "provide" THEN result[cmd]
                   ELSE IF s = "done" THEN <<"value">> ELSE <<"error">>
<1>3. result' = [result EXCEPT ![cmd] = list]
  BY <1>1, <1>2, LeftAlone
<1>4. list \in Seq(Item) /\ (cmd = "provide" => list = <<>>)
  BY <1>1, LeftAlone, Items, OneItem
<1>5. Settled(s, list, cmd)
  BY <1>1, <1>2, LeftAlone, Items, OneItem DEF Settled
<1>6. cmd \notin Searches
  BY <1>1 DEF Searches, WithStatus
<1>7. /\ Inv /\ q \in Query /\ cmd \in Command /\ Goto(q, "done") /\ query[q].cmd = cmd
      /\ aborted' = aborted /\ order' = order /\ dht' = dht /\ control' = control
      /\ s \in {"null", "inprogress", "done", "error"}
      /\ status' = [status EXCEPT ![cmd] = s]
  BY <1>1, <1>2
<1> HIDE DEF list, cmd
<1>8. QED  BY ONLY <1>3, <1>4, <1>5, <1>6, <1>7, ProgressStep
\* A search that is rejected finds "searching", or appends to a list that
\* does not have it; if the list is that of a search that has said "aborted",
\* that search is still to announce itself.
LEMMA RejectedList ==
  ASSUME NEW q, NEW cmd, NEW old \in Seq(Item), SearchFits(q, cmd, "done", old),
         NEW nf \in Item, nf \notin {"searching", "aborted", "storing"},
         NEW list, list = IF old = <<>> THEN old
                          ELSE IF old[1] = "searching" THEN [old EXCEPT ![1] = nf]
                          ELSE Append(old, "ended-after-60s")
  PROVE  /\ list \in Seq(Item) /\ SearchFits(q, cmd, "done", list)
         /\ (\A i \in 1 .. Len(list) : list[i] \notin {"searching", "aborted"})
            \/ Others(q, cmd)
<1>1. CASE old = <<>>
  BY <1>1 DEF SearchFits
<1>2. CASE old # <<>> /\ old[1] = "searching"
  <2>1. Len(old) = 1
    <3>1. Len(old) \in Nat \ {0}
      BY <1>2, EmptySeq
    <3>2. QED  BY <1>2, <3>1 DEF SearchFits
  <2>2. list = [old EXCEPT ![1] = nf]
    BY <1>2
  <2>3. list \in Seq(Item) /\ Len(list) = 1 /\ list[1] = nf
    BY <1>2, <2>1, <2>2, Replaced
  <2>4. \A i \in 1 .. Len(list) : list[i] = nf
    BY <2>3
  <2>5. QED  BY <2>3, <2>4 DEF SearchFits
<1>3. CASE old # <<>> /\ old[1] # "searching"
  <2>1. list = Append(old, "ended-after-60s")
    BY <1>3
  <2>2. /\ list \in Seq(Item) /\ Len(old) \in Nat
        /\ Len(list) = Len(old) + 1 /\ list[Len(old) + 1] = "ended-after-60s"
        /\ \A i \in 1 .. Len(old) : list[i] = old[i]
    BY <2>1, Items, Appended
  <2>3. ASSUME NEW i \in 1 .. Len(list)
        PROVE  /\ list[i] # "searching" /\ list[i] # "storing"
               /\ list[i] = "aborted" => \E p \in Query \ {q} : At(p, cmd, "aborting")
    <3>1. CASE i = Len(old) + 1
      BY <2>2, <3>1
    <3>2. CASE i \in 1 .. Len(old)
      <4>1. /\ old[i] = "searching" => i = 1
            /\ old[i] = "aborted" => \E p \in Query \ {q} : At(p, cmd, "aborting")
            /\ old[i] # "storing"
        BY <3>2 DEF SearchFits
      <4>2. list[i] = old[i]
        BY <2>2, <3>2
      <4>3. QED  BY <1>3, <4>1, <4>2
    <3>3. i \in 1 .. Len(old) \/ i = Len(old) + 1
      BY <2>2, <2>3
    <3>4. QED  BY <3>1, <3>2, <3>3
  <2>4. SearchFits(q, cmd, "done", list)
    BY <2>2, <2>3 DEF SearchFits
  <2>5. (\E p \in Query \ {q} : At(p, cmd, "aborting")) => Others(q, cmd)
    BY DEF At, Others
  <2>6. QED  BY <2>2, <2>3, <2>4, <2>5
<1>4. QED  BY <1>1, <1>2, <1>3

LEMMA SearchRejectedStep ==
  ASSUME Inv, NEW q \in Query, SearchRejected(q)
  PROVE  Inv'
<1>1. query[q].cmd \in Command /\ query[q].cmd \in Searches
  BY AtWork DEF SearchRejected
<1> DEFINE cmd == query[q].cmd
           old == result[cmd]
           list == IF old = <<>> THEN old
                   ELSE IF old[1] = "searching" THEN [old EXCEPT ![1] = NotFound(cmd)]
                   ELSE Append(old, "ended-after-60s")
<1>2. old \in Seq(Item) /\ SearchFits(q, cmd, "done", old)
  BY <1>1, LeftAlone, ListStays DEF At, SearchRejected
<1>3. NotFound(cmd) \in Item /\ NotFound(cmd) \notin {"searching", "aborted", "storing"}
  BY <1>1, Items, CommandAssumption
<1>4. /\ list \in Seq(Item) /\ SearchFits(q, cmd, "done", list)
      /\ (\A i \in 1 .. Len(list) : list[i] \notin {"searching", "aborted"}) \/ Others(q, cmd)
  BY <1>2, <1>3, RejectedList
<1>5. /\ Goto(q, "done") /\ result' = [result EXCEPT ![cmd] = list]
      /\ UNCHANGED <<status, control, aborted, dht, order>>
  BY DEF SearchRejected, Show
<1> HIDE DEF list
<1>6. QED  BY <1>1, <1>4, <1>5, SearchGoesOn

-----------------------------------------------------------------------------
(* The theorems.                                                           *)

LEMMA InvInit == Init => Inv
<1>1. SUFFICES ASSUME Init PROVE Inv
  OBVIOUS
<1>2. /\ query = [q \in Query |-> NewQuery] /\ result = [c \in Command |-> <<>>]
      /\ status = [c \in Command |-> "null"] /\ control = [c \in Command |-> {}]
      /\ aborted = {} /\ order = <<>>
  BY <1>1 DEF Init
<1>3. Started
  BY <1>2 DEF Started, NewQuery, Handling
<1>4. dht \in BOOLEAN
  BY <1>1, Zenon DEF Init
<1>5. result \in [Command -> Seq(Item)] /\ order \in Seq(Query)
  BY <1>2, EmptySeq
<1>6. TypeOK
  BY <1>2, <1>3, <1>4, <1>5 DEF TypeOK, Started, Handling
<1>7. Lists
  BY <1>2 DEF Lists, SearchLists, ProvideList, Searches
<1>8. QuietMeansSettled
  BY <1>2 DEF QuietMeansSettled
<1>9. Arrived /\ NewestNotAborted
  BY <1>2 DEF Arrived, NewestNotAborted, NewQuery
<1>10. QED  BY <1>3, <1>6, <1>7, <1>8, <1>9 DEF Inv

LEMMA InvStep == Inv /\ [Next]_vars => Inv'
<1>1. SUFFICES ASSUME Inv, [Next]_vars PROVE Inv'
  OBVIOUS
<1>2. CASE UNCHANGED vars
  <2>1. /\ query' = query /\ result' = result /\ status' = status /\ control' = control
        /\ aborted' = aborted /\ order' = order /\ dht' = dht
    BY <1>2 DEF vars
  <2>2. Started' /\ Lists'
    BY <1>1, <2>1 DEF Inv, Started, Lists, SearchLists, ProvideList, At
  <2>3. QuietMeansSettled'
    BY <1>1, <2>1 DEF Inv, QuietMeansSettled, Active
  <2>4. Arrived' /\ NewestNotAborted'
    BY <1>1, <2>1 DEF Inv, Arrived, NewestNotAborted, Newer
  <2>5. QED  BY <1>1, <2>1, <2>2, <2>3, <2>4, InvTypes, Together
<1>3. ASSUME NEW q \in Query, NEW cmd \in Command,
             Refuse(q, cmd) \/ Search(q, cmd) \/ Store(q, cmd)
      PROVE  Inv'
  BY <1>1, <1>3, RefuseStep, SearchStep, StoreStep
<1>4. ASSUME NEW q \in Query, Get(q) \/ Prepare(q) \/ FoundProvider(q) \/ Finish(q)
      PROVE  Inv'
  BY <1>1, <1>4, GetStep, AnnounceStep, UnsupportedStep, BeginStep, FoundProviderStep,
     NoMoreProvidersStep, FoundPeerStep, SearchRejectedStep, SearchFailsStep, EndsStep
  DEF Prepare, Finish
<1>5. QED  BY <1>1, <1>2, <1>3, <1>4 DEF Next

\* Handlers that overwrite one another's results keep all of this together.
THEOREM Invariance == Spec => []Inv
<1>1. QED  BY InvInit, InvStep, PTL DEF Spec

\* Results and statuses stay well formed.
THEOREM TypeCorrectness == Spec => []TypeOK
<1>1. Inv => TypeOK
  BY DEF Inv
<1>2. QED  BY <1>1, Invariance, PTL

\* However many commands overlap, put, get, provide and find peer leave
\* nothing behind that says they are at work, and a list that names a
\* provider does not say that one is searched for.
THEOREM ShownIsUnderWay == Spec => []WorkShownIsUnderWay
<1>1. Inv => FoundNotSearching
  <2>1. SUFFICES ASSUME Inv, "findprovider" \in Command,
                        NEW i \in DOMAIN result["findprovider"],
                        NEW j \in DOMAIN result["findprovider"],
                        result["findprovider"][i] = "found",
                        result["findprovider"][j] = "searching"
                 PROVE  FALSE
    BY DEF FoundNotSearching
  <2>2. /\ "findprovider" \in Command \cap Searches
        /\ DOMAIN result["findprovider"] = 1 .. Len(result["findprovider"])
    BY <2>1, InvTypes DEF Searches
  <2>3. j = 1 /\ Len(result["findprovider"]) = 1
    BY <2>1, <2>2 DEF Inv, Lists, SearchLists
  <2>4. QED  BY <2>1, <2>2, <2>3
<1>2. Inv => WorkShownIsUnderWay
  BY <1>1 DEF Inv, WorkShownIsUnderWay
<1>3. QED  BY <1>2, Invariance, PTL

\* The newest command of a kind is never the one that is aborted.
THEOREM NewestIsKept == Spec => []NewestNotAborted
<1>1. Inv => NewestNotAborted
  BY DEF Inv
<1>2. QED  BY <1>1, Invariance, PTL
=============================================================================
