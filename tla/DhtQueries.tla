----------------------------- MODULE DhtQueries -----------------------------
(***************************************************************************)
(* The DHT commands of a JavaScript node (js-nodes/src/status-server.ts).  *)
(*                                                                         *)
(* Every command is an async message handler of its own, and a second one  *)
(* may arrive while the first awaits the network or merely the sending of  *)
(* an update.  All handlers of a command share one result (and for put,    *)
(* get and provide one status), and the two searches and get share one     *)
(* AbortController each, which a handler installs only after its first     *)
(* await.  Each write of a result or status is sent at once, so the shared *)
(* values are what the observer sees.                                      *)
(*                                                                         *)
(* The DHT is external: a query yields, ends, fails, or is rejected once   *)
(* its signal has fired or its time is up.                                 *)
(***************************************************************************)
EXTENDS Naturals, Sequences, FiniteSets, TLC

CONSTANTS
  Query,        \* bound: commands received, each handled once
  Command,      \* the commands in use
  MaxFound      \* bound: length of a list of providers

Commands == {"provide", "findprovider", "findpeer", "put", "get"}
Searches == {"findprovider", "findpeer"}
WithStatus == {"provide", "put", "get"}
Abortable == {"findprovider", "findpeer", "get"}
ASSUME CommandAssumption == Command \subseteq Commands
ASSUME BoundAssumption == MaxFound \in Nat

VARIABLES
  query,    \* the handlers
  result,   \* lastDht...Result
  status,   \* lastDht...Status
  control,  \* the query the command's AbortController belongs to, as a set
  aborted,  \* queries whose signal has been fired by a later command
  dht,      \* the node runs the DHT service
  order     \* history: the queries in the order their commands arrived

vars == <<query, result, status, control, aborted, dht, order>>

NewQuery == [cmd |-> "none", pc |-> "new"]
At(q, cmd, pc) == query[q].cmd = cmd /\ query[q].pc = pc
Goto(q, pc) == query' = [query EXCEPT ![q].pc = pc]
Show(cmd, list) == result' = [result EXCEPT ![cmd] = list]
Report(cmd, s) == status' = [status EXCEPT ![cmd] = s]

NotFound(cmd) == IF cmd = "findprovider" THEN "no-providers-found" ELSE "peer-not-found"

Init ==
  /\ query = [q \in Query |-> NewQuery]
  /\ result = [c \in Command |-> <<>>] /\ status = [c \in Command |-> "null"]
  /\ control = [c \in Command |-> {}] /\ aborted = {} /\ order = <<>>
  /\ dht \in BOOLEAN

-----------------------------------------------------------------------------
(* A command arrives.                                                      *)

Arrives(q, cmd, pc) ==
  /\ query[q] = NewQuery
  /\ query' = [query EXCEPT ![q] = [cmd |-> cmd, pc |-> pc]]
  /\ order' = Append(order, q)

\* A CID, peer id or key that cannot be parsed.
Refuse(q, cmd) ==
  /\ Arrives(q, cmd, "done")
  /\ IF cmd = "provide" THEN UNCHANGED result ELSE Show(cmd, <<"invalid">>)
  /\ IF cmd \in WithStatus THEN Report(cmd, "error") ELSE UNCHANGED status
  /\ UNCHANGED <<control, aborted, dht>>

\* Variant: the new search's controller is installed before the abort.
Search_InstallsFirst(q, cmd) ==
  /\ cmd \in Searches
  /\ Arrives(q, cmd, "aborting") /\ Show(cmd, <<"aborted">>)
  /\ control' = [control EXCEPT ![cmd] = {q}]
  /\ aborted' = aborted \cup {q}
  /\ UNCHANGED <<status, dht>>

\* findprovider, findpeer: an earlier search is aborted first, and that is
\* sent before the new search is.
Search(q, cmd) ==
  /\ cmd \in Searches
  /\ IF control[cmd] # {}
     THEN Arrives(q, cmd, "aborting") /\ Show(cmd, <<"aborted">>)
     ELSE Arrives(q, cmd, "prepared") /\ Show(cmd, <<"searching">>)
  /\ aborted' = aborted \cup control[cmd]
  /\ UNCHANGED <<status, control, dht>>

Announce(q) ==
  /\ query[q].pc = "aborting"
  /\ Show(query[q].cmd, <<"searching">>)
  /\ Goto(q, "prepared")
  /\ UNCHANGED <<status, control, aborted, dht, order>>

\* get
Get(q) ==
  /\ "get" \in Command
  /\ Arrives(q, "get", "prepared")
  /\ Report("get", "inprogress") /\ Show("get", <<"searching">>)
  /\ aborted' = aborted \cup control["get"]
  /\ UNCHANGED <<control, dht>>

\* put, provide
Store(q, cmd) ==
  /\ cmd \in {"put", "provide"}
  /\ Arrives(q, cmd, "prepared")
  /\ Report(cmd, "inprogress")
  /\ IF cmd = "put" THEN Show(cmd, <<"storing">>) ELSE UNCHANGED result
  /\ UNCHANGED <<control, aborted, dht>>

\* The update has been sent, but there is no DHT to put to or get from.
Unsupported(q) ==
  LET cmd == query[q].cmd IN
  /\ cmd \in {"put", "get"} /\ query[q].pc = "prepared" /\ ~dht
  /\ Report(cmd, "error") /\ Show(cmd, <<"error">>)
  /\ Goto(q, "done")
  /\ UNCHANGED <<control, aborted, dht, order>>

\* The update has been sent: install the controller, start the query.
Begin(q) ==
  LET cmd == query[q].cmd IN
  /\ query[q].pc = "prepared" /\ (cmd \in {"put", "get"} => dht)
  /\ Goto(q, "running")
  /\ control' = [control EXCEPT ![cmd] = IF cmd \in Abortable THEN {q} ELSE @]
  /\ UNCHANGED <<result, status, aborted, dht, order>>

-----------------------------------------------------------------------------
(* The query goes on.                                                      *)

\* Variant: the first provider is appended like the others.
FoundProvider_Appends(q) ==
  /\ At(q, "findprovider", "running") /\ Len(result["findprovider"]) < MaxFound
  /\ Show("findprovider", Append(result["findprovider"], "found"))
  /\ UNCHANGED <<query, status, control, aborted, dht, order>>

\* A provider is found; the first one replaces "searching".
FoundProvider(q) ==
  LET list == result["findprovider"] IN
  /\ At(q, "findprovider", "running") /\ Len(list) < MaxFound
  /\ Show("findprovider", IF list = <<"searching">> THEN <<"found">>
                          ELSE Append(list, "found"))
  /\ UNCHANGED <<query, status, control, aborted, dht, order>>

\* The list of providers is exhausted; nothing is written.
NoMoreProviders(q) ==
  /\ At(q, "findprovider", "running")
  /\ Goto(q, "done")
  /\ UNCHANGED <<result, status, control, aborted, dht, order>>

FoundPeer(q) ==
  /\ At(q, "findpeer", "running")
  /\ Show("findpeer", <<"found">>)
  /\ Goto(q, "done")
  /\ UNCHANGED <<status, control, aborted, dht, order>>

\* Variant: the error is shown as it is.
SearchFails_Raw(q) ==
  /\ query[q].cmd \in Searches /\ query[q].pc = "running"
  /\ Show(query[q].cmd, <<"NotFoundError">>)
  /\ Goto(q, "done")
  /\ UNCHANGED <<status, control, aborted, dht, order>>

\* QueryAbortedError: the time is up, or a later command has fired the
\* signal.  Which of the two is not asked, nor whose list it is by now.
SearchRejected(q) ==
  LET cmd == query[q].cmd
      list == result[cmd]
  IN
  /\ cmd \in Searches /\ query[q].pc = "running"
  /\ Show(cmd, IF list = <<>> THEN list
               ELSE IF list[1] = "searching" THEN [list EXCEPT ![1] = NotFound(cmd)]
               ELSE Append(list, "ended-after-60s"))
  /\ Goto(q, "done")
  /\ UNCHANGED <<status, control, aborted, dht, order>>

SearchFails(q) ==
  /\ query[q].cmd \in Searches /\ query[q].pc = "running"
  /\ Show(query[q].cmd, <<"error">>)
  /\ Goto(q, "done")
  /\ UNCHANGED <<status, control, aborted, dht, order>>

\* Variant: an exception is not caught.
Ends_NoCatch(q) ==
  LET cmd == query[q].cmd IN
  /\ cmd \in WithStatus /\ query[q].pc = "running"
  /\ \/ UNCHANGED <<result, status>>
     \/ /\ Report(cmd, "done")
        /\ IF cmd = "provide" THEN UNCHANGED result ELSE Show(cmd, <<"value">>)
  /\ Goto(q, "done")
  /\ UNCHANGED <<control, aborted, dht, order>>

\* get, put and provide end with a value or without one.
Ends(q) ==
  LET cmd == query[q].cmd IN
  /\ cmd \in WithStatus /\ query[q].pc = "running"
  /\ \E s \in {"done", "error"} :
       /\ Report(cmd, s)
       /\ IF cmd = "provide" THEN UNCHANGED result
          ELSE Show(cmd, IF s = "done" THEN <<"value">> ELSE <<"error">>)
  /\ Goto(q, "done")
  /\ UNCHANGED <<control, aborted, dht, order>>

-----------------------------------------------------------------------------
Prepare(q) == Announce(q) \/ Unsupported(q) \/ Begin(q)
Finish(q) ==
  NoMoreProviders(q) \/ FoundPeer(q) \/ SearchRejected(q) \/ SearchFails(q) \/ Ends(q)

Next ==
  \E q \in Query :
    \/ \E cmd \in Command : Refuse(q, cmd) \/ Search(q, cmd) \/ Store(q, cmd)
    \/ Get(q)
    \/ Prepare(q) \/ FoundProvider(q) \/ Finish(q)

\* Updates are sent without waiting for anybody, and every query ends: the
\* abortable ones by their timeout, the others by the DHT's own.
Fairness == \A q \in Query : WF_vars(Prepare(q)) /\ WF_vars(Finish(q))

Spec == Init /\ [][Next]_vars
FairSpec == Spec /\ Fairness

-----------------------------------------------------------------------------
(* Properties.                                                             *)

Item == {"aborted", "searching", "storing", "found", "value", "invalid", "error",
         "no-providers-found", "peer-not-found", "ended-after-60s"}

\* Type invariant.
TypeOK ==
  /\ \A q \in Query :
       /\ query[q].cmd \in Command \cup {"none"}
       /\ query[q].pc \in {"new", "aborting", "prepared", "running", "done"}
  /\ result \in [Command -> Seq(Item)]
  /\ status \in [Command -> {"null", "inprogress", "done", "error"}]
  /\ control \in [Command -> SUBSET Query]
  /\ aborted \subseteq Query /\ order \in Seq(Query)
  /\ dht \in BOOLEAN

Active(cmd) == {q \in Query : query[q].cmd = cmd /\ query[q].pc # "done"}

\* When no handler of a command is left, nothing claims that one is at work:
\* no status is "inprogress", no search for a peer or a value "searching" or
\* "aborted", however the handlers have overwritten one another.  (A search
\* for providers that ends without one does leave "searching" behind.)
QuietMeansSettled ==
  \A cmd \in Command :
    Active(cmd) = {} =>
      /\ status[cmd] # "inprogress"
      /\ cmd # "findprovider" =>
           \A i \in DOMAIN result[cmd] :
             result[cmd][i] \notin {"searching", "aborted", "storing"}

\* The list of providers never says that it is still searching once it names
\* one, although handlers share it and replace its first item in place.
FoundNotSearching ==
  "findprovider" \in Command =>
    LET list == result["findprovider"] IN
    (\E i \in DOMAIN list : list[i] = "found") =>
      \A i \in DOMAIN list : list[i] # "searching"

\* What the last handler of put, get, provide and find peer leaves behind
\* does not say that work goes on, and the list of a search for providers
\* never says so beside a provider.  Nothing is claimed of a search that
\* ends without a provider: its list stays "searching".
WorkShownIsUnderWay == QuietMeansSettled /\ FoundNotSearching

\* A command only ever aborts the ones before it.
Newer(p, q) == \E i, j \in DOMAIN order : i < j /\ order[i] = q /\ order[j] = p
NewestNotAborted ==
  \A q \in aborted : \E p \in Query : query[p].cmd = query[q].cmd /\ Newer(p, q)

\* A put, get or provide in progress comes to an end, even when its status
\* is overwritten by others.
StatusSettles ==
  \A cmd \in Command \cap WithStatus :
    status[cmd] = "inprogress" ~> status[cmd] \in {"done", "error"}
=============================================================================
