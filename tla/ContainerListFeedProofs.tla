----------------------- MODULE ContainerListFeedProofs -----------------------
(***************************************************************************)
(* Proofs about ContainerListFeed, for any containers and other peers, any *)
(* number of goroutines, changes, connections and starts.                  *)
(***************************************************************************)
EXTENDS ContainerListFeed, TLAPS

Datum == [named : BOOLEAN, peers : SUBSET Peer]
Reader == [pc : {"off", "ask", "list", "first", "read", "send"},
           list : SUBSET Container, msg : Status]
Work == [pc : {"idle", "cast"}, list : SUBSET Container]

DockerInv ==
  /\ running \subseteq made /\ made \subseteq Container
  /\ net \in [Container -> SUBSET Peer] /\ changes \in 0..MaxChanges

GoroutineTypes ==
  /\ dialling \subseteq Container /\ cut \subseteq Container
  /\ reader \in [Container -> Reader] /\ caster \in [Caster -> Work]
  /\ spawned \in Nat /\ events \in Nat

\* What goroutines have listed was created, what they have read is their
\* container's.
ListsMade ==
  /\ \A c \in Container : reader[c].list \subseteq made /\ reader[c].msg.id = c
  /\ \A t \in Caster : caster[t].list \subseteq made

\* A connection is entered in clients once, and as long as it holds the
\* controller has it there or is about to enter it.
ClientInv ==
  /\ connects \in 0..MaxConnects /\ boots \in 1..MaxBoots
  /\ link \in {"closed", "open", "broken"}
  /\ clients \subseteq 1..connects /\ joining \subseteq 1..connects
  /\ clients \cap joining = {}
  /\ link = "open" => connects \in clients \cup joining

\* The peers of the containers that are shown.
InUse == UNION {data[c].peers : c \in DOMAIN data}

\* The page's three pieces of state fit each other.
PageInv ==
  /\ shown \subseteq made
  /\ data \in [shown -> Datum]
  /\ remote \subseteq Peer /\ remote \subseteq InUse

\* The inductive invariant.
Inv == /\ DockerInv /\ GoroutineTypes /\ watching \in BOOLEAN
       /\ ListsMade /\ ClientInv /\ PageInv

-----------------------------------------------------------------------------
(* Lemmas about the data.                                                  *)

LEMMA OffReader == ASSUME NEW c \in Container PROVE Off(c) \in Reader
BY DEF Off, Reader, Status, Peer

LEMMA NoListWork == NoList \in Work
BY DEF NoList, Work

LEMMA MessageType ==
  ASSUME Inv, NEW c \in Container, NEW full \in BOOLEAN
  PROVE  [id |-> c, full |-> full, peers |-> net[c]] \in Status
BY DEF Inv, DockerInv, Status

\* The page is left as it is, and whatever was created still is.
LEMMA PageKept ==
  ASSUME PageInv, made \subseteq made', UNCHANGED page
  PROVE  PageInv'
BY DEF PageInv, InUse, page

LEMMA ListsKept ==
  ASSUME ListsMade, made \subseteq made', UNCHANGED <<reader, caster>>
  PROVE  ListsMade'
BY DEF ListsMade

LEMMA ClientsKept ==
  ASSUME ClientInv, UNCHANGED <<server, link, connects>>
  PROVE  ClientInv'
BY DEF ClientInv, server

LEMMA DockerKept ==
  ASSUME DockerInv, UNCHANGED docker
  PROVE  DockerInv' /\ made \subseteq made'
BY DEF DockerInv, docker

\* What a page keeps is in use by what it keeps it for.
LEMMA PruneInUse ==
  ASSUME NEW peers \in SUBSET Peer, remote' = Prune(peers, data')
  PROVE  remote' \subseteq Peer /\ remote' \subseteq InUse'
BY DEF Prune, InUse

\* A broadcast drops clients, but not the one that listens.
LEMMA DropsKeepsLive ==
  ASSUME ClientInv, Drops, UNCHANGED <<joining, boots, link, connects>>
  PROVE  ClientInv'
<1>1. PICK gone \in SUBSET (clients \ Live) : clients' = clients \ gone
  BY DEF Drops
<1>2. link = "open" => connects \notin gone
  BY <1>1 DEF Live
<1>3. QED  BY <1>1, <1>2 DEF ClientInv

LEMMA CastListStep ==
  ASSUME Inv, NEW list \in SUBSET made, CastList(list),
         UNCHANGED <<docker, joining, boots, link, connects>>
  PROVE  ClientInv' /\ PageInv'
<1>1. ClientInv'
  BY DropsKeepsLive DEF Inv, CastList
<1>2. made' = made
  BY DEF docker
<1>3. CASE UNCHANGED page
  BY <1>1, <1>2, <1>3, PageKept DEF Inv
<1>4. CASE Lists(list)
  <2>1. Initialized(list) \in [list -> Datum]
    <3>1. \A c \in list : c \in DOMAIN data => data[c] \in Datum
      BY DEF Inv, PageInv
    <3>2. [named |-> FALSE, peers |-> {}] \in Datum
      BY DEF Datum
    <3>3. QED  BY <3>1, <3>2 DEF Initialized
  <2>2. shown' = list /\ data' \in [list -> Datum]
    BY <1>4, <2>1 DEF Lists
  <2>3. remote' \subseteq Peer /\ remote' \subseteq InUse'
    BY <1>4, PruneInUse DEF Lists, Inv, PageInv
  <2>4. QED  BY <1>1, <1>2, <2>2, <2>3 DEF PageInv
<1>5. QED  BY <1>1, <1>3, <1>4 DEF CastList

LEMMA CastStatusStep ==
  ASSUME Inv, NEW msg \in Status, CastStatus(msg),
         UNCHANGED <<docker, joining, boots, link, connects>>
  PROVE  ClientInv' /\ PageInv'
<1>1. ClientInv'
  BY DropsKeepsLive DEF Inv, CastStatus
<1>2. made' = made
  BY DEF docker
<1>3. CASE UNCHANGED page
  BY <1>1, <1>2, <1>3, PageKept DEF Inv
<1>4. CASE Updates(msg)
  <2>1. CASE msg.id \notin DOMAIN data
    <3>1. UNCHANGED <<shown, data>> /\ remote' \subseteq remote
      BY <1>4, <2>1 DEF Updates
    <3>2. QED  BY <1>1, <1>2, <3>1 DEF Inv, PageInv, InUse
  <2>2. CASE msg.id \in DOMAIN data
    <3> DEFINE datum == [named |-> data[msg.id].named \/ msg.full, peers |-> msg.peers]
    <3>1. datum \in Datum
      <4>1. (data[msg.id].named \/ msg.full) \in BOOLEAN
        BY Zenon
      <4>2. msg.peers \in SUBSET Peer
        BY DEF Status
      <4>3. QED  BY <4>1, <4>2 DEF Datum
    <3>2. /\ data' = [data EXCEPT ![msg.id] = datum] /\ shown' = shown
          /\ remote' = Prune(Merged(msg.peers), data')
      BY <1>4, <2>2 DEF Updates
    <3> HIDE DEF datum
    <3>3. data' \in [shown -> Datum]
      BY <3>1, <3>2 DEF Inv, PageInv
    <3>4. Merged(msg.peers) \in SUBSET Peer
      BY DEF Merged, Status, Inv, PageInv
    <3>5. remote' \subseteq Peer /\ remote' \subseteq InUse'
      BY <3>2, <3>4, PruneInUse
    <3>6. QED  BY <1>1, <1>2, <3>2, <3>3, <3>5 DEF Inv, PageInv
  <2>3. QED  BY <2>1, <2>2
<1>5. QED  BY <1>1, <1>3, <1>4 DEF CastStatus

-----------------------------------------------------------------------------
(* The steps: Docker and the nodes.                                        *)

LEMMA CreatedStep ==
  ASSUME Inv, NEW c \in Container, Created(c)
  PROVE  Inv'
<1>1. /\ changes < MaxChanges /\ changes' = changes + 1
      /\ made' = made \cup {c} /\ running' = running \cup {c}
      /\ dialling' = dialling \cup {c} /\ events' = events + 1
      /\ UNCHANGED <<net, cut, reader, caster, spawned, watching>>
      /\ UNCHANGED <<server, link, connects>> /\ UNCHANGED page
  BY DEF Created
<1>2. DockerInv' /\ made \subseteq made'
  BY <1>1, BoundsAssumption DEF Inv, DockerInv
<1>3. GoroutineTypes'
  BY <1>1 DEF Inv, GoroutineTypes
<1>4. ListsMade' /\ ClientInv' /\ PageInv'
  BY <1>1, <1>2, ListsKept, ClientsKept, PageKept DEF Inv
<1>5. QED  BY <1>1, <1>2, <1>3, <1>4 DEF Inv

LEMMA DockerStep ==
  ASSUME Inv, NEW c \in Container,
         Started(c) \/ Ended(c) \/ \E p \in Peer : Connection(c, p)
  PROVE  Inv'
<1>1. /\ changes < MaxChanges /\ changes' = changes + 1 /\ made' = made
      /\ UNCHANGED <<dialling, reader, caster, spawned, watching>>
      /\ UNCHANGED <<server, link, connects>> /\ UNCHANGED page
  BY DEF Started, Ended, Connection, readers, casters
<1>2. running' \subseteq made /\ net' \in [Container -> SUBSET Peer]
  <2>1. CASE Started(c)
    BY <2>1 DEF Started, Inv, DockerInv
  <2>2. CASE Ended(c)
    BY <2>2 DEF Ended, Inv, DockerInv
  <2>3. ASSUME NEW p \in Peer, Connection(c, p)
        PROVE  running' \subseteq made /\ net' \in [Container -> SUBSET Peer]
    BY <2>3 DEF Connection, Inv, DockerInv
  <2>4. QED  BY <2>1, <2>2, <2>3
<1>3. cut' \subseteq Container /\ events' \in Nat
  <2>1. CASE Started(c)
    BY <2>1 DEF Started, readers, Inv, GoroutineTypes
  <2>2. CASE Ended(c)
    BY <2>2 DEF Ended, Inv, GoroutineTypes
  <2>3. ASSUME NEW p \in Peer, Connection(c, p)
        PROVE  cut' \subseteq Container /\ events' \in Nat
    BY <2>3 DEF Connection, readers, casters, Inv, GoroutineTypes
  <2>4. QED  BY <2>1, <2>2, <2>3
<1>4. DockerInv' /\ made \subseteq made'
  BY <1>1, <1>2, BoundsAssumption DEF Inv, DockerInv
<1>5. GoroutineTypes'
  BY <1>1, <1>3 DEF Inv, GoroutineTypes
<1>6. ListsMade' /\ ClientInv' /\ PageInv'
  BY <1>1, <1>4, ListsKept, ClientsKept, PageKept DEF Inv
<1>7. QED  BY <1>1, <1>4, <1>5, <1>6 DEF Inv

-----------------------------------------------------------------------------
(* The page and its connection.                                            *)

LEMMA EmptiesStep ==
  ASSUME Inv, Empties
  PROVE  Inv'
<1>1. /\ changes < MaxChanges /\ changes' = changes + 1
      /\ shown' = {} /\ data' = <<>> /\ remote' = {}
      /\ UNCHANGED <<running, made, net>> /\ UNCHANGED readers /\ UNCHANGED casters
      /\ UNCHANGED <<server, link, connects>>
  BY DEF Empties
<1>2. DockerInv' /\ made \subseteq made'
  BY <1>1, BoundsAssumption DEF Inv, DockerInv
<1>3. GoroutineTypes' /\ UNCHANGED <<reader, caster, watching>>
  BY <1>1 DEF Inv, GoroutineTypes, readers, casters
<1>4. ListsMade' /\ ClientInv'
  BY <1>1, <1>2, <1>3, ListsKept, ClientsKept DEF Inv
<1>5. PageInv'
  <2>1. <<>> \in [{} -> Datum]
    OBVIOUS
  <2>2. QED  BY <1>1, <2>1 DEF PageInv
<1>6. QED  BY <1>2, <1>3, <1>4, <1>5 DEF Inv

\* The page's connection opens, breaks or is seen to have broken, and the
\* controller notices.
LEMMA LinkStep ==
  ASSUME Inv, UNCHANGED docker, UNCHANGED readers, UNCHANGED <<caster, events, watching>>,
         UNCHANGED page, spawned' \in Nat, ClientInv'
  PROVE  Inv'
<1>1. DockerInv' /\ made \subseteq made'
  BY DockerKept DEF Inv
<1>2. GoroutineTypes' /\ UNCHANGED <<reader, caster, watching>>
  BY DEF Inv, GoroutineTypes, readers
<1>3. ListsMade' /\ PageInv'
  BY <1>1, <1>2, ListsKept, PageKept DEF Inv
<1>4. QED  BY <1>1, <1>2, <1>3 DEF Inv

LEMMA ClientStep ==
  ASSUME Inv, \/ Opens \/ Breaks \/ Notices
              \/ \E n \in 1..MaxConnects : Joins(n) \/ Leaves(n)
  PROVE  Inv'
<1>1. CASE Opens
  <2>1. /\ link' = "open" /\ connects < MaxConnects /\ connects' = connects + 1
        /\ joining' = joining \cup {connects + 1} /\ clients' = clients /\ boots' = boots
    BY <1>1 DEF Opens
  <2>2. connects \in Nat /\ connects' \in 0..MaxConnects
    BY <2>1, BoundsAssumption DEF Inv, ClientInv
  <2>3. 1..connects \subseteq 1..connects' /\ connects' \in 1..connects'
        /\ connects' \notin 1..connects
    BY <2>1, <2>2
  <2>4. ClientInv'
    BY <2>1, <2>2, <2>3 DEF Inv, ClientInv
  <2>5. QED  BY <1>1, <2>4, LinkStep DEF Opens, Inv, GoroutineTypes, casters
<1>2. CASE Breaks \/ Notices
  <2>1. link' \in {"broken", "closed"} /\ UNCHANGED <<clients, joining, boots, connects>>
    BY <1>2 DEF Breaks, Notices, server
  <2>2. ClientInv'
    BY <2>1 DEF Inv, ClientInv
  <2>3. QED  BY <1>2, <2>2, LinkStep DEF Breaks, Notices, Inv, GoroutineTypes, casters
<1>3. ASSUME NEW n \in 1..MaxConnects, Joins(n) PROVE Inv'
  <2>1. /\ n \in joining /\ joining' = joining \ {n} /\ clients' = clients \cup {n}
        /\ UNCHANGED <<boots, link, connects>>
    BY <1>3 DEF Joins
  <2>2. ClientInv'
    BY <2>1 DEF Inv, ClientInv
  <2>3. QED  BY <1>3, <2>2, LinkStep DEF Joins, Inv, GoroutineTypes
<1>4. ASSUME NEW n \in 1..MaxConnects, Leaves(n) PROVE Inv'
  <2>1. /\ n \notin Live /\ clients' = clients \ {n}
        /\ UNCHANGED <<joining, boots, link, connects>>
    BY <1>4 DEF Leaves
  <2>2. ClientInv'
    BY <2>1 DEF Inv, ClientInv, Live
  <2>3. QED  BY <1>4, <2>2, LinkStep DEF Leaves, Inv, GoroutineTypes, casters
<1>5. QED  BY <1>1, <1>2, <1>3, <1>4

-----------------------------------------------------------------------------
(* The goroutines that broadcast lists.                                    *)

LEMMA AsksStep ==
  ASSUME Inv, LoopAsks \/ \E t \in Task : AsksDocker(t)
  PROVE  Inv'
<1>1. PICK t \in Caster :
        caster' \in {caster, [caster EXCEPT ![t] = [pc |-> "cast", list |-> running]]}
  BY DEF LoopAsks, AsksDocker, Caster
<1>2. [pc |-> "cast", list |-> running] \in Work /\ running \subseteq made
  BY DEF Work, Inv, DockerInv
<1>3. spawned' \in Nat
  BY DEF LoopAsks, AsksDocker, Inv, GoroutineTypes
<1>4. /\ UNCHANGED docker /\ UNCHANGED readers /\ UNCHANGED <<events, watching>>
      /\ UNCHANGED <<server, link, connects>> /\ UNCHANGED page
  BY DEF LoopAsks, AsksDocker
<1>5. DockerInv' /\ made' = made /\ ClientInv' /\ PageInv'
  BY <1>4, DockerKept, ClientsKept, PageKept DEF Inv, docker
<1>6. GoroutineTypes'
  BY <1>1, <1>2, <1>3, <1>4 DEF Inv, GoroutineTypes, readers
<1>7. ListsMade'
  BY <1>1, <1>2, <1>4, <1>5 DEF Inv, ListsMade, readers, GoroutineTypes
<1>8. QED  BY <1>4, <1>5, <1>6, <1>7 DEF Inv

LEMMA CastsStep ==
  ASSUME Inv, NEW t \in Caster, Casts(t)
  PROVE  Inv'
<1>1. /\ CastList(caster[t].list) /\ caster' = [caster EXCEPT ![t] = NoList]
      /\ UNCHANGED docker /\ UNCHANGED readers /\ UNCHANGED <<spawned, events, watching>>
      /\ UNCHANGED <<joining, boots, link, connects>>
  BY DEF Casts
<1>2. ClientInv' /\ PageInv'
  BY <1>1, CastListStep DEF Inv, ListsMade
<1>3. DockerInv' /\ made' = made
  BY <1>1, DockerKept DEF Inv, docker
<1>4. GoroutineTypes'
  BY <1>1, NoListWork DEF Inv, GoroutineTypes, readers
<1>5. ListsMade'
  BY <1>1, <1>3 DEF Inv, ListsMade, readers, GoroutineTypes, NoList
<1>6. QED  BY <1>1, <1>2, <1>3, <1>4, <1>5 DEF Inv

LEMMA EventStep ==
  ASSUME Inv, Event \/ EventsFail
  PROVE  Inv'
<1>1. /\ UNCHANGED docker /\ UNCHANGED readers /\ caster' = caster
      /\ UNCHANGED <<server, link, connects>> /\ UNCHANGED page
  BY DEF Event, EventsFail
<1>2. spawned' \in Nat /\ events' \in Nat
  BY DEF Event, EventsFail, Inv, GoroutineTypes
<1>3. watching' \in BOOLEAN
  BY Zenon DEF Event, EventsFail, Inv
<1>4. DockerInv' /\ made \subseteq made' /\ ClientInv' /\ PageInv'
  BY <1>1, DockerKept, ClientsKept, PageKept DEF Inv
<1>5. GoroutineTypes' /\ ListsMade'
  BY <1>1, <1>2, <1>4, ListsKept DEF Inv, GoroutineTypes, readers
<1>6. QED  BY <1>3, <1>4, <1>5 DEF Inv

-----------------------------------------------------------------------------
(* The readers of node connections.                                        *)

LEMMA GivesUpStep ==
  ASSUME Inv, NEW c \in Container, GivesUp(c)
  PROVE  Inv'
<1>1. /\ dialling' = dialling \ {c} /\ spawned' \in {spawned, spawned + 1}
      /\ UNCHANGED docker /\ UNCHANGED <<cut, reader, caster, events, watching>>
      /\ UNCHANGED <<server, link, connects>> /\ UNCHANGED page
  BY DEF GivesUp
<1>2. DockerInv' /\ made \subseteq made' /\ ClientInv' /\ PageInv'
  BY <1>1, DockerKept, ClientsKept, PageKept DEF Inv
<1>3. GoroutineTypes' /\ ListsMade'
  BY <1>1, <1>2, ListsKept DEF Inv, GoroutineTypes
<1>4. QED  BY <1>1, <1>2, <1>3 DEF Inv

\* A reader moves on, and what it holds is as it should be.
LEMMA ReaderMoves ==
  ASSUME Inv, NEW c \in Container, NEW r \in Reader,
         r.list \subseteq made, r.msg.id = c,
         reader' = [reader EXCEPT ![c] = r], dialling' \subseteq dialling,
         UNCHANGED <<cut, caster, events, watching>>, spawned' \in Nat,
         UNCHANGED docker, ClientInv', PageInv'
  PROVE  Inv'
<1>1. DockerInv' /\ made' = made
  BY DockerKept DEF Inv, docker
<1>2. GoroutineTypes'
  BY DEF Inv, GoroutineTypes
<1>3. ListsMade'
  BY <1>1 DEF Inv, ListsMade, GoroutineTypes
<1>4. QED  BY <1>1, <1>2, <1>3 DEF Inv

LEMMA ReadsStep ==
  ASSUME Inv, NEW c \in Container, Handshake(c) \/ ReaderAsks(c) \/ Reads(c) \/ ReaderEnds(c)
  PROVE  Inv'
<1>1. PICK r \in Reader : /\ reader' = [reader EXCEPT ![c] = r]
                          /\ r.list \subseteq made /\ r.msg.id = c
  <2>1. CASE Handshake(c)
    <3>1. PICK full \in BOOLEAN :
            reader' = [reader EXCEPT ![c] =
              [pc |-> "ask", list |-> {}, msg |-> [id |-> c, full |-> full, peers |-> net[c]]]]
      BY <2>1 DEF Handshake
    <3> DEFINE msg == [id |-> c, full |-> full, peers |-> net[c]]
    <3>2. msg \in Status /\ msg.id = c
      BY MessageType
    <3> HIDE DEF msg
    <3>3. [pc |-> "ask", list |-> {}, msg |-> msg] \in Reader
      BY <3>2 DEF Reader
    <3>4. QED  BY <3>1, <3>2, <3>3 DEF msg
  <2>2. CASE ReaderAsks(c)
    <3>1. reader[c] \in Reader /\ reader[c].list \subseteq made /\ reader[c].msg.id = c
      BY DEF Inv, GoroutineTypes, ListsMade
    <3>2. running \subseteq made /\ running \subseteq Container
      BY DEF Inv, DockerInv
    <3>3. CASE reader' = [reader EXCEPT ![c].pc = "list", ![c].list = running]
      <4>1. [reader[c] EXCEPT !.pc = "list", !.list = running] \in Reader
        BY <3>1, <3>2 DEF Reader
      <4>2. reader' = [reader EXCEPT ![c] = [reader[c] EXCEPT !.pc = "list", !.list = running]]
        BY <3>3 DEF Inv, GoroutineTypes
      <4>3. QED  BY <3>1, <3>2, <4>1, <4>2 DEF Reader
    <3>4. CASE reader' = [reader EXCEPT ![c].pc = "first"]
      <4>1. [reader[c] EXCEPT !.pc = "first"] \in Reader
        BY <3>1 DEF Reader
      <4>2. reader' = [reader EXCEPT ![c] = [reader[c] EXCEPT !.pc = "first"]]
        BY <3>4 DEF Inv, GoroutineTypes
      <4>3. QED  BY <3>1, <4>1, <4>2 DEF Reader
    <3>5. QED  BY <2>2, <3>3, <3>4 DEF ReaderAsks
  <2>3. CASE Reads(c)
    <3>1. PICK full \in BOOLEAN :
            reader' = [reader EXCEPT ![c].pc = "send",
                         ![c].msg = [id |-> c, full |-> full, peers |-> net[c]]]
      BY <2>3 DEF Reads
    <3> DEFINE msg == [id |-> c, full |-> full, peers |-> net[c]]
    <3>2. msg \in Status /\ msg.id = c
      BY MessageType
    <3>3. reader' = [reader EXCEPT ![c].pc = "send", ![c].msg = msg]
      BY <3>1
    <3> HIDE DEF msg
    <3>4. reader[c] \in Reader /\ reader[c].list \subseteq made
      BY DEF Inv, GoroutineTypes, ListsMade
    <3>5. [reader[c] EXCEPT !.pc = "send", !.msg = msg] \in Reader
      BY <3>2, <3>4 DEF Reader
    <3>6. reader' = [reader EXCEPT ![c] = [reader[c] EXCEPT !.pc = "send", !.msg = msg]]
      BY <3>3 DEF Inv, GoroutineTypes
    <3>7. QED  BY <3>2, <3>4, <3>5, <3>6 DEF Reader
  <2>4. CASE ReaderEnds(c)
    <3>1. reader' = [reader EXCEPT ![c] = Off(c)]
      BY <2>4 DEF ReaderEnds
    <3>2. Off(c).list = {} /\ Off(c).msg.id = c
      BY DEF Off
    <3>3. QED  BY <3>1, <3>2, OffReader
  <2>5. QED  BY <2>1, <2>2, <2>3, <2>4
<1>2. /\ UNCHANGED docker /\ UNCHANGED casters /\ cut' = cut /\ dialling' \subseteq dialling
      /\ UNCHANGED <<server, link, connects>> /\ UNCHANGED page
  BY DEF Handshake, ReaderAsks, Reads, ReaderEnds
<1>3. /\ UNCHANGED <<cut, caster, events, watching>> /\ spawned' \in Nat
      /\ ClientInv' /\ PageInv'
  BY <1>2, ClientsKept, PageKept, DockerKept DEF casters, Inv, GoroutineTypes
<1>4. QED  BY <1>1, <1>2, <1>3, ReaderMoves

LEMMA SendsStep ==
  ASSUME Inv, NEW c \in Container, ReaderLists(c) \/ ReaderStarts(c) \/ Sends(c)
  PROVE  Inv'
<1>1. reader[c] \in Reader /\ reader[c].list \subseteq made /\ reader[c].msg.id = c
  BY DEF Inv, GoroutineTypes, ListsMade
<1>2. /\ UNCHANGED docker /\ UNCHANGED <<joining, boots, link, connects>>
      /\ UNCHANGED <<dialling, cut, caster, events, watching>>
      /\ spawned' \in {spawned, spawned + 1}
  BY DEF ReaderLists, ReaderStarts, Sends, casters
<1>3. ClientInv' /\ PageInv'
  <2>1. CASE ReaderLists(c)
    BY <1>1, <1>2, <2>1, CastListStep DEF ReaderLists
  <2>2. CASE ReaderStarts(c) \/ Sends(c)
    <3>1. reader[c].msg \in Status /\ CastStatus(reader[c].msg)
      BY <1>1, <2>2 DEF ReaderStarts, Sends, Reader
    <3>2. QED  BY <1>2, <3>1, CastStatusStep
  <2>3. QED  BY <2>1, <2>2
<1>4. PICK r \in Reader : /\ reader' = [reader EXCEPT ![c] = r]
                          /\ r.list \subseteq made /\ r.msg.id = c
  <2>1. CASE ReaderLists(c)
    <3>1. [reader[c] EXCEPT !.pc = "first", !.list = {}] \in Reader
      BY <1>1 DEF Reader
    <3>2. reader' = [reader EXCEPT ![c] = [reader[c] EXCEPT !.pc = "first", !.list = {}]]
      BY <2>1 DEF ReaderLists, Inv, GoroutineTypes
    <3>3. QED  BY <1>1, <3>1, <3>2 DEF Reader
  <2>2. CASE ReaderStarts(c) \/ Sends(c)
    <3>1. reader' = [reader EXCEPT ![c] = [Off(c) EXCEPT !.pc = "read"]]
      BY <2>2 DEF ReaderStarts, Sends
    <3>2. [Off(c) EXCEPT !.pc = "read"] \in Reader
      BY OffReader DEF Reader
    <3>3. [Off(c) EXCEPT !.pc = "read"].list = {} /\ [Off(c) EXCEPT !.pc = "read"].msg.id = c
      BY DEF Off
    <3>4. QED  BY <3>1, <3>2, <3>3
  <2>3. QED  BY <2>1, <2>2
<1>5. dialling' \subseteq dialling /\ spawned' \in Nat
  BY <1>2 DEF Inv, GoroutineTypes
<1>6. QED  BY <1>2, <1>3, <1>4, <1>5, ReaderMoves

\* The controller forgets its clients; the page keeps what it has.
LEMMA RestartStep ==
  ASSUME Inv, Restart
  PROVE  Inv'
<1>1. /\ boots < MaxBoots /\ boots' = boots + 1
      /\ dialling' = running /\ cut' = {} /\ reader' = [c \in Container |-> Off(c)]
      /\ caster' = [t \in Caster |-> NoList] /\ spawned' = 0 /\ events' = 0
      /\ clients' = {} /\ joining' = {}
      /\ link' = IF link = "open" THEN "broken" ELSE link
      /\ UNCHANGED docker /\ connects' = connects /\ UNCHANGED page
  BY DEF Restart
<1>2. DockerInv' /\ made' = made /\ PageInv'
  BY <1>1, DockerKept, PageKept DEF Inv, docker
<1>3. GoroutineTypes'
  BY <1>1, OffReader, NoListWork DEF Inv, GoroutineTypes, DockerInv
<1>4. ListsMade'
  BY <1>1, <1>2 DEF ListsMade, Off, NoList
<1>5. ClientInv'
  <2>1. boots' \in 1..MaxBoots
    BY <1>1, BoundsAssumption DEF Inv, ClientInv
  <2>2. QED  BY <1>1, <2>1 DEF Inv, ClientInv
<1>6. watching' \in BOOLEAN
  BY Zenon DEF Restart
<1>7. QED  BY <1>2, <1>3, <1>4, <1>5, <1>6 DEF Inv

-----------------------------------------------------------------------------
(* The theorems.                                                           *)

LEMMA InvInit == Init => Inv
<1>1. SUFFICES ASSUME Init PROVE Inv
  OBVIOUS
<1>2. DockerInv
  BY <1>1, BoundsAssumption DEF Init, DockerInv
<1>3. GoroutineTypes
  BY <1>1, OffReader, NoListWork DEF Init, GoroutineTypes
<1>4. watching \in BOOLEAN
  BY <1>1, Zenon DEF Init
<1>5. ListsMade
  BY <1>1 DEF Init, ListsMade, Off, NoList
<1>6. ClientInv
  BY <1>1, BoundsAssumption DEF Init, ClientInv
<1>7. PageInv
  <2>1. <<>> \in [{} -> Datum]
    OBVIOUS
  <2>2. shown = {} /\ data = <<>> /\ remote = {}
    BY <1>1 DEF Init
  <2>3. QED  BY <2>1, <2>2 DEF PageInv
<1>8. QED  BY <1>2, <1>3, <1>4, <1>5, <1>6, <1>7 DEF Inv

\* One step per action.
LEMMA InvStep == Inv /\ [Next]_vars => Inv'
<1>1. SUFFICES ASSUME Inv, [Next]_vars PROVE Inv'
  OBVIOUS
<1>2. ASSUME NEW c \in Container,
             Created(c) \/ Started(c) \/ Ended(c) \/ GivesUp(c) \/ ReaderStep(c)
      PROVE  Inv'
  BY <1>1, <1>2, CreatedStep, DockerStep, GivesUpStep, ReadsStep, SendsStep DEF ReaderStep
<1>3. ASSUME NEW c \in Container, NEW p \in Peer, Connection(c, p) PROVE Inv'
  BY <1>1, <1>3, DockerStep
<1>4. CASE Empties
  BY <1>1, <1>4, EmptiesStep
<1>5. CASE \/ Opens \/ Breaks \/ Notices
           \/ \E n \in 1..MaxConnects : Joins(n) \/ Leaves(n)
  BY <1>1, <1>5, ClientStep
<1>6. CASE CasterStep
  BY <1>1, <1>6, AsksStep, CastsStep, EventStep DEF CasterStep
<1>7. CASE EventsFail
  BY <1>1, <1>7, EventStep
<1>8. CASE Restart
  BY <1>1, <1>8, RestartStep
<1>9. CASE UNCHANGED vars
  <2>1. /\ UNCHANGED docker /\ UNCHANGED readers /\ UNCHANGED casters
        /\ UNCHANGED <<server, link, connects>> /\ UNCHANGED page
    BY <1>9 DEF vars
  <2>2. UNCHANGED <<caster, spawned, events, watching>>
    BY <2>1 DEF casters
  <2>3. ClientInv' /\ spawned' \in Nat
    BY <1>1, <2>1, <2>2, ClientsKept DEF Inv, GoroutineTypes
  <2>4. QED  BY <1>1, <2>1, <2>2, <2>3, LinkStep
<1>10. QED
  BY <1>1, <1>2, <1>3, <1>4, <1>5, <1>6, <1>7, <1>8, <1>9 DEF Next

\* The inductive invariant: what is listed was created, clients are numbered
\* as they connect, and the three pieces of the page's state fit each other.
THEOREM Invariance == Spec => []Inv
<1>1. QED  BY InvInit, InvStep, PTL DEF Spec

\* Every variable keeps its type.
THEOREM TypeCorrectness == Spec => []TypeOK
<1>1. Inv => TypeOK
  <2>1. SUFFICES ASSUME Inv PROVE TypeOK
    OBVIOUS
  <2>2. 1..connects \subseteq 1..MaxConnects
    BY <2>1, BoundsAssumption DEF Inv, ClientInv
  <2>3. /\ clients \subseteq 1..MaxConnects /\ joining \subseteq 1..MaxConnects
        /\ boots \in 1..MaxBoots
        /\ link \in {"closed", "open", "broken"} /\ connects \in 0..MaxConnects
    BY <2>1, <2>2 DEF Inv, ClientInv
  <2>4. /\ shown \subseteq Container /\ remote \subseteq Peer
        /\ \A c \in DOMAIN data :
             c \in Container /\ data[c] \in [named : BOOLEAN, peers : SUBSET Peer]
    BY <2>1 DEF Inv, PageInv, DockerInv, Datum
  <2>5. QED
    BY <2>1, <2>3, <2>4 DEF Inv, DockerInv, GoroutineTypes, Reader, Work, TypeOK
<1>2. QED  BY <1>1, Invariance, PTL

\* broadcastToClients, whose writes to other clients fail, and the read loops
\* of clients that have gone never take out of clients the connection the page
\* listens to: as long as it is open it is there, or wsHandler is about to
\* enter it.
LivePageAttended == link = "open" => connects \in clients \cup joining

THEOREM LivePageIsAttended == Spec => []LivePageAttended
<1>1. Inv => LivePageAttended
  BY DEF Inv, ClientInv, LivePageAttended
<1>2. QED  BY <1>1, Invariance, PTL

\* The page's containers, its data and its remote peers, set one after the
\* other by lists, updates and the effects that follow them, always fit: data
\* is kept for the containers shown and no others, and a remote peer is one
\* that a container shown is connected to.
PageFits == DOMAIN data = shown /\ remote \subseteq UNION {data[c].peers : c \in shown}

THEOREM PageAlwaysFits == Spec => []PageFits
<1>1. Inv => PageFits
  BY DEF Inv, PageInv, InUse, PageFits
<1>2. QED  BY <1>1, Invariance, PTL

-----------------------------------------------------------------------------
(* Lists overtake one another, so the page may go back to an older one; but  *)
(* no list is put together from what ran at different times.                 *)

\* A list being broadcast is the one Docker gave.
ListsFromDocker ==
  /\ \A c \in Container : reader'[c].pc = "list" =>
       \/ reader'[c].list = running
       \/ reader[c].pc = "list" /\ reader'[c].list = reader[c].list
  /\ \A t \in Caster : caster'[t].pc = "cast" =>
       \/ caster'[t].list = running
       \/ caster[t].pc = "cast" /\ caster'[t].list = caster[t].list

\* The page shows a list that is broadcast, or is emptied.
ShowsLists ==
  \/ shown' \in {shown, {}}
  \/ \E c \in Container : reader[c].pc = "list" /\ shown' = reader[c].list
  \/ \E t \in Caster : caster[t].pc = "cast" /\ shown' = caster[t].list

LEMMA ReadersFromDocker ==
  ASSUME Inv, NEW c \in Container, ReaderStep(c), UNCHANGED caster
  PROVE  ListsFromDocker
<1>1. reader[c] \in Reader
  BY DEF Inv, GoroutineTypes
<1>2. PICK r : /\ reader' = [reader EXCEPT ![c] = r]
               /\ r.pc = "list" => r.list = running
  <2>1. CASE Handshake(c)
    BY <2>1 DEF Handshake
  <2>2. CASE ReaderAsks(c)
    <3>1. CASE reader' = [reader EXCEPT ![c].pc = "list", ![c].list = running]
      <4>1. reader' = [reader EXCEPT ![c] = [reader[c] EXCEPT !.pc = "list", !.list = running]]
        BY <3>1 DEF Inv, GoroutineTypes
      <4>2. [reader[c] EXCEPT !.pc = "list", !.list = running].list = running
        BY <1>1 DEF Reader
      <4>3. QED  BY <4>1, <4>2
    <3>2. CASE reader' = [reader EXCEPT ![c].pc = "first"]
      <4>1. reader' = [reader EXCEPT ![c] = [reader[c] EXCEPT !.pc = "first"]]
        BY <3>2 DEF Inv, GoroutineTypes
      <4>2. [reader[c] EXCEPT !.pc = "first"].pc = "first"
        BY <1>1 DEF Reader
      <4>3. QED  BY <4>1, <4>2
    <3>3. QED  BY <2>2, <3>1, <3>2 DEF ReaderAsks
  <2>3. CASE ReaderLists(c)
    <3>1. reader' = [reader EXCEPT ![c] = [reader[c] EXCEPT !.pc = "first", !.list = {}]]
      BY <2>3 DEF ReaderLists, Inv, GoroutineTypes
    <3>2. [reader[c] EXCEPT !.pc = "first", !.list = {}].pc = "first"
      BY <1>1 DEF Reader
    <3>3. QED  BY <3>1, <3>2
  <2>4. CASE ReaderStarts(c) \/ Sends(c)
    <3>1. reader' = [reader EXCEPT ![c] = [Off(c) EXCEPT !.pc = "read"]]
      BY <2>4 DEF ReaderStarts, Sends
    <3>2. [Off(c) EXCEPT !.pc = "read"].pc = "read"
      BY DEF Off
    <3>3. QED  BY <3>1, <3>2
  <2>5. CASE Reads(c)
    <3>1. PICK msg : reader' = [reader EXCEPT ![c].pc = "send", ![c].msg = msg]
      BY <2>5 DEF Reads
    <3>2. reader' = [reader EXCEPT ![c] = [reader[c] EXCEPT !.pc = "send", !.msg = msg]]
      BY <3>1 DEF Inv, GoroutineTypes
    <3>3. [reader[c] EXCEPT !.pc = "send", !.msg = msg].pc = "send"
      BY <1>1 DEF Reader
    <3>4. QED  BY <3>2, <3>3
  <2>6. CASE ReaderEnds(c)
    <3>1. reader' = [reader EXCEPT ![c] = Off(c)] /\ Off(c).pc = "off"
      BY <2>6 DEF ReaderEnds, Off
    <3>2. QED  BY <3>1
  <2>7. QED  BY <2>1, <2>2, <2>3, <2>4, <2>5, <2>6 DEF ReaderStep
<1>3. QED  BY <1>2 DEF ListsFromDocker, Inv, GoroutineTypes

LEMMA CastersFromDocker ==
  ASSUME Inv, NEW t \in Caster, UNCHANGED reader,
         caster' \in {[caster EXCEPT ![t] = [pc |-> "cast", list |-> running]],
                      [caster EXCEPT ![t] = NoList], caster}
  PROVE  ListsFromDocker
BY DEF ListsFromDocker, NoList, Inv, GoroutineTypes

\* Every action broadcasts what it has of Docker's list, if anything.
LEMMA FromDocker ==
  ASSUME Inv, Next
  PROVE  ListsFromDocker /\ ShowsLists
<1>1. CASE UNCHANGED <<reader, caster, shown>>
  BY <1>1 DEF ListsFromDocker, ShowsLists
<1>2. ASSUME NEW c \in Container, Created(c) \/ Started(c) \/ Ended(c) \/ GivesUp(c)
      PROVE  UNCHANGED <<reader, caster, shown>>
  BY <1>2 DEF Created, Started, Ended, GivesUp, readers, page
<1>3. ASSUME NEW c \in Container, ReaderStep(c) PROVE ListsFromDocker /\ ShowsLists
  <2>1. caster' = caster
    BY <1>3 DEF ReaderStep, Handshake, ReaderAsks, ReaderLists, ReaderStarts, Reads,
       Sends, ReaderEnds, casters
  <2>2. shown' = shown \/ (reader[c].pc = "list" /\ shown' = reader[c].list)
    BY <1>3 DEF ReaderStep, Handshake, ReaderAsks, ReaderLists, ReaderStarts, Reads,
       Sends, ReaderEnds, CastList, CastStatus, Lists, Updates, page
  <2>3. QED  BY <1>3, <2>1, <2>2, ReadersFromDocker DEF ShowsLists
<1>4. ASSUME NEW c \in Container, NEW p \in Peer, Connection(c, p)
      PROVE  UNCHANGED <<reader, caster, shown>>
  BY <1>4 DEF Connection, readers, casters, page
<1>5. CASE Empties
  BY <1>5 DEF Empties, ListsFromDocker, ShowsLists, readers, casters
<1>6. CASE Opens \/ Breaks \/ Notices \/ EventsFail
  BY <1>1, <1>6 DEF Opens, Breaks, Notices, EventsFail, readers, casters, page
<1>7. CASE CasterStep
  <2>1. CASE Event
    BY <1>1, <2>1 DEF Event, readers, page
  <2>2. CASE LoopAsks \/ \E t \in Task : AsksDocker(t)
    <3>1. UNCHANGED <<reader, shown>>
      BY <2>2 DEF LoopAsks, AsksDocker, readers, page
    <3>2. PICK t \in Caster :
            caster' \in {caster, [caster EXCEPT ![t] = [pc |-> "cast", list |-> running]]}
      BY <2>2 DEF LoopAsks, AsksDocker, Caster
    <3>3. QED  BY <3>1, <3>2, CastersFromDocker DEF ShowsLists
  <2>3. ASSUME NEW t \in Caster, Casts(t) PROVE ListsFromDocker /\ ShowsLists
    <3>1. reader' = reader /\ caster' = [caster EXCEPT ![t] = NoList]
      BY <2>3 DEF Casts, readers
    <3>2. shown' = shown \/ (caster[t].pc = "cast" /\ shown' = caster[t].list)
      BY <2>3 DEF Casts, CastList, Lists, page
    <3>3. QED  BY <3>1, <3>2, CastersFromDocker DEF ShowsLists
  <2>4. QED  BY <1>7, <2>1, <2>2, <2>3 DEF CasterStep
<1>8. CASE Restart
  <2>1. /\ reader' = [c \in Container |-> Off(c)] /\ caster' = [t \in Caster |-> NoList]
        /\ shown' = shown
    BY <1>8 DEF Restart, page
  <2>2. QED  BY <2>1 DEF ListsFromDocker, ShowsLists, Off, NoList
<1>9. ASSUME NEW n \in 1..MaxConnects, Joins(n) \/ Leaves(n)
      PROVE  UNCHANGED <<reader, caster, shown>>
  BY <1>9 DEF Joins, Leaves, readers, casters, page
<1>10. QED
  BY <1>1, <1>2, <1>3, <1>4, <1>5, <1>6, <1>7, <1>8, <1>9 DEF Next

\* History: the sets of containers that have run together.
VARIABLE past

PastSpec ==
  /\ Init /\ past = {running}
  /\ [][Next /\ past' = past \cup {running'}]_<<vars, past>>

\* What the page shows is empty or ran, just so, at some moment.
ShowsWhatRan == shown = {} \/ shown \in past

PastInv ==
  /\ running \in past /\ ShowsWhatRan
  /\ \A c \in Container : reader[c].pc = "list" => reader[c].list \in past
  /\ \A t \in Caster : caster[t].pc = "cast" => caster[t].list \in past

\* broadcastContainers sends each list as Docker gave it, whichever goroutine
\* asked for it and however long it waited for clientsMu, so the page never
\* shows containers together that did not run together.
THEOREM PageShowsWhatRan == PastSpec => []ShowsWhatRan
<1>1. Init /\ past = {running} => Inv /\ PastInv
  <2>1. SUFFICES ASSUME Init, past = {running} PROVE Inv /\ PastInv
    OBVIOUS
  <2>2. PastInv
    BY <2>1 DEF Init, PastInv, ShowsWhatRan, Off, NoList
  <2>3. QED  BY <2>1, <2>2, InvInit
<1>2. Inv /\ PastInv /\ [Next /\ past' = past \cup {running'}]_<<vars, past>>
        => Inv' /\ PastInv'
  <2>1. SUFFICES ASSUME Inv, PastInv,
                        [Next /\ past' = past \cup {running'}]_<<vars, past>>
                 PROVE  Inv' /\ PastInv'
    OBVIOUS
  <2>2. Inv'
    BY <2>1, InvStep
  <2>3. CASE UNCHANGED <<vars, past>>
    <3>1. UNCHANGED <<running, reader, caster, shown, past>>
      BY <2>3 DEF vars, docker, readers, casters, page
    <3>2. QED  BY <2>1, <2>2, <3>1 DEF PastInv, ShowsWhatRan
  <2>4. CASE Next /\ past' = past \cup {running'}
    <3>1. ListsFromDocker /\ ShowsLists
      BY <2>1, <2>4, FromDocker
    <3>2. \A c \in Container : reader'[c].pc = "list" => reader'[c].list \in past'
      BY <2>1, <2>4, <3>1 DEF PastInv, ListsFromDocker
    <3>3. \A t \in Caster : caster'[t].pc = "cast" => caster'[t].list \in past'
      BY <2>1, <2>4, <3>1 DEF PastInv, ListsFromDocker
    <3>4. running' \in past' /\ ShowsWhatRan'
      BY <2>1, <2>4, <3>1 DEF PastInv, ShowsLists, ShowsWhatRan
    <3>5. QED  BY <2>2, <3>2, <3>3, <3>4 DEF PastInv
  <2>5. QED  BY <2>1, <2>2, <2>3, <2>4
<1>3. PastInv => ShowsWhatRan
  BY DEF PastInv
<1>4. QED  BY <1>1, <1>2, <1>3, PTL DEF PastSpec

=============================================================================
