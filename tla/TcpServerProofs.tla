-------------------------- MODULE TcpServerProofs --------------------------
(***************************************************************************)
(* Theorems about TcpServer for any connections, clients and descriptors,  *)
(* whatever the application keeps, does in its callbacks or starts again,  *)
(* whatever accept returns, and however many descriptors other threads     *)
(* open.                                                                   *)
(*                                                                         *)
(* They need one premise: no TcpClient of the loop closes.  It would leave *)
(* its entry in events_ behind, as the README says.                        *)
(***************************************************************************)
EXTENDS TcpServer, FiniteSetTheorems, SequenceTheorems, TLAPS

ClientsStay == ClientsClose => Client = {}

Kinds == {"onRead", "onClose", "onTimeout", "accept", "accepted"}

\* The table, the kernel and the connections name each other.
TableInv ==
  /\ \A f \in Fd : events_[f] \in Connection => open[f] = events_[f]
  /\ \A f \in Fd : open[f] \in Connection =>
       open[f] \in alive \ closed_ /\ fd_[open[f]] = f
  /\ \A c \in Connection : fd_[c] # NoFd => open[fd_[c]] = c
  /\ ~startedTwice => EveryConnectionIsRegistered

\* epoll watches a descriptor for the one whose it is and whom the table has.
WatchedInv == \A f \in watched : open[f] = events_[f] /\ events_[f] # None

\* The acceptor has one descriptor, and one entry unless the server was started
\* while the loop had one.
AcceptorInv ==
  /\ \A f \in Fd : open[f] = TheAcceptor <=> f = listenFd
  /\ ~startedTwice => \A f \in Fd : events_[f] = TheAcceptor => f = listenFd

\* The acceptor's loop is the acceptor's; who is being closed is out of the server
\* and the loop.
CallsInv ==
  \A i \in 1..Len(calls) :
    /\ calls[i][1] = "accept" => calls[i][2] = TheAcceptor
    /\ calls[i][1] # "accept" => calls[i][2] \in Connection
    /\ calls[i][1] = "onClose" =>
         /\ calls[i][2] \in Conn \ connections_
         /\ \A f \in Fd : events_[f] # calls[i][2]

\* Nothing is known of a peer that has not been accepted.
FreshInv ==
  /\ \A c \in backlog : peer[c] # "away"
  /\ \A c \in Connection : peer[c] = "away" \/ c \in backlog =>
       /\ c \notin alive \cup closed_ \cup connections_
       /\ fd_[c] = NoFd
       /\ \A i \in 1..Len(calls) : calls[i][2] # c

\* Nothing happens to a TcpClient that makes it close.
ClientInv ==
  /\ \A c \in Client : peer[c] \in {"away", "quiet", "data"}
  /\ \A e \in batch : e.as = "err" => events_[e.fd] \notin Client

\* While callbacks close their own connection only, whom a pending event is for
\* keeps its entry until the event is handled, and is in no call before.
BatchInv ==
  ~crossed =>
    /\ ~misdelivered
    /\ \A e \in batch :
         /\ e.of \in Connection => events_[e.fd] = e.of
         /\ e.of = TheAcceptor => events_[e.fd] \in {None, TheAcceptor}
         /\ \A i \in 1..Len(calls) : calls[i][2] # e.of
    /\ \A e, g \in batch : e.of = g.of => e = g

IInv ==
  /\ TypeOK
  /\ TableInv /\ WatchedInv /\ AcceptorInv
  /\ CallsInv /\ FreshInv /\ ClientInv /\ BatchInv

-----------------------------------------------------------------------------
(***************************************************************************)
(* What is known of the state.                                             *)
(***************************************************************************)
LEMMA NamesDiffer ==
  /\ \A c \in Connection : c # None /\ c # TheAcceptor /\ c # TheOthers
  /\ None # TheAcceptor /\ None # TheOthers /\ TheAcceptor # TheOthers
  /\ NoFd \notin Fd
  /\ Conn \subseteq Connection /\ Client \subseteq Connection
  /\ \A c \in Client : c \notin Conn
  /\ \A c \in Connection : c \in Conn \/ c \in Client
BY ServerAssumption DEF Connection, None, TheAcceptor, TheOthers

LEMMA LowestIsMember ==
  ASSUME NEW S, S \subseteq Fd, S # {}
  PROVE  Lowest(S) \in S
<1>1. S \subseteq Nat
  BY ServerAssumption
<1>2. IsWellFoundedOn(OpToRel(<, Nat), Nat)
  BY NatLessThanWellFounded
<1>3. PICK x \in S : \A y \in S : ~(<<y, x>> \in OpToRel(<, Nat))
  BY <1>1, <1>2, WFMin
<1>4. \A y \in S : x <= y
  <2> TAKE y \in S
  <2>1. ~(y < x)
    BY <1>1, <1>3 DEF OpToRel
  <2> QED BY <1>1, <2>1
<1> QED BY <1>4 DEF Lowest

LEMMA TypeFacts ==
  ASSUME IInv
  PROVE  /\ open \in [Fd -> Event \cup {None, TheOthers}]
         /\ events_ \in [Fd -> Event \cup {None}]
         /\ fd_ \in [Connection -> Fd \cup {NoFd}]
         /\ peer \in [Connection -> {"away", "quiet", "data", "eof", "broken"}]
         /\ backlog \subseteq Conn /\ connections_ \subseteq Conn
         /\ closed_ \subseteq Connection /\ alive \subseteq Connection
         /\ held \subseteq Connection /\ listenFd \in Fd \cup {NoFd}
         /\ batch \subseteq [fd : Fd, as : {"in", "err"}, of : Event]
         /\ calls \in Seq(Kinds \X Event)
         /\ crossed \in BOOLEAN /\ misdelivered \in BOOLEAN /\ started \in BOOLEAN
         /\ touched \subseteq Connection /\ watched \subseteq Fd
         /\ startedTwice \in BOOLEAN
BY DEF IInv, TypeOK, Kinds

\* A descriptor nobody has is not in the table either, but for what a start of a
\* running server has left.
LEMMA FreeIsUnused ==
  ASSUME IInv, NEW f \in Fd, open[f] = None
  PROVE  /\ events_[f] \in {None, TheAcceptor}
         /\ ~startedTwice => events_[f] = None
         /\ f # listenFd /\ f \notin watched
         /\ \A c \in Connection : fd_[c] # f
<1>1. f # listenFd
  BY NamesDiffer DEF IInv, AcceptorInv
<1>2. events_[f] \in Connection \cup {TheAcceptor, None}
  BY TypeFacts DEF Event
<1>3. events_[f] \in {None, TheAcceptor}
  BY <1>2, NamesDiffer DEF IInv, TableInv
<1>4. ~startedTwice => events_[f] = None
  BY <1>1, <1>3 DEF IInv, AcceptorInv
<1>5. f \notin watched
  BY DEF IInv, WatchedInv
<1>6. \A c \in Connection : fd_[c] # f
  BY NamesDiffer DEF IInv, TableInv
<1> QED BY <1>1, <1>3, <1>4, <1>5, <1>6

LEMMA LowestFreeIsUnused ==
  ASSUME IInv, Free(open) # {}
  PROVE  /\ Lowest(Free(open)) \in Fd
         /\ open[Lowest(Free(open))] = None
BY LowestIsMember DEF Free

\* Whoever gets a free descriptor is added to the loop, unless an entry was left
\* under that number.
LEMMA AddedToFree ==
  ASSUME IInv, NEW fd \in Fd, NEW c \in Connection, open[fd] = None,
         AddEvent(events_, watched, fd, c)
  PROVE  /\ events_' \in [Fd -> Event \cup {None}] /\ watched' \subseteq Fd
         /\ \A f \in Fd \ {fd} : /\ events_'[f] = events_[f]
                                 /\ f \in watched' <=> f \in watched
         /\ \/ events_[fd] = None /\ events_'[fd] = c /\ fd \in watched'
            \/ /\ events_[fd] = TheAcceptor /\ events_'[fd] = TheAcceptor
               /\ fd \notin watched' /\ startedTwice
<1>1. CASE events_[fd] = None
  BY <1>1, TypeFacts, NamesDiffer DEF AddEvent, Event
<1>2. CASE events_[fd] # None
  BY <1>2, TypeFacts, FreeIsUnused DEF AddEvent
<1> QED BY <1>1, <1>2

\* An entry of the table is the acceptor's or that of a connection that is open.
LEMMA EntryFacts ==
  ASSUME IInv, NEW f \in Fd, events_[f] \in Connection
  PROVE  /\ open[f] = events_[f] /\ fd_[events_[f]] = f
         /\ events_[f] \in alive \ closed_
         /\ peer[events_[f]] # "away" /\ events_[f] \notin backlog
<1>1. open[f] = events_[f] /\ fd_[events_[f]] = f /\ events_[f] \in alive \ closed_
  BY DEF IInv, TableInv
<1> QED BY <1>1 DEF IInv, FreshInv

LEMMA InitIInv == Init => IInv
<1> SUFFICES ASSUME Init PROVE IInv
  OBVIOUS
<1> DEFINE fd == Lowest(Fd)
<1>1. fd \in Fd
  BY LowestIsMember, ServerAssumption
<1>2. /\ open = [f \in Fd |-> IF f = fd THEN TheAcceptor ELSE None]
      /\ events_ = [f \in Fd |-> IF f = fd THEN TheAcceptor ELSE None]
      /\ listenFd = fd /\ started = TRUE /\ backlog = {} /\ connections_ = {}
      /\ peer = [c \in Connection |-> "away"] /\ fd_ = [c \in Connection |-> NoFd]
      /\ closed_ = {} /\ alive = {} /\ held = {} /\ batch = {} /\ calls = <<>>
      /\ touched = {} /\ crossed = FALSE /\ misdelivered = FALSE
      /\ watched = {fd} /\ startedTwice = FALSE
  BY DEF Init
<1> HIDE DEF fd
<1>3. Len(calls) = 0 /\ calls \in Seq(Kinds \X Event)
  BY <1>2, EmptySeq
<1>4. TypeOK
  BY <1>1, <1>2, <1>3 DEF TypeOK, Event, Kinds
<1>5. TableInv /\ WatchedInv
  BY <1>1, <1>2, NamesDiffer DEF TableInv, EveryConnectionIsRegistered, WatchedInv
<1>6. AcceptorInv
  BY <1>1, <1>2, NamesDiffer DEF AcceptorInv
<1>7. CallsInv /\ FreshInv /\ ClientInv /\ BatchInv
  BY <1>2, <1>3, NamesDiffer DEF CallsInv, FreshInv, ClientInv, BatchInv
<1> QED BY <1>4, <1>5, <1>6, <1>7 DEF IInv

-----------------------------------------------------------------------------
(***************************************************************************)
(* Peers, clients and other threads.                                       *)
(***************************************************************************)
LEMMA PeerStep ==
  ASSUME ClientsStay, IInv, NEW c \in Connection, Arrive(c) \/ PeerActs(c)
  PROVE  IInv'
<1>1. /\ UNCHANGED <<open, listenFd, started, connections_, fd_, closed_, alive, held, touched,
                     events_, batch, calls, crossed, misdelivered, watched, startedTwice>>
      /\ \/ /\ c \in Conn /\ peer[c] = "away" /\ peer'[c] = "quiet" /\ listenFd # NoFd
            /\ backlog' = backlog \cup {c}
         \/ /\ c \in alive /\ peer'[c] \in {"data", "eof", "broken"} /\ backlog' = backlog
            /\ c \in Client => peer'[c] = "data"
      /\ peer' \in [Connection -> {"away", "quiet", "data", "eof", "broken"}]
      /\ \A d \in Connection \ {c} : peer'[d] = peer[d]
  BY TypeFacts DEF ClientsStay, Arrive, PeerActs, server, objects, loopvars, ghosts
<1>2. TypeOK'
  BY <1>1 DEF IInv, TypeOK
<1>3. TableInv' /\ WatchedInv' /\ CallsInv' /\ BatchInv'
  BY <1>1 DEF IInv, TableInv, WatchedInv, EveryConnectionIsRegistered, CallsInv, BatchInv
<1>4. AcceptorInv'
  BY <1>1, TypeFacts DEF IInv, AcceptorInv
<1>5. FreshInv'
  BY <1>1, TypeFacts, NamesDiffer DEF IInv, FreshInv
<1>6. ClientInv'
  BY <1>1, NamesDiffer DEF IInv, ClientInv
<1> QED BY <1>2, <1>3, <1>4, <1>5, <1>6 DEF IInv

LEMMA ConnectClientStep ==
  ASSUME IInv, NEW c \in Connection, ConnectClient(c)
  PROVE  IInv'
<1> DEFINE fd == Lowest(Free(open))
<1>1. /\ c \in Client /\ peer[c] = "away" /\ calls = <<>> /\ batch = {}
      /\ open' = [open EXCEPT ![fd] = c] /\ fd_' = [fd_ EXCEPT ![c] = fd]
      /\ AddEvent(events_, watched, fd, c) /\ peer' = [peer EXCEPT ![c] = "quiet"]
      /\ alive' = alive \cup {c} /\ held' = held \cup {c}
      /\ UNCHANGED <<backlog, listenFd, started, connections_, closed_, touched, batch, calls,
                     crossed, misdelivered, startedTwice>>
  BY DEF ConnectClient, server, ghosts
<1>2. fd \in Fd /\ open[fd] = None
  BY LowestFreeIsUnused DEF ConnectClient
<1> HIDE DEF fd
<1>3. /\ open'[fd] = c /\ \A f \in Fd \ {fd} : open'[f] = open[f]
      /\ fd_'[c] = fd /\ \A d \in Connection \ {c} : fd_'[d] = fd_[d]
      /\ peer'[c] = "quiet" /\ \A d \in Connection \ {c} : peer'[d] = peer[d]
  BY <1>1, <1>2, TypeFacts
<1>e. /\ events_' \in [Fd -> Event \cup {None}] /\ watched' \subseteq Fd
      /\ \A f \in Fd \ {fd} : events_'[f] = events_[f] /\ (f \in watched' <=> f \in watched)
      /\ \/ events_[fd] = None /\ events_'[fd] = c /\ fd \in watched'
         \/ /\ events_[fd] = TheAcceptor /\ events_'[fd] = TheAcceptor
            /\ fd \notin watched' /\ startedTwice
  BY <1>1, <1>2, AddedToFree
<1>4. /\ c \notin alive \cup closed_ \cup connections_ /\ fd_[c] = NoFd
      /\ c \notin backlog /\ Len(calls) = 0
  BY <1>1, NamesDiffer, TypeFacts, EmptySeq DEF IInv, FreshInv
<1>5. TypeOK'
  <2>1. open' \in [Fd -> Event \cup {None, TheOthers}]
    BY <1>1, <1>2, TypeFacts DEF Event
  <2>2. /\ fd_' \in [Connection -> Fd \cup {NoFd}]
        /\ peer' \in [Connection -> {"away", "quiet", "data", "eof", "broken"}]
    BY <1>1, <1>2, TypeFacts
  <2> QED BY <1>1, <1>e, <2>1, <2>2, TypeFacts DEF TypeOK, Kinds
<1>w. WatchedInv'
  BY <1>3, <1>e, TypeFacts, NamesDiffer DEF IInv, WatchedInv
<1>6. TableInv'
  <2>1. \A f \in Fd : events_'[f] \in Connection => open'[f] = events_'[f]
    BY <1>3, <1>e, NamesDiffer DEF IInv, TableInv
  <2>2. \A f \in Fd : open'[f] \in Connection => open'[f] \in alive' \ closed_' /\ fd_'[open'[f]] = f
    BY <1>1, <1>3, <1>4 DEF IInv, TableInv
  <2>3. \A d \in Connection : fd_'[d] # NoFd => open'[fd_'[d]] = d
    BY <1>2, <1>3, TypeFacts, NamesDiffer DEF IInv, TableInv
  <2>4. ~startedTwice' => EveryConnectionIsRegistered'
    <3> SUFFICES ASSUME ~startedTwice, NEW d \in connections_
                 PROVE  fd_'[d] # NoFd /\ events_'[fd_'[d]] = d /\ fd_'[d] \in watched'
      BY <1>1 DEF EveryConnectionIsRegistered
    <3>1. /\ d \in Connection /\ d # c /\ d # None
          /\ fd_[d] # NoFd /\ events_[fd_[d]] = d /\ fd_[d] \in watched
      BY <1>4, TypeFacts, NamesDiffer DEF IInv, TableInv, EveryConnectionIsRegistered
    <3>2. fd_[d] \in Fd /\ fd_[d] # fd
      BY <1>2, <3>1, TypeFacts, FreeIsUnused
    <3> QED BY <1>3, <1>e, <3>1, <3>2
  <2> QED BY <2>1, <2>2, <2>3, <2>4 DEF TableInv
<1>7. AcceptorInv'
  <2>1. fd # listenFd /\ c # TheAcceptor
    BY <1>2, FreeIsUnused, NamesDiffer
  <2> QED BY <1>1, <1>3, <1>e, <2>1 DEF IInv, AcceptorInv
<1>8. CallsInv' /\ BatchInv'
  BY <1>1, <1>4 DEF IInv, CallsInv, BatchInv
<1>9. FreshInv' /\ ClientInv'
  BY <1>1, <1>3, <1>4 DEF IInv, FreshInv, ClientInv
<1> QED BY <1>5, <1>w, <1>6, <1>7, <1>8, <1>9 DEF IInv

LEMMA OthersStep ==
  ASSUME IInv, OthersOpen \/ OthersClose
  PROVE  IInv'
<1>1. UNCHANGED <<backlog, peer, listenFd, started, connections_, fd_, closed_, alive, held,
                  touched, events_, batch, calls, crossed, misdelivered, watched,
                  startedTwice>>
  BY DEF OthersOpen, OthersClose, server, objects, loopvars, ghosts
<1>2. PICK fd \in Fd : /\ open[fd] \in {None, TheOthers} /\ open'[fd] \in {None, TheOthers}
                       /\ \A f \in Fd \ {fd} : open'[f] = open[f]
                       /\ open' \in [Fd -> Event \cup {None, TheOthers}]
  <2>1. CASE OthersOpen
    <3>1. Lowest(Free(open)) \in Fd /\ open[Lowest(Free(open))] = None
      BY <2>1, LowestFreeIsUnused DEF OthersOpen
    <3> QED BY <2>1, <3>1, TypeFacts DEF OthersOpen
  <2>2. CASE OthersClose
    BY <2>2, TypeFacts DEF OthersClose
  <2> QED BY <2>1, <2>2
<1>3. TypeOK'
  BY <1>1, <1>2, TypeFacts DEF TypeOK, Kinds
<1>4. TableInv' /\ WatchedInv' /\ AcceptorInv'
  <2>1. \A f \in Fd : f # fd \/ events_[f] \notin Connection
    BY <1>2, NamesDiffer DEF IInv, TableInv
  <2>2. fd \notin watched
    BY <1>2, TypeFacts, NamesDiffer DEF IInv, WatchedInv, Event
  <2> QED BY <1>1, <1>2, <2>1, <2>2, NamesDiffer, TypeFacts
         DEF IInv, TableInv, WatchedInv, EveryConnectionIsRegistered, AcceptorInv
<1>5. CallsInv' /\ FreshInv' /\ ClientInv'
  BY <1>1 DEF IInv, CallsInv, FreshInv, ClientInv
<1>6. BatchInv'
  BY <1>1, <1>2, NamesDiffer, TypeFacts DEF IInv, BatchInv
<1> QED BY <1>3, <1>4, <1>5, <1>6 DEF IInv

-----------------------------------------------------------------------------
(***************************************************************************)
(* The loop.                                                               *)
(***************************************************************************)
LEMMA PollStep ==
  ASSUME IInv, Poll
  PROVE  IInv'
<1>1. PICK failed \in BOOLEAN : batch' = Ready(failed)
  BY DEF Poll
<1>2. /\ calls = <<>>
      /\ UNCHANGED <<open, watched, backlog, peer, listenFd, started, connections_, fd_,
                     closed_, alive, held, touched, events_, calls, crossed, misdelivered,
                     startedTwice>>
  BY DEF Poll, server, objects, ghosts, kernel
<1>3. Len(calls) = 0
  BY <1>2, EmptySeq
<1> DEFINE R == Ready(failed)
<1>4. \A e \in R : /\ e \in [fd : Fd, as : {"in", "err"}, of : Event]
                   /\ e.fd \in watched /\ e.as \in ReadyAs(e.of, failed)
                   /\ e.of = events_[e.fd] /\ e.of = open[e.fd]
                   /\ e = [fd |-> e.fd, as |-> e.as, of |-> e.of]
  <2> SUFFICES ASSUME NEW fd \in watched, NEW as \in ReadyAs(events_[fd], failed)
               PROVE  /\ fd \in Fd /\ as \in {"in", "err"} /\ events_[fd] \in Event
                      /\ events_[fd] = open[fd]
    BY DEF Ready
  <2>1. fd \in Fd /\ events_[fd] = open[fd] /\ events_[fd] \in Event
    BY TypeFacts DEF IInv, WatchedInv
  <2>2. as \in {"in", "err"}
    BY DEF ReadyAs
  <2> QED BY <2>1, <2>2
<1>5. \A event \in Event : \A a, b \in ReadyAs(event, failed) : a = b
  BY DEF ReadyAs
<1>6. TypeOK'
  BY <1>1, <1>2, <1>4, TypeFacts DEF TypeOK, Kinds
<1>7. TableInv' /\ WatchedInv' /\ AcceptorInv' /\ CallsInv' /\ FreshInv'
  BY <1>2 DEF IInv, TableInv, WatchedInv, EveryConnectionIsRegistered, AcceptorInv, CallsInv,
              FreshInv
<1>8. ClientInv'
  <2>1. \A c \in Client : ~("err" \in ReadyAs(c, failed))
    BY NamesDiffer DEF IInv, ClientInv, ReadyAs
  <2> QED BY <1>1, <1>2, <1>4, <2>1 DEF IInv, ClientInv
<1>9. BatchInv'
  <2>1. ASSUME NEW e \in R, NEW g \in R, e.of = g.of PROVE e = g
    <3>1. e.fd = g.fd
      <4>1. e.of \in Connection \/ e.of = TheAcceptor
        BY <1>4 DEF Event
      <4>2. CASE e.of \in Connection
        <5>1. fd_[open[e.fd]] = e.fd /\ fd_[open[g.fd]] = g.fd
          BY <1>4, <2>1, <4>2 DEF IInv, TableInv
        <5> QED BY <1>4, <2>1, <5>1
      <4>3. CASE e.of = TheAcceptor
        BY <1>4, <2>1, <4>3 DEF IInv, AcceptorInv
      <4> QED BY <4>1, <4>2, <4>3
    <3>2. e.as = g.as
      BY <1>4, <1>5, <2>1
    <3> QED BY <1>4, <2>1, <3>1, <3>2
  <2> QED BY <1>1, <1>2, <1>3, <1>4, <2>1 DEF IInv, BatchInv
<1> QED BY <1>6, <1>7, <1>8, <1>9 DEF IInv

\* onConnectionClose: the connection leaves the server and the loop, and no other
\* entry of the table changes.
LEMMA CloseBegun ==
  ASSUME IInv, NEW c \in Conn, CloseCallback(c),
         UNCHANGED <<open, fd_, closed_, alive, listenFd, startedTwice>>
  PROVE  /\ TableInv' /\ WatchedInv' /\ AcceptorInv'
         /\ connections_' = connections_ \ {c}
         /\ events_' \in [Fd -> Event \cup {None}] /\ watched' \subseteq Fd
         /\ \A f \in Fd : events_'[f] # c /\ events_'[f] \in {events_[f], None}
         /\ \A f \in Fd : events_[f] \in Connection \ {c} => events_'[f] = events_[f]
<1>1. /\ connections_' = connections_ \ {c} /\ events_' = Removed(events_, fd_[c])
      /\ watched' = watched \ {fd_[c]}
  BY DEF CloseCallback, RemoveEvent
<1>2. c \in Connection /\ c # None
  BY NamesDiffer
<1>3. /\ events_' \in [Fd -> Event \cup {None}]
      /\ \A f \in Fd : /\ f = fd_[c] => events_'[f] = None
                       /\ f # fd_[c] => events_'[f] = events_[f]
  BY <1>1, <1>2, TypeFacts, NamesDiffer DEF Removed
<1>4. \A f \in Fd : events_[f] = c => f = fd_[c]
  BY <1>2 DEF IInv, TableInv
<1>r. \A f \in Fd : events_[f] \in Connection \ {c} => events_'[f] = events_[f]
  BY <1>2, <1>3, TypeFacts, NamesDiffer DEF IInv, TableInv
<1>w. WatchedInv'
  BY <1>1, <1>3, TypeFacts DEF IInv, WatchedInv
<1>5. TableInv'
  <2>1. ~startedTwice' => EveryConnectionIsRegistered'
    <3> SUFFICES ASSUME ~startedTwice, NEW d \in connections_, d # c
                 PROVE  fd_[d] # NoFd /\ events_'[fd_[d]] = d /\ fd_[d] \in watched'
      BY <1>1 DEF EveryConnectionIsRegistered
    <3>1. d \in Connection /\ fd_[d] # NoFd /\ events_[fd_[d]] = d /\ fd_[d] \in watched
      BY TypeFacts, NamesDiffer DEF IInv, TableInv, EveryConnectionIsRegistered
    <3>2. fd_[d] \in Fd /\ fd_[d] # fd_[c]
      BY <1>2, <3>1, TypeFacts DEF IInv, TableInv
    <3> QED BY <1>1, <1>3, <3>1, <3>2
  <2>2. \A f \in Fd : events_'[f] \in Connection => open'[f] = events_'[f]
    BY <1>3, NamesDiffer DEF IInv, TableInv
  <2> QED BY <2>1, <2>2 DEF IInv, TableInv
<1>6. AcceptorInv'
  BY <1>3, NamesDiffer DEF IInv, AcceptorInv
<1> QED BY <1>1, <1>2, <1>3, <1>4, <1>r, <1>w, <1>5, <1>6, TypeFacts

\* What becomes of an event: nothing, or a call to the one it is for.
LEMMA DispatchFacts ==
  ASSUME IInv, NEW e \in batch, Dispatch(e)
  PROVE  \/ UNCHANGED <<connections_, events_, watched, calls, peer, open, listenFd, backlog>>
         \/ /\ events_[e.fd] = TheAcceptor
            /\ calls' = << <<"accept", TheAcceptor>> >>
            /\ UNCHANGED <<connections_, events_, watched, peer, open, listenFd, backlog>>
         \/ /\ events_[e.fd] = TheAcceptor
            /\ Reopen /\ UNCHANGED <<connections_, calls, peer>>
         \/ /\ events_[e.fd] \in Connection
            /\ calls' = << <<"onRead", events_[e.fd]>> >>
            /\ peer' = [peer EXCEPT ![events_[e.fd]] = "quiet"]
            /\ UNCHANGED <<connections_, events_, watched, open, listenFd, backlog>>
         \/ /\ events_[e.fd] \in Conn
            /\ calls' = << <<"onClose", events_[e.fd]>> >>
            /\ CloseCallback(events_[e.fd]) /\ UNCHANGED <<peer, open, listenFd, backlog>>
<1> DEFINE x == events_[e.fd]
<1>1. e.fd \in Fd /\ e.as \in {"in", "err"} /\ calls = <<>>
  BY TypeFacts DEF Dispatch
<1>2. x \in Connection \/ x = TheAcceptor \/ x = None
  BY <1>1, TypeFacts DEF Event
<1>3. CASE x = None
  BY <1>3, NamesDiffer DEF Dispatch, kernel
<1>4. CASE x = TheAcceptor
  BY <1>4, NamesDiffer DEF Dispatch, kernel
<1>5. CASE x \in Connection
  <2>1. x # None /\ x # TheAcceptor
    BY <1>5, NamesDiffer
  <2>2. x \notin closed_ /\ peer[x] # "away"
    BY <1>1, <1>5, EntryFacts
  <2>3. << <<"onClose", x>> >> \o <<>> = << <<"onClose", x>> >>
    OBVIOUS
  <2>4. CASE e.as = "err"
    <3>1. x \in Conn
      BY <1>5, <2>4, NamesDiffer DEF IInv, ClientInv
    <3>2. BeginClose(x, <<>>) /\ UNCHANGED <<peer, open, listenFd, backlog>>
      BY <1>5, <2>1, <2>4 DEF Dispatch
    <3> QED BY <2>2, <2>3, <3>1, <3>2 DEF BeginClose
  <2>5. CASE e.as = "in"
    <3>1. OnRead(x) /\ UNCHANGED <<open, listenFd, backlog>>
      BY <1>5, <2>1, <2>5 DEF Dispatch
    <3>2. CASE peer[x] = "quiet"
      BY <3>1, <3>2 DEF OnRead
    <3>3. CASE peer[x] = "data"
      BY <1>5, <2>2, <3>1, <3>3 DEF OnRead
    <3>4. CASE peer[x] \notin {"quiet", "data"}
      <4>1. x \in Conn
        BY <1>5, <2>2, <3>4, NamesDiffer DEF IInv, ClientInv
      <4>2. BeginClose(x, <<>>) /\ UNCHANGED <<peer, open, listenFd, backlog>>
        BY <2>2, <3>1, <3>4 DEF OnRead
      <4> QED BY <2>2, <2>3, <4>1, <4>2 DEF BeginClose
    <3> QED BY <3>2, <3>3, <3>4
  <2> QED BY <1>1, <2>4, <2>5
<1> QED BY <1>2, <1>3, <1>4, <1>5

-----------------------------------------------------------------------------
(***************************************************************************)
(* The acceptor.                                                           *)
(***************************************************************************)
\* The calls that run when the innermost one has ended.
LEMMA CallEnded ==
  ASSUME IInv, calls # <<>>, calls' = Tail(calls)
  PROVE  /\ calls' \in Seq(Kinds \X Event)
         /\ \A i \in 1..Len(calls') : \E j \in 1..Len(calls) : calls'[i] = calls[j]
         /\ 1 \in 1..Len(calls) /\ Head(calls) = calls[1]
<1>1. calls \in Seq(Kinds \X Event)
  BY TypeFacts
<1>2. /\ Len(calls) \in Nat /\ 1 \in 1..Len(calls) /\ Head(calls) = calls[1]
      /\ calls' \in Seq(Kinds \X Event) /\ Len(calls') = Len(calls) - 1
      /\ \A i \in 1..(Len(calls) - 1) : i + 1 \in 1..Len(calls) /\ calls'[i] = calls[i + 1]
  BY <1>1
<1> QED BY <1>2

LEMMA AcceptingFacts ==
  ASSUME IInv, Accepting
  PROVE  calls # <<>> /\ \E i \in 1..Len(calls) : calls[i][2] = TheAcceptor
<1>1. calls \in Seq(Kinds \X Event) /\ calls # <<>>
  BY TypeFacts DEF Accepting
<1>2. calls[1][1] = "accept" /\ 1 \in 1..Len(calls)
  BY <1>1 DEF Accepting
<1> QED BY <1>1, <1>2 DEF IInv, CallsInv

\* The calls that run when another one begins.
LEMMA CallBegun ==
  ASSUME NEW S, NEW s \in Seq(S), NEW x \in S
  PROVE  /\ <<x>> \o s \in Seq(S) /\ (<<x>> \o s)[1] = x
         /\ \A i \in 1..Len(<<x>> \o s) : i = 1 \/ \E j \in 1..Len(s) : (<<x>> \o s)[i] = s[j]
<1>1. <<x>> \in Seq(S) /\ Len(<<x>>) = 1 /\ <<x>>[1] = x
  OBVIOUS
<1>2. Len(s) \in Nat /\ Len(<<x>> \o s) = 1 + Len(s) /\ <<x>> \o s \in Seq(S)
  BY <1>1, ConcatProperties, LenProperties
<1>3. \A i \in 1..(1 + Len(s)) : (<<x>> \o s)[i] = IF i = 1 THEN x ELSE s[i - 1]
  BY <1>1, <1>2
<1>4. \A i \in 1..(1 + Len(s)) : i = 1 \/ i - 1 \in 1..Len(s)
  BY <1>2
<1>5. 1 \in 1..(1 + Len(s))
  BY <1>2
<1> QED BY <1>2, <1>3, <1>4, <1>5

LEMMA AcceptStep ==
  ASSUME IInv, NEW c \in Conn, Accept(c)
  PROVE  IInv'
<1> DEFINE fd == Lowest(Free(open))
<1>1. /\ c \in backlog /\ backlog' = backlog \ {c}
      /\ open' = [open EXCEPT ![fd] = c] /\ fd_' = [fd_ EXCEPT ![c] = fd]
      /\ connections_' = connections_ \cup {c} /\ AddEvent(events_, watched, fd, c)
      /\ calls' = << <<"accepted", c>> >> \o calls
      /\ alive' = alive \cup {c} /\ held' \subseteq held \cup {c}
      /\ UNCHANGED <<peer, listenFd, started, closed_, touched, batch, crossed,
                     misdelivered, startedTwice>>
      /\ c \in Connection
  BY NamesDiffer DEF Accept, OnAccept, ghosts
<1>2. fd \in Fd /\ open[fd] = None
  BY LowestFreeIsUnused DEF Accept
<1> HIDE DEF fd
<1>3. /\ open'[fd] = c /\ \A f \in Fd \ {fd} : open'[f] = open[f]
      /\ fd_'[c] = fd /\ \A d \in Connection \ {c} : fd_'[d] = fd_[d]
  BY <1>1, <1>2, TypeFacts
<1>e. /\ events_' \in [Fd -> Event \cup {None}] /\ watched' \subseteq Fd
      /\ \A f \in Fd \ {fd} : events_'[f] = events_[f] /\ (f \in watched' <=> f \in watched)
      /\ \/ events_[fd] = None /\ events_'[fd] = c /\ fd \in watched'
         \/ /\ events_[fd] = TheAcceptor /\ events_'[fd] = TheAcceptor
            /\ fd \notin watched' /\ startedTwice
  BY <1>1, <1>2, AddedToFree
<1>s. /\ calls' \in Seq(Kinds \X Event)
      /\ \A i \in 1..Len(calls') :
           calls'[i] = <<"accepted", c>> \/ \E j \in 1..Len(calls) : calls'[i] = calls[j]
  <2>1. <<"accepted", c>> \in Kinds \X Event /\ calls \in Seq(Kinds \X Event)
    BY <1>1, TypeFacts DEF Kinds, Event
  <2>2. calls'[1] = <<"accepted", c>>
    BY <1>1, <2>1, CallBegun
  <2> QED BY <1>1, <2>1, <2>2, CallBegun
<1>4. /\ c \notin alive \cup closed_ \cup connections_ /\ fd_[c] = NoFd
      /\ \A i \in 1..Len(calls) : calls[i][2] # c
  BY <1>1 DEF IInv, FreshInv
<1>5. TypeOK'
  <2>1. /\ open' \in [Fd -> Event \cup {None, TheOthers}]
        /\ fd_' \in [Connection -> Fd \cup {NoFd}]
    BY <1>1, <1>2, TypeFacts DEF Event
  <2> QED BY <1>1, <1>e, <1>s, <2>1, TypeFacts DEF TypeOK, Kinds
<1>w. WatchedInv'
  BY <1>3, <1>e, TypeFacts, NamesDiffer, <1>1 DEF IInv, WatchedInv
<1>6. TableInv'
  <2>1. \A f \in Fd : events_'[f] \in Connection => open'[f] = events_'[f]
    BY <1>3, <1>e, NamesDiffer DEF IInv, TableInv
  <2>2. \A f \in Fd : open'[f] \in Connection => open'[f] \in alive' \ closed_' /\ fd_'[open'[f]] = f
    BY <1>1, <1>3, <1>4 DEF IInv, TableInv
  <2>3. \A d \in Connection : fd_'[d] # NoFd => open'[fd_'[d]] = d
    BY <1>2, <1>3, TypeFacts, NamesDiffer DEF IInv, TableInv
  <2>4. ~startedTwice' => EveryConnectionIsRegistered'
    <3> SUFFICES ASSUME ~startedTwice, NEW d \in connections_'
                 PROVE  fd_'[d] # NoFd /\ events_'[fd_'[d]] = d /\ fd_'[d] \in watched'
      BY <1>1 DEF EveryConnectionIsRegistered
    <3>1. CASE d = c
      BY <1>2, <1>3, <1>e, <3>1, NamesDiffer
    <3>2. CASE d # c
      <4>1. /\ d \in Connection /\ d # None
            /\ fd_[d] # NoFd /\ events_[fd_[d]] = d /\ fd_[d] \in watched
        BY <1>1, <3>2, TypeFacts, NamesDiffer
           DEF IInv, TableInv, EveryConnectionIsRegistered
      <4>2. fd_[d] \in Fd /\ fd_[d] # fd
        BY <1>2, <4>1, TypeFacts, FreeIsUnused
      <4> QED BY <1>3, <1>e, <3>2, <4>1, <4>2
    <3> QED BY <3>1, <3>2
  <2> QED BY <2>1, <2>2, <2>3, <2>4 DEF TableInv
<1>7. AcceptorInv'
  <2>1. fd # listenFd /\ c # TheAcceptor
    BY <1>1, <1>2, FreeIsUnused, NamesDiffer
  <2> QED BY <1>1, <1>3, <1>e, <2>1 DEF IInv, AcceptorInv
<1>8. CallsInv'
  <2> SUFFICES ASSUME NEW i \in 1..Len(calls')
               PROVE  /\ calls'[i][1] = "accept" => calls'[i][2] = TheAcceptor
                      /\ calls'[i][1] # "accept" => calls'[i][2] \in Connection
                      /\ calls'[i][1] = "onClose" =>
                           /\ calls'[i][2] \in Conn \ connections_'
                           /\ \A f \in Fd : events_'[f] # calls'[i][2]
    BY DEF CallsInv
  <2>1. CASE calls'[i] = <<"accepted", c>>
    BY <1>1, <2>1
  <2>2. CASE calls'[i] # <<"accepted", c>>
    <3>1. PICK j \in 1..Len(calls) : calls'[i] = calls[j]
      BY <1>s, <2>2
    <3>2. /\ calls[j][1] = "accept" => calls[j][2] = TheAcceptor
          /\ calls[j][1] # "accept" => calls[j][2] \in Connection
          /\ calls[j][1] = "onClose" =>
               calls[j][2] \in Conn \ connections_ /\ \A f \in Fd : events_[f] # calls[j][2]
          /\ calls[j][2] # c
      BY <1>4 DEF IInv, CallsInv
    <3>3. \A f \in Fd : events_'[f] \in {events_[f], c}
      BY <1>e
    <3> QED BY <1>1, <3>1, <3>2, <3>3
  <2> QED BY <2>1, <2>2
<1>9. FreshInv' /\ ClientInv'
  <2>1. \A d \in backlog' : peer[d] # "away"
    BY <1>1 DEF IInv, FreshInv
  <2>2. FreshInv'
    <3> SUFFICES ASSUME NEW d \in Connection, peer[d] = "away" \/ d \in backlog \ {c}
                 PROVE  /\ d \notin alive' \cup closed_ \cup connections_'
                        /\ fd_'[d] = NoFd
                        /\ \A i \in 1..Len(calls') : calls'[i][2] # d
      BY <1>1, <2>1 DEF FreshInv
    <3>1. d # c
      BY <1>1 DEF IInv, FreshInv
    <3>2. /\ d \notin alive \cup closed_ \cup connections_ /\ fd_[d] = NoFd
          /\ \A i \in 1..Len(calls) : calls[i][2] # d
      BY DEF IInv, FreshInv
    <3> QED BY <1>1, <1>3, <1>s, <3>1, <3>2
  <2>3. ClientInv'
    <3>1. \A f \in Fd : events_'[f] \in {events_[f], c}
      BY <1>e
    <3> QED BY <1>1, <3>1, NamesDiffer, TypeFacts DEF IInv, ClientInv
  <2> QED BY <2>2, <2>3
<1>10. BatchInv'
  <2> SUFFICES ASSUME ~crossed PROVE BatchInv'
    BY <1>1 DEF BatchInv
  <2>1. \A e \in batch : e.of # TheAcceptor /\ e.fd \in Fd
    BY AcceptingFacts, TypeFacts DEF Accept, IInv, BatchInv
  <2>2. \A e \in batch : e.of \in Connection => events_'[e.fd] = e.of /\ e.of # c
    <3> SUFFICES ASSUME NEW e \in batch, e.of \in Connection
                 PROVE  events_'[e.fd] = e.of /\ e.of # c
      OBVIOUS
    <3>1. e.fd \in Fd /\ events_[e.fd] = e.of
      BY <2>1 DEF IInv, BatchInv
    <3>2. open[e.fd] = e.of /\ e.of \in alive
      BY <3>1, EntryFacts
    <3> QED BY <1>2, <1>4, <1>e, <3>1, <3>2, NamesDiffer
  <2>3. \A e \in batch : \A i \in 1..Len(calls') : calls'[i][2] # e.of
    <3> SUFFICES ASSUME NEW e \in batch, NEW i \in 1..Len(calls') PROVE calls'[i][2] # e.of
      OBVIOUS
    <3>1. e.of \in Connection
      BY <2>1, TypeFacts DEF Event
    <3>2. CASE calls'[i] = <<"accepted", c>>
      BY <2>2, <3>1, <3>2
    <3>3. CASE calls'[i] # <<"accepted", c>>
      BY <1>s, <3>3 DEF IInv, BatchInv
    <3> QED BY <3>2, <3>3
  <2> QED BY <1>1, <2>1, <2>2, <2>3 DEF IInv, BatchInv
<1> QED BY <1>5, <1>w, <1>6, <1>7, <1>8, <1>9, <1>10 DEF IInv

\* The acceptor's descriptor and its entry change, and nobody else's.
LEMMA AcceptorMoves ==
  ASSUME IInv, AcceptorInv', WatchedInv', backlog' \subseteq backlog, batch' \subseteq batch,
         UNCHANGED <<peer, connections_, fd_, closed_, alive, held, touched, crossed>>,
         misdelivered' \in BOOLEAN, ~crossed => ~misdelivered',
         startedTwice' \in BOOLEAN, startedTwice => startedTwice',
         open' \in [Fd -> Event \cup {None, TheOthers}],
         events_' \in [Fd -> Event \cup {None}], watched' \subseteq Fd,
         listenFd' \in Fd \cup {NoFd}, started' \in BOOLEAN,
         calls' \in Seq(Kinds \X Event),
         \A f \in Fd : /\ open'[f] # open[f] =>
                            /\ open[f] \in {None, TheAcceptor, TheOthers}
                            /\ open'[f] \in {None, TheAcceptor, TheOthers}
                       /\ events_'[f] # events_[f] =>
                            /\ events_[f] \in {None, TheAcceptor}
                            /\ events_'[f] \in {None, TheAcceptor}
                       /\ open[f] \in Connection /\ f \in watched => f \in watched',
         \A i \in 1..Len(calls') : \E j \in 1..Len(calls) : calls'[i] = calls[j]
  PROVE  IInv'
<1>1. TypeOK'
  BY TypeFacts DEF TypeOK, Kinds
<1>2. TableInv'
  <2>1. \A f \in Fd : events_'[f] \in Connection => open'[f] = events_'[f]
    BY NamesDiffer DEF IInv, TableInv
  <2>2. \A f \in Fd : open'[f] \in Connection => open'[f] = open[f]
    BY NamesDiffer
  <2>3. \A c \in Connection : fd_[c] # NoFd => open'[fd_[c]] = c
    <3> SUFFICES ASSUME NEW c \in Connection, fd_[c] # NoFd PROVE open'[fd_[c]] = c
      OBVIOUS
    <3>1. fd_[c] \in Fd /\ open[fd_[c]] = c
      BY TypeFacts DEF IInv, TableInv
    <3> QED BY <3>1, NamesDiffer
  <2>4. ~startedTwice' => EveryConnectionIsRegistered'
    <3> SUFFICES ASSUME ~startedTwice, NEW c \in connections_
                 PROVE  fd_[c] # NoFd /\ events_'[fd_[c]] = c /\ fd_[c] \in watched'
      BY DEF EveryConnectionIsRegistered
    <3>1. /\ c \in Connection /\ fd_[c] # NoFd /\ events_[fd_[c]] = c /\ fd_[c] \in Fd
          /\ fd_[c] \in watched
      BY TypeFacts, NamesDiffer DEF IInv, TableInv, EveryConnectionIsRegistered
    <3>2. open[fd_[c]] = c
      BY <3>1, EntryFacts
    <3> QED BY <3>1, <3>2, NamesDiffer
  <2> QED BY <2>1, <2>2, <2>3, <2>4 DEF IInv, TableInv
<1>3. CallsInv'
  <2> SUFFICES ASSUME NEW i \in 1..Len(calls')
               PROVE  /\ calls'[i][1] = "accept" => calls'[i][2] = TheAcceptor
                      /\ calls'[i][1] # "accept" => calls'[i][2] \in Connection
                      /\ calls'[i][1] = "onClose" =>
                           /\ calls'[i][2] \in Conn \ connections_
                           /\ \A f \in Fd : events_'[f] # calls'[i][2]
    BY DEF CallsInv
  <2>1. PICK j \in 1..Len(calls) : calls'[i] = calls[j]
    OBVIOUS
  <2>2. \A c \in Conn : (\A f \in Fd : events_[f] # c) => \A f \in Fd : events_'[f] # c
    BY NamesDiffer
  <2>3. /\ calls[j][1] = "accept" => calls[j][2] = TheAcceptor
        /\ calls[j][1] # "accept" => calls[j][2] \in Connection
        /\ calls[j][1] = "onClose" =>
             calls[j][2] \in Conn \ connections_ /\ \A f \in Fd : events_[f] # calls[j][2]
    BY DEF IInv, CallsInv
  <2> QED BY ONLY <2>1, <2>2, <2>3
<1>4. FreshInv'
  BY SMTT(30) DEF IInv, FreshInv
<1>5. ClientInv'
  BY TypeFacts, NamesDiffer DEF IInv, ClientInv
<1>6. BatchInv'
  <2> SUFFICES ASSUME ~crossed PROVE BatchInv'
    BY DEF BatchInv
  <2>1. ASSUME NEW e \in batch
        PROVE  /\ e.of \in Connection => events_'[e.fd] = e.of
               /\ e.of = TheAcceptor => events_'[e.fd] \in {None, TheAcceptor}
               /\ \A i \in 1..Len(calls') : calls'[i][2] # e.of
    <3>1. e.fd \in Fd
      BY TypeFacts
    <3> QED BY <3>1, NamesDiffer DEF IInv, BatchInv
  <2> QED BY <2>1 DEF IInv, BatchInv
<1> QED BY <1>1, <1>2, <1>3, <1>4, <1>5, <1>6 DEF IInv

\* The entry of the acceptor's descriptor is the acceptor's, if there is one.
LEMMA ListenEntry ==
  ASSUME IInv, listenFd # NoFd
  PROVE  /\ listenFd \in Fd /\ open[listenFd] = TheAcceptor
         /\ events_[listenFd] \in {None, TheAcceptor}
<1>1. listenFd \in Fd /\ open[listenFd] = TheAcceptor
  BY TypeFacts DEF IInv, AcceptorInv
<1>2. events_[listenFd] \in Event \cup {None}
  BY <1>1, TypeFacts
<1> QED BY <1>1, <1>2, NamesDiffer DEF IInv, TableInv, Event

\* Acceptor::open, whatever other threads do meanwhile: it gets a descriptor
\* nobody has, or none, and nobody else's entry changes.
LEMMA AcceptorOpened ==
  ASSUME IInv, NEW table \in [Fd -> Event \cup {None}], OpenAcceptor(table),
         \A f \in Fd : table[f] # events_[f] => events_[f] = TheAcceptor /\ table[f] = None
  PROVE  /\ open' \in [Fd -> Event \cup {None, TheOthers}]
         /\ events_' \in [Fd -> Event \cup {None}] /\ watched' \subseteq Fd
         /\ listenFd' \in Fd \cup {NoFd} /\ backlog' = {}
         /\ \A f \in Fd : /\ open'[f] # open[f] =>
                               /\ open[f] \in {None, TheAcceptor, TheOthers}
                               /\ open'[f] \in {None, TheAcceptor, TheOthers}
                          /\ events_'[f] # events_[f] =>
                               /\ events_[f] \in {None, TheAcceptor}
                               /\ events_'[f] \in {None, TheAcceptor}
                          /\ open[f] \in Connection /\ f \in watched => f \in watched'
                          /\ open'[f] = TheAcceptor <=> f = listenFd'
                          /\ events_'[f] = TheAcceptor => f = listenFd' \/ table[f] = TheAcceptor
         /\ WatchedInv'
<1> DEFINE left == Theirs \cup Free(open) \cup (Fd \cap {listenFd})
<1>1. /\ left \subseteq Fd
      /\ \A f \in left : open[f] \in {None, TheAcceptor, TheOthers}
      /\ \A f \in Fd \ left : open[f] # TheAcceptor /\ open[f] # None
  BY NamesDiffer DEF Theirs, Free, IInv, AcceptorInv
<1>2. PICK others \in SUBSET left :
        /\ (left # others /\ listenFd' = Lowest(left \ others)) \/ listenFd' = NoFd
        /\ open' = [fd \in Fd |-> CASE fd = listenFd' -> TheAcceptor
                                    [] fd \in others -> TheOthers
                                    [] fd \in left \ (others \cup {listenFd'}) -> None
                                    [] OTHER -> open[fd]]
        /\ backlog' = {}
        /\ IF listenFd' = NoFd
             THEN events_' = table /\ watched' = watched \ {listenFd}
             ELSE AddEvent(table, watched \ {listenFd}, listenFd', TheAcceptor)
  BY DEF OpenAcceptor
<1> HIDE DEF left
<1>3. listenFd' = NoFd \/ listenFd' \in left \ others
  <2>1. left # others => left \ others # {} /\ left \ others \subseteq Fd
    BY <1>1
  <2> QED BY <1>2, <2>1, LowestIsMember
<1>4. listenFd' \in Fd \cup {NoFd} /\ NoFd \notin Fd
  BY <1>1, <1>3, NamesDiffer
<1>5. \A f \in Fd : /\ f = listenFd' => open'[f] = TheAcceptor
                    /\ f \in others => open'[f] = TheOthers
                    /\ f \in left \ (others \cup {listenFd'}) => open'[f] = None
                    /\ f \notin left => open'[f] = open[f]
  BY <1>2, <1>3, <1>4
<1>6. open' \in [Fd -> Event \cup {None, TheOthers}]
  BY <1>2, <1>5, TypeFacts DEF Event
<1>7. \A f \in Fd : open'[f] # open[f] => /\ open[f] \in {None, TheAcceptor, TheOthers}
                                          /\ open'[f] \in {None, TheAcceptor, TheOthers}
  BY <1>1, <1>3, <1>4, <1>5
<1>8. \A f \in Fd : open'[f] = TheAcceptor <=> f = listenFd'
  BY <1>1, <1>3, <1>4, <1>5, NamesDiffer
<1>9. \/ events_' = table /\ watched' = watched \ {listenFd}
      \/ /\ listenFd' \in Fd /\ table[listenFd'] = None
         /\ events_' = [table EXCEPT ![listenFd'] = TheAcceptor]
         /\ watched' = (watched \ {listenFd}) \cup {listenFd'}
  BY <1>2, <1>4 DEF AddEvent
<1>10. events_' \in [Fd -> Event \cup {None}] /\ watched' \subseteq Fd
  BY <1>9, TypeFacts DEF Event
<1>11. \A f \in Fd :
         /\ events_'[f] # events_[f] => /\ events_[f] \in {None, TheAcceptor}
                                        /\ events_'[f] \in {None, TheAcceptor}
         /\ events_'[f] = TheAcceptor => f = listenFd' \/ table[f] = TheAcceptor
  BY <1>9
<1>12. \A f \in Fd : open[f] \in Connection /\ f \in watched => f \in watched'
  BY <1>9, NamesDiffer DEF IInv, AcceptorInv
<1>13. WatchedInv'
  <2> SUFFICES ASSUME NEW f \in watched' PROVE open'[f] = events_'[f] /\ events_'[f] # None
    BY DEF WatchedInv
  <2>1. CASE f \in watched \ {listenFd}
    <3>1. f \in Fd /\ open[f] = events_[f] /\ events_[f] # None /\ events_[f] \in Connection
      BY <2>1, TypeFacts DEF IInv, WatchedInv, AcceptorInv, Event
    <3> QED BY <1>7, <1>11, <3>1, NamesDiffer
  <2>2. CASE f \notin watched \ {listenFd}
    <3>1. f = listenFd' /\ f \in Fd /\ events_'[f] = TheAcceptor
      BY <1>9, <2>2
    <3> QED BY <1>8, <3>1, NamesDiffer
  <2> QED BY <2>1, <2>2
<1> QED BY <1>2, <1>4, <1>6, <1>7, <1>8, <1>10, <1>11, <1>12, <1>13

\* Acceptor::onClose, in the acceptor's loop or out of the event loop.
LEMMA ReopenMoves ==
  ASSUME IInv, Reopen, batch' \subseteq batch,
         UNCHANGED <<peer, connections_, fd_, closed_, alive, held, touched, crossed,
                     startedTwice>>,
         misdelivered' \in BOOLEAN, ~crossed => ~misdelivered', started' \in BOOLEAN,
         calls' \in Seq(Kinds \X Event),
         \A i \in 1..Len(calls') : \E j \in 1..Len(calls) : calls'[i] = calls[j]
  PROVE  IInv'
<1> DEFINE table == Removed(events_, listenFd)
<1>1. /\ table \in [Fd -> Event \cup {None}]
      /\ \A f \in Fd : /\ f = listenFd => table[f] = None
                       /\ f # listenFd => table[f] = events_[f]
  BY TypeFacts, NamesDiffer DEF Removed
<1>2. \A f \in Fd : table[f] # events_[f] => events_[f] = TheAcceptor /\ table[f] = None
  BY <1>1, ListenEntry, NamesDiffer
<1>3. OpenAcceptor(table)
  BY DEF Reopen
<1> HIDE DEF table
<1>4. /\ open' \in [Fd -> Event \cup {None, TheOthers}]
      /\ events_' \in [Fd -> Event \cup {None}] /\ watched' \subseteq Fd
      /\ listenFd' \in Fd \cup {NoFd} /\ backlog' = {}
      /\ \A f \in Fd : /\ open'[f] # open[f] =>
                            /\ open[f] \in {None, TheAcceptor, TheOthers}
                            /\ open'[f] \in {None, TheAcceptor, TheOthers}
                       /\ events_'[f] # events_[f] =>
                            /\ events_[f] \in {None, TheAcceptor}
                            /\ events_'[f] \in {None, TheAcceptor}
                       /\ open[f] \in Connection /\ f \in watched => f \in watched'
                       /\ open'[f] = TheAcceptor <=> f = listenFd'
                       /\ events_'[f] = TheAcceptor => f = listenFd' \/ table[f] = TheAcceptor
      /\ WatchedInv'
  BY <1>1, <1>2, <1>3, AcceptorOpened
<1>5. AcceptorInv'
  <2>1. ~startedTwice => \A f \in Fd : table[f] # TheAcceptor
    BY <1>1, NamesDiffer DEF IInv, AcceptorInv
  <2> QED BY <1>4, <2>1 DEF AcceptorInv
<1> QED BY <1>4, <1>5, TypeFacts, AcceptorMoves

LEMMA DispatchStep ==
  ASSUME IInv, NEW e \in batch, Dispatch(e)
  PROVE  IInv'
<1> DEFINE x == events_[e.fd]
<1>1. /\ calls = <<>> /\ batch' = batch \ {e} /\ e.fd \in Fd
      /\ misdelivered' = (misdelivered \/ events_[e.fd] \notin {None, e.of})
      /\ UNCHANGED <<started, fd_, closed_, alive, held, touched, crossed, startedTwice>>
  BY TypeFacts DEF Dispatch, objects
<1>2. x \in Event \cup {None}
  BY <1>1, TypeFacts
<1>m. misdelivered' \in BOOLEAN /\ (~crossed => ~misdelivered')
  <2>1. ASSUME ~crossed PROVE ~misdelivered /\ x \in {None, e.of}
    BY <2>1, TypeFacts DEF IInv, BatchInv, Event
  <2> QED BY <1>1, <2>1
<1> HIDE DEF x
<1>a. CASE x = TheAcceptor /\ Reopen /\ UNCHANGED <<connections_, calls, peer>>
  <2>1. UNCHANGED <<calls, connections_, peer>> /\ Reopen /\ Len(calls) = 0
    BY <1>1, <1>a, EmptySeq
  <2>2. \A i \in 1..Len(calls') : \E j \in 1..Len(calls) : calls'[i] = calls[j]
    BY <2>1
  <2>3. calls' \in Seq(Kinds \X Event) /\ batch' \subseteq batch /\ started' \in BOOLEAN
    BY <1>1, <2>1, TypeFacts
  <2> QED BY <1>1, <1>m, <2>1, <2>2, <2>3, ReopenMoves
<1> SUFFICES ASSUME ~(x = TheAcceptor /\ Reopen /\ UNCHANGED <<connections_, calls, peer>>)
             PROVE  IInv'
  BY <1>a
<1>k. UNCHANGED <<open, listenFd, backlog>>
  BY DispatchFacts DEF x
<1>3. /\ TableInv' /\ WatchedInv' /\ AcceptorInv' /\ watched' \subseteq Fd
      /\ connections_' \subseteq connections_ /\ events_' \in [Fd -> Event \cup {None}]
      /\ \A f \in Fd : events_'[f] \in {events_[f], None}
      /\ \A f \in Fd : events_[f] \in Connection \ {x} => events_'[f] = events_[f]
  <2>1. CASE UNCHANGED <<connections_, events_, watched>>
    BY <1>1, <1>k, <2>1, TypeFacts
       DEF IInv, TableInv, WatchedInv, AcceptorInv, EveryConnectionIsRegistered
  <2>2. CASE x \in Conn /\ CloseCallback(x)
    BY <1>1, <1>k, <2>2, CloseBegun
  <2> QED BY <2>1, <2>2, DispatchFacts DEF x
<1>4. /\ peer' \in [Connection -> {"away", "quiet", "data", "eof", "broken"}]
      /\ \A c \in Connection : peer'[c] = peer[c] \/ (peer[c] # "away" /\ peer'[c] = "quiet")
  BY <1>1, TypeFacts, DispatchFacts, EntryFacts DEF x
<1>5. \/ Len(calls') = 0 /\ calls' = <<>>
      \/ Len(calls') = 1 /\ calls'[1] = <<"accept", TheAcceptor>> /\ x = TheAcceptor
         /\ calls' \in Seq(Kinds \X Event)
      \/ Len(calls') = 1 /\ calls'[1] = <<"onRead", x>> /\ x \in Connection
         /\ calls' \in Seq(Kinds \X Event)
      \/ Len(calls') = 1 /\ calls'[1] = <<"onClose", x>> /\ x \in Conn /\ CloseCallback(x)
         /\ calls' \in Seq(Kinds \X Event)
  <2>1. \A k \in Kinds : \A y \in Event :
          /\ << <<k, y>> >> \in Seq(Kinds \X Event)
          /\ Len(<< <<k, y>> >>) = 1 /\ << <<k, y>> >>[1] = <<k, y>>
    BY DEF Kinds
  <2>2. x \in Connection \cup Conn \cup {TheAcceptor} => x \in Event
    BY NamesDiffer DEF Event
  <2>3. "accept" \in Kinds /\ "onRead" \in Kinds /\ "onClose" \in Kinds
    BY DEF Kinds
  <2> QED BY <1>1, <2>1, <2>2, <2>3, DispatchFacts, EmptySeq DEF x
<1>6. TypeOK'
  <2>1. calls' \in Seq(Kinds \X Event)
    BY <1>5, EmptySeq
  <2> QED BY <1>1, <1>k, <1>m, <1>3, <1>4, <2>1, TypeFacts DEF TypeOK, Kinds
<1>7. CallsInv'
  <2>1. CASE Len(calls') = 0
    BY <2>1 DEF CallsInv
  <2>2. CASE calls'[1] = <<"accept", TheAcceptor>> /\ x = TheAcceptor /\ Len(calls') = 1
    BY <2>2 DEF CallsInv
  <2>3. CASE calls'[1] = <<"onRead", x>> /\ x \in Connection /\ Len(calls') = 1
    BY <2>3 DEF CallsInv
  <2>4. CASE calls'[1] = <<"onClose", x>> /\ x \in Conn /\ CloseCallback(x)
              /\ Len(calls') = 1
    <3>1. connections_' = connections_ \ {x} /\ \A f \in Fd : events_'[f] # x
      BY <1>1, <1>k, <2>4, CloseBegun
    <3> QED BY <2>4, <3>1, NamesDiffer DEF CallsInv
  <2> QED BY <1>5, <2>1, <2>2, <2>3, <2>4
<1>8. \A i \in 1..Len(calls') : i = 1 /\ calls'[i][2] = x /\ x \in Event
  BY <1>5, NamesDiffer DEF Event
<1>9. FreshInv'
  <2> SUFFICES ASSUME NEW c \in Connection, peer'[c] = "away" \/ c \in backlog
               PROVE  /\ c \notin alive \cup closed_ \cup connections_'
                      /\ fd_[c] = NoFd
                      /\ \A i \in 1..Len(calls') : calls'[i][2] # c
    <3>1. \A c \in backlog : peer'[c] # "away"
      BY <1>4, TypeFacts, NamesDiffer DEF IInv, FreshInv
    <3> QED BY <1>1, <1>k, <3>1 DEF FreshInv
  <2>1. peer[c] = "away" \/ c \in backlog
    BY <1>4
  <2>2. x # c
    BY <1>1, <2>1, EntryFacts DEF x
  <2> QED BY <1>3, <1>8, <2>1, <2>2 DEF IInv, FreshInv
<1>10. ClientInv'
  BY <1>1, <1>3, <1>4, TypeFacts, NamesDiffer DEF IInv, ClientInv
<1>11. BatchInv'
  <2> SUFFICES ASSUME ~crossed
               PROVE  /\ ~misdelivered'
                      /\ \A g \in batch' :
                           /\ g.of \in Connection => events_'[g.fd] = g.of
                           /\ g.of = TheAcceptor => events_'[g.fd] \in {None, TheAcceptor}
                           /\ \A i \in 1..Len(calls') : calls'[i][2] # g.of
                      /\ \A g, h \in batch' : g.of = h.of => g = h
    BY <1>1 DEF BatchInv
  <2>1. x \in {None, e.of} /\ ~misdelivered'
    BY <1>m, TypeFacts DEF IInv, BatchInv, Event, x
  <2>2. \A g \in batch' : g \in batch /\ g.fd \in Fd /\ g.of \in Event
    BY <1>1, TypeFacts
  <2>3. x # None => \A g \in batch' : g.of # x
    BY <1>1, <2>1 DEF IInv, BatchInv
  <2>4. \A g \in batch' : \A i \in 1..Len(calls') : calls'[i][2] # g.of
    BY <1>8, <2>3, NamesDiffer DEF Event
  <2>5. \A g \in batch' : g.of \in Connection => events_'[g.fd] = g.of
    <3> SUFFICES ASSUME NEW g \in batch', g.of \in Connection PROVE events_'[g.fd] = g.of
      OBVIOUS
    <3>1. events_[g.fd] = g.of /\ g.fd \in Fd
      BY <2>2 DEF IInv, BatchInv
    <3>2. g.of # x
      BY <2>3, NamesDiffer
    <3> QED BY <1>3, <3>1, <3>2
  <2> QED BY <1>1, <1>3, <2>1, <2>2, <2>4, <2>5 DEF IInv, BatchInv
<1> QED BY <1>3, <1>6, <1>7, <1>9, <1>10, <1>11 DEF IInv

LEMMA AcceptDoneStep ==
  ASSUME IInv, AcceptDone
  PROVE  IInv'
<1>1. /\ UNCHANGED <<open, watched, backlog, peer, listenFd, started, connections_, fd_,
                     closed_, alive, held, touched, events_, batch, crossed, misdelivered,
                     startedTwice>>
      /\ calls' = Tail(calls) /\ Accepting
  BY DEF AcceptDone, server, objects, ghosts, kernel
<1>2. /\ calls' \in Seq(Kinds \X Event)
      /\ \A i \in 1..Len(calls') : \E j \in 1..Len(calls) : calls'[i] = calls[j]
  BY <1>1, AcceptingFacts, CallEnded
<1>3. AcceptorInv' /\ WatchedInv' /\ (~crossed => ~misdelivered')
  BY <1>1 DEF IInv, AcceptorInv, WatchedInv, BatchInv
<1> QED BY <1>1, <1>2, <1>3, TypeFacts, AcceptorMoves

LEMMA ReopenAcceptorStep ==
  ASSUME IInv, ReopenAcceptor
  PROVE  IInv'
<1>1. /\ Accepting /\ Reopen /\ calls' = Tail(calls)
      /\ UNCHANGED <<peer, started, connections_, fd_, closed_, alive, held, touched, batch,
                     crossed, misdelivered, startedTwice>>
  BY DEF ReopenAcceptor, objects, ghosts
<1>2. /\ calls' \in Seq(Kinds \X Event)
      /\ \A i \in 1..Len(calls') : \E j \in 1..Len(calls) : calls'[i] = calls[j]
  BY <1>1, AcceptingFacts, CallEnded
<1>3. ~crossed => ~misdelivered'
  BY <1>1 DEF IInv, BatchInv
<1> QED BY <1>1, <1>2, <1>3, TypeFacts, ReopenMoves

LEMMA StopStep ==
  ASSUME IInv, Stop
  PROVE  IInv'
<1>1. /\ started' = FALSE
      /\ events_' = Removed(events_, listenFd) /\ watched' = watched \ {listenFd}
      /\ UNCHANGED <<open, backlog, peer, listenFd, connections_, fd_, closed_, alive, held,
                     touched, batch, calls, crossed, misdelivered, startedTwice>>
  BY DEF Stop, RemoveEvent, objects, ghosts
<1>2. \A f \in Fd : /\ f = listenFd => events_'[f] = None
                    /\ f # listenFd => events_'[f] = events_[f]
  BY <1>1, TypeFacts, NamesDiffer DEF Removed
<1>3. events_' \in [Fd -> Event \cup {None}] /\ watched' \subseteq Fd
  BY <1>1, TypeFacts DEF Removed
<1>4. AcceptorInv'
  BY <1>1, <1>2, NamesDiffer DEF IInv, AcceptorInv
<1>5. WatchedInv' /\ (~crossed => ~misdelivered')
  BY <1>1, <1>2, TypeFacts DEF IInv, WatchedInv, BatchInv
<1>6. \A f \in Fd : /\ events_'[f] # events_[f] => events_[f] \in {None, TheAcceptor}
                                                    /\ events_'[f] = None
                    /\ open[f] \in Connection /\ f \in watched => f \in watched'
  BY <1>1, <1>2, NamesDiffer, ListenEntry
<1>7. \A i \in 1..Len(calls') : \E j \in 1..Len(calls) : calls'[i] = calls[j]
  BY <1>1
<1> QED BY <1>1, <1>3, <1>4, <1>5, <1>6, <1>7, TypeFacts, AcceptorMoves

LEMMA StartStep ==
  ASSUME IInv, Start
  PROVE  IInv'
<1>1. /\ started' = TRUE /\ OpenAcceptor(events_)
      /\ startedTwice' = (startedTwice \/ \E fd \in Fd : events_[fd] = TheAcceptor)
      /\ UNCHANGED <<peer, connections_, fd_, closed_, alive, held, touched, batch, calls,
                     crossed, misdelivered>>
  BY DEF Start, objects
<1>2. /\ open' \in [Fd -> Event \cup {None, TheOthers}]
      /\ events_' \in [Fd -> Event \cup {None}] /\ watched' \subseteq Fd
      /\ listenFd' \in Fd \cup {NoFd} /\ backlog' = {}
      /\ \A f \in Fd : /\ open'[f] # open[f] =>
                            /\ open[f] \in {None, TheAcceptor, TheOthers}
                            /\ open'[f] \in {None, TheAcceptor, TheOthers}
                       /\ events_'[f] # events_[f] =>
                            /\ events_[f] \in {None, TheAcceptor}
                            /\ events_'[f] \in {None, TheAcceptor}
                       /\ open[f] \in Connection /\ f \in watched => f \in watched'
                       /\ open'[f] = TheAcceptor <=> f = listenFd'
                       /\ events_'[f] = TheAcceptor => f = listenFd' \/ events_[f] = TheAcceptor
      /\ WatchedInv'
  BY <1>1, TypeFacts, AcceptorOpened
<1>3. AcceptorInv'
  BY <1>1, <1>2 DEF AcceptorInv
<1>4. startedTwice' \in BOOLEAN /\ (startedTwice => startedTwice')
  BY <1>1, TypeFacts
<1>5. ~crossed => ~misdelivered'
  BY <1>1 DEF IInv, BatchInv
<1>6. \A i \in 1..Len(calls') : \E j \in 1..Len(calls) : calls'[i] = calls[j]
  BY <1>1
<1> QED BY <1>1, <1>2, <1>3, <1>4, <1>5, <1>6, TypeFacts, AcceptorMoves

-----------------------------------------------------------------------------
(***************************************************************************)
(* Closing.                                                                *)
(***************************************************************************)
\* onClose begins, in a callback or between two rounds of the loop.
LEMMA CloseStep ==
  ASSUME ClientsStay, IInv, NEW c \in Connection, CallbackCloses(c) \/ LoopCloses(c)
  PROVE  IInv'
<1> DEFINE onTimeout == <<"onTimeout", c>>
           running == IF CallbackCloses(c) THEN calls ELSE <<onTimeout>>
<1>1. /\ c \in Conn /\ c \in alive \ closed_
      /\ UNCHANGED <<listenFd, started, fd_, closed_, alive, held, touched, batch,
                     misdelivered, open, backlog, peer, startedTwice>>
      /\ CloseCallback(c)
      /\ crossed' \in BOOLEAN /\ (crossed => crossed')
  <2>1. c \in Conn /\ c \in alive \ closed_
    BY NamesDiffer DEF ClientsStay, CallbackCloses, LoopCloses
  <2>2. UNCHANGED <<listenFd, started, fd_, closed_, alive, held, touched, batch,
                    misdelivered, open, backlog, peer, startedTwice>>
    BY DEF CallbackCloses, LoopCloses, objects, ghosts
  <2>3. CloseCallback(c)
    BY <2>1 DEF CallbackCloses, LoopCloses, BeginClose
  <2>4. CASE CallbackCloses(c)
    <3>1. crossed' = (crossed \/ c # Head(calls)[2])
      BY <2>4 DEF CallbackCloses
    <3>2. crossed' \in BOOLEAN /\ (crossed => crossed')
      BY <3>1
    <3> QED BY <2>1, <2>2, <2>3, <3>2
  <2>5. CASE LoopCloses(c)
    <3>1. crossed' = crossed
      BY <2>5 DEF LoopCloses, ghosts
    <3> QED BY <2>1, <2>2, <2>3, <3>1, TypeFacts
  <2> QED BY <2>4, <2>5
<1>2. /\ calls' = << <<"onClose", c>> >> \o running
      /\ CallbackCloses(c) =>
           /\ calls # <<>>
           /\ ~crossed' => c = Head(calls)[2]
      /\ ~CallbackCloses(c) => batch = {}
  <2>1. CASE CallbackCloses(c)
    <3>1. crossed' = (crossed \/ c # Head(calls)[2])
      BY <2>1 DEF CallbackCloses
    <3>2. ~crossed' => c = Head(calls)[2]
      BY <3>1, Zenon
    <3> QED BY <1>1, <2>1, <3>2 DEF CallbackCloses, InCallback, BeginClose
  <2>2. CASE ~CallbackCloses(c)
    BY <1>1, <2>2 DEF LoopCloses, BeginClose
  <2> QED BY <2>1, <2>2
<1>3. /\ TableInv' /\ WatchedInv' /\ AcceptorInv' /\ watched' \subseteq Fd
      /\ connections_' = connections_ \ {c} /\ events_' \in [Fd -> Event \cup {None}]
      /\ \A f \in Fd : events_'[f] # c /\ events_'[f] \in {events_[f], None}
      /\ \A f \in Fd : events_[f] \in Connection \ {c} => events_'[f] = events_[f]
  BY <1>1, CloseBegun
<1>4. c \in Event /\ c # TheAcceptor
  BY NamesDiffer DEF Event
<1>5. /\ running \in Seq(Kinds \X Event)
      /\ \A i \in 1..Len(running) :
           running[i] = onTimeout \/ \E j \in 1..Len(calls) : running[i] = calls[j]
  <2>1. CASE CallbackCloses(c)
    BY <2>1, TypeFacts
  <2>2. CASE ~CallbackCloses(c)
    <3>1. onTimeout \in Kinds \X Event
      BY <1>4 DEF Kinds
    <3> QED BY <2>2, <3>1
  <2> QED BY <2>1, <2>2
<1> HIDE DEF running
<1>6. /\ calls' \in Seq(Kinds \X Event) /\ calls'[1] = <<"onClose", c>>
      /\ \A i \in 1..Len(calls') : i = 1 \/ \E j \in 1..Len(running) : calls'[i] = running[j]
  <2>1. <<"onClose", c>> \in Kinds \X Event
    BY <1>4 DEF Kinds
  <2> QED BY <1>2, <1>5, <2>1, CallBegun
<1>7. \A i \in 1..Len(calls') :
        \/ calls'[i] = <<"onClose", c>> \/ calls'[i] = onTimeout
        \/ \E j \in 1..Len(calls) : calls'[i] = calls[j]
  BY <1>5, <1>6
<1>8. TypeOK'
  <2>1. connections_' \subseteq Conn
    BY <1>3, TypeFacts
  <2> QED BY <1>1, <1>3, <1>6, <2>1, TypeFacts DEF TypeOK, Kinds
<1>9. CallsInv'
  <2> SUFFICES ASSUME NEW i \in 1..Len(calls')
               PROVE  /\ calls'[i][1] = "accept" => calls'[i][2] = TheAcceptor
                      /\ calls'[i][1] # "accept" => calls'[i][2] \in Connection
                      /\ calls'[i][1] = "onClose" =>
                           /\ calls'[i][2] \in Conn \ connections_'
                           /\ \A f \in Fd : events_'[f] # calls'[i][2]
    BY DEF CallsInv
  <2>1. CASE calls'[i] = <<"onClose", c>> \/ calls'[i] = onTimeout
    BY <1>1, <1>3, <2>1
  <2>2. CASE \E j \in 1..Len(calls) : calls'[i] = calls[j]
    <3> PICK j \in 1..Len(calls) : calls'[i] = calls[j]
      BY <2>2
    <3>1. /\ calls[j][1] = "accept" => calls[j][2] = TheAcceptor
          /\ calls[j][1] # "accept" => calls[j][2] \in Connection
          /\ calls[j][1] = "onClose" =>
               calls[j][2] \in Conn \ connections_ /\ \A f \in Fd : events_[f] # calls[j][2]
      BY <2>2 DEF IInv, CallsInv
    <3> QED BY <1>3, <2>2, <3>1, NamesDiffer
  <2> QED BY <1>7, <2>1, <2>2
<1>10. \A i \in 1..Len(calls') :
         calls'[i][2] = c \/ \E j \in 1..Len(calls) : calls'[i][2] = calls[j][2]
  BY <1>7
<1>11. FreshInv'
  BY <1>1, <1>3, <1>10 DEF IInv, FreshInv
<1>12. ClientInv'
  BY <1>1, <1>3, TypeFacts, NamesDiffer DEF IInv, ClientInv
<1>13. BatchInv'
  <2> SUFFICES ASSUME ~crossed' PROVE BatchInv'
    BY DEF BatchInv
  <2>1. \A e \in batch : c # e.of
    <3>1. CASE CallbackCloses(c)
      <4>1. calls # <<>> /\ c = Head(calls)[2]
        BY <1>2, <3>1
      <4>2. 1 \in 1..Len(calls) /\ Head(calls) = calls[1]
        BY <4>1, TypeFacts
      <4> QED BY <1>1, <4>1, <4>2 DEF IInv, BatchInv
    <3>2. CASE ~CallbackCloses(c)
      BY <1>2, <3>2
    <3> QED BY <3>1, <3>2
  <2>2. \A e \in batch : \A i \in 1..Len(calls') : calls'[i][2] # e.of
    BY <1>1, <1>10, <2>1 DEF IInv, BatchInv
  <2>3. \A e \in batch : e.of = TheAcceptor => events_'[e.fd] \in {None, TheAcceptor}
    BY <1>1, <1>3, TypeFacts DEF IInv, BatchInv
  <2>4. \A e \in batch : e.of \in Connection => events_'[e.fd] = e.of
    BY <1>1, <1>3, <2>1, TypeFacts DEF IInv, BatchInv
  <2> QED BY <1>1, <2>2, <2>3, <2>4 DEF IInv, BatchInv
<1> QED BY <1>3, <1>8, <1>9, <1>11, <1>12, <1>13 DEF IInv

\* Event::close of a connection that is out of the server and the loop.
LEMMA DescriptorClosed ==
  ASSUME IInv, NEW c \in Connection, Close(c), c \notin connections_,
         \A f \in Fd : events_[f] # c,
         UNCHANGED <<connections_, events_, listenFd, startedTwice>>,
         alive \ {c} \subseteq alive', closed_' \subseteq closed_ \cup {c}
  PROVE  /\ TableInv' /\ WatchedInv' /\ AcceptorInv' /\ watched' \subseteq Fd
         /\ open' \in [Fd -> Event \cup {None, TheOthers}]
         /\ fd_' \in [Connection -> Fd \cup {NoFd}]
         /\ \A d \in Connection : fd_[d] = NoFd => fd_'[d] = NoFd
<1>1. /\ open' \in [Fd -> Event \cup {None, TheOthers}] /\ fd_' \in [Connection -> Fd \cup {NoFd}]
      /\ fd_'[c] = NoFd /\ \A d \in Connection \ {c} : fd_'[d] = fd_[d]
      /\ \A f \in Fd : /\ f = fd_[c] => open'[f] = None
                       /\ f # fd_[c] => open'[f] = open[f]
      /\ watched' = watched \ {fd_[c]} /\ watched' \subseteq Fd
  BY TypeFacts, NamesDiffer DEF Close
<1>2. \A f \in Fd : f = fd_[c] <=> open[f] = c
  BY NamesDiffer DEF IInv, TableInv
<1>3. \A f \in Fd : /\ open[f] = c => open'[f] = None
                    /\ open[f] # c => open'[f] = open[f]
  BY <1>1, <1>2
<1>4. TableInv'
  <2>1. \A f \in Fd : events_[f] \in Connection => open'[f] = events_[f]
    BY <1>3 DEF IInv, TableInv
  <2>2. ASSUME NEW f \in Fd, open'[f] \in Connection
        PROVE  open'[f] \in alive' \ closed_' /\ fd_'[open'[f]] = f
    <3>1. open'[f] = open[f] /\ open[f] # c
      BY <1>3, <2>2, NamesDiffer
    <3> QED BY <1>1, <2>2, <3>1 DEF IInv, TableInv
  <2>3. ASSUME NEW d \in Connection, fd_'[d] # NoFd PROVE open'[fd_'[d]] = d
    <3>1. d # c /\ fd_'[d] = fd_[d] /\ fd_[d] \in Fd /\ open[fd_[d]] = d
      BY <1>1, <2>3, TypeFacts DEF IInv, TableInv
    <3> QED BY <1>3, <3>1
  <2>4. ~startedTwice' => EveryConnectionIsRegistered'
    <3> SUFFICES ASSUME ~startedTwice, NEW d \in connections_
                 PROVE  fd_'[d] # NoFd /\ events_[fd_'[d]] = d /\ fd_'[d] \in watched'
      BY DEF EveryConnectionIsRegistered
    <3>1. /\ d \in Connection \ {c} /\ fd_'[d] = fd_[d] /\ fd_[d] \in Fd
          /\ fd_[d] # NoFd /\ events_[fd_[d]] = d /\ fd_[d] \in watched
      BY <1>1, TypeFacts, NamesDiffer DEF IInv, TableInv, EveryConnectionIsRegistered
    <3>2. fd_[d] # fd_[c]
      BY <1>2, <3>1 DEF IInv, TableInv
    <3> QED BY <1>1, <3>1, <3>2
  <2> QED BY <2>1, <2>2, <2>3, <2>4 DEF TableInv
<1>5. AcceptorInv' /\ WatchedInv'
  BY <1>1, <1>3, TypeFacts, NamesDiffer DEF IInv, AcceptorInv, WatchedInv
<1> QED BY <1>1, <1>4, <1>5

LEMMA ReturnStep ==
  ASSUME IInv, Return
  PROVE  IInv'
<1> DEFINE kind == Head(calls)[1]
           c == Head(calls)[2]
           gone == ~Referenced(c, Tail(calls))
<1>1. /\ calls # <<>> /\ kind # "accept" /\ calls' = Tail(calls)
      /\ UNCHANGED <<backlog, peer, listenFd, started, connections_, held, events_, batch,
                     crossed, misdelivered, startedTwice>>
      /\ alive' = IF gone THEN alive \ {c} ELSE alive
      /\ touched' \subseteq touched \cup {c}
      /\ IF kind = "onClose" THEN FinishClose(c)
         ELSE IF gone THEN Close(c) /\ UNCHANGED closed_
         ELSE UNCHANGED <<open, watched, fd_, closed_>>
  BY DEF Return, server, ghosts
<1>2. /\ calls' \in Seq(Kinds \X Event)
      /\ \A i \in 1..Len(calls') : \E j \in 1..Len(calls) : calls'[i] = calls[j]
      /\ 1 \in 1..Len(calls) /\ Head(calls) = calls[1]
  BY <1>1, CallEnded
<1>3. /\ c \in Connection
      /\ kind = "onClose" => c \notin connections_ /\ \A f \in Fd : events_[f] # c
  BY <1>1, <1>2 DEF IInv, CallsInv
<1>4. gone => c \notin connections_ /\ \A f \in Fd : events_[f] # c
  BY DEF Referenced
<1>6. \A i \in 1..Len(calls) : calls[i][2] = c => c \notin backlog /\ peer[c] # "away"
  BY <1>3 DEF IInv, FreshInv
<1>c. c = calls[1][2]
  BY <1>2
<1> HIDE DEF gone, kind, c
<1>7. /\ TableInv' /\ WatchedInv' /\ AcceptorInv' /\ watched' \subseteq Fd
      /\ open' \in [Fd -> Event \cup {None, TheOthers}]
      /\ fd_' \in [Connection -> Fd \cup {NoFd}]
      /\ \A d \in Connection : fd_[d] = NoFd => fd_'[d] = NoFd
      /\ closed_' \subseteq closed_ \cup {c} /\ alive' \subseteq alive
  <2>1. CASE kind = "onClose"
    <3>1. Close(c) /\ closed_' = closed_ \cup {c}
      BY <1>1, <2>1 DEF FinishClose
    <3>2. alive \ {c} \subseteq alive' /\ alive' \subseteq alive
      BY <1>1
    <3> QED BY <1>1, <1>3, <2>1, <3>1, <3>2, DescriptorClosed
  <2>2. CASE kind # "onClose" /\ gone
    <3>1. Close(c) /\ closed_' = closed_ /\ alive' = alive \ {c}
      BY <1>1, <2>2
    <3> QED BY <1>1, <1>3, <1>4, <2>2, <3>1, DescriptorClosed
  <2>3. CASE kind # "onClose" /\ ~gone
    <3>1. UNCHANGED <<open, watched, fd_, closed_, alive>>
      BY <1>1, <2>3
    <3> QED BY <1>1, <3>1, TypeFacts
            DEF IInv, TableInv, WatchedInv, AcceptorInv, EveryConnectionIsRegistered
  <2> QED BY <2>1, <2>2, <2>3
<1>8. TypeOK'
  BY <1>1, <1>2, <1>3, <1>7, TypeFacts DEF TypeOK, Kinds
<1>9. CallsInv'
  <2> SUFFICES ASSUME NEW i \in 1..Len(calls')
               PROVE  /\ calls'[i][1] = "accept" => calls'[i][2] = TheAcceptor
                      /\ calls'[i][1] # "accept" => calls'[i][2] \in Connection
                      /\ calls'[i][1] = "onClose" =>
                           /\ calls'[i][2] \in Conn \ connections_
                           /\ \A f \in Fd : events_[f] # calls'[i][2]
    BY <1>1 DEF CallsInv
  <2>1. PICK j \in 1..Len(calls) : calls'[i] = calls[j]
    BY <1>2
  <2>2. /\ calls[j][1] = "accept" => calls[j][2] = TheAcceptor
        /\ calls[j][1] # "accept" => calls[j][2] \in Connection
        /\ calls[j][1] = "onClose" =>
             calls[j][2] \in Conn \ connections_ /\ \A f \in Fd : events_[f] # calls[j][2]
    BY DEF IInv, CallsInv
  <2> QED BY ONLY <2>1, <2>2
<1>10. FreshInv'
  <2>1. c \notin backlog /\ peer[c] # "away"
    BY <1>2, <1>6, <1>c
  <2> QED BY <1>1, <1>2, <1>7, <2>1 DEF IInv, FreshInv
<1>11. ClientInv'
  BY <1>1 DEF IInv, ClientInv
<1>12. BatchInv'
  BY <1>1, <1>2 DEF IInv, BatchInv
<1> QED BY <1>7, <1>8, <1>9, <1>10, <1>11, <1>12 DEF IInv

LEMMA LetGoStep ==
  ASSUME IInv, NEW c \in Connection, LetGo(c)
  PROVE  IInv'
<1>1. /\ c \in closed_ /\ held' = held \ {c} /\ alive' \in {alive, alive \ {c}}
      /\ UNCHANGED <<listenFd, started, connections_, fd_, closed_, touched, events_, batch,
                     calls, crossed, misdelivered, open, watched, backlog, peer, startedTwice>>
  BY DEF LetGo, server, loopvars, ghosts, kernel
<1>2. TypeOK'
  BY <1>1, TypeFacts DEF TypeOK, Kinds
<1>3. /\ TableInv' /\ WatchedInv' /\ AcceptorInv'
      /\ CallsInv' /\ FreshInv' /\ ClientInv' /\ BatchInv'
  BY <1>1 DEF IInv, TableInv, WatchedInv, EveryConnectionIsRegistered, AcceptorInv, CallsInv, FreshInv,
              ClientInv, BatchInv
<1> QED BY <1>2, <1>3 DEF IInv

-----------------------------------------------------------------------------
LEMMA NextIInv ==
  ASSUME ClientsStay
  PROVE  IInv /\ [Next]_vars => IInv'
<1> SUFFICES ASSUME IInv, [Next]_vars PROVE IInv'
  OBVIOUS
<1>1. CASE LoopStep
  BY <1>1, PollStep, DispatchStep, AcceptStep, AcceptDoneStep, ReopenAcceptorStep, ReturnStep
     DEF LoopStep
<1>2. CASE Stop \/ Start \/ OthersOpen \/ OthersClose
  BY <1>2, StopStep, StartStep, OthersStep
<1>3. ASSUME NEW c \in Connection,
             \/ Arrive(c) \/ PeerActs(c) \/ ConnectClient(c)
             \/ CallbackCloses(c) \/ LoopCloses(c) \/ LetGo(c)
      PROVE  IInv'
  BY <1>3, PeerStep, ConnectClientStep, CloseStep, LetGoStep
<1>4. CASE UNCHANGED vars
  <2>1. UNCHANGED <<listenFd, started, connections_, fd_, closed_, alive, held, touched,
                    events_, batch, calls, crossed, misdelivered, open, watched, backlog,
                    peer, startedTwice>>
    BY <1>4 DEF vars, server, objects, loopvars, ghosts, kernel
  <2> QED BY <2>1 DEF IInv, TypeOK, TableInv, WatchedInv, EveryConnectionIsRegistered, AcceptorInv,
                      CallsInv, FreshInv, ClientInv, BatchInv
<1> QED BY <1>1, <1>2, <1>3, <1>4 DEF Next

LEMMA InductiveInvariant ==
  ASSUME ClientsStay
  PROVE  Spec => []IInv
<1>1. Init => IInv
  BY InitIInv
<1>2. IInv /\ [Next]_vars => IInv'
  BY NextIInv
<1> QED BY <1>1, <1>2, PTL DEF Spec

\* If no TcpClient closes, the state of the server, the loop's table and the
\* kernel has its type; no function is read outside its domain.
THEOREM ServerTypeCorrect ==
  ASSUME ClientsStay
  PROVE  Spec => []TypeOK
<1>1. IInv => TypeOK
  BY DEF IInv
<1>2. Spec => []IInv
  BY InductiveInvariant
<1> QED BY <1>1, <1>2, PTL

\* If no TcpClient closes, the server, the table events_ and the kernel agree on
\* whose every descriptor is: closing in any callback, new_connection_cb_ too and
\* in any order, removes the entry before the descriptor is given back; none is
\* leaked, whatever the acceptor goes through; and the next connection that gets
\* the number is entered and watched, unless the server was started while the loop
\* had its acceptor.
THEOREM ServerAndKernelAgree ==
  ASSUME ClientsStay
  PROVE  Spec => []DescriptorsAgree
<1>1. IInv => DescriptorsAgree
  BY DEF IInv, TableInv, DescriptorsAgree, TableAgrees, NoDescriptorLeaks
<1>2. Spec => []IInv
  BY InductiveInvariant
<1> QED BY <1>1, <1>2, PTL

\* If no TcpClient closes and callbacks close their own connection only, an event
\* that epoll_wait reported for a connection is never handled by another that
\* got its descriptor meanwhile, also when a callback stops the server and starts
\* it again in the middle of a batch or of the acceptor's loop.
THEOREM EventsReachTheirOwner ==
  ASSUME ClientsStay
  PROVE  Spec => []DeliveredToOwner
<1>1. IInv => DeliveredToOwner
  BY DEF IInv, BatchInv, DeliveredToOwner
<1>2. Spec => []IInv
  BY InductiveInvariant
<1> QED BY <1>1, <1>2, PTL

=============================================================================
