----------------------------- MODULE TcpServer -----------------------------
(***************************************************************************)
(* The connections of one loop, from the accepted descriptor to the        *)
(* destructor: TcpServer and Acceptor (network/TcpServer.cpp,              *)
(* net/Acceptor.cpp), the table events_ of EventLoop by which it finds the *)
(* event of a ready descriptor, TcpConnection::onClose, and the kernel's   *)
(* reuse of descriptors.  TcpClients, which the application opens, share   *)
(* the table.                                                              *)
(*                                                                         *)
(* A connection is named by the peer's attempt to connect.  It lives while *)
(* connections_, events_, the application or a running call holds a        *)
(* shared_ptr to it.                                                       *)
(***************************************************************************)
EXTENDS Naturals, Sequences, FiniteSets

CONSTANTS
  Conn,            \* connections accepted by the server
  Client,          \* connections made by TcpClients
  Fd,              \* the descriptors the process may have open
  KeepsReference,  \* the application keeps a shared_ptr until it sees the close
  ClientsClose,    \* a TcpClient's connection may close
  MaxOthers,       \* how many descriptors other threads may have
  Restarts         \* the application stops the server and starts it again

None == "none"
TheAcceptor == "acceptor"
TheOthers == "others"
NoFd == 0

ASSUME ServerAssumption ==
  /\ Fd \subseteq Nat \ {NoFd}
  /\ IsFiniteSet(Fd)
  /\ Fd # {}
  /\ Conn \cap Client = {}
  /\ {None, TheAcceptor, TheOthers} \cap (Conn \cup Client) = {}
  /\ {KeepsReference, ClientsClose, Restarts} \subseteq BOOLEAN
  /\ MaxOthers \in Nat

Connection == Conn \cup Client

VARIABLES
  open,          \* the kernel: whose each descriptor is
  watched,       \* the kernel: the descriptors epoll watches
  backlog,       \* peers waiting to be accepted
  peer,          \* what has happened at the other end of a connection
  listenFd,      \* the acceptor's fd_
  started,       \* the application has started the server and not stopped it
  events_,       \* the loop's table, from descriptors to events
  connections_,
  fd_,           \* fd_ of each connection
  closed_,       \* connections whose closed_ is set
  alive,         \* connections constructed and not destroyed
  held,          \* those the application holds
  batch,         \* what epoll_wait returned and the loop has not handled
  calls,         \* the calls that are running, innermost first
  touched,       \* ghost: connections used after their destruction
  crossed,       \* ghost: a callback closed another connection than its own
  misdelivered,  \* ghost: an event went to a connection it was not meant for
  startedTwice   \* ghost: start was called while the loop had the acceptor

server == <<listenFd, started, connections_>>
objects == <<fd_, closed_, alive, held, touched>>
ghosts == <<crossed, misdelivered, startedTwice>>
loopvars == <<events_, batch, calls, ghosts>>
kernel == <<open, watched, backlog, peer>>
vars == <<server, objects, loopvars, kernel>>

Free(table) == {fd \in Fd : table[fd] = None}
Lowest(s) == CHOOSE fd \in s : \A other \in s : fd <= other

\* start has opened the acceptor.
Init ==
  LET fd == Lowest(Fd)
  IN /\ open = [f \in Fd |-> IF f = fd THEN TheAcceptor ELSE None]
     /\ events_ = [f \in Fd |-> IF f = fd THEN TheAcceptor ELSE None]
     /\ watched = {fd}
     /\ listenFd = fd
     /\ started = TRUE
     /\ backlog = {}
     /\ peer = [c \in Connection |-> "away"]
     /\ connections_ = {}
     /\ fd_ = [c \in Connection |-> NoFd]
     /\ closed_ = {}
     /\ alive = {}
     /\ held = {}
     /\ batch = {}
     /\ calls = <<>>
     /\ touched = {}
     /\ crossed = FALSE
     /\ misdelivered = FALSE
     /\ startedTwice = FALSE

-----------------------------------------------------------------------------
\* addEvent does nothing when the table has an event for the descriptor; epoll
\* then does not watch it.  table and seen are what events_ and watched were.
AddEvent(table, seen, fd, event) ==
  IF table[fd] = None
    THEN events_' = [table EXCEPT ![fd] = event] /\ watched' = seen \cup {fd}
    ELSE events_' = table /\ watched' = seen

\* removeEvent goes by the descriptor.
Removed(table, fd) ==
  IF fd = NoFd THEN table ELSE [table EXCEPT ![fd] = None]

RemoveEvent(fd) ==
  events_' = Removed(events_, fd) /\ watched' = watched \ {fd}

Closing(c) == \E i \in 1..Len(calls) : calls[i] = <<"onClose", c>>

\* onConnectionClose, with which the server's connections are taken out of
\* the server and the loop; a TcpClient leaves both alone.
CloseCallback(c) ==
  IF c \in Conn
    THEN connections_' = connections_ \ {c} /\ RemoveEvent(fd_[c])
    ELSE UNCHANGED <<connections_, events_, watched>>

\* onClose up to the end of close_cb_, in which the application runs.
BeginClose(c, running) ==
  IF c \in closed_
    THEN calls' = running /\ UNCHANGED <<connections_, events_, watched>>
    ELSE CloseCallback(c) /\ calls' = << <<"onClose", c>> >> \o running

-----------------------------------------------------------------------------
\* Peers come, send, close and break.
Arrive(c) ==
  /\ c \in Conn
  /\ peer[c] = "away"
  /\ listenFd # NoFd
  /\ peer' = [peer EXCEPT ![c] = "quiet"]
  /\ backlog' = backlog \cup {c}
  /\ UNCHANGED <<open, watched, server, objects, loopvars>>

PeerActs(c) ==
  /\ c \in alive \ closed_
  /\ \E what \in {"data", "eof", "broken"} :
       /\ peer[c] = "quiet" \/ (peer[c] = "data" /\ what = "broken")
       /\ c \in Client /\ ~ClientsClose => what = "data"
       /\ peer' = [peer EXCEPT ![c] = what]
  /\ UNCHANGED <<open, watched, backlog, server, objects, loopvars>>

\* The application connects a TcpClient in a task.
ConnectClient(c) ==
  /\ c \in Client
  /\ peer[c] = "away"
  /\ calls = <<>> /\ batch = {}
  /\ Free(open) # {}
  /\ LET fd == Lowest(Free(open))
     IN /\ open' = [open EXCEPT ![fd] = c]
        /\ fd_' = [fd_ EXCEPT ![c] = fd]
        /\ AddEvent(events_, watched, fd, c)
  /\ peer' = [peer EXCEPT ![c] = "quiet"]
  /\ alive' = alive \cup {c}
  /\ held' = held \cup {c}
  /\ UNCHANGED <<backlog, server, closed_, touched, batch, calls, ghosts>>

\* Another thread opens or closes a descriptor.
Theirs == {fd \in Fd : open[fd] = TheOthers}

OthersOpen ==
  /\ Cardinality(Theirs) < MaxOthers
  /\ Free(open) # {}
  /\ open' = [open EXCEPT ![Lowest(Free(open))] = TheOthers]
  /\ UNCHANGED <<watched, backlog, peer, server, objects, loopvars>>

OthersClose ==
  /\ \E fd \in Fd : open[fd] = TheOthers /\ open' = [open EXCEPT ![fd] = None]
  /\ UNCHANGED <<watched, backlog, peer, server, objects, loopvars>>

-----------------------------------------------------------------------------
\* epoll_wait returns every descriptor that is watched and ready.  The listening
\* socket may have an error at any time.
ReadyAs(event, failed) ==
  IF event = TheAcceptor
    THEN IF failed THEN {"err"} ELSE IF backlog # {} THEN {"in"} ELSE {}
    ELSE CASE peer[event] \in {"data", "eof"} -> {"in"}
           [] peer[event] = "broken" -> {"err"}
           [] OTHER -> {}

Ready(failed) ==
  UNION {[fd : {fd}, as : ReadyAs(events_[fd], failed), of : {events_[fd]}] :
           fd \in watched}

Poll ==
  /\ calls = <<>>
  /\ batch = {}
  /\ \E failed \in BOOLEAN : Ready(failed) # {} /\ batch' = Ready(failed)
  /\ UNCHANGED <<server, objects, events_, calls, ghosts, kernel>>

\* onRead: data goes to the message callback; the end of the stream, or an
\* error, closes the connection.
OnRead(c) ==
  IF c \in closed_ \/ peer[c] = "quiet"
    THEN UNCHANGED <<connections_, events_, watched, calls, peer>>
    ELSE IF peer[c] = "data"
      THEN /\ peer' = [peer EXCEPT ![c] = "quiet"]
           /\ calls' = << <<"onRead", c>> >>
           /\ UNCHANGED <<connections_, events_, watched>>
      ELSE BeginClose(c, <<>>) /\ UNCHANGED peer

\* Acceptor::open closes the old socket, which turns away who waited, and opens
\* a new one, unless socket fails; other threads may open and close descriptors
\* in between.  table is what the loop has then.
OpenAcceptor(table) ==
  LET left == Theirs \cup Free(open) \cup (Fd \cap {listenFd})
  IN \E others \in SUBSET left :
       /\ Cardinality(others) <= MaxOthers
       /\ \/ left # others /\ listenFd' = Lowest(left \ others)
          \/ listenFd' = NoFd
       /\ open' = [fd \in Fd |-> CASE fd = listenFd' -> TheAcceptor
                                   [] fd \in others -> TheOthers
                                   [] fd \in left \ (others \cup {listenFd'}) -> None
                                   [] OTHER -> open[fd]]
       /\ backlog' = {}
       /\ IF listenFd' = NoFd
            THEN events_' = table /\ watched' = watched \ {listenFd}
            ELSE AddEvent(table, watched \ {listenFd}, listenFd', TheAcceptor)

\* Acceptor::onClose: stop, then open.
Reopen == OpenAcceptor(Removed(events_, listenFd))

\* The loop looks a ready descriptor up in events_ and calls its event.
Dispatch(e) ==
  /\ calls = <<>>
  /\ e \in batch
  /\ batch' = batch \ {e}
  /\ misdelivered' = (misdelivered \/ events_[e.fd] \notin {None, e.of})
  /\ \/ /\ events_[e.fd] = None
        /\ UNCHANGED <<connections_, calls, events_, listenFd, kernel>>
     \/ /\ events_[e.fd] = TheAcceptor /\ e.as = "in"
        /\ calls' = << <<"accept", TheAcceptor>> >>
        /\ UNCHANGED <<connections_, events_, listenFd, kernel>>
     \/ /\ events_[e.fd] = TheAcceptor /\ e.as = "err"
        /\ Reopen
        /\ UNCHANGED <<connections_, calls, peer>>
     \/ /\ events_[e.fd] \in Connection /\ e.as = "in"
        /\ OnRead(events_[e.fd])
        /\ UNCHANGED <<listenFd, open, backlog>>
     \/ /\ events_[e.fd] \in Connection /\ e.as = "err"
        /\ BeginClose(events_[e.fd], <<>>)
        /\ UNCHANGED <<listenFd, open, backlog, peer>>
  /\ UNCHANGED <<started, objects, crossed, startedTwice>>

-----------------------------------------------------------------------------
Accepting == calls # <<>> /\ Head(calls)[1] = "accept"

\* onAccept up to new_connection_cb_: the connection is kept and added to the
\* loop, and the application is told of it.
OnAccept(c, fd) ==
  /\ connections_' = connections_ \cup {c}
  /\ AddEvent(events_, watched, fd, c)
  /\ calls' = << <<"accepted", c>> >> \o calls

\* One round of the acceptor's loop, whether it was stopped meanwhile or not.
Accept(c) ==
  /\ Accepting
  /\ c \in backlog
  /\ Free(open) # {}
  /\ backlog' = backlog \ {c}
  /\ LET fd == Lowest(Free(open))
     IN /\ open' = [open EXCEPT ![fd] = c]
        /\ fd_' = [fd_ EXCEPT ![c] = fd]
        /\ OnAccept(c, fd)
  /\ alive' = alive \cup {c}
  /\ held' = IF KeepsReference THEN held \cup {c} ELSE held
  /\ UNCHANGED <<peer, listenFd, started, closed_, touched, batch, ghosts>>

\* accept returned EAGAIN.
AcceptDone ==
  /\ Accepting
  /\ backlog = {}
  /\ listenFd # NoFd
  /\ calls' = Tail(calls)
  /\ UNCHANGED <<server, objects, events_, batch, ghosts, kernel>>

\* Mutant: the acceptor is stopped and not opened again.
ReopenAcceptorNot ==
  /\ Accepting
  /\ calls' = Tail(calls)
  /\ RemoveEvent(listenFd)
  /\ UNCHANGED <<open, server, backlog, peer, objects, batch, ghosts>>

\* accept failed for another reason, which it may do at any time, and does when
\* no descriptor is left or the acceptor has no socket: onClose opens it anew.
ReopenAcceptor ==
  /\ Accepting
  /\ calls' = Tail(calls)
  /\ Reopen
  /\ UNCHANGED <<peer, started, connections_, objects, batch, ghosts>>

\* message_cb_, destroy_connection_cb_ or new_connection_cb_ runs.
InCallback ==
  calls # <<>> /\ Head(calls)[1] \in {"onRead", "onClose", "accepted"}

\* The application stops the server and starts it in the loop's thread: in a
\* task, or in a callback.
MayRestart ==
  /\ Restarts
  /\ (calls = <<>> /\ batch = {}) \/ InCallback

\* Acceptor::stop leaves the socket open and listening, and Acceptor::onRead, if
\* it is running, goes on.
Stop ==
  /\ MayRestart
  /\ started' = FALSE
  /\ RemoveEvent(listenFd)
  /\ UNCHANGED <<open, backlog, peer, listenFd, connections_, objects, batch, calls, ghosts>>

Start ==
  /\ MayRestart
  /\ started' = TRUE
  /\ startedTwice' = (startedTwice \/ \E fd \in Fd : events_[fd] = TheAcceptor)
  /\ OpenAcceptor(events_)
  /\ UNCHANGED <<peer, connections_, objects, batch, calls, crossed, misdelivered>>

-----------------------------------------------------------------------------
\* A callback closes its own connection, or another the application holds,
\* except from within that connection's close.
CallbackCloses(c) ==
  /\ InCallback
  /\ c \in alive \ closed_
  /\ c \in Client => ClientsClose
  /\ c \in held \cup {Head(calls)[2]}
  /\ ~Closing(c)
  /\ crossed' = (crossed \/ c # Head(calls)[2])
  /\ BeginClose(c, calls)
  /\ UNCHANGED <<listenFd, started, objects, batch, misdelivered, startedTwice>>
  /\ UNCHANGED <<open, backlog, peer>>

\* Mutant: tasks and timers run between the events of a batch.
LoopClosesBetween(c) ==
  /\ calls = <<>>
  /\ c \in alive \ closed_
  /\ c \in Client => ClientsClose
  /\ BeginClose(c, << <<"onTimeout", c>> >>)
  /\ UNCHANGED <<listenFd, started, objects, batch, ghosts, open, backlog, peer>>

\* The idle time is over, or forceClose was called in another thread; the
\* connection is held meanwhile.
LoopCloses(c) ==
  /\ calls = <<>>
  /\ batch = {}
  /\ c \in alive \ closed_
  /\ c \in Client => ClientsClose
  /\ BeginClose(c, << <<"onTimeout", c>> >>)
  /\ UNCHANGED <<listenFd, started, objects, batch, ghosts, open, backlog, peer>>

\* Who still holds c when only the calls in running do.
Referenced(c, running) ==
  \/ c \in connections_ \cup held
  \/ \E fd \in Fd : events_[fd] = c
  \/ \E i \in 1..Len(running) : running[i][2] = c

\* Event::close gives the descriptor back.
Close(c) ==
  /\ open' = IF fd_[c] = NoFd THEN open ELSE [open EXCEPT ![fd_[c]] = None]
  /\ watched' = watched \ {fd_[c]}
  /\ fd_' = [fd_ EXCEPT ![c] = NoFd]

\* Mutant: closed_ is set and the descriptor stays open.
FinishCloseKeepFd(c) == closed_' = closed_ \cup {c} /\ UNCHANGED <<open, watched, fd_>>

\* The rest of onClose.
FinishClose(c) == closed_' = closed_ \cup {c} /\ Close(c)

\* A callback returns and with it the shared_ptr it was given; the last one
\* takes the connection with it.  onRead and onClose then go on with this;
\* onTimeout and onAccept are done.
Return ==
  /\ calls # <<>>
  /\ Head(calls)[1] # "accept"
  /\ LET kind == Head(calls)[1]
         c == Head(calls)[2]
         gone == ~Referenced(c, Tail(calls))
     IN /\ alive' = IF gone THEN alive \ {c} ELSE alive
        /\ touched' = IF gone /\ kind \in {"onRead", "onClose"} THEN touched \cup {c} ELSE touched
        /\ IF kind = "onClose" THEN FinishClose(c)
           ELSE IF gone THEN Close(c) /\ UNCHANGED closed_
           ELSE UNCHANGED <<open, watched, fd_, closed_>>
  /\ calls' = Tail(calls)
  /\ UNCHANGED <<backlog, peer, server, held, events_, batch, ghosts>>

\* The application lets go of a connection it has seen closed.
LetGo(c) ==
  /\ calls = <<>>
  /\ c \in held \cap closed_
  /\ held' = held \ {c}
  /\ alive' = IF \E fd \in Fd : events_[fd] = c THEN alive ELSE alive \ {c}
  /\ UNCHANGED <<server, fd_, closed_, touched, loopvars, kernel>>

-----------------------------------------------------------------------------
LoopStep ==
  \/ Poll
  \/ \E e \in batch : Dispatch(e)
  \/ \E c \in Conn : Accept(c)
  \/ AcceptDone
  \/ ReopenAcceptor
  \/ Return

Next ==
  \/ LoopStep
  \/ Stop
  \/ Start
  \/ OthersOpen
  \/ OthersClose
  \/ \E c \in Connection :
       \/ Arrive(c)
       \/ PeerActs(c)
       \/ ConnectClient(c)
       \/ CallbackCloses(c)
       \/ LoopCloses(c)
       \/ LetGo(c)

Spec == Init /\ [][Next]_vars

\* The loop runs on and callbacks return.
FairSpec == Spec /\ WF_vars(LoopStep)

-----------------------------------------------------------------------------
Event == Connection \cup {TheAcceptor}

TypeOK ==
  /\ open \in [Fd -> Event \cup {None, TheOthers}]
  /\ watched \subseteq Fd
  /\ backlog \subseteq Conn
  /\ peer \in [Connection -> {"away", "quiet", "data", "eof", "broken"}]
  /\ listenFd \in Fd \cup {NoFd}
  /\ started \in BOOLEAN
  /\ events_ \in [Fd -> Event \cup {None}]
  /\ connections_ \subseteq Conn
  /\ fd_ \in [Connection -> Fd \cup {NoFd}]
  /\ closed_ \subseteq Connection
  /\ alive \subseteq Connection
  /\ held \subseteq Connection
  /\ batch \subseteq [fd : Fd, as : {"in", "err"}, of : Event]
  /\ calls \in Seq({"onRead", "onClose", "onTimeout", "accept", "accepted"} \X Event)
  /\ touched \subseteq Connection
  /\ crossed \in BOOLEAN
  /\ misdelivered \in BOOLEAN
  /\ startedTwice \in BOOLEAN

\* The table, the kernel and the objects agree on whose a descriptor is: an
\* entry of events_ is never left behind for a descriptor that was closed
\* (removeEvent before Event::close, in every order of callbacks).
TableAgrees ==
  \A fd \in Fd : events_[fd] \in Connection =>
    open[fd] = events_[fd] /\ fd_[events_[fd]] = fd

\* Every connection of the server is in the loop's table and watched, so that its
\* events reach it (onAccept: "add the connection to the event loop").
EveryConnectionIsRegistered ==
  \A c \in connections_ : /\ fd_[c] # NoFd
                          /\ events_[fd_[c]] = c
                          /\ fd_[c] \in watched

\* No descriptor is left open by a connection that is closed or destroyed.
NoDescriptorLeaks ==
  \A fd \in Fd : open[fd] \in Connection =>
    open[fd] \in alive \ closed_ /\ fd_[open[fd]] = fd

\* The three together: the server, the table and the kernel never disagree on a
\* descriptor (addEvent, removeEvent, Event::close, in every order of callbacks),
\* whatever the acceptor has gone through; but once the server was started while
\* the loop had its acceptor, which leaves an entry behind, a connection that gets
\* the number of that entry is not added.
DescriptorsAgree ==
  /\ TableAgrees
  /\ NoDescriptorLeaks
  /\ ~startedTwice => EveryConnectionIsRegistered

\* A connection is not used after its last shared_ptr is gone.
NotUsedAfterDestroyed == touched = {}

\* While callbacks close their own connection only, what epoll_wait reported for
\* one connection is not handled by another that got its descriptor meanwhile
\* (loop goes through the batch and looks every descriptor up again).
DeliveredToOwner == ~crossed => ~misdelivered

\* A server that was stopped is out of the loop (TcpServer::stop).
StoppedLeavesLoop ==
  ~started /\ ~startedTwice => \A fd \in Fd : events_[fd] # TheAcceptor

\* A server that is started, and has a socket, hears of its peers
\* (Acceptor::start).
StartedIsWatched == started /\ listenFd # NoFd => listenFd \in watched

\* A peer waits to be accepted by a server that is started, or has gone and waits
\* for its connection to be closed.
Waits(c) ==
  \/ c \in backlog /\ started
  \/ c \in connections_ /\ peer[c] \in {"eof", "broken"}

\* Whoever waits does not do so for ever: a peer is accepted or turned away, and the
\* connection of one that has gone is closed, whatever else happens in the batch and
\* whatever error accept returns, unless the server was started while the loop had
\* its acceptor (Acceptor::onRead, onClose and open, loop).
NobodyIsForgotten ==
  \A c \in Conn : Waits(c) ~> ~Waits(c) \/ startedTwice

=============================================================================
