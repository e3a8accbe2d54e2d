----------------------------- MODULE UdpSocket -----------------------------
(***************************************************************************)
(* A UdpSocket (network/UdpSocket.cpp) that is a UdpClient or a UdpServer  *)
(* (network/UdpClient.cpp, UdpServer.cpp): connecting or starting,         *)
(* sending, writing what waits, reading and closing or stopping, with the  *)
(* application's callbacks that run inside.                                *)
(*                                                                         *)
(* Everything runs in the loop's thread: a send from another thread is a   *)
(* task, so it is made while no handler runs.                              *)
(***************************************************************************)
EXTENDS Naturals, Sequences, SequencesExt

CONSTANTS
  Datagram,        \* what is sent, each once
  Empty,           \* those without a byte
  Lists,           \* the lists of buffers that are sent
  Roles,           \* "client", "server" or both
  MaxConnects,     \* bound: connects or starts
  MaxCopies        \* bound: how often sendto succeeds

ASSUME UdpAssumption ==
  /\ Empty \subseteq Datagram
  /\ Lists \subseteq Seq(Datagram)
  /\ Roles \subseteq {"client", "server"}
  /\ MaxConnects \in Nat
  /\ MaxCopies \in Nat

VARIABLES
  role,          \* what the socket is
  connects,      \* how often it has been connected or started
  connected_,    \* of a client
  closed_,
  fd_,           \* the number of its descriptor, or NoFd
  open,          \* the numbers of its descriptors that are open
  events_,       \* the numbers under which the loop's events_ has the socket
  watched,       \* those that epoll watches
  writing,       \* those that it watches for EPOLLOUT
  buffer_list_,
  calls,         \* handlers and callbacks that run, the innermost last
  unsent,        \* what the application has not sent yet
  arrived,       \* a datagram has come in
  room,          \* the kernel's send buffer has room
  taken,         \* ghost: what sendInLoop was given, in that order
  wire,          \* ghost: what the kernel took
  completed,     \* ghost: Len(taken) when write_complete_cb_ was last called
  nested         \* ghost: the write_complete_cb_ that onWrite calls has sent

table == <<events_, watched>>
lifecycle == <<role, connects, connected_, closed_, fd_, open, table>>
sending == <<buffer_list_, unsent, taken, wire, completed, nested>>
kernel == <<arrived, room>>
vars == <<lifecycle, writing, calls, sending, kernel>>

NoFd == 0
Fd == 1..MaxConnects

Init ==
  /\ role \in Roles
  /\ connects = 0
  /\ connected_ = FALSE
  /\ closed_ = FALSE
  /\ fd_ = NoFd
  /\ open = {}
  /\ events_ = {}
  /\ watched = {}
  /\ writing = {}
  /\ buffer_list_ = <<>>
  /\ calls = <<>>
  /\ unsent = Datagram
  /\ arrived = FALSE
  /\ room = TRUE
  /\ taken = <<>>
  /\ wire = <<>>
  /\ completed = 0
  /\ nested = FALSE

AtLoop == calls = <<>>
Running(call) == calls # <<>> /\ Last(calls) = call

\* The application's code runs: as a task, or in a callback.
Application == IF AtLoop THEN connects > 0 ELSE Last(calls) # "onWrite"

\* enableEventWriting finds the number in events_ or does nothing; epoll only
\* modifies what it watches.
EnableWriting(enable) ==
  writing' = IF fd_ \notin events_ \cap watched THEN writing
             ELSE IF enable THEN writing \cup {fd_}
             ELSE writing \ {fd_}

\* addEvent: for reading; nothing when events_ has an entry under the number.
AddEvent(fd) ==
  IF fd \in events_
    THEN UNCHANGED table
    ELSE /\ events_' = events_ \cup {fd}
         /\ watched' = watched \cup {fd}

\* removeEvent of its number.
RemoveEvent ==
  /\ events_' = events_ \ {fd_}
  /\ watched' = watched \ {fd_}
  /\ writing' = writing \ {fd_}

-----------------------------------------------------------------------------
\* socket() gives a number that is not in use, and the loop is given the
\* socket; the descriptor it had, if it still had one, is forgotten.
Opens ==
  \E fd \in Fd \ open :
    /\ fd_' = fd
    /\ open' = open \cup {fd}
    /\ AddEvent(fd)
    /\ UNCHANGED writing

OpenFails ==
  /\ fd_' = NoFd
  /\ UNCHANGED <<open, table, writing>>

\* connnectInLoop, from a task or a callback; closed_ is left alone.
Connect ==
  /\ AtLoop \/ Application
  /\ role = "client"
  /\ connects < MaxConnects
  /\ connects' = connects + 1
  /\ \/ Opens /\ connected_' = TRUE /\ calls' = Append(calls, "connection")
     \/ OpenFails /\ UNCHANGED <<connected_, calls>>
  /\ UNCHANGED <<role, closed_, sending, kernel>>

\* UdpServer::open, from a task or a callback.  Whether bind succeeds decides
\* only whether datagrams arrive.
StartServer ==
  /\ AtLoop \/ Application
  /\ role = "server"
  /\ connects < MaxConnects
  /\ connects' = connects + 1
  /\ Opens \/ OpenFails
  /\ UNCHANGED <<role, connected_, closed_, calls, sending, kernel>>

\* UdpSocket::onClose up to the end of close_cb_.
SocketClose(running) ==
  /\ closed_' = TRUE
  /\ calls' = IF closed_ THEN running ELSE Append(running, "close")

\* onClose of the client, which takes it out of the loop, or of the server,
\* which does not.
BeginClose(running) ==
  \/ /\ role = "client" /\ connected_
     /\ connected_' = FALSE
     /\ RemoveEvent
     /\ SocketClose(running)
  \/ /\ role = "client" /\ ~connected_
     /\ calls' = running
     /\ UNCHANGED <<connected_, closed_, table, writing>>
  \/ /\ role = "server"
     /\ SocketClose(running)
     /\ UNCHANGED <<connected_, table, writing>>

\* forceClose or stop, from a callback or a task, an error or hang-up that the
\* loop reports, or the idle time.
OnClose ==
  /\ ~Running("onWrite")
  /\ connected_ \/ (role = "server" /\ connects > 0 /\ ~closed_)
  /\ BeginClose(calls)
  /\ UNCHANGED <<role, connects, fd_, open, sending, kernel>>

-----------------------------------------------------------------------------
\* It runs inside the write_complete_cb_ that onWrite calls.
SendsNested == nested' = (nested \/ "written" \in ToSet(calls))

\* Mutant: a datagram is sent at once though others are waiting.
SendInLoopAlways(d) ==
  /\ taken' = Append(taken, d)
  /\ \/ /\ fd_ # NoFd /\ room
        /\ wire' = Append(wire, d)
        /\ room' \in BOOLEAN
        /\ calls' = Append(calls, "sent")
        /\ completed' = Len(taken')
        /\ UNCHANGED <<buffer_list_, writing>>
     \/ /\ ~(fd_ # NoFd /\ room)
        /\ buffer_list_' = Append(buffer_list_, d)
        /\ EnableWriting(TRUE)
        /\ UNCHANGED <<wire, calls, completed, room>>

\* Mutant: what waits is not watched for.
SendInLoopUnwatched(d) ==
  /\ taken' = Append(taken, d)
  /\ buffer_list_' = Append(buffer_list_, d)
  /\ UNCHANGED <<wire, calls, completed, room, writing>>

\* sendInLoop of one buffer: sent at once unless others are waiting; what sendto
\* refuses, for want of room or for an error, waits, and so does a datagram of
\* which sendto says that it took no byte.
SendInLoop(d) ==
  /\ taken' = Append(taken, d)
  /\ \/ /\ buffer_list_ = <<>> /\ fd_ # NoFd /\ room
        /\ wire' = Append(wire, d)
        /\ room' \in BOOLEAN
        /\ IF d \notin Empty
             THEN /\ calls' = Append(calls, "sent")
                  /\ completed' = Len(taken')
                  /\ UNCHANGED <<buffer_list_, writing>>
             ELSE /\ buffer_list_' = <<d>>
                  /\ EnableWriting(TRUE)
                  /\ UNCHANGED <<calls, completed>>
     \/ /\ buffer_list_' = Append(buffer_list_, d)
        /\ EnableWriting(TRUE)
        /\ UNCHANGED <<wire, calls, completed, room>>

Send(d) ==
  /\ Application
  /\ d \in unsent
  /\ unsent' = unsent \ {d}
  /\ SendInLoop(d)
  /\ SendsNested
  /\ UNCHANGED <<lifecycle, arrived>>

\* sendInLoop of a list: all of it waits.
SendList(list) ==
  /\ Application
  /\ ToSet(list) \subseteq unsent
  /\ unsent' = unsent \ ToSet(list)
  /\ taken' = taken \o list
  /\ buffer_list_' = buffer_list_ \o list
  /\ IF buffer_list_' # <<>> THEN EnableWriting(TRUE) ELSE UNCHANGED writing
  /\ SendsNested
  /\ UNCHANGED <<lifecycle, calls, wire, completed, kernel>>

-----------------------------------------------------------------------------
\* The loop reads before it writes.  When nothing waits, the interest in
\* writing goes and write_complete_cb_ is called.
OnWrite ==
  /\ AtLoop
  /\ writing # {} /\ room /\ ~arrived
  /\ ~closed_
  /\ IF buffer_list_ # <<>>
       THEN calls' = <<"onWrite">> /\ UNCHANGED <<writing, completed>>
       ELSE /\ calls' = <<"sent">>
            /\ EnableWriting(FALSE)
            /\ completed' = Len(taken)
  /\ UNCHANGED <<lifecycle, buffer_list_, unsent, taken, wire, nested, kernel>>

\* Mutant: write_complete_cb_ is called for each datagram.
SendFrontCompleteEach ==
  /\ Running("onWrite")
  /\ room
  /\ wire' = Append(wire, Head(buffer_list_))
  /\ buffer_list_' = Tail(buffer_list_)
  /\ calls' = Append(Front(calls), "written")
  /\ completed' = Len(taken)
  /\ UNCHANGED <<lifecycle, writing, unsent, taken, nested, kernel>>

\* One round of onWrite's loop: the front of the list goes out and is taken
\* off, unless sendto took no byte of it; when the list is empty
\* write_complete_cb_ is called.  A full buffer ends the loop, an error the
\* socket.
SendFront ==
  /\ Running("onWrite")
  /\ \/ /\ fd_ # NoFd /\ room
        /\ Len(wire) < MaxCopies
        /\ wire' = Append(wire, Head(buffer_list_))
        /\ room' \in BOOLEAN
        /\ buffer_list_' = IF Head(buffer_list_) \in Empty THEN buffer_list_
                           ELSE Tail(buffer_list_)
        /\ IF buffer_list_' = <<>>
             THEN calls' = Append(Front(calls), "written") /\ completed' = Len(taken)
             ELSE UNCHANGED <<calls, completed>>
        /\ UNCHANGED <<connected_, closed_, table, writing>>
     \/ /\ ~room
        /\ calls' = Front(calls)
        /\ UNCHANGED <<connected_, closed_, table, writing,
                       buffer_list_, wire, completed, room>>
     \/ /\ BeginClose(Front(calls))
        /\ UNCHANGED <<buffer_list_, wire, completed, room>>
  /\ UNCHANGED <<role, connects, fd_, open, unsent, taken, nested, arrived>>

\* onRead takes what has come in and calls message_cb_.
OnRead ==
  /\ AtLoop
  /\ fd_ # NoFd /\ watched # {} /\ arrived
  /\ ~closed_
  /\ arrived' = FALSE
  /\ calls' = <<"message">>
  /\ UNCHANGED <<lifecycle, writing, sending, room>>

\* Mutant: the descriptor is left open.
CloseDescriptorNot == UNCHANGED <<fd_, open, table, writing>>

\* Event::close at the end of onClose: epoll drops what is closed, events_
\* keeps what it has.
CloseDescriptor ==
  /\ fd_' = NoFd
  /\ open' = open \ {fd_}
  /\ watched' = watched \ {fd_}
  /\ writing' = writing \ {fd_}
  /\ UNCHANGED events_

\* A callback returns: onWrite then gives up the interest in writing, and
\* onClose closes the descriptor.
Return ==
  /\ ~AtLoop
  /\ Last(calls) # "onWrite"
  /\ calls' = Front(calls)
  /\ CASE Last(calls) = "close"   -> CloseDescriptor
       [] Last(calls) = "written" -> EnableWriting(FALSE) /\ UNCHANGED <<fd_, open, table>>
       [] OTHER                   -> UNCHANGED <<fd_, open, table, writing>>
  /\ UNCHANGED <<role, connects, connected_, closed_, sending, kernel>>

\* The network: datagrams come, the send buffer empties.
Arrive ==
  /\ fd_ # NoFd
  /\ ~arrived
  /\ arrived' = TRUE
  /\ UNCHANGED <<lifecycle, writing, calls, sending, room>>

MakeRoom ==
  /\ ~room
  /\ room' = TRUE
  /\ UNCHANGED <<lifecycle, writing, calls, sending, arrived>>

-----------------------------------------------------------------------------
Next ==
  \/ Connect
  \/ StartServer
  \/ OnClose
  \/ \E d \in Datagram : Send(d)
  \/ \E list \in Lists : SendList(list)
  \/ OnWrite
  \/ SendFront
  \/ OnRead
  \/ Return
  \/ Arrive
  \/ MakeRoom

Spec == Init /\ [][Next]_vars

\* The loop runs on, callbacks return, and the kernel sends what it took.
FairSpec ==
  /\ Spec
  /\ WF_vars(OnWrite) /\ WF_vars(SendFront) /\ WF_vars(OnRead)
  /\ WF_vars(Return) /\ WF_vars(MakeRoom)

-----------------------------------------------------------------------------
TypeOK ==
  /\ role \in {"client", "server"}
  /\ connects \in 0..MaxConnects
  /\ {connected_, closed_, arrived, room, nested} \subseteq BOOLEAN
  /\ fd_ \in Fd \cup {NoFd}
  /\ open \subseteq Fd /\ events_ \subseteq Fd
  /\ watched \subseteq Fd /\ writing \subseteq Fd
  /\ buffer_list_ \in Seq(Datagram)
  /\ calls \in Seq({"connection", "close", "sent", "onWrite", "written", "message"})
  /\ unsent \subseteq Datagram
  /\ taken \in Seq(Datagram)
  /\ wire \in Seq(Datagram)
  /\ completed \in 0..Len(taken)

\* What is behind on the wire was sent behind, whoever sends from which callback;
\* and unless one of them is empty, every datagram goes out once, or still waits
\* for it (sendInLoop, onWrite).
SentOnceInOrder ==
  /\ \A i, j \in 1..Len(wire) :
       i < j => \E k, l \in 1..Len(taken) :
                  k <= l /\ taken[k] = wire[i] /\ taken[l] = wire[j]
  /\ ToSet(taken) \cap Empty = {} => taken = wire \o buffer_list_

\* The socket keeps the promise of an ordered channel (module OrderedChannel)
\* until an empty datagram is sent: what goes out is what was sent, in that
\* order, each once, and write_complete_cb_ is called when all of it is out.
Channel == INSTANCE OrderedChannel WITH
  accepted <- taken, delivered <- wire, confirmed <- completed,
  broken <- ToSet(taken) \cap Empty # {}, able <- fd_ # NoFd
ImplementsChannel == Channel!Spec

\* Of a socket connected or started once, epoll watches exactly the descriptor
\* that is open and finds the socket by it, and a closed socket has given its
\* descriptor back, whichever callback closed it (onClose, Event::close); a
\* client has then also left events_, a server stays in it.
DescriptorFollowsLoop ==
  AtLoop /\ connects <= 1 =>
    /\ watched = open /\ open \subseteq events_
    /\ closed_ => open = {}
    /\ role = "client" => events_ = open

\* A socket the application has connected or started can read (onRead refuses
\* when closed_, the loop when epoll does not watch it): not true of one that
\* was closed before, see README.
OpenIsServed == AtLoop /\ fd_ # NoFd => fd_ \in watched /\ ~closed_

\* A socket that is closed has left the loop's table (UdpServer::stop): not
\* true of a server, see README.
ClosedLeavesLoop == AtLoop /\ closed_ => events_ = {}

\* The network stops sending us datagrams, so that the loop, which prefers
\* reading, may write.
Quiet == <>[]~arrived

\* Once it is quiet, what waits goes out, unless the socket is closed (onWrite,
\* loop); it may not after a send from onWrite's write_complete_cb_ or of an
\* empty datagram, or when the socket has been connected again.
Drains ==
  Quiet /\ [](~nested /\ Empty \subseteq unsent /\ connects <= 1)
    => (buffer_list_ # <<>> ~> buffer_list_ = <<>> \/ watched = {})

=============================================================================
