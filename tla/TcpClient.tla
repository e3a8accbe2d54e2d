----------------------------- MODULE TcpClient -----------------------------
(***************************************************************************)
(* The clients of one loop (network/TcpClient.cpp): the state of their     *)
(* attempts to connect, the table events_ that the loop finds them in, and *)
(* what the kernel watches for them.  Once a client is connected its       *)
(* handlers are those of TcpConnection; how these write is the subject of  *)
(* the module of that name, and here bytes wait or do not.                 *)
(***************************************************************************)
EXTENDS Naturals, Sequences, FiniteSets, FiniteSetsExt

CONSTANTS
    Client,
    Fd,         \* the descriptors the process may have open
    Attempts    \* calls of connect for each client

None == "none"
NoFd == 0

ASSUME ClientAssumption ==
    /\ None \notin Client /\ Attempts \in Nat \ {0}
    /\ IsFiniteSet(Fd) /\ Fd \subseteq Nat \ {NoFd}

VARIABLES
    status_, fd_,
    closed_,     \* clients whose closed_ is set
    waiting,     \* clients whose io_vec_list_ is not empty
    events_,     \* the loop's table, from descriptors to clients
    open,        \* the kernel: whose each descriptor is
    watched,     \* the kernel: what epoll reports of it, "gone" when not added
    peer,        \* what has become of the connection of each descriptor
    batch,       \* what epoll_wait returned and the loop has not handled
    calls,       \* the callbacks that are running, innermost first
    attempts,    \* calls of connect so far
    told,        \* ghost: whether connection_cb_ was called for a client
    lied,        \* ghost: clients it was called for twice or with no connection
    spoilt       \* ghost: clients that connect was called for again, or
                 \*        send with a buffer

object == <<status_, fd_, closed_, waiting>>
kernel == <<open, watched, peer>>
ghosts == <<attempts, told, lied, spoilt>>
vars == <<object, events_, kernel, batch, calls, ghosts>>

Init ==
    /\ status_ = [c \in Client |-> "init"]
    /\ fd_ = [c \in Client |-> NoFd]
    /\ closed_ = {} /\ waiting = {}
    /\ events_ = [f \in Fd |-> None]
    /\ open = [f \in Fd |-> None]
    /\ watched = [f \in Fd |-> {"gone"}]
    /\ peer = [f \in Fd |-> "none"]
    /\ batch = {} /\ calls = <<>>
    /\ attempts = [c \in Client |-> 0] /\ told = [c \in Client |-> FALSE]
    /\ lied = {} /\ spoilt = {}

-----------------------------------------------------------------------------
(* What the handlers are made of *)

Lowest == Min({f \in Fd : open[f] = None})

Closing(c) == \E i \in DOMAIN calls : calls[i] = <<"onClose", c>>

\* updateConnectionStatus up to the application's part, connection_cb_.
UpdateConnectionStatus(c, established, running) ==
    /\ status_' = [status_ EXCEPT ![c] = "connected"]
    /\ told' = [told EXCEPT ![c] = TRUE]
    /\ lied' = IF established /\ ~told[c] THEN lied ELSE lied \cup {c}
    /\ calls' = << <<"connected", c>> >> \o running

\* TcpConnection::onClose up to the application's part, close_cb_.
BeginClose(c, running) ==
    calls' = IF c \in closed_ THEN running ELSE << <<"onClose", c>> >> \o running

OnClose(c, running) ==
    /\ status_' = [status_ EXCEPT ![c] = "disconnected"]
    /\ BeginClose(c, running)
    /\ UNCHANGED <<told, lied>>

\* enableWriting for a client whose descriptor epoll has; it fails otherwise.
Interest(f, on) ==
    IF f = NoFd \/ "gone" \in watched[f] THEN watched
    ELSE [watched EXCEPT ![f] = IF on THEN @ \cup {"out"} ELSE @ \ {"out"}]

-----------------------------------------------------------------------------
(* What the application calls: in a callback, or in a task of the loop *)

Runs == calls # <<>> \/ batch = {}

\* Mutant: an attempt in progress is taken for a connection.
ConnectedAtOnce(c, f, result) ==
    IF result = "none" THEN OnClose(c, calls)
    ELSE UpdateConnectionStatus(c, result = "up", calls)

\* The result of ::connect and what connectInLoop does about it.
Connected(c, f, result) ==
    CASE result = "up"      -> UpdateConnectionStatus(c, TRUE, calls)
      [] result = "dialing" -> /\ status_' = [status_ EXCEPT ![c] = "connecting"]
                               /\ UNCHANGED <<told, lied, calls>>
      [] result = "none"    -> OnClose(c, calls)

\* Mutant: addEvent, and no enableWriting.
AddEventToRead(c, f) ==
    IF events_[f] = None
    THEN /\ events_' = [events_ EXCEPT ![f] = c]
         /\ watched' = [watched EXCEPT ![f] = {"in"}]
    ELSE UNCHANGED <<events_, watched>>

\* addEvent, which does nothing if the table has an event for the descriptor,
\* and enableWriting(true), which then fails.
AddEventToWrite(c, f) ==
    IF events_[f] = None
    THEN /\ events_' = [events_ EXCEPT ![f] = c]
         /\ watched' = [watched EXCEPT ![f] = {"in", "out"}]
    ELSE UNCHANGED <<events_, watched>>

\* connectInLoop.  A descriptor the client had before is forgotten.
ConnectInLoop(c) ==
    /\ Runs /\ attempts[c] < Attempts
    /\ attempts' = [attempts EXCEPT ![c] = @ + 1]
    /\ spoilt' = IF attempts[c] > 0 \/ c \in closed_ \/ Closing(c)
                 THEN spoilt \cup {c} ELSE spoilt
    /\ \/ /\ fd_' = [fd_ EXCEPT ![c] = NoFd]
          /\ OnClose(c, calls)
          /\ UNCHANGED <<events_, kernel>>
       \/ /\ \E f \in Fd : open[f] = None
          /\ \E result \in {"up", "dialing", "none"} :
                /\ open' = [open EXCEPT ![Lowest] = c]
                /\ peer' = [peer EXCEPT ![Lowest] = result]
                /\ fd_' = [fd_ EXCEPT ![c] = Lowest]
                /\ AddEventToWrite(c, Lowest)
                /\ Connected(c, Lowest, result)
    /\ UNCHANGED <<closed_, waiting, batch>>

\* send with a list.
Send(c) ==
    /\ Runs /\ status_[c] = "connected" /\ c \notin closed_
    /\ waiting' = waiting \cup {c}
    /\ watched' = Interest(fd_[c], TRUE)
    /\ UNCHANGED <<status_, fd_, closed_, events_, open, peer, batch, calls, ghosts>>

\* send with a buffer sends nothing: it takes the client out of the loop and
\* closes the connection, with the status of a connected client.  (A callback
\* does not close the client whose close_cb_ is running, which has no end.)
SendBuffer(c) ==
    /\ Runs /\ ~Closing(c)
    /\ IF status_[c] = "connected" /\ fd_[c] # NoFd
       THEN /\ events_' = [events_ EXCEPT ![fd_[c]] = None]
            /\ watched' = [watched EXCEPT ![fd_[c]] = {"gone"}]
       ELSE UNCHANGED <<events_, watched>>
    /\ status_' = [status_ EXCEPT ![c] = "connected"]
    /\ spoilt' = spoilt \cup {c}
    /\ BeginClose(c, calls)
    /\ UNCHANGED <<fd_, closed_, waiting, open, peer, batch, attempts, told, lied>>

\* forceClose, or the idle time.
ForceClose(c) ==
    /\ Runs /\ c \notin closed_ /\ ~Closing(c)
    /\ OnClose(c, calls)
    /\ UNCHANGED <<fd_, closed_, waiting, events_, kernel, batch, attempts, spoilt>>

-----------------------------------------------------------------------------
(* The loop *)

\* The branch of loop that is taken for what epoll reports of a descriptor.
As(f) ==
    CASE peer[f] \in {"refused", "broken"} -> {"err"}
      [] peer[f] \in {"data", "eof"}       -> {"in"}
      [] peer[f] = "up"                    -> {"out"} \cap watched[f]
      [] OTHER                             -> {}

Ready == UNION {{f} \X As(f) : f \in {g \in Fd : watched[g] # {"gone"}}}

Poll ==
    /\ calls = <<>> /\ batch = {} /\ Ready # {}
    /\ batch' = Ready
    /\ UNCHANGED <<object, events_, kernel, calls, ghosts>>

\* What getsockopt finds.
Failed(f) == f # NoFd /\ peer[f] \in {"refused", "broken"}

\* onRead and onWrite of a client that is connecting.
Establish(c) ==
    /\ IF Failed(fd_[c]) THEN OnClose(c, <<>>)
       ELSE UpdateConnectionStatus(c, fd_[c] # NoFd /\ peer[fd_[c]] \in {"up", "data", "eof"}, <<>>)
    /\ UNCHANGED <<waiting, watched, peer>>

Nothing == UNCHANGED <<status_, told, lied, calls, waiting, watched, peer>>

\* onRead of a client that is connected: message_cb_, or the end of the stream.
OnRead(c) ==
    CASE c \in closed_ -> Nothing
      [] c \notin closed_ /\ peer[fd_[c]] = "data" ->
            /\ peer' = [peer EXCEPT ![fd_[c]] = "up"]
            /\ calls' = << <<"onRead", c>> >>
            /\ UNCHANGED <<status_, told, lied, waiting, watched>>
      [] c \notin closed_ /\ peer[fd_[c]] \in {"eof", "broken"} ->
            OnClose(c, <<>>) /\ UNCHANGED <<waiting, watched, peer>>
      [] OTHER -> Nothing

\* onWrite of a client that is connected: what waits is written, or a part of
\* it.  With nothing to write the completion is reported all the same.
OnWrite(c) ==
    \/ /\ c \notin closed_
       /\ waiting' = waiting \ {c}
       /\ watched' = Interest(fd_[c], FALSE)
       /\ calls' = << <<"complete", c>> >>
       /\ UNCHANGED <<status_, told, lied, peer>>
    \/ c \in closed_ \cup waiting /\ Nothing

Handle(c, as) ==
    \/ as = "err" /\ OnClose(c, <<>>) /\ UNCHANGED <<waiting, watched, peer>>
    \/ as # "err" /\ status_[c] = "connecting" /\ Establish(c)
    \/ as = "in"  /\ status_[c] = "connected" /\ OnRead(c)
    \/ as = "out" /\ status_[c] = "connected" /\ OnWrite(c)
    \/ as # "err" /\ status_[c] \in {"init", "disconnected"} /\ Nothing

\* The loop looks a ready descriptor up in events_ and calls its event.
Dispatch(f, as) ==
    /\ calls = <<>> /\ <<f, as>> \in batch
    /\ batch' = batch \ {<<f, as>>}
    /\ IF events_[f] = None THEN Nothing ELSE Handle(events_[f], as)
    /\ UNCHANGED <<fd_, closed_, events_, open, attempts, spoilt>>

\* Mutant: onClose does not close the descriptor.
FinishCloseKeepFd(c) ==
    /\ closed_' = closed_ \cup {c}
    /\ UNCHANGED <<fd_, kernel>>

\* The rest of TcpConnection::onClose.  The entry of events_ stays; epoll drops
\* a descriptor that is closed.
FinishClose(c) ==
    /\ closed_' = closed_ \cup {c}
    /\ fd_' = [fd_ EXCEPT ![c] = NoFd]
    /\ IF fd_[c] = NoFd THEN UNCHANGED kernel
       ELSE /\ open' = [open EXCEPT ![fd_[c]] = None]
            /\ watched' = [watched EXCEPT ![fd_[c]] = {"gone"}]
            /\ peer' = [peer EXCEPT ![fd_[c]] = "none"]

\* A callback returns.  onRead reads on, which fails if the callback has closed
\* the descriptor, and calls onClose again.
Return ==
    /\ calls # <<>>
    /\ calls' = Tail(calls)
    /\ LET kind == Head(calls)[1]
           c == Head(calls)[2]
       IN  /\ IF kind = "onClose" THEN FinishClose(c) ELSE UNCHANGED <<closed_, fd_, kernel>>
           /\ status_' = IF kind = "onRead" /\ fd_[c] = NoFd
                         THEN [status_ EXCEPT ![c] = "disconnected"] ELSE status_
    /\ UNCHANGED <<waiting, events_, batch, ghosts>>

LoopStep ==
    Poll \/ Return \/ \E f \in Fd, as \in {"err", "in", "out"} : Dispatch(f, as)

-----------------------------------------------------------------------------
\* The network answers an attempt.
Answer(f) ==
    /\ peer[f] = "dialing"
    /\ \E result \in {"up", "refused"} : peer' = [peer EXCEPT ![f] = result]
    /\ UNCHANGED <<object, events_, open, watched, batch, calls, ghosts>>

\* The server sends, closes, or breaks off.
ServerActs(f) ==
    /\ \/ peer[f] = "up" /\ \E what \in {"data", "eof"} : peer' = [peer EXCEPT ![f] = what]
       \/ peer[f] \in {"up", "data", "eof"} /\ peer' = [peer EXCEPT ![f] = "broken"]
    /\ UNCHANGED <<object, events_, open, watched, batch, calls, ghosts>>

Next ==
    \/ LoopStep
    \/ \E c \in Client : ConnectInLoop(c) \/ Send(c) \/ SendBuffer(c) \/ ForceClose(c)
    \/ \E f \in Fd : Answer(f) \/ ServerActs(f)

Spec == Init /\ [][Next]_vars

\* The loop runs on, callbacks return, and the network answers.
FairSpec == Spec /\ WF_vars(LoopStep) /\ \A f \in Fd : WF_vars(Answer(f))

-----------------------------------------------------------------------------
TypeOK ==
    /\ status_ \in [Client -> {"init", "connecting", "connected", "disconnected"}]
    /\ fd_ \in [Client -> Fd \cup {NoFd}]
    /\ closed_ \subseteq Client /\ waiting \subseteq Client
    /\ events_ \in [Fd -> Client \cup {None}] /\ open \in [Fd -> Client \cup {None}]
    /\ watched \in [Fd -> {{"gone"}} \cup SUBSET {"in", "out"}]
    /\ peer \in [Fd -> {"none", "dialing", "refused", "up", "data", "eof", "broken"}]
    /\ batch \subseteq Fd \X {"err", "in", "out"}
    /\ calls \in Seq({"connected", "onClose", "onRead", "complete"} \X Client)
    /\ attempts \in [Client -> 0 .. Attempts] /\ told \in [Client -> BOOLEAN]
    /\ lied \subseteq Client /\ spoilt \subseteq Client

\* connection_cb_ is called with true once at most for an attempt, and when the
\* connection is established, whatever order the events of a batch and the
\* calls of the application in callbacks come in.
ConnectedIsTrue == spoilt = {} => lied = {}

\* A descriptor that a client has opened is the one it has in fd_, the loop
\* finds the client by it if epoll watches it, and closing gives it back.
DescriptorsAgree ==
    \A f \in Fd : open[f] \notin spoilt \cup {None} =>
        /\ fd_[open[f]] = f /\ open[f] \notin closed_
        /\ watched[f] # {"gone"} => events_[f] = open[f]

\* epoll watches the client's descriptor for it.
Registered(c) == fd_[c] # NoFd /\ watched[fd_[c]] # {"gone"}

\* An attempt to connect comes to an end if the loop can hear of it: it cannot
\* if addEvent found the entry of a client that had the descriptor before.
AttemptEnds ==
    \A c \in Client : status_[c] = "connecting" /\ Registered(c) /\ c \notin spoilt
                      ~> status_[c] # "connecting" \/ c \in spoilt

\* Not true of the code, see README: that every attempt ends; that a client may
\* connect again; that it may send a buffer.
EveryAttemptEnds ==
    \A c \in Client : status_[c] = "connecting" /\ c \notin spoilt
                      ~> status_[c] # "connecting" \/ c \in spoilt
NoDescriptorLeaks == \A f \in Fd : open[f] # None => fd_[open[f]] = f
ConnectedIsOpen ==
    \A c \in Client : status_[c] = "connected" => c \notin closed_

=============================================================================
