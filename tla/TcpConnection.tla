--------------------------- MODULE TcpConnection ---------------------------
(***************************************************************************)
(* The sending half of a TCP connection (network/net/TcpConnection.cpp):   *)
(* send from the loop's thread and from others, sendInLoop, onWrite and    *)
(* onClose, with the callbacks of the application that run inside them and *)
(* the dispatch of EventLoop::loop that decides between onRead and onWrite. *)
(*                                                                         *)
(* io_vec_list_ is flattened to the bytes it points to: writev takes bytes *)
(* off its front and onWrite strips as many.  A byte is a pair of the call *)
(* that sends it and its position; position 0 is the byte before the       *)
(* caller's data.  Lengths are size_t, so a failed write returns SizeMax.  *)
(***************************************************************************)
EXTENDS Integers, Sequences

CONSTANTS
  Call,        \* calls of send
  Size,        \* how many bytes each of them sends
  ByList,      \* those that send a list of buffers
  ByOther,     \* those made by a thread that is not the loop's
  SizeMax      \* the largest size_t

ASSUME CallsAssumption ==
  /\ Size \in [Call -> Nat]
  /\ ByList \subseteq Call
  /\ ByOther \subseteq Call
  /\ SizeMax \in Nat
  /\ \A c \in Call : Size[c] + 1 < SizeMax
  /\ \A c \in ByList : Size[c] > 0

VARIABLES
  closed_,
  registered,    \* the loop's events_ holds the connection
  io_vec_list_,  \* the bytes waiting to be written
  writing,       \* the loop watches the socket for EPOLLOUT
  readable,      \* something has arrived that onRead has not read
  posted,        \* sends queued in the loop by other threads
  unsent,        \* calls of send still to be made
  callbacks,     \* the application's callbacks that are running, nested
  accepted,      \* ghost: the bytes sendInLoop took on, in that order
  wire,          \* ghost: the bytes the kernel took
  refused,       \* ghost: the kernel has refused bytes, its buffer being full
  completed      \* ghost: how many bytes had been taken on when the last
                 \* write_complete_cb_ was called

vars == <<closed_, registered, io_vec_list_, writing, readable, posted, unsent, callbacks, accepted,
          wire, refused, completed>>

Bytes(c) == [i \in 1..Size[c] |-> <<c, i>>]

\* What ::write returns for len bytes: it takes at least one, or fails.
WriteResults(len) == (IF len = 0 THEN {0} ELSE 1..len) \cup {SizeMax}

\* The unwritten rest of c's bytes, by unsigned arithmetic: after a failure
\* it starts one byte before the data and is one byte longer.
Rest(c, n) ==
  LET size == (Size[c] - n) % (SizeMax + 1)
      base == IF n = SizeMax THEN -1 ELSE n
  IN [i \in 1..size |-> <<c, base + i>>]

Init ==
  /\ closed_ = FALSE
  /\ registered = TRUE
  /\ io_vec_list_ = <<>>
  /\ writing = FALSE
  /\ readable = FALSE
  /\ posted = <<>>
  /\ unsent = Call
  /\ callbacks = <<>>
  /\ accepted = <<>>
  /\ wire = <<>>
  /\ refused = FALSE
  /\ completed = 0

-----------------------------------------------------------------------------
\* The loop's thread is in none of the connection's callbacks.
AtLoop == callbacks = <<>>

\* enableEventWriting finds the connection in events_ or does nothing.
EnableWriting == writing' = registered

\* write_complete_cb_ is called as the last thing its caller does.
WriteComplete ==
  /\ callbacks' = Append(callbacks, "complete")
  /\ completed' = Len(accepted')

\* Mutant: bytes are queued and the loop is not told to watch for EPOLLOUT.
QueueBytesUnwatched(s) ==
  /\ io_vec_list_' = io_vec_list_ \o s
  /\ UNCHANGED <<writing, callbacks, completed>>

\* io_vec_list_.push_back and enableWriting(true).
QueueBytes(s) ==
  /\ io_vec_list_' = io_vec_list_ \o s
  /\ EnableWriting
  /\ UNCHANGED <<callbacks, completed>>

\* Mutant: a buffer is written at once though others are waiting.
WriteNowAlways(c) ==
  \E n \in WriteResults(Size[c]) :
    /\ wire' = wire \o SubSeq(Bytes(c), 1, IF n = SizeMax THEN 0 ELSE n)
    /\ refused' = (refused \/ n = SizeMax)
    /\ IF Rest(c, n) = <<>>
         THEN WriteComplete /\ UNCHANGED <<io_vec_list_, writing>>
         ELSE QueueBytes(Rest(c, n))

\* sendInLoop of one buffer: write now unless others are waiting.
WriteNow(c) ==
  IF io_vec_list_ # <<>>
    THEN QueueBytes(Bytes(c)) /\ UNCHANGED <<wire, refused>>
    ELSE \E n \in WriteResults(Size[c]) :
           /\ wire' = wire \o SubSeq(Bytes(c), 1, IF n = SizeMax THEN 0 ELSE n)
           /\ refused' = (refused \/ n = SizeMax)
           /\ IF Rest(c, n) = <<>>
                THEN WriteComplete /\ UNCHANGED <<io_vec_list_, writing>>
                ELSE QueueBytes(Rest(c, n))

\* sendInLoop of a list: onWrite writes it.
WriteLater(c) == QueueBytes(Bytes(c)) /\ UNCHANGED <<wire, refused>>

\* Mutant: sendInLoop does not look at closed_ again.
SendInLoopUnchecked(c) ==
  /\ accepted' = accepted \o Bytes(c)
  /\ IF c \in ByList THEN WriteLater(c) ELSE WriteNow(c)

SendInLoop(c) ==
  IF closed_
    THEN UNCHANGED <<io_vec_list_, writing, callbacks, completed, accepted, wire, refused>>
    ELSE /\ accepted' = accepted \o Bytes(c)
         /\ IF c \in ByList THEN WriteLater(c) ELSE WriteNow(c)

-----------------------------------------------------------------------------
\* send in the loop's thread, from a handler or a callback.
Send(c) ==
  /\ c \in unsent \ ByOther
  /\ unsent' = unsent \ {c}
  /\ SendInLoop(c)
  /\ UNCHANGED <<closed_, registered, readable, posted>>

\* Mutant: every send is posted, as if isInLoopThread were false.
PostSendAlways(c) ==
  /\ c \in unsent
  /\ unsent' = unsent \ {c}
  /\ posted' = IF closed_ THEN posted ELSE Append(posted, c)
  /\ UNCHANGED <<closed_, registered, io_vec_list_, writing, readable,
                 callbacks, accepted, wire, refused, completed>>

\* send in another thread reads closed_ there and queues a task.
PostSend(c) ==
  /\ c \in unsent \cap ByOther
  /\ unsent' = unsent \ {c}
  /\ posted' = IF closed_ THEN posted ELSE Append(posted, c)
  /\ UNCHANGED <<closed_, registered, io_vec_list_, writing, readable,
                 callbacks, accepted, wire, refused, completed>>

\* runFunctions runs the task.
RunPosted ==
  /\ AtLoop
  /\ posted # <<>>
  /\ posted' = Tail(posted)
  /\ SendInLoop(Head(posted))
  /\ UNCHANGED <<closed_, registered, readable, unsent>>

\* onWrite calls writev until the list is empty.  The kernel takes the first k
\* bytes; a call that fails returns SizeMax, more than all the list holds, so
\* the list is emptied then too.
OnWrite ==
  /\ AtLoop
  /\ registered
  /\ writing
  /\ ~readable
  /\ \E k \in 0..Len(io_vec_list_) :
       /\ refused' = (refused \/ k < Len(io_vec_list_))
       /\ wire' = wire \o SubSeq(io_vec_list_, 1, k)
  /\ io_vec_list_' = <<>>
  /\ writing' = FALSE
  /\ UNCHANGED <<closed_, registered, readable, posted, unsent, accepted>>
  /\ WriteComplete

Arrive ==
  /\ ~closed_
  /\ ~readable
  /\ readable' = TRUE
  /\ UNCHANGED <<closed_, registered, io_vec_list_, writing, posted, unsent,
                 callbacks, accepted, wire, refused, completed>>

\* loop() calls onRead and not onWrite when the socket is ready for both;
\* onRead reads on until nothing is left.
OnRead ==
  /\ AtLoop
  /\ registered
  /\ readable
  /\ readable' = FALSE
  /\ UNCHANGED <<closed_, registered, io_vec_list_, writing, posted,
                 unsent, callbacks, accepted, wire, refused, completed>>

\* onClose, for the peer's close, an error, the idle time or forceClose: close_cb_
\* takes the connection out of the loop and tells the application, which does
\* not close the connection again from there.
OnClose ==
  /\ ~closed_
  /\ \A i \in 1..Len(callbacks) : callbacks[i] # "destroy"
  /\ registered' = FALSE
  /\ writing' = FALSE
  /\ callbacks' = Append(callbacks, "destroy")
  /\ UNCHANGED <<closed_, io_vec_list_, readable, posted, unsent,
                 accepted, wire, refused, completed>>

\* A callback returns; after close_cb_, onClose closes the socket.
Return ==
  /\ callbacks # <<>>
  /\ closed_' = (closed_ \/ callbacks[Len(callbacks)] = "destroy")
  /\ callbacks' = SubSeq(callbacks, 1, Len(callbacks) - 1)
  /\ UNCHANGED <<registered, io_vec_list_, writing, readable, posted,
                 unsent, accepted, wire, refused, completed>>

Next ==
  \/ \E c \in Call : Send(c) \/ PostSend(c)
  \/ RunPosted
  \/ OnWrite
  \/ Arrive
  \/ OnRead
  \/ OnClose
  \/ Return

Spec == Init /\ [][Next]_vars

\* The loop runs on: it reads and writes what is ready, runs its tasks, and
\* callbacks return.
FairSpec ==
  /\ Spec
  /\ WF_vars(OnRead) /\ WF_vars(OnWrite)
  /\ WF_vars(RunPosted) /\ WF_vars(Return)

-----------------------------------------------------------------------------
Byte == Call \X Nat

TypeOK ==
  /\ closed_ \in BOOLEAN
  /\ registered \in BOOLEAN
  /\ io_vec_list_ \in Seq(Byte)
  /\ writing \in BOOLEAN
  /\ readable \in BOOLEAN
  /\ posted \in Seq(ByOther)
  /\ unsent \subseteq Call
  /\ callbacks \in Seq({"complete", "destroy"})
  /\ accepted \in Seq(Byte)
  /\ wire \in Seq(Byte)
  /\ refused \in BOOLEAN
  /\ completed \in Nat

\* While bytes wait, the loop watches for EPOLLOUT: they are never stranded,
\* whichever callback or thread queued them (sendInLoop, onWrite).
PendingIsWatched ==
  registered /\ io_vec_list_ # <<>> => writing

\* The caller's bytes reach the kernel in the order of the sends, none twice,
\* though some may be lost.
Position(b) == CHOOSE i \in 1..Len(accepted) : accepted[i] = b
WireInOrder ==
  \A i, j \in 1..Len(wire) :
    i < j /\ wire[i][2] > 0 /\ wire[j][2] > 0
      => Position(wire[i]) < Position(wire[j])

\* Nothing is written to a socket that onClose has closed.
NothingAfterClose == [][closed_ => wire' = wire]_vars

\* Until the kernel refuses some, what was taken on is on the wire or waits for
\* it, and nothing else is (onWrite and sendInLoop account for every byte).
NothingLost == ~refused => wire \o io_vec_list_ = accepted

\* When write_complete_cb_ is called, all that was taken on has been written,
\* which is what its name says.
CompletionIsTrue ==
  \A i \in 1..completed : \E j \in 1..Len(wire) : wire[j] = accepted[i]

\* It has been, until the kernel refuses bytes.
CompletionInTime == ~refused => CompletionIsTrue

\* The connection keeps the promise of an ordered channel (module OrderedChannel)
\* until the kernel refuses bytes: what goes out is what was taken on, in that
\* order, nothing goes out once closed_ is set, and write_complete_cb_ is called
\* when all of it is out (sendInLoop, onWrite, onClose).
Channel == INSTANCE OrderedChannel WITH
  delivered <- wire, confirmed <- completed, broken <- refused, able <- ~closed_
ImplementsChannel == Channel!Spec

\* The peer stops sending, so that the loop, which prefers reading, may write.
Quiet == <>[]~readable

\* Once the peer is quiet, what waits is written or dropped, so that a later send
\* is not queued for ever; and until the kernel refuses bytes a send is written
\* in the end, unless the connection is closed (send, runFunctions, onWrite, loop).
SentOrClosed ==
  Quiet =>
    /\ io_vec_list_ # <<>> ~> io_vec_list_ = <<>> \/ ~registered
    /\ \A c \in Call :
         c \notin unsent
           ~> \/ ~registered
              \/ refused
              \/ \A i \in 1..Size[c] : \E j \in 1..Len(wire) : wire[j] = <<c, i>>

=============================================================================
