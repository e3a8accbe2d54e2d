-------------------------- MODULE UdpSocketProofs --------------------------
(***************************************************************************)
(* Theorems about UdpSocket for any datagrams, lists, roles and bounds.    *)
(***************************************************************************)
EXTENDS UdpSocket, SequenceTheorems, TLAPS

Frame == {"connection", "close", "sent", "onWrite", "written", "message"}

Closes(s) == \E i \in 1..Len(s) : s[i] = "close"
Closing == Closes(calls)

\* onClose runs close_cb_ once: what is on the stack after it is another close_cb_
\* only if the socket was not closed_.
CloseInv ==
  /\ \A i, j \in 1..Len(calls) : calls[i] = "close" /\ calls[j] = "close" => i = j
  /\ Closing => closed_

\* The descriptor in the life of a socket that is connected or started once.
LifeInv ==
  /\ writing \subseteq watched /\ watched \subseteq open \cap events_
  /\ connected_ => role = "client"
  /\ connects = 0 => /\ AtLoop /\ ~closed_ /\ ~connected_
                     /\ fd_ = NoFd /\ open = {} /\ events_ = {}
  /\ connects = 1 => /\ open = {fd_} \ {NoFd}
                     /\ watched = open \/ Closing
                     /\ connected_ => ~closed_
                     /\ closed_ => open = {} \/ Closing
                     /\ role = "client" => /\ events_ = watched
                                           /\ closed_ => events_ = {}

\* onWrite's loop calls nobody while datagrams are left, and is only entered
\* with some.
OnWriteInv ==
  \A i \in 1..Len(calls) :
    calls[i] = "onWrite" => Len(calls) = 1 /\ buffer_list_ # <<>>

\* What waits is the end of what was taken.
WaitingIsLast ==
  /\ Len(buffer_list_) <= Len(taken)
  /\ \A i \in 1..Len(buffer_list_) :
       buffer_list_[i] = taken[Len(taken) - Len(buffer_list_) + i]

\* What is out is from before the end, or the first of what waits.
OutBeforeWaiting ==
  \A i \in 1..Len(wire) :
    \E k \in 1..Len(taken) :
      k <= Len(taken) - Len(buffer_list_) + 1 /\ taken[k] = wire[i]

DataInv == WaitingIsLast /\ OutBeforeWaiting /\ SentOnceInOrder

ControlInv == TypeOK /\ CloseInv /\ LifeInv /\ OnWriteInv
IInv == ControlInv /\ DataInv

LEMMA InitIInv == Init => IInv
<1> SUFFICES ASSUME Init PROVE IInv
  OBVIOUS
<1> USE UdpAssumption DEF Init
<1>1. TypeOK
  <2>1. /\ calls \in Seq(Frame) /\ buffer_list_ \in Seq(Datagram)
        /\ taken \in Seq(Datagram) /\ wire \in Seq(Datagram)
    BY EmptySeq
  <2>2. Len(taken) = 0
    BY EmptySeq
  <2>3. /\ {connected_, closed_, arrived, room, nested} \subseteq BOOLEAN
        /\ fd_ = NoFd /\ open = {} /\ events_ = {} /\ watched = {} /\ writing = {}
    OBVIOUS
  <2>4. completed \in 0..Len(taken) /\ connects \in 0..MaxConnects
    BY <2>2
  <2>5. role \in {"client", "server"} /\ unsent \subseteq Datagram
    OBVIOUS
  <2> QED BY <2>1, <2>3, <2>4, <2>5 DEF TypeOK, Frame
<1>2. CloseInv /\ LifeInv /\ OnWriteInv
  BY DEF CloseInv, LifeInv, OnWriteInv, Closing, Closes, AtLoop
<1>3. DataInv
  <2>1. Len(taken) = 0 /\ Len(wire) = 0 /\ Len(buffer_list_) = 0
    BY EmptySeq
  <2>2. WaitingIsLast /\ OutBeforeWaiting
    BY <2>1 DEF WaitingIsLast, OutBeforeWaiting
  <2>3. taken = wire \o buffer_list_
    BY ConcatEmptySeq
  <2> QED BY <2>1, <2>2, <2>3 DEF DataInv, SentOnceInOrder
<1> QED BY <1>1, <1>2, <1>3 DEF IInv, ControlInv

-----------------------------------------------------------------------------
(***************************************************************************)
(* The stack of callbacks and the life of the descriptor.                  *)
(***************************************************************************)
LEMMA TypeFacts ==
  ASSUME IInv
  PROVE  /\ calls \in Seq(Frame) /\ Len(calls) \in Nat
         /\ \A i \in 1..Len(calls) : calls[i] \in Frame
         /\ buffer_list_ \in Seq(Datagram) /\ Len(buffer_list_) \in Nat
         /\ taken \in Seq(Datagram) /\ Len(taken) \in Nat
         /\ wire \in Seq(Datagram) /\ Len(wire) \in Nat
         /\ connected_ \in BOOLEAN /\ closed_ \in BOOLEAN
         /\ fd_ \in Fd \cup {NoFd} /\ open \subseteq Fd /\ events_ \subseteq Fd
         /\ watched \subseteq Fd /\ writing \subseteq Fd
         /\ arrived \in BOOLEAN /\ room \in BOOLEAN /\ nested \in BOOLEAN
         /\ role \in {"client", "server"} /\ connects \in Nat
BY UdpAssumption DEF IInv, ControlInv, TypeOK, Frame

\* A list of datagrams is a sequence; one datagram is a list too.
LEMMA ListFacts ==
  ASSUME NEW list \in Seq(Datagram)
  PROVE  ToSet(list) \subseteq Datagram
BY DEF ToSet

\* A stack that a step may leave, in the words of the invariant.
Stack(s) ==
  /\ s \in Seq(Frame)
  /\ \A i, j \in 1..Len(s) : s[i] = "close" /\ s[j] = "close" => i = j
  /\ \A i \in 1..Len(s) : s[i] # "onWrite"

\* Pushing a callback other than close_cb_ or onWrite on what runs, or popping
\* one that is neither.
LEMMA PushFrame ==
  ASSUME NEW s, Stack(s), NEW frame \in Frame \ {"close", "onWrite"}
  PROVE  Stack(Append(s, frame)) /\ (Closes(Append(s, frame)) <=> Closes(s))
<1>1. /\ Append(s, frame) \in Seq(Frame) /\ Len(Append(s, frame)) = Len(s) + 1
      /\ Append(s, frame)[Len(s) + 1] = frame /\ Len(s) \in Nat
      /\ \A i \in 1..Len(s) : Append(s, frame)[i] = s[i]
  BY AppendProperties, LenProperties DEF Stack
<1> QED BY <1>1 DEF Stack, Closes

LEMMA CallsStack ==
  ASSUME IInv, calls = <<>> \/ Last(calls) # "onWrite"
  PROVE  Stack(calls)
<1>1. \A i \in 1..Len(calls) : calls[i] # "onWrite"
  BY TypeFacts, EmptySeq DEF IInv, ControlInv, OnWriteInv, Last
<1> QED BY <1>1, TypeFacts DEF IInv, ControlInv, CloseInv, Stack

LEMMA PopFrame ==
  ASSUME IInv, calls # <<>>
  PROVE  /\ Stack(Front(calls))
         /\ Last(calls) = "close" => ~Closes(Front(calls)) /\ Closing
         /\ Last(calls) # "close" => (Closes(Front(calls)) <=> Closing)
         /\ Last(calls) = "onWrite" => Front(calls) = <<>> /\ ~Closing
<1> DEFINE n == Len(calls)
<1>1. n \in Nat /\ n > 0 /\ n \in 1..n
  BY TypeFacts, EmptySeq
<1>2. /\ Front(calls) \in Seq(Frame) /\ Len(Front(calls)) = n - 1
      /\ \A i \in 1..(n - 1) : Front(calls)[i] = calls[i]
  <2>1. Front(calls) = SubSeq(calls, 1, n - 1)
    BY DEF Front
  <2>2. \A i \in 1..(n - 1) : calls[i] \in Frame
    BY <1>1, TypeFacts
  <2> HIDE DEF n
  <2> QED BY <1>1, <2>1, <2>2, TypeFacts, SubSeqProperties
<1>3. \A i \in 1..n : i \in 1..(n - 1) \/ i = n
  BY <1>1
<1>4. \A i \in 1..(n - 1) : i \in 1..n /\ i # n
  BY <1>1
<1>5. Last(calls) = calls[n]
  BY DEF Last
<1>6. \A i \in 1..n : calls[i] = "onWrite" => n = 1
  BY DEF IInv, ControlInv, OnWriteInv
<1>7. \A i, j \in 1..n : calls[i] = "close" /\ calls[j] = "close" => i = j
  BY DEF IInv, ControlInv, CloseInv
<1>8. Last(calls) = "onWrite" => Front(calls) = <<>> /\ ~Closing
  <2> SUFFICES ASSUME Last(calls) = "onWrite" PROVE Front(calls) = <<>> /\ ~Closing
    OBVIOUS
  <2>1. n = 1
    BY <1>1, <1>5, <1>6
  <2>2. Front(calls) = <<>>
    BY <1>2, <2>1, EmptySeq
  <2> QED BY <1>5, <2>1, <2>2 DEF Closing, Closes
<1> HIDE DEF n
<1>9. Closing <=> \E i \in 1..n : calls[i] = "close"
  BY DEF Closing, Closes, n
<1>10. Stack(Front(calls))
  BY <1>1, <1>2, <1>4, <1>6, <1>7 DEF Stack
<1>11. Closes(Front(calls)) <=> \E i \in 1..(n - 1) : calls[i] = "close"
  BY <1>2 DEF Closes
<1> QED BY <1>1, <1>3, <1>4, <1>5, <1>7, <1>8, <1>9, <1>10, <1>11

LEMMA CloseOnce ==
  ASSUME NEW s, Stack(s), ~Closes(s)
  PROVE  Stack(Append(s, "close")) /\ Closes(Append(s, "close"))
<1>1. /\ Append(s, "close") \in Seq(Frame) /\ Len(Append(s, "close")) = Len(s) + 1
      /\ Append(s, "close")[Len(s) + 1] = "close" /\ Len(s) \in Nat
      /\ \A i \in 1..Len(s) : Append(s, "close")[i] = s[i]
  BY AppendProperties, LenProperties DEF Frame, Stack
<1> QED BY <1>1 DEF Stack, Closes

-----------------------------------------------------------------------------
\* onClose of the client and of the server, up to the end of close_cb_.
LEMMA BeginCloseControl ==
  ASSUME IInv, NEW running, Stack(running), Closes(running) <=> Closing,
         connects # 0, BeginClose(running),
         UNCHANGED <<role, connects, fd_, open>>
  PROVE  /\ Stack(calls') /\ CloseInv' /\ LifeInv' /\ OnWriteInv'
         /\ connected_' \in BOOLEAN /\ closed_' \in BOOLEAN
         /\ events_' \subseteq Fd /\ watched' \subseteq Fd /\ writing' \subseteq Fd
<1>0. Closing => closed_
  BY DEF IInv, ControlInv, CloseInv
<1>1. CASE calls' = running /\ (closed_' <=> closed_)
  <2>1. \/ UNCHANGED <<connected_, table, writing>> /\ closed_' \in BOOLEAN
        \/ /\ connected_' = FALSE /\ RemoveEvent
           /\ closed_ /\ closed_' \in BOOLEAN /\ connected_
    BY <1>1, TypeFacts, AppendProperties DEF BeginClose, SocketClose
  <2>2. Closing' <=> Closing
    BY <1>1 DEF Closing
  <2>3. LifeInv'
    BY <1>1, <2>1, <2>2, TypeFacts DEF LifeInv, IInv, ControlInv, RemoveEvent, table
  <2> QED BY <1>0, <1>1, <2>1, <2>2, <2>3, TypeFacts
          DEF CloseInv, Stack, OnWriteInv, RemoveEvent, table
<1>2. CASE calls' = Append(running, "close") /\ ~closed_ /\ closed_' = TRUE
  <2>1. ~Closes(running)
    BY <1>0, <1>2
  <2>2. Stack(calls') /\ Closing'
    BY <1>2, <2>1, CloseOnce DEF Closing
  <2>3. \/ UNCHANGED <<connected_, table, writing>> /\ role = "server"
        \/ connected_' = FALSE /\ RemoveEvent
    BY <1>2, TypeFacts DEF BeginClose, SocketClose
  <2>4. LifeInv'
    <3>1. CASE UNCHANGED <<connected_, table, writing>> /\ role = "server"
      BY <1>2, <2>2, <3>1, TypeFacts DEF LifeInv, IInv, ControlInv, table
    <3>2. CASE connected_' = FALSE /\ RemoveEvent
      <4>1. /\ writing' \subseteq watched' /\ watched' \subseteq open \cap events_'
            /\ connects = 1 => /\ open = {fd_} \ {NoFd}
                               /\ events_ = watched => events_' = watched' /\ events_' = {}
        BY <3>2 DEF LifeInv, IInv, ControlInv, RemoveEvent
      <4> QED BY <1>2, <2>2, <3>2, <4>1 DEF LifeInv, IInv, ControlInv
    <3> QED BY <2>3, <3>1, <3>2
  <2> QED BY <1>2, <2>2, <2>3, <2>4, TypeFacts
          DEF CloseInv, Stack, OnWriteInv, RemoveEvent, table
<1>3. SocketClose(running) \/ (calls' = running /\ UNCHANGED closed_)
  BY DEF BeginClose
<1>4. CASE SocketClose(running) /\ closed_
  BY <1>1, <1>4 DEF SocketClose
<1>5. CASE SocketClose(running) /\ ~closed_
  BY <1>2, <1>5 DEF SocketClose
<1>6. CASE calls' = running /\ UNCHANGED closed_
  BY <1>1, <1>6
<1> QED BY <1>3, <1>4, <1>5, <1>6

-----------------------------------------------------------------------------
(***************************************************************************)
(* Every step keeps the part of the invariant that is about control.       *)
(***************************************************************************)

\* What TypeOK says of the data.
DataType ==
  /\ buffer_list_ \in Seq(Datagram)
  /\ unsent \subseteq Datagram
  /\ taken \in Seq(Datagram)
  /\ wire \in Seq(Datagram)
  /\ completed \in 0..Len(taken)

\* A step that leaves the socket's life alone, with the callbacks it leaves.
LEMMA SameLife ==
  ASSUME IInv, UNCHANGED lifecycle, DataType', connects # 0,
         {arrived', room', nested'} \subseteq BOOLEAN,
         writing' \subseteq writing \cup (watched \cap {fd_}),
         Stack(calls') \/ (calls' = <<"onWrite">> /\ buffer_list_' # <<>>),
         Closes(calls') <=> Closing
  PROVE  ControlInv'
<1>1. Len(<<"onWrite">>) = 1 /\ <<"onWrite">>[1] = "onWrite" /\ <<"onWrite">> \in Seq(Frame)
  BY DEF Frame
<1>2. calls' \in Seq(Frame)
  BY <1>1 DEF Stack
<1>3. TypeOK'
  BY <1>2, UdpAssumption DEF IInv, ControlInv, TypeOK, lifecycle, table, DataType, Frame
<1>4. CloseInv'
  BY <1>1 DEF IInv, ControlInv, CloseInv, Stack, lifecycle, Closing, Closes
<1>5. LifeInv'
  BY DEF IInv, ControlInv, LifeInv, lifecycle, table, Closing, AtLoop
<1>6. OnWriteInv'
  BY <1>1 DEF OnWriteInv, Stack, lifecycle
<1> QED BY <1>3, <1>4, <1>5, <1>6 DEF ControlInv

\* A step in which onClose begins.
LEMMA CloseControl ==
  ASSUME IInv, NEW running, Stack(running), Closes(running) <=> Closing,
         connects # 0, BeginClose(running), DataType',
         UNCHANGED <<role, connects, fd_, open, arrived, room, nested>>
  PROVE  ControlInv'
<1>1. /\ Stack(calls') /\ CloseInv' /\ LifeInv' /\ OnWriteInv'
      /\ connected_' \in BOOLEAN /\ closed_' \in BOOLEAN
      /\ events_' \subseteq Fd /\ watched' \subseteq Fd /\ writing' \subseteq Fd
  BY BeginCloseControl
<1>2. TypeOK'
  BY <1>1, UdpAssumption DEF IInv, ControlInv, TypeOK, DataType, Stack, Frame
<1> QED BY <1>1, <1>2 DEF ControlInv

\* The application runs in a socket that was connected or started.
LEMMA ApplicationFacts ==
  ASSUME IInv, Application
  PROVE  connects # 0 /\ Stack(calls)
BY CallsStack, UdpAssumption DEF Application, AtLoop, IInv, ControlInv, TypeOK, LifeInv

LEMMA SendType ==
  ASSUME IInv, NEW d \in Datagram, Send(d)
  PROVE  DataType'
<1>1. /\ taken' = Append(taken, d) /\ unsent' = unsent \ {d}
      /\ \/ wire' = wire
         \/ wire' = Append(wire, d)
      /\ \/ buffer_list_' = buffer_list_
         \/ buffer_list_' = <<d>>
         \/ buffer_list_' = Append(buffer_list_, d)
      /\ completed' = completed \/ completed' = Len(taken')
  BY DEF Send, SendInLoop
<1>2. /\ taken' \in Seq(Datagram) /\ Len(taken') = Len(taken) + 1 /\ Len(taken) \in Nat
      /\ wire' \in Seq(Datagram) /\ <<d>> \in Seq(Datagram)
      /\ buffer_list_' \in Seq(Datagram)
  <2>1. \A q \in Seq(Datagram) :
          Append(q, d) \in Seq(Datagram) /\ Len(Append(q, d)) = Len(q) + 1
    BY AppendProperties
  <2>2. <<d>> \in Seq(Datagram)
    OBVIOUS
  <2> QED BY <1>1, <2>1, <2>2, TypeFacts
<1>3. completed' \in 0..Len(taken')
  BY <1>1, <1>2 DEF IInv, ControlInv, TypeOK
<1> QED BY <1>1, <1>2, <1>3 DEF DataType, IInv, ControlInv, TypeOK

LEMMA SendControl ==
  ASSUME IInv, NEW d \in Datagram, Send(d)
  PROVE  ControlInv'
<1>1. connects # 0 /\ Stack(calls) /\ DataType'
  BY ApplicationFacts, SendType DEF Send
<1>2. calls' = calls \/ calls' = Append(calls, "sent")
  BY DEF Send, SendInLoop
<1>3. Stack(calls') /\ (Closes(calls') <=> Closing)
  BY <1>1, <1>2, PushFrame DEF Frame, Closing
<1>4. /\ {arrived', room', nested'} \subseteq BOOLEAN
      /\ writing' \subseteq writing \cup (watched \cap {fd_})
  BY TypeFacts DEF Send, SendInLoop, EnableWriting, SendsNested
<1> QED BY <1>1, <1>3, <1>4, SameLife DEF Send

LEMMA SendListControl ==
  ASSUME IInv, NEW list \in Lists, SendList(list)
  PROVE  ControlInv'
<1>1. connects # 0 /\ Stack(calls) /\ list \in Seq(Datagram)
  BY ApplicationFacts, UdpAssumption DEF SendList
<1>2. /\ taken' \in Seq(Datagram) /\ Len(taken') = Len(taken) + Len(list)
      /\ Len(taken) \in Nat /\ Len(list) \in Nat
      /\ buffer_list_' \in Seq(Datagram)
  BY <1>1, TypeFacts, ConcatProperties DEF SendList
<1>3. DataType'
  <2>1. completed \in 0..Len(taken)
    BY DEF IInv, ControlInv, TypeOK
  <2>2. completed' \in 0..Len(taken')
    BY <1>2, <2>1 DEF SendList
  <2> QED BY <1>2, <2>2 DEF SendList, DataType, IInv, ControlInv, TypeOK
<1>4. /\ {arrived', room', nested'} \subseteq BOOLEAN
      /\ writing' \subseteq writing \cup (watched \cap {fd_})
  BY TypeFacts DEF SendList, EnableWriting, SendsNested, kernel
<1> QED BY <1>1, <1>3, <1>4, SameLife DEF SendList, Closing

LEMMA OnWriteControl ==
  ASSUME IInv, OnWrite
  PROVE  ControlInv'
<1>1. connects # 0 /\ ~Closing /\ calls = <<>>
  BY TypeFacts, EmptySeq
     DEF OnWrite, AtLoop, IInv, ControlInv, LifeInv, Closing, Closes
<1>2. DataType'
  <2>1. completed \in 0..Len(taken) /\ Len(taken) \in 0..Len(taken)
    BY TypeFacts DEF IInv, ControlInv, TypeOK
  <2> QED BY <2>1 DEF OnWrite, DataType, IInv, ControlInv, TypeOK
<1>3. /\ {arrived', room', nested'} \subseteq BOOLEAN
      /\ writing' \subseteq writing \cup (watched \cap {fd_})
  BY TypeFacts DEF OnWrite, EnableWriting, kernel
<1>4. Stack(<<"sent">>) /\ ~Closes(<<"sent">>) /\ ~Closes(<<"onWrite">>)
  BY DEF Stack, Closes, Frame
<1>5. \/ calls' = <<"sent">>
      \/ calls' = <<"onWrite">> /\ buffer_list_' # <<>>
  BY DEF OnWrite
<1> QED BY <1>1, <1>2, <1>3, <1>4, <1>5, SameLife DEF OnWrite

LEMMA SendFrontFacts ==
  ASSUME IInv, SendFront
  PROVE  /\ calls = <<"onWrite">> /\ Front(calls) = <<>> /\ ~Closing /\ Stack(<<>>)
         /\ buffer_list_ # <<>> /\ connects # 0
         /\ Head(buffer_list_) \in Datagram
<1>1. calls # <<>> /\ Last(calls) = "onWrite"
  BY DEF SendFront, Running
<1>2. Len(calls) \in 1..Len(calls)
  BY <1>1, TypeFacts, EmptySeq
<1>3. Len(calls) = 1 /\ buffer_list_ # <<>> /\ calls[1] = "onWrite"
  BY <1>1, <1>2 DEF Last, IInv, ControlInv, OnWriteInv
<1>4. calls = <<"onWrite">>
  BY <1>3, TypeFacts
<1>5. Stack(<<>>)
  BY EmptySeq DEF Stack
<1>6. connects # 0
  BY <1>1 DEF IInv, ControlInv, LifeInv, AtLoop
<1> QED BY <1>1, <1>3, <1>4, <1>5, <1>6, PopFrame, TypeFacts, HeadTailProperties

LEMMA SendFrontControl ==
  ASSUME IInv, SendFront
  PROVE  ControlInv'
<1> USE SendFrontFacts
<1>1. /\ buffer_list_' = buffer_list_ \/ buffer_list_' = Tail(buffer_list_)
      /\ wire' = wire \/ wire' = Append(wire, Head(buffer_list_))
      /\ completed' = completed \/ completed' = Len(taken)
      /\ UNCHANGED <<role, connects, fd_, open, unsent, taken, nested, arrived>>
  BY DEF SendFront
<1>2. Tail(buffer_list_) \in Seq(Datagram)
  BY TypeFacts, HeadTailProperties
<1>3. DataType'
  <2>1. completed \in 0..Len(taken) /\ Len(taken) \in 0..Len(taken)
    BY TypeFacts DEF IInv, ControlInv, TypeOK
  <2>2. Append(wire, Head(buffer_list_)) \in Seq(Datagram)
    BY TypeFacts, AppendProperties
  <2> HIDE SendFrontFacts
  <2>3. buffer_list_' \in Seq(Datagram) /\ wire' \in Seq(Datagram)
    BY <1>1, <1>2, <2>2, TypeFacts
  <2>4. completed' \in 0..Len(taken')
    BY <1>1, <2>1
  <2> QED BY <1>1, <2>3, <2>4 DEF DataType, IInv, ControlInv, TypeOK
<1>4. CASE BeginClose(Front(calls)) /\ UNCHANGED room
  BY <1>1, <1>3, <1>4, CloseControl DEF Closes
<1>5. CASE /\ UNCHANGED <<connected_, closed_, table, writing>>
           /\ room' \in BOOLEAN
           /\ \/ calls' = calls /\ buffer_list_' # <<>>
              \/ calls' = Front(calls)
              \/ calls' = Append(Front(calls), "written")
  <2>1. UNCHANGED lifecycle
    BY <1>1, <1>5 DEF lifecycle
  <2>2. /\ {arrived', room', nested'} \subseteq BOOLEAN
      /\ writing' \subseteq writing \cup (watched \cap {fd_})
    BY <1>1, <1>5, TypeFacts
  <2>3. /\ Stack(<<>>) /\ ~Closes(<<>>) /\ ~Closes(<<"onWrite">>)
        /\ Stack(Append(<<>>, "written")) /\ ~Closes(Append(<<>>, "written"))
    <3>1. Stack(<<>>) /\ ~Closes(<<>>) /\ "written" \in Frame \ {"close", "onWrite"}
      BY DEF Closes, Frame
    <3>2. ~Closes(<<"onWrite">>)
      BY DEF Closes
    <3> QED BY <3>1, <3>2, PushFrame
  <2> QED BY <1>3, <1>5, <2>1, <2>2, <2>3, SameLife
<1> QED BY <1>4, <1>5, TypeFacts DEF SendFront

\* What opening a socket, or failing to, does to the numbers.
LEMMA OpensLife ==
  ASSUME IInv, Opens \/ OpenFails
  PROVE  /\ fd_' \in Fd \cup {NoFd} /\ open' \subseteq Fd /\ events_' \subseteq Fd
         /\ writing' \subseteq watched' /\ watched' \subseteq open' \cap events_'
         /\ connects = 0 =>
              open' = {fd_'} \ {NoFd} /\ watched' = open' /\ events_' = open'
<1>1. NoFd \notin Fd
  BY DEF NoFd, Fd
<1>2. writing \subseteq watched /\ watched \subseteq open \cap events_
      /\ (connects = 0 => open = {} /\ events_ = {})
  BY DEF IInv, ControlInv, LifeInv
<1>3. CASE Opens
  BY <1>1, <1>2, <1>3, TypeFacts DEF Opens, AddEvent, table
<1>4. CASE OpenFails
  BY <1>1, <1>2, <1>4, TypeFacts DEF OpenFails, table
<1> QED BY <1>3, <1>4

LEMMA OpenControl ==
  ASSUME IInv, Connect \/ StartServer
  PROVE  ControlInv'
<1>1. /\ connects' = connects + 1 /\ connects' <= MaxConnects
      /\ Opens \/ OpenFails
      /\ UNCHANGED <<role, closed_, sending, kernel>>
      /\ calls' = calls \/ calls' = Append(calls, "connection")
      /\ connected_' = connected_ \/ (connected_' = TRUE /\ role = "client")
  <2>1. connects \in Nat /\ MaxConnects \in Nat
    BY TypeFacts, UdpAssumption
  <2> QED BY <2>1 DEF Connect, StartServer
<1>2. calls = <<>> \/ Last(calls) # "onWrite"
  BY DEF Connect, StartServer, Application, AtLoop
<1>3. Stack(calls') /\ (Closing' <=> Closing)
  BY <1>1, <1>2, CallsStack, PushFrame DEF Frame, Closing
<1>4. connects' \in 0..MaxConnects /\ connects' # 0
  BY <1>1, TypeFacts, UdpAssumption
<1>5. TypeOK'
  BY <1>1, <1>3, <1>4, OpensLife, TypeFacts
     DEF IInv, ControlInv, TypeOK, sending, kernel, Stack, Frame
<1>6. CloseInv' /\ OnWriteInv'
  BY <1>1, <1>3 DEF IInv, ControlInv, CloseInv, OnWriteInv, Stack
<1>7. connects' = 1 => connects = 0 /\ ~closed_'
  BY <1>1, TypeFacts DEF IInv, ControlInv, LifeInv
<1>8. LifeInv'
  BY <1>1, <1>4, <1>7, OpensLife DEF IInv, ControlInv, LifeInv
<1> QED BY <1>5, <1>6, <1>8 DEF ControlInv

LEMMA ReturnControl ==
  ASSUME IInv, Return
  PROVE  ControlInv'
<1>1. /\ calls # <<>> /\ calls' = Front(calls) /\ connects # 0
      /\ UNCHANGED <<role, connects, connected_, closed_, sending, kernel>>
  BY DEF Return, AtLoop, IInv, ControlInv, LifeInv
<1>2. DataType'
  BY <1>1 DEF sending, DataType, IInv, ControlInv, TypeOK
<1>3. CASE Last(calls) # "close"
  <2>1. /\ UNCHANGED <<fd_, open, table>>
        /\ writing' \subseteq writing \cup (watched \cap {fd_})
    BY <1>3 DEF Return, EnableWriting
  <2>2. UNCHANGED lifecycle
    BY <1>1, <2>1 DEF lifecycle
  <2>3. /\ {arrived', room', nested'} \subseteq BOOLEAN
        /\ writing' \subseteq writing \cup (watched \cap {fd_})
    BY <1>1, <2>1, TypeFacts DEF sending, kernel
  <2> QED BY <1>1, <1>2, <1>3, <2>2, <2>3, PopFrame, SameLife
<1>4. CASE Last(calls) = "close"
  <2>1. CloseDescriptor
    BY <1>4 DEF Return
  <2>2. Stack(calls') /\ ~Closing' /\ closed_
    BY <1>1, <1>4, PopFrame DEF IInv, ControlInv, CloseInv, Closing
  <2>3. TypeOK'
    BY <1>1, <1>2, <2>1, <2>2
       DEF IInv, ControlInv, TypeOK, DataType, Stack, Frame, kernel, sending,
           CloseDescriptor
  <2>4. CloseInv' /\ OnWriteInv'
    BY <2>2 DEF CloseInv, OnWriteInv, Stack
  <2>5. LifeInv'
    <3>1. /\ writing' \subseteq watched' /\ watched' \subseteq open' \cap events_'
          /\ connects = 1 => open' = {} /\ watched' = {} /\ fd_' = NoFd
          /\ events_ = {} => events_' = {} /\ watched' = {}
      BY <2>1 DEF IInv, ControlInv, LifeInv, CloseDescriptor
    <3>2. connects' = connects /\ events_' = events_
      BY <1>1, <2>1 DEF CloseDescriptor
    <3> QED BY <1>1, <2>2, <3>1, <3>2, TypeFacts DEF IInv, ControlInv, LifeInv
  <2> QED BY <2>3, <2>4, <2>5 DEF ControlInv
<1> QED BY <1>3, <1>4

LEMMA OtherControl ==
  ASSUME IInv, OnClose \/ OnRead \/ Arrive \/ MakeRoom \/ UNCHANGED vars
  PROVE  ControlInv' /\ UNCHANGED sending
<1>1. UNCHANGED sending
  BY DEF OnClose, OnRead, Arrive, MakeRoom, vars
<1>2. DataType'
  BY <1>1 DEF sending, DataType, IInv, ControlInv, TypeOK
<1>3. CASE OnClose
  <2>1. calls = <<>> \/ Last(calls) # "onWrite"
    BY <1>3 DEF OnClose, Running
  <2>2. connects # 0
    BY <1>3, TypeFacts DEF OnClose, IInv, ControlInv, LifeInv
  <2> QED BY <1>1, <1>2, <1>3, <2>1, <2>2, CallsStack, CloseControl
          DEF OnClose, Closing, sending, kernel
<1>4. CASE OnRead
  <2>1. connects # 0 /\ calls = <<>> /\ calls' = <<"message">>
    BY <1>4, TypeFacts DEF OnRead, AtLoop, IInv, ControlInv, LifeInv
  <2>2. Stack(<<"message">>) /\ ~Closes(<<"message">>) /\ ~Closes(<<>>)
    BY DEF Stack, Closes, Frame
  <2>3. /\ {arrived', room', nested'} \subseteq BOOLEAN
        /\ writing' \subseteq writing \cup (watched \cap {fd_})
    BY <1>4, TypeFacts DEF OnRead, sending
  <2> QED BY <1>1, <1>2, <1>4, <2>1, <2>2, <2>3, SameLife DEF OnRead, Closing
<1>5. CASE Arrive \/ MakeRoom \/ UNCHANGED vars
  <2>1. UNCHANGED <<lifecycle, writing, calls, sending>>
    BY <1>5 DEF Arrive, MakeRoom, vars
  <2>2. arrived' \in BOOLEAN /\ room' \in BOOLEAN
    BY <1>5, TypeFacts DEF Arrive, MakeRoom, vars, kernel
  <2> QED BY <1>1, <2>1, <2>2
          DEF lifecycle, table, sending, IInv, ControlInv, TypeOK, CloseInv, LifeInv,
              OnWriteInv, Closing, Closes, AtLoop
<1> QED BY <1>1, <1>3, <1>4, <1>5

-----------------------------------------------------------------------------
(***************************************************************************)
(* What was taken, what waits and what is out.                             *)
(***************************************************************************)
OutInOrder ==
  \A i, j \in 1..Len(wire) :
    i < j => \E k, l \in 1..Len(taken) :
               k <= l /\ taken[k] = wire[i] /\ taken[l] = wire[j]
OutOnce == ToSet(taken) \cap Empty = {} => taken = wire \o buffer_list_

LEMMA DataParts ==
  DataInv <=> WaitingIsLast /\ OutBeforeWaiting /\ OutInOrder /\ OutOnce
BY DEF DataInv, SentOnceInOrder, OutInOrder, OutOnce

LEMMA ToSetGrows ==
  ASSUME NEW s \in Seq(Datagram), NEW t \in Seq(Datagram)
  PROVE  ToSet(s) \subseteq ToSet(s \o t) /\ ToSet(t) \subseteq ToSet(s \o t)
<1>1. /\ Len(s \o t) = Len(s) + Len(t) /\ Len(s) \in Nat /\ Len(t) \in Nat
      /\ \A i \in 1..Len(s) : i \in 1..Len(s \o t) /\ (s \o t)[i] = s[i]
      /\ \A i \in 1..Len(t) : Len(s) + i \in 1..Len(s \o t)
                                /\ (s \o t)[Len(s) + i] = t[i]
  BY ConcatProperties, LenProperties
<1>2. /\ DOMAIN s = 1..Len(s) /\ DOMAIN t = 1..Len(t)
      /\ DOMAIN (s \o t) = 1..Len(s \o t)
  BY LenProperties, ConcatProperties
<1> QED BY <1>1, <1>2 DEF ToSet

LEMMA DatagramsConcat ==
  ASSUME NEW s \in Seq(Datagram), NEW t \in Seq(Datagram), NEW u \in Seq(Datagram)
  PROVE  (s \o t) \o u = s \o (t \o u)
BY ConcatAssociative

\* m more datagrams are taken and wait, behind the n and the b there were.
LEMMA PlacesBehind ==
  ASSUME IInv, wire' = wire, NEW n \in Nat, NEW b \in Nat, NEW m \in Nat,
         Len(taken) = n, Len(buffer_list_) = b,
         Len(taken') = n + m, Len(buffer_list_') = b + m,
         \A i \in 1..n : taken'[i] = taken[i],
         \A i \in 1..b : buffer_list_'[i] = buffer_list_[i],
         \A i \in 1..m : taken'[n + i] = buffer_list_'[b + i]
  PROVE  WaitingIsLast' /\ OutBeforeWaiting' /\ OutInOrder'
<1>1. b <= n /\ \A i \in 1..b : buffer_list_[i] = taken[n - b + i]
  BY DEF IInv, DataInv, WaitingIsLast
<1>2. WaitingIsLast'
  <2>1. ASSUME NEW i \in 1..(b + m)
        PROVE  buffer_list_'[i] = taken'[n - b + i]
    <3>1. CASE i <= b
      <4>1. i \in 1..b /\ n - b + i \in 1..n
        BY <1>1, <3>1
      <4> QED BY <1>1, <4>1
    <3>2. CASE ~(i <= b)
      <4>1. i - b \in 1..m /\ b + (i - b) = i /\ n + (i - b) = n - b + i
        BY <3>2
      <4> QED BY <4>1
    <3> QED BY <3>1, <3>2
  <2>2. (n + m) - (b + m) = n - b /\ b + m <= n + m
    BY <1>1
  <2> QED BY <2>1, <2>2 DEF WaitingIsLast
<1>3. OutBeforeWaiting'
  <2>1. ASSUME NEW i \in 1..Len(wire)
        PROVE  \E k \in 1..(n + m) : k <= (n + m) - (b + m) + 1 /\ taken'[k] = wire[i]
    <3>1. PICK k \in 1..n : k <= n - b + 1 /\ taken[k] = wire[i]
      BY DEF IInv, DataInv, OutBeforeWaiting
    <3>2. k \in 1..(n + m) /\ k <= (n + m) - (b + m) + 1 /\ taken'[k] = wire[i]
      BY <3>1
    <3> QED BY <3>2
  <2> QED BY <2>1 DEF OutBeforeWaiting
<1>4. OutInOrder'
  <2>1. OutInOrder
    BY DataParts DEF IInv
  <2>2. ASSUME NEW i \in 1..Len(wire), NEW j \in 1..Len(wire), i < j
        PROVE  \E k, l \in 1..(n + m) :
                 k <= l /\ taken'[k] = wire[i] /\ taken'[l] = wire[j]
    <3>1. PICK k \in 1..n, l \in 1..n : k <= l /\ taken[k] = wire[i] /\ taken[l] = wire[j]
      BY <2>1, <2>2 DEF OutInOrder
    <3>2. k \in 1..(n + m) /\ l \in 1..(n + m)
      OBVIOUS
    <3> QED BY <3>1, <3>2
  <2> QED BY <2>2, SMTT(30) DEF OutInOrder
<1> QED BY <1>2, <1>3, <1>4

\* What sendInLoop puts behind what waits.
LEMMA WaitBehind ==
  ASSUME IInv, NEW s \in Seq(Datagram), taken' = taken \o s,
         buffer_list_' = buffer_list_ \o s, wire' = wire
  PROVE  DataInv'
<1>1. /\ Len(taken') = Len(taken) + Len(s)
      /\ Len(buffer_list_') = Len(buffer_list_) + Len(s)
      /\ \A i \in 1..Len(taken) : taken'[i] = taken[i]
      /\ \A i \in 1..Len(buffer_list_) : buffer_list_'[i] = buffer_list_[i]
      /\ \A i \in 1..Len(s) :
           taken'[Len(taken) + i] = buffer_list_'[Len(buffer_list_) + i]
  BY TypeFacts, ConcatProperties, LenProperties
<1>2. Len(taken) \in Nat /\ Len(buffer_list_) \in Nat /\ Len(s) \in Nat
  BY TypeFacts, LenProperties
<1>3. WaitingIsLast' /\ OutBeforeWaiting' /\ OutInOrder'
  BY <1>1, <1>2, PlacesBehind
<1>4. OutOnce'
  <2>1. ToSet(taken) \subseteq ToSet(taken')
    BY TypeFacts, ToSetGrows
  <2>2. (wire \o buffer_list_) \o s = wire \o (buffer_list_ \o s)
    <3>1. wire \in Seq(Datagram) /\ buffer_list_ \in Seq(Datagram)
      BY TypeFacts
    <3> QED BY <3>1, DatagramsConcat
  <2>3. OutOnce
    BY DataParts DEF IInv
  <2> SUFFICES ASSUME ToSet(taken') \cap Empty = {}
               PROVE  taken' = wire' \o buffer_list_'
    BY DEF OutOnce
  <2>4. taken = wire \o buffer_list_
    BY <2>1, <2>3 DEF OutOnce
  <2> QED BY <2>2, <2>4
<1> QED BY <1>3, <1>4 DEF DataInv, SentOnceInOrder, OutInOrder, OutOnce

\* What goes out last was taken at place p, and what was out before it
\* nowhere behind p.
LEMMA OutLast ==
  ASSUME IInv, NEW d, NEW w \in Nat, Len(wire) = w, Len(wire') = w + 1,
         wire'[w + 1] = d, \A i \in 1..w : wire'[i] = wire[i],
         NEW N \in Nat, Len(taken') = N, NEW p \in 1..N, taken'[p] = d,
         \A i \in 1..Len(taken) : i \in 1..N /\ taken'[i] = taken[i],
         \A i \in 1..w : \E k \in 1..N : k <= p /\ taken'[k] = wire[i],
         NEW b \in Nat, Len(buffer_list_') = b, p <= N - b + 1
  PROVE  OutBeforeWaiting' /\ OutInOrder'
<1>1. \A i \in 1..(w + 1) : \E k \in 1..N : k <= p /\ taken'[k] = wire'[i]
  <2> TAKE i \in 1..(w + 1)
  <2>1. CASE i = w + 1
    BY <2>1
  <2>2. CASE i # w + 1
    <3>1. i \in 1..w
      BY <2>2
    <3> QED BY <3>1
  <2> QED BY <2>1, <2>2
<1>2. OutBeforeWaiting'
  <2>1. \A i \in 1..(w + 1) : \E k \in 1..N : k <= N - b + 1 /\ taken'[k] = wire'[i]
    BY <1>1
  <2> QED BY <2>1 DEF OutBeforeWaiting
<1>3. ASSUME NEW i \in 1..(w + 1), NEW j \in 1..(w + 1), i < j
      PROVE  \E k, l \in 1..N : k <= l /\ taken'[k] = wire'[i] /\ taken'[l] = wire'[j]
  <2>1. CASE j = w + 1
    <3>1. PICK k \in 1..N : k <= p /\ taken'[k] = wire'[i]
      BY <1>1
    <3> QED BY <2>1, <3>1
  <2>2. CASE j # w + 1
    <3>1. i \in 1..w /\ j \in 1..w
      BY <1>3, <2>2
    <3>2. OutInOrder
      BY DataParts DEF IInv
    <3>3. PICK k \in 1..Len(taken), l \in 1..Len(taken) :
            k <= l /\ taken[k] = wire[i] /\ taken[l] = wire[j]
      BY <1>3, <3>1, <3>2 DEF OutInOrder
    <3> QED BY <3>1, <3>3
  <2> QED BY <2>1, <2>2
<1>4. OutInOrder'
  BY <1>3 DEF OutInOrder
<1> QED BY <1>2, <1>4

LEMMA AppendFacts ==
  ASSUME NEW s \in Seq(Datagram), NEW d \in Datagram
  PROVE  /\ <<d>> \in Seq(Datagram) /\ s \o <<d>> = Append(s, d)
         /\ Append(s, d) \in Seq(Datagram)
         /\ Len(Append(s, d)) = Len(s) + 1 /\ Append(s, d)[Len(s) + 1] = d
         /\ \A i \in 1..Len(s) : Append(s, d)[i] = s[i]
         /\ d \in ToSet(Append(s, d)) /\ ToSet(s) \subseteq ToSet(Append(s, d))
         /\ Len(s) \in Nat
<1>1. <<d>> \in Seq(Datagram) /\ s \o <<d>> = Append(s, d)
  BY AppendIsConcat
<1>2. ToSet(s) \subseteq ToSet(Append(s, d)) /\ ToSet(<<d>>) \subseteq ToSet(Append(s, d))
  BY <1>1, ToSetGrows
<1>3. d \in ToSet(<<d>>)
  BY DEF ToSet
<1> QED BY <1>1, <1>2, <1>3, AppendProperties, LenProperties

\* sendInLoop hands a datagram to sendto, none waiting; only an empty one stays.
LEMMA SendAtOnce ==
  ASSUME IInv, NEW d \in Datagram, buffer_list_ = <<>>,
         taken' = Append(taken, d), wire' = Append(wire, d),
         buffer_list_' = <<>> \/ (d \in Empty /\ buffer_list_' = <<d>>)
  PROVE  DataInv'
<1> DEFINE n == Len(taken)
           w == Len(wire)
<1>1. /\ n \in Nat /\ Len(taken') = n + 1 /\ taken'[n + 1] = d
      /\ \A i \in 1..n : i \in 1..(n + 1) /\ taken'[i] = taken[i]
      /\ w \in Nat /\ Len(wire') = w + 1 /\ wire'[w + 1] = d
      /\ \A i \in 1..w : wire'[i] = wire[i]
      /\ d \in ToSet(taken') /\ ToSet(taken) \subseteq ToSet(taken')
  BY TypeFacts, AppendFacts
<1>2. /\ Len(buffer_list_') \in {0, 1}
      /\ Len(buffer_list_') = 1 => buffer_list_'[1] = d
  BY EmptySeq
<1>3. \A i \in 1..w : \E k \in 1..(n + 1) : k <= n + 1 /\ taken'[k] = wire[i]
  <2>1. \A i \in 1..w : \E k \in 1..n : taken[k] = wire[i]
    BY DEF IInv, DataInv, OutBeforeWaiting
  <2> HIDE DEF n, w
  <2>2. ASSUME NEW i \in 1..w
        PROVE  \E k \in 1..(n + 1) : k <= n + 1 /\ taken'[k] = wire[i]
    <3>1. PICK k \in 1..n : taken[k] = wire[i]
      BY <2>1
    <3>2. k \in 1..(n + 1) /\ k <= n + 1 /\ taken'[k] = wire[i]
      BY <1>1, <3>1
    <3> QED BY <3>2
  <2> QED BY <2>2
<1>4. OutOnce'
  <2>1. OutOnce
    BY DataParts DEF IInv
  <2>2. (wire \o <<>> = wire) /\ (wire' \o <<>> = wire')
    BY TypeFacts, AppendFacts, ConcatEmptySeq
  <2> QED BY <1>1, <2>1, <2>2 DEF OutOnce
<1> HIDE DEF n, w
<1>5. OutBeforeWaiting' /\ OutInOrder'
  <2>1. n + 1 \in Nat /\ n + 1 \in 1..(n + 1)
    BY <1>1
  <2>2. PICK b \in {0, 1} : Len(buffer_list_') = b
    BY <1>2
  <2>3. b \in Nat /\ n + 1 <= (n + 1) - b + 1
    BY <1>1, <2>2
  <2>4. \A i \in 1..Len(taken) : i \in 1..(n + 1) /\ taken'[i] = taken[i]
    BY <1>1 DEF n
  <2>5. Len(wire) = w
    BY DEF w
  <2> QED BY <1>1, <1>3, <2>1, <2>2, <2>3, <2>4, <2>5, OutLast, Z3T(30)
<1>6. WaitingIsLast'
  <2>1. CASE Len(buffer_list_') = 0
    BY <1>1, <2>1 DEF WaitingIsLast
  <2>2. CASE Len(buffer_list_') = 1
    <3>1. (n + 1) - 1 + 1 = n + 1 /\ 1 <= n + 1
      BY <1>1
    <3>2. \A i \in 1..1 : i = 1
      OBVIOUS
    <3> QED BY <1>1, <1>2, <2>2, <3>1, <3>2 DEF WaitingIsLast
  <2> QED BY <1>2, <2>1, <2>2
<1> QED BY <1>4, <1>5, <1>6 DEF DataInv, SentOnceInOrder, OutInOrder, OutOnce

LEMMA SendData ==
  ASSUME IInv, NEW d \in Datagram, Send(d)
  PROVE  DataInv'
<1>1. taken' = Append(taken, d)
  BY DEF Send, SendInLoop
<1>2. \/ /\ buffer_list_ = <<>> /\ wire' = Append(wire, d)
         /\ buffer_list_' = <<>> \/ (d \in Empty /\ buffer_list_' = <<d>>)
      \/ wire' = wire /\ buffer_list_' = Append(buffer_list_, d)
  BY DEF Send, SendInLoop
<1>3. CASE wire' = wire /\ buffer_list_' = Append(buffer_list_, d)
  <2>1. taken' = taken \o <<d>> /\ buffer_list_' = buffer_list_ \o <<d>>
    BY <1>1, <1>3, TypeFacts, AppendFacts
  <2> QED BY <1>3, <2>1, WaitBehind, AppendFacts, TypeFacts
<1> QED BY <1>1, <1>2, <1>3, SendAtOnce

LEMMA SendFrontData ==
  ASSUME IInv, SendFront
  PROVE  DataInv'
<1> DEFINE d == Head(buffer_list_)
           n == Len(taken)
           b == Len(buffer_list_)
           w == Len(wire)
<1>1. CASE UNCHANGED <<buffer_list_, wire>>
  <2>1. taken' = taken
    BY DEF SendFront
  <2> QED BY <1>1, <2>1
      DEF IInv, DataInv, WaitingIsLast, OutBeforeWaiting, SentOnceInOrder
<1>2. CASE /\ wire' = Append(wire, d) /\ taken' = taken
           /\ buffer_list_' = IF d \in Empty THEN buffer_list_ ELSE Tail(buffer_list_)
  <2>1. /\ n \in Nat /\ w \in Nat /\ Len(wire') = w + 1 /\ wire'[w + 1] = d
        /\ \A i \in 1..w : wire'[i] = wire[i]
    BY <1>2, TypeFacts, AppendFacts, SendFrontFacts
  <2>2. /\ b \in Nat /\ b >= 1 /\ b <= n
        /\ \A i \in 1..b : buffer_list_[i] = taken[n - b + i]
    BY TypeFacts, EmptySeq, SendFrontFacts DEF IInv, DataInv, WaitingIsLast
  <2>3. d = buffer_list_[1] /\ Tail(buffer_list_) \in Seq(Datagram)
        /\ Len(Tail(buffer_list_)) = b - 1
        /\ \A i \in 1..(b - 1) : Tail(buffer_list_)[i] = buffer_list_[i + 1]
    BY TypeFacts, SendFrontFacts, HeadTailProperties
  <2>4. taken[n - b + 1] = d
    BY <2>2, <2>3
  <2>5. \A i \in 1..w : \E k \in 1..n : k <= n - b + 1 /\ taken[k] = wire[i]
    BY DEF IInv, DataInv, OutBeforeWaiting
  <2>6. OutOnce'
    <3>1. OutOnce
      BY DataParts DEF IInv
    <3>2. d \in Empty => ToSet(taken) \cap Empty # {}
      <4>1. n - b + 1 \in DOMAIN taken
        BY <2>2, TypeFacts, LenProperties
      <4> QED BY <2>4, <4>1 DEF ToSet
    <3>3. wire \o buffer_list_ = Append(wire, d) \o Tail(buffer_list_)
      <4>1. <<d>> \in Seq(Datagram) /\ <<d>> \o Tail(buffer_list_) = buffer_list_
        BY TypeFacts, SendFrontFacts
      <4>2. (wire \o <<d>>) \o Tail(buffer_list_) = wire \o (<<d>> \o Tail(buffer_list_))
        BY <2>3, <4>1, TypeFacts, DatagramsConcat
      <4>3. wire \o <<d>> = Append(wire, d)
        BY TypeFacts, SendFrontFacts, AppendFacts
      <4> HIDE DEF d
      <4> QED BY <4>1, <4>2, <4>3
    <3> HIDE DEF d
    <3> QED BY <1>2, <3>1, <3>2, <3>3 DEF OutOnce
  <2> HIDE DEF d, n, b, w
  <2>7. PICK c \in {b, b - 1} :
          /\ Len(buffer_list_') = c
          /\ \A i \in 1..c : buffer_list_'[i] = buffer_list_[b - c + i]
    <3>1. CASE d \in Empty
      BY <1>2, <2>2, <3>1 DEF b
    <3>2. CASE d \notin Empty
      <4>1. \A i \in 1..(b - 1) : i + 1 = b - (b - 1) + i
        BY <2>2
      <4> QED BY <1>2, <2>3, <3>2, <4>1
    <3> QED BY <3>1, <3>2
  <2>8. WaitingIsLast'
    <3>1. \A i \in 1..c : b - c + i \in 1..b /\ n - b + (b - c + i) = n - c + i
      <4>1. CASE c = b
        BY <2>1, <2>2, <4>1
      <4>2. CASE c = b - 1
        BY <2>1, <2>2, <4>2
      <4> QED BY <4>1, <4>2
    <3>2. \A i \in 1..c : buffer_list_'[i] = taken[n - c + i]
      BY <2>2, <2>7, <3>1
    <3>3. c <= n
      BY <2>1, <2>2
    <3> QED BY <1>2, <2>7, <3>2, <3>3 DEF WaitingIsLast, n
  <2>9. OutBeforeWaiting' /\ OutInOrder'
    <3>1. n - b + 1 \in 1..n /\ c \in Nat /\ n - b + 1 <= n - c + 1
      BY <2>1, <2>2
    <3>2. Len(taken') = n /\ Len(wire) = w /\ taken'[n - b + 1] = d
      BY <1>2, <2>4 DEF n, w
    <3>3. \A i \in 1..Len(taken) : i \in 1..n /\ taken'[i] = taken[i]
      BY <1>2 DEF n
    <3>4. \A i \in 1..w : \E k \in 1..n : k <= n - b + 1 /\ taken'[k] = wire[i]
      BY <1>2, <2>5
    <3> QED BY <2>1, <2>7, <3>1, <3>2, <3>3, <3>4, OutLast
  <2> QED BY <2>6, <2>8, <2>9 DEF DataInv, SentOnceInOrder, OutInOrder, OutOnce
<1> QED BY <1>1, <1>2 DEF SendFront

LEMMA SendListData ==
  ASSUME IInv, NEW list \in Lists, SendList(list)
  PROVE  DataInv'
<1>1. list \in Seq(Datagram)
  BY UdpAssumption
<1>2. /\ taken' = taken \o list /\ buffer_list_' = buffer_list_ \o list
      /\ wire' = wire
  BY DEF SendList
<1> QED BY <1>1, <1>2, WaitBehind

LEMMA SameData ==
  ASSUME IInv, UNCHANGED <<buffer_list_, taken, wire>>
  PROVE  DataInv'
<1>1. WaitingIsLast'
  BY DEF IInv, DataInv, WaitingIsLast
<1>2. OutBeforeWaiting'
  BY DEF IInv, DataInv, OutBeforeWaiting
<1>3. SentOnceInOrder'
  BY DEF IInv, DataInv, SentOnceInOrder
<1> QED BY <1>1, <1>2, <1>3 DEF DataInv

LEMMA NextIInv == IInv /\ [Next]_vars => IInv'
<1> SUFFICES ASSUME IInv, [Next]_vars PROVE ControlInv' /\ DataInv'
  BY DEF IInv
<1>1. CASE Connect \/ StartServer
  BY <1>1, OpenControl, SameData DEF Connect, StartServer, sending
<1>2. CASE OnClose \/ OnRead \/ Arrive \/ MakeRoom \/ UNCHANGED vars
  BY <1>2, OtherControl, SameData DEF sending
<1>3. ASSUME NEW d \in Datagram, Send(d) PROVE ControlInv' /\ DataInv'
  BY <1>3, SendControl, SendData
<1>4. ASSUME NEW list \in Lists, SendList(list) PROVE ControlInv' /\ DataInv'
  BY <1>4, SendListControl, SendListData
<1>5. CASE OnWrite
  BY <1>5, OnWriteControl, SameData DEF OnWrite
<1>6. CASE SendFront
  BY <1>6, SendFrontControl, SendFrontData
<1>7. CASE Return
  BY <1>7, ReturnControl, SameData DEF Return, sending
<1> QED BY <1>1, <1>2, <1>3, <1>4, <1>5, <1>6, <1>7 DEF Next

-----------------------------------------------------------------------------
LEMMA InductiveInvariant == Spec => []IInv
BY InitIInv, NextIInv, PTL DEF Spec

\* A UdpSocket is well typed: the queue, the stack of callbacks and the wire
\* hold nothing else than what the code puts there.
THEOREM UdpSocketTypeCorrect == Spec => []TypeOK
<1>1. IInv => TypeOK
  BY DEF IInv, ControlInv
<1> QED BY InductiveInvariant, <1>1, PTL

\* What is behind on the wire was sent behind, and unless a datagram is empty each
\* goes out once or still waits, for any datagrams and lists, sent from tasks
\* and callbacks (sendInLoop, onWrite).
THEOREM DatagramsSentOnceInOrder == Spec => []SentOnceInOrder
<1>1. IInv => SentOnceInOrder
  BY DEF IInv, DataInv
<1> QED BY InductiveInvariant, <1>1, PTL

\* Epoll watches exactly the open descriptor of a socket that was connected or
\* started once, and the table finds the socket by it; once it is closed,
\* whichever callback closed it and however the calls nest, its descriptor is
\* given back and a client has left the table, which a server has not (onClose
\* of UdpClient, UdpServer and UdpSocket).
THEOREM LoopFollowsDescriptor == Spec => []DescriptorFollowsLoop
<1>1. IInv => DescriptorFollowsLoop
  <2> SUFFICES ASSUME IInv, AtLoop, connects <= 1
               PROVE  /\ watched = open /\ open \subseteq events_
                      /\ closed_ => open = {}
                      /\ role = "client" => events_ = open
    BY DEF DescriptorFollowsLoop
  <2>1. ~Closing
    BY EmptySeq DEF AtLoop, Closing, Closes
  <2>2. connects = 0 \/ connects = 1
    BY TypeFacts
  <2> QED BY <2>1, <2>2 DEF IInv, ControlInv, LifeInv
<1> QED BY InductiveInvariant, <1>1, PTL

-----------------------------------------------------------------------------
(***************************************************************************)
(* The socket implements OrderedChannel.                                   *)
(***************************************************************************)
LEMMA BeginsConcat ==
  ASSUME NEW s \in Seq(Datagram), NEW u \in Seq(Datagram)
  PROVE  Channel!Begins(s, s \o u)
<1>1. Len(s \o u) = Len(s) + Len(u) /\ Len(s) \in Nat /\ Len(u) \in Nat
  BY ConcatProperties, LenProperties
<1>2. s = SubSeq(s \o u, 1, Len(s))
  <2>1. CASE s = <<>>
    <3>1. Len(s) = 0
      BY <2>1, EmptySeq
    <3> QED BY <2>1, <3>1, SubSeqEmpty
  <2>2. CASE s # <<>>
    <3>1. 1 \in 1..Len(s) /\ Len(s) \in 1..Len(s)
      BY <1>1, <2>2, EmptySeq
    <3> QED BY <3>1, SubSeqOfConcat1, SubSeqFull
  <2> QED BY <2>1, <2>2
<1> QED BY <1>1, <1>2 DEF Channel!Begins

\* A step that takes datagrams on and sends some is a step of the channel.
LEMMA StepOfChannel ==
  ASSUME IInv, IInv', NEW x \in Seq(Datagram), NEW y \in Seq(Datagram),
         taken' = taken \o x, wire' = wire \o y,
         wire' # wire => fd_ # NoFd,
         completed' # completed => completed' = Len(taken') /\ buffer_list_' = <<>>
  PROVE  Channel!Next
<1>t. /\ taken \in Seq(Datagram) /\ wire \in Seq(Datagram)
      /\ wire' \in Seq(Datagram) /\ buffer_list_' \in Seq(Datagram)
  BY DEF IInv, ControlInv, TypeOK
<1>g. ToSet(taken') \cap Empty = {} => wire' \o buffer_list_' = taken'
  BY DEF IInv, DataInv, SentOnceInOrder
<1>b. ToSet(taken) \subseteq ToSet(taken')
  BY <1>t, ToSetGrows
<1>1. Channel!Grow
  <2>1. Channel!Begins(taken, taken') /\ Channel!Begins(wire, wire')
    BY <1>t, BeginsConcat
  <2>2. ToSet(taken') \cap Empty = {} => Channel!Begins(wire', taken')
    BY <1>t, <1>g, BeginsConcat
  <2> QED BY <2>1, <2>2 DEF Channel!Grow
<1>2. Channel!Confirm
  <2>1. ToSet(taken') \cap Empty = {} /\ buffer_list_' = <<>> => wire' = taken'
    BY <1>t, <1>g, ConcatEmptySeq
  <2> QED BY <2>1 DEF Channel!Confirm
<1> QED BY <1>1, <1>2, <1>b DEF Channel!Next, Channel!DeliverWhileAble

\* Until an empty datagram is sent, a UdpSocket keeps the promise of an ordered
\* channel for any datagrams: what is sent goes out in that order, each once,
\* never without a descriptor, and write_complete_cb_ is called when all is out.
THEOREM UdpSocketImplementsChannel == Spec => ImplementsChannel
<1>1. Init => Channel!Init
  BY EmptySeq DEF Init, Channel!Init, ToSet
<1>2. IInv /\ IInv' /\ [Next]_vars => [Channel!Next]_Channel!vars
  <2> SUFFICES ASSUME IInv, IInv', [Next]_vars PROVE [Channel!Next]_Channel!vars
    OBVIOUS
  <2>e. /\ <<>> \in Seq(Datagram)
        /\ taken = taken \o <<>> /\ wire = wire \o <<>>
    BY TypeFacts, EmptySeq, ConcatEmptySeq
  <2>1. ASSUME UNCHANGED <<taken, wire>>,
               completed' # completed => completed' = Len(taken') /\ buffer_list_' = <<>>
        PROVE  Channel!Next
    BY <2>e, <2>1, StepOfChannel
  <2>2. CASE Connect \/ StartServer \/ OnClose \/ OnRead \/ Return \/ Arrive
               \/ MakeRoom \/ UNCHANGED vars
    <3>1. UNCHANGED sending
      BY <2>2 DEF Connect, StartServer, OnClose, OnRead, Return, Arrive, MakeRoom, vars
    <3> QED BY <2>1, <3>1 DEF sending
  <2>3. ASSUME NEW d \in Datagram, Send(d) PROVE Channel!Next
    <3>1. taken' = taken \o <<d>> /\ <<d>> \in Seq(Datagram)
      BY <2>3, TypeFacts, AppendFacts DEF Send, SendInLoop
    <3>2. \/ /\ fd_ # NoFd /\ wire' = Append(wire, d)
             /\ completed' # completed => completed' = Len(taken') /\ buffer_list_' = <<>>
          \/ wire' = wire /\ completed' = completed
      BY <2>3 DEF Send, SendInLoop
    <3>3. wire' = Append(wire, d) => wire' = wire \o <<d>>
      BY TypeFacts, AppendFacts
    <3> QED BY <2>e, <3>1, <3>2, <3>3, StepOfChannel
  <2>4. ASSUME NEW list \in Lists, SendList(list) PROVE Channel!Next
    <3>1. list \in Seq(Datagram)
      BY UdpAssumption
    <3>2. taken' = taken \o list /\ UNCHANGED <<wire, completed>>
      BY <2>4 DEF SendList
    <3> QED BY <2>e, <3>1, <3>2, StepOfChannel
  <2>5. CASE OnWrite
    BY <2>1, <2>5 DEF OnWrite
  <2>6. CASE SendFront
    <3> DEFINE d == Head(buffer_list_)
    <3>1. d \in Datagram
      BY <2>6, SendFrontFacts
    <3>2. /\ taken' = taken
          /\ \/ wire' = Append(wire, d) /\ fd_ # NoFd
             \/ wire' = wire
          /\ completed' # completed => completed' = Len(taken') /\ buffer_list_' = <<>>
      BY <2>6 DEF SendFront
    <3> HIDE DEF d
    <3>3. wire' = Append(wire, d) => wire' = wire \o <<d>>
      BY <3>1, TypeFacts, AppendFacts
    <3>4. <<d>> \in Seq(Datagram)
      BY <3>1
    <3> QED BY <2>e, <3>1, <3>2, <3>3, <3>4, StepOfChannel
  <2> QED BY <2>2, <2>3, <2>4, <2>5, <2>6 DEF Next
<1> QED BY InductiveInvariant, <1>1, <1>2, PTL DEF Spec, ImplementsChannel, Channel!Spec

=============================================================================
