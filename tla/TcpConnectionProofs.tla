------------------------ MODULE TcpConnectionProofs ------------------------
(***************************************************************************)
(* Theorems about TcpConnection for any calls of send, of any sizes.       *)
(***************************************************************************)
EXTENDS TcpConnection, SequenceTheorems, TLAPS

\* A connection being closed, or closed, is out of the loop's events_.
ClosedInv ==
  closed_ \/ (\E i \in 1..Len(callbacks) : callbacks[i] = "destroy")
    => ~registered

\* Until the kernel refuses bytes, the wire and what waits make up what was
\* taken on, and completion was never reported for bytes still waiting.
NotRefusedInv ==
  ~refused => wire \o io_vec_list_ = accepted /\ completed <= Len(wire)

IInv == TypeOK /\ PendingIsWatched /\ ClosedInv /\ NotRefusedInv

\* What sendInLoop and onWrite change, and their part of the invariant.
SendState ==
  /\ io_vec_list_ \in Seq(Byte)
  /\ writing \in BOOLEAN
  /\ callbacks \in Seq({"complete", "destroy"})
  /\ accepted \in Seq(Byte)
  /\ wire \in Seq(Byte)
  /\ refused \in BOOLEAN
  /\ completed \in Nat
SendInv == SendState /\ PendingIsWatched /\ ClosedInv /\ NotRefusedInv

LEMMA InitIInv == Init => IInv
<1> SUFFICES ASSUME Init PROVE IInv
  OBVIOUS
<1> USE DEF Init
<1>1. TypeOK
  <2>1. /\ io_vec_list_ \in Seq(Byte) /\ accepted \in Seq(Byte) /\ wire \in Seq(Byte)
        /\ posted \in Seq(ByOther) /\ callbacks \in Seq({"complete", "destroy"})
    BY EmptySeq
  <2> QED BY <2>1 DEF TypeOK
<1>2. PendingIsWatched /\ ClosedInv
  BY DEF PendingIsWatched, ClosedInv
<1>3. NotRefusedInv
  BY DEF NotRefusedInv
<1> QED BY <1>1, <1>2, <1>3 DEF IInv

-----------------------------------------------------------------------------
(***************************************************************************)
(* The bytes of a call.                                                    *)
(***************************************************************************)
LEMMA BytesType ==
  ASSUME NEW c \in Call
  PROVE  Bytes(c) \in Seq(Byte) /\ Len(Bytes(c)) = Size[c]
<1>1. Size[c] \in Nat
  BY CallsAssumption
<1>2. \A i \in 1..Size[c] : <<c, i>> \in Byte
  BY <1>1 DEF Byte
<1> QED BY <1>1, <1>2 DEF Bytes

LEMMA RestIsBytes ==
  ASSUME NEW c \in Call, NEW n \in WriteResults(Size[c])
  PROVE  Rest(c, n) \in Seq(Byte)
<1> DEFINE size == (Size[c] - n) % (SizeMax + 1)
           base == IF n = SizeMax THEN -1 ELSE n
<1>1. Size[c] \in Nat /\ n \in Nat /\ SizeMax \in Nat
  BY CallsAssumption DEF WriteResults
<1>2. size \in Nat
  BY <1>1
<1>3. \A i \in 1..size : base + i \in Nat
  BY <1>1, <1>2
<1>4. Rest(c, n) = [i \in 1..size |-> <<c, base + i>>]
  BY DEF Rest
<1> HIDE DEF size, base
<1>5. \A i \in 1..size : <<c, base + i>> \in Byte
  BY <1>3 DEF Byte
<1> QED BY <1>2, <1>4, <1>5

\* A write that takes n bytes leaves exactly the others.
LEMMA RestCompletesBytes ==
  ASSUME NEW c \in Call, NEW n \in 0..Size[c]
  PROVE  SubSeq(Bytes(c), 1, n) \o Rest(c, n) = Bytes(c)
<1>1. Size[c] \in Nat /\ SizeMax \in Nat /\ Size[c] + 1 < SizeMax
  BY CallsAssumption
<1>2. (Size[c] - n) % (SizeMax + 1) = Size[c] - n
  BY <1>1
<1>3. Rest(c, n) = [i \in 1..(Size[c] - n) |-> <<c, n + i>>]
  BY <1>1, <1>2 DEF Rest
<1>4. SubSeq(Bytes(c), n + 1, Size[c]) = Rest(c, n)
  <2>1. SubSeq(Bytes(c), n + 1, Size[c])
          = [i \in 1..(Size[c] - n) |-> Bytes(c)[n + i]]
    BY <1>1, BytesType
  <2>2. \A i \in 1..(Size[c] - n) : Bytes(c)[n + i] = <<c, n + i>>
    BY <1>1 DEF Bytes
  <2> QED BY <1>3, <2>1, <2>2
<1>5. SubSeq(Bytes(c), 1, n) \o SubSeq(Bytes(c), n + 1, Size[c])
        = SubSeq(Bytes(c), 1, Size[c])
  BY <1>1, BytesType, ConcatAdjacentSubSeq
<1>6. SubSeq(Bytes(c), 1, Size[c]) = Bytes(c)
  BY BytesType, SubSeqFull
<1> QED BY <1>4, <1>5, <1>6

LEMMA BytesConcat ==
  ASSUME NEW s \in Seq(Byte), NEW t \in Seq(Byte), NEW u \in Seq(Byte)
  PROVE  (s \o t) \o u = s \o (t \o u)
BY ConcatAssociative

-----------------------------------------------------------------------------
(***************************************************************************)
(* sendInLoop: what it writes, queues and reports.                         *)
(***************************************************************************)
LEMMA QueueBytesInv ==
  ASSUME IInv, NEW s \in Seq(Byte), QueueBytes(s), registered' = registered,
         closed_' = closed_, wire' \in Seq(Byte), accepted' \in Seq(Byte),
         refused' \in BOOLEAN, refused => refused',
         ~refused' => /\ wire' \o io_vec_list_' = accepted'
                       /\ Len(wire) <= Len(wire')
  PROVE  SendInv'
<1> USE DEF QueueBytes, EnableWriting
<1>1. SendState'
  BY DEF IInv, TypeOK, SendState
<1>2. PendingIsWatched'
  BY DEF PendingIsWatched
<1>3. ClosedInv'
  BY DEF IInv, ClosedInv
<1>4. NotRefusedInv'
  <2> SUFFICES ASSUME ~refused' PROVE completed' <= Len(wire')
    BY DEF NotRefusedInv
  <2>1. completed <= Len(wire) /\ Len(wire) <= Len(wire')
    BY DEF IInv, NotRefusedInv
  <2>2. completed \in Nat /\ Len(wire) \in Nat /\ Len(wire') \in Nat
    BY LenProperties DEF IInv, TypeOK
  <2> QED BY <2>1, <2>2
<1> QED BY <1>1, <1>2, <1>3, <1>4 DEF SendInv

LEMMA WriteCompleteInv ==
  ASSUME IInv, WriteComplete, io_vec_list_' = <<>>, registered' = registered,
         closed_' = closed_, writing' \in BOOLEAN,
         wire' \in Seq(Byte), accepted' \in Seq(Byte), refused' \in BOOLEAN,
         ~refused' => wire' = accepted'
  PROVE  SendInv'
<1> USE DEF WriteComplete
<1>1. SendState'
  <2>1. callbacks' \in Seq({"complete", "destroy"})
    BY AppendProperties DEF IInv, TypeOK
  <2>2. completed' \in Nat
    BY LenProperties
  <2> QED BY <2>1, <2>2, EmptySeq DEF SendState
<1>2. PendingIsWatched'
  BY DEF PendingIsWatched
<1>3. ClosedInv'
  <2>1. callbacks \in Seq({"complete", "destroy"})
    BY DEF IInv, TypeOK
  <2>2. /\ Len(callbacks') = Len(callbacks) + 1
        /\ callbacks'[Len(callbacks) + 1] = "complete"
        /\ \A i \in 1..Len(callbacks) : callbacks'[i] = callbacks[i]
    BY <2>1
  <2>3. Len(callbacks) \in Nat
    BY <2>1, LenProperties
  <2>4. \A i \in 1..Len(callbacks') :
          callbacks'[i] = "destroy" => i \in 1..Len(callbacks) /\ callbacks[i] = "destroy"
    BY <2>2, <2>3
  <2> QED BY <2>4 DEF IInv, ClosedInv
<1>4. NotRefusedInv'
  <2> SUFFICES ASSUME ~refused'
               PROVE  wire' \o io_vec_list_' = accepted' /\ completed' <= Len(wire')
    BY DEF NotRefusedInv
  <2>1. wire' \o <<>> = wire'
    BY ConcatEmptySeq
  <2>2. Len(wire') \in Nat
    BY LenProperties
  <2> QED BY <2>1, <2>2
<1> QED BY <1>1, <1>2, <1>3, <1>4 DEF SendInv

LEMMA SendInLoopInv ==
  ASSUME IInv, NEW c \in Call, SendInLoop(c), UNCHANGED <<closed_, registered>>
  PROVE  SendInv'
<1>t. /\ io_vec_list_ \in Seq(Byte) /\ wire \in Seq(Byte) /\ accepted \in Seq(Byte)
      /\ Bytes(c) \in Seq(Byte) /\ Len(Bytes(c)) = Size[c] /\ Size[c] \in Nat
  BY BytesType, CallsAssumption DEF IInv, TypeOK
<1>1. CASE closed_
  BY <1>1 DEF SendInLoop, IInv, TypeOK, SendInv, SendState, PendingIsWatched,
              ClosedInv, NotRefusedInv
<1>2. CASE ~closed_
  <2>a. accepted' = accepted \o Bytes(c) /\ accepted' \in Seq(Byte)
    BY <1>2, <1>t, ConcatProperties DEF SendInLoop
  <2>g. ~refused => wire \o io_vec_list_ = accepted
    BY DEF IInv, NotRefusedInv
  <2>b. refused \in BOOLEAN
    BY DEF IInv, TypeOK
  <2>1. ASSUME QueueBytes(Bytes(c)), UNCHANGED <<wire, refused>> PROVE SendInv'
    <3>1. ~refused' => wire' \o io_vec_list_' = accepted'
      <4>1. (wire \o io_vec_list_) \o Bytes(c) = wire \o (io_vec_list_ \o Bytes(c))
        BY <1>t, BytesConcat
      <4> QED BY ONLY <2>a, <2>g, <2>1, <4>1 DEF QueueBytes
    <3>2. Len(wire) <= Len(wire')
      BY <2>1, <1>t, LenProperties
    <3> QED BY <1>t, <2>a, <2>b, <2>1, <3>1, <3>2, QueueBytesInv
  <2>2. CASE c \in ByList
    BY <1>2, <2>1, <2>2 DEF SendInLoop, WriteLater
  <2>3. CASE c \notin ByList /\ io_vec_list_ # <<>>
    BY <1>2, <2>1, <2>3 DEF SendInLoop, WriteNow
  <2>4. CASE c \notin ByList /\ io_vec_list_ = <<>>
    <3> PICK n \in WriteResults(Size[c]) :
          /\ wire' = wire \o SubSeq(Bytes(c), 1, IF n = SizeMax THEN 0 ELSE n)
          /\ refused' = (refused \/ n = SizeMax)
          /\ IF Rest(c, n) = <<>>
               THEN WriteComplete /\ UNCHANGED <<io_vec_list_, writing>>
               ELSE QueueBytes(Rest(c, n))
      BY <1>2, <2>4 DEF SendInLoop, WriteNow
    <3> DEFINE k == IF n = SizeMax THEN 0 ELSE n
               w == SubSeq(Bytes(c), 1, k)
    <3>1. Rest(c, n) \in Seq(Byte)
      BY RestIsBytes
    <3>2. k \in 0..Size[c]
      BY <1>t DEF WriteResults
    <3>3. w \in Seq(Byte)
      BY <1>t, <3>2, SubSeqProperties
    <3>4. wire' = wire \o w /\ wire' \in Seq(Byte)
      BY <1>t, <3>3, ConcatProperties
    <3>a. refused' = (refused \/ n = SizeMax)
      OBVIOUS
    <3>b. refused' \in BOOLEAN /\ (refused => refused')
      BY <2>b, <3>a, Zenon
    <3>c. ~refused' => n # SizeMax
      BY <3>a, Zenon
    <3>5. ~refused' => n \in 0..Size[c] /\ n # SizeMax
      BY <1>t, <3>c, CallsAssumption DEF WriteResults
    <3>6. ~refused' => w \o Rest(c, n) = Bytes(c)
      BY <3>5, RestCompletesBytes
    <3>7. ~refused' => wire = accepted
      BY <1>t, <2>4, <2>g, <3>b, ConcatEmptySeq
    <3>8. ~refused' => wire' \o Rest(c, n) = accepted'
      <4> HIDE DEF w
      <4>1. (wire \o w) \o Rest(c, n) = wire \o (w \o Rest(c, n))
        BY <1>t, <3>1, <3>3, BytesConcat, ZenonT(60)
      <4> QED BY ONLY <2>a, <3>4, <3>6, <3>7, <4>1
    <3>9. Len(wire) <= Len(wire')
      BY <1>t, <3>3, <3>4, ConcatProperties, LenProperties
    <3> HIDE DEF k, w
    <3>10. CASE Rest(c, n) = <<>>
      <4>1. ~refused' => wire' = accepted'
        BY <3>4, <3>8, <3>10, ConcatEmptySeq
      <4>2. WriteComplete /\ io_vec_list_' = <<>> /\ writing' \in BOOLEAN
        BY <2>4, <3>10 DEF IInv, TypeOK
      <4> QED BY <2>a, <3>4, <3>b, <4>1, <4>2, WriteCompleteInv
    <3>11. CASE Rest(c, n) # <<>>
      <4>1. QueueBytes(Rest(c, n))
        BY <3>11
      <4>2. io_vec_list_' = Rest(c, n)
        BY <2>4, <3>1, <4>1, ConcatEmptySeq DEF QueueBytes
      <4> QED BY <2>a, <3>1, <3>4, <3>b, <3>8, <3>9, <4>1, <4>2, QueueBytesInv
    <3> QED BY <3>10, <3>11
  <2> QED BY <2>2, <2>3, <2>4
<1> QED BY <1>1, <1>2

-----------------------------------------------------------------------------
(***************************************************************************)
(* Every step keeps the invariant.                                         *)
(***************************************************************************)
LEMMA SendStep ==
  ASSUME IInv, NEW c \in Call, Send(c) \/ PostSend(c)
  PROVE  IInv'
<1>1. CASE Send(c)
  <2>1. SendInv'
    BY <1>1, SendInLoopInv DEF Send
  <2> QED BY <1>1, <2>1 DEF Send, IInv, TypeOK, SendInv, SendState
<1>2. CASE PostSend(c)
  <2>1. c \in ByOther
    BY <1>2 DEF PostSend
  <2>2. posted' \in Seq(ByOther)
    BY <1>2, <2>1, AppendProperties DEF PostSend, IInv, TypeOK
  <2>3. TypeOK'
    BY <1>2, <2>2 DEF PostSend, IInv, TypeOK
  <2> QED BY <1>2, <2>3 DEF PostSend, IInv, PendingIsWatched, ClosedInv,
                            NotRefusedInv
<1> QED BY <1>1, <1>2

LEMMA RunPostedStep ==
  ASSUME IInv, RunPosted
  PROVE  IInv'
<1>1. posted \in Seq(ByOther) /\ posted # <<>>
  BY DEF IInv, TypeOK, RunPosted
<1>2. Head(posted) \in Call /\ posted' \in Seq(ByOther)
  BY <1>1, CallsAssumption, HeadTailProperties DEF RunPosted
<1>3. SendInv'
  BY <1>2, SendInLoopInv DEF RunPosted
<1> QED BY <1>2, <1>3 DEF RunPosted, IInv, TypeOK, SendInv, SendState

LEMMA OnWriteStep ==
  ASSUME IInv, OnWrite
  PROVE  IInv'
<1>1. io_vec_list_ \in Seq(Byte) /\ wire \in Seq(Byte) /\ accepted \in Seq(Byte)
  BY DEF IInv, TypeOK
<1>2. PICK k \in 0..Len(io_vec_list_) :
        /\ refused' = (refused \/ k < Len(io_vec_list_))
        /\ wire' = wire \o SubSeq(io_vec_list_, 1, k)
  BY DEF OnWrite
<1>3. SubSeq(io_vec_list_, 1, k) \in Seq(Byte)
  BY <1>1, SubSeqProperties
<1>4. wire' \in Seq(Byte)
  BY <1>1, <1>2, <1>3, ConcatProperties
<1>5. ~refused' => wire' = accepted'
  <2> SUFFICES ASSUME ~refused' PROVE wire' = accepted'
    OBVIOUS
  <2>a. ~(k < Len(io_vec_list_)) /\ ~refused
    BY <1>2, Zenon
  <2>1. k = Len(io_vec_list_) /\ ~refused
    BY <1>1, <2>a, LenProperties
  <2>2. SubSeq(io_vec_list_, 1, k) = io_vec_list_
    BY <1>1, <2>1, SubSeqFull
  <2>3. wire \o io_vec_list_ = accepted
    BY <2>1 DEF IInv, NotRefusedInv
  <2> QED BY <1>2, <2>1, <2>2, <2>3 DEF OnWrite
<1>r. refused' \in BOOLEAN
  BY <1>2 DEF IInv, TypeOK
<1>6. SendInv'
  BY <1>1, <1>4, <1>5, <1>r, WriteCompleteInv DEF OnWrite
<1> QED BY <1>6 DEF OnWrite, IInv, TypeOK, SendInv, SendState

LEMMA ReadStep ==
  ASSUME IInv, Arrive \/ OnRead \/ UNCHANGED vars
  PROVE  IInv'
<1> USE DEF IInv, TypeOK, PendingIsWatched, ClosedInv, NotRefusedInv
<1>1. CASE Arrive
  BY <1>1 DEF Arrive
<1>2. CASE OnRead
  BY <1>2 DEF OnRead
<1>3. CASE UNCHANGED vars
  BY <1>3 DEF vars
<1> QED BY <1>1, <1>2, <1>3

LEMMA OnCloseStep ==
  ASSUME IInv, OnClose
  PROVE  IInv'
<1>1. callbacks' \in Seq({"complete", "destroy"})
  BY AppendProperties DEF OnClose, IInv, TypeOK
<1>2. TypeOK'
  BY <1>1 DEF OnClose, IInv, TypeOK
<1> QED BY <1>2 DEF OnClose, IInv, PendingIsWatched, ClosedInv, NotRefusedInv

LEMMA ReturnStep ==
  ASSUME IInv, Return
  PROVE  IInv'
<1>1. callbacks \in Seq({"complete", "destroy"}) /\ callbacks # <<>>
  BY DEF IInv, TypeOK, Return
<1>2. Len(callbacks) \in Nat /\ Len(callbacks) >= 1
  BY <1>1, LenProperties, EmptySeq
<1>3. /\ callbacks' \in Seq({"complete", "destroy"})
      /\ Len(callbacks') = Len(callbacks) - 1
      /\ \A i \in 1..(Len(callbacks) - 1) : callbacks'[i] = callbacks[i]
  <2>1. callbacks' = SubSeq(callbacks, 1, Len(callbacks) - 1)
    BY DEF Return
  <2>2. \A i \in 1..(Len(callbacks) - 1) : callbacks[i] \in {"complete", "destroy"}
    BY <1>1, <1>2
  <2>4. Len(callbacks) - 1 \in Nat
    BY <1>2
  <2>5. callbacks' \in Seq({"complete", "destroy"})
    BY <2>1, <2>2, <2>4, SubSeqProperties
  <2>6. Len(callbacks') = Len(callbacks) - 1
    <3> DEFINE n == Len(callbacks) - 1
    <3>1. Len(SubSeq(callbacks, 1, n)) = IF 1 <= n THEN n - 1 + 1 ELSE 0
      BY <2>2, <2>4, SubSeqProperties
    <3>2. n \in Nat
      BY <2>4
    <3>3. (IF 1 <= n THEN n - 1 + 1 ELSE 0) = n
      <4> HIDE DEF n
      <4> QED BY <3>2
    <3> QED BY ONLY <2>1, <3>1, <3>3
  <2>7. \A i \in 1..(Len(callbacks) - 1) : callbacks'[i] = callbacks[i]
    BY <1>1, <1>2, <2>1
  <2> QED BY <2>5, <2>6, <2>7
<1>4. TypeOK'
  BY <1>3 DEF Return, IInv, TypeOK
<1>5. ClosedInv'
  <2>1. \A i \in 1..Len(callbacks') :
          i \in 1..Len(callbacks) /\ callbacks'[i] = callbacks[i]
    BY <1>2, <1>3
  <2>2. Len(callbacks) \in 1..Len(callbacks)
    BY <1>2
  <2> QED BY <2>1, <2>2 DEF Return, IInv, ClosedInv
<1> QED BY <1>4, <1>5 DEF Return, IInv, PendingIsWatched, NotRefusedInv

\* IInv is an inductive invariant.
THEOREM InductiveInvariant == Spec => []IInv
<1>1. IInv /\ [Next]_vars => IInv'
  BY SendStep, RunPostedStep, OnWriteStep, ReadStep, OnCloseStep, ReturnStep DEF Next
<1> QED BY InitIInv, <1>1, PTL DEF Spec

-----------------------------------------------------------------------------
(***************************************************************************)
(* The theorems.                                                           *)
(***************************************************************************)
\* The connection's state keeps its type: io_vec_list_ holds the callers'
\* bytes, and after a failed write the byte before them, and nothing else.
THEOREM TypeCorrect == Spec => []TypeOK
<1>1. IInv => TypeOK
  BY DEF IInv
<1> QED BY InductiveInvariant, <1>1, PTL

\* Bytes that wait are never stranded: the loop watches for EPOLLOUT for as
\* long as the connection is registered, whatever the kernel refuses.
THEOREM WaitingBytesAreWatched == Spec => []PendingIsWatched
<1>1. IInv => PendingIsWatched
  BY DEF IInv
<1> QED BY InductiveInvariant, <1>1, PTL

\* Nothing is written to a socket that onClose has closed.
THEOREM ClosedSocketIsNotWritten == Spec => NothingAfterClose
<1>1. IInv /\ [Next]_vars => [closed_ => wire' = wire]_vars
  BY DEF IInv, ClosedInv, Next, Send, PostSend, RunPosted, SendInLoop, OnWrite,
         Arrive, OnRead, OnClose, Return, vars
<1> QED BY InductiveInvariant, <1>1, PTL DEF Spec, NothingAfterClose

\* Until the kernel refuses bytes, the wire and what waits are what sendInLoop
\* took on, in its order.
THEOREM NothingIsLost == Spec => []NothingLost
<1>1. IInv => NothingLost
  BY DEF IInv, NotRefusedInv, NothingLost
<1> QED BY InductiveInvariant, <1>1, PTL

\* Until the kernel refuses bytes, write_complete_cb_ is called only when all
\* that was taken on has been written.
THEOREM CompletionIsReportedInTime == Spec => []CompletionInTime
<1>1. IInv => CompletionInTime
  <2> SUFFICES ASSUME IInv, ~refused, NEW i \in 1..completed
               PROVE  \E j \in 1..Len(wire) : wire[j] = accepted[i]
    BY DEF CompletionInTime, CompletionIsTrue
  <2>1. wire \in Seq(Byte) /\ io_vec_list_ \in Seq(Byte)
    BY DEF IInv, TypeOK
  <2>2. wire \o io_vec_list_ = accepted /\ completed <= Len(wire) /\ completed \in Nat
    BY DEF IInv, TypeOK, NotRefusedInv
  <2>3. i \in 1..Len(wire)
    BY <2>1, <2>2, LenProperties
  <2>4. (wire \o io_vec_list_)[i] = wire[i]
    BY <2>1, <2>3, ConcatProperties
  <2> QED BY <2>2, <2>3, <2>4
<1> QED BY InductiveInvariant, <1>1, PTL

-----------------------------------------------------------------------------
(***************************************************************************)
(* The connection implements OrderedChannel.                               *)
(***************************************************************************)
LEMMA BeginsConcat ==
  ASSUME NEW s \in Seq(Byte), NEW u \in Seq(Byte)
  PROVE  Channel!Begins(s, s \o u)
<1>1. Len(s \o u) = Len(s) + Len(u) /\ Len(s) \in Nat /\ Len(u) \in Nat
  BY ConcatProperties, LenProperties
<1>2. s = SubSeq(s \o u, 1, Len(s))
  <2>1. CASE s = <<>>
    <3>1. Len(s) = 0
      BY <2>1, EmptySeq
    <3> QED BY <2>1, <3>1, SubSeqEmpty
  <2>2. CASE s # <<>>
    <3>1. 1 \in 1..Len(s) /\ Len(s) \in 1..Len(s)
      BY <1>1, <2>2, EmptySeq
    <3> QED BY <3>1, SubSeqOfConcat1, SubSeqFull
  <2> QED BY <2>1, <2>2
<1> QED BY <1>1, <1>2 DEF Channel!Begins

\* A step that takes bytes on and writes some is a step of the channel.
LEMMA StepOfChannel ==
  ASSUME IInv, IInv', NEW x \in Seq(Byte), NEW y \in Seq(Byte),
         accepted' = accepted \o x, wire' = wire \o y,
         refused => refused', closed_ => wire' = wire,
         completed' # completed => completed' = Len(accepted') /\ io_vec_list_' = <<>>
  PROVE  Channel!Next
<1>t. /\ accepted \in Seq(Byte) /\ wire \in Seq(Byte)
      /\ wire' \in Seq(Byte) /\ io_vec_list_' \in Seq(Byte)
  BY DEF IInv, TypeOK
<1>g. ~refused' => wire' \o io_vec_list_' = accepted'
  BY DEF IInv, NotRefusedInv
<1>1. Channel!Grow
  <2>1. Channel!Begins(accepted, accepted') /\ Channel!Begins(wire, wire')
    BY <1>t, BeginsConcat
  <2>2. ~refused' => Channel!Begins(wire', accepted')
    BY <1>t, <1>g, BeginsConcat
  <2> QED BY <2>1, <2>2 DEF Channel!Grow
<1>2. Channel!Confirm
  <2>1. ~refused' /\ io_vec_list_' = <<>> => wire' = accepted'
    BY <1>t, <1>g, ConcatEmptySeq
  <2> QED BY <2>1 DEF Channel!Confirm
<1> QED BY <1>1, <1>2 DEF Channel!Next, Channel!DeliverWhileAble

LEMMA SendInLoopOfChannel ==
  ASSUME IInv, IInv', NEW c \in Call, SendInLoop(c)
  PROVE  Channel!Next
<1>t. /\ accepted \in Seq(Byte) /\ wire \in Seq(Byte) /\ Bytes(c) \in Seq(Byte)
      /\ Size[c] \in Nat /\ Len(Bytes(c)) = Size[c] /\ <<>> \in Seq(Byte)
  BY BytesType, CallsAssumption, EmptySeq DEF IInv, TypeOK
<1>e. accepted = accepted \o <<>> /\ wire = wire \o <<>>
  BY <1>t, ConcatEmptySeq
<1>1. CASE closed_
  <2>1. UNCHANGED <<accepted, wire, refused, completed>>
    BY <1>1 DEF SendInLoop
  <2> QED BY <1>t, <1>e, <2>1, StepOfChannel
<1>2. CASE ~closed_
  <2>1. accepted' = accepted \o Bytes(c)
    BY <1>2 DEF SendInLoop
  <2>2. ASSUME QueueBytes(Bytes(c)), UNCHANGED <<wire, refused>> PROVE Channel!Next
    BY <1>t, <1>e, <2>1, <2>2, StepOfChannel DEF QueueBytes
  <2>3. CASE c \in ByList
    BY <1>2, <2>2, <2>3 DEF SendInLoop, WriteLater
  <2>4. CASE c \notin ByList /\ io_vec_list_ # <<>>
    BY <1>2, <2>2, <2>4 DEF SendInLoop, WriteNow
  <2>5. CASE c \notin ByList /\ io_vec_list_ = <<>>
    <3> PICK n \in WriteResults(Size[c]) :
          /\ wire' = wire \o SubSeq(Bytes(c), 1, IF n = SizeMax THEN 0 ELSE n)
          /\ refused' = (refused \/ n = SizeMax)
          /\ IF Rest(c, n) = <<>>
               THEN WriteComplete /\ UNCHANGED <<io_vec_list_, writing>>
               ELSE QueueBytes(Rest(c, n))
      BY <1>2, <2>5 DEF SendInLoop, WriteNow
    <3> DEFINE k == IF n = SizeMax THEN 0 ELSE n
    <3>1. k \in 0..Size[c]
      BY <1>t DEF WriteResults
    <3>2. SubSeq(Bytes(c), 1, k) \in Seq(Byte)
      BY <1>t, <3>1, SubSeqProperties
    <3>a. refused' = (refused \/ n = SizeMax)
      OBVIOUS
    <3>3. refused => refused'
      BY <3>a, Zenon
    <3>4. completed' # completed => completed' = Len(accepted') /\ io_vec_list_' = <<>>
      BY <2>5 DEF WriteComplete, QueueBytes
    <3> QED BY <1>2, <1>t, <2>1, <3>2, <3>3, <3>4, StepOfChannel
  <2> QED BY <2>3, <2>4, <2>5
<1> QED BY <1>1, <1>2

LEMMA OnWriteOfChannel ==
  ASSUME IInv, IInv', OnWrite
  PROVE  Channel!Next
<1>t. /\ accepted \in Seq(Byte) /\ io_vec_list_ \in Seq(Byte) /\ <<>> \in Seq(Byte)
  BY EmptySeq DEF IInv, TypeOK
<1>1. PICK k \in 0..Len(io_vec_list_) :
        /\ refused' = (refused \/ k < Len(io_vec_list_))
        /\ wire' = wire \o SubSeq(io_vec_list_, 1, k)
  BY DEF OnWrite
<1>2. SubSeq(io_vec_list_, 1, k) \in Seq(Byte)
  BY <1>t, SubSeqProperties
<1>3. accepted' = accepted \o <<>>
  BY <1>t, ConcatEmptySeq DEF OnWrite
<1>4. refused => refused'
  BY <1>1, Zenon
<1>5. ~closed_
  BY DEF IInv, ClosedInv, OnWrite
<1>6. completed' = Len(accepted') /\ io_vec_list_' = <<>>
  BY DEF OnWrite, WriteComplete
<1> QED BY <1>t, <1>1, <1>2, <1>3, <1>4, <1>5, <1>6, StepOfChannel

\* For any calls of any sizes, what the application sends goes out in its order,
\* until the kernel refuses bytes, never once closed_ is set, and completion is
\* reported when all of it is out.
THEOREM ConnectionImplementsChannel == Spec => ImplementsChannel
<1>1. Init => Channel!Init
  BY DEF Init, Channel!Init
<1>2. IInv /\ IInv' /\ [Next]_vars => [Channel!Next]_Channel!vars
  <2> SUFFICES ASSUME IInv, IInv', [Next]_vars PROVE [Channel!Next]_Channel!vars
    OBVIOUS
  <2>1. ASSUME NEW c \in Call, Send(c) PROVE Channel!Next
    BY <2>1, SendInLoopOfChannel DEF Send
  <2>2. CASE RunPosted
    <3>1. Head(posted) \in Call
      BY <2>2, CallsAssumption, HeadTailProperties DEF RunPosted, IInv, TypeOK
    <3> QED BY <2>2, <3>1, SendInLoopOfChannel DEF RunPosted
  <2>3. CASE OnWrite
    BY <2>3, OnWriteOfChannel
  <2>4. ASSUME UNCHANGED <<accepted, wire, completed, refused>>
        PROVE  [Channel!Next]_Channel!vars
    <3>1. accepted \in Seq(Byte) /\ wire \in Seq(Byte) /\ <<>> \in Seq(Byte)
      BY EmptySeq DEF IInv, TypeOK
    <3>2. Channel!Next
      BY <2>4, <3>1, ConcatEmptySeq, StepOfChannel
    <3> QED BY <3>2
  <2>5. CASE Arrive \/ OnRead \/ OnClose \/ Return \/ UNCHANGED vars
    BY <2>4, <2>5 DEF Arrive, OnRead, OnClose, Return, vars
  <2>6. ASSUME NEW c \in Call, PostSend(c) PROVE [Channel!Next]_Channel!vars
    BY <2>4, <2>6 DEF PostSend
  <2> QED BY <2>1, <2>2, <2>3, <2>5, <2>6 DEF Next
<1> QED BY InductiveInvariant, <1>1, <1>2, PTL DEF Spec, ImplementsChannel, Channel!Spec

-----------------------------------------------------------------------------
(***************************************************************************)
(* The order of the bytes, whatever the kernel refuses.                    *)
(***************************************************************************)
Real(b) == b[2] > 0

\* The callers' bytes in s are some of those of x, in the order of x.
Embeds(s, x) ==
  /\ \A i \in 1..Len(s) : Real(s[i]) => \E k \in 1..Len(x) : x[k] = s[i]
  /\ \A i, j \in 1..Len(s) : i < j /\ Real(s[i]) /\ Real(s[j]) =>
       \E k, l \in 1..Len(x) : k < l /\ x[k] = s[i] /\ x[l] = s[j]

\* No two places of x hold the same.
Once(x) == \A i, j \in 1..Len(x) : x[i] = x[j] => i = j

\* A call is still to be made, or waits in the loop's queue once, or its bytes
\* were taken on or dropped: it is never sent twice.
CallsInv ==
  /\ Once(posted) /\ Once(accepted)
  /\ \A p \in 1..Len(posted) : posted[p] \notin unsent
  /\ \A i \in 1..Len(accepted) :
       /\ accepted[i][1] \notin unsent
       /\ \A p \in 1..Len(posted) : posted[p] # accepted[i][1]

\* What is on the wire and what waits, in that order, keep the order of the
\* sends; what a refusal dropped is missing from both.
OrderInv == CallsInv /\ Embeds(wire \o io_vec_list_, accepted)

\* Where the entries of two sequences are, one after the other.
LEMMA ConcatAt ==
  ASSUME NEW s \in Seq(Byte), NEW t \in Seq(Byte)
  PROVE  /\ s \o t \in Seq(Byte)
         /\ Len(s) \in Nat /\ Len(t) \in Nat /\ Len(s \o t) = Len(s) + Len(t)
         /\ \A i \in 1..Len(s) : i \in 1..Len(s \o t) /\ (s \o t)[i] = s[i]
         /\ \A i \in 1..Len(t) : /\ Len(s) + i \in 1..Len(s \o t)
                                 /\ (s \o t)[Len(s) + i] = t[i]
         /\ \A i \in 1..Len(s \o t) :
              \/ i \in 1..Len(s)
              \/ i - Len(s) \in 1..Len(t) /\ i > Len(s) /\ (s \o t)[i] = t[i - Len(s)]
<1>1. s \o t \in Seq(Byte) /\ Len(s \o t) = Len(s) + Len(t)
  BY ConcatProperties
<1>2. Len(s) \in Nat /\ Len(t) \in Nat
  BY LenProperties
<1>3. \A i \in 1..Len(s) : i \in 1..Len(s \o t) /\ (s \o t)[i] = s[i]
  BY <1>1, <1>2, ConcatProperties
<1>4. \A i \in 1..Len(t) : Len(s) + i \in 1..Len(s \o t) /\ (s \o t)[Len(s) + i] = t[i]
  BY <1>1, <1>2, ConcatProperties
<1>5. \A i \in 1..Len(s \o t) :
        \/ i \in 1..Len(s)
        \/ i - Len(s) \in 1..Len(t) /\ i > Len(s) /\ (s \o t)[i] = t[i - Len(s)]
  BY <1>1, <1>2, ConcatProperties
<1> QED BY <1>1, <1>2, <1>3, <1>4, <1>5

LEMMA EmbedsJoin ==
  ASSUME NEW s \in Seq(Byte), NEW t \in Seq(Byte), NEW x \in Seq(Byte), NEW y \in Seq(Byte),
         Embeds(s, x), Embeds(t, y)
  PROVE  Embeds(s \o t, x \o y)
<1> DEFINE st == s \o t
           xy == x \o y
<1>1. /\ Len(s) \in Nat /\ Len(t) \in Nat /\ Len(st) = Len(s) + Len(t)
      /\ \A i \in 1..Len(s) : st[i] = s[i]
      /\ \A i \in 1..Len(st) :
           \/ i \in 1..Len(s)
           \/ i - Len(s) \in 1..Len(t) /\ i > Len(s) /\ st[i] = t[i - Len(s)]
  BY ConcatAt
<1>2. /\ Len(x) \in Nat /\ Len(y) \in Nat /\ Len(xy) = Len(x) + Len(y)
      /\ \A k \in 1..Len(x) : k \in 1..Len(xy) /\ xy[k] = x[k]
      /\ \A k \in 1..Len(y) : Len(x) + k \in 1..Len(xy) /\ xy[Len(x) + k] = y[k]
  BY ConcatAt
<1> HIDE DEF st, xy
<1>3. \A i \in 1..Len(s) : Real(st[i]) => \E k \in 1..Len(x) : xy[k] = st[i]
  BY <1>1, <1>2 DEF Embeds
<1>4. ASSUME NEW i \in 1..Len(st), i \notin 1..Len(s), Real(st[i])
      PROVE  \E k \in 1..Len(xy) : k > Len(x) /\ xy[k] = st[i]
  <2>1. PICK k \in 1..Len(y) : y[k] = t[i - Len(s)]
    BY <1>1, <1>4 DEF Embeds
  <2>2. Len(x) + k \in 1..Len(xy) /\ xy[Len(x) + k] = st[i] /\ Len(x) + k > Len(x)
    BY <1>1, <1>2, <1>4, <2>1
  <2> QED BY <2>2
<1>5. \A i \in 1..Len(st) : Real(st[i]) => \E k \in 1..Len(xy) : xy[k] = st[i]
  BY <1>2, <1>3, <1>4
<1>6. ASSUME NEW i \in 1..Len(st), NEW j \in 1..Len(st), i < j, Real(st[i]), Real(st[j])
      PROVE  \E k, l \in 1..Len(xy) : k < l /\ xy[k] = st[i] /\ xy[l] = st[j]
  <2>1. CASE j \in 1..Len(s)
    <3>1. i \in 1..Len(s) /\ st[i] = s[i] /\ st[j] = s[j]
      BY <1>1, <1>6, <2>1
    <3>2. PICK k \in 1..Len(x), l \in 1..Len(x) : k < l /\ x[k] = s[i] /\ x[l] = s[j]
      BY <1>6, <2>1, <3>1 DEF Embeds
    <3>3. k \in 1..Len(xy) /\ l \in 1..Len(xy) /\ xy[k] = st[i] /\ xy[l] = st[j]
      BY <1>2, <3>1, <3>2
    <3> QED BY <3>2, <3>3
  <2>2. CASE i \in 1..Len(s) /\ j \notin 1..Len(s)
    <3>1. PICK k \in 1..Len(x) : xy[k] = st[i]
      BY <1>3, <1>6, <2>2
    <3>2. PICK l \in 1..Len(xy) : l > Len(x) /\ xy[l] = st[j]
      BY <1>4, <1>6, <2>2
    <3>3. k < l /\ k \in 1..Len(xy)
      BY <1>2, <3>2
    <3> QED BY <3>1, <3>2, <3>3
  <2>3. CASE i \notin 1..Len(s) /\ j \notin 1..Len(s)
    <3>1. /\ i - Len(s) \in 1..Len(t) /\ st[i] = t[i - Len(s)]
          /\ j - Len(s) \in 1..Len(t) /\ st[j] = t[j - Len(s)]
          /\ i - Len(s) < j - Len(s)
      BY <1>1, <1>6, <2>3
    <3>2. PICK k \in 1..Len(y), l \in 1..Len(y) :
            k < l /\ y[k] = t[i - Len(s)] /\ y[l] = t[j - Len(s)]
      BY <1>6, <3>1 DEF Embeds
    <3>3. /\ Len(x) + k \in 1..Len(xy) /\ Len(x) + l \in 1..Len(xy)
          /\ xy[Len(x) + k] = st[i] /\ xy[Len(x) + l] = st[j]
      BY <1>2, <3>1, <3>2
    <3>4. Len(x) + k < Len(x) + l
      BY <1>2, <3>2
    <3> QED BY <3>3, <3>4
  <2> QED BY <2>1, <2>2, <2>3
<1> QED BY <1>5, <1>6 DEF Embeds, st, xy

\* A byte that is dropped at the end changes nothing for the others.
LEMMA EmbedsPrefix ==
  ASSUME NEW s \in Seq(Byte), NEW t \in Seq(Byte), NEW x, NEW k \in 0..Len(t),
         Embeds(s \o t, x)
  PROVE  Embeds(s \o SubSeq(t, 1, k), x)
<1> DEFINE st == s \o t
           u == SubSeq(t, 1, k)
           su == s \o u
<1>1. Len(t) \in Nat
  BY LenProperties
<1>2. u \in Seq(Byte) /\ Len(u) = k /\ \A i \in 1..k : u[i] = t[i]
  <2>1. \A i \in 1..k : t[i] \in Byte
    BY <1>1
  <2> QED BY <1>1, <2>1, SubSeqProperties
<1> HIDE DEF u
<1>3. /\ Len(s) \in Nat /\ Len(st) = Len(s) + Len(t)
      /\ \A i \in 1..Len(s) : st[i] = s[i]
      /\ \A i \in 1..Len(t) : st[Len(s) + i] = t[i]
  BY ConcatAt
<1>4. /\ Len(su) = Len(s) + k
      /\ \A i \in 1..Len(s) : su[i] = s[i]
      /\ \A i \in 1..k : su[Len(s) + i] = u[i]
  BY <1>2, ConcatAt
<1> HIDE DEF st, su
<1>5. \A i \in 1..Len(su) : i \in 1..Len(st) /\ su[i] = st[i]
  <2> SUFFICES ASSUME NEW i \in 1..Len(su) PROVE i \in 1..Len(st) /\ su[i] = st[i]
    OBVIOUS
  <2>1. i \in 1..Len(st)
    BY <1>1, <1>3, <1>4
  <2>2. CASE i <= Len(s)
    BY <1>3, <1>4, <2>2
  <2>3. CASE i > Len(s)
    <3> DEFINE m == i - Len(s)
    <3>1. m \in 1..k /\ m \in 1..Len(t) /\ i = Len(s) + m
      BY <1>1, <1>3, <1>4, <2>3
    <3> HIDE DEF m
    <3> QED BY <1>2, <1>3, <1>4, <2>1, <3>1
  <2> QED BY <1>3, <2>1, <2>2, <2>3
<1>6. Embeds(st, x)
  BY DEF st
<1>7. Embeds(su, x)
  BY <1>5, <1>6 DEF Embeds
<1> QED BY <1>7 DEF su, u

LEMMA ModOfNegative ==
  ASSUME NEW m \in Nat, NEW s \in 0..(m - 1)
  PROVE  (s - m) % m = s
BY Z3

\* What a write of n bytes puts on the wire and queues: all of the call's bytes,
\* or none but the rest, behind the byte that is not the caller's.
LEMMA RestEmbeds ==
  ASSUME NEW c \in Call, NEW n \in WriteResults(Size[c])
  PROVE  Embeds(SubSeq(Bytes(c), 1, IF n = SizeMax THEN 0 ELSE n) \o Rest(c, n), Bytes(c))
<1>1. /\ Size[c] \in Nat /\ SizeMax \in Nat /\ Size[c] + 1 < SizeMax
      /\ Bytes(c) = [i \in 1..Size[c] |-> <<c, i>>]
      /\ Len(Bytes(c)) = Size[c]
  BY CallsAssumption, BytesType DEF Bytes
<1>2. CASE n # SizeMax
  <2>1. n \in 0..Size[c]
    BY <1>1, <1>2 DEF WriteResults
  <2>2. SubSeq(Bytes(c), 1, n) \o Rest(c, n) = Bytes(c)
    BY <2>1, RestCompletesBytes
  <2>3. \A i \in 1..Len(Bytes(c)) : Bytes(c)[i] = Bytes(c)[i]
    OBVIOUS
  <2>4. Embeds(Bytes(c), Bytes(c))
    BY DEF Embeds
  <2> QED BY <1>2, <2>2, <2>4
<1>3. CASE n = SizeMax
  <2>1. (Size[c] - n) % (SizeMax + 1) = Size[c] + 1
    <3>1. /\ SizeMax + 1 \in Nat /\ Size[c] + 1 \in 0..((SizeMax + 1) - 1)
          /\ Size[c] - n = (Size[c] + 1) - (SizeMax + 1)
      BY <1>1, <1>3
    <3> QED BY <3>1, ModOfNegative
  <2>2. Rest(c, n) = [i \in 1..(Size[c] + 1) |-> <<c, -1 + i>>]
    BY <1>3, <2>1 DEF Rest
  <2>3. Rest(c, n) \in Seq(Byte) /\ Len(Rest(c, n)) = Size[c] + 1
    <3>1. Size[c] + 1 \in Nat
      BY <1>1
    <3>2. Len([i \in 1..(Size[c] + 1) |-> <<c, -1 + i>>]) = Size[c] + 1
      BY <3>1
    <3> QED BY <2>2, <3>2, RestIsBytes
  <2>4. SubSeq(Bytes(c), 1, 0) = <<>>
    BY SubSeqEmpty
  <2>5. \A i \in 1..(Size[c] + 1) :
          Real(Rest(c, n)[i]) => i - 1 \in 1..Size[c] /\ Bytes(c)[i - 1] = Rest(c, n)[i]
    BY <1>1, <2>2 DEF Real
  <2>6. Embeds(Rest(c, n), Bytes(c))
    <3>1. \A i \in 1..(Size[c] + 1) : Real(Rest(c, n)[i]) =>
            \E k \in 1..Size[c] : Bytes(c)[k] = Rest(c, n)[i]
      BY <2>5
    <3>2. ASSUME NEW i \in 1..(Size[c] + 1), NEW j \in 1..(Size[c] + 1), i < j,
                 Real(Rest(c, n)[i]), Real(Rest(c, n)[j])
          PROVE  \E k, l \in 1..Size[c] :
                   k < l /\ Bytes(c)[k] = Rest(c, n)[i] /\ Bytes(c)[l] = Rest(c, n)[j]
      <4>1. i - 1 < j - 1
        BY <1>1, <3>2
      <4> QED BY <2>5, <3>2, <4>1
    <3>3. Len(Bytes(c)) = Size[c]
      BY <1>1
    <3> QED BY ONLY <2>3, <3>1, <3>2, <3>3 DEF Embeds
  <2>7. <<>> \o Rest(c, n) = Rest(c, n)
    BY <2>3, ConcatEmptySeq
  <2> QED BY <1>3, <2>4, <2>6, <2>7
<1> QED BY <1>2, <1>3

-----------------------------------------------------------------------------
(***************************************************************************)
(* Every step keeps the order.                                             *)
(***************************************************************************)
LEMMA EmbedsSelf ==
  ASSUME NEW c \in Call
  PROVE  Embeds(Bytes(c), Bytes(c))
BY DEF Embeds

LEMMA SendInLoopOrder ==
  ASSUME IInv, OrderInv, NEW c \in Call, SendInLoop(c)
  PROVE  /\ Embeds(wire' \o io_vec_list_', accepted')
         /\ accepted' = accepted \/ accepted' = accepted \o Bytes(c)
<1>1. /\ io_vec_list_ \in Seq(Byte) /\ wire \in Seq(Byte) /\ accepted \in Seq(Byte)
      /\ Bytes(c) \in Seq(Byte) /\ Size[c] \in Nat /\ Len(Bytes(c)) = Size[c]
      /\ wire \o io_vec_list_ \in Seq(Byte)
      /\ Embeds(wire \o io_vec_list_, accepted)
  BY BytesType, CallsAssumption, ConcatProperties DEF IInv, TypeOK, OrderInv
<1>2. CASE closed_
  BY <1>1, <1>2 DEF SendInLoop
<1>3. CASE ~closed_
  <2>1. accepted' = accepted \o Bytes(c)
    BY <1>3 DEF SendInLoop
  <2>2. ASSUME QueueBytes(Bytes(c)), wire' = wire
        PROVE  Embeds(wire' \o io_vec_list_', accepted')
    <3>1. wire' \o io_vec_list_' = (wire \o io_vec_list_) \o Bytes(c)
      BY <1>1, <2>2, BytesConcat DEF QueueBytes
    <3>2. Embeds((wire \o io_vec_list_) \o Bytes(c), accepted \o Bytes(c))
      BY <1>1, EmbedsSelf, EmbedsJoin
    <3> QED BY ONLY <2>1, <3>1, <3>2
  <2>3. CASE c \in ByList \/ io_vec_list_ # <<>>
    BY <1>3, <2>1, <2>2, <2>3 DEF SendInLoop, WriteLater, WriteNow
  <2>4. CASE c \notin ByList /\ io_vec_list_ = <<>>
    <3> PICK n \in WriteResults(Size[c]) :
          /\ wire' = wire \o SubSeq(Bytes(c), 1, IF n = SizeMax THEN 0 ELSE n)
          /\ IF Rest(c, n) = <<>>
               THEN WriteComplete /\ UNCHANGED <<io_vec_list_, writing>>
               ELSE QueueBytes(Rest(c, n))
      BY <1>3, <2>4 DEF SendInLoop, WriteNow
    <3> DEFINE k == IF n = SizeMax THEN 0 ELSE n
               w == SubSeq(Bytes(c), 1, k)
    <3>1. Rest(c, n) \in Seq(Byte)
      BY RestIsBytes
    <3>2. io_vec_list_' = Rest(c, n)
      BY <2>4, <3>1, ConcatEmptySeq DEF QueueBytes
    <3>3. k \in 0..Size[c]
      BY <1>1 DEF WriteResults
    <3>4. w \in Seq(Byte)
      BY <1>1, <3>3, SubSeqProperties
    <3>5. Embeds(w \o Rest(c, n), Bytes(c))
      BY RestEmbeds
    <3>6. wire' = wire \o w
      OBVIOUS
    <3> HIDE DEF k, w
    <3>7. w \o Rest(c, n) \in Seq(Byte)
      BY <3>1, <3>4, ConcatProperties
    <3>8. wire' \o io_vec_list_' = wire \o (w \o Rest(c, n))
      <4>1. (wire \o w) \o Rest(c, n) = wire \o (w \o Rest(c, n))
        <5>1. wire \in Seq(Byte)
          BY <1>1
        <5> QED BY ONLY <3>1, <3>4, <5>1, BytesConcat
      <4> QED BY ONLY <3>2, <3>6, <4>1
    <3>9. Embeds(wire, accepted)
      BY <1>1, <2>4, ConcatEmptySeq
    <3>10. Embeds(wire \o (w \o Rest(c, n)), accepted \o Bytes(c))
      BY <1>1, <3>5, <3>7, <3>9, EmbedsJoin
    <3> QED BY ONLY <2>1, <3>8, <3>10
  <2> QED BY <2>1, <2>3, <2>4
<1> QED BY <1>2, <1>3

\* A call whose bytes are taken on was not taken on before.
LEMMA AcceptOnce ==
  ASSUME NEW x \in Seq(Byte), NEW c \in Call, Once(x), \A i \in 1..Len(x) : x[i][1] # c
  PROVE  /\ Once(x \o Bytes(c))
         /\ \A i \in 1..Len(x \o Bytes(c)) :
              \/ (x \o Bytes(c))[i][1] = c
              \/ \E k \in 1..Len(x) : (x \o Bytes(c))[i] = x[k]
<1> DEFINE y == Bytes(c)
           xy == x \o y
<1>1. y \in Seq(Byte) /\ \A i \in 1..Len(y) : y[i] = <<c, i>>
  BY BytesType, CallsAssumption DEF Bytes
<1> HIDE DEF y
<1>2. /\ Len(x) \in Nat /\ Len(xy) \in Nat
      /\ \A i \in 1..Len(x) : xy[i] = x[i]
      /\ \A i \in 1..Len(xy) :
           \/ i \in 1..Len(x)
           \/ i - Len(x) \in 1..Len(y) /\ i > Len(x) /\ xy[i] = y[i - Len(x)]
  BY <1>1, ConcatAt, LenProperties
<1> HIDE DEF xy
<1>3. \A i \in 1..Len(xy) : i \notin 1..Len(x) => xy[i] = <<c, i - Len(x)>>
  BY <1>1, <1>2
<1>4. \A i \in 1..Len(x) : xy[i][1] # c
  BY <1>2
<1>5. ASSUME NEW i \in 1..Len(xy), NEW j \in 1..Len(xy), xy[i] = xy[j] PROVE i = j
  <2>1. CASE i \in 1..Len(x)
    <3>1. j \in 1..Len(x)
      BY <1>3, <1>4, <1>5, <2>1
    <3> QED BY <1>2, <1>5, <2>1, <3>1 DEF Once
  <2>2. CASE i \notin 1..Len(x)
    <3>1. j \notin 1..Len(x)
      BY <1>3, <1>4, <1>5, <2>2
    <3>2. i - Len(x) = j - Len(x)
      BY <1>3, <1>5, <2>2, <3>1
    <3> QED BY <1>2, <3>2
  <2> QED BY <2>1, <2>2
<1>6. \A i \in 1..Len(xy) : xy[i][1] = c \/ \E k \in 1..Len(x) : xy[i] = x[k]
  BY <1>2, <1>3
<1>7. Once(xy)
  BY <1>5 DEF Once
<1> QED BY <1>6, <1>7 DEF xy, y

\* sendInLoop of a call that no one else will send.
LEMMA SendInLoopCalls ==
  ASSUME IInv, OrderInv, NEW c \in Call, SendInLoop(c),
         \A i \in 1..Len(accepted) : accepted[i][1] # c,
         Once(posted'), c \notin unsent', unsent' \subseteq unsent,
         \A p \in 1..Len(posted') :
           /\ posted'[p] # c
           /\ \E q \in 1..Len(posted) : posted'[p] = posted[q]
  PROVE  OrderInv'
<1>1. /\ Embeds(wire' \o io_vec_list_', accepted')
      /\ accepted' = accepted \/ accepted' = accepted \o Bytes(c)
  BY SendInLoopOrder
<1>2. Once(accepted) /\ accepted \in Seq(Byte)
  BY DEF IInv, TypeOK, OrderInv, CallsInv
<1>3. /\ Once(accepted')
      /\ \A i \in 1..Len(accepted') :
           \/ accepted'[i][1] = c
           \/ \E k \in 1..Len(accepted) : accepted'[i] = accepted[k]
  <2>1. CASE accepted' = accepted
    BY <1>2, <2>1
  <2>2. CASE accepted' = accepted \o Bytes(c)
    BY <1>2, <2>2, AcceptOnce
  <2> QED BY <1>1, <2>1, <2>2
<1>4. \A p \in 1..Len(posted') : posted'[p] \notin unsent'
  BY DEF OrderInv, CallsInv
<1>5. ASSUME NEW i \in 1..Len(accepted')
      PROVE  /\ accepted'[i][1] \notin unsent'
             /\ \A p \in 1..Len(posted') : posted'[p] # accepted'[i][1]
  BY <1>3 DEF OrderInv, CallsInv
<1> QED BY <1>1, <1>3, <1>4, <1>5 DEF OrderInv, CallsInv

LEMMA SendOrder ==
  ASSUME IInv, OrderInv, NEW c \in Call, Send(c)
  PROVE  OrderInv'
<1>1. /\ c \in unsent /\ unsent' = unsent \ {c} /\ SendInLoop(c) /\ posted' = posted
  BY DEF Send
<1>2. /\ \A i \in 1..Len(accepted) : accepted[i][1] # c
      /\ \A p \in 1..Len(posted) : posted[p] # c
      /\ Once(posted)
  BY <1>1 DEF OrderInv, CallsInv
<1> QED BY <1>1, <1>2, SendInLoopCalls

LEMMA RunPostedOrder ==
  ASSUME IInv, OrderInv, RunPosted
  PROVE  OrderInv'
<1>1. posted \in Seq(ByOther) /\ posted # <<>>
  BY DEF IInv, TypeOK, RunPosted
<1>2. /\ Len(posted) \in Nat /\ Len(posted) >= 1
      /\ Head(posted) = posted[1] /\ Len(Tail(posted)) = Len(posted) - 1
      /\ \A p \in 1..(Len(posted) - 1) : Tail(posted)[p] = posted[p + 1]
  BY <1>1
<1>3. /\ Head(posted) \in Call /\ SendInLoop(Head(posted))
      /\ posted' = Tail(posted) /\ unsent' = unsent
  BY <1>1, CallsAssumption, HeadTailProperties DEF RunPosted
<1>4. \A p \in 1..Len(posted') :
        p + 1 \in 1..Len(posted) /\ posted'[p] = posted[p + 1] /\ p + 1 # 1
  BY <1>2, <1>3
<1>5. 1 \in 1..Len(posted)
  BY <1>2
<1>6. /\ Head(posted) \notin unsent'
      /\ \A i \in 1..Len(accepted) : accepted[i][1] # Head(posted)
  BY <1>2, <1>3, <1>5 DEF OrderInv, CallsInv
<1>7. \A p \in 1..Len(posted') : posted'[p] # Head(posted)
  BY <1>2, <1>4, <1>5 DEF OrderInv, CallsInv, Once
<1>8. Once(posted')
  <2> SUFFICES ASSUME NEW p \in 1..Len(posted'), NEW q \in 1..Len(posted'),
                      posted'[p] = posted'[q]
               PROVE  p = q
    BY DEF Once
  <2>1. p + 1 = q + 1
    BY <1>4 DEF OrderInv, CallsInv, Once
  <2> QED BY <2>1
<1> QED BY <1>3, <1>4, <1>6, <1>7, <1>8, SendInLoopCalls

LEMMA PostSendOrder ==
  ASSUME IInv, OrderInv, NEW c \in Call, PostSend(c)
  PROVE  OrderInv'
<1>1. /\ c \in unsent /\ c \in ByOther /\ unsent' = unsent \ {c}
      /\ posted' = posted \/ posted' = Append(posted, c)
      /\ UNCHANGED <<accepted, wire, io_vec_list_>>
  BY DEF PostSend
<1>2. /\ \A i \in 1..Len(accepted) : accepted[i][1] # c
      /\ \A p \in 1..Len(posted) : posted[p] # c
  BY <1>1 DEF OrderInv, CallsInv
<1>3. /\ Once(posted')
      /\ \A p \in 1..Len(posted') :
           posted'[p] = c \/ \E q \in 1..Len(posted) : posted'[p] = posted[q]
  <2>1. CASE posted' = posted
    BY <2>1 DEF OrderInv, CallsInv
  <2>2. CASE posted' = Append(posted, c)
    <3>1. posted \in Seq(ByOther) /\ Len(posted) \in Nat
      BY LenProperties DEF IInv, TypeOK
    <3>2. /\ Len(posted') = Len(posted) + 1 /\ posted'[Len(posted) + 1] = c
          /\ \A p \in 1..Len(posted) : posted'[p] = posted[p]
      BY <1>1, <2>2, <3>1, AppendProperties
    <3>3. \A p \in 1..Len(posted') : p \in 1..Len(posted) \/ p = Len(posted) + 1
      BY <3>1, <3>2
    <3>4. Once(posted)
      BY DEF OrderInv, CallsInv
    <3> QED BY <1>2, <3>2, <3>3, <3>4 DEF Once
  <2> QED BY <1>1, <2>1, <2>2
<1>4. \A p \in 1..Len(posted') : posted'[p] \notin unsent'
  BY <1>1, <1>3 DEF OrderInv, CallsInv
<1>5. \A i \in 1..Len(accepted) :
        /\ accepted[i][1] \notin unsent'
        /\ \A p \in 1..Len(posted') : posted'[p] # accepted[i][1]
  BY <1>1, <1>2, <1>3 DEF OrderInv, CallsInv
<1> QED BY <1>1, <1>3, <1>4, <1>5 DEF OrderInv, CallsInv

LEMMA OnWriteOrder ==
  ASSUME IInv, OrderInv, OnWrite
  PROVE  OrderInv'
<1>1. io_vec_list_ \in Seq(Byte) /\ wire \in Seq(Byte)
  BY DEF IInv, TypeOK
<1>2. PICK k \in 0..Len(io_vec_list_) : wire' = wire \o SubSeq(io_vec_list_, 1, k)
  BY DEF OnWrite
<1>3. io_vec_list_' = <<>> /\ UNCHANGED <<posted, unsent, accepted>>
  BY DEF OnWrite
<1>4. wire' \in Seq(Byte)
  <2>1. SubSeq(io_vec_list_, 1, k) \in Seq(Byte)
    BY <1>1, SubSeqProperties
  <2> QED BY <1>1, <1>2, <2>1, ConcatProperties
<1>5. wire' \o io_vec_list_' = wire'
  BY <1>3, <1>4, ConcatEmptySeq
<1>6. Embeds(wire', accepted)
  BY <1>1, <1>2, EmbedsPrefix DEF OrderInv
<1> QED BY <1>3, <1>5, <1>6 DEF OrderInv, CallsInv

LEMMA OrderInvariant == Spec => []OrderInv
<1>1. Init => OrderInv
  <2> SUFFICES ASSUME Init PROVE OrderInv
    OBVIOUS
  <2>1. /\ posted = <<>> /\ accepted = <<>> /\ wire \o io_vec_list_ = <<>>
    BY EmptySeq, ConcatEmptySeq DEF Init
  <2>2. Len(<<>>) = 0
    BY EmptySeq
  <2> QED BY <2>1, <2>2 DEF OrderInv, CallsInv, Once, Embeds
<1>2. IInv /\ OrderInv /\ [Next]_vars => OrderInv'
  <2> SUFFICES ASSUME IInv, OrderInv, [Next]_vars PROVE OrderInv'
    OBVIOUS
  <2>1. CASE Arrive \/ OnRead \/ OnClose \/ Return \/ UNCHANGED vars
    <3>1. UNCHANGED <<posted, unsent, accepted, wire, io_vec_list_>>
      BY <2>1 DEF Arrive, OnRead, OnClose, Return, vars
    <3> QED BY <3>1 DEF OrderInv, CallsInv
  <2> QED BY <2>1, SendOrder, PostSendOrder, RunPostedOrder, OnWriteOrder DEF Next
<1> QED BY <1>1, <1>2, InductiveInvariant, PTL DEF Spec

\* The caller's bytes reach the kernel in the order in which sendInLoop took them
\* on, none twice, for any calls of any sizes: also after the kernel has refused
\* bytes, when some of them are missing and others have another byte before them.
THEOREM BytesStayInOrder == Spec => []WireInOrder
<1>1. IInv /\ OrderInv => WireInOrder
  <2> SUFFICES ASSUME IInv, OrderInv, NEW i \in 1..Len(wire), NEW j \in 1..Len(wire),
                      i < j, Real(wire[i]), Real(wire[j])
               PROVE  Position(wire[i]) < Position(wire[j])
    BY DEF WireInOrder, Real
  <2> DEFINE line == wire \o io_vec_list_
  <2>1. /\ i \in 1..Len(line) /\ line[i] = wire[i]
        /\ j \in 1..Len(line) /\ line[j] = wire[j]
    BY ConcatAt DEF IInv, TypeOK
  <2>2. Embeds(line, accepted) /\ Once(accepted)
    BY DEF OrderInv, CallsInv
  <2> HIDE DEF line
  <2>3. PICK k \in 1..Len(accepted), l \in 1..Len(accepted) :
          k < l /\ accepted[k] = wire[i] /\ accepted[l] = wire[j]
    BY <2>1, <2>2 DEF Embeds
  <2>4. \A m \in 1..Len(accepted) : Position(accepted[m]) = m
    BY <2>2 DEF Once, Position
  <2>5. Position(wire[i]) = k /\ Position(wire[j]) = l
    BY <2>3, <2>4
  <2> QED BY <2>3, <2>5
<1> QED BY <1>1, InductiveInvariant, OrderInvariant, PTL

=============================================================================
