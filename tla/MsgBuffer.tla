----------------------------- MODULE MsgBuffer -----------------------------
(***************************************************************************)
(* The buffer between a socket and the code that parses its bytes          *)
(* (network/base/MsgBuffer.{h,cpp}): one vector, split by two indices into *)
(* prependable, readable and writable bytes.  Room is made by moving the   *)
(* readable bytes to the front, by growing the vector, or, when readv has  *)
(* filled the vector, by appending what it spilled into a stack buffer.    *)
(*                                                                         *)
(* A byte's position in the code is its index here minus one.  A caller    *)
(* keeps to the assertions of the operation it calls; what it assumes      *)
(* before readInt64 and its siblings is a parameter, Requirement.          *)
(***************************************************************************)
EXTENDS Integers, Sequences

CONSTANTS
  Byte,
  Blank,           \* the byte that vector::resize fills with
  Chunk,           \* byte strings appended, prepended or read from a socket
  kCheapPrepend,
  kInitialSize,
  ExtraSize,       \* size of extrabuf in readFd
  IntSize,         \* sizes of the integers that are read
  Requirement,     \* bytes a caller makes sure of before it reads an integer
  MaxChunk,        \* no chunk is longer
  MaxReadable      \* bound: bytes the reader lets pile up

ASSUME BytesAssumption ==
  /\ Blank \in Byte
  /\ Chunk \subseteq Seq(Byte)
  /\ \A s \in Chunk : Len(s) <= MaxChunk

ASSUME SizesAssumption ==
  /\ kCheapPrepend \in Nat
  /\ kInitialSize \in Nat
  /\ ExtraSize \in Nat
  /\ MaxChunk \in Nat
  /\ MaxReadable \in Nat
  /\ IntSize \subseteq Nat
  /\ Requirement \in [IntSize -> Nat]

VARIABLES
  msg,       \* the buffer: buffer_, readerIndex_ and writerIndex_
  aborted    \* an assertion failed and the program has stopped

vars == <<msg, aborted>>

-----------------------------------------------------------------------------
readableBytes(b) == b.writerIndex_ - b.readerIndex_
writableBytes(b) == Len(b.buffer_) - b.writerIndex_
prependableBytes(b) == b.readerIndex_

Content(b) == SubSeq(b.buffer_, b.readerIndex_ + 1, b.writerIndex_)

NewBuffer(initialSize) ==
  [buffer_ |-> [i \in 1..(kCheapPrepend + initialSize) |-> Blank],
   readerIndex_ |-> kCheapPrepend,
   writerIndex_ |-> kCheapPrepend]

\* vector::resize to a larger size, and std::copy of s to offset at.
Resized(buffer, size) ==
  [i \in 1..size |-> IF i <= Len(buffer) THEN buffer[i] ELSE Blank]

Copied(buffer, at, s) ==
  [i \in 1..Len(buffer) |->
    IF i > at /\ i <= at + Len(s) THEN s[i - at] ELSE buffer[i]]

Grow(b, len) == [b EXCEPT !.buffer_ = Resized(@, b.writerIndex_ + len)]

\* Mutant: the bytes move and the writer's index stays.
MoveToFrontKeepWriter(b) ==
  [b EXCEPT !.buffer_ = Copied(@, kCheapPrepend, Content(b)),
            !.readerIndex_ = kCheapPrepend]

\* Mutant: the bytes move and the reader's index stays.
MoveToFrontKeepReader(b) ==
  [b EXCEPT !.buffer_ = Copied(@, kCheapPrepend, Content(b)),
            !.writerIndex_ = kCheapPrepend + readableBytes(b)]

MoveToFront(b) ==
  [buffer_ |-> Copied(b.buffer_, kCheapPrepend, Content(b)),
   readerIndex_ |-> kCheapPrepend,
   writerIndex_ |-> kCheapPrepend + readableBytes(b)]

\* Mutant: the vector grows where the prependable bytes had room.
makeSpaceByGrowth(b, len) == Grow(b, len)

makeSpace(b, len) ==
  IF writableBytes(b) + prependableBytes(b) < len + kCheapPrepend
    THEN Grow(b, len)
    ELSE MoveToFront(b)

ensureWritableBytes(b, len) ==
  IF writableBytes(b) < len THEN makeSpace(b, len) ELSE b

Written(b, s) ==
  [buffer_ |-> Copied(b.buffer_, b.writerIndex_, s),
   readerIndex_ |-> b.readerIndex_,
   writerIndex_ |-> b.writerIndex_ + Len(s)]

append(b, s) == Written(ensureWritableBytes(b, Len(s)), s)

retrieveAll(b) ==
  [buffer_ |-> b.buffer_,
   readerIndex_ |-> kCheapPrepend,
   writerIndex_ |-> kCheapPrepend]

retrieve(b, len) ==
  IF len < readableBytes(b) THEN [b EXCEPT !.readerIndex_ = @ + len]
                            ELSE retrieveAll(b)

unwrite(b, len) == [b EXCEPT !.writerIndex_ = @ - len]

prepend(b, s) ==
  [buffer_ |-> Copied(b.buffer_, b.readerIndex_ - Len(s), s),
   readerIndex_ |-> b.readerIndex_ - Len(s),
   writerIndex_ |-> b.writerIndex_]

shrink(b, reserve) ==
  append(ensureWritableBytes(NewBuffer(kInitialSize),
                             readableBytes(b) + reserve),
         Content(b))

\* readv fills the writable bytes first and then extrabuf, which takes part
\* only while it is larger than they are.
Readable(b) ==
  {s \in Chunk :
     Len(s) <= writableBytes(b)
                 + (IF writableBytes(b) < ExtraSize THEN ExtraSize ELSE 0)}

readFd(b, s) ==
  LET writable == writableBytes(b)
  IN IF Len(s) <= writable THEN Written(b, s)
     ELSE append(Written(b, SubSeq(s, 1, writable)),
                 SubSeq(s, writable + 1, Len(s)))

-----------------------------------------------------------------------------
Init ==
  /\ msg = NewBuffer(kInitialSize)
  /\ aborted = FALSE

\* The reader lets no more than MaxReadable bytes pile up.
HasRoom(len) == readableBytes(msg) + len <= MaxReadable

AppendBytes(s) ==
  /\ HasRoom(Len(s))
  /\ msg' = append(msg, s)
  /\ UNCHANGED aborted

ReadFd(s) ==
  /\ s \in Readable(msg)
  /\ HasRoom(Len(s))
  /\ msg' = readFd(msg, s)
  /\ UNCHANGED aborted

Retrieve(len) ==
  /\ len <= readableBytes(msg)
  /\ msg' = retrieve(msg, len)
  /\ UNCHANGED aborted

\* peekInt64 and its siblings assert that the integer is there; retrieveInt64
\* and its siblings take its bytes.
ReadInt(size) ==
  /\ Requirement[size] <= readableBytes(msg)
  /\ IF size <= readableBytes(msg)
       THEN /\ msg' = retrieve(msg, size)
            /\ UNCHANGED aborted
       ELSE /\ aborted' = TRUE
            /\ UNCHANGED msg

Unwrite(len) ==
  /\ len <= readableBytes(msg)
  /\ msg' = unwrite(msg, len)
  /\ UNCHANGED aborted

Prepend(s) ==
  /\ Len(s) <= prependableBytes(msg)
  /\ HasRoom(Len(s))
  /\ msg' = prepend(msg, s)
  /\ UNCHANGED aborted

Shrink(reserve) ==
  /\ msg' = shrink(msg, reserve)
  /\ UNCHANGED aborted

Next ==
  /\ ~aborted
  /\ \/ \E s \in Chunk : AppendBytes(s) \/ ReadFd(s) \/ Prepend(s)
     \/ \E len \in 0..MaxReadable : Retrieve(len) \/ Unwrite(len)
     \/ \E size \in IntSize : ReadInt(size)
     \/ \E reserve \in 0..MaxChunk : Shrink(reserve)

Spec == Init /\ [][Next]_vars

-----------------------------------------------------------------------------
\* The indices keep the order that the class draws: 0 <= readerIndex <=
\* writerIndex <= size.
TypeOK ==
  /\ msg \in [buffer_ : Seq(Byte), readerIndex_ : Nat, writerIndex_ : Nat]
  /\ msg.readerIndex_ <= msg.writerIndex_
  /\ msg.writerIndex_ <= Len(msg.buffer_)
  /\ readableBytes(msg) <= MaxReadable
  /\ aborted \in BOOLEAN

\* Moving, growing, spilling and shrinking lose no byte and reorder none
\* (makeSpace, readFd, shrink).
Queue == INSTANCE ByteQueue WITH content <- Content(msg)
ImplementsByteQueue == Queue!Spec

\* While the reader keeps up, the vector stays as small: makeSpace moves the
\* bytes to the front before it grows, however long the connection lives.
MostBytes ==
  LET most == MaxReadable + MaxChunk
  IN kCheapPrepend + (IF most > kInitialSize THEN most ELSE kInitialSize)
GrowthBounded == Len(msg.buffer_) <= MostBytes

\* A caller that makes sure of what the comments require meets no assertion
\* (readInt64 and its siblings).
NeverAborts == ~aborted

=============================================================================
