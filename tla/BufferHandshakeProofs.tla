----------------------- MODULE BufferHandshakeProofs -----------------------
(***************************************************************************)
(* Proofs about what arrives on a connection, MsgBuffer that keeps it and  *)
(* RtmpHandshake that takes it.                                            *)
(*                                                                         *)
(* MsgBuffer: its indices keep their order, its vector stays bounded while *)
(* the reader keeps up, and its content is a queue of bytes, for any sizes *)
(* of the vector, of the prependable part and of extrabuf.  The state is   *)
(* one record, so each operation has a lemma of its own: what it makes of  *)
(* a well-formed buffer, of its content and of its length.                 *)
(*                                                                         *)
(* RtmpHandshake: the server's packets go out in order and done means that *)
(* the packets of both sides were exchanged, for any size of the packets.  *)
(* Each action of an end has a lemma of what it keeps (its types, the      *)
(* bytes it takes from the stream and those it adds to it), and then one   *)
(* of what it makes of the state of that end and of the other's.           *)
(***************************************************************************)
EXTENDS MsgBuffer, RtmpHandshake, SequenceTheorems, TLAPS

-----------------------------------------------------------------------------
(***************************************************************************)
(* MsgBuffer.                                                              *)
(***************************************************************************)
Buffer == [buffer_ : Seq(Byte), readerIndex_ : Nat, writerIndex_ : Nat]

WellFormed(b) ==
  /\ b \in Buffer
  /\ b.readerIndex_ <= b.writerIndex_
  /\ b.writerIndex_ <= Len(b.buffer_)
  /\ kCheapPrepend <= Len(b.buffer_)    \* retrieveAll resets to it

-----------------------------------------------------------------------------
(***************************************************************************)
(* The vector: resize and copy.                                            *)
(***************************************************************************)

\* resize to a larger size keeps every byte and yields a vector of that size.
LEMMA ResizedProperties ==
  ASSUME NEW s \in Seq(Byte), NEW n \in Nat, Len(s) <= n
  PROVE  /\ Resized(s, n) \in Seq(Byte)
         /\ Len(Resized(s, n)) = n
         /\ \A i \in 1..Len(s) : Resized(s, n)[i] = s[i]
<1>1. Len(s) \in Nat /\ \A i \in 1..Len(s) : s[i] \in Byte
  BY LenProperties, ElementOfSeq
<1>2. \A i \in 1..n : (IF i <= Len(s) THEN s[i] ELSE Blank) \in Byte
  BY <1>1, BytesAssumption
<1>3. Resized(s, n) \in [1..n -> Byte]
  BY <1>2 DEF Resized
<1>4. Resized(s, n) \in Seq(Byte)
  BY <1>3, SeqDef
<1>5. Len(Resized(s, n)) = n
  BY <1>3, <1>4, LenProperties
<1> QED
  BY <1>1, <1>4, <1>5 DEF Resized

\* copy changes the bytes it is given to write and no others.
LEMMA CopiedProperties ==
  ASSUME NEW v \in Seq(Byte), NEW at \in Nat, NEW s \in Seq(Byte)
  PROVE  /\ Copied(v, at, s) \in Seq(Byte)
         /\ Len(Copied(v, at, s)) = Len(v)
         /\ \A i \in 1..Len(v) :
              Copied(v, at, s)[i] =
                IF i > at /\ i <= at + Len(s) THEN s[i - at] ELSE v[i]
<1>1. /\ Len(v) \in Nat /\ \A i \in 1..Len(v) : v[i] \in Byte
      /\ Len(s) \in Nat /\ \A i \in 1..Len(s) : s[i] \in Byte
  BY LenProperties, ElementOfSeq
<1>2. \A i \in 1..Len(v) :
        (IF i > at /\ i <= at + Len(s) THEN s[i - at] ELSE v[i]) \in Byte
  <2> TAKE i \in 1..Len(v)
  <2>1. CASE i > at /\ i <= at + Len(s)
    <3>1. i - at \in 1..Len(s)
      BY <1>1, <2>1
    <3> QED
      BY <1>1, <2>1, <3>1
  <2>2. CASE ~(i > at /\ i <= at + Len(s))
    BY <1>1, <2>2
  <2> QED
    BY <2>1, <2>2
<1>3. Copied(v, at, s) \in [1..Len(v) -> Byte]
  BY <1>2 DEF Copied
<1>4. Copied(v, at, s) \in Seq(Byte)
  BY <1>1, <1>3, SeqDef
<1>5. Len(Copied(v, at, s)) = Len(v)
  BY <1>1, <1>3, <1>4, LenProperties
<1> QED
  BY <1>4, <1>5 DEF Copied

-----------------------------------------------------------------------------
(***************************************************************************)
(* The content of a well-formed buffer.                                    *)
(***************************************************************************)

\* The content is the readable bytes, in the order of their positions.
LEMMA ContentProperties ==
  ASSUME NEW b, WellFormed(b)
  PROVE  /\ Content(b) \in Seq(Byte)
         /\ Len(Content(b)) = b.writerIndex_ - b.readerIndex_
         /\ \A i \in 1..(b.writerIndex_ - b.readerIndex_) :
              Content(b)[i] = b.buffer_[b.readerIndex_ + i]
<1>1. /\ b.buffer_ \in Seq(Byte) /\ Len(b.buffer_) \in Nat
      /\ b.readerIndex_ \in Nat /\ b.writerIndex_ \in Nat
      /\ b.readerIndex_ <= b.writerIndex_
      /\ b.writerIndex_ <= Len(b.buffer_)
  BY LenProperties DEF WellFormed, Buffer
<1>2. \A i \in (b.readerIndex_ + 1)..b.writerIndex_ : b.buffer_[i] \in Byte
  BY <1>1, ElementOfSeq
<1> QED
  BY <1>1, <1>2, SubSeqProperties DEF Content

\* A buffer whose readable bytes are those of s has s as its content.
LEMMA ContentIs ==
  ASSUME NEW b, WellFormed(b), NEW s \in Seq(Byte),
         Len(s) = b.writerIndex_ - b.readerIndex_,
         \A i \in 1..Len(s) : b.buffer_[b.readerIndex_ + i] = s[i]
  PROVE  Content(b) = s
<1>1. Len(Content(b)) = Len(s) /\ Content(b) \in Seq(Byte)
  BY ContentProperties
<1>2. \A i \in 1..Len(Content(b)) : Content(b)[i] = s[i]
  BY <1>1, ContentProperties
<1> QED
  BY <1>1, <1>2, SeqEqual

\* What an index change alone makes of a buffer: a part of its content.
LEMMA ContentOfPart ==
  ASSUME NEW b, WellFormed(b), NEW c \in Buffer, c.buffer_ = b.buffer_,
         b.readerIndex_ <= c.readerIndex_, c.readerIndex_ <= c.writerIndex_,
         c.writerIndex_ <= b.writerIndex_
  PROVE  /\ WellFormed(c)
         /\ Content(c) = SubSeq(Content(b), c.readerIndex_ - b.readerIndex_ + 1,
                                c.writerIndex_ - b.readerIndex_)
<1> DEFINE m == c.readerIndex_ - b.readerIndex_ + 1
           n == c.writerIndex_ - b.readerIndex_
           s == SubSeq(Content(b), m, n)
<1>1. /\ b.readerIndex_ \in Nat /\ b.writerIndex_ \in Nat
      /\ c.readerIndex_ \in Nat /\ c.writerIndex_ \in Nat
      /\ b.writerIndex_ <= Len(b.buffer_)
      /\ Len(b.buffer_) \in Nat
  BY LenProperties DEF WellFormed, Buffer
<1>2. WellFormed(c)
  BY <1>1 DEF WellFormed
<1>3. m \in Int /\ n \in Int /\ 1 <= m /\ n <= b.writerIndex_ - b.readerIndex_
  BY <1>1
<1>4. \A i \in m..n : Content(b)[i] \in Byte
  <2> TAKE i \in m..n
  <2>1. i \in 1..Len(Content(b))
    BY <1>1, <1>3, ContentProperties
  <2> QED
    BY <2>1, ContentProperties, ElementOfSeq
<1>5. /\ s \in Seq(Byte)
      /\ Len(s) = IF m <= n THEN n - m + 1 ELSE 0
      /\ \A i \in 1..(n - m + 1) : s[i] = Content(b)[m + i - 1]
  BY <1>3, <1>4, SubSeqProperties
<1>6. Len(s) = c.writerIndex_ - c.readerIndex_
  BY <1>1, <1>3, <1>5
<1>7. \A i \in 1..Len(s) : c.buffer_[c.readerIndex_ + i] = s[i]
  <2> HIDE DEF s
  <2> TAKE i \in 1..Len(s)
  <2>0. i \in 1..(c.writerIndex_ - c.readerIndex_)
    BY <1>6
  <2>1. m + i - 1 \in 1..(b.writerIndex_ - b.readerIndex_) /\ i \in 1..(n - m + 1)
    <3> DEFINE r == b.readerIndex_
               w == b.writerIndex_
               x == c.readerIndex_
               y == c.writerIndex_
    <3>1. r \in Nat /\ w \in Nat /\ x \in Nat /\ y \in Nat /\ r <= x /\ y <= w
      BY <1>1
    <3>2. i \in 1..(y - x)
      BY <2>0
    <3> HIDE DEF r, w, x, y, m, n
    <3>3. m = x - r + 1 /\ n = y - r
      BY DEF m, n, r, x, y
    <3>4. m + i - 1 \in 1..(w - r) /\ i \in 1..(n - m + 1)
      BY <3>1, <3>2, <3>3
    <3> QED BY <3>4 DEF w, r
  <2>2. s[i] = b.buffer_[b.readerIndex_ + (m + i - 1)]
    BY <2>1, <1>5, ContentProperties
  <2>3. b.readerIndex_ + (m + i - 1) = c.readerIndex_ + i
    BY <1>1, <2>1
  <2> QED
    BY <2>2, <2>3
<1>8. Content(c) = s
  BY <1>2, <1>5, <1>6, <1>7, ContentIs
<1> QED
  BY <1>2, <1>8

-----------------------------------------------------------------------------
(***************************************************************************)
(* makeSpace and ensureWritableBytes.                                      *)
(***************************************************************************)

\* Facts every lemma below needs of a well-formed buffer.
LEMMA WellFormedFacts ==
  ASSUME NEW b, WellFormed(b)
  PROVE  /\ b.buffer_ \in Seq(Byte) /\ Len(b.buffer_) \in Nat
         /\ b.readerIndex_ \in Nat /\ b.writerIndex_ \in Nat
         /\ b.readerIndex_ <= b.writerIndex_
         /\ b.writerIndex_ <= Len(b.buffer_)
         /\ kCheapPrepend \in Nat /\ kCheapPrepend <= Len(b.buffer_)
         /\ b = [buffer_ |-> b.buffer_, readerIndex_ |-> b.readerIndex_,
                 writerIndex_ |-> b.writerIndex_]
BY LenProperties, SizesAssumption DEF WellFormed, Buffer

\* Growing leaves the content alone and makes just the room asked for.
LEMMA GrowProperties ==
  ASSUME NEW b, WellFormed(b), NEW len \in Nat, writableBytes(b) < len
  PROVE  /\ WellFormed(Grow(b, len))
         /\ Content(Grow(b, len)) = Content(b)
         /\ Len(Grow(b, len).buffer_) = b.writerIndex_ + len
         /\ readableBytes(Grow(b, len)) = readableBytes(b)
         /\ writableBytes(Grow(b, len)) = len
<1> DEFINE g == Grow(b, len)
<1>1. /\ b.buffer_ \in Seq(Byte) /\ Len(b.buffer_) \in Nat
      /\ b.readerIndex_ \in Nat /\ b.writerIndex_ \in Nat
      /\ b.readerIndex_ <= b.writerIndex_ /\ b.writerIndex_ <= Len(b.buffer_)
      /\ kCheapPrepend \in Nat /\ kCheapPrepend <= Len(b.buffer_)
  BY WellFormedFacts
<1>2. b.writerIndex_ + len \in Nat /\ Len(b.buffer_) <= b.writerIndex_ + len
  BY <1>1 DEF writableBytes
<1>3. g = [buffer_ |-> Resized(b.buffer_, b.writerIndex_ + len),
           readerIndex_ |-> b.readerIndex_, writerIndex_ |-> b.writerIndex_]
  BY WellFormedFacts DEF Grow
<1>4. /\ g.buffer_ \in Seq(Byte)
      /\ Len(g.buffer_) = b.writerIndex_ + len
      /\ \A i \in 1..Len(b.buffer_) : g.buffer_[i] = b.buffer_[i]
  BY <1>1, <1>2, <1>3, ResizedProperties
<1>5. g.readerIndex_ = b.readerIndex_ /\ g.writerIndex_ = b.writerIndex_
  BY <1>3
<1>6. WellFormed(g)
  <2>1. g \in Buffer
    BY <1>1, <1>3, <1>4 DEF Buffer
  <2> QED
    BY <2>1, <1>1, <1>2, <1>4, <1>5 DEF WellFormed
<1>7. \A i \in 1..Len(Content(b)) : g.buffer_[g.readerIndex_ + i] = Content(b)[i]
  <2> TAKE i \in 1..Len(Content(b))
  <2>1. i \in 1..(b.writerIndex_ - b.readerIndex_)
    BY ContentProperties
  <2>2. b.readerIndex_ + i \in 1..Len(b.buffer_)
    BY <1>1, <2>1
  <2> QED
    BY <2>1, <2>2, <1>4, <1>5, ContentProperties
<1>8. Content(g) = Content(b)
  BY <1>5, <1>6, <1>7, ContentIs, ContentProperties
<1> QED
  BY <1>1, <1>4, <1>5, <1>6, <1>8 DEF readableBytes, writableBytes

\* Moving keeps the content; the caller has found prependable bytes enough.
LEMMA MoveProperties ==
  ASSUME NEW b, WellFormed(b), b.readerIndex_ > kCheapPrepend
  PROVE  /\ WellFormed(MoveToFront(b))
         /\ Content(MoveToFront(b)) = Content(b)
         /\ Len(MoveToFront(b).buffer_) = Len(b.buffer_)
         /\ readableBytes(MoveToFront(b)) = readableBytes(b)
         /\ writableBytes(MoveToFront(b)) =
              writableBytes(b) + b.readerIndex_ - kCheapPrepend
<1> DEFINE g == MoveToFront(b)
<1>1. /\ b.buffer_ \in Seq(Byte) /\ Len(b.buffer_) \in Nat
      /\ b.readerIndex_ \in Nat /\ b.writerIndex_ \in Nat
      /\ b.readerIndex_ <= b.writerIndex_ /\ b.writerIndex_ <= Len(b.buffer_)
      /\ kCheapPrepend \in Nat /\ kCheapPrepend <= Len(b.buffer_)
  BY WellFormedFacts, SizesAssumption
<1>2. /\ Content(b) \in Seq(Byte)
      /\ Len(Content(b)) = b.writerIndex_ - b.readerIndex_
  BY ContentProperties
<1>3. /\ g.buffer_ = Copied(b.buffer_, kCheapPrepend, Content(b))
      /\ g.readerIndex_ = kCheapPrepend
      /\ g.writerIndex_ = kCheapPrepend + (b.writerIndex_ - b.readerIndex_)
  BY DEF MoveToFront, readableBytes
<1>4. /\ g.buffer_ \in Seq(Byte)
      /\ Len(g.buffer_) = Len(b.buffer_)
      /\ \A i \in 1..Len(b.buffer_) :
           g.buffer_[i] =
             IF i > kCheapPrepend /\ i <= kCheapPrepend + Len(Content(b))
               THEN Content(b)[i - kCheapPrepend] ELSE b.buffer_[i]
  <2> DEFINE c == Content(b)
             w == b.buffer_
  <2>1. /\ c \in Seq(Byte) /\ w \in Seq(Byte) /\ kCheapPrepend \in Nat
    BY <1>1, <1>2
  <2>2. g.buffer_ = Copied(w, kCheapPrepend, c)
    BY <1>3
  <2> HIDE DEF c, w, g
  <2>3. /\ g.buffer_ \in Seq(Byte)
        /\ Len(g.buffer_) = Len(w)
        /\ \A i \in 1..Len(w) :
             g.buffer_[i] =
               IF i > kCheapPrepend /\ i <= kCheapPrepend + Len(c)
                 THEN c[i - kCheapPrepend] ELSE w[i]
    BY <2>1, <2>2, CopiedProperties
  <2> QED BY <2>3 DEF c, w
<1>5. WellFormed(g)
  <2>1. g.writerIndex_ \in Nat
    BY <1>1, <1>3
  <2>2. g \in Buffer
    BY <1>1, <1>3, <1>4, <2>1 DEF Buffer, MoveToFront, readableBytes
  <2> QED
    BY <2>2, <1>1, <1>3, <1>4 DEF WellFormed
<1>6. \A i \in 1..Len(Content(b)) : g.buffer_[g.readerIndex_ + i] = Content(b)[i]
  <2> TAKE i \in 1..Len(Content(b))
  <2>1. i \in 1..(b.writerIndex_ - b.readerIndex_)
    BY <1>2
  <2>2. /\ kCheapPrepend + i \in 1..Len(b.buffer_)
        /\ kCheapPrepend + i > kCheapPrepend
        /\ kCheapPrepend + i <= kCheapPrepend + Len(Content(b))
        /\ (kCheapPrepend + i) - kCheapPrepend = i
    BY <1>1, <1>2, <2>1
  <2> QED
    BY <2>2, <1>3, <1>4
<1> HIDE DEF g
<1>7. Len(Content(b)) = g.writerIndex_ - g.readerIndex_
  BY <1>1, <1>2, <1>3
<1>8. Content(g) = Content(b)
  BY <1>2, <1>5, <1>6, <1>7, ContentIs
<1>9. /\ readableBytes(g) = readableBytes(b)
      /\ writableBytes(g) = writableBytes(b) + b.readerIndex_ - kCheapPrepend
  BY <1>1, <1>3, <1>4 DEF readableBytes, writableBytes
<1> QED
  BY ONLY <1>4, <1>5, <1>8, <1>9 DEF g

\* ensureWritableBytes makes room, keeps the content, and grows the vector only
\* when content and request together come near its size.
LEMMA EnsureProperties ==
  ASSUME NEW b, WellFormed(b), NEW len \in Nat
  PROVE  LET e == ensureWritableBytes(b, len)
         IN /\ WellFormed(e)
            /\ Content(e) = Content(b)
            /\ readableBytes(e) = readableBytes(b)
            /\ writableBytes(e) >= len
            /\ \/ Len(e.buffer_) = Len(b.buffer_)
               \/ /\ Len(e.buffer_) = b.writerIndex_ + len
                  /\ Len(e.buffer_) <= kCheapPrepend + readableBytes(b) + len + len
<1> DEFINE e == ensureWritableBytes(b, len)
<1>1. /\ Len(b.buffer_) \in Nat
      /\ b.readerIndex_ \in Nat /\ b.writerIndex_ \in Nat
      /\ b.readerIndex_ <= b.writerIndex_ /\ b.writerIndex_ <= Len(b.buffer_)
      /\ kCheapPrepend \in Nat /\ kCheapPrepend <= Len(b.buffer_)
  BY WellFormedFacts, SizesAssumption
<1>2. CASE ~(writableBytes(b) < len)
  BY <1>1, <1>2 DEF ensureWritableBytes, writableBytes
<1>3. CASE /\ writableBytes(b) < len
           /\ writableBytes(b) + prependableBytes(b) < len + kCheapPrepend
  <2>1. e = Grow(b, len)
    BY <1>3 DEF ensureWritableBytes, makeSpace
  <2>2. b.writerIndex_ + len <= kCheapPrepend + readableBytes(b) + len + len
    <3> DEFINE n == Len(b.buffer_)
               r == b.readerIndex_
               w == b.writerIndex_
    <3>1. /\ n \in Nat /\ r \in Nat /\ w \in Nat /\ kCheapPrepend \in Nat
          /\ r <= w /\ w <= n
      BY <1>1
    <3>2. (n - w) + r < len + kCheapPrepend
      BY <1>3 DEF writableBytes, prependableBytes
    <3>3. readableBytes(b) = w - r
      BY DEF readableBytes
    <3> HIDE DEF n, r, w
    <3>4. w + len <= kCheapPrepend + (w - r) + len + len
      BY <3>1, <3>2
    <3> QED BY <3>3, <3>4 DEF w
  <2>3. /\ WellFormed(Grow(b, len))
        /\ Content(Grow(b, len)) = Content(b)
        /\ Len(Grow(b, len).buffer_) = b.writerIndex_ + len
        /\ readableBytes(Grow(b, len)) = readableBytes(b)
        /\ writableBytes(Grow(b, len)) = len
    BY <1>3, GrowProperties
  <2> HIDE DEF e
  <2> QED
    BY ONLY <2>1, <2>2, <2>3, len \in Nat DEF e
<1>4. CASE /\ writableBytes(b) < len
           /\ ~(writableBytes(b) + prependableBytes(b) < len + kCheapPrepend)
  <2>1. e = MoveToFront(b)
    BY <1>4 DEF ensureWritableBytes, makeSpace
  <2>2. /\ b.readerIndex_ > kCheapPrepend
        /\ writableBytes(b) + b.readerIndex_ - kCheapPrepend >= len
    BY <1>1, <1>4 DEF writableBytes, prependableBytes
  <2>3. /\ WellFormed(MoveToFront(b))
        /\ Content(MoveToFront(b)) = Content(b)
        /\ Len(MoveToFront(b).buffer_) = Len(b.buffer_)
        /\ readableBytes(MoveToFront(b)) = readableBytes(b)
        /\ writableBytes(MoveToFront(b)) =
             writableBytes(b) + b.readerIndex_ - kCheapPrepend
    BY <2>2, MoveProperties
  <2> HIDE DEF e
  <2> QED
    BY ONLY <2>1, <2>2, <2>3 DEF e
<1> QED
  BY <1>2, <1>3, <1>4

-----------------------------------------------------------------------------
(***************************************************************************)
(* Writing and reading.                                                    *)
(***************************************************************************)

\* Bytes written where there is room join the content at its end.
LEMMA WrittenProperties ==
  ASSUME NEW b, WellFormed(b), NEW s \in Seq(Byte),
         Len(s) <= writableBytes(b)
  PROVE  /\ WellFormed(Written(b, s))
         /\ Content(Written(b, s)) = Content(b) \o s
         /\ Len(Written(b, s).buffer_) = Len(b.buffer_)
         /\ readableBytes(Written(b, s)) = readableBytes(b) + Len(s)
         /\ writableBytes(Written(b, s)) = writableBytes(b) - Len(s)
<1> DEFINE g == Written(b, s)
<1>1. /\ b.buffer_ \in Seq(Byte) /\ Len(b.buffer_) \in Nat
      /\ b.readerIndex_ \in Nat /\ b.writerIndex_ \in Nat
      /\ b.readerIndex_ <= b.writerIndex_ /\ b.writerIndex_ <= Len(b.buffer_)
      /\ kCheapPrepend \in Nat /\ kCheapPrepend <= Len(b.buffer_)
      /\ Len(s) \in Nat
  BY WellFormedFacts, LenProperties
<1>2. b.writerIndex_ + Len(s) <= Len(b.buffer_)
  BY <1>1 DEF writableBytes
<1>3. g = [buffer_ |-> Copied(b.buffer_, b.writerIndex_, s),
           readerIndex_ |-> b.readerIndex_,
           writerIndex_ |-> b.writerIndex_ + Len(s)]
  BY DEF Written
<1>4. /\ g.buffer_ = Copied(b.buffer_, b.writerIndex_, s)
      /\ g.readerIndex_ = b.readerIndex_
      /\ g.writerIndex_ = b.writerIndex_ + Len(s)
  BY <1>3
<1>5. /\ g.buffer_ \in Seq(Byte)
      /\ Len(g.buffer_) = Len(b.buffer_)
      /\ \A i \in 1..Len(b.buffer_) :
           g.buffer_[i] =
             IF i > b.writerIndex_ /\ i <= b.writerIndex_ + Len(s)
               THEN s[i - b.writerIndex_] ELSE b.buffer_[i]
  BY <1>1, <1>4, CopiedProperties
<1>6. WellFormed(g)
  <2>1. g \in Buffer
    BY <1>1, <1>3, <1>5 DEF Buffer
  <2> QED
    BY <2>1, <1>1, <1>2, <1>4, <1>5 DEF WellFormed
<1>7. /\ Content(b) \in Seq(Byte)
      /\ Len(Content(b)) = b.writerIndex_ - b.readerIndex_
      /\ \A i \in 1..(b.writerIndex_ - b.readerIndex_) :
           Content(b)[i] = b.buffer_[b.readerIndex_ + i]
  BY ContentProperties
<1>8. /\ Content(b) \o s \in Seq(Byte)
      /\ Len(Content(b) \o s) = Len(Content(b)) + Len(s)
      /\ \A i \in 1..(Len(Content(b)) + Len(s)) :
           (Content(b) \o s)[i] =
             IF i <= Len(Content(b)) THEN Content(b)[i]
                                     ELSE s[i - Len(Content(b))]
  BY <1>7, ConcatProperties
<1>9. \A i \in 1..Len(Content(b) \o s) :
        g.buffer_[g.readerIndex_ + i] = (Content(b) \o s)[i]
  <2> TAKE i \in 1..Len(Content(b) \o s)
  <2>1. /\ i \in 1..(b.writerIndex_ - b.readerIndex_ + Len(s))
        /\ i \in 1..(Len(Content(b)) + Len(s))
    BY <1>7, <1>8
  <2>2. b.readerIndex_ + i \in 1..Len(b.buffer_)
    BY <1>1, <1>2, <2>1
  <2>3. CASE i <= b.writerIndex_ - b.readerIndex_
    <3>0. ~(b.readerIndex_ + i > b.writerIndex_)
      BY <1>1, <2>1, <2>3
    <3>1. g.buffer_[b.readerIndex_ + i] = b.buffer_[b.readerIndex_ + i]
      BY <1>5, <2>2, <3>0
    <3>2. (Content(b) \o s)[i] = Content(b)[i]
      BY <1>7, <1>8, <2>1, <2>3
    <3>3. Content(b)[i] = b.buffer_[b.readerIndex_ + i]
      BY <1>1, <1>7, <2>1, <2>3
    <3> QED
      BY <3>1, <3>2, <3>3, <1>4
  <2>4. CASE i > b.writerIndex_ - b.readerIndex_
    <3>1. /\ b.readerIndex_ + i > b.writerIndex_
          /\ b.readerIndex_ + i <= b.writerIndex_ + Len(s)
          /\ (b.readerIndex_ + i) - b.writerIndex_
               = i - (b.writerIndex_ - b.readerIndex_)
          /\ ~(i <= b.writerIndex_ - b.readerIndex_)
      BY <1>1, <2>1, <2>4
    <3>2. g.buffer_[b.readerIndex_ + i]
            = s[i - (b.writerIndex_ - b.readerIndex_)]
      BY <1>5, <2>2, <3>1
    <3>3. (Content(b) \o s)[i] = s[i - (b.writerIndex_ - b.readerIndex_)]
      BY <1>7, <1>8, <2>1, <3>1
    <3> QED
      BY <3>2, <3>3, <1>4
  <2> QED
    BY <1>1, <2>1, <2>3, <2>4
<1>10. Len(Content(b) \o s) = g.writerIndex_ - g.readerIndex_
  BY <1>1, <1>4, <1>7, <1>8
<1>11. Content(g) = Content(b) \o s
  BY <1>6, <1>8, <1>9, <1>10, ContentIs
<1> QED
  BY <1>1, <1>4, <1>5, <1>6, <1>11 DEF readableBytes, writableBytes

\* append adds its bytes to the content.
LEMMA AppendingProperties ==
  ASSUME NEW b, WellFormed(b), NEW s \in Seq(Byte)
  PROVE  /\ WellFormed(append(b, s))
         /\ Content(append(b, s)) = Content(b) \o s
         /\ readableBytes(append(b, s)) = readableBytes(b) + Len(s)
         /\ \/ Len(append(b, s).buffer_) = Len(b.buffer_)
            \/ Len(append(b, s).buffer_)
                 <= kCheapPrepend + readableBytes(b) + Len(s) + Len(s)
<1> DEFINE e == ensureWritableBytes(b, Len(s))
<1>1. Len(s) \in Nat
  BY LenProperties
<1>2. /\ WellFormed(e)
      /\ Content(e) = Content(b)
      /\ readableBytes(e) = readableBytes(b)
      /\ writableBytes(e) >= Len(s)
      /\ \/ Len(e.buffer_) = Len(b.buffer_)
         \/ Len(e.buffer_) <= kCheapPrepend + readableBytes(b) + Len(s) + Len(s)
  BY <1>1, EnsureProperties
<1>3. writableBytes(e) \in Int
  BY <1>2, WellFormedFacts DEF writableBytes
<1>4. append(b, s) = Written(e, s)
  BY DEF append
<1> HIDE DEF e
<1>5. Len(s) <= writableBytes(e)
  BY <1>1, <1>2, <1>3
<1>6. /\ WellFormed(Written(e, s))
      /\ Content(Written(e, s)) = Content(e) \o s
      /\ Len(Written(e, s).buffer_) = Len(e.buffer_)
      /\ readableBytes(Written(e, s)) = readableBytes(e) + Len(s)
  BY <1>2, <1>5, WrittenProperties
<1> QED
  BY ONLY <1>2, <1>4, <1>6

\* The reader takes from the front; an emptied buffer starts over.
LEMMA RetrieveProperties ==
  ASSUME NEW b, WellFormed(b), NEW len \in Nat, len <= readableBytes(b)
  PROVE  /\ WellFormed(retrieve(b, len))
         /\ Content(retrieve(b, len))
              = SubSeq(Content(b), len + 1, Len(Content(b)))
         /\ Len(retrieve(b, len).buffer_) = Len(b.buffer_)
         /\ readableBytes(retrieve(b, len)) = readableBytes(b) - len
<1> DEFINE g == retrieve(b, len)
<1>1. /\ b.buffer_ \in Seq(Byte) /\ Len(b.buffer_) \in Nat
      /\ b.readerIndex_ \in Nat /\ b.writerIndex_ \in Nat
      /\ b.readerIndex_ <= b.writerIndex_ /\ b.writerIndex_ <= Len(b.buffer_)
      /\ kCheapPrepend \in Nat /\ kCheapPrepend <= Len(b.buffer_)
  BY WellFormedFacts
<1>2. Len(Content(b)) = b.writerIndex_ - b.readerIndex_
  BY ContentProperties
<1>3. CASE len < readableBytes(b)
  <2>1. g = [b EXCEPT !.readerIndex_ = @ + len]
    BY <1>3 DEF retrieve
  <2>2. /\ g \in Buffer
        /\ g.buffer_ = b.buffer_
        /\ g.readerIndex_ = b.readerIndex_ + len
        /\ g.writerIndex_ = b.writerIndex_
    BY <1>1, <2>1, WellFormedFacts DEF WellFormed, Buffer
  <2> HIDE DEF g
  <2>3. /\ b.readerIndex_ <= g.readerIndex_ /\ g.readerIndex_ <= g.writerIndex_
        /\ g.readerIndex_ - b.readerIndex_ + 1 = len + 1
        /\ g.writerIndex_ - b.readerIndex_ = Len(Content(b))
        /\ g.writerIndex_ <= b.writerIndex_
        /\ readableBytes(g) = readableBytes(b) - len
    BY <1>1, <1>2, <1>3, <2>2 DEF readableBytes
  <2>4. /\ WellFormed(g)
        /\ Content(g) = SubSeq(Content(b), g.readerIndex_ - b.readerIndex_ + 1,
                               g.writerIndex_ - b.readerIndex_)
    BY <2>2, <2>3, ContentOfPart
  <2> QED
    BY ONLY <2>2, <2>3, <2>4 DEF g
<1>4. CASE ~(len < readableBytes(b))
  <2>1. g = [buffer_ |-> b.buffer_, readerIndex_ |-> kCheapPrepend,
             writerIndex_ |-> kCheapPrepend]
    BY <1>4 DEF retrieve, retrieveAll
  <2>2. len = Len(Content(b)) /\ len = readableBytes(b)
    BY <1>1, <1>2, <1>4 DEF readableBytes
  <2>3. WellFormed(g)
    BY <1>1, <2>1 DEF WellFormed, Buffer
  <2>4. Content(g) = <<>>
    BY <1>1, <2>1, SubSeqEmpty DEF Content
  <2>5. SubSeq(Content(b), len + 1, Len(Content(b))) = <<>>
    BY <2>2, SubSeqEmpty
  <2>6. readableBytes(g) = 0 /\ readableBytes(b) - len = 0
    BY <1>1, <2>1, <2>2 DEF readableBytes
  <2>7. Len(g.buffer_) = Len(b.buffer_)
    BY <2>1
  <2> HIDE DEF g
  <2> QED
    BY ONLY <2>3, <2>4, <2>5, <2>6, <2>7 DEF g
<1> QED
  BY <1>3, <1>4

\* The writer takes back from the end.
LEMMA UnwriteProperties ==
  ASSUME NEW b, WellFormed(b), NEW len \in Nat, len <= readableBytes(b)
  PROVE  /\ WellFormed(unwrite(b, len))
         /\ Content(unwrite(b, len))
              = SubSeq(Content(b), 1, Len(Content(b)) - len)
         /\ Len(unwrite(b, len).buffer_) = Len(b.buffer_)
         /\ readableBytes(unwrite(b, len)) = readableBytes(b) - len
<1> DEFINE g == unwrite(b, len)
<1>1. /\ b.buffer_ \in Seq(Byte) /\ Len(b.buffer_) \in Nat
      /\ b.readerIndex_ \in Nat /\ b.writerIndex_ \in Nat
      /\ b.readerIndex_ <= b.writerIndex_ /\ b.writerIndex_ <= Len(b.buffer_)
      /\ kCheapPrepend \in Nat /\ kCheapPrepend <= Len(b.buffer_)
  BY WellFormedFacts
<1>2. Len(Content(b)) = b.writerIndex_ - b.readerIndex_
  BY ContentProperties
<1>3. b.writerIndex_ - len \in Nat
  BY <1>1 DEF readableBytes
<1>4. /\ g \in Buffer
      /\ g.buffer_ = b.buffer_
      /\ g.readerIndex_ = b.readerIndex_
      /\ g.writerIndex_ = b.writerIndex_ - len
  BY <1>1, <1>3, WellFormedFacts DEF WellFormed, Buffer, unwrite
<1> HIDE DEF g
<1>5. /\ b.readerIndex_ <= g.readerIndex_ /\ g.readerIndex_ <= g.writerIndex_
      /\ g.readerIndex_ - b.readerIndex_ + 1 = 1
      /\ g.writerIndex_ - b.readerIndex_ = Len(Content(b)) - len
      /\ g.writerIndex_ <= b.writerIndex_
      /\ readableBytes(g) = readableBytes(b) - len
  BY <1>1, <1>2, <1>4 DEF readableBytes
<1>6. /\ WellFormed(g)
      /\ Content(g) = SubSeq(Content(b), g.readerIndex_ - b.readerIndex_ + 1,
                             g.writerIndex_ - b.readerIndex_)
  BY <1>4, <1>5, ContentOfPart
<1> QED
  BY ONLY <1>4, <1>5, <1>6 DEF g

\* A header put in the prependable bytes comes before the content.
LEMMA PrependProperties ==
  ASSUME NEW b, WellFormed(b), NEW s \in Seq(Byte),
         Len(s) <= prependableBytes(b)
  PROVE  /\ WellFormed(prepend(b, s))
         /\ Content(prepend(b, s)) = s \o Content(b)
         /\ Len(prepend(b, s).buffer_) = Len(b.buffer_)
         /\ readableBytes(prepend(b, s)) = readableBytes(b) + Len(s)
<1> DEFINE g == prepend(b, s)
           r == b.readerIndex_ - Len(s)
           c == s \o Content(b)
<1>1. /\ b.buffer_ \in Seq(Byte) /\ Len(b.buffer_) \in Nat
      /\ b.readerIndex_ \in Nat /\ b.writerIndex_ \in Nat
      /\ b.readerIndex_ <= b.writerIndex_ /\ b.writerIndex_ <= Len(b.buffer_)
      /\ kCheapPrepend \in Nat /\ kCheapPrepend <= Len(b.buffer_)
      /\ Len(s) \in Nat
  BY WellFormedFacts, LenProperties
<1>2. r \in Nat
  BY <1>1 DEF prependableBytes
<1>3. g = [buffer_ |-> Copied(b.buffer_, r, s), readerIndex_ |-> r,
           writerIndex_ |-> b.writerIndex_]
  BY DEF prepend
<1>4. /\ g.buffer_ = Copied(b.buffer_, r, s)
      /\ g.readerIndex_ = r
      /\ g.writerIndex_ = b.writerIndex_
  BY <1>3
<1>5. /\ g.buffer_ \in Seq(Byte)
      /\ Len(g.buffer_) = Len(b.buffer_)
      /\ \A i \in 1..Len(b.buffer_) :
           g.buffer_[i] =
             IF i > r /\ i <= r + Len(s) THEN s[i - r] ELSE b.buffer_[i]
  BY <1>1, <1>2, <1>4, CopiedProperties
<1>6. WellFormed(g)
  <2>1. g \in Buffer
    BY <1>1, <1>2, <1>3, <1>5 DEF Buffer
  <2>2. r <= b.writerIndex_
    BY <1>1
  <2> QED
    BY <2>1, <2>2, <1>1, <1>4, <1>5 DEF WellFormed
<1>7. /\ Content(b) \in Seq(Byte)
      /\ Len(Content(b)) = b.writerIndex_ - b.readerIndex_
      /\ \A i \in 1..(b.writerIndex_ - b.readerIndex_) :
           Content(b)[i] = b.buffer_[b.readerIndex_ + i]
  BY ContentProperties
<1>8. /\ c \in Seq(Byte)
      /\ Len(c) = Len(s) + Len(Content(b))
      /\ \A i \in 1..(Len(s) + Len(Content(b))) :
           c[i] = IF i <= Len(s) THEN s[i] ELSE Content(b)[i - Len(s)]
  BY <1>7, ConcatProperties
<1> HIDE DEF g, c
<1>9. \A i \in 1..Len(c) : g.buffer_[g.readerIndex_ + i] = c[i]
  <2> TAKE i \in 1..Len(c)
  <2>1. /\ i \in 1..(Len(s) + Len(Content(b)))
        /\ i \in 1..(Len(s) + (b.writerIndex_ - b.readerIndex_))
    BY <1>7, <1>8
  <2>2. r + i \in 1..Len(b.buffer_)
    BY <1>1, <1>2, <2>1, SMTT(30)
  <2>3. CASE i <= Len(s)
    <3>1. r + i > r /\ r + i <= r + Len(s) /\ (r + i) - r = i
      BY <1>1, <1>2, <2>1, <2>3, SMTT(30)
    <3>2. g.buffer_[r + i] = s[i]
      BY <1>5, <2>2, <3>1
    <3> QED
      BY <1>4, <1>8, <2>1, <2>3, <3>2
  <2>4. CASE i > Len(s)
    <3>1. /\ ~(r + i <= r + Len(s))
          /\ ~(i <= Len(s))
          /\ i - Len(s) \in 1..(b.writerIndex_ - b.readerIndex_)
          /\ b.readerIndex_ + (i - Len(s)) = r + i
      <4> DEFINE n == Len(s)
                 w == b.readerIndex_
                 d == b.writerIndex_ - b.readerIndex_
      <4>1. /\ n \in Nat /\ r \in Int /\ w \in Nat /\ d \in Nat
            /\ i \in 1..(n + d) /\ i > n /\ r + n = w
        BY <1>1, <1>2, <2>1, <2>4
      <4> HIDE DEF n, w, d
      <4>2. ~(r + i <= r + n) /\ ~(i <= n) /\ i - n \in 1..d /\ w + (i - n) = r + i
        BY <4>1
      <4> QED BY <4>2 DEF n, w, d
    <3>2. g.buffer_[r + i] = b.buffer_[r + i]
      BY <1>5, <2>2, <3>1
    <3>3. c[i] = Content(b)[i - Len(s)]
      BY <1>8, <2>1, <3>1
    <3>4. Content(b)[i - Len(s)] = b.buffer_[b.readerIndex_ + (i - Len(s))]
      BY <1>7, <3>1
    <3> QED
      BY <1>4, <3>1, <3>2, <3>3, <3>4
  <2> QED
    BY <1>1, <2>1, <2>3, <2>4
<1>10. Len(c) = g.writerIndex_ - g.readerIndex_
  BY <1>1, <1>4, <1>7, <1>8
<1>11. Content(g) = c
  BY <1>6, <1>8, <1>9, <1>10, ContentIs
<1>12. readableBytes(g) = readableBytes(b) + Len(s)
  BY <1>1, <1>4 DEF readableBytes
<1> QED
  BY ONLY <1>5, <1>6, <1>11, <1>12 DEF g, c

\* readFd adds to the content what readv put in the vector and in extrabuf.
LEMMA ReadFdProperties ==
  ASSUME NEW b, WellFormed(b), NEW s \in Seq(Byte)
  PROVE  /\ WellFormed(readFd(b, s))
         /\ Content(readFd(b, s)) = Content(b) \o s
         /\ readableBytes(readFd(b, s)) = readableBytes(b) + Len(s)
         /\ \/ Len(readFd(b, s).buffer_) = Len(b.buffer_)
            \/ Len(readFd(b, s).buffer_)
                 <= kCheapPrepend + readableBytes(b) + Len(s) + Len(s)
<1> DEFINE n == writableBytes(b)
           front == SubSeq(s, 1, n)
           back == SubSeq(s, n + 1, Len(s))
           g == Written(b, front)
<1>1. /\ Len(s) \in Nat /\ n \in Nat /\ readableBytes(b) \in Nat
      /\ kCheapPrepend \in Nat
  BY WellFormedFacts, LenProperties DEF writableBytes, readableBytes
<1>2. CASE Len(s) <= n
  <2>1. readFd(b, s) = Written(b, s)
    BY <1>2 DEF readFd
  <2>2. /\ WellFormed(Written(b, s))
        /\ Content(Written(b, s)) = Content(b) \o s
        /\ Len(Written(b, s).buffer_) = Len(b.buffer_)
        /\ readableBytes(Written(b, s)) = readableBytes(b) + Len(s)
    BY <1>2, WrittenProperties
  <2> QED
    BY ONLY <2>1, <2>2
<1>3. CASE ~(Len(s) <= n)
  <2>1. readFd(b, s) = append(g, back)
    BY <1>3 DEF readFd
  <2>2. /\ \A i \in 1..n : s[i] \in Byte
        /\ \A i \in (n + 1)..Len(s) : s[i] \in Byte
    BY <1>1, <1>3, ElementOfSeq
  <2>3. /\ front \in Seq(Byte) /\ Len(front) = n
        /\ back \in Seq(Byte) /\ Len(back) = Len(s) - n
    <3>1. /\ front \in Seq(Byte)
          /\ Len(front) = IF 1 <= n THEN n - 1 + 1 ELSE 0
      BY <1>1, <2>2, SubSeqProperties
    <3>2. /\ back \in Seq(Byte)
          /\ Len(back) = IF n + 1 <= Len(s) THEN Len(s) - (n + 1) + 1 ELSE 0
      BY <1>1, <2>2, SubSeqProperties
    <3> HIDE DEF front, back, n
    <3> QED
      BY <1>1, <1>3, <3>1, <3>2
  <2>4. front \o back = s
    <3>1. n \in 1..Len(s) \/ n = 0
      BY <1>1, <1>3
    <3>2. CASE n \in 1..Len(s)
      <4>1. /\ s \in Seq(Byte) /\ 1 \in 1..(Len(s) + 1)
            /\ n \in (1 - 1)..Len(s) /\ Len(s) \in n..Len(s)
        BY <1>1, <3>2
      <4>2. front \o back = SubSeq(s, 1, Len(s))
        BY <4>1, ConcatAdjacentSubSeq
      <4> QED
        BY <4>2, SubSeqFull
    <3>3. CASE n = 0
      <4>1. front = <<>> /\ back = SubSeq(s, 1, Len(s))
        BY <1>1, <3>3, SubSeqEmpty
      <4>2. back = s
        BY <4>1, SubSeqFull
      <4> HIDE DEF front, back
      <4> QED
        BY <4>1, <4>2, ConcatEmptySeq
    <3> QED
      BY <3>1, <3>2, <3>3
  <2> HIDE DEF front, back, g
  <2>5. /\ WellFormed(g)
        /\ Content(g) = Content(b) \o front
        /\ Len(g.buffer_) = Len(b.buffer_)
        /\ readableBytes(g) = readableBytes(b) + Len(front)
    <3>1. Len(front) <= writableBytes(b)
      BY <1>1, <2>3
    <3> QED
      BY <2>3, <3>1, WrittenProperties DEF g
  <2>6. /\ WellFormed(append(g, back))
        /\ Content(append(g, back)) = Content(g) \o back
        /\ readableBytes(append(g, back)) = readableBytes(g) + Len(back)
        /\ \/ Len(append(g, back).buffer_) = Len(g.buffer_)
           \/ Len(append(g, back).buffer_)
                <= kCheapPrepend + readableBytes(g) + Len(back) + Len(back)
    BY <2>3, <2>5, AppendingProperties
  <2>7. Content(b) \o s = (Content(b) \o front) \o back
    <3>1. Content(b) \in Seq(Byte)
      BY ContentProperties
    <3>2. (Content(b) \o front) \o back = Content(b) \o (front \o back)
      BY <2>3, <3>1, ConcatAssociative, SMTT(30)
    <3> QED
      BY <2>4, <3>2
  <2>8. readableBytes(g) + Len(back) = readableBytes(b) + Len(s)
    BY <1>1, <2>3, <2>5
  <2>9. Len(append(g, back).buffer_) \in Nat
    BY <2>6, WellFormedFacts
  <2> DEFINE x == kCheapPrepend + readableBytes(g) + Len(back) + Len(back)
             y == kCheapPrepend + readableBytes(b) + Len(s) + Len(s)
  <2>10. x \in Nat /\ y \in Nat /\ x <= y
    BY <1>1, <1>3, <2>3, <2>5, SMTT(30)
  <2>11. \/ Len(append(g, back).buffer_) = Len(b.buffer_)
         \/ Len(append(g, back).buffer_)
              <= kCheapPrepend + readableBytes(b) + Len(s) + Len(s)
    <3> HIDE DEF x, y
    <3>1. \/ Len(append(g, back).buffer_) = Len(b.buffer_)
          \/ Len(append(g, back).buffer_) <= x
      BY <2>5, <2>6 DEF x
    <3>2. \/ Len(append(g, back).buffer_) = Len(b.buffer_)
          \/ Len(append(g, back).buffer_) <= y
      BY ONLY <2>9, <2>10, <3>1
    <3> QED
      BY <3>2 DEF y
  <2> QED
    BY ONLY <2>1, <2>5, <2>6, <2>7, <2>8, <2>11
<1> QED
  BY <1>2, <1>3

-----------------------------------------------------------------------------
(***************************************************************************)
(* A new buffer, and shrink, which fills one.                              *)
(***************************************************************************)

\* The constructor's assertions: nothing to read, the rest to write.
LEMMA NewBufferProperties ==
  ASSUME NEW n \in Nat
  PROVE  /\ WellFormed(NewBuffer(n))
         /\ Content(NewBuffer(n)) = <<>>
         /\ readableBytes(NewBuffer(n)) = 0
         /\ Len(NewBuffer(n).buffer_) = kCheapPrepend + n
         /\ NewBuffer(n).writerIndex_ = kCheapPrepend
<1> DEFINE g == NewBuffer(n)
<1>1. kCheapPrepend \in Nat /\ kCheapPrepend + n \in Nat
  BY SizesAssumption
<1>2. /\ g.buffer_ = [i \in 1..(kCheapPrepend + n) |-> Blank]
      /\ g.readerIndex_ = kCheapPrepend /\ g.writerIndex_ = kCheapPrepend
  BY DEF NewBuffer
<1>3. g.buffer_ \in [1..(kCheapPrepend + n) -> Byte]
  BY <1>2, BytesAssumption
<1>4. g.buffer_ \in Seq(Byte)
  BY <1>1, <1>3, SeqDef
<1>5. Len(g.buffer_) = kCheapPrepend + n
  BY <1>1, <1>3, <1>4, LenProperties
<1>6. g \in Buffer
  BY <1>1, <1>2, <1>4 DEF Buffer, NewBuffer
<1> HIDE DEF g
<1>7. WellFormed(g)
  BY <1>1, <1>2, <1>5, <1>6 DEF WellFormed
<1>8. Content(g) = <<>>
  BY <1>1, <1>2, SubSeqEmpty DEF Content
<1>9. readableBytes(g) = 0
  BY <1>1, <1>2 DEF readableBytes
<1> QED
  BY ONLY <1>2, <1>5, <1>7, <1>8, <1>9 DEF g

\* shrink carries the content over to a vector of the size asked for.
LEMMA ShrinkProperties ==
  ASSUME NEW b, WellFormed(b), NEW reserve \in Nat
  PROVE  /\ WellFormed(shrink(b, reserve))
         /\ Content(shrink(b, reserve)) = Content(b)
         /\ readableBytes(shrink(b, reserve)) = readableBytes(b)
         /\ \/ Len(shrink(b, reserve).buffer_) = kCheapPrepend + kInitialSize
            \/ Len(shrink(b, reserve).buffer_)
                 = kCheapPrepend + readableBytes(b) + reserve
<1> DEFINE len == readableBytes(b) + reserve
           new == NewBuffer(kInitialSize)
           e == ensureWritableBytes(new, len)
           s == Content(b)
<1>1. /\ readableBytes(b) \in Nat /\ len \in Nat /\ kCheapPrepend \in Nat
      /\ s \in Seq(Byte) /\ Len(s) = readableBytes(b)
  BY WellFormedFacts, ContentProperties DEF readableBytes
<1>2. /\ WellFormed(new)
      /\ Content(new) = <<>>
      /\ readableBytes(new) = 0
      /\ Len(new.buffer_) = kCheapPrepend + kInitialSize
      /\ new.writerIndex_ = kCheapPrepend
  BY NewBufferProperties, SizesAssumption
<1> HIDE DEF new, len, s
<1>3. /\ WellFormed(e)
      /\ Content(e) = <<>>
      /\ readableBytes(e) = 0
      /\ writableBytes(e) >= len
      /\ \/ Len(e.buffer_) = kCheapPrepend + kInitialSize
         \/ Len(e.buffer_) = kCheapPrepend + len
  BY <1>1, <1>2, EnsureProperties
<1> HIDE DEF e
<1>4. writableBytes(e) \in Int /\ Len(s) <= writableBytes(e)
  <2>1. writableBytes(e) \in Int
    BY <1>3, WellFormedFacts DEF writableBytes
  <2> QED
    BY <2>1, <1>1, <1>3 DEF len
<1>5. ensureWritableBytes(e, Len(s)) = e
  BY <1>1, <1>4 DEF ensureWritableBytes
<1>6. shrink(b, reserve) = Written(e, s)
  BY <1>5 DEF shrink, append, e, new, len, s
<1>7. /\ WellFormed(Written(e, s))
      /\ Content(Written(e, s)) = Content(e) \o s
      /\ Len(Written(e, s).buffer_) = Len(e.buffer_)
      /\ readableBytes(Written(e, s)) = readableBytes(e) + Len(s)
  BY <1>1, <1>3, <1>4, WrittenProperties
<1>8. Content(e) \o s = s
  BY <1>1, <1>3, ConcatEmptySeq
<1>9. readableBytes(e) + Len(s) = readableBytes(b)
  BY <1>1, <1>3
<1>10. kCheapPrepend + len = kCheapPrepend + readableBytes(b) + reserve
  BY <1>1 DEF len
<1> QED
  BY ONLY <1>3, <1>6, <1>7, <1>8, <1>9, <1>10 DEF s

-----------------------------------------------------------------------------
(***************************************************************************)
(* The invariant.  GrowthBounded is not inductive alone: a step's bound    *)
(* rests on the order of the indices and on how much there is to read.     *)
(***************************************************************************)
IInv ==
  /\ WellFormed(msg)
  /\ readableBytes(msg) <= MaxReadable
  /\ GrowthBounded
  /\ aborted \in BOOLEAN

\* What a step does to the content: one step of the queue, or none.
QueueStep == Queue!Next \/ Content(msg') = Content(msg)

\* A new buffer satisfies the invariant.
LEMMA InitIInv == Init => IInv
<1> SUFFICES ASSUME Init PROVE IInv
  OBVIOUS
<1>1. /\ WellFormed(msg)
      /\ readableBytes(msg) = 0
      /\ Len(msg.buffer_) = kCheapPrepend + kInitialSize
  BY NewBufferProperties, SizesAssumption DEF Init
<1>2. /\ kCheapPrepend \in Nat /\ kInitialSize \in Nat
      /\ MaxReadable \in Nat /\ MaxChunk \in Nat
  BY SizesAssumption
<1>3. GrowthBounded
  BY <1>1, <1>2 DEF GrowthBounded, MostBytes
<1>4. aborted \in BOOLEAN
  BY DEF Init
<1> QED
  BY <1>1, <1>2, <1>3, <1>4 DEF IInv

\* How the invariant is shown to hold of the next buffer: its size is the old
\* one or within the bound.
LEMMA IInvOfNext ==
  ASSUME IInv, WellFormed(msg'), readableBytes(msg') <= MaxReadable,
         \/ Len(msg'.buffer_) = Len(msg.buffer_)
         \/ Len(msg'.buffer_) <= kCheapPrepend + MaxReadable + MaxChunk
         \/ Len(msg'.buffer_) = kCheapPrepend + kInitialSize,
         aborted' \in BOOLEAN
  PROVE  IInv'
<1>1. /\ kCheapPrepend \in Nat /\ kInitialSize \in Nat
      /\ MaxReadable \in Nat /\ MaxChunk \in Nat
  BY SizesAssumption
<1>2. Len(msg'.buffer_) \in Nat
  BY WellFormedFacts
<1>3. Len(msg.buffer_) <= MostBytes
  BY DEF IInv, GrowthBounded
<1>4. Len(msg'.buffer_) <= MostBytes
  BY <1>1, <1>2, <1>3 DEF MostBytes
<1> QED
  BY <1>4 DEF IInv, GrowthBounded

\* Each step keeps the invariant and is a step of the queue or leaves it alone.
LEMMA NextIInv == IInv /\ [Next]_vars => IInv' /\ QueueStep
<1> SUFFICES ASSUME IInv, [Next]_vars PROVE IInv' /\ QueueStep
  OBVIOUS
<1>1. /\ kCheapPrepend \in Nat /\ kInitialSize \in Nat
      /\ MaxReadable \in Nat /\ MaxChunk \in Nat /\ IntSize \subseteq Nat
      /\ \A s \in Chunk : s \in Seq(Byte) /\ Len(s) \in Nat /\ Len(s) <= MaxChunk
  BY SizesAssumption, BytesAssumption, LenProperties
<1>2. /\ WellFormed(msg) /\ readableBytes(msg) <= MaxReadable
      /\ readableBytes(msg) \in Nat /\ aborted \in BOOLEAN
      /\ Len(Content(msg)) = readableBytes(msg)
  BY WellFormedFacts, ContentProperties DEF IInv, readableBytes
<1>3. ASSUME NEW s \in Chunk, AppendBytes(s) PROVE IInv' /\ QueueStep
  <2>1. msg' = append(msg, s) /\ readableBytes(msg) + Len(s) <= MaxReadable
    BY <1>3 DEF AppendBytes, HasRoom
  <2>2. /\ WellFormed(msg')
        /\ Content(msg') = Content(msg) \o s
        /\ readableBytes(msg') = readableBytes(msg) + Len(s)
        /\ \/ Len(msg'.buffer_) = Len(msg.buffer_)
           \/ Len(msg'.buffer_)
                <= kCheapPrepend + readableBytes(msg) + Len(s) + Len(s)
    BY <1>1, <1>2, <2>1, AppendingProperties
  <2>3. \/ Len(msg'.buffer_) = Len(msg.buffer_)
        \/ Len(msg'.buffer_) <= kCheapPrepend + MaxReadable + MaxChunk
    <3>1. Len(msg'.buffer_) \in Nat
      BY <2>2, WellFormedFacts
    <3> QED
      BY <1>1, <1>2, <2>1, <2>2, <3>1
  <2>4. IInv'
    BY <1>2, <1>3, <2>1, <2>2, <2>3, IInvOfNext DEF AppendBytes
  <2>5. Queue!Next
    BY <2>2 DEF Queue!Next, Queue!Put
  <2> QED
    BY <2>4, <2>5 DEF QueueStep
<1>4. ASSUME NEW s \in Chunk, ReadFd(s) PROVE IInv' /\ QueueStep
  <2>1. msg' = readFd(msg, s) /\ readableBytes(msg) + Len(s) <= MaxReadable
    BY <1>4 DEF ReadFd, HasRoom
  <2>2. /\ WellFormed(msg')
        /\ Content(msg') = Content(msg) \o s
        /\ readableBytes(msg') = readableBytes(msg) + Len(s)
        /\ \/ Len(msg'.buffer_) = Len(msg.buffer_)
           \/ Len(msg'.buffer_)
                <= kCheapPrepend + readableBytes(msg) + Len(s) + Len(s)
    BY <1>1, <1>2, <2>1, ReadFdProperties
  <2>3. \/ Len(msg'.buffer_) = Len(msg.buffer_)
        \/ Len(msg'.buffer_) <= kCheapPrepend + MaxReadable + MaxChunk
    <3>1. Len(msg'.buffer_) \in Nat
      BY <2>2, WellFormedFacts
    <3> QED
      BY <1>1, <1>2, <2>1, <2>2, <3>1
  <2>4. IInv'
    BY <1>2, <1>4, <2>1, <2>2, <2>3, IInvOfNext DEF ReadFd
  <2>5. Queue!Next
    BY <2>2 DEF Queue!Next, Queue!Put
  <2> QED
    BY <2>4, <2>5 DEF QueueStep
<1>5. ASSUME NEW s \in Chunk, Prepend(s) PROVE IInv' /\ QueueStep
  <2>1. /\ msg' = prepend(msg, s) /\ readableBytes(msg) + Len(s) <= MaxReadable
        /\ Len(s) <= prependableBytes(msg)
    BY <1>5 DEF Prepend, HasRoom
  <2>2. /\ WellFormed(msg')
        /\ Content(msg') = s \o Content(msg)
        /\ Len(msg'.buffer_) = Len(msg.buffer_)
        /\ readableBytes(msg') = readableBytes(msg) + Len(s)
    BY <1>1, <1>2, <2>1, PrependProperties
  <2>3. IInv'
    BY <1>2, <1>5, <2>1, <2>2, IInvOfNext DEF Prepend
  <2>4. Queue!Next
    BY <2>2 DEF Queue!Next, Queue!PutInFront
  <2> QED
    BY <2>3, <2>4 DEF QueueStep
<1>6. ASSUME NEW len \in Nat, len <= readableBytes(msg),
             msg' = retrieve(msg, len), aborted' = aborted
      PROVE  IInv' /\ QueueStep
  <2>1. /\ WellFormed(msg')
        /\ Content(msg') = SubSeq(Content(msg), len + 1, Len(Content(msg)))
        /\ Len(msg'.buffer_) = Len(msg.buffer_)
        /\ readableBytes(msg') = readableBytes(msg) - len
    BY <1>2, <1>6, RetrieveProperties
  <2>2. readableBytes(msg') <= MaxReadable
    BY <1>1, <1>2, <1>6, <2>1
  <2>3. IInv'
    BY <1>2, <1>6, <2>1, <2>2, IInvOfNext
  <2>4. len \in 0..Len(Content(msg))
    BY <1>2, <1>6
  <2>5. Queue!Next
    BY <2>1, <2>4 DEF Queue!Next, Queue!Take
  <2> QED
    BY <2>3, <2>5 DEF QueueStep
<1>7. ASSUME NEW len \in Nat, Unwrite(len) PROVE IInv' /\ QueueStep
  <2>1. /\ msg' = unwrite(msg, len) /\ len <= readableBytes(msg)
        /\ aborted' = aborted
    BY <1>7 DEF Unwrite
  <2>2. /\ WellFormed(msg')
        /\ Content(msg') = SubSeq(Content(msg), 1, Len(Content(msg)) - len)
        /\ Len(msg'.buffer_) = Len(msg.buffer_)
        /\ readableBytes(msg') = readableBytes(msg) - len
    BY <1>2, <2>1, UnwriteProperties
  <2>3. readableBytes(msg') <= MaxReadable
    BY <1>1, <1>2, <2>2
  <2>4. IInv'
    BY <1>2, <2>1, <2>2, <2>3, IInvOfNext
  <2>5. len \in 0..Len(Content(msg))
    BY <1>2, <2>1
  <2>6. Queue!Next
    BY <2>2, <2>5 DEF Queue!Next, Queue!Withdraw
  <2> QED
    BY <2>4, <2>6 DEF QueueStep
<1>8. ASSUME NEW size \in IntSize, ReadInt(size) PROVE IInv' /\ QueueStep
  <2>1. CASE size <= readableBytes(msg)
    BY <1>1, <1>6, <1>8, <2>1 DEF ReadInt
  <2>2. CASE ~(size <= readableBytes(msg))
    <3>1. msg' = msg /\ aborted' = TRUE
      BY <1>8, <2>2 DEF ReadInt
    <3>2. IInv'
      BY <1>2, <3>1, IInvOfNext
    <3> QED
      BY <3>1, <3>2 DEF QueueStep
  <2> QED
    BY <2>1, <2>2
<1>9. ASSUME NEW reserve \in 0..MaxChunk, Shrink(reserve) PROVE IInv' /\ QueueStep
  <2>1. msg' = shrink(msg, reserve) /\ aborted' = aborted
    BY <1>9 DEF Shrink
  <2>2. /\ WellFormed(msg')
        /\ Content(msg') = Content(msg)
        /\ readableBytes(msg') = readableBytes(msg)
        /\ \/ Len(msg'.buffer_) = kCheapPrepend + kInitialSize
           \/ Len(msg'.buffer_) = kCheapPrepend + readableBytes(msg) + reserve
    BY <1>2, <2>1, ShrinkProperties
  <2>3. \/ Len(msg'.buffer_) = kCheapPrepend + kInitialSize
        \/ Len(msg'.buffer_) <= kCheapPrepend + MaxReadable + MaxChunk
    BY <1>1, <1>2, <2>2
  <2>4. IInv'
    BY <1>2, <2>1, <2>2, <2>3, IInvOfNext
  <2> QED
    BY <2>2, <2>4 DEF QueueStep
<1>10. CASE UNCHANGED vars
  <2>1. msg' = msg /\ aborted' = aborted
    BY <1>10 DEF vars
  <2>2. IInv'
    BY <1>2, <2>1, IInvOfNext
  <2> QED
    BY <2>1, <2>2 DEF QueueStep
<1>11. CASE Next
  <2>1. CASE \E s \in Chunk : AppendBytes(s) \/ ReadFd(s) \/ Prepend(s)
    BY <1>3, <1>4, <1>5, <2>1
  <2>2. CASE \E len \in 0..MaxReadable : Retrieve(len) \/ Unwrite(len)
    <3>1. PICK len \in Nat : Retrieve(len) \/ Unwrite(len)
      BY <1>1, <2>2
    <3>2. CASE Retrieve(len)
      BY <1>6, <3>2 DEF Retrieve
    <3> QED
      BY <1>7, <3>1, <3>2
  <2>3. CASE \E size \in IntSize : ReadInt(size)
    BY <1>8, <2>3
  <2>4. CASE \E reserve \in 0..MaxChunk : Shrink(reserve)
    BY <1>9, <2>4
  <2> QED
    BY <1>11, <2>1, <2>2, <2>3, <2>4 DEF Next
<1> QED
  BY <1>10, <1>11

\* The strengthened invariant holds of every reachable state of the buffer.
THEOREM InductiveInvariant == Spec => []IInv
BY InitIInv, NextIInv, PTL DEF Spec

\* The buffer keeps its type and its indices their order.
THEOREM BufferTypeCorrect == Spec => []TypeOK
<1>1. IInv => TypeOK
  BY WellFormedFacts DEF IInv, TypeOK, WellFormed, Buffer
<1> QED
  BY <1>1, InductiveInvariant, PTL

\* The vector stays within its bound for as long as the reader keeps up.
THEOREM GrowthIsBounded == Spec => []GrowthBounded
<1>1. IInv => GrowthBounded
  BY DEF IInv
<1> QED
  BY <1>1, InductiveInvariant, PTL

\* The buffer is a queue of bytes: it implements ByteQueue.
THEOREM BufferIsAQueue == Spec => ImplementsByteQueue
<1>1. Init => Queue!Init
  BY NewBufferProperties, SizesAssumption DEF Init, Queue!Init
<1>2. IInv /\ [Next]_vars => [Queue!Next]_(Content(msg))
  <2> SUFFICES ASSUME IInv, [Next]_vars
               PROVE  Queue!Next \/ Content(msg)' = Content(msg)
    OBVIOUS
  <2>1. Queue!Next \/ Content(msg') = Content(msg)
    BY NextIInv DEF QueueStep
  <2>2. Content(msg)' = Content(msg')
    BY DEF Content
  <2> QED
    BY <2>1, <2>2
<1> QED
  BY <1>1, <1>2, InductiveInvariant, PTL DEF Spec, Queue!Spec, ImplementsByteQueue

-----------------------------------------------------------------------------
(***************************************************************************)
(* The handshake.  Sequences, and the bytes of packets.                    *)
(***************************************************************************)
LEMMA PeerFacts ==
  ASSUME NEW e \in Endpoint
  PROVE  Peer(e) \in Endpoint /\ Peer(e) # e /\ Peer(Peer(e)) = e
         /\ \A f \in Endpoint : f = e \/ f = Peer(e)
BY DEF Peer, Endpoint

\* A sequence cut in two.
LEMMA CutInTwo ==
  ASSUME NEW S, NEW s \in Seq(S), NEW n \in 0 .. Len(s)
  PROVE  /\ SubSeq(s, 1, n) \in Seq(S) /\ Len(SubSeq(s, 1, n)) = n
         /\ SubSeq(s, n + 1, Len(s)) \in Seq(S)
         /\ SubSeq(s, 1, n) \o SubSeq(s, n + 1, Len(s)) = s
<1>1. Len(s) \in Nat /\ \A i \in 1 .. Len(s) : s[i] \in S
  BY LenProperties, ElementOfSeq
<1>2. SubSeq(s, 1, n) \in Seq(S) /\ Len(SubSeq(s, 1, n)) = n
  BY <1>1, SubSeqProperties
<1>3. SubSeq(s, n + 1, Len(s)) \in Seq(S)
  BY <1>1, SubSeqProperties
<1>4. SubSeq(s, 1, n) \o SubSeq(s, n + 1, Len(s)) = SubSeq(s, 1, Len(s))
  <2>1. 1 \in 1 .. Len(s) + 1 /\ n \in 1 - 1 .. Len(s) /\ Len(s) \in n .. Len(s)
    BY <1>1
  <2> QED BY ONLY s \in Seq(S), n \in 0 .. Len(s), <2>1, ConcatAdjacentSubSeq
<1> QED BY <1>2, <1>3, <1>4, SubSeqFull

\* What begins with s and is long enough begins with s.
LEMMA FirstPart ==
  ASSUME NEW S, NEW s \in Seq(S), NEW t \in Seq(S), NEW u \in Seq(S), NEW v \in Seq(S),
         u \o v = s \o t, Len(u) >= Len(s)
  PROVE  SubSeq(u, 1, Len(s)) = s
<1>1. Len(s) \in Nat /\ Len(u) \in Nat
  BY LenProperties
<1>2. /\ SubSeq(u, 1, Len(s)) \in Seq(S) /\ Len(SubSeq(u, 1, Len(s))) = Len(s)
      /\ \A i \in 1 .. Len(s) : SubSeq(u, 1, Len(s))[i] = u[i]
  <2>1. \A i \in 1 .. Len(s) : u[i] \in S
    BY <1>1, ElementOfSeq
  <2> QED BY <1>1, <2>1, SubSeqProperties
<1>3. \A i \in 1 .. Len(s) : u[i] = s[i]
  <2> TAKE i \in 1 .. Len(s)
  <2>1. (u \o v)[i] = u[i]
    BY <1>1, ConcatProperties, LenProperties
  <2>2. (s \o t)[i] = s[i]
    BY <1>1, ConcatProperties, LenProperties
  <2> QED BY <2>1, <2>2
<1> QED BY <1>2, <1>3, SeqEqual

\* A packet's bytes are its own, and as many as its type has.
LEMMA PiecesFacts ==
  ASSUME NEW p \in Packet
  PROVE  /\ Pieces(p) \in Seq(Piece)
         /\ Len(Pieces(p)) \in Nat \ {0}
         /\ p.type = "C1S1" => Len(Pieces(p)) = kPacketSize + 1
         /\ p.type = "C2S2" => Len(Pieces(p)) = kPacketSize
         /\ \A i \in 1 .. Len(Pieces(p)) : Pieces(p)[i][1] = p
<1>1. kPacketSize \in Nat \ {0}
  BY HandshakeAssumption
<1>2. \A i \in 0 .. kPacketSize : <<p, i>> \in Piece
  BY DEF Piece
<1>3. CASE p.type = "C1S1"
  <2> DEFINE s == [i \in 1 .. (kPacketSize + 1) |-> <<p, i - 1>>]
  <2>1. s \in [1 .. (kPacketSize + 1) -> Piece]
    BY <1>1, <1>2
  <2>2. s \in Seq(Piece)
    BY <1>1, <2>1, SeqDef
  <2>3. Len(s) = kPacketSize + 1
    BY <1>1, <2>2, LenProperties
  <2> QED BY <1>1, <1>3, <2>2, <2>3 DEF Pieces
<1>4. CASE p.type = "C2S2"
  <2> DEFINE s == [i \in 1 .. kPacketSize |-> <<p, i>>]
  <2>1. s \in [1 .. kPacketSize -> Piece]
    BY <1>1, <1>2
  <2>2. s \in Seq(Piece)
    BY <1>1, <2>1, SeqDef
  <2>3. Len(s) = kPacketSize
    BY <1>1, <2>2, LenProperties
  <2> QED BY <1>1, <1>4, <2>2, <2>3 DEF Pieces
<1>5. CASE p.type # "C1S1" /\ p.type # "C2S2"
  <2>1. Pieces(p) = << <<p, 1>> >> /\ <<p, 1>> \in Piece
    BY <1>1, <1>2, <1>5 DEF Pieces
  <2> QED BY <1>5, <2>1
<1> QED BY <1>3, <1>4, <1>5

LEMMA Regrouped ==
  ASSUME NEW a \in Seq(Piece), NEW b \in Seq(Piece), NEW c \in Seq(Piece)
  PROVE  (a \o b) \o c = a \o (b \o c)
BY ConcatAssociative

\* w is what the packets in s amount to, as far as the first two of them go.
Carries(w, s) ==
  \/ s = <<>> /\ w = <<>>
  \/ Len(s) = 1 /\ w = Pieces(s[1])
  \/ Len(s) >= 2 /\ \E r \in Seq(Piece) : w = Pieces(s[1]) \o Pieces(s[2]) \o r

LEMMA CarriesAppend ==
  ASSUME NEW w \in Seq(Piece), NEW s \in Seq(Packet), NEW p \in Packet, Carries(w, s)
  PROVE  Carries(w \o Pieces(p), Append(s, p))
<1>1. /\ Append(s, p) \in Seq(Packet) /\ Len(Append(s, p)) = Len(s) + 1 /\ Len(s) \in Nat
      /\ \A i \in 1 .. Len(s) : Append(s, p)[i] = s[i]
      /\ Append(s, p)[Len(s) + 1] = p
  BY AppendProperties, LenProperties
<1>2. \A i \in 1 .. Len(s) : Pieces(s[i]) \in Seq(Piece)
  BY ElementOfSeq, PiecesFacts
<1>3. Pieces(p) \in Seq(Piece)
  BY PiecesFacts
<1>4. CASE s = <<>> /\ w = <<>>
  <2>1. Len(s) = 0
    BY <1>4
  <2>2. w \o Pieces(p) = Pieces(p)
    BY <1>3, <1>4, ConcatEmptySeq
  <2> QED BY <1>1, <2>1, <2>2 DEF Carries
<1>5. CASE Len(s) = 1 /\ w = Pieces(s[1])
  <2>1. w \o Pieces(p) = Pieces(s[1]) \o Pieces(p) \o <<>>
    <3>1. Pieces(s[1]) \o Pieces(p) \in Seq(Piece)
      BY <1>2, <1>3, <1>5, ConcatProperties
    <3> QED BY <1>5, <3>1, ConcatEmptySeq
  <2>2. <<>> \in Seq(Piece)
    BY EmptySeq
  <2>3. Append(s, p)[1] = s[1] /\ Append(s, p)[2] = p /\ Len(Append(s, p)) = 2
    BY <1>1, <1>5
  <2>4. w \o Pieces(p) = Pieces(Append(s, p)[1]) \o Pieces(Append(s, p)[2]) \o <<>>
    BY <2>1, <2>3
  <2>5. Len(Append(s, p)) >= 2
    BY <2>3
  <2> QED BY <2>2, <2>4, <2>5 DEF Carries
<1>6. CASE Len(s) >= 2 /\ \E r \in Seq(Piece) : w = Pieces(s[1]) \o Pieces(s[2]) \o r
  <2>1. PICK r \in Seq(Piece) : w = Pieces(s[1]) \o Pieces(s[2]) \o r
    BY <1>6
  <2>2. Pieces(s[1]) \o Pieces(s[2]) \in Seq(Piece)
    BY <1>1, <1>2, <1>6, ConcatProperties
  <2>3. w \o Pieces(p) = Pieces(s[1]) \o Pieces(s[2]) \o (r \o Pieces(p))
    BY <1>3, <2>1, <2>2, Regrouped
  <2>4. r \o Pieces(p) \in Seq(Piece)
    BY <1>3, ConcatProperties
  <2>5. Append(s, p)[1] = s[1] /\ Append(s, p)[2] = s[2] /\ Len(Append(s, p)) >= 2
    BY <1>1, <1>6
  <2> QED BY <2>3, <2>4, <2>5 DEF Carries
<1> QED BY <1>4, <1>5, <1>6 DEF Carries

\* What the packets amount to begins with the first one, and if there is more, the
\* second one follows.
LEMMA CarriesBegins ==
  ASSUME NEW w, NEW s \in Seq(Packet), Carries(w, s), s # <<>>
  PROVE  /\ Len(s) >= 1 /\ Pieces(s[1]) \in Seq(Piece)
         /\ \/ w = Pieces(s[1])
            \/ /\ Len(s) >= 2
               /\ \E r \in Seq(Piece) : /\ Pieces(s[2]) \o r \in Seq(Piece)
                                       /\ w = Pieces(s[1]) \o (Pieces(s[2]) \o r)
<1> DEFINE a == Pieces(s[1])
           b == Pieces(s[2])
<1>1. Len(s) >= 1 /\ a \in Seq(Piece)
  <2>1. Len(s) \in Nat /\ Len(s) # 0
    BY LenProperties, EmptySeq
  <2> QED BY <2>1, ElementOfSeq, PiecesFacts
<1>2. w = a \/ (Len(s) >= 2 /\ \E r \in Seq(Piece) : w = (a \o b) \o r)
  BY DEF Carries
<1>3. ASSUME Len(s) >= 2, NEW r \in Seq(Piece), w = (a \o b) \o r
      PROVE  b \o r \in Seq(Piece) /\ w = a \o (b \o r)
  <2>1. b \in Seq(Piece)
    BY <1>3, LenProperties, ElementOfSeq, PiecesFacts
  <2>2. a \in Seq(Piece) /\ b \in Seq(Piece) /\ r \in Seq(Piece)
    BY <1>1, <2>1
  <2> HIDE DEF a, b
  <2>3. (a \o b) \o r = a \o (b \o r)
    BY ONLY <2>2, Regrouped
  <2>4. b \o r \in Seq(Piece)
    BY <2>2, ConcatProperties
  <2> QED BY <1>3, <2>3, <2>4
<1> QED BY <1>1, <1>2, <1>3

\* Whoever has as many bytes as a C0C1 has the first packet.
LEMMA CarriesFirst ==
  ASSUME NEW u \in Seq(Piece), NEW v \in Seq(Piece), NEW s \in Seq(Packet),
         Carries(u \o v, s), s # <<>> => s[1].type = "C1S1",
         Len(u) >= kPacketSize + 1
  PROVE  s # <<>> /\ SubSeq(u, 1, kPacketSize + 1) = Pieces(s[1])
<1>1. kPacketSize \in Nat \ {0} /\ Len(u) \in Nat /\ Len(v) \in Nat /\ Len(s) \in Nat
  BY HandshakeAssumption, LenProperties
<1>2. Len(u \o v) > 0
  BY <1>1, ConcatProperties
<1>3. u \o v # <<>>
  BY <1>2
<1>4. s # <<>> /\ Len(s) >= 1
  BY <1>3 DEF Carries
<1>5. Pieces(s[1]) \in Seq(Piece) /\ Len(Pieces(s[1])) = kPacketSize + 1
  BY <1>1, <1>4, ElementOfSeq, PiecesFacts
<1>6. PICK r \in Seq(Piece) : u \o v = Pieces(s[1]) \o r
  <2>1. CASE u \o v = Pieces(s[1])
    BY <1>5, <2>1, ConcatEmptySeq, EmptySeq
  <2>2. CASE u \o v # Pieces(s[1])
    BY <1>4, <2>2, CarriesBegins
  <2> QED BY <2>1, <2>2
<1>7. SubSeq(u, 1, Len(Pieces(s[1]))) = Pieces(s[1])
  BY <1>1, <1>5, <1>6, FirstPart
<1> QED BY <1>4, <1>5, <1>7

\* Whoever has, after the first packet, as many bytes as a C2 has the second one.
LEMMA CarriesSecond ==
  ASSUME NEW u \in Seq(Piece), NEW v \in Seq(Piece), NEW s \in Seq(Packet), s # <<>>,
         Carries(Pieces(s[1]) \o (u \o v), s), Len(s) >= 2 => s[2].type = "C2S2",
         Len(u) >= kPacketSize
  PROVE  Len(s) >= 2 /\ SubSeq(u, 1, kPacketSize) = Pieces(s[2])
<1>1. kPacketSize \in Nat \ {0} /\ Len(u) \in Nat /\ Len(v) \in Nat /\ Len(s) \in Nat
  BY HandshakeAssumption, LenProperties
<1>2. Len(s) >= 1 /\ Pieces(s[1]) \in Seq(Piece)
  <2>1. Len(s) # 0
    BY EmptySeq
  <2> QED BY <1>1, <2>1, ElementOfSeq, PiecesFacts
<1>3. u \o v \in Seq(Piece) /\ u \o v # <<>>
  <2>1. u \o v \in Seq(Piece) /\ Len(u \o v) > 0
    BY <1>1, ConcatProperties
  <2> QED BY <2>1
<1>4. PICK r \in Seq(Piece) : /\ Len(s) >= 2 /\ Pieces(s[2]) \o r \in Seq(Piece)
                              /\ Pieces(s[1]) \o (u \o v) = Pieces(s[1]) \o (Pieces(s[2]) \o r)
  <2>1. Pieces(s[1]) \o (u \o v) # Pieces(s[1])
    BY <1>2, <1>3, ConcatEqualIffEmpty
  <2> QED BY <2>1, CarriesBegins
<1>5. Pieces(s[2]) \in Seq(Piece) /\ Len(Pieces(s[2])) = kPacketSize
  BY <1>1, <1>4, ElementOfSeq, PiecesFacts
<1>6. u \o v = Pieces(s[2]) \o r
  <2> DEFINE a == Pieces(s[1])
             x == u \o v
             y == Pieces(s[2]) \o r
  <2>1. a \in Seq(Piece) /\ x \in Seq(Piece) /\ y \in Seq(Piece) /\ a \o x = a \o y
    BY <1>2, <1>3, <1>4
  <2> HIDE DEF a, x, y
  <2>2. x = y
    BY ONLY <2>1, ConcatSimplifications
  <2> QED BY <2>2 DEF x, y
<1>7. SubSeq(u, 1, Len(Pieces(s[2]))) = Pieces(s[2])
  BY <1>1, <1>5, <1>6, FirstPart
<1> QED BY <1>4, <1>5, <1>7

-----------------------------------------------------------------------------
(***************************************************************************)
(* What the actions do, and the types.                                     *)
(***************************************************************************)
Call == {"handshake", "writeComplete", "postS0S1", "return0", "return2"}

\* send takes the packet: what is on its way and what waits are followed by its
\* bytes, and writeComplete is to be called only if nothing waits.
LEMMA SendFacts ==
  ASSUME RtmpTypeOK, NEW e \in Endpoint, NEW p \in Packet, NEW next \in Seq(Call),
         SendPacket(e, p, next)
  PROVE  /\ sent' = [sent EXCEPT ![e] = Append(@, p)]
         /\ net'[Peer(e)] \o pending'[e] = net[Peer(e)] \o pending[e] \o Pieces(p)
         /\ \E n \in Seq(Piece) : net' = [net EXCEPT ![Peer(e)] = n]
         /\ \E q \in Seq(Piece) : pending' = [pending EXCEPT ![e] = q]
         /\ \/ calls' = [calls EXCEPT ![e] = next] /\ pending'[e] # <<>>
            \/ calls' = [calls EXCEPT ![e] = <<"writeComplete">> \o next] /\ pending'[e] = <<>>
         /\ pending[e] = <<>> =>
              \A i \in 1 .. Len(pending'[e]) : pending'[e][i][1] = p
<1>1. /\ net \in [Endpoint -> Seq(Piece)] /\ pending \in [Endpoint -> Seq(Piece)]
      /\ Peer(e) \in Endpoint
  BY PeerFacts DEF RtmpTypeOK
<1>2. /\ Pieces(p) \in Seq(Piece) /\ Len(Pieces(p)) \in Nat \ {0}
      /\ \A i \in 1 .. Len(Pieces(p)) : Pieces(p)[i][1] = p
  BY PiecesFacts
<1> DEFINE bytes == Pieces(p)
           net0 == net[Peer(e)]
           waits == pending[e]
<1>3. net0 \in Seq(Piece) /\ waits \in Seq(Piece)
  BY <1>1
<1> HIDE DEF bytes, net0, waits
<1>4. CASE /\ pending[e] # <<>>
           /\ pending' = [pending EXCEPT ![e] = @ \o Pieces(p)]
           /\ ThenCall(e, next)
           /\ UNCHANGED net
  <2>1. waits \o bytes \in Seq(Piece)
    BY <1>2, <1>3, ConcatProperties DEF bytes
  <2>2. waits \o bytes # <<>>
    BY <1>2, <1>3, <1>4, ConcatEqualIffEmpty DEF bytes, waits
  <2>3. pending' = [pending EXCEPT ![e] = waits \o bytes] /\ pending'[e] = waits \o bytes
    BY <1>1, <1>4 DEF bytes, waits
  <2>4. net0 \o (waits \o bytes) = (net0 \o waits) \o bytes
    <3>1. net0 \in Seq(Piece) /\ waits \in Seq(Piece) /\ bytes \in Seq(Piece)
      BY <1>2, <1>3 DEF bytes
    <3> QED BY ONLY <3>1, Regrouped
  <2>5. net' = [net EXCEPT ![Peer(e)] = net0] /\ net'[Peer(e)] = net0
    BY <1>1, <1>4 DEF net0
  <2>6. net'[Peer(e)] \o pending'[e] = net[Peer(e)] \o pending[e] \o Pieces(p)
    BY <2>3, <2>4, <2>5 DEF net0, waits, bytes
  <2>7. calls' = [calls EXCEPT ![e] = next] /\ pending'[e] # <<>> /\ pending[e] # <<>>
    BY <1>4, <2>2, <2>3 DEF ThenCall
  <2> QED BY <1>3, <2>1, <2>3, <2>5, <2>6, <2>7 DEF SendPacket
<1>5. CASE /\ pending[e] = <<>>
           /\ net' = [net EXCEPT ![Peer(e)] = @ \o Pieces(p)]
           /\ ThenCall(e, <<"writeComplete">> \o next)
           /\ UNCHANGED pending
  <2>1. /\ net0 \o bytes \in Seq(Piece) /\ (net0 \o bytes) \o <<>> = net0 \o bytes
        /\ net0 \o <<>> = net0
    BY <1>2, <1>3, ConcatProperties, ConcatEmptySeq DEF bytes
  <2>2. net' = [net EXCEPT ![Peer(e)] = net0 \o bytes] /\ net'[Peer(e)] = net0 \o bytes
    BY <1>1, <1>5 DEF net0, bytes
  <2>3. pending' = [pending EXCEPT ![e] = <<>>] /\ pending'[e] = <<>> /\ <<>> \in Seq(Piece)
    BY <1>1, <1>5, EmptySeq
  <2>4. net'[Peer(e)] \o pending'[e] = net[Peer(e)] \o pending[e] \o Pieces(p)
    BY <1>5, <2>1, <2>2, <2>3 DEF net0, bytes
  <2>5. /\ calls' = [calls EXCEPT ![e] = <<"writeComplete">> \o next]
        /\ \A i \in 1 .. Len(pending'[e]) : pending'[e][i][1] = p
    BY <1>5, <2>3 DEF ThenCall
  <2> QED BY <2>1, <2>2, <2>3, <2>4, <2>5 DEF SendPacket
<1>6. ASSUME pending[e] = <<>>, ThenCall(e, next),
             NEW k \in 1 .. (Len(Pieces(p)) - 1),
             net' = [net EXCEPT ![Peer(e)] = @ \o SubSeq(Pieces(p), 1, k)],
             pending' = [pending EXCEPT ![e] = SubSeq(Pieces(p), k + 1, Len(Pieces(p)))]
      PROVE  /\ net'[Peer(e)] \o pending'[e] = net[Peer(e)] \o pending[e] \o Pieces(p)
             /\ \E n \in Seq(Piece) : net' = [net EXCEPT ![Peer(e)] = n]
             /\ \E q \in Seq(Piece) : pending' = [pending EXCEPT ![e] = q]
             /\ calls' = [calls EXCEPT ![e] = next] /\ pending'[e] # <<>>
             /\ \A i \in 1 .. Len(pending'[e]) : pending'[e][i][1] = p
  <2> DEFINE a == SubSeq(bytes, 1, k)
             b == SubSeq(bytes, k + 1, Len(bytes))
  <2>1. a \in Seq(Piece) /\ b \in Seq(Piece) /\ a \o b = bytes
    <3>1. bytes \in Seq(Piece) /\ k \in 0 .. Len(bytes)
      BY <1>2 DEF bytes
    <3> QED BY <3>1, CutInTwo
  <2>2. Len(b) = Len(bytes) - k /\ \A i \in 1 .. Len(b) : b[i] = bytes[k + i]
    <3>1. \A i \in k + 1 .. Len(bytes) : bytes[i] \in Piece
      BY <1>2, ElementOfSeq DEF bytes
    <3> QED BY <1>2, <3>1, SubSeqProperties DEF bytes
  <2>3. Len(b) > 0 /\ \A i \in 1 .. Len(b) : b[i][1] = p
    <3>1. Len(b) > 0
      BY <1>2, <2>2 DEF bytes
    <3>2. \A i \in 1 .. Len(b) : k + i \in 1 .. Len(bytes)
      BY <1>2, <2>2 DEF bytes
    <3>3. \A i \in 1 .. Len(bytes) : bytes[i][1] = p
      BY <1>2 DEF bytes
    <3> HIDE DEF b
    <3> QED BY <2>2, <3>1, <3>2, <3>3
  <2>4. /\ net' = [net EXCEPT ![Peer(e)] = net0 \o a] /\ pending' = [pending EXCEPT ![e] = b]
        /\ calls' = [calls EXCEPT ![e] = next]
    BY <1>6 DEF bytes, net0, ThenCall
  <2> HIDE DEF a, b
  <2>5. net'[Peer(e)] = net0 \o a /\ pending'[e] = b
    BY <1>1, <2>4
  <2>6. net0 \o a \in Seq(Piece)
    BY <1>3, <2>1, ConcatProperties
  <2>7. (net0 \o a) \o b = net0 \o bytes
    <3>1. net0 \in Seq(Piece) /\ a \in Seq(Piece) /\ b \in Seq(Piece)
      BY <1>3, <2>1
    <3>2. (net0 \o a) \o b = net0 \o (a \o b)
      BY ONLY <3>1, Regrouped
    <3> QED BY <2>1, <3>2
  <2>8. net[Peer(e)] \o pending[e] = net0
    BY <1>3, <1>6, ConcatEmptySeq DEF net0
  <2>9. net'[Peer(e)] \o pending'[e] = net[Peer(e)] \o pending[e] \o Pieces(p)
    BY <2>5, <2>7, <2>8 DEF bytes
  <2>10. b # <<>>
    BY <2>3
  <2> QED BY <2>1, <2>3, <2>4, <2>5, <2>6, <2>9, <2>10
<1> QED BY <1>4, <1>5, <1>6 DEF SendPacket

LEMMA RtmpInitTypeOK == RtmpInit => RtmpTypeOK
<1> SUFFICES ASSUME RtmpInit PROVE RtmpTypeOK
  OBVIOUS
<1>1. <<>> \in Seq(Piece) /\ <<>> \in Seq(Packet) /\ <<>> \in Seq(Call)
  BY EmptySeq
<1>2. Nothing \in Packet
  BY DEF Nothing, C2S2, Packet, Endpoint
<1> QED BY <1>1, <1>2 DEF RtmpInit, RtmpTypeOK, Call

LEMMA PacketFacts ==
  ASSUME NEW e \in Endpoint
  PROVE  /\ OwnC1S1(e) \in Packet /\ OwnC1S1(e).type = "C1S1"
         /\ \A keyed \in Endpoint \cup {"none"} :
              C2S2(e, keyed) \in Packet /\ C2S2(e, keyed).type = "C2S2"
         /\ \A form \in Form : C1S1(e, form) \in Packet /\ C1S1(e, form).type = "C1S1"
         /\ App(e) \in Packet
BY HandshakeAssumption DEF OwnC1S1, C1S1, C2S2, App, Packet, AllForms

LEMMA CallFacts ==
  /\ <<>> \in Seq(Call) /\ <<"handshake">> \in Seq(Call) /\ <<"writeComplete">> \in Seq(Call)
  /\ <<"return0">> \in Seq(Call) /\ <<"return2">> \in Seq(Call)
  /\ <<"postS0S1", "return0">> \in Seq(Call)
  /\ \A next \in Seq(Call) : <<"writeComplete">> \o next \in Seq(Call)
<1>1. <<>> \in Seq(Call) /\ <<"writeComplete">> \in Seq(Call)
  BY EmptySeq DEF Call
<1> QED BY <1>1, ConcatProperties DEF Call

\* What an action of e does to its own part, to what it takes and to what it sends:
\* the types stay, the other end is left alone, and no byte is lost or made up.
OwnKept(e) ==
  /\ state_' \in [Endpoint -> {"kHandShakeInit", "kHandShakeDone"}
                                 \cup ClientStates \cup ServerStates]
  /\ is_complex_handshake_' \in [Endpoint -> BOOLEAN] /\ C2S2_' \in [Endpoint -> Packet]
  /\ ret' \in [Endpoint -> -1..2] /\ closed' \in [Endpoint -> BOOLEAN]
  /\ \A f \in Endpoint \ {e} : state_'[f] = state_[f] /\ C2S2_'[f] = C2S2_[f]

InKept(e) ==
  /\ buffer' \in [Endpoint -> Seq(Piece)] /\ retrieved' \in [Endpoint -> Seq(Piece)]
  /\ net' \in [Endpoint -> Seq(Piece)]
  /\ \A f \in Endpoint \ {e} : buffer'[f] = buffer[f] /\ retrieved'[f] = retrieved[f]
  /\ retrieved'[e] \o buffer'[e] \o net'[e] = retrieved[e] \o buffer[e] \o net[e]

OutKept(e) ==
  /\ sent' \in [Endpoint -> Seq(Packet)] /\ pending' \in [Endpoint -> Seq(Piece)]
  /\ calls' \in [Endpoint -> Seq(Call)]
  /\ \A f \in Endpoint \ {e} :
       sent'[f] = sent[f] /\ pending'[f] = pending[f] /\ calls'[f] = calls[f]
  /\ \/ /\ sent' = sent
        /\ net'[Peer(e)] \o pending'[e] = net[Peer(e)] \o pending[e]
     \/ \E p \in Packet :
          /\ sent' = [sent EXCEPT ![e] = Append(@, p)]
          /\ net'[Peer(e)] \o pending'[e] = net[Peer(e)] \o pending[e] \o Pieces(p)

LEMMA SendKept ==
  ASSUME RtmpTypeOK, NEW e \in Endpoint, NEW p \in Packet, NEW next \in Seq(Call),
         SendPacket(e, p, next)
  PROVE  OutKept(e) /\ net' \in [Endpoint -> Seq(Piece)] /\ net'[e] = net[e]
<1>1. /\ sent \in [Endpoint -> Seq(Packet)] /\ pending \in [Endpoint -> Seq(Piece)]
      /\ net \in [Endpoint -> Seq(Piece)] /\ calls \in [Endpoint -> Seq(Call)]
  BY DEF RtmpTypeOK, Call
<1>2. Append(sent[e], p) \in Seq(Packet)
  BY <1>1, AppendProperties
<1>3. <<"writeComplete">> \o next \in Seq(Call)
  BY CallFacts
<1>4. /\ sent' = [sent EXCEPT ![e] = Append(@, p)]
      /\ net'[Peer(e)] \o pending'[e] = net[Peer(e)] \o pending[e] \o Pieces(p)
      /\ \E n \in Seq(Piece) : net' = [net EXCEPT ![Peer(e)] = n]
      /\ \E q \in Seq(Piece) : pending' = [pending EXCEPT ![e] = q]
      /\ \E c \in {next, <<"writeComplete">> \o next} : calls' = [calls EXCEPT ![e] = c]
  BY SendFacts
<1>5. sent' \in [Endpoint -> Seq(Packet)] /\ \A f \in Endpoint \ {e} : sent'[f] = sent[f]
  BY <1>1, <1>2, <1>4
<1>6. /\ pending' \in [Endpoint -> Seq(Piece)]
      /\ \A f \in Endpoint \ {e} : pending'[f] = pending[f]
  BY <1>1, <1>4
<1>7. /\ calls' \in [Endpoint -> Seq(Call)]
      /\ \A f \in Endpoint \ {e} : calls'[f] = calls[f]
  <2>1. PICK c \in Seq(Call) : calls' = [calls EXCEPT ![e] = c]
    BY <1>3, <1>4
  <2> QED BY <1>1, <2>1
<1>8. net' \in [Endpoint -> Seq(Piece)] /\ net'[e] = net[e]
  BY <1>1, <1>4, PeerFacts
<1> QED BY <1>4, <1>5, <1>6, <1>7, <1>8 DEF OutKept

LEMMA NoSendKept ==
  ASSUME RtmpTypeOK, NEW e \in Endpoint, NEW next \in Seq(Call),
         UNCHANGED <<sent, pending>>, net'[Peer(e)] = net[Peer(e)],
         calls' = calls \/ ThenCall(e, next)
  PROVE  OutKept(e)
<1>1. calls \in [Endpoint -> Seq(Call)]
  BY DEF RtmpTypeOK, Call
<1>2. calls' \in [Endpoint -> Seq(Call)] /\ \A f \in Endpoint \ {e} : calls'[f] = calls[f]
  BY <1>1 DEF ThenCall
<1> QED BY <1>2 DEF OutKept, RtmpTypeOK

LEMMA TakeFacts ==
  ASSUME RtmpTypeOK, NEW e \in Endpoint, NEW n \in Nat, Has(e, n), TakeBytes(e, n)
  PROVE  /\ buffer' \in [Endpoint -> Seq(Piece)] /\ retrieved' \in [Endpoint -> Seq(Piece)]
         /\ \A f \in Endpoint \ {e} : buffer'[f] = buffer[f] /\ retrieved'[f] = retrieved[f]
         /\ retrieved'[e] \o buffer'[e] = retrieved[e] \o buffer[e]
         /\ retrieved'[e] = retrieved[e] \o SubSeq(buffer[e], 1, n)
<1> DEFINE b == buffer[e]
           r == retrieved[e]
           a == SubSeq(b, 1, n)
           z == SubSeq(b, n + 1, Len(b))
<1>1. /\ buffer \in [Endpoint -> Seq(Piece)] /\ retrieved \in [Endpoint -> Seq(Piece)]
      /\ b \in Seq(Piece) /\ r \in Seq(Piece)
  BY DEF RtmpTypeOK
<1>2. buffer' = [buffer EXCEPT ![e] = z] /\ retrieved' = [retrieved EXCEPT ![e] = r \o a]
  BY DEF TakeBytes
<1>3. n \in 0 .. Len(b)
  BY <1>1, LenProperties DEF Has
<1> HIDE DEF b, r
<1>4. a \in Seq(Piece) /\ z \in Seq(Piece) /\ a \o z = b
  BY <1>1, <1>3, CutInTwo
<1> HIDE DEF a, z
<1>5. r \o a \in Seq(Piece)
  BY <1>1, <1>4, ConcatProperties
<1>6. (r \o a) \o z = r \o b
  <2>1. r \in Seq(Piece) /\ a \in Seq(Piece) /\ z \in Seq(Piece)
    BY <1>1, <1>4
  <2>2. (r \o a) \o z = r \o (a \o z)
    BY ONLY <2>1, Regrouped
  <2> QED BY <1>4, <2>2
<1>7. buffer'[e] = z /\ retrieved'[e] = r \o a
  BY <1>1, <1>2
<1>8. retrieved'[e] \o buffer'[e] = retrieved[e] \o buffer[e]
  BY <1>6, <1>7 DEF r, b
<1>9. retrieved'[e] = retrieved[e] \o SubSeq(buffer[e], 1, n)
  BY <1>7 DEF a, r, b
<1> QED BY <1>1, <1>2, <1>4, <1>5, <1>8, <1>9

LEMMA TakeKept ==
  ASSUME RtmpTypeOK, NEW e \in Endpoint, NEW n \in Nat, Has(e, n), TakeBytes(e, n),
         net' \in [Endpoint -> Seq(Piece)], net'[e] = net[e]
  PROVE  InKept(e)
BY TakeFacts DEF InKept

LEMMA NoTakeKept ==
  ASSUME RtmpTypeOK, NEW e \in Endpoint, UNCHANGED <<buffer, retrieved>>,
         net' \in [Endpoint -> Seq(Piece)], net'[e] = net[e]
  PROVE  InKept(e)
BY DEF InKept, RtmpTypeOK

\* A running call leaves a sequence of calls behind.
LEMMA RestFacts ==
  ASSUME RtmpTypeOK, NEW e \in Endpoint, calls[e] # <<>>
  PROVE  Rest(e) \in Seq(Call)
<1>1. calls[e] \in Seq(Call)
  BY DEF RtmpTypeOK, Call
<1> QED BY <1>1, HeadTailProperties DEF Rest

LEMMA OwnUnchanged ==
  ASSUME RtmpTypeOK, NEW e \in Endpoint,
         UNCHANGED <<is_complex_handshake_, C2S2_, ret, closed>>,
         state_' = state_ \/ \E s \in {"kHandShakeInit", "kHandShakeDone"}
                                 \cup ClientStates \cup ServerStates : ToState(e, s)
  PROVE  OwnKept(e)
BY DEF OwnKept, RtmpTypeOK, ToState

LEMMA StartKept ==
  ASSUME RtmpTypeOK, NEW e \in Endpoint, Start(e)
  PROVE  OwnKept(e) /\ InKept(e) /\ OutKept(e)
<1>1. /\ UNCHANGED <<is_complex_handshake_, C2S2_, ret, closed, buffer, retrieved>>
      /\ \E s \in ClientStates \cup ServerStates : ToState(e, s)
  BY DEF Start, ClientStates, ServerStates
<1>2. OwnKept(e)
  BY <1>1, OwnUnchanged
<1>3. CASE SendPacket(e, OwnC1S1(e), <<>>)
  <2>1. OutKept(e) /\ net' \in [Endpoint -> Seq(Piece)] /\ net'[e] = net[e]
    BY <1>3, CallFacts, PacketFacts, SendKept
  <2> QED BY <1>1, <1>2, <2>1, NoTakeKept
<1>4. CASE UNCHANGED <<sent, pending, net, calls>>
  <2>1. net' \in [Endpoint -> Seq(Piece)] /\ net'[e] = net[e] /\ net'[Peer(e)] = net[Peer(e)]
    BY <1>4 DEF RtmpTypeOK
  <2>2. OutKept(e)
    BY <1>4, <2>1, CallFacts, NoSendKept
  <2> QED BY <1>1, <1>2, <2>1, <2>2, NoTakeKept
<1> QED BY <1>3, <1>4 DEF Start

\* The calls that take a first packet and send one.
LEMMA TakeC1S1Kept ==
  ASSUME RtmpTypeOK, NEW e \in Endpoint, Has(e, kPacketSize + 1), TakeC1S1(e),
         UNCHANGED <<ret, closed>>,
         NEW s \in ClientStates \cup ServerStates, ToState(e, s)
  PROVE  OwnKept(e) /\ C2S2_'[e] \in Packet /\ C2S2_'[e].type = "C2S2"
<1> DEFINE complex == is_complex_handshake_[e] /\ ~IsSimple(FirstC1S1(e))
<1>1. /\ is_complex_handshake_' = [is_complex_handshake_ EXCEPT ![e] = complex]
      /\ C2S2_' = [C2S2_ EXCEPT ![e] = CreatedC2S2(e, complex)]
  BY DEF TakeC1S1
<1>2. complex \in BOOLEAN
  OBVIOUS
<1> HIDE DEF complex
<1>3. CreatedC2S2(e, complex) \in Packet /\ CreatedC2S2(e, complex).type = "C2S2"
  BY PacketFacts DEF CreatedC2S2
<1>4. C2S2_'[e] = CreatedC2S2(e, complex)
  BY <1>1 DEF RtmpTypeOK
<1> QED BY <1>1, <1>2, <1>3, <1>4 DEF OwnKept, RtmpTypeOK, ToState

LEMMA HandshakeKept ==
  ASSUME RtmpTypeOK, NEW e \in Endpoint, Handshake(e)
  PROVE  OwnKept(e) /\ InKept(e) /\ OutKept(e)
<1>1. Rest(e) \in Seq(Call) /\ kPacketSize \in Nat
  BY RestFacts, HandshakeAssumption DEF Handshake, Calling
<1>2. ASSUME HandshakeC0C1(e) PROVE OwnKept(e) /\ InKept(e) /\ OutKept(e)
  <2>1. OutKept(e) /\ net' \in [Endpoint -> Seq(Piece)] /\ net'[e] = net[e]
    BY <1>2, CallFacts, PacketFacts, SendKept DEF HandshakeC0C1
  <2>2. OwnKept(e)
    BY <1>2, TakeC1S1Kept DEF HandshakeC0C1, ServerStates
  <2>3. InKept(e)
    BY <1>1, <1>2, <2>1, TakeKept DEF HandshakeC0C1, TakeC1S1
  <2> QED BY <2>1, <2>2, <2>3
<1>3. ASSUME HandshakeS0S1(e) PROVE OwnKept(e) /\ InKept(e) /\ OutKept(e)
  <2>1. \E s \in ClientStates \cup ServerStates : ToState(e, s)
    BY <1>3 DEF HandshakeS0S1, ClientStates
  <2>2. OwnKept(e) /\ C2S2_'[e] \in Packet
    BY <1>3, <2>1, TakeC1S1Kept DEF HandshakeS0S1
  <2>3. \E next \in Seq(Call) : SendPacket(e, C2S2_'[e], next)
    <3>1. <<"postS0S1", "return0">> \in Seq(Call) /\ <<"return2">> \in Seq(Call)
      BY CallFacts
    <3> QED BY <1>3, <3>1 DEF HandshakeS0S1
  <2>4. OutKept(e) /\ net' \in [Endpoint -> Seq(Piece)] /\ net'[e] = net[e]
    BY <2>2, <2>3, SendKept
  <2>5. InKept(e)
    BY <1>1, <1>3, <2>4, TakeKept DEF HandshakeS0S1, TakeC1S1
  <2> QED BY <2>2, <2>4, <2>5
<1>4. ASSUME HandshakeC2(e) PROVE OwnKept(e) /\ InKept(e) /\ OutKept(e)
  <2>1. net' \in [Endpoint -> Seq(Piece)] /\ net'[e] = net[e] /\ net'[Peer(e)] = net[Peer(e)]
    BY <1>4 DEF HandshakeC2, RtmpTypeOK
  <2>2. OwnKept(e)
    BY <1>4 DEF HandshakeC2, OwnKept, ToState, Returned, RtmpTypeOK
  <2>3. InKept(e)
    BY <1>1, <1>4, <2>1, TakeKept DEF HandshakeC2
  <2>4. OutKept(e)
    BY <1>1, <1>4, <2>1, NoSendKept DEF HandshakeC2
  <2> QED BY <2>2, <2>3, <2>4
<1>5. ASSUME HandshakeNothing(e) PROVE OwnKept(e) /\ InKept(e) /\ OutKept(e)
  <2>1. net' \in [Endpoint -> Seq(Piece)] /\ net'[e] = net[e] /\ net'[Peer(e)] = net[Peer(e)]
    BY <1>5 DEF HandshakeNothing, RtmpTypeOK
  <2>2. OwnKept(e)
    BY <1>5 DEF HandshakeNothing, OwnKept, Returned, RtmpTypeOK
  <2>3. InKept(e)
    BY <1>5, <2>1, NoTakeKept DEF HandshakeNothing
  <2>4. OutKept(e)
    BY <1>1, <1>5, <2>1, NoSendKept DEF HandshakeNothing
  <2> QED BY <2>2, <2>3, <2>4
<1> QED BY <1>2, <1>3, <1>4, <1>5 DEF Handshake

\* The other calls.
LEMMA CallsKept ==
  ASSUME RtmpTypeOK, NEW e \in Endpoint, PostS0S1(e) \/ WriteComplete(e) \/ Return(e)
  PROVE  OwnKept(e) /\ InKept(e) /\ OutKept(e)
<1>1. Rest(e) \in Seq(Call)
  BY RestFacts DEF PostS0S1, WriteComplete, Return, Calling
<1>2. UNCHANGED <<buffer, retrieved, is_complex_handshake_, C2S2_>>
  BY DEF PostS0S1, WriteComplete, Return
<1>3. OwnKept(e)
  <2>1. CASE PostS0S1(e)
    BY <2>1, OwnUnchanged DEF PostS0S1, ServerStates
  <2>2. CASE WriteComplete(e)
    <3>1. \E s \in {"kHandShakeInit", "kHandShakeDone"} \cup ClientStates \cup ServerStates :
            ToState(e, s)
      BY <2>2 DEF WriteComplete, AfterWrite, RtmpTypeOK, ServerStates
    <3> QED BY <2>2, <3>1, OwnUnchanged DEF WriteComplete
  <2>3. CASE Return(e)
    BY <2>3 DEF Return, OwnKept, Returned, RtmpTypeOK
  <2> QED BY <2>1, <2>2, <2>3
<1>4. /\ OutKept(e)
      /\ net' \in [Endpoint -> Seq(Piece)] /\ net'[e] = net[e]
  <2>1. CASE \E p \in Packet : SendPacket(e, p, Rest(e))
    BY <1>1, <2>1, SendKept
  <2>2. CASE ThenCall(e, Rest(e)) /\ UNCHANGED <<pending, net, sent>>
    BY <1>1, <2>2, NoSendKept DEF RtmpTypeOK
  <2>3. OwnC1S1(e) \in Packet /\ C2S2_[e] \in Packet
    BY PacketFacts DEF RtmpTypeOK
  <2> QED BY <2>1, <2>2, <2>3 DEF PostS0S1, WriteComplete, Return
<1> QED BY <1>2, <1>3, <1>4, NoTakeKept

LEMMA OnReadKept ==
  ASSUME RtmpTypeOK, NEW e \in Endpoint, OnRead(e)
  PROVE  OwnKept(e) /\ InKept(e) /\ OutKept(e)
<1> DEFINE b == buffer[e]
           w == net[e]
<1>1. /\ buffer \in [Endpoint -> Seq(Piece)] /\ net \in [Endpoint -> Seq(Piece)]
      /\ retrieved \in [Endpoint -> Seq(Piece)]
      /\ b \in Seq(Piece) /\ w \in Seq(Piece) /\ retrieved[e] \in Seq(Piece)
  BY DEF RtmpTypeOK
<1>2. PICK n \in 1 .. Len(w) : /\ buffer' = [buffer EXCEPT ![e] = @ \o SubSeq(net[e], 1, n)]
                              /\ net' = [net EXCEPT ![e] = SubSeq(@, n + 1, Len(@))]
  BY DEF OnRead
<1> DEFINE a == SubSeq(w, 1, n)
           z == SubSeq(w, n + 1, Len(w))
<1>3. buffer' = [buffer EXCEPT ![e] = b \o a] /\ net' = [net EXCEPT ![e] = z]
  BY <1>2
<1> HIDE DEF b, w
<1>4. a \in Seq(Piece) /\ z \in Seq(Piece) /\ a \o z = w
  <2>1. n \in 0 .. Len(w)
    BY <1>1, LenProperties
  <2> QED BY <1>1, <2>1, CutInTwo
<1> HIDE DEF a, z
<1>5. b \o a \in Seq(Piece) /\ (b \o a) \o z = b \o w
  <2>1. b \in Seq(Piece) /\ a \in Seq(Piece) /\ z \in Seq(Piece)
    BY <1>1, <1>4
  <2>2. (b \o a) \o z = b \o (a \o z) /\ b \o a \in Seq(Piece)
    BY ONLY <2>1, Regrouped, ConcatProperties
  <2> QED BY <1>4, <2>2
<1>6. /\ buffer'[e] = b \o a /\ net'[e] = z /\ net'[Peer(e)] = net[Peer(e)]
      /\ buffer' \in [Endpoint -> Seq(Piece)] /\ net' \in [Endpoint -> Seq(Piece)]
      /\ \A f \in Endpoint \ {e} : buffer'[f] = buffer[f]
  BY <1>1, <1>3, <1>4, <1>5, PeerFacts
<1>7. retrieved[e] \o buffer'[e] \o net'[e] = retrieved[e] \o buffer[e] \o net[e]
  <2> DEFINE r == retrieved[e]
             rb == r \o b
  <2>1. r \in Seq(Piece) /\ b \in Seq(Piece) /\ a \in Seq(Piece) /\ z \in Seq(Piece)
    BY <1>1, <1>4
  <2> HIDE DEF r
  <2>2. (r \o b) \o a = r \o (b \o a) /\ rb \in Seq(Piece)
    BY ONLY <2>1, Regrouped, ConcatProperties
  <2> HIDE DEF rb
  <2>3. rb \in Seq(Piece) /\ a \in Seq(Piece) /\ z \in Seq(Piece)
    BY <2>1, <2>2
  <2>4. (rb \o a) \o z = rb \o (a \o z)
    BY ONLY <2>3, Regrouped
  <2>5. r \o (b \o a) = rb \o a
    BY <2>2 DEF rb
  <2>6. retrieved[e] \o buffer'[e] \o net'[e] = (rb \o a) \o z
    BY <1>6, <2>5 DEF r
  <2>7. retrieved[e] \o buffer[e] \o net[e] = rb \o w
    BY DEF rb, r, b, w
  <2> QED BY <1>4, <2>4, <2>6, <2>7
<1>8. InKept(e)
  BY <1>1, <1>6, <1>7 DEF InKept, OnRead
<1>9. OwnKept(e)
  BY OwnUnchanged DEF OnRead
<1>10. OutKept(e)
  BY <1>6, CallFacts, NoSendKept DEF OnRead
<1> QED BY <1>8, <1>9, <1>10

LEMMA OnWriteKept ==
  ASSUME RtmpTypeOK, NEW e \in Endpoint, OnWrite(e)
  PROVE  OwnKept(e) /\ InKept(e) /\ OutKept(e)
<1>1. /\ pending \in [Endpoint -> Seq(Piece)] /\ net \in [Endpoint -> Seq(Piece)]
      /\ calls \in [Endpoint -> Seq(Call)] /\ Peer(e) \in Endpoint \ {e}
  BY PeerFacts DEF RtmpTypeOK, Call
<1>2. net[Peer(e)] \o pending[e] \in Seq(Piece) /\ <<>> \in Seq(Piece)
  BY <1>1, ConcatProperties, EmptySeq
<1>3. /\ pending' \in [Endpoint -> Seq(Piece)] /\ net' \in [Endpoint -> Seq(Piece)]
      /\ pending'[e] = <<>> /\ net'[Peer(e)] = net[Peer(e)] \o pending[e] /\ net'[e] = net[e]
      /\ \A f \in Endpoint \ {e} : pending'[f] = pending[f]
  BY <1>1, <1>2 DEF OnWrite
<1>4. net'[Peer(e)] \o pending'[e] = net[Peer(e)] \o pending[e]
  BY <1>2, <1>3, ConcatEmptySeq
<1>5. /\ calls' \in [Endpoint -> Seq(Call)]
      /\ \A f \in Endpoint \ {e} : calls'[f] = calls[f]
  BY <1>1, CallFacts DEF OnWrite, ThenCall
<1>6. OutKept(e)
  BY <1>3, <1>4, <1>5 DEF OutKept, OnWrite, RtmpTypeOK
<1>7. OwnKept(e) /\ InKept(e)
  BY <1>3, OwnUnchanged, NoTakeKept DEF OnWrite
<1> QED BY <1>6, <1>7

\* Another implementation has no calls to return from and nothing that waits.
OthersInv == \A e \in Endpoint \ Ours : calls[e] = <<>> /\ pending[e] = <<>>

LEMMA OtherPackets ==
  ASSUME RtmpTypeOK, NEW e \in Endpoint, NEW p \in OtherPacket(e)
  PROVE  /\ p \in Packet
         /\ sent[e] = <<>> => p.type = "C1S1"
         /\ Len(sent[e]) = 1 => p.type = "C2S2"
<1> DEFINE n == Len(sent[e])
<1>1. n \in Nat /\ (sent[e] = <<>> <=> n = 0)
  BY EmptySeq, LenProperties DEF RtmpTypeOK
<1>2. (IF sent[e][1].holds = "simple" THEN "none" ELSE Peer(e)) \in Endpoint \cup {"none"}
  BY PeerFacts
<1> HIDE DEF n
<1>3. CASE n = 0
  <2>1. sent[e] = <<>> /\ n # 1
    BY <1>1, <1>3
  <2>2. \E form \in Form : p = C1S1(e, form)
    BY <1>1, <1>3 DEF OtherPacket, n
  <2> QED BY <2>1, <2>2, PacketFacts DEF n
<1>4. CASE n = 1
  <2>1. sent[e] # <<>>
    BY <1>1, <1>4
  <2>2. p = C2S2(e, IF sent[e][1].holds = "simple" THEN "none" ELSE Peer(e))
    BY <1>4, <2>1 DEF OtherPacket, n
  <2> QED BY <1>2, <2>1, <2>2, PacketFacts
<1>5. CASE n \notin {0, 1}
  <2>1. sent[e] # <<>> /\ n # 1
    BY <1>1, <1>5
  <2>2. p = App(e)
    BY <2>1 DEF OtherPacket, n
  <2> QED BY <2>1, <2>2, PacketFacts DEF n
<1> QED BY <1>3, <1>4, <1>5

LEMMA OthersKept ==
  ASSUME RtmpTypeOK, OthersInv, NEW e \in Endpoint, OtherReads(e) \/ OtherSends(e)
  PROVE  OwnKept(e) /\ InKept(e) /\ OutKept(e)
<1>1. /\ buffer \in [Endpoint -> Seq(Piece)] /\ net \in [Endpoint -> Seq(Piece)]
      /\ retrieved \in [Endpoint -> Seq(Piece)] /\ pending \in [Endpoint -> Seq(Piece)]
      /\ sent \in [Endpoint -> Seq(Packet)] /\ Peer(e) \in Endpoint \ {e}
  BY PeerFacts DEF RtmpTypeOK
<1>2. OwnKept(e)
  BY OwnUnchanged DEF OtherReads, OtherSends
<1>3. CASE OtherReads(e)
  <2> DEFINE b == buffer[e]
             w == net[e]
             r == retrieved[e]
  <2>1. b \in Seq(Piece) /\ w \in Seq(Piece) /\ r \in Seq(Piece) /\ <<>> \in Seq(Piece)
    BY <1>1, EmptySeq
  <2>2. buffer' = [buffer EXCEPT ![e] = b \o w] /\ net' = [net EXCEPT ![e] = <<>>]
    BY <1>3 DEF OtherReads
  <2> HIDE DEF b, w, r
  <2>3. b \o w \in Seq(Piece) /\ r \o (b \o w) \in Seq(Piece)
    BY <2>1, ConcatProperties
  <2>4. /\ buffer'[e] = b \o w /\ net'[e] = <<>> /\ net'[Peer(e)] = net[Peer(e)]
        /\ buffer' \in [Endpoint -> Seq(Piece)] /\ net' \in [Endpoint -> Seq(Piece)]
        /\ \A f \in Endpoint \ {e} : buffer'[f] = buffer[f]
    BY <1>1, <2>1, <2>2, <2>3
  <2>5. r \o (b \o w) \o <<>> = r \o b \o w
    <3>1. r \o (b \o w) \o <<>> = r \o (b \o w)
      BY <2>3, ConcatEmptySeq
    <3>2. (r \o b) \o w = r \o (b \o w)
      BY ONLY <2>1, Regrouped
    <3> QED BY <3>1, <3>2
  <2>6. retrieved[e] \o buffer'[e] \o net'[e] = retrieved[e] \o buffer[e] \o net[e]
    BY <2>4, <2>5 DEF r, b, w
  <2>7. InKept(e)
    BY <1>1, <1>3, <2>4, <2>6 DEF InKept, OtherReads
  <2>8. OutKept(e)
    BY <1>3, <2>4, CallFacts, NoSendKept DEF OtherReads
  <2> QED BY <1>2, <2>7, <2>8
<1>4. CASE OtherSends(e)
  <2>1. PICK p \in OtherPacket(e) : /\ sent' = [sent EXCEPT ![e] = Append(@, p)]
                                    /\ net' = [net EXCEPT ![Peer(e)] = @ \o Pieces(p)]
    BY <1>4 DEF OtherSends
  <2>2. p \in Packet /\ Pieces(p) \in Seq(Piece) /\ Append(sent[e], p) \in Seq(Packet)
    BY <1>1, OtherPackets, PiecesFacts, AppendProperties
  <2>3. net[Peer(e)] \in Seq(Piece) /\ net[Peer(e)] \o Pieces(p) \in Seq(Piece)
    BY <1>1, <2>2, ConcatProperties
  <2>4. /\ net' \in [Endpoint -> Seq(Piece)] /\ net'[e] = net[e]
        /\ net'[Peer(e)] = net[Peer(e)] \o Pieces(p)
    BY <1>1, <2>1, <2>3
  <2>5. sent' \in [Endpoint -> Seq(Packet)] /\ \A f \in Endpoint \ {e} : sent'[f] = sent[f]
    BY <1>1, <2>1, <2>2
  <2>6. pending[e] = <<>> /\ UNCHANGED <<pending, calls, buffer, retrieved>>
    BY <1>4 DEF OtherSends, OthersInv
  <2>7. net'[Peer(e)] \o pending'[e] = net[Peer(e)] \o pending[e] \o Pieces(p)
    <3>1. /\ net[Peer(e)] \o <<>> = net[Peer(e)]
          /\ net[Peer(e)] \o Pieces(p) \o <<>> = net[Peer(e)] \o Pieces(p)
      BY <2>3, ConcatEmptySeq
    <3> QED BY <2>4, <2>6, <3>1
  <2>8. OutKept(e)
    BY <1>1, <2>1, <2>2, <2>5, <2>6, <2>7 DEF OutKept, RtmpTypeOK, Call
  <2>9. InKept(e)
    BY <2>4, <2>6, NoTakeKept
  <2> QED BY <1>2, <2>8, <2>9
<1> QED BY <1>3, <1>4

LEMMA StepKept ==
  ASSUME RtmpTypeOK, OthersInv, NEW e \in Endpoint, Step(e)
  PROVE  OwnKept(e) /\ InKept(e) /\ OutKept(e)
BY StartKept, HandshakeKept, CallsKept, OnReadKept, OnWriteKept, OthersKept DEF Step

-----------------------------------------------------------------------------
(***************************************************************************)
(* The invariant of the handshake.                                         *)
(***************************************************************************)
\* The first packet of an end is a C0C1 or S0S1 and the second one a C2 or S2.
PacketsOf(e) ==
  /\ C2S2_[e].type = "C2S2"
  /\ sent[e] # <<>> => sent[e][1].type = "C1S1"
  /\ Len(sent[e]) >= 2 => sent[e][2].type = "C2S2"

PacketsInv == \A e \in Endpoint : PacketsOf(e)

\* What an end has taken, what has arrived, what is on its way and what waits are,
\* together, the packets that the other end has sent.
StreamInv ==
  \A e \in Endpoint :
    Carries(retrieved[e] \o buffer[e] \o net[e] \o pending[Peer(e)], sent[Peer(e)])

\* writeComplete is called when nothing waits.
WriteOf(e) == calls[e] # <<>> /\ Head(calls[e]) = "writeComplete" => pending[e] = <<>>

WriteInv == \A e \in Endpoint : WriteOf(e)

\* The other end's first packet has checked.
Checked(e) ==
  sent[Peer(e)] # <<>> /\ sent[Peer(e)][1].holds \in {"simple", "first", "second"}

ServerCalls == {<<>>, <<"handshake">>, <<"return0">>, <<"writeComplete">>,
                <<"writeComplete", "return0">>}

ServerInv ==
  "server" \in Ours =>
    /\ state_["server"] \in {"kHandShakeInit", "kHandShakeDone"} \cup ServerStates
    /\ calls["server"] \in ServerCalls
    /\ state_["server"] \in {"kHandShakeInit", "kHandShakeWaitC0C1"} =>
         /\ sent["server"] = <<>> /\ pending["server"] = <<>> /\ retrieved["server"] = <<>>
         /\ calls["server"] \in {<<>>, <<"handshake">>}
    /\ state_["server"] = "kHandShakePostS0S1" => Len(sent["server"]) = 1
    /\ state_["server"] \in {"kHandShakePostS2", "kHandShakeWaitC2", "kHandShakeDone"} =>
         /\ Len(sent["server"]) = 2
         /\ \A i \in 1 .. Len(pending["server"]) : pending["server"][i][1].type = "C2S2"
    /\ state_["server"] \in {"kHandShakeWaitC2", "kHandShakeDone"} => pending["server"] = <<>>
    /\ state_["server"] \in {"kHandShakePostS0S1", "kHandShakePostS2", "kHandShakeWaitC2"} =>
         Checked("server") /\ retrieved["server"] = Pieces(sent["client"][1])
    /\ state_["server"] = "kHandShakeDone" =>
         /\ Checked("server") /\ Len(sent["client"]) >= 2
         /\ retrieved["server"] = Pieces(sent["client"][1]) \o Pieces(sent["client"][2])

ClientCalls ==
  ServerCalls \cup {<<"return2">>, <<"writeComplete", "return2">>,
                    <<"postS0S1", "return0">>, <<"writeComplete", "postS0S1", "return0">>}

ClientInv ==
  "client" \in Ours =>
    /\ state_["client"] \in
         {"kHandShakeInit", "kHandShakeDone", "kHandShakePostS0S1", "kHandShakePostS2",
          "kHandShakeWaitC2"} \cup ClientStates
    /\ calls["client"] \in ClientCalls
    /\ state_["client"] = "kHandShakeInit" => sent["client"] = <<>>
    /\ state_["client"] = "kHandShakeWaitS0S1" => Len(sent["client"]) = 1
    /\ state_["client"] \in {"kHandShakeInit", "kHandShakeWaitS0S1"} =>
         /\ retrieved["client"] = <<>>
         /\ calls["client"] \in {<<>>, <<"handshake">>, <<"writeComplete">>}
    /\ state_["client"] \notin {"kHandShakeInit", "kHandShakeWaitS0S1"} =>
         /\ Len(sent["client"]) >= 2 /\ Checked("client")
         /\ Len(retrieved["client"]) >= kPacketSize + 1
         /\ SubSeq(retrieved["client"], 1, kPacketSize + 1) = Pieces(sent["server"][1])
    /\ state_["client"] \in {"kHandShakeWaitC2", "kHandShakeDone"} => pending["client"] = <<>>

RtmpIInv == RtmpTypeOK /\ OthersInv /\ PacketsInv /\ StreamInv /\ WriteInv /\ ServerInv /\ ClientInv

LEMMA RtmpInitIInv == RtmpInit => RtmpIInv
<1> SUFFICES ASSUME RtmpInit PROVE RtmpIInv
  OBVIOUS
<1>1. RtmpTypeOK
  BY RtmpInitTypeOK
<1>2. OthersInv /\ WriteInv
  BY DEF RtmpInit, OthersInv, WriteInv, WriteOf
<1>3. PacketsInv
  BY DEF RtmpInit, PacketsInv, PacketsOf, Nothing, C2S2
<1>4. StreamInv
  <2> SUFFICES ASSUME NEW e \in Endpoint
               PROVE  Carries(<<>> \o <<>> \o <<>> \o <<>>, <<>>)
    BY PeerFacts DEF RtmpInit, StreamInv
  <2>1. <<>> \o <<>> = <<>>
    BY EmptySeq, ConcatEmptySeq
  <2> QED BY <2>1 DEF Carries
<1>5. ServerInv /\ ClientInv
  BY DEF RtmpInit, ServerInv, ClientInv, ServerCalls, ClientCalls, ServerStates, ClientStates,
         Endpoint
<1> QED BY <1>1, <1>2, <1>3, <1>4, <1>5 DEF RtmpIInv

\* What was sent stays, and more may follow.
LEMMA SentStays ==
  ASSUME RtmpTypeOK, NEW e \in Endpoint, OutKept(e), NEW f \in Endpoint
  PROVE  /\ Len(sent'[f]) >= Len(sent[f]) /\ Len(sent[f]) \in Nat
         /\ sent[f] # <<>> => sent'[f] # <<>> /\ sent'[f][1] = sent[f][1]
         /\ Len(sent[f]) >= 2 => sent'[f][2] = sent[f][2]
<1>1. sent[f] \in Seq(Packet) /\ Len(sent[f]) \in Nat /\ (sent[f] # <<>> => Len(sent[f]) >= 1)
  BY LenProperties, EmptySeq DEF RtmpTypeOK
<1>2. CASE sent'[f] = sent[f]
  BY <1>1, <1>2
<1>3. ASSUME NEW p \in Packet, sent'[f] = Append(sent[f], p)
      PROVE  /\ Len(sent'[f]) >= Len(sent[f])
             /\ sent[f] # <<>> => sent'[f] # <<>> /\ sent'[f][1] = sent[f][1]
             /\ Len(sent[f]) >= 2 => sent'[f][2] = sent[f][2]
  BY <1>1, <1>3, AppendProperties
<1>4. sent'[f] = sent[f] \/ \E p \in Packet : sent'[f] = Append(sent[f], p)
  BY DEF OutKept, RtmpTypeOK
<1> QED BY <1>1, <1>2, <1>3, <1>4

LEMMA StreamStep ==
  ASSUME RtmpTypeOK, StreamInv, NEW e \in Endpoint, OwnKept(e), InKept(e), OutKept(e),
         RtmpTypeOK'
  PROVE  StreamInv'
<1> DEFINE f == Peer(e)
<1>1. f \in Endpoint \ {e} /\ Peer(f) = e /\ \A g \in Endpoint : g \in {e, f}
  BY PeerFacts
<1>2. Carries(retrieved'[e] \o buffer'[e] \o net'[e] \o pending'[f], sent'[f])
  <2>1. /\ retrieved'[e] \o buffer'[e] \o net'[e] = retrieved[e] \o buffer[e] \o net[e]
        /\ pending'[f] = pending[f] /\ sent'[f] = sent[f]
    BY <1>1 DEF InKept, OutKept
  <2>2. Carries(retrieved[e] \o buffer[e] \o net[e] \o pending[f], sent[f])
    BY DEF StreamInv
  <2> QED BY <2>1, <2>2
<1>3. Carries(retrieved'[f] \o buffer'[f] \o net'[f] \o pending'[e], sent'[e])
  <2> DEFINE rb == retrieved[f] \o buffer[f]
             n == net[f]
             w == pending[e]
             m == net'[f]
             v == pending'[e]
  <2>1. rb \in Seq(Piece)
    <3>1. retrieved[f] \in Seq(Piece) /\ buffer[f] \in Seq(Piece)
      BY <1>1 DEF RtmpTypeOK
    <3> QED BY <3>1, ConcatProperties
  <2>2. n \in Seq(Piece) /\ w \in Seq(Piece) /\ m \in Seq(Piece) /\ v \in Seq(Piece)
    BY <1>1 DEF RtmpTypeOK
  <2>3. retrieved'[f] \o buffer'[f] = rb
    BY <1>1 DEF InKept
  <2>4. Carries((rb \o n) \o w, sent[e]) /\ sent[e] \in Seq(Packet)
    BY <1>1 DEF StreamInv, RtmpTypeOK
  <2>5. \/ sent' = sent /\ m \o v = n \o w
        \/ \E p \in Packet : /\ sent' = [sent EXCEPT ![e] = Append(@, p)]
                             /\ m \o v = (n \o w) \o Pieces(p)
    BY DEF OutKept
  <2> HIDE DEF rb, n, w, m, v
  <2>6. (rb \o m) \o v = rb \o (m \o v) /\ (rb \o n) \o w = rb \o (n \o w) /\ n \o w \in Seq(Piece)
    <3>1. rb \in Seq(Piece) /\ m \in Seq(Piece) /\ v \in Seq(Piece)
      BY <2>1, <2>2
    <3>2. (rb \o m) \o v = rb \o (m \o v)
      BY ONLY <3>1, Regrouped
    <3>3. rb \in Seq(Piece) /\ n \in Seq(Piece) /\ w \in Seq(Piece)
      BY <2>1, <2>2
    <3>4. (rb \o n) \o w = rb \o (n \o w) /\ n \o w \in Seq(Piece)
      BY ONLY <3>3, Regrouped, ConcatProperties
    <3> QED BY <3>2, <3>4
  <2>7. CASE sent' = sent /\ m \o v = n \o w
    BY <2>3, <2>4, <2>6, <2>7 DEF m, v
  <2>8. ASSUME NEW p \in Packet, sent' = [sent EXCEPT ![e] = Append(@, p)],
               m \o v = (n \o w) \o Pieces(p)
        PROVE  Carries((rb \o m) \o v, sent'[e])
    <3> DEFINE nw == n \o w
               bytes == Pieces(p)
    <3>1. rb \in Seq(Piece) /\ nw \in Seq(Piece) /\ bytes \in Seq(Piece)
      BY <2>1, <2>6, PiecesFacts
    <3>2. m \o v = nw \o bytes
      BY <2>8
    <3>3. Carries(rb \o nw, sent[e])
      BY <2>4, <2>6
    <3> HIDE DEF nw, bytes
    <3>4. (rb \o nw) \o bytes = rb \o (nw \o bytes) /\ rb \o nw \in Seq(Piece)
      BY ONLY <3>1, Regrouped, ConcatProperties
    <3>5. Carries((rb \o nw) \o bytes, Append(sent[e], p))
      BY <2>4, <3>3, <3>4, CarriesAppend DEF bytes
    <3>6. sent'[e] = Append(sent[e], p)
      BY <2>8 DEF RtmpTypeOK
    <3> QED BY <2>6, <3>2, <3>4, <3>5, <3>6
  <2> QED BY <2>3, <2>5, <2>7, <2>8 DEF m, v
<1> QED BY <1>1, <1>2, <1>3 DEF StreamInv

LEMMA TypeStep ==
  ASSUME RtmpTypeOK, NEW e \in Endpoint, OwnKept(e), InKept(e), OutKept(e), UNCHANGED setup
  PROVE  RtmpTypeOK'
BY DEF OwnKept, InKept, OutKept, RtmpTypeOK, Call

LEMMA SentOne ==
  ASSUME RtmpTypeOK, NEW e \in Endpoint
  PROVE  Len(sent[e]) \in Nat /\ (Len(sent[e]) >= 1 <=> sent[e] # <<>>)
BY LenProperties, EmptySeq DEF RtmpTypeOK

\* The end that has taken nothing takes the other one's first packet.
LEMMA TakesFirst ==
  ASSUME RtmpTypeOK, PacketsInv, StreamInv, NEW e \in Endpoint, retrieved[e] = <<>>,
         Has(e, kPacketSize + 1), TakeC1S1(e)
  PROVE  /\ Checked(e) /\ retrieved'[e] = Pieces(sent[Peer(e)][1])
         /\ Len(retrieved'[e]) = kPacketSize + 1
         /\ SubSeq(retrieved'[e], 1, kPacketSize + 1) = Pieces(sent[Peer(e)][1])
<1> DEFINE s == sent[Peer(e)]
           b == buffer[e]
           n == net[e]
           w == pending[Peer(e)]
<1>1. /\ s \in Seq(Packet) /\ b \in Seq(Piece) /\ n \in Seq(Piece) /\ w \in Seq(Piece)
      /\ kPacketSize \in Nat /\ Len(b) >= kPacketSize + 1
  BY PeerFacts, HandshakeAssumption DEF RtmpTypeOK, Has
<1>2. Carries(<<>> \o b \o n \o w, s) /\ (s # <<>> => s[1].type = "C1S1")
  BY PeerFacts DEF StreamInv, PacketsInv, PacketsOf
<1>3. FirstC1S1(e) = SubSeq(b, 1, kPacketSize + 1)
  BY DEF FirstC1S1
<1>4. /\ CheckC1S1(e, FirstC1S1(e)) /\ TakeBytes(e, kPacketSize + 1)
  BY DEF TakeC1S1
<1> HIDE DEF s, b, n, w
<1>5. s # <<>> /\ SubSeq(b, 1, kPacketSize + 1) = Pieces(s[1])
  <2>1. <<>> \o b = b
    BY <1>1, ConcatEmptySeq
  <2>2. (b \o n) \o w = b \o (n \o w) /\ n \o w \in Seq(Piece)
    BY <1>1, Regrouped, ConcatProperties
  <2>3. Carries(b \o (n \o w), s)
    BY <1>2, <2>1, <2>2
  <2> QED BY <1>1, <1>2, <2>2, <2>3, CarriesFirst
<1>6. s[1] \in Packet /\ s[1].type = "C1S1"
  BY <1>1, <1>2, <1>5, EmptySeq, ElementOfSeq
<1>7. /\ Pieces(s[1]) \in Seq(Piece) /\ Len(Pieces(s[1])) = kPacketSize + 1
      /\ Pieces(s[1])[1][1] = s[1]
  <2>1. Pieces(s[1]) \in Seq(Piece) /\ Len(Pieces(s[1])) = kPacketSize + 1
    BY <1>6, PiecesFacts
  <2>2. 1 \in 1 .. Len(Pieces(s[1]))
    BY <1>1, <2>1
  <2> QED BY <1>6, <2>1, <2>2, PiecesFacts
<1>8. s[1].holds \in {"simple", "first", "second"}
  BY <1>3, <1>4, <1>5, <1>7 DEF CheckC1S1, IsSimple
<1>9. retrieved'[e] = Pieces(s[1])
  <2>1. retrieved'[e] = <<>> \o Pieces(s[1])
    <3>1. kPacketSize + 1 \in Nat
      BY <1>1
    <3>2. retrieved'[e] = retrieved[e] \o SubSeq(buffer[e], 1, kPacketSize + 1)
      BY <1>4, <3>1, TakeFacts
    <3> QED BY <1>5, <3>2 DEF b
  <2> QED BY <1>7, <2>1, ConcatEmptySeq
<1>10. SubSeq(Pieces(s[1]), 1, kPacketSize + 1) = Pieces(s[1])
  BY <1>7, SubSeqFull
<1> QED BY <1>5, <1>7, <1>8, <1>9, <1>10 DEF Checked, s

\* The end that has taken the first packet takes the second one.
LEMMA TakesSecond ==
  ASSUME RtmpTypeOK, PacketsInv, StreamInv, NEW e \in Endpoint, sent[Peer(e)] # <<>>,
         retrieved[e] = Pieces(sent[Peer(e)][1]), Has(e, kPacketSize), TakeBytes(e, kPacketSize)
  PROVE  /\ Len(sent[Peer(e)]) >= 2
         /\ retrieved'[e] = Pieces(sent[Peer(e)][1]) \o Pieces(sent[Peer(e)][2])
<1> DEFINE s == sent[Peer(e)]
           a == Pieces(s[1])
           b == buffer[e]
           n == net[e]
           w == pending[Peer(e)]
<1>1. /\ s \in Seq(Packet) /\ b \in Seq(Piece) /\ n \in Seq(Piece) /\ w \in Seq(Piece)
      /\ a \in Seq(Piece) /\ kPacketSize \in Nat /\ Len(b) >= kPacketSize
  BY PeerFacts, HandshakeAssumption DEF RtmpTypeOK, Has
<1>2. Carries(a \o b \o n \o w, s) /\ (Len(s) >= 2 => s[2].type = "C2S2")
  BY PeerFacts DEF StreamInv, PacketsInv, PacketsOf
<1>3. retrieved'[e] = a \o SubSeq(b, 1, kPacketSize)
  BY <1>1, TakeFacts
<1> HIDE DEF b, n, w
<1>4. Len(s) >= 2 /\ SubSeq(b, 1, kPacketSize) = Pieces(s[2])
  <2> HIDE DEF a
  <2>1. ((a \o b) \o n) \o w = a \o (b \o (n \o w)) /\ n \o w \in Seq(Piece)
    <3> DEFINE ab == a \o b
               nw == n \o w
    <3>1. ab \in Seq(Piece) /\ nw \in Seq(Piece)
      BY <1>1, ConcatProperties
    <3>2. (a \o b) \o nw = a \o (b \o nw)
      <4>1. a \in Seq(Piece) /\ b \in Seq(Piece) /\ nw \in Seq(Piece)
        BY <1>1, <3>1
      <4> HIDE DEF nw
      <4> QED BY ONLY <4>1, Regrouped
    <3>3. (ab \o n) \o w = ab \o (n \o w)
      <4>1. ab \in Seq(Piece) /\ n \in Seq(Piece) /\ w \in Seq(Piece)
        BY <1>1, <3>1
      <4> HIDE DEF ab
      <4> QED BY ONLY <4>1, Regrouped
    <3> QED BY <3>1, <3>2, <3>3
  <2>2. Carries(a \o (b \o (n \o w)), s)
    BY <1>2, <2>1
  <2> QED BY <1>1, <1>2, <2>1, <2>2, CarriesSecond DEF a, s
<1> QED BY <1>3, <1>4

\* writeComplete before other calls.
LEMMA WriteThenCall ==
  ASSUME NEW x, NEW y, NEW z
  PROVE  /\ <<x>> \o <<>> = <<x>> /\ <<x>> \o <<y>> = <<x, y>>
         /\ <<x>> \o <<y, z>> = <<x, y, z>>
<1> DEFINE S == {x, y, z}
<1>1. /\ <<x>> \in Seq(S) /\ <<y>> \in Seq(S) /\ <<y, z>> \in Seq(S)
      /\ <<x, y>> \in Seq(S) /\ <<x, y, z>> \in Seq(S)
  OBVIOUS
<1>2. <<x>> \o <<y>> = <<x, y>>
  <2> DEFINE s == <<x>> \o <<y>>
             t == <<x, y>>
  <2>1. s \in Seq(S) /\ Len(s) = 2 /\ s[1] = x /\ s[2] = y
    BY <1>1, ConcatProperties
  <2>2. t \in Seq(S) /\ Len(t) = 2 /\ t[1] = x /\ t[2] = y
    BY <1>1
  <2> HIDE DEF S, s, t
  <2>3. \A i \in 1 .. Len(s) : s[i] = t[i]
    BY <2>1, <2>2
  <2>4. s = t
    BY <2>1, <2>2, <2>3, SeqEqual
  <2> QED BY <2>4 DEF s, t
<1>3. <<x>> \o <<y, z>> = <<x, y, z>>
  <2> DEFINE s == <<x>> \o <<y, z>>
             t == <<x, y, z>>
  <2>1. s \in Seq(S) /\ Len(s) = 3 /\ s[1] = x /\ s[2] = y /\ s[3] = z
    BY <1>1, ConcatProperties
  <2>2. t \in Seq(S) /\ Len(t) = 3 /\ t[1] = x /\ t[2] = y /\ t[3] = z
    BY <1>1
  <2> HIDE DEF S, s, t
  <2>3. \A i \in 1 .. Len(s) : s[i] = t[i]
    BY <2>1, <2>2
  <2>4. s = t
    BY <2>1, <2>2, <2>3, SeqEqual
  <2> QED BY <2>4 DEF s, t
<1>4. <<x>> \o <<>> = <<x>>
  BY <1>1, ConcatEmptySeq
<1> QED BY <1>2, <1>3, <1>4

\* What is left when a call returns or has sent a packet.
Later == {<<>>, <<"return0">>, <<"return2">>, <<"postS0S1", "return0">>}

LEMMA CallsLeft ==
  ASSUME NEW c \in ClientCalls, c # <<>>
  PROVE  /\ Head(c) = "handshake" => c = <<"handshake">>
         /\ Head(c) = "postS0S1" => c = <<"postS0S1", "return0">>
         /\ Tail(c) \in Later
         /\ c \in ServerCalls =>
              Tail(c) \in {<<>>, <<"return0">>} /\ Head(c) # "postS0S1"
<1> DEFINE w == "writeComplete"
<1>1. CASE c = <<"handshake">>
  BY <1>1 DEF Later
<1>2. CASE c = <<"return0">>
  BY <1>2 DEF Later
<1>3. CASE c = <<w>>
  BY <1>3 DEF Later
<1>4. CASE c = <<w, "return0">>
  BY <1>4 DEF Later
<1>5. CASE c = <<"return2">>
  BY <1>5 DEF ServerCalls, Later
<1>6. CASE c = <<w, "return2">>
  <2>1. c \notin ServerCalls
    BY <1>6 DEF ServerCalls
  <2>2. Tail(c) = <<"return2">> /\ Head(c) = w
    BY <1>6
  <2> QED BY <2>1, <2>2 DEF Later
<1>7. CASE c = <<"postS0S1", "return0">>
  <2>1. c \notin ServerCalls
    BY <1>7 DEF ServerCalls
  <2>2. Tail(c) = <<"return0">> /\ Head(c) = "postS0S1"
    BY <1>7
  <2> QED BY <1>7, <2>1, <2>2 DEF Later
<1>8. CASE c = <<w, "postS0S1", "return0">>
  <2>1. c \notin ServerCalls
    BY <1>8 DEF ServerCalls
  <2>2. Tail(c) = <<"postS0S1", "return0">> /\ Head(c) = w
    BY <1>8
  <2> QED BY <2>1, <2>2 DEF Later
<1> QED BY <1>1, <1>2, <1>3, <1>4, <1>5, <1>6, <1>7, <1>8 DEF ClientCalls, ServerCalls, Later

LEMMA CallsAfter ==
  ASSUME NEW c \in Later
  PROVE  /\ c \in ClientCalls /\ <<"writeComplete">> \o c \in ClientCalls
         /\ c \in {<<>>, <<"return0">>} =>
              c \in ServerCalls /\ <<"writeComplete">> \o c \in ServerCalls
         /\ c # <<>> => Head(c) # "writeComplete"
         /\ c \in Seq(Call)
<1> DEFINE w == "writeComplete"
<1>1. /\ <<w>> \o <<>> = <<w>> /\ <<w>> \o <<"return0">> = <<w, "return0">>
      /\ <<w>> \o <<"return2">> = <<w, "return2">>
      /\ <<w>> \o <<"postS0S1", "return0">> = <<w, "postS0S1", "return0">>
  <2>1. <<w>> \o <<>> = <<w>>
    BY WriteThenCall
  <2>2. <<w>> \o <<"return0">> = <<w, "return0">>
    BY WriteThenCall
  <2>3. <<w>> \o <<"return2">> = <<w, "return2">>
    BY WriteThenCall
  <2>4. <<w>> \o <<"postS0S1", "return0">> = <<w, "postS0S1", "return0">>
    BY WriteThenCall
  <2> QED BY <2>1, <2>2, <2>3, <2>4
<1>2. <<w>> \o c \in ClientCalls /\ (c \in {<<>>, <<"return0">>} => <<w>> \o c \in ServerCalls)
  BY <1>1 DEF ClientCalls, ServerCalls, Later
<1>3. c # <<>> => Head(c) # w
  BY DEF Later
<1> QED BY <1>2, <1>3, CallFacts DEF ClientCalls, ServerCalls, Later

\* An end that sends: what it has then sent, what waits and what is called next.
LEMMA SendStep ==
  ASSUME RtmpTypeOK, PacketsInv, NEW e \in Endpoint, NEW p \in Packet,
         NEW next \in Later,
         SendPacket(e, p, next), C2S2_'[e].type = "C2S2",
         sent[e] = <<>> => p.type = "C1S1", Len(sent[e]) = 1 => p.type = "C2S2"
  PROVE  /\ PacketsOf(e)' /\ WriteOf(e)'
         /\ calls'[e] \in {next, <<"writeComplete">> \o next}
         /\ Len(sent'[e]) = Len(sent[e]) + 1 /\ Len(sent[e]) \in Nat
         /\ pending[e] = <<>> => \A i \in 1 .. Len(pending'[e]) : pending'[e][i][1] = p
<1>1. /\ sent[e] \in Seq(Packet) /\ calls \in [Endpoint -> Seq(Call)]
      /\ sent \in [Endpoint -> Seq(Packet)]
  BY DEF RtmpTypeOK, Call
<1>2. next \in Seq(Call) /\ (next # <<>> => Head(next) # "writeComplete")
  BY CallsAfter
<1>3. /\ sent' = [sent EXCEPT ![e] = Append(@, p)]
      /\ \/ calls' = [calls EXCEPT ![e] = next]
         \/ calls' = [calls EXCEPT ![e] = <<"writeComplete">> \o next] /\ pending'[e] = <<>>
      /\ pending[e] = <<>> => \A i \in 1 .. Len(pending'[e]) : pending'[e][i][1] = p
  BY <1>2, SendFacts
<1>4. sent'[e] = Append(sent[e], p)
  BY <1>1, <1>3
<1>5. /\ Len(sent'[e]) = Len(sent[e]) + 1 /\ Len(sent[e]) \in Nat
      /\ sent'[e][Len(sent[e]) + 1] = p /\ \A i \in 1 .. Len(sent[e]) : sent'[e][i] = sent[e][i]
      /\ sent[e] = <<>> <=> Len(sent[e]) = 0
  BY <1>1, <1>4, AppendProperties, LenProperties, EmptySeq
<1>6. PacketsOf(e)'
  <2> DEFINE n == Len(sent[e])
  <2>1. PacketsOf(e) /\ n \in Nat
    BY <1>5 DEF PacketsInv
  <2>2. sent'[e][1].type = "C1S1"
    <3>1. CASE n = 0
      BY <1>5, <3>1
    <3>2. CASE n # 0
      <4>1. 1 \in 1 .. n /\ sent[e] # <<>>
        BY <1>5, <2>1, <3>2
      <4> QED BY <1>5, <2>1, <4>1 DEF PacketsOf
    <3> QED BY <3>1, <3>2
  <2>3. n >= 1 => sent'[e][2].type = "C2S2"
    <3>1. CASE n = 1
      BY <1>5, <3>1
    <3>2. CASE n >= 2
      <4>1. 2 \in 1 .. n
        BY <2>1, <3>2
      <4> QED BY <1>5, <2>1, <3>2, <4>1 DEF PacketsOf
    <3> HIDE DEF n
    <3> QED BY <2>1, <3>1, <3>2
  <2>4. Len(sent'[e]) >= 2 => n >= 1
    BY <1>5
  <2> QED BY <2>2, <2>3, <2>4 DEF PacketsOf
<1>7. calls'[e] = next \/ (calls'[e] = <<"writeComplete">> \o next /\ pending'[e] = <<>>)
  BY <1>1, <1>3
<1>8. WriteOf(e)'
  BY <1>2, <1>7 DEF WriteOf
<1> QED BY <1>3, <1>5, <1>6, <1>7, <1>8

\* An end that sends nothing, and calls nothing, goes on to what was left.
LEMMA QuietEnd ==
  ASSUME RtmpTypeOK, PacketsInv, WriteInv, NEW e \in Endpoint, calls[e] \in ClientCalls,
         UNCHANGED <<sent, pending>>, C2S2_'[e] = C2S2_[e],
         calls'[e] = <<"handshake">> \/ calls'[e] = calls[e]
           \/ (calls[e] # <<>> /\ calls'[e] = Tail(calls[e]))
  PROVE  PacketsOf(e)' /\ WriteOf(e)'
<1>1. PacketsOf(e)'
  BY DEF PacketsInv, PacketsOf
<1>2. CASE calls'[e] = <<"handshake">>
  BY <1>1, <1>2 DEF WriteOf
<1>3. CASE calls'[e] = calls[e]
  BY <1>1, <1>3 DEF WriteInv, WriteOf
<1>4. CASE calls[e] # <<>> /\ calls'[e] = Tail(calls[e])
  <2>1. calls'[e] # <<>> => Head(calls'[e]) # "writeComplete"
    BY <1>4, CallsLeft, CallsAfter
  <2> QED BY <1>1, <2>1 DEF WriteOf
<1> QED BY <1>1, <1>2, <1>3, <1>4

-----------------------------------------------------------------------------
(***************************************************************************)
(* The steps of the server.                                                *)
(***************************************************************************)
LEMMA ServerHandshakeStep ==
  ASSUME RtmpIInv, "server" \in Ours, UNCHANGED setup, Handshake("server"), OutKept("server")
  PROVE  ServerInv' /\ PacketsOf("server")' /\ WriteOf("server")'
<1> DEFINE e == "server"
<1>1. /\ RtmpTypeOK /\ PacketsInv /\ StreamInv /\ WriteInv /\ ServerInv /\ e \in Endpoint
      /\ Peer(e) = "client" /\ "client" \in Endpoint \ {e}
  BY DEF RtmpIInv, Endpoint, Peer
<1>2. /\ state_ \in [Endpoint -> {"kHandShakeInit", "kHandShakeDone"}
                                   \cup ClientStates \cup ServerStates]
      /\ calls \in [Endpoint -> Seq(Call)] /\ e \in Endpoint
      /\ sent'["client"] = sent["client"]
  BY <1>1 DEF RtmpTypeOK, OutKept, Call
<1>3. /\ state_[e] \in {"kHandShakeInit", "kHandShakeDone"} \cup ServerStates
      /\ calls[e] \in ServerCalls /\ calls[e] \in ClientCalls /\ calls[e] # <<>>
      /\ calls[e] = <<"handshake">> /\ Tail(calls[e]) = <<>>
  <2>1. calls[e] \in ServerCalls /\ calls[e] \in ClientCalls /\ calls[e] # <<>>
    BY <1>1 DEF ServerInv, ClientCalls, Handshake, Calling
  <2>2. calls[e] = <<"handshake">>
    BY <2>1, CallsLeft DEF Handshake, Calling
  <2> QED BY <1>1, <2>1, <2>2 DEF ServerInv
<1>4. ASSUME HandshakeC0C1(e)
      PROVE  ServerInv' /\ PacketsOf(e)' /\ WriteOf(e)'
  <2>1. /\ state_[e] = "kHandShakeWaitC0C1" /\ state_'[e] = "kHandShakePostS0S1"
        /\ sent[e] = <<>> /\ retrieved[e] = <<>>
    BY <1>1, <1>2, <1>4 DEF HandshakeC0C1, ToState, ServerInv
  <2>2. Checked(e) /\ retrieved'[e] = Pieces(sent["client"][1])
    BY <1>1, <1>4, <2>1, TakesFirst DEF HandshakeC0C1
  <2>3. C2S2_'[e].type = "C2S2"
    BY <1>1, <1>4, TakeC1S1Kept DEF HandshakeC0C1, ServerStates
  <2>4. /\ PacketsOf(e)' /\ WriteOf(e)' /\ Len(sent'[e]) = Len(sent[e]) + 1
        /\ calls'[e] \in {<<"return0">>, <<"writeComplete">> \o <<"return0">>}
    <3>1. sent[e] = <<>> /\ Len(sent[e]) # 1
      BY <2>1
    <3> DEFINE next == <<"return0">>
    <3>2. next \in Later
      BY DEF Later
    <3>3. SendPacket(e, OwnC1S1(e), next)
      BY <1>4 DEF HandshakeC0C1
    <3> HIDE DEF next
    <3>4. calls'[e] \in {next, <<"writeComplete">> \o next} /\ PacketsOf(e)' /\ WriteOf(e)'
          /\ Len(sent'[e]) = Len(sent[e]) + 1
      BY <1>1, <2>3, <3>1, <3>2, <3>3, PacketFacts, SendStep
    <3> QED BY <3>4 DEF next
  <2>5. Len(sent'[e]) = 1
    BY <2>1, <2>4
  <2>6. calls'[e] \in ServerCalls
    BY <2>4, CallsAfter DEF Later
  <2>7. Checked(e)'
    BY <1>1, <1>2, <2>2 DEF Checked
  <2> QED BY <1>1, <1>2, <2>1, <2>2, <2>4, <2>5, <2>6, <2>7 DEF ServerInv, ServerStates
<1>5. ~HandshakeS0S1(e)
  BY <1>3 DEF HandshakeS0S1, ServerStates
<1>6. ASSUME HandshakeC2(e)
      PROVE  ServerInv' /\ PacketsOf(e)' /\ WriteOf(e)'
  <2>1. /\ state_[e] = "kHandShakeWaitC2" /\ state_'[e] = "kHandShakeDone"
        /\ UNCHANGED <<sent, pending, C2S2_>> /\ calls'[e] = Tail(calls[e])
    <3>1. calls'[e] = Rest(e)
      BY <1>2, <1>6 DEF HandshakeC2, ThenCall
    <3> QED BY <1>2, <1>6, <3>1 DEF HandshakeC2, ToState, Rest
  <2>2. /\ Len(sent[e]) = 2 /\ pending[e] = <<>> /\ Checked(e)
        /\ retrieved[e] = Pieces(sent["client"][1])
    BY <1>1, <2>1 DEF ServerInv
  <2>3. /\ Len(sent["client"]) >= 2
        /\ retrieved'[e] = Pieces(sent["client"][1]) \o Pieces(sent["client"][2])
    BY <1>1, <1>6, <2>2, TakesSecond DEF HandshakeC2, Checked
  <2>4. PacketsOf(e)' /\ WriteOf(e)'
    BY <1>1, <1>3, <2>1, QuietEnd
  <2>5. Checked(e)'
    BY <1>1, <1>2, <2>2 DEF Checked
  <2>6. calls'[e] \in ServerCalls
    BY <1>3, <2>1 DEF ServerCalls
  <2> QED BY <2>1, <2>2, <2>3, <2>4, <2>5, <2>6 DEF ServerInv, ServerStates
<1>7. ASSUME HandshakeNothing(e)
      PROVE  ServerInv' /\ PacketsOf(e)' /\ WriteOf(e)'
  <2>1. /\ UNCHANGED <<state_, sent, pending, C2S2_, retrieved>> /\ calls'[e] = <<>>
        /\ calls'[e] = Tail(calls[e])
    <3>1. calls'[e] = Rest(e) /\ Rest(e) = <<>>
      BY <1>2, <1>3, <1>7 DEF HandshakeNothing, ThenCall, Rest
    <3> QED BY <1>7, <3>1 DEF HandshakeNothing, Rest
  <2>2. PacketsOf(e)' /\ WriteOf(e)'
    BY <1>1, <1>3, <2>1, QuietEnd
  <2>3. ServerInv'
    BY <1>1, <2>1 DEF ServerInv, Checked, ServerCalls
  <2> QED BY <2>2, <2>3
<1> QED BY <1>4, <1>5, <1>6, <1>7 DEF Handshake

LEMMA ServerWriteStep ==
  ASSUME RtmpIInv, "server" \in Ours, UNCHANGED setup, WriteComplete("server"),
         OutKept("server")
  PROVE  ServerInv' /\ PacketsOf("server")' /\ WriteOf("server")'
<1> DEFINE e == "server"
<1>1. /\ RtmpTypeOK /\ PacketsInv /\ WriteInv /\ ServerInv /\ e \in Endpoint
      /\ "client" \in Endpoint \ {e} /\ Peer(e) = "client"
  BY DEF RtmpIInv, Endpoint, Peer
<1>2. /\ state_ \in [Endpoint -> {"kHandShakeInit", "kHandShakeDone"}
                                   \cup ClientStates \cup ServerStates]
      /\ calls \in [Endpoint -> Seq(Call)] /\ e \in Endpoint /\ C2S2_[e] \in Packet
      /\ sent'["client"] = sent["client"]
  BY <1>1 DEF RtmpTypeOK, OutKept, Call
<1>3. /\ calls[e] \in ServerCalls /\ calls[e] \in ClientCalls /\ calls[e] # <<>>
      /\ Head(calls[e]) = "writeComplete"
      /\ UNCHANGED <<C2S2_, retrieved>>
  BY <1>1 DEF ServerInv, ClientCalls, WriteComplete, Calling
<1>4. pending[e] = <<>> /\ Rest(e) \in {<<>>, <<"return0">>}
  BY <1>1, <1>3, CallsLeft DEF WriteInv, WriteOf, Rest
<1>5. state_[e] \in {"kHandShakePostS0S1", "kHandShakePostS2", "kHandShakeWaitC2",
                     "kHandShakeDone"}
  <2>1. calls[e] \notin {<<>>, <<"handshake">>}
    BY <1>3
  <2> QED BY <1>1, <2>1 DEF ServerInv, ServerStates
<1>6. Checked(e)'
  BY <1>1, <1>2, <1>5 DEF ServerInv, Checked
<1>7. CASE state_[e] = "kHandShakePostS0S1"
  <2>1. /\ state_'[e] = "kHandShakePostS2" /\ SendPacket(e, C2S2_[e], Rest(e))
        /\ Len(sent[e]) = 1 /\ retrieved[e] = Pieces(sent["client"][1])
    BY <1>1, <1>2, <1>7 DEF WriteComplete, ToState, ServerInv
  <2>2. C2S2_[e].type = "C2S2" /\ sent[e] # <<>>
    <3>1. sent[e] # <<>>
      <4>1. Len(sent[e]) >= 1
        BY <2>1
      <4> HIDE DEF e
      <4> QED BY <1>1, <4>1, SentOne
    <3> QED BY <1>1, <3>1 DEF PacketsInv, PacketsOf
  <2>3. /\ PacketsOf(e)' /\ WriteOf(e)' /\ Len(sent'[e]) = Len(sent[e]) + 1
        /\ calls'[e] \in {Rest(e), <<"writeComplete">> \o Rest(e)}
        /\ \A i \in 1 .. Len(pending'[e]) : pending'[e][i][1] = C2S2_[e]
    <3>1. Rest(e) \in Later
      BY <1>4 DEF Later
    <3> DEFINE p == C2S2_[e]
    <3>2. p \in Packet /\ p.type = "C2S2" /\ SendPacket(e, p, Rest(e)) /\ C2S2_'[e].type = "C2S2"
      BY <1>2, <1>3, <2>1, <2>2
    <3> HIDE DEF p
    <3>3. /\ PacketsOf(e)' /\ WriteOf(e)' /\ Len(sent'[e]) = Len(sent[e]) + 1
          /\ calls'[e] \in {Rest(e), <<"writeComplete">> \o Rest(e)}
          /\ \A i \in 1 .. Len(pending'[e]) : pending'[e][i][1] = p
      BY <1>1, <1>4, <2>2, <3>1, <3>2, SendStep
    <3> QED BY <3>3 DEF p
  <2>4. Len(sent'[e]) = 2
    BY <2>1, <2>3
  <2>5. calls'[e] \in ServerCalls
    BY <1>4, <2>3, CallsAfter DEF Later
  <2> QED BY <1>2, <1>3, <1>6, <2>1, <2>2, <2>3, <2>4, <2>5 DEF ServerInv, ServerStates
<1>8. CASE state_[e] # "kHandShakePostS0S1"
  <2>1. /\ UNCHANGED <<sent, pending>> /\ calls'[e] = Rest(e)
        /\ state_'[e] = AfterWrite(state_[e])
    BY <1>2, <1>8 DEF WriteComplete, ToState, ThenCall
  <2>2. state_'[e] = IF state_[e] = "kHandShakePostS2" THEN "kHandShakeWaitC2" ELSE state_[e]
    BY <1>5, <1>8, <2>1 DEF AfterWrite
  <2>3. PacketsOf(e)' /\ WriteOf(e)'
    BY <1>1, <1>3, <2>1, QuietEnd DEF Rest
  <2>4. calls'[e] \in ServerCalls
    BY <1>4, <2>1 DEF ServerCalls
  <2>5. CASE state_[e] = "kHandShakePostS2"
    <3>1. /\ state_'[e] = "kHandShakeWaitC2" /\ Len(sent'[e]) = 2 /\ pending'[e] = <<>>
          /\ retrieved'[e] = Pieces(sent'["client"][1])
      BY <1>1, <1>2, <1>3, <1>4, <2>1, <2>2, <2>5 DEF ServerInv
    <3> QED BY <1>6, <2>3, <2>4, <3>1 DEF ServerInv, ServerStates
  <2>6. CASE state_[e] \in {"kHandShakeWaitC2", "kHandShakeDone"}
    <3>1. state_'[e] = state_[e] /\ Len(sent'[e]) = 2 /\ pending'[e] = <<>>
      BY <1>1, <1>4, <2>1, <2>2, <2>6 DEF ServerInv
    <3> QED BY <1>1, <1>2, <1>3, <1>6, <2>3, <2>4, <2>6, <3>1 DEF ServerInv, ServerStates
  <2> QED BY <1>5, <1>8, <2>5, <2>6
<1> QED BY <1>7, <1>8

LEMMA ServerStep ==
  ASSUME RtmpIInv, "server" \in Ours, UNCHANGED setup, Step("server"), OutKept("server")
  PROVE  ServerInv' /\ PacketsOf("server")' /\ WriteOf("server")'
<1> DEFINE e == "server"
<1>1. /\ RtmpTypeOK /\ PacketsInv /\ WriteInv /\ ServerInv /\ e \in Endpoint
      /\ "client" \in Endpoint \ {e} /\ Peer(e) = "client"
  BY DEF RtmpIInv, Endpoint, Peer
<1>2. /\ state_ \in [Endpoint -> {"kHandShakeInit", "kHandShakeDone"}
                                   \cup ClientStates \cup ServerStates]
      /\ calls \in [Endpoint -> Seq(Call)] /\ pending \in [Endpoint -> Seq(Piece)]
      /\ e \in Endpoint /\ sent'["client"] = sent["client"]
  BY <1>1 DEF RtmpTypeOK, OutKept, Call
<1>3. calls[e] \in ServerCalls /\ calls[e] \in ClientCalls
  BY <1>1 DEF ServerInv, ClientCalls
<1>4. CASE Start(e)
  <2>1. /\ state_[e] = "kHandShakeInit" /\ state_'[e] = "kHandShakeWaitC0C1"
        /\ UNCHANGED <<sent, pending, calls, C2S2_, retrieved>>
    BY <1>2, <1>4 DEF Start, ToState
  <2>2. PacketsOf(e)' /\ WriteOf(e)'
    BY <1>1, <1>3, <2>1, QuietEnd
  <2>3. ServerInv'
    BY <1>1, <2>1 DEF ServerInv, ServerStates
  <2> QED BY <2>2, <2>3
<1>5. CASE Handshake(e)
  BY <1>5, ServerHandshakeStep
<1>6. CASE WriteComplete(e)
  BY <1>6, ServerWriteStep
<1>7. ~PostS0S1(e)
  BY <1>3, CallsLeft DEF PostS0S1, Calling
<1>8. CASE Return(e)
  <2>1. /\ UNCHANGED <<state_, sent, pending, C2S2_, retrieved>>
        /\ calls[e] # <<>> /\ calls'[e] = Rest(e)
    BY <1>2, <1>8 DEF Return, Calling, ThenCall
  <2>2. PacketsOf(e)' /\ WriteOf(e)'
    BY <1>1, <1>3, <2>1, QuietEnd DEF Rest
  <2>3. calls'[e] \in ServerCalls
    BY <1>3, <2>1, CallsLeft, CallsAfter DEF Rest
  <2>4. state_[e] \notin {"kHandShakeInit", "kHandShakeWaitC0C1"}
    <3>1. calls[e] \notin {<<>>, <<"handshake">>}
      BY <1>8 DEF Return, Calling
    <3> QED BY <1>1, <3>1 DEF ServerInv
  <2>5. ServerInv'
    BY <1>1, <2>1, <2>3, <2>4 DEF ServerInv, Checked
  <2> QED BY <2>2, <2>5
<1>9. CASE OnRead(e)
  <2>1. /\ UNCHANGED <<state_, sent, pending, C2S2_, retrieved>>
        /\ calls'[e] = <<"handshake">>
    BY <1>2, <1>9 DEF OnRead, ThenCall
  <2>2. PacketsOf(e)' /\ WriteOf(e)'
    BY <1>1, <1>3, <2>1, QuietEnd
  <2>3. ServerInv'
    BY <1>1, <2>1 DEF ServerInv, Checked, ServerCalls
  <2> QED BY <2>2, <2>3
<1>10. CASE OnWrite(e)
  <2>1. /\ UNCHANGED <<state_, sent, C2S2_, retrieved>> /\ pending[e] # <<>>
        /\ calls'[e] = <<"writeComplete">> /\ pending'[e] = <<>>
    BY <1>2, <1>10 DEF OnWrite, ThenCall
  <2>2. PacketsOf(e)' /\ WriteOf(e)'
    BY <1>1, <2>1 DEF PacketsInv, PacketsOf, WriteOf
  <2>3. ServerInv'
    <3>1. state_[e] \notin {"kHandShakeInit", "kHandShakeWaitC0C1"}
      BY <1>1, <2>1 DEF ServerInv
    <3>2. \A i \in 1 .. Len(pending'[e]) : FALSE
      BY <2>1
    <3>3. calls'[e] \in ServerCalls
      BY <2>1 DEF ServerCalls
    <3> QED BY <1>1, <2>1, <3>1, <3>2, <3>3 DEF ServerInv, Checked
  <2> QED BY <2>2, <2>3
<1>11. ~OtherReads(e) /\ ~OtherSends(e)
  BY DEF OtherReads, OtherSends
<1> QED BY <1>4, <1>5, <1>6, <1>7, <1>8, <1>9, <1>10, <1>11 DEF Step

-----------------------------------------------------------------------------
(***************************************************************************)
(* The steps of the client.                                                *)
(***************************************************************************)
\* What the client knows of the server's first packet when it has taken it.
Answered ==
  /\ Checked("client") /\ Len(retrieved["client"]) >= kPacketSize + 1
  /\ SubSeq(retrieved["client"], 1, kPacketSize + 1) = Pieces(sent["server"][1])

LEMMA AnsweredStays ==
  ASSUME RtmpTypeOK, Answered, sent'["server"] = sent["server"],
         \/ retrieved'["client"] = retrieved["client"]
         \/ \E x \in Seq(Piece) : retrieved'["client"] = retrieved["client"] \o x
  PROVE  Answered'
<1> DEFINE r == retrieved["client"]
           n == kPacketSize + 1
<1>1. Peer("client") = "server" /\ r \in Seq(Piece) /\ Len(r) \in Nat /\ n \in Nat \ {0}
  <2>1. r \in Seq(Piece)
    BY DEF RtmpTypeOK, Endpoint
  <2> QED BY <2>1, LenProperties, HandshakeAssumption DEF Peer
<1>2. Checked("client")'
  BY <1>1 DEF Answered, Checked
<1>3. CASE retrieved'["client"] = r
  BY <1>2, <1>3 DEF Answered
<1>4. ASSUME NEW x \in Seq(Piece), retrieved'["client"] = r \o x
      PROVE  Answered'
  <2>1. Len(r) >= n /\ SubSeq(r, 1, n) = Pieces(sent["server"][1])
    BY DEF Answered
  <2>2. Len(r \o x) = Len(r) + Len(x) /\ Len(x) \in Nat
    BY <1>1, ConcatProperties, LenProperties
  <2>3. SubSeq(r \o x, 1, n) = SubSeq(r, 1, n)
    <3>1. 1 \in 1 .. Len(r) /\ n \in 1 .. Len(r)
      BY <1>1, <2>1
    <3> HIDE DEF r, n
    <3> QED BY <1>1, <3>1, SubSeqOfConcat1
  <2>4. Len(r \o x) >= n
    BY <1>1, <2>1, <2>2
  <2> QED BY <1>2, <1>4, <2>1, <2>3, <2>4 DEF Answered
<1> QED BY <1>3, <1>4

LEMMA ClientHandshakeStep ==
  ASSUME RtmpIInv, "client" \in Ours, UNCHANGED setup, Handshake("client"), OutKept("client")
  PROVE  ClientInv' /\ PacketsOf("client")' /\ WriteOf("client")'
<1> DEFINE e == "client"
<1>1. /\ RtmpTypeOK /\ PacketsInv /\ StreamInv /\ WriteInv /\ ClientInv /\ e \in Endpoint
      /\ Peer(e) = "server" /\ "server" \in Endpoint \ {e}
  BY DEF RtmpIInv, Endpoint, Peer
<1>2. /\ state_ \in [Endpoint -> {"kHandShakeInit", "kHandShakeDone"}
                                   \cup ClientStates \cup ServerStates]
      /\ calls \in [Endpoint -> Seq(Call)] /\ e \in Endpoint
      /\ sent'["server"] = sent["server"]
  BY <1>1 DEF RtmpTypeOK, OutKept, Call
<1>3. calls[e] \in ClientCalls /\ calls[e] = <<"handshake">> /\ Tail(calls[e]) = <<>>
  <2>1. calls[e] \in ClientCalls /\ calls[e] # <<>>
    BY <1>1 DEF ClientInv, Handshake, Calling
  <2>2. calls[e] = <<"handshake">>
    BY <2>1, CallsLeft DEF Handshake, Calling
  <2> QED BY <2>1, <2>2
<1>4. ~HandshakeC0C1(e)
  BY <1>1 DEF HandshakeC0C1, ClientInv, ClientStates
<1>5. ASSUME HandshakeS0S1(e)
      PROVE  ClientInv' /\ PacketsOf(e)' /\ WriteOf(e)'
  <2>1. state_[e] = "kHandShakeWaitS0S1" /\ Len(sent[e]) = 1 /\ retrieved[e] = <<>>
    BY <1>1, <1>5 DEF HandshakeS0S1, ClientInv
  <2>2. PICK next \in {<<"return2">>, <<"postS0S1", "return0">>} :
          SendPacket(e, C2S2_'[e], next)
    BY <1>5 DEF HandshakeS0S1
  <2>3. state_'[e] \in {"kHandShakeDoing", "kHandShakePostC2"}
    BY <1>2, <1>5 DEF HandshakeS0S1, ToState
  <2>4. C2S2_'[e] \in Packet /\ C2S2_'[e].type = "C2S2"
    <3>1. \E s \in ClientStates \cup ServerStates : ToState(e, s)
      BY <1>5 DEF HandshakeS0S1, ClientStates
    <3> QED BY <1>1, <1>5, <3>1, TakeC1S1Kept DEF HandshakeS0S1
  <2>5. /\ PacketsOf(e)' /\ WriteOf(e)' /\ Len(sent'[e]) = Len(sent[e]) + 1
        /\ calls'[e] \in {next, <<"writeComplete">> \o next}
    <3>1. sent[e] # <<>>
      BY <1>1, <2>1, SentOne
    <3>2. next \in Later
      BY DEF Later
    <3> DEFINE p == C2S2_'[e]
    <3>3. p \in Packet /\ p.type = "C2S2" /\ SendPacket(e, p, next)
      BY <2>2, <2>4
    <3> HIDE DEF p
    <3>4. /\ sent[e] = <<>> => p.type = "C1S1"
          /\ Len(sent[e]) = 1 => p.type = "C2S2"
      BY <3>1, <3>3
    <3> QED BY <1>1, <2>4, <3>2, <3>3, <3>4, SendStep
  <2>6. Len(sent'[e]) >= 2
    BY <2>1, <2>5
  <2>7. calls'[e] \in ClientCalls
    BY <2>5, CallsAfter DEF Later
  <2>8. Answered'
    <3>1. /\ Checked(e) /\ retrieved'[e] = Pieces(sent["server"][1])
          /\ Len(retrieved'[e]) = kPacketSize + 1
          /\ SubSeq(retrieved'[e], 1, kPacketSize + 1) = Pieces(sent["server"][1])
      BY <1>1, <1>5, <2>1, TakesFirst DEF HandshakeS0S1
    <3> QED BY <1>1, <1>2, <3>1, HandshakeAssumption DEF Answered, Checked
  <2> QED BY <2>3, <2>5, <2>6, <2>7, <2>8 DEF ClientInv, Answered, ClientStates
<1>6. ASSUME HandshakeC2(e)
      PROVE  ClientInv' /\ PacketsOf(e)' /\ WriteOf(e)'
  <2>1. /\ state_[e] = "kHandShakeWaitC2" /\ state_'[e] = "kHandShakeDone"
        /\ UNCHANGED <<sent, pending, C2S2_>>
    BY <1>2, <1>6 DEF HandshakeC2, ToState
  <2>2. calls'[e] = Tail(calls[e]) /\ calls'[e] = <<>>
    BY <1>2, <1>3, <1>6 DEF HandshakeC2, ThenCall, Rest
  <2>3. Len(sent[e]) >= 2 /\ pending[e] = <<>> /\ Answered
    BY <1>1, <2>1 DEF ClientInv, Answered
  <2>4. \E x \in Seq(Piece) : retrieved'[e] = retrieved[e] \o x
    <3>1. kPacketSize \in 0 .. Len(buffer[e]) /\ buffer[e] \in Seq(Piece)
      BY <1>1, <1>6, HandshakeAssumption, LenProperties DEF HandshakeC2, Has, RtmpTypeOK
    <3>2. SubSeq(buffer[e], 1, kPacketSize) \in Seq(Piece)
      BY <3>1, CutInTwo
    <3>3. retrieved'[e] = retrieved[e] \o SubSeq(buffer[e], 1, kPacketSize)
      BY <1>1, <1>6, HandshakeAssumption, TakeFacts DEF HandshakeC2
    <3> QED BY <3>2, <3>3
  <2>5. Answered'
    BY <1>1, <1>2, <2>3, <2>4, AnsweredStays
  <2>6. PacketsOf(e)' /\ WriteOf(e)'
    BY <1>1, <1>3, <2>1, <2>2, QuietEnd
  <2>7. calls'[e] \in ClientCalls
    BY <2>2 DEF ClientCalls, ServerCalls
  <2> QED BY <2>1, <2>3, <2>5, <2>6, <2>7 DEF ClientInv, Answered, ClientStates
<1>7. ASSUME HandshakeNothing(e)
      PROVE  ClientInv' /\ PacketsOf(e)' /\ WriteOf(e)'
  <2>1. UNCHANGED <<state_, sent, pending, C2S2_, retrieved>>
    BY <1>7 DEF HandshakeNothing
  <2>2. calls'[e] = Tail(calls[e]) /\ calls'[e] = <<>>
    BY <1>2, <1>3, <1>7 DEF HandshakeNothing, ThenCall, Rest
  <2>3. PacketsOf(e)' /\ WriteOf(e)'
    BY <1>1, <1>3, <2>1, <2>2, QuietEnd
  <2>4. ClientInv'
    BY <1>1, <2>1, <2>2 DEF ClientInv, Checked, ClientCalls, ServerCalls
  <2> QED BY <2>3, <2>4
<1> QED BY <1>4, <1>5, <1>6, <1>7 DEF Handshake

\* A client that has taken the server's first packet only has to see to its own part.
LEMMA ClientGoesOn ==
  ASSUME RtmpTypeOK, ClientInv, "client" \in Ours, UNCHANGED setup,
         state_["client"] \notin {"kHandShakeInit", "kHandShakeWaitS0S1"},
         state_'["client"] \in {"kHandShakeDone", "kHandShakePostS0S1", "kHandShakePostS2",
                                "kHandShakeWaitC2", "kHandShakePostC2", "kHandShakeDoing"},
         calls'["client"] \in ClientCalls, Len(sent'["client"]) >= Len(sent["client"]),
         sent'["server"] = sent["server"], retrieved'["client"] = retrieved["client"],
         state_'["client"] \in {"kHandShakeWaitC2", "kHandShakeDone"} =>
           pending'["client"] = <<>>
  PROVE  ClientInv'
<1>1. Len(sent["client"]) >= 2 /\ Answered
  BY DEF ClientInv, Answered
<1>2. Answered'
  BY <1>1, AnsweredStays
<1>3. Len(sent'["client"]) >= 2
  <2>1. "client" \in Endpoint
    BY DEF Endpoint
  <2>2. Len(sent["client"]) \in Nat
    BY <2>1, SentOne
  <2>3. Len(sent'["client"]) >= Len(sent["client"])
    OBVIOUS
  <2> QED BY <1>1, <2>2, <2>3
<1> QED BY <1>2, <1>3 DEF ClientInv, Answered, ClientStates

LEMMA ClientWriteStep ==
  ASSUME RtmpIInv, "client" \in Ours, UNCHANGED setup, WriteComplete("client"),
         OutKept("client")
  PROVE  ClientInv' /\ PacketsOf("client")' /\ WriteOf("client")'
<1> DEFINE e == "client"
<1>1. /\ RtmpTypeOK /\ PacketsInv /\ WriteInv /\ ClientInv /\ e \in Endpoint
      /\ "server" \in Endpoint \ {e}
  BY DEF RtmpIInv, Endpoint
<1>2. /\ state_ \in [Endpoint -> {"kHandShakeInit", "kHandShakeDone"}
                                   \cup ClientStates \cup ServerStates]
      /\ calls \in [Endpoint -> Seq(Call)] /\ e \in Endpoint /\ C2S2_[e] \in Packet
      /\ sent'["server"] = sent["server"]
  BY <1>1 DEF RtmpTypeOK, OutKept, Call
<1>3. /\ calls[e] \in ClientCalls /\ calls[e] # <<>> /\ Head(calls[e]) = "writeComplete"
      /\ UNCHANGED <<C2S2_, retrieved>>
  BY <1>1 DEF ClientInv, WriteComplete, Calling
<1>4. /\ pending[e] = <<>>
      /\ Rest(e) \in Later
      /\ Rest(e) \in ClientCalls
  BY <1>1, <1>3, CallsLeft, CallsAfter DEF WriteInv, WriteOf, Rest
<1>5. CASE state_[e] = "kHandShakePostS0S1"
  <2> DEFINE p == C2S2_[e]
             next == Rest(e)
  <2>1. state_'[e] = "kHandShakePostS2" /\ SendPacket(e, p, next) /\ Len(sent[e]) >= 2
    BY <1>1, <1>2, <1>5 DEF WriteComplete, ToState, ClientInv
  <2>2. p \in Packet /\ p.type = "C2S2" /\ C2S2_'[e].type = "C2S2" /\ sent[e] # <<>>
    BY <1>1, <1>2, <1>3, <2>1 DEF PacketsInv, PacketsOf
  <2>3. next \in Later
    BY <1>4
  <2> HIDE DEF p, next
  <2>4. /\ PacketsOf(e)' /\ WriteOf(e)' /\ Len(sent'[e]) = Len(sent[e]) + 1
        /\ Len(sent[e]) \in Nat /\ calls'[e] \in {next, <<"writeComplete">> \o next}
    <3>1. /\ sent[e] = <<>> => p.type = "C1S1"
          /\ Len(sent[e]) = 1 => p.type = "C2S2"
      BY <2>2
    <3> QED BY <1>1, <2>1, <2>2, <2>3, <3>1, SendStep
  <2>5. calls'[e] \in ClientCalls
    BY <2>3, <2>4, CallsAfter
  <2>6. Len(sent'[e]) >= Len(sent[e])
    BY <2>4
  <2>7. ClientInv'
    BY <1>1, <1>2, <1>3, <1>5, <2>1, <2>5, <2>6, ClientGoesOn
  <2> QED BY <2>4, <2>7
<1>6. CASE state_[e] # "kHandShakePostS0S1"
  <2>1. /\ UNCHANGED <<sent, pending>> /\ calls'[e] = Rest(e)
        /\ state_'[e] = AfterWrite(state_[e])
    BY <1>2, <1>6 DEF WriteComplete, ToState, ThenCall
  <2>2. PacketsOf(e)' /\ WriteOf(e)'
    BY <1>1, <1>3, <2>1, QuietEnd DEF Rest
  <2>3. CASE state_[e] \in {"kHandShakeInit", "kHandShakeWaitS0S1"}
    <3>1. state_'[e] = state_[e]
      BY <2>1, <2>3 DEF AfterWrite
    <3>2. calls'[e] = <<>>
      <4>1. calls[e] \in {<<>>, <<"handshake">>, <<"writeComplete">>}
        BY <1>1, <2>3 DEF ClientInv
      <4>2. calls[e] = <<"writeComplete">>
        BY <1>3, <4>1
      <4> QED BY <2>1, <4>2 DEF Rest
    <3> QED BY <1>1, <1>3, <1>4, <2>1, <2>2, <2>3, <3>1, <3>2 DEF ClientInv, ClientStates
  <2>4. CASE state_[e] \notin {"kHandShakeInit", "kHandShakeWaitS0S1"}
    <3>1. state_'[e] \in {"kHandShakeDone", "kHandShakePostS0S1", "kHandShakePostS2",
                          "kHandShakeWaitC2", "kHandShakePostC2", "kHandShakeDoing"}
      BY <1>1, <2>1, <2>4 DEF ClientInv, ClientStates, AfterWrite
    <3>2. pending'[e] = <<>> /\ calls'[e] \in ClientCalls
      BY <1>4, <2>1
    <3>3. Len(sent'[e]) >= Len(sent[e])
      BY <1>1, <2>1, SentOne
    <3>4. ClientInv'
      BY <1>1, <1>2, <1>3, <2>4, <3>1, <3>2, <3>3, ClientGoesOn
    <3> QED BY <2>2, <3>4
  <2> QED BY <2>3, <2>4
<1> QED BY <1>5, <1>6

LEMMA ClientStep ==
  ASSUME RtmpIInv, "client" \in Ours, UNCHANGED setup, Step("client"), OutKept("client")
  PROVE  ClientInv' /\ PacketsOf("client")' /\ WriteOf("client")'
<1> DEFINE e == "client"
           early == {"kHandShakeInit", "kHandShakeWaitS0S1"}
<1>1. /\ RtmpTypeOK /\ PacketsInv /\ WriteInv /\ ClientInv /\ e \in Endpoint
      /\ "server" \in Endpoint \ {e}
  BY DEF RtmpIInv, Endpoint
<1>2. /\ state_ \in [Endpoint -> {"kHandShakeInit", "kHandShakeDone"}
                                   \cup ClientStates \cup ServerStates]
      /\ calls \in [Endpoint -> Seq(Call)] /\ pending \in [Endpoint -> Seq(Piece)]
      /\ e \in Endpoint /\ sent'["server"] = sent["server"] /\ calls[e] \in ClientCalls
  BY <1>1 DEF RtmpTypeOK, OutKept, Call, ClientInv
<1>3. /\ state_[e] \in {"kHandShakeInit", "kHandShakeDone", "kHandShakePostS0S1",
                        "kHandShakePostS2", "kHandShakeWaitC2"} \cup ClientStates
      /\ state_[e] \notin early =>
           state_[e] \in {"kHandShakeDone", "kHandShakePostS0S1", "kHandShakePostS2",
                          "kHandShakeWaitC2", "kHandShakePostC2", "kHandShakeDoing"}
      /\ state_[e] \in early => calls[e] \in {<<>>, <<"handshake">>, <<"writeComplete">>}
  BY <1>1 DEF ClientInv, ClientStates
<1>4. CASE Start(e)
  <2> DEFINE p == OwnC1S1(e)
  <2>1. /\ state_[e] = "kHandShakeInit" /\ state_'[e] = "kHandShakeWaitS0S1"
        /\ SendPacket(e, p, <<>>) /\ UNCHANGED <<C2S2_, retrieved>>
    BY <1>2, <1>4 DEF Start, ToState
  <2>2. sent[e] = <<>> /\ retrieved[e] = <<>>
    BY <1>1, <2>1 DEF ClientInv
  <2>3. p \in Packet /\ p.type = "C1S1" /\ C2S2_'[e].type = "C2S2"
    BY <1>1, <2>1, PacketFacts DEF PacketsInv, PacketsOf
  <2> HIDE DEF p
  <2>4. /\ PacketsOf(e)' /\ WriteOf(e)' /\ Len(sent'[e]) = Len(sent[e]) + 1
        /\ calls'[e] \in {<<>>, <<"writeComplete">> \o <<>>}
    <3>1. sent[e] = <<>> /\ Len(sent[e]) # 1
      BY <2>2
    <3> DEFINE next == <<>>
    <3>2. next \in Later /\ SendPacket(e, p, next)
      BY <2>1 DEF Later
    <3> HIDE DEF next
    <3>3. /\ PacketsOf(e)' /\ WriteOf(e)' /\ Len(sent'[e]) = Len(sent[e]) + 1
          /\ calls'[e] \in {next, <<"writeComplete">> \o next}
      BY <1>1, <2>3, <3>1, <3>2, SendStep
    <3> QED BY <3>3 DEF next
  <2>5. calls'[e] \in {<<>>, <<"writeComplete">>} /\ Len(sent'[e]) = 1
    BY <2>2, <2>4, WriteThenCall
  <2>6. calls'[e] \in ClientCalls
    BY <2>5 DEF ClientCalls, ServerCalls
  <2>7. ClientInv'
    BY <1>1, <2>1, <2>2, <2>5, <2>6 DEF ClientInv, ClientStates
  <2> QED BY <2>4, <2>7
<1>5. CASE Handshake(e)
  BY <1>5, ClientHandshakeStep
<1>6. CASE WriteComplete(e)
  BY <1>6, ClientWriteStep
<1>7. CASE PostS0S1(e)
  <2> DEFINE p == OwnC1S1(e)
             next == Rest(e)
  <2>1. /\ state_'[e] = "kHandShakePostS0S1" /\ SendPacket(e, p, next)
        /\ calls[e] # <<>> /\ Head(calls[e]) = "postS0S1" /\ UNCHANGED <<C2S2_, retrieved>>
    BY <1>2, <1>7 DEF PostS0S1, ToState, Calling
  <2>2. state_[e] \notin early
    BY <1>3, <2>1
  <2>3. Len(sent[e]) >= 2
    BY <1>1, <2>2 DEF ClientInv
  <2>4. p \in Packet /\ C2S2_'[e].type = "C2S2" /\ sent[e] # <<>>
    BY <1>1, <2>1, <2>3, PacketFacts DEF PacketsInv, PacketsOf
  <2>5. next \in Later
    BY <1>2, <2>1, CallsLeft DEF Rest
  <2> HIDE DEF p, next
  <2>6. /\ PacketsOf(e)' /\ WriteOf(e)' /\ Len(sent'[e]) = Len(sent[e]) + 1
        /\ Len(sent[e]) \in Nat /\ calls'[e] \in {next, <<"writeComplete">> \o next}
    <3>1. Len(sent[e]) # 1
      <4> DEFINE n == Len(sent[e])
      <4>1. n \in Nat /\ n >= 2
        BY <1>1, <2>3, SentOne
      <4> HIDE DEF n
      <4>2. n # 1
        BY <4>1
      <4> QED BY <4>2 DEF n
    <3> QED BY <1>1, <2>1, <2>4, <2>5, <3>1, SendStep
  <2>7. calls'[e] \in ClientCalls
    BY <2>5, <2>6, CallsAfter
  <2>8. Len(sent'[e]) >= Len(sent[e])
    BY <2>6
  <2>9. ClientInv'
    BY <1>1, <1>2, <2>1, <2>2, <2>7, <2>8, ClientGoesOn
  <2> QED BY <2>6, <2>9
<1>8. CASE Return(e)
  <2>1. /\ UNCHANGED <<state_, sent, pending, C2S2_, retrieved>>
        /\ calls[e] # <<>> /\ calls'[e] = Tail(calls[e])
        /\ Head(calls[e]) \in {"return0", "return2"}
    BY <1>2, <1>8 DEF Return, Calling, ThenCall, Rest
  <2>2. PacketsOf(e)' /\ WriteOf(e)'
    BY <1>1, <1>2, <2>1, QuietEnd
  <2>3. calls'[e] \in ClientCalls
    BY <1>2, <2>1, CallsLeft, CallsAfter
  <2>4. state_[e] \notin early
    BY <1>3, <2>1
  <2>5. Len(sent'[e]) >= Len(sent[e])
    BY <1>1, <2>1, SentOne
  <2>6. ClientInv'
    <3>1. state_[e] \in {"kHandShakeWaitC2", "kHandShakeDone"} => pending[e] = <<>>
      BY <1>1 DEF ClientInv
    <3> QED BY <1>1, <1>2, <1>3, <2>1, <2>3, <2>4, <2>5, <3>1, ClientGoesOn
  <2> QED BY <2>2, <2>6
<1>9. CASE OnRead(e)
  <2>1. /\ UNCHANGED <<state_, sent, pending, C2S2_, retrieved>>
        /\ calls'[e] = <<"handshake">>
    BY <1>2, <1>9 DEF OnRead, ThenCall
  <2>2. PacketsOf(e)' /\ WriteOf(e)'
    BY <1>1, <1>2, <2>1, QuietEnd
  <2>3. calls'[e] \in ClientCalls
    BY <2>1 DEF ClientCalls, ServerCalls
  <2>4. ClientInv'
    BY <1>1, <2>1, <2>3 DEF ClientInv, Checked
  <2> QED BY <2>2, <2>4
<1>10. CASE OnWrite(e)
  <2>1. /\ UNCHANGED <<state_, sent, C2S2_, retrieved>>
        /\ calls'[e] = <<"writeComplete">> /\ pending'[e] = <<>>
    BY <1>2, <1>10 DEF OnWrite, ThenCall
  <2>2. PacketsOf(e)' /\ WriteOf(e)'
    BY <1>1, <2>1 DEF PacketsInv, PacketsOf, WriteOf
  <2>3. calls'[e] \in ClientCalls
    BY <2>1 DEF ClientCalls, ServerCalls
  <2>4. ClientInv'
    BY <1>1, <2>1, <2>3 DEF ClientInv, Checked
  <2> QED BY <2>2, <2>4
<1>11. ~OtherReads(e) /\ ~OtherSends(e)
  BY DEF OtherReads, OtherSends
<1> QED BY <1>4, <1>5, <1>6, <1>7, <1>8, <1>9, <1>10, <1>11 DEF Step

-----------------------------------------------------------------------------
(***************************************************************************)
(* The steps of one end, at the other end and of another implementation.   *)
(***************************************************************************)
LEMMA ServerUndisturbed ==
  ASSUME RtmpTypeOK, ServerInv, UNCHANGED setup, OwnKept("client"), InKept("client"),
         OutKept("client")
  PROVE  ServerInv'
<1> SUFFICES ASSUME "server" \in Ours
             PROVE  ServerInv'
  BY DEF ServerInv, Ours
<1>1. "client" \in Endpoint /\ "server" \in Endpoint \ {"client"} /\ Peer("server") = "client"
  BY DEF Endpoint, Peer
<1>2. /\ state_'["server"] = state_["server"] /\ calls'["server"] = calls["server"]
      /\ sent'["server"] = sent["server"] /\ pending'["server"] = pending["server"]
      /\ retrieved'["server"] = retrieved["server"]
  BY <1>1 DEF OwnKept, InKept, OutKept
<1> DEFINE s == sent["client"]
           t == sent'["client"]
<1>3. /\ Len(s) \in Nat /\ Len(t) >= Len(s)
      /\ s # <<>> => t # <<>> /\ t[1] = s[1]
      /\ Len(s) >= 2 => t[2] = s[2]
  BY <1>1, SentStays
<1>4. Len(t) \in Nat
  BY <1>1, LenProperties DEF OutKept
<1>5. /\ Checked("server") <=> s # <<>> /\ s[1].holds \in {"simple", "first", "second"}
      /\ Checked("server")' <=> t # <<>> /\ t[1].holds \in {"simple", "first", "second"}
  BY <1>1 DEF Checked
<1>6. state_["server"] \in {"kHandShakePostS0S1", "kHandShakePostS2", "kHandShakeWaitC2"} =>
        Checked("server")' /\ retrieved'["server"] = Pieces(t[1])
  BY <1>2, <1>3, <1>5 DEF ServerInv
<1>7. state_["server"] = "kHandShakeDone" =>
        /\ Checked("server")' /\ Len(t) >= 2
        /\ retrieved'["server"] = Pieces(t[1]) \o Pieces(t[2])
  <2> SUFFICES ASSUME state_["server"] = "kHandShakeDone"
               PROVE  /\ Checked("server")' /\ Len(t) >= 2
                      /\ retrieved'["server"] = Pieces(t[1]) \o Pieces(t[2])
    OBVIOUS
  <2>1. Checked("server") /\ Len(s) >= 2 /\ retrieved["server"] = Pieces(s[1]) \o Pieces(s[2])
    BY DEF ServerInv
  <2> HIDE DEF s, t
  <2>2. Len(t) >= 2
    BY <1>3, <1>4, <2>1
  <2> QED BY <1>2, <1>3, <1>5, <2>1, <2>2
<1> QED BY <1>2, <1>6, <1>7 DEF ServerInv

LEMMA ClientUndisturbed ==
  ASSUME RtmpTypeOK, ClientInv, UNCHANGED setup, OwnKept("server"), InKept("server"),
         OutKept("server")
  PROVE  ClientInv'
<1> SUFFICES ASSUME "client" \in Ours
             PROVE  ClientInv'
  BY DEF ClientInv, Ours
<1>1. "server" \in Endpoint /\ "client" \in Endpoint \ {"server"} /\ Peer("client") = "server"
  BY DEF Endpoint, Peer
<1>2. /\ state_'["client"] = state_["client"] /\ calls'["client"] = calls["client"]
      /\ sent'["client"] = sent["client"] /\ pending'["client"] = pending["client"]
      /\ retrieved'["client"] = retrieved["client"]
  BY <1>1 DEF OwnKept, InKept, OutKept
<1> DEFINE s == sent["server"]
           t == sent'["server"]
<1>3. s # <<>> => t # <<>> /\ t[1] = s[1]
  BY <1>1, SentStays
<1>4. /\ Checked("client") <=> s # <<>> /\ s[1].holds \in {"simple", "first", "second"}
      /\ Checked("client")' <=> t # <<>> /\ t[1].holds \in {"simple", "first", "second"}
  BY <1>1 DEF Checked
<1>5. Checked("client") => Checked("client")' /\ t[1] = s[1]
  BY <1>3, <1>4
<1> QED BY <1>2, <1>5 DEF ClientInv

\* The other implementation's own part.
LEMMA OtherStep ==
  ASSUME RtmpIInv, NEW e \in Endpoint \ Ours, UNCHANGED setup, Step(e)
  PROVE  /\ calls'[e] = <<>> /\ pending'[e] = <<>>
         /\ PacketsOf(e)' /\ WriteOf(e)'
<1>1. RtmpTypeOK /\ PacketsInv /\ calls[e] = <<>> /\ pending[e] = <<>>
  BY DEF RtmpIInv, OthersInv
<1>2. OtherReads(e) \/ OtherSends(e)
  BY <1>1 DEF Step, Start, OnRead, OnWrite, AtLoop, Handshake, PostS0S1, Return, WriteComplete,
             Calling
<1>3. UNCHANGED <<calls, pending, C2S2_>>
  BY <1>2 DEF OtherReads, OtherSends
<1>4. calls'[e] = <<>> /\ pending'[e] = <<>> /\ WriteOf(e)'
  BY <1>1, <1>3 DEF WriteOf
<1>5. CASE OtherReads(e)
  BY <1>1, <1>4, <1>5 DEF OtherReads, PacketsInv, PacketsOf
<1>6. CASE OtherSends(e)
  <2> DEFINE s == sent[e]
             n == Len(s)
             t == sent'[e]
  <2>1. PICK p \in OtherPacket(e) : sent' = [sent EXCEPT ![e] = Append(@, p)]
    BY <1>6 DEF OtherSends
  <2>2. p \in Packet /\ (s = <<>> => p.type = "C1S1") /\ (n = 1 => p.type = "C2S2")
    BY <1>1, OtherPackets
  <2>3. /\ s \in Seq(Packet) /\ n \in Nat /\ (n >= 1 <=> s # <<>>) /\ t = Append(s, p)
    BY <1>1, <2>1, SentOne DEF RtmpTypeOK
  <2>4. Len(t) = n + 1 /\ t[n + 1] = p /\ \A i \in 1 .. n : t[i] = s[i]
    BY <2>2, <2>3, AppendProperties
  <2>5. /\ s # <<>> => s[1].type = "C1S1"
        /\ n >= 2 => s[2].type = "C2S2"
        /\ C2S2_'[e].type = "C2S2"
    BY <1>1, <1>3 DEF PacketsInv, PacketsOf
  <2> HIDE DEF s, n, t
  <2>6. t[1].type = "C1S1"
    <3>1. CASE n = 0
      <4>1. t[1] = p /\ s = <<>>
        BY <2>3, <2>4, <3>1
      <4> QED BY <2>2, <4>1
    <3>2. CASE n >= 1
      <4>1. t[1] = s[1] /\ s # <<>>
        BY <2>3, <2>4, <3>2
      <4> QED BY <2>5, <4>1
    <3> QED BY <2>3, <3>1, <3>2
  <2>7. Len(t) >= 2 => t[2].type = "C2S2"
    <3>1. CASE n = 0
      BY <2>4, <3>1
    <3>2. CASE n = 1
      <4>1. t[2] = p
        BY <2>4, <3>2
      <4> QED BY <2>2, <3>2, <4>1
    <3>3. CASE n >= 2
      <4>1. t[2] = s[2]
        BY <2>3, <2>4, <3>3
      <4> QED BY <2>5, <3>3, <4>1
    <3> QED BY <2>3, <3>1, <3>2, <3>3
  <2>8. PacketsOf(e)'
    BY <2>5, <2>6, <2>7 DEF PacketsOf, t
  <2> QED BY <1>4, <2>8
<1> QED BY <1>2, <1>5, <1>6

LEMMA RtmpNextIInv ==
  ASSUME RtmpIInv, [RtmpNext]_rtmpVars
  PROVE  RtmpIInv'
<1>1. /\ RtmpTypeOK /\ OthersInv /\ PacketsInv /\ StreamInv /\ WriteInv /\ ServerInv
      /\ ClientInv
  BY DEF RtmpIInv
<1>2. CASE UNCHANGED rtmpVars
  <2> USE <1>2 DEF rtmpVars
  <2>1. RtmpTypeOK'
    BY <1>1 DEF RtmpTypeOK
  <2>2. OthersInv' /\ PacketsInv' /\ StreamInv' /\ WriteInv'
    BY <1>1 DEF OthersInv, PacketsInv, PacketsOf, StreamInv, WriteInv, WriteOf, Ours
  <2>3. ServerInv' /\ ClientInv'
    BY <1>1 DEF ServerInv, ClientInv, Checked, Ours
  <2> QED BY <2>1, <2>2, <2>3 DEF RtmpIInv
<1>3. ASSUME UNCHANGED setup, NEW e \in Endpoint, Step(e)
      PROVE  RtmpIInv'
  <2>1. OwnKept(e) /\ InKept(e) /\ OutKept(e)
    BY <1>1, <1>3, StepKept
  <2>2. RtmpTypeOK'
    BY <1>1, <1>3, <2>1, TypeStep
  <2>3. StreamInv'
    BY <1>1, <2>1, <2>2, StreamStep
  <2>4. /\ PacketsOf(e)' /\ WriteOf(e)'
        /\ e = "server" => ServerInv'
        /\ e = "client" => ClientInv'
        /\ e \notin Ours => calls'[e] = <<>> /\ pending'[e] = <<>>
    <3>1. CASE e \notin Ours
      <4>1. e \in Endpoint \ Ours
        BY <3>1
      <4>2. Ours' = Ours
        BY <1>3 DEF Ours
      <4> QED BY <1>3, <3>1, <4>1, <4>2, OtherStep DEF ServerInv, ClientInv
    <3>2. CASE e \in Ours
      <4>1. CASE e = "server"
        BY <1>3, <2>1, <3>2, <4>1, ServerStep
      <4>2. CASE e = "client"
        BY <1>3, <2>1, <3>2, <4>2, ClientStep
      <4> QED BY <3>2, <4>1, <4>2 DEF Endpoint
    <3> QED BY <3>1, <3>2
  <2>5. \A f \in Endpoint \ {e} :
          /\ calls'[f] = calls[f] /\ pending'[f] = pending[f] /\ sent'[f] = sent[f]
          /\ C2S2_'[f] = C2S2_[f]
    BY <2>1 DEF OwnKept, OutKept
  <2>6. OthersInv'
    <3>1. Ours' = Ours
      BY <1>3 DEF Ours
    <3> QED BY <1>1, <2>4, <2>5, <3>1 DEF OthersInv
  <2>7. PacketsInv' /\ WriteInv'
    <3> SUFFICES ASSUME NEW f \in Endpoint \ {e}
                 PROVE  PacketsOf(f)' /\ WriteOf(f)'
      BY <2>4 DEF PacketsInv, WriteInv
    <3>1. PacketsOf(f) /\ WriteOf(f)
      BY <1>1 DEF PacketsInv, WriteInv
    <3>2. PacketsOf(f)'
      BY <2>5, <3>1 DEF PacketsOf
    <3>3. WriteOf(f)'
      BY <2>5, <3>1 DEF WriteOf
    <3> QED BY <3>2, <3>3
  <2>8. ServerInv' /\ ClientInv'
    <3>1. CASE e = "server"
      BY <1>1, <1>3, <2>1, <2>4, <3>1, ClientUndisturbed
    <3>2. CASE e = "client"
      BY <1>1, <1>3, <2>1, <2>4, <3>2, ServerUndisturbed
    <3> QED BY <3>1, <3>2 DEF Endpoint
  <2> QED BY <2>2, <2>3, <2>6, <2>7, <2>8 DEF RtmpIInv
<1> QED BY <1>2, <1>3 DEF RtmpNext

LEMMA RtmpInvariant == RtmpSpec => []RtmpIInv
<1>1. RtmpInit => RtmpIInv
  BY RtmpInitIInv
<1>2. RtmpIInv /\ [RtmpNext]_rtmpVars => RtmpIInv'
  BY RtmpNextIInv
<1> QED BY <1>1, <1>2, PTL DEF RtmpSpec

\* The types of the packets of an end, of which the first two are known.
LEMMA TypesFacts ==
  ASSUME RtmpTypeOK, PacketsInv, NEW e \in Endpoint
  PROVE  /\ Types(sent[e]) \in Seq({"C1S1", "C2S2", "App"})
         /\ Len(Types(sent[e])) = Len(sent[e])
         /\ Len(sent[e]) = 0 => Types(sent[e]) = <<>>
         /\ Len(sent[e]) = 1 => Types(sent[e]) = <<"C1S1">>
         /\ Len(sent[e]) = 2 => Types(sent[e]) = <<"C1S1", "C2S2">>
         /\ Len(sent[e]) >= 2 => SubSeq(Types(sent[e]), 1, 2) = <<"C1S1", "C2S2">>
<1> DEFINE s == sent[e]
           n == Len(s)
           t == Types(s)
           T == {"C1S1", "C2S2", "App"}
           one == <<"C1S1">>
           two == <<"C1S1", "C2S2">>
<1>1. s \in Seq(Packet) /\ n \in Nat /\ (n >= 1 <=> s # <<>>)
  BY SentOne DEF RtmpTypeOK
<1>2. \A p \in Packet : p.type \in T
  BY DEF Packet
<1>3. \A i \in 1 .. n : s[i] \in Packet
  BY <1>1, ElementOfSeq
<1>4. t \in Seq(T) /\ Len(t) = n /\ \A i \in 1 .. n : t[i] = s[i].type
  <2>1. t = [i \in 1 .. n |-> s[i].type]
    BY DEF Types
  <2> HIDE DEF s, n, T
  <2>2. t \in [1 .. n -> T]
    BY <1>2, <1>3, <2>1
  <2>3. t \in Seq(T)
    BY <1>1, <2>2, SeqDef
  <2>4. DOMAIN t = 1 .. n
    BY <2>1
  <2>5. Len(t) = n
    BY <1>1, <2>3, <2>4, LenProperties
  <2> QED BY <2>1, <2>3, <2>5
<1>5. /\ n >= 1 => s[1].type = "C1S1"
      /\ n >= 2 => s[2].type = "C2S2"
  BY <1>1 DEF PacketsInv, PacketsOf
<1>6. /\ one \in Seq(T) /\ Len(one) = 1 /\ one[1] = "C1S1"
      /\ two \in Seq(T) /\ Len(two) = 2 /\ two[1] = "C1S1" /\ two[2] = "C2S2"
  OBVIOUS
<1>7. <<>> \in Seq(T) /\ Len(<<>>) = 0
  BY EmptySeq
<1> HIDE DEF s, n, t, T, one, two
<1>8. n = 0 => t = <<>>
  BY <1>4, EmptySeq
<1>9. n = 1 => t = one
  <2> SUFFICES ASSUME n = 1 PROVE t = one
    OBVIOUS
  <2>1. \A i \in 1 .. Len(t) : t[i] = one[i]
    BY <1>4, <1>5, <1>6
  <2> QED BY <1>4, <1>6, <2>1, SeqEqual
<1>10. n = 2 => t = two
  <2> SUFFICES ASSUME n = 2 PROVE t = two
    OBVIOUS
  <2>1. \A i \in 1 .. Len(t) : t[i] = two[i]
    BY <1>4, <1>5, <1>6
  <2> QED BY <1>4, <1>6, <2>1, SeqEqual
<1>11. n >= 2 => SubSeq(t, 1, 2) = two
  <2> SUFFICES ASSUME n >= 2 PROVE SubSeq(t, 1, 2) = two
    OBVIOUS
  <2> DEFINE u == SubSeq(t, 1, 2)
  <2>1. u \in Seq(T) /\ Len(u) = 2 /\ \A i \in 1 .. 2 : u[i] = t[i]
    <3>1. \A i \in 1 .. 2 : t[i] \in T
      BY <1>1, <1>4, ElementOfSeq
    <3> QED BY <3>1, SubSeqProperties
  <2>2. t[1] = two[1] /\ t[2] = two[2]
    BY <1>1, <1>4, <1>5, <1>6
  <2> HIDE DEF u
  <2>3. \A i \in 1 .. Len(u) : u[i] = two[i]
    BY <2>1, <2>2
  <2>4. u = two
    BY <1>6, <2>1, <2>3, SeqEqual
  <2> QED BY <2>4 DEF u
<1> QED BY <1>4, <1>8, <1>9, <1>10, <1>11 DEF s, n, t, T, one, two

\* Type correctness of the handshake, with any implementation at the other end that
\* follows the protocol, and any size of the packets.
THEOREM HandshakeTypeCorrect == RtmpSpec => []RtmpTypeOK
BY RtmpInvariant, PTL DEF RtmpIInv

\* The server sends S0S1 and S2 once each, in that order, and S2 not before S0S1 has
\* been written, whichever of handshake and writeComplete run inside send.
THEOREM ServerSendsOnceInOrder == RtmpSpec => []ServerSendsInOrder
<1>1. RtmpIInv => ServerSendsInOrder
  <2> SUFFICES ASSUME RtmpIInv, "server" \in Ours
               PROVE  /\ Types(sent["server"]) \in {<<>>, <<"C1S1">>, <<"C1S1", "C2S2">>}
                      /\ Len(sent["server"]) = 2 =>
                           \A i \in 1 .. Len(pending["server"]) :
                             pending["server"][i][1].type = "C2S2"
    BY DEF ServerSendsInOrder
  <2>1. RtmpTypeOK /\ PacketsInv /\ ServerInv /\ "server" \in Endpoint
    BY DEF RtmpIInv, Endpoint
  <2>2. CASE state_["server"] \in {"kHandShakeInit", "kHandShakeWaitC0C1"}
    <3>1. sent["server"] = <<>> /\ pending["server"] = <<>>
      BY <2>1, <2>2 DEF ServerInv
    <3>2. Len(sent["server"]) = 0
      BY <3>1
    <3>3. Types(sent["server"]) = <<>>
      BY <2>1, <3>2, TypesFacts
    <3> QED BY <3>2, <3>3
  <2>3. CASE state_["server"] = "kHandShakePostS0S1"
    <3>1. Len(sent["server"]) = 1
      BY <2>1, <2>3 DEF ServerInv
    <3>2. Types(sent["server"]) = <<"C1S1">>
      BY <2>1, <3>1, TypesFacts
    <3> QED BY <3>1, <3>2
  <2>4. CASE state_["server"] \in {"kHandShakePostS2", "kHandShakeWaitC2", "kHandShakeDone"}
    <3>1. /\ Len(sent["server"]) = 2
          /\ \A i \in 1 .. Len(pending["server"]) : pending["server"][i][1].type = "C2S2"
      BY <2>1, <2>4 DEF ServerInv
    <3>2. Types(sent["server"]) = <<"C1S1", "C2S2">>
      BY <2>1, <3>1, TypesFacts
    <3> QED BY <3>1, <3>2
  <2>5. state_["server"] \in {"kHandShakeInit", "kHandShakeDone"} \cup ServerStates
    BY <2>1 DEF ServerInv
  <2> QED BY <2>2, <2>3, <2>4, <2>5 DEF ServerStates
<1> QED BY <1>1, RtmpInvariant, PTL

\* Done means, at either end, that the other's packets have come, byte for byte, and
\* checked, and that one's own are on the wire.
THEOREM DoneIsExchanged == RtmpSpec => []DoneMeansExchanged
<1>1. ASSUME RtmpIInv, "server" \in Ours, state_["server"] = "kHandShakeDone"
      PROVE  /\ retrieved["server"] = Pieces(sent["client"][1]) \o Pieces(sent["client"][2])
             /\ sent["client"][1].holds \in {"simple", "first", "second"}
             /\ Types(sent["server"]) = <<"C1S1", "C2S2">>
             /\ pending["server"] = <<>>
  <2>1. RtmpTypeOK /\ PacketsInv /\ ServerInv /\ "server" \in Endpoint /\ Peer("server") = "client"
    BY <1>1 DEF RtmpIInv, Endpoint, Peer
  <2>2. /\ Len(sent["server"]) = 2 /\ pending["server"] = <<>> /\ Checked("server")
        /\ retrieved["server"] = Pieces(sent["client"][1]) \o Pieces(sent["client"][2])
    BY <1>1, <2>1 DEF ServerInv
  <2>3. Types(sent["server"]) = <<"C1S1", "C2S2">>
    BY <2>1, <2>2, TypesFacts
  <2> QED BY <2>1, <2>2, <2>3 DEF Checked
<1>2. ASSUME RtmpIInv, "client" \in Ours, state_["client"] = "kHandShakeDone"
      PROVE  /\ SubSeq(retrieved["client"], 1, kPacketSize + 1) = Pieces(sent["server"][1])
             /\ sent["server"][1].holds \in {"simple", "first", "second"}
             /\ SubSeq(Types(sent["client"]), 1, 2) = <<"C1S1", "C2S2">>
             /\ pending["client"] = <<>>
  <2>1. RtmpTypeOK /\ PacketsInv /\ ClientInv /\ "client" \in Endpoint /\ Peer("client") = "server"
    BY <1>2 DEF RtmpIInv, Endpoint, Peer
  <2>2. /\ Len(sent["client"]) >= 2 /\ pending["client"] = <<>> /\ Checked("client")
        /\ SubSeq(retrieved["client"], 1, kPacketSize + 1) = Pieces(sent["server"][1])
    BY <1>2, <2>1 DEF ClientInv
  <2>3. SubSeq(Types(sent["client"]), 1, 2) = <<"C1S1", "C2S2">>
    BY <2>1, <2>2, TypesFacts
  <2> QED BY <2>1, <2>2, <2>3 DEF Checked
<1>3. RtmpIInv => DoneMeansExchanged
  BY <1>1, <1>2 DEF DoneMeansExchanged, ServerDoneMeansExchanged, ClientDoneMeansAnswered
<1> QED BY <1>3, RtmpInvariant, PTL

=============================================================================
