-------------------------- MODULE TcpClientProofs --------------------------
(***************************************************************************)
(* Theorems about TcpClient for any clients, descriptors and number of     *)
(* attempts.                                                               *)
(***************************************************************************)
EXTENDS TcpClient, WellFoundedInduction, SequenceTheorems, TLAPS

\* A client closes what it has opened only, and what epoll reports of a
\* descriptor is for the client that has it.
TableInv ==
  /\ \A c \in Client : fd_[c] # NoFd => open[fd_[c]] = c
  /\ \A f \in Fd : watched[f] # {"gone"} => open[f] # None /\ events_[f] = open[f]

\* A client that is not spoilt connects once: it has one descriptor at most, and
\* one entry in events_, which may stay behind when the descriptor is closed.
OnceInv ==
  \A c \in Client \ spoilt :
    /\ attempts[c] = 0 =>
         /\ ~told[c] /\ status_[c] # "connecting" /\ fd_[c] = NoFd
         /\ \A f \in Fd : events_[f] # c /\ open[f] # c
    /\ c \in closed_ => fd_[c] = NoFd
    /\ \A f \in Fd :
         /\ open[f] = c => fd_[c] = f
         /\ events_[f] = c /\ fd_[c] # NoFd => fd_[c] = f

\* While an attempt is in progress nothing has been reported of it, and its
\* descriptor is neither closed nor about to be.
DialingInv ==
  \A c \in Client \ spoilt : status_[c] = "connecting" =>
    /\ ~told[c] /\ fd_[c] # NoFd
    /\ c \notin closed_ /\ ~Closing(c)

\* A pending event that is not an error, if it is for an attempt in progress, is
\* for one that has succeeded: the descriptor is still the one epoll spoke of.
BatchInv ==
  spoilt = {} =>
    /\ lied = {}
    /\ \A f \in Fd : <<f, "in">> \in batch \/ <<f, "out">> \in batch =>
         /\ events_[f] # None
         /\ status_[events_[f]] = "connecting" /\ fd_[events_[f]] = f =>
              peer[f] \in {"up", "data", "eof", "broken"}

IInv == TypeOK /\ TableInv /\ OnceInv /\ DialingInv /\ BatchInv

-----------------------------------------------------------------------------
(***************************************************************************)
(* What is known of the state.                                             *)
(***************************************************************************)
Call == {"connected", "onClose", "onRead", "complete"} \X Client

LEMMA NamesDiffer == None \notin Client /\ NoFd \notin Fd /\ NoFd = 0
BY ClientAssumption DEF NoFd

LEMMA LowestIsFree ==
  ASSUME NEW f \in Fd, open[f] = None
  PROVE  Lowest \in Fd /\ open[Lowest] = None
<1> DEFINE S == {g \in Fd : open[g] = None}
<1>1. S \subseteq Nat /\ S # {}
  BY ClientAssumption
<1>2. IsWellFoundedOn(OpToRel(<, Nat), Nat)
  BY NatLessThanWellFounded
<1>3. PICK x \in S : \A y \in S : ~(<<y, x>> \in OpToRel(<, Nat))
  BY <1>1, <1>2, WFMin
<1>4. \A y \in S : x <= y
  <2> TAKE y \in S
  <2>1. ~(y < x)
    BY <1>1, <1>3 DEF OpToRel
  <2> QED BY <1>1, <2>1
<1>5. Lowest \in S
  BY <1>4 DEF Lowest, Min
<1> QED BY <1>5

\* What is running after a callback has been called, and after one returns.
LEMMA PushCall ==
  ASSUME NEW s \in Seq(Call), NEW x \in Call
  PROVE  /\ <<x>> \o s \in Seq(Call)
         /\ \A v : (\E i \in DOMAIN (<<x>> \o s) : (<<x>> \o s)[i] = v)
                     => v = x \/ \E i \in DOMAIN s : s[i] = v
<1>1. /\ <<x>> \o s \in Seq(Call) /\ Len(<<x>> \o s) = Len(s) + 1
      /\ DOMAIN (<<x>> \o s) = 1..(Len(s) + 1) /\ DOMAIN s = 1..Len(s)
      /\ Len(s) \in Nat
  <2>1. <<x>> \in Seq(Call) /\ Len(<<x>>) = 1
    OBVIOUS
  <2> QED BY <2>1, ConcatProperties, LenProperties
<1>2. \A i \in 1..(Len(s) + 1) :
        (<<x>> \o s)[i] = IF i = 1 THEN x ELSE s[i - 1]
  OBVIOUS
<1>3. \A i \in 1..(Len(s) + 1) : i = 1 \/ i - 1 \in 1..Len(s)
  BY <1>1
<1> QED BY <1>1, <1>2, <1>3

LEMMA ReturnCall ==
  ASSUME NEW s \in Seq(Call), s # <<>>
  PROVE  /\ Tail(s) \in Seq(Call) /\ Head(s) \in Call
         /\ \E i \in DOMAIN s : s[i] = Head(s)
         /\ \A v : (\E i \in DOMAIN Tail(s) : Tail(s)[i] = v)
                     => \E i \in DOMAIN s : s[i] = v
<1>1. /\ Tail(s) \in Seq(Call) /\ Head(s) \in Call /\ Head(s) = s[1]
      /\ Len(s) \in Nat /\ Len(s) >= 1 /\ DOMAIN s = 1..Len(s)
      /\ DOMAIN Tail(s) = 1..(Len(s) - 1)
      /\ \A i \in 1..(Len(s) - 1) : Tail(s)[i] = s[i + 1]
  BY HeadTailProperties, LenProperties, EmptySeq
<1>2. \A i \in 1..(Len(s) - 1) : i + 1 \in 1..Len(s)
  BY <1>1
<1> QED BY <1>1, <1>2

LEMMA TypeFacts ==
  ASSUME IInv
  PROVE  /\ status_ \in [Client -> {"init", "connecting", "connected", "disconnected"}]
         /\ fd_ \in [Client -> Fd \cup {NoFd}]
         /\ closed_ \subseteq Client /\ waiting \subseteq Client
         /\ events_ \in [Fd -> Client \cup {None}] /\ open \in [Fd -> Client \cup {None}]
         /\ watched \in [Fd -> {{"gone"}} \cup SUBSET {"in", "out"}]
         /\ peer \in [Fd -> {"none", "dialing", "refused", "up", "data", "eof", "broken"}]
         /\ batch \subseteq Fd \X {"err", "in", "out"}
         /\ calls \in Seq(Call)
         /\ attempts \in [Client -> 0 .. Attempts] /\ told \in [Client -> BOOLEAN]
         /\ lied \subseteq Client /\ spoilt \subseteq Client
BY DEF IInv, TypeOK, Call

LEMMA InitIInv == Init => IInv
<1> SUFFICES ASSUME Init PROVE IInv
  OBVIOUS
<1> USE DEF Init
<1>1. calls \in Seq(Call) /\ DOMAIN calls = {}
  BY EmptySeq
<1>2. TypeOK
  BY <1>1, ClientAssumption DEF TypeOK, Call
<1>3. TableInv
  BY DEF TableInv
<1>4. OnceInv
  BY NamesDiffer DEF OnceInv
<1>5. DialingInv
  BY DEF DialingInv
<1>6. BatchInv
  BY DEF BatchInv
<1> QED BY <1>2, <1>3, <1>4, <1>5, <1>6 DEF IInv

-----------------------------------------------------------------------------
(***************************************************************************)
(* Handlers: they change the state of one client, and no descriptor.       *)
(***************************************************************************)
LEMMA OnCloseFacts ==
  ASSUME IInv, NEW c \in Client, NEW running \in {calls, <<>>}, OnClose(c, running)
  PROVE  /\ status_' = [status_ EXCEPT ![c] = "disconnected"]
         /\ UNCHANGED <<told, lied>>
         /\ calls' \in Seq(Call)
         /\ \A d \in Client : Closing(d)' => Closing(d) \/ d = c
<1> DEFINE x == <<"onClose", c>>
<1>1. running \in Seq(Call) /\ x \in Call
  BY TypeFacts, EmptySeq DEF Call
<1>2. \A v : (\E i \in DOMAIN running : running[i] = v) => \E i \in DOMAIN calls : calls[i] = v
  BY EmptySeq
<1>3. calls' = running \/ calls' = <<x>> \o running
  BY DEF OnClose, BeginClose
<1> HIDE DEF x
<1>4. /\ calls' \in Seq(Call)
      /\ \A v : (\E i \in DOMAIN calls' : calls'[i] = v)
                  => v = x \/ \E i \in DOMAIN calls : calls[i] = v
  <2>1. CASE calls' = running
    BY <1>1, <1>2, <2>1
  <2>2. CASE calls' = <<x>> \o running
    BY <1>1, <1>2, <2>2, PushCall
  <2> QED BY <1>3, <2>1, <2>2
<1>5. \A d \in Client : Closing(d)' => Closing(d) \/ d = c
  BY <1>4 DEF Closing, x
<1> QED BY <1>4, <1>5 DEF OnClose

LEMMA UpdateFacts ==
  ASSUME IInv, NEW c \in Client, NEW running \in {calls, <<>>}, NEW established,
         UpdateConnectionStatus(c, established, running)
  PROVE  /\ status_' = [status_ EXCEPT ![c] = "connected"]
         /\ told' = [told EXCEPT ![c] = TRUE]
         /\ lied' = IF established /\ ~told[c] THEN lied ELSE lied \cup {c}
         /\ calls' \in Seq(Call)
         /\ \A d \in Client : Closing(d)' => Closing(d)
<1> DEFINE x == <<"connected", c>>
<1>1. running \in Seq(Call) /\ x \in Call
  BY TypeFacts, EmptySeq DEF Call
<1>2. \A v : (\E i \in DOMAIN running : running[i] = v) => \E i \in DOMAIN calls : calls[i] = v
  BY EmptySeq
<1>3. calls' = <<x>> \o running
  BY DEF UpdateConnectionStatus
<1>x. \A d : x # <<"onClose", d>>
  OBVIOUS
<1> HIDE DEF x
<1>4. /\ calls' \in Seq(Call)
      /\ \A v : (\E i \in DOMAIN calls' : calls'[i] = v)
                  => v = x \/ \E i \in DOMAIN calls : calls[i] = v
  BY <1>1, <1>2, <1>3, PushCall
<1>5. \A d \in Client : Closing(d)' => Closing(d)
  BY <1>4, <1>x DEF Closing
<1> QED BY <1>4, <1>5 DEF UpdateConnectionStatus

\* A call of one more callback, other than close_cb_.
LEMMA CallFacts ==
  ASSUME NEW c \in Client, NEW kind \in {"onRead", "complete"},
         calls' = << <<kind, c>> >>
  PROVE  /\ calls' \in Seq(Call)
         /\ \A d \in Client : ~Closing(d)'
<1>1. calls' \in Seq(Call) /\ DOMAIN calls' = {1} /\ calls'[1] = <<kind, c>>
  BY DEF Call
<1> QED BY <1>1 DEF Closing

\* What a handler of client c may do.
Handled(c) ==
  /\ UNCHANGED <<fd_, closed_, events_, open, attempts, spoilt>>
  /\ \A d \in Client \ {c} :
       status_'[d] = status_[d] /\ told'[d] = told[d] /\ (Closing(d)' => Closing(d))
  /\ \/ status_'[c] = status_[c] /\ told'[c] = told[c] /\ (Closing(c)' => Closing(c))
     \/ status_'[c] \in {"connected", "disconnected"}
  /\ told'[c] => told[c] \/ attempts[c] # 0 \/ c \in spoilt
  /\ \A f \in Fd : watched'[f] # {"gone"} => watched[f] # {"gone"}

LEMMA HandledInv ==
  ASSUME IInv, TypeOK', NEW c \in Client, Handled(c)
  PROVE  TableInv' /\ OnceInv' /\ DialingInv'
<1>1. TableInv'
  BY DEF Handled, IInv, TableInv
<1>2. OnceInv'
  <2> SUFFICES ASSUME NEW d \in Client \ spoilt
               PROVE  /\ attempts[d] = 0 =>
                           /\ ~told'[d] /\ status_'[d] # "connecting" /\ fd_[d] = NoFd
                           /\ \A f \in Fd : events_[f] # d /\ open[f] # d
                      /\ d \in closed_ => fd_[d] = NoFd
                      /\ \A f \in Fd :
                           /\ open[f] = d => fd_[d] = f
                           /\ events_[f] = d /\ fd_[d] # NoFd => fd_[d] = f
    BY DEF OnceInv, Handled
  <2>1. told'[d] => told[d] \/ attempts[d] # 0
    BY DEF Handled
  <2>2. status_'[d] = "connecting" => status_[d] = "connecting"
    BY DEF Handled
  <2> QED BY <2>1, <2>2 DEF IInv, OnceInv
<1>3. DialingInv'
  <2> SUFFICES ASSUME NEW d \in Client \ spoilt, status_'[d] = "connecting"
               PROVE  ~told'[d] /\ fd_[d] # NoFd /\ d \notin closed_ /\ ~Closing(d)'
    BY DEF DialingInv, Handled
  <2>1. status_[d] = "connecting" /\ told'[d] = told[d] /\ (Closing(d)' => Closing(d))
    BY DEF Handled
  <2> QED BY <2>1 DEF IInv, DialingInv
<1> QED BY <1>1, <1>2, <1>3

LEMMA InterestFacts ==
  ASSUME IInv, NEW f \in Fd \cup {NoFd}, NEW on \in BOOLEAN, watched' = Interest(f, on)
  PROVE  /\ watched' \in [Fd -> {{"gone"}} \cup SUBSET {"in", "out"}]
         /\ \A g \in Fd : watched'[g] # {"gone"} => watched[g] # {"gone"}
<1>1. watched \in [Fd -> {{"gone"}} \cup SUBSET {"in", "out"}]
  BY TypeFacts
<1>2. CASE f = NoFd \/ "gone" \in watched[f]
  BY <1>1, <1>2 DEF Interest
<1>3. CASE f # NoFd /\ "gone" \notin watched[f]
  <2>1. f \in Fd /\ watched[f] \in SUBSET {"in", "out"} /\ watched[f] # {"gone"}
    BY <1>1, <1>3
  <2>2. watched' = [watched EXCEPT ![f] = IF on THEN @ \cup {"out"} ELSE @ \ {"out"}]
    BY <1>3 DEF Interest
  <2>3. (IF on THEN watched[f] \cup {"out"} ELSE watched[f] \ {"out"}) \in SUBSET {"in", "out"}
    BY <2>1
  <2> QED BY <1>1, <2>1, <2>2, <2>3
<1> QED BY <1>2, <1>3

LEMMA SendStep ==
  ASSUME IInv, NEW c \in Client, Send(c)
  PROVE  IInv'
<1>1. /\ waiting' = waiting \cup {c} /\ watched' = Interest(fd_[c], TRUE)
      /\ UNCHANGED <<status_, fd_, closed_, events_, open, peer, batch, calls, ghosts>>
  BY DEF Send
<1>2. /\ watched' \in [Fd -> {{"gone"}} \cup SUBSET {"in", "out"}]
      /\ \A g \in Fd : watched'[g] # {"gone"} => watched[g] # {"gone"}
  BY <1>1, TypeFacts, InterestFacts
<1>3. TypeOK'
  BY <1>1, <1>2 DEF IInv, TypeOK, ghosts
<1>4. Handled(c)
  BY <1>1, <1>2 DEF Handled, Closing, ghosts
<1>5. BatchInv'
  BY <1>1 DEF IInv, BatchInv, ghosts
<1> QED BY <1>3, <1>4, <1>5, HandledInv DEF IInv

LEMMA ForceCloseStep ==
  ASSUME IInv, NEW c \in Client, ForceClose(c)
  PROVE  IInv'
<1>1. /\ OnClose(c, calls)
      /\ UNCHANGED <<fd_, closed_, waiting, events_, open, watched, peer, batch, attempts, spoilt>>
  BY DEF ForceClose, kernel
<1>2. /\ status_' = [status_ EXCEPT ![c] = "disconnected"]
      /\ UNCHANGED <<told, lied>> /\ calls' \in Seq(Call)
      /\ \A d \in Client : Closing(d)' => Closing(d) \/ d = c
  BY <1>1, OnCloseFacts
<1>3. TypeOK'
  BY <1>1, <1>2 DEF IInv, TypeOK, Call
<1>4. Handled(c)
  BY <1>1, <1>2, TypeFacts DEF Handled
<1>5. BatchInv'
  BY <1>1, <1>2, TypeFacts DEF IInv, BatchInv
<1> QED BY <1>3, <1>4, <1>5, HandledInv DEF IInv

\* What is left of BatchInv when the event of client c has been handled.
LEMMA BatchAfterHandler ==
  ASSUME IInv, NEW c \in Client, Handled(c), batch' \subseteq batch,
         \/ peer' = peer
         \/ /\ fd_[c] \in Fd /\ peer' = [peer EXCEPT ![fd_[c]] = "up"],
         spoilt = {} => lied' = lied
  PROVE  BatchInv'
<1> SUFFICES ASSUME spoilt = {},
                    NEW f \in Fd, <<f, "in">> \in batch \/ <<f, "out">> \in batch
             PROVE  /\ lied' = {}
                    /\ events_[f] # None
                    /\ status_'[events_[f]] = "connecting" /\ fd_[events_[f]] = f =>
                         peer'[f] \in {"up", "data", "eof", "broken"}
  <2>1. spoilt = {} => lied' = {}
    BY DEF IInv, BatchInv
  <2> QED BY <2>1 DEF BatchInv, Handled
<1>1. /\ lied = {} /\ events_[f] # None
      /\ status_[events_[f]] = "connecting" /\ fd_[events_[f]] = f =>
           peer[f] \in {"up", "data", "eof", "broken"}
  BY DEF IInv, BatchInv
<1>2. events_[f] \in Client
  BY <1>1, TypeFacts
<1>3. status_'[events_[f]] = "connecting" => status_[events_[f]] = "connecting"
  BY <1>2 DEF Handled
<1>4. peer'[f] = peer[f] \/ peer'[f] = "up"
  BY TypeFacts
<1> QED BY <1>1, <1>3, <1>4

\* A handler that does nothing, for an event that is stale.
LEMMA NothingStep ==
  ASSUME IInv, Nothing, batch' \subseteq batch,
         UNCHANGED <<fd_, closed_, events_, open, attempts, spoilt>>
  PROVE  IInv'
<1>1. UNCHANGED <<status_, told, lied, calls, waiting, watched, peer>>
  BY DEF Nothing
<1>2. TypeOK'
  BY <1>1 DEF IInv, TypeOK
<1>3. TableInv' /\ OnceInv' /\ DialingInv' /\ BatchInv'
  BY <1>1 DEF IInv, TableInv, OnceInv, DialingInv, BatchInv, Closing
<1> QED BY <1>2, <1>3 DEF IInv

\* An event of client c, which the loop has found in events_.
LEMMA HandleStep ==
  ASSUME IInv, NEW f \in Fd, NEW as \in {"err", "in", "out"}, NEW c \in Client,
         events_[f] = c, calls = <<>>, <<f, as>> \in batch, batch' \subseteq batch,
         UNCHANGED <<fd_, closed_, events_, open, attempts, spoilt>>, Handle(c, as)
  PROVE  IInv'
<1>1. /\ events_[f] = c /\ calls = <<>> /\ <<f, as>> \in batch /\ batch' \subseteq batch
      /\ UNCHANGED <<fd_, closed_, events_, open, attempts, spoilt>>
  OBVIOUS
<1>2. batch' \subseteq Fd \X {"err", "in", "out"}
  BY <1>1, TypeFacts
<1>3. ASSUME Nothing
      PROVE  IInv'
  BY <1>1, <1>3, NothingStep
<1>4. ASSUME OnClose(c, <<>>), UNCHANGED <<waiting, watched, peer>>
      PROVE  IInv'
  <2>1. /\ status_' = [status_ EXCEPT ![c] = "disconnected"]
        /\ UNCHANGED <<told, lied>> /\ calls' \in Seq(Call)
        /\ \A d \in Client : Closing(d)' => Closing(d) \/ d = c
    BY <1>4, OnCloseFacts
  <2>2. TypeOK'
    BY <1>1, <1>2, <1>4, <2>1 DEF IInv, TypeOK, Call
  <2>3. Handled(c)
    BY <1>1, <1>4, <2>1, TypeFacts DEF Handled
  <2>4. BatchInv'
    BY <1>1, <1>4, <2>1, <2>3, BatchAfterHandler
  <2> QED BY <1>4, <2>2, <2>3, <2>4, HandledInv DEF IInv
<1>5. ASSUME as # "err", status_[c] = "connecting", Establish(c)
      PROVE  IInv'
  <2>1. CASE Failed(fd_[c])
    BY <1>4, <1>5, <2>1 DEF Establish
  <2>2. CASE ~Failed(fd_[c])
    <3> DEFINE established == fd_[c] # NoFd /\ peer[fd_[c]] \in {"up", "data", "eof"}
    <3>1. /\ UpdateConnectionStatus(c, established, <<>>)
          /\ UNCHANGED <<waiting, watched, peer>>
      BY <1>5, <2>2 DEF Establish
    <3>2. spoilt = {} => established /\ ~told[c]
      <4> SUFFICES ASSUME spoilt = {} PROVE established /\ ~told[c]
        OBVIOUS
      <4>1. ~told[c] /\ fd_[c] # NoFd
        BY <1>5 DEF IInv, DialingInv
      <4>2. fd_[c] = f
        BY <1>5, <4>1 DEF IInv, OnceInv
      <4>3. <<f, "in">> \in batch \/ <<f, "out">> \in batch
        BY <1>1, <1>5
      <4>4. peer[f] \in {"up", "data", "eof", "broken"}
        BY <1>5, <4>2, <4>3 DEF IInv, BatchInv
      <4> QED BY <2>2, <4>1, <4>2, <4>4 DEF Failed
    <3> HIDE DEF established
    <3>3. /\ status_' = [status_ EXCEPT ![c] = "connected"]
          /\ told' = [told EXCEPT ![c] = TRUE]
          /\ lied' = IF established /\ ~told[c] THEN lied ELSE lied \cup {c}
          /\ calls' \in Seq(Call)
          /\ \A d \in Client : Closing(d)' => Closing(d)
      BY <1>5, <3>1, UpdateFacts
    <3>4. TypeOK'
      BY <1>1, <1>2, <1>5, <3>1, <3>3 DEF IInv, TypeOK, Call
    <3>5. attempts[c] # 0 \/ c \in spoilt
      BY <1>5 DEF IInv, OnceInv
    <3>6. Handled(c)
      BY <1>1, <1>5, <3>1, <3>3, <3>5, TypeFacts DEF Handled
    <3>7. BatchInv'
      <4>1. spoilt = {} => lied' = lied
        BY <3>2, <3>3
      <4>2. peer' = peer
        BY <3>1
      <4> QED BY <1>1, <1>5, <3>6, <4>1, <4>2, BatchAfterHandler
    <3> QED BY <1>5, <3>4, <3>6, <3>7, HandledInv DEF IInv
  <2> QED BY <2>1, <2>2
<1>6. ASSUME NEW kind \in {"onRead", "complete"}, calls' = << <<kind, c>> >>,
             waiting' \subseteq Client, UNCHANGED <<status_, told, lied>>,
             watched' \in [Fd -> {{"gone"}} \cup SUBSET {"in", "out"}],
             \A g \in Fd : watched'[g] # {"gone"} => watched[g] # {"gone"},
             \/ peer' = peer
             \/ fd_[c] \in Fd /\ peer' = [peer EXCEPT ![fd_[c]] = "up"]
      PROVE  IInv'
  <2>1. calls' \in Seq(Call) /\ \A d \in Client : ~Closing(d)'
    BY <1>6, CallFacts
  <2>a. peer' \in [Fd -> {"none", "dialing", "refused", "up", "data", "eof", "broken"}]
    BY <1>6, TypeFacts
  <2>2. TypeOK'
    BY <1>1, <1>2, <1>6, <2>1, <2>a DEF IInv, TypeOK, Call
  <2>3. Handled(c)
    BY <1>1, <1>6, <2>1 DEF Handled
  <2>4. BatchInv'
    BY <1>1, <1>6, <2>3, BatchAfterHandler
  <2> QED BY <1>6, <2>2, <2>3, <2>4, HandledInv DEF IInv
<1>7. ASSUME OnRead(c)
      PROVE  IInv'
  <2>1. CASE /\ c \notin closed_ /\ peer[fd_[c]] = "data"
             /\ peer' = [peer EXCEPT ![fd_[c]] = "up"]
             /\ calls' = << <<"onRead", c>> >>
             /\ UNCHANGED <<status_, told, lied, waiting, watched>>
    <3>1. peer' = peer \/ (fd_[c] \in Fd /\ peer' = [peer EXCEPT ![fd_[c]] = "up"])
      BY <1>7, <2>1, TypeFacts
    <3>2. waiting' \subseteq Client /\ watched' \in [Fd -> {{"gone"}} \cup SUBSET {"in", "out"}]
      BY <2>1, TypeFacts
    <3> QED BY <1>6, <1>7, <2>1, <3>1, <3>2
  <2>2. CASE OnClose(c, <<>>) /\ UNCHANGED <<waiting, watched, peer>>
    BY <1>4, <1>7, <2>2
  <2> QED BY <1>3, <1>7, <2>1, <2>2 DEF OnRead
<1>8. ASSUME OnWrite(c)
      PROVE  IInv'
  <2>1. CASE /\ waiting' = waiting \ {c}
             /\ watched' = Interest(fd_[c], FALSE)
             /\ calls' = << <<"complete", c>> >>
             /\ UNCHANGED <<status_, told, lied, peer>>
    <3>1. /\ watched' \in [Fd -> {{"gone"}} \cup SUBSET {"in", "out"}]
          /\ \A g \in Fd : watched'[g] # {"gone"} => watched[g] # {"gone"}
      BY <1>8, <2>1, TypeFacts, InterestFacts
    <3>2. waiting' \subseteq Client
      BY <2>1, TypeFacts
    <3> QED BY <1>6, <1>8, <2>1, <3>1, <3>2
  <2> QED BY <1>3, <1>8, <2>1 DEF OnWrite
<1> QED BY <1>3, <1>4, <1>5, <1>7, <1>8 DEF Handle

LEMMA DispatchStep ==
  ASSUME IInv, NEW f \in Fd, NEW as \in {"err", "in", "out"}, Dispatch(f, as)
  PROVE  IInv'
<1>1. /\ calls = <<>> /\ <<f, as>> \in batch /\ batch' \subseteq batch
      /\ UNCHANGED <<fd_, closed_, events_, open, attempts, spoilt>>
  BY DEF Dispatch
<1>2. CASE events_[f] = None
  <2>1. Nothing
    BY <1>2 DEF Dispatch
  <2> QED BY <1>1, <2>1, NothingStep
<1>3. CASE events_[f] # None
  <2>1. PICK c \in Client : events_[f] = c
    BY <1>3, TypeFacts
  <2>2. Handle(c, as)
    BY <1>3, <2>1 DEF Dispatch
  <2> QED BY <1>1, <2>1, <2>2, HandleStep
<1> QED BY <1>2, <1>3

-----------------------------------------------------------------------------
(***************************************************************************)
(* Steps that open and close descriptors.                                  *)
(***************************************************************************)
\* A descriptor nobody has is watched for nobody.
LEMMA FreeIsUnused ==
  ASSUME IInv, NEW f \in Fd, open[f] = None
  PROVE  watched[f] = {"gone"} /\ \A c \in Client : fd_[c] # f
BY NamesDiffer DEF IInv, TableInv

\* connectInLoop, when no descriptor could be had.
LEMMA NoDescriptorStep ==
  ASSUME IInv, NEW c \in Client, ConnectInLoop(c),
         fd_' = [fd_ EXCEPT ![c] = NoFd], OnClose(c, calls),
         UNCHANGED <<events_, open, watched, peer>>
  PROVE  IInv'
<1>1. /\ attempts[c] < Attempts /\ attempts' = [attempts EXCEPT ![c] = @ + 1]
      /\ spoilt' = IF attempts[c] > 0 \/ c \in closed_ \/ Closing(c)
                   THEN spoilt \cup {c} ELSE spoilt
      /\ UNCHANGED <<closed_, waiting, batch>>
  BY DEF ConnectInLoop
<1>2. /\ status_' = [status_ EXCEPT ![c] = "disconnected"]
      /\ UNCHANGED <<told, lied>> /\ calls' \in Seq(Call)
      /\ \A d \in Client : Closing(d)' => Closing(d) \/ d = c
  BY OnCloseFacts
<1>a. attempts[c] \in 0..Attempts /\ Attempts \in Nat
  BY TypeFacts, ClientAssumption
<1>3. TypeOK'
  <2>1. attempts' \in [Client -> 0 .. Attempts]
    BY <1>1, <1>a, TypeFacts
  <2> QED BY <1>1, <1>2, <2>1 DEF IInv, TypeOK, Call
<1>4. TableInv'
  BY TypeFacts DEF IInv, TableInv
<1>b. /\ \A d \in Client \ {c} : /\ attempts'[d] = attempts[d] /\ status_'[d] = status_[d]
                                 /\ fd_'[d] = fd_[d] /\ (d \in spoilt' <=> d \in spoilt)
      /\ attempts'[c] # 0 /\ status_'[c] = "disconnected" /\ fd_'[c] = NoFd
      /\ c \notin spoilt' => attempts[c] = 0 /\ c \notin spoilt
  BY <1>1, <1>2, <1>a, TypeFacts
<1>5. OnceInv'
  <2> SUFFICES ASSUME NEW d \in Client \ spoilt'
               PROVE  /\ attempts'[d] = 0 =>
                           /\ ~told[d] /\ status_'[d] # "connecting" /\ fd_'[d] = NoFd
                           /\ \A f \in Fd : events_[f] # d /\ open[f] # d
                      /\ d \in closed_ => fd_'[d] = NoFd
                      /\ \A f \in Fd :
                           /\ open[f] = d => fd_'[d] = f
                           /\ events_[f] = d /\ fd_'[d] # NoFd => fd_'[d] = f
    BY <1>1, <1>2 DEF OnceInv
  <2>1. CASE d # c
    BY <1>b, <2>1 DEF IInv, OnceInv
  <2>2. CASE d = c
    <3>1. \A f \in Fd : open[f] # c
      BY <1>b, <2>2 DEF IInv, OnceInv
    <3> QED BY <1>b, <2>2, <3>1
  <2> QED BY <2>1, <2>2
<1>6. DialingInv'
  <2> SUFFICES ASSUME NEW d \in Client \ spoilt', status_'[d] = "connecting"
               PROVE  ~told[d] /\ fd_'[d] # NoFd /\ d \notin closed_ /\ ~Closing(d)'
    BY <1>1, <1>2 DEF DialingInv
  <2>1. d # c
    BY <1>b
  <2> QED BY <1>2, <1>b, <2>1 DEF IInv, DialingInv
<1>7. BatchInv'
  <2> SUFFICES ASSUME spoilt' = {},
                      NEW f \in Fd, <<f, "in">> \in batch \/ <<f, "out">> \in batch
               PROVE  /\ events_[f] # None
                      /\ status_'[events_[f]] = "connecting" /\ fd_'[events_[f]] = f =>
                           peer[f] \in {"up", "data", "eof", "broken"}
    <3>1. spoilt' = {} => lied' = {}
      BY <1>1, <1>2 DEF IInv, BatchInv
    <3> QED BY <1>1, <3>1 DEF BatchInv
  <2>1. spoilt = {}
    BY <1>1
  <2>2. /\ events_[f] # None
        /\ status_[events_[f]] = "connecting" /\ fd_[events_[f]] = f =>
             peer[f] \in {"up", "data", "eof", "broken"}
    BY <2>1 DEF IInv, BatchInv
  <2>3. CASE events_[f] = c
    BY <1>b, <2>2, <2>3
  <2>4. CASE events_[f] # c
    <3>1. events_[f] \in Client \ {c}
      BY <2>2, <2>4, TypeFacts
    <3> QED BY <1>b, <2>2, <3>1
  <2> QED BY <2>3, <2>4
<1> QED BY <1>3, <1>4, <1>5, <1>6, <1>7 DEF IInv

\* connectInLoop, when ::connect has been called with the lowest descriptor.
LEMMA DescriptorStep ==
  ASSUME IInv, NEW c \in Client, ConnectInLoop(c),
         NEW fd \in Fd, open[fd] = None,
         NEW result \in {"up", "dialing", "none"},
         open' = [open EXCEPT ![fd] = c], peer' = [peer EXCEPT ![fd] = result],
         fd_' = [fd_ EXCEPT ![c] = fd],
         AddEventToWrite(c, fd), Connected(c, fd, result)
  PROVE  IInv'
<1>1. /\ attempts[c] < Attempts /\ attempts' = [attempts EXCEPT ![c] = @ + 1]
      /\ spoilt' = IF attempts[c] > 0 \/ c \in closed_ \/ Closing(c)
                   THEN spoilt \cup {c} ELSE spoilt
      /\ UNCHANGED <<closed_, waiting, batch>>
  BY DEF ConnectInLoop
<1>2. attempts[c] \in 0..Attempts /\ Attempts \in Nat
  BY TypeFacts, ClientAssumption
<1>3. /\ status_' \in [Client -> {"init", "connecting", "connected", "disconnected"}]
      /\ told' \in [Client -> BOOLEAN]
      /\ \A d \in Client \ {c} : status_'[d] = status_[d] /\ told'[d] = told[d]
      /\ status_'[c] = "connecting" => ~Closing(c)' \/ Closing(c)
      /\ status_'[c] = "connecting" => told'[c] = told[c]
      /\ ~told[c] => lied' = lied
      /\ lied' \subseteq Client
      /\ calls' \in Seq(Call)
      /\ \A d \in Client \ {c} : Closing(d)' => Closing(d)
  <2>1. CASE result = "up"
    <3>1. UpdateConnectionStatus(c, TRUE, calls)
      BY <2>1 DEF Connected
    <3>2. /\ status_' = [status_ EXCEPT ![c] = "connected"]
          /\ told' = [told EXCEPT ![c] = TRUE]
          /\ lied' = IF ~told[c] THEN lied ELSE lied \cup {c}
          /\ calls' \in Seq(Call)
          /\ \A d \in Client : Closing(d)' => Closing(d)
      BY <3>1, UpdateFacts
    <3> QED BY <3>2, TypeFacts
  <2>2. CASE result = "dialing"
    <3>1. /\ status_' = [status_ EXCEPT ![c] = "connecting"]
          /\ UNCHANGED <<told, lied, calls>>
      BY <2>2 DEF Connected
    <3> QED BY <3>1, TypeFacts DEF Closing
  <2>3. CASE result = "none"
    <3>1. OnClose(c, calls)
      BY <2>3 DEF Connected
    <3>2. /\ status_' = [status_ EXCEPT ![c] = "disconnected"]
          /\ UNCHANGED <<told, lied>> /\ calls' \in Seq(Call)
          /\ \A d \in Client : Closing(d)' => Closing(d) \/ d = c
      BY <3>1, OnCloseFacts
    <3> QED BY <3>2, TypeFacts
  <2> QED BY <2>1, <2>2, <2>3
<1>4. /\ events_' \in [Fd -> Client \cup {None}]
      /\ watched' \in [Fd -> {{"gone"}} \cup SUBSET {"in", "out"}]
      /\ \A f \in Fd \ {fd} : events_'[f] = events_[f] /\ watched'[f] = watched[f]
      /\ events_[fd] # None => events_'[fd] = events_[fd] /\ watched'[fd] = {"gone"}
      /\ events_[fd] = None => events_'[fd] = c
  <2>1. /\ watched \in [Fd -> {{"gone"}} \cup SUBSET {"in", "out"}] /\ watched[fd] = {"gone"}
        /\ events_ \in [Fd -> Client \cup {None}]
    BY TypeFacts, FreeIsUnused
  <2>2. CASE events_[fd] = None
    <3>1. /\ events_' = [events_ EXCEPT ![fd] = c]
          /\ watched' = [watched EXCEPT ![fd] = {"in", "out"}]
      BY <2>2 DEF AddEventToWrite
    <3>2. {"in", "out"} \in SUBSET {"in", "out"}
      OBVIOUS
    <3> QED BY <2>1, <2>2, <3>1, <3>2
  <2>3. CASE events_[fd] # None
    BY <2>1, <2>3 DEF AddEventToWrite
  <2> QED BY <2>2, <2>3
<1>5. /\ \A f \in Fd \ {fd} : open'[f] = open[f] /\ peer'[f] = peer[f]
      /\ open'[fd] = c /\ peer'[fd] = result
      /\ \A d \in Client \ {c} : /\ attempts'[d] = attempts[d] /\ fd_'[d] = fd_[d]
                                 /\ (d \in spoilt' <=> d \in spoilt)
                                 /\ fd_[d] # fd
      /\ attempts'[c] # 0 /\ fd_'[c] = fd
      /\ c \notin spoilt' => /\ attempts[c] = 0 /\ c \notin spoilt /\ c \notin closed_
                             /\ ~Closing(c)
      /\ spoilt \subseteq spoilt'
      /\ c # None /\ fd # NoFd
  BY <1>1, <1>2, TypeFacts, FreeIsUnused, NamesDiffer
<1>6. TypeOK'
  <2>1. attempts' \in [Client -> 0 .. Attempts]
    BY <1>1, <1>2, TypeFacts
  <2>2. /\ open' \in [Fd -> Client \cup {None}] /\ fd_' \in [Client -> Fd \cup {NoFd}]
        /\ peer' \in [Fd -> {"none", "dialing", "refused", "up", "data", "eof", "broken"}]
    BY TypeFacts
  <2>3. spoilt' \subseteq Client
    BY <1>1, TypeFacts
  <2> QED BY <1>1, <1>3, <1>4, <2>1, <2>2, <2>3, TypeFacts DEF TypeOK, Call
<1>7. TableInv'
  <2>1. \A d \in Client : fd_'[d] # NoFd => open'[fd_'[d]] = d
    BY <1>5, TypeFacts DEF IInv, TableInv
  <2>2. \A f \in Fd : watched'[f] # {"gone"} => open'[f] # None /\ events_'[f] = open'[f]
    BY <1>4, <1>5 DEF IInv, TableInv
  <2> QED BY <2>1, <2>2 DEF TableInv
<1>8. ASSUME NEW d \in Client \ spoilt', d = c
      PROVE  /\ ~told[c] /\ \A f \in Fd : events_[f] # c /\ open[f] # c
  BY <1>5, <1>8 DEF IInv, OnceInv
<1>9. OnceInv'
  <2> SUFFICES ASSUME NEW d \in Client \ spoilt'
               PROVE  /\ attempts'[d] = 0 =>
                           /\ ~told'[d] /\ status_'[d] # "connecting" /\ fd_'[d] = NoFd
                           /\ \A f \in Fd : events_'[f] # d /\ open'[f] # d
                      /\ d \in closed_ => fd_'[d] = NoFd
                      /\ \A f \in Fd :
                           /\ open'[f] = d => fd_'[d] = f
                           /\ events_'[f] = d /\ fd_'[d] # NoFd => fd_'[d] = f
    BY <1>1 DEF OnceInv
  <2>1. CASE d # c
    <3>1. \A f \in Fd : /\ open'[f] = d => open[f] = d
                        /\ events_'[f] = d => events_[f] = d
      BY <1>4, <1>5, <2>1
    <3>2. /\ attempts'[d] = attempts[d] /\ status_'[d] = status_[d] /\ told'[d] = told[d]
          /\ fd_'[d] = fd_[d] /\ d \in Client \ spoilt
      BY <1>3, <1>5, <2>1
    <3>3. /\ attempts[d] = 0 =>
               /\ ~told[d] /\ status_[d] # "connecting" /\ fd_[d] = NoFd
               /\ \A f \in Fd : events_[f] # d /\ open[f] # d
          /\ d \in closed_ => fd_[d] = NoFd
          /\ \A f \in Fd :
               /\ open[f] = d => fd_[d] = f
               /\ events_[f] = d /\ fd_[d] # NoFd => fd_[d] = f
      BY <3>2 DEF IInv, OnceInv
    <3> QED BY <3>1, <3>2, <3>3
  <2>2. CASE d = c
    <3>1. \A f \in Fd : open'[f] = c \/ events_'[f] = c => f = fd
      BY <1>4, <1>5, <1>8, <2>2
    <3> QED BY <1>5, <2>2, <3>1
  <2> QED BY <2>1, <2>2
<1>10. DialingInv'
  <2> SUFFICES ASSUME NEW d \in Client \ spoilt', status_'[d] = "connecting"
               PROVE  ~told'[d] /\ fd_'[d] # NoFd /\ d \notin closed_ /\ ~Closing(d)'
    BY <1>1 DEF DialingInv
  <2>1. CASE d # c
    BY <1>3, <1>5, <2>1 DEF IInv, DialingInv
  <2>2. CASE d = c
    BY <1>3, <1>5, <1>8, <2>2
  <2> QED BY <2>1, <2>2
<1>11. BatchInv'
  <2> SUFFICES ASSUME spoilt' = {}
               PROVE  /\ lied' = {}
                      /\ \A f \in Fd : <<f, "in">> \in batch \/ <<f, "out">> \in batch =>
                           /\ events_'[f] # None
                           /\ status_'[events_'[f]] = "connecting" /\ fd_'[events_'[f]] = f =>
                                peer'[f] \in {"up", "data", "eof", "broken"}
    BY <1>1 DEF BatchInv
  <2>1. spoilt = {} /\ c \in Client \ spoilt'
    BY <1>5
  <2>2. lied' = {}
    BY <1>3, <1>8, <2>1 DEF IInv, BatchInv
  <2>3. ASSUME NEW f \in Fd, <<f, "in">> \in batch \/ <<f, "out">> \in batch
        PROVE  /\ events_'[f] # None
               /\ status_'[events_'[f]] = "connecting" /\ fd_'[events_'[f]] = f =>
                    peer'[f] \in {"up", "data", "eof", "broken"}
    <3>1. /\ events_[f] # None
          /\ status_[events_[f]] = "connecting" /\ fd_[events_[f]] = f =>
               peer[f] \in {"up", "data", "eof", "broken"}
      BY <2>1, <2>3 DEF IInv, BatchInv
    <3>2. events_'[f] = events_[f] /\ events_[f] \in Client
      BY <1>4, <3>1, TypeFacts
    <3>3. events_[f] # c
      BY <1>8, <2>1
    <3>4. fd_[events_[f]] = f => f # fd
      BY <1>5, <3>2, <3>3
    <3> QED BY <1>3, <1>5, <3>1, <3>2, <3>3, <3>4
  <2> QED BY <2>2, <2>3
<1> QED BY <1>6, <1>7, <1>9, <1>10, <1>11 DEF IInv

LEMMA ConnectStep ==
  ASSUME IInv, NEW c \in Client, ConnectInLoop(c)
  PROVE  IInv'
<1>1. CASE /\ fd_' = [fd_ EXCEPT ![c] = NoFd]
           /\ OnClose(c, calls)
           /\ UNCHANGED <<events_, kernel>>
  BY <1>1, NoDescriptorStep DEF kernel
<1>2. CASE /\ \E f \in Fd : open[f] = None
           /\ \E result \in {"up", "dialing", "none"} :
                /\ open' = [open EXCEPT ![Lowest] = c]
                /\ peer' = [peer EXCEPT ![Lowest] = result]
                /\ fd_' = [fd_ EXCEPT ![c] = Lowest]
                /\ AddEventToWrite(c, Lowest)
                /\ Connected(c, Lowest, result)
  <2>1. PICK result \in {"up", "dialing", "none"} :
          /\ open' = [open EXCEPT ![Lowest] = c]
          /\ peer' = [peer EXCEPT ![Lowest] = result]
          /\ fd_' = [fd_ EXCEPT ![c] = Lowest]
          /\ AddEventToWrite(c, Lowest)
          /\ Connected(c, Lowest, result)
    BY <1>2
  <2>2. Lowest \in Fd /\ open[Lowest] = None
    BY <1>2, LowestIsFree
  <2> QED BY <2>1, <2>2, DescriptorStep
<1> QED BY <1>1, <1>2 DEF ConnectInLoop

LEMMA SendBufferStep ==
  ASSUME IInv, NEW c \in Client, SendBuffer(c)
  PROVE  IInv'
<1>1. /\ status_' = [status_ EXCEPT ![c] = "connected"]
      /\ spoilt' = spoilt \cup {c}
      /\ BeginClose(c, calls)
      /\ UNCHANGED <<fd_, closed_, waiting, open, peer, batch, attempts, told, lied>>
  BY DEF SendBuffer
<1>2. /\ events_' \in [Fd -> Client \cup {None}]
      /\ watched' \in [Fd -> {{"gone"}} \cup SUBSET {"in", "out"}]
      /\ \A f \in Fd : \/ events_'[f] = events_[f] /\ watched'[f] = watched[f]
                       \/ events_'[f] = None /\ watched'[f] = {"gone"}
  BY TypeFacts DEF SendBuffer
<1>3. /\ calls' \in Seq(Call)
      /\ \A d \in Client \ {c} : Closing(d)' => Closing(d)
  <2> DEFINE x == <<"onClose", c>>
  <2>1. calls \in Seq(Call) /\ x \in Call
    BY TypeFacts DEF Call
  <2>2. calls' = calls \/ calls' = <<x>> \o calls
    BY <1>1 DEF BeginClose
  <2>3. \A d \in Client \ {c} : x # <<"onClose", d>>
    OBVIOUS
  <2> HIDE DEF x
  <2>4. /\ calls' \in Seq(Call)
        /\ \A v : (\E i \in DOMAIN calls' : calls'[i] = v)
                    => v = x \/ \E i \in DOMAIN calls : calls[i] = v
    <3>1. CASE calls' = calls
      BY <2>1, <3>1
    <3>2. CASE calls' = <<x>> \o calls
      BY <2>1, <3>2, PushCall
    <3> QED BY <2>2, <3>1, <3>2
  <2> QED BY <2>3, <2>4 DEF Closing
<1>4. TypeOK'
  BY <1>1, <1>2, <1>3 DEF IInv, TypeOK, Call
<1>5. TableInv'
  BY <1>1, <1>2 DEF IInv, TableInv
<1>6. \A d \in Client \ spoilt' : d \in Client \ spoilt /\ d # c /\ status_'[d] = status_[d]
  BY <1>1, TypeFacts
<1>7. OnceInv'
  <2> SUFFICES ASSUME NEW d \in Client \ spoilt'
               PROVE  /\ attempts[d] = 0 =>
                           /\ ~told[d] /\ status_'[d] # "connecting" /\ fd_[d] = NoFd
                           /\ \A f \in Fd : events_'[f] # d /\ open[f] # d
                      /\ d \in closed_ => fd_[d] = NoFd
                      /\ \A f \in Fd :
                           /\ open[f] = d => fd_[d] = f
                           /\ events_'[f] = d /\ fd_[d] # NoFd => fd_[d] = f
    BY <1>1 DEF OnceInv
  <2>1. \A f \in Fd : events_'[f] = d => events_[f] = d
    BY <1>2, NamesDiffer
  <2> QED BY <1>6, <2>1 DEF IInv, OnceInv
<1>8. DialingInv'
  <2> SUFFICES ASSUME NEW d \in Client \ spoilt', status_'[d] = "connecting"
               PROVE  ~told[d] /\ fd_[d] # NoFd /\ d \notin closed_ /\ ~Closing(d)'
    BY <1>1 DEF DialingInv
  <2> QED BY <1>3, <1>6 DEF IInv, DialingInv
<1>9. BatchInv'
  BY <1>1 DEF BatchInv
<1> QED BY <1>4, <1>5, <1>7, <1>8, <1>9 DEF IInv

\* close_cb_ has returned: what the rest of onClose does.
LEMMA FinishCloseStep ==
  ASSUME IInv, NEW c \in Client, Closing(c), FinishClose(c),
         calls' \in Seq(Call), \A d \in Client : Closing(d)' => Closing(d),
         UNCHANGED <<status_, waiting, events_, batch, ghosts>>
  PROVE  IInv'
<1>1. /\ closed_' = closed_ \cup {c} /\ fd_' = [fd_ EXCEPT ![c] = NoFd]
      /\ UNCHANGED <<status_, waiting, events_, batch, attempts, told, lied, spoilt>>
  BY DEF FinishClose, ghosts
<1>2. /\ fd_' \in [Client -> Fd \cup {NoFd}] /\ fd_'[c] = NoFd
      /\ \A d \in Client \ {c} : fd_'[d] = fd_[d]
  BY <1>1, TypeFacts
<1>3. /\ open' \in [Fd -> Client \cup {None}]
      /\ watched' \in [Fd -> {{"gone"}} \cup SUBSET {"in", "out"}]
      /\ peer' \in [Fd -> {"none", "dialing", "refused", "up", "data", "eof", "broken"}]
      /\ \A f \in Fd : IF f = fd_[c]
                       THEN open'[f] = None /\ watched'[f] = {"gone"}
                       ELSE open'[f] = open[f] /\ watched'[f] = watched[f] /\ peer'[f] = peer[f]
  <2>1. CASE fd_[c] = NoFd
    BY <2>1, TypeFacts, NamesDiffer DEF FinishClose, kernel
  <2>2. CASE fd_[c] # NoFd
    <3>1. /\ open' = [open EXCEPT ![fd_[c]] = None]
          /\ watched' = [watched EXCEPT ![fd_[c]] = {"gone"}]
          /\ peer' = [peer EXCEPT ![fd_[c]] = "none"]
      BY <2>2 DEF FinishClose
    <3> QED BY <3>1, TypeFacts
  <2> QED BY <2>1, <2>2
<1>4. TypeOK'
  BY <1>1, <1>2, <1>3, TypeFacts DEF TypeOK, Call
<1>5. TableInv'
  <2>1. \A d \in Client : fd_'[d] # NoFd => open'[fd_'[d]] = d
    <3> SUFFICES ASSUME NEW d \in Client, fd_'[d] # NoFd
                 PROVE  open'[fd_'[d]] = d
      OBVIOUS
    <3>1. d # c /\ fd_'[d] = fd_[d] /\ fd_[d] \in Fd /\ open[fd_[d]] = d
      BY <1>2, TypeFacts DEF IInv, TableInv
    <3>2. fd_[c] # fd_[d]
      BY <3>1 DEF IInv, TableInv
    <3> QED BY <1>3, <3>1, <3>2
  <2>2. \A f \in Fd : watched'[f] # {"gone"} => open'[f] # None /\ events_[f] = open'[f]
    BY <1>3 DEF IInv, TableInv
  <2> QED BY <1>1, <2>1, <2>2 DEF TableInv
<1>6. \A f \in Fd : open'[f] = open[f] \/ open'[f] = None
  BY <1>3
<1>7. OnceInv'
  <2> SUFFICES ASSUME NEW d \in Client \ spoilt
               PROVE  /\ attempts[d] = 0 =>
                           /\ ~told[d] /\ status_[d] # "connecting" /\ fd_'[d] = NoFd
                           /\ \A f \in Fd : events_[f] # d /\ open'[f] # d
                      /\ d \in closed_' => fd_'[d] = NoFd
                      /\ \A f \in Fd :
                           /\ open'[f] = d => fd_'[d] = f
                           /\ events_[f] = d /\ fd_'[d] # NoFd => fd_'[d] = f
    BY <1>1 DEF OnceInv
  <2>1. \A f \in Fd : open'[f] = d => open[f] = d
    BY <1>6, NamesDiffer
  <2>2. CASE d # c
    BY <1>1, <1>2, <2>1, <2>2 DEF IInv, OnceInv
  <2>3. CASE d = c
    <3>1. \A f \in Fd : open'[f] # c
      BY <1>3, <2>1, <2>3, NamesDiffer DEF IInv, OnceInv
    <3> QED BY <1>2, <2>1, <2>3, <3>1 DEF IInv, OnceInv
  <2> QED BY <2>2, <2>3
<1>8. DialingInv'
  <2> SUFFICES ASSUME NEW d \in Client \ spoilt, status_[d] = "connecting"
               PROVE  ~told[d] /\ fd_'[d] # NoFd /\ d \notin closed_' /\ ~Closing(d)'
    BY <1>1 DEF DialingInv
  <2>1. d # c
    BY DEF IInv, DialingInv
  <2> QED BY <1>1, <1>2, <2>1 DEF IInv, DialingInv
<1>9. BatchInv'
  <2> SUFFICES ASSUME spoilt = {},
                      NEW f \in Fd, <<f, "in">> \in batch \/ <<f, "out">> \in batch
               PROVE  /\ lied = {} /\ events_[f] # None
                      /\ status_[events_[f]] = "connecting" /\ fd_'[events_[f]] = f =>
                           peer'[f] \in {"up", "data", "eof", "broken"}
    <3>1. spoilt = {} => lied = {}
      BY DEF IInv, BatchInv
    <3> QED BY <1>1, <3>1 DEF BatchInv
  <2>1. /\ lied = {} /\ events_[f] # None
        /\ status_[events_[f]] = "connecting" /\ fd_[events_[f]] = f =>
             peer[f] \in {"up", "data", "eof", "broken"}
    BY DEF IInv, BatchInv
  <2>2. events_[f] \in Client
    BY <2>1, TypeFacts
  <2>3. CASE events_[f] = c
    BY <1>2, <2>1, <2>3, NamesDiffer
  <2>4. CASE events_[f] # c
    <3>1. fd_[events_[f]] = f => fd_[c] # f
      BY <2>2, <2>4, NamesDiffer DEF IInv, TableInv
    <3> QED BY <1>2, <1>3, <2>1, <2>2, <2>4, <3>1
  <2> QED BY <2>3, <2>4
<1> QED BY <1>4, <1>5, <1>7, <1>8, <1>9 DEF IInv

LEMMA ReturnStep ==
  ASSUME IInv, Return
  PROVE  IInv'
<1>1. /\ calls # <<>> /\ calls' = Tail(calls)
      /\ UNCHANGED <<waiting, events_, batch, ghosts>>
  BY DEF Return
<1>2. /\ calls' \in Seq(Call) /\ Head(calls) \in Call
      /\ \E i \in DOMAIN calls : calls[i] = Head(calls)
      /\ \A v : (\E i \in DOMAIN calls' : calls'[i] = v)
                  => \E i \in DOMAIN calls : calls[i] = v
  BY <1>1, TypeFacts, ReturnCall
<1>3. PICK kind \in {"connected", "onClose", "onRead", "complete"}, c \in Client :
        Head(calls) = <<kind, c>>
  BY <1>2 DEF Call
<1>4. \A d \in Client : Closing(d)' => Closing(d)
  BY <1>2 DEF Closing
<1>5. kind = "onClose" => Closing(c)
  BY <1>2, <1>3 DEF Closing
<1>a. /\ IF kind = "onClose" THEN FinishClose(c) ELSE UNCHANGED <<closed_, fd_, kernel>>
      /\ status_' = IF kind = "onRead" /\ fd_[c] = NoFd
                    THEN [status_ EXCEPT ![c] = "disconnected"] ELSE status_
  <2>1. Head(calls)[1] = kind /\ Head(calls)[2] = c
    BY <1>3
  <2> QED BY <2>1 DEF Return
<1>6. CASE kind = "onClose"
  <2>1. status_' = status_ /\ FinishClose(c)
    BY <1>a, <1>6
  <2> QED BY <1>1, <1>2, <1>3, <1>4, <1>5, <1>6, <2>1, FinishCloseStep
<1>7. CASE kind # "onClose"
  <2>1. /\ UNCHANGED <<waiting, events_, batch, closed_, fd_, open, watched, peer>>
        /\ UNCHANGED <<attempts, told, lied, spoilt>>
    BY <1>1, <1>a, <1>7 DEF kernel, ghosts
  <2>2. /\ status_' \in [Client -> {"init", "connecting", "connected", "disconnected"}]
        /\ \A d \in Client \ {c} : status_'[d] = status_[d]
        /\ status_'[c] = status_[c] \/ status_'[c] = "disconnected"
    BY <1>a, <1>3, TypeFacts
  <2>3. TypeOK'
    BY <1>2, <2>1, <2>2, TypeFacts DEF TypeOK, Call
  <2>4. Handled(c)
    <3>1. /\ UNCHANGED <<fd_, closed_, events_, open, attempts, spoilt>>
          /\ told' = told /\ watched' = watched
      BY <2>1
    <3> QED BY <1>3, <1>4, <2>2, <3>1 DEF Handled
  <2>5. BatchInv'
    <3>1. peer' = peer /\ lied' = lied /\ batch' \subseteq batch
      BY <2>1
    <3> QED BY <1>3, <2>4, <3>1, BatchAfterHandler
  <2> QED BY <1>3, <2>3, <2>4, <2>5, HandledInv DEF IInv
<1> QED BY <1>6, <1>7

-----------------------------------------------------------------------------
(***************************************************************************)
(* Steps of the kernel and of the network.                                 *)
(***************************************************************************)
LEMMA PollStep ==
  ASSUME IInv, Poll
  PROVE  IInv'
<1>1. /\ batch' = Ready
      /\ UNCHANGED <<status_, fd_, closed_, waiting, events_, open, watched, peer, calls,
                     attempts, told, lied, spoilt>>
  BY DEF Poll, object, kernel, ghosts
<1>2. \A f, as : <<f, as>> \in Ready => f \in Fd /\ watched[f] # {"gone"} /\ as \in As(f)
  <2> SUFFICES ASSUME NEW f, NEW as, <<f, as>> \in Ready
               PROVE  f \in Fd /\ watched[f] # {"gone"} /\ as \in As(f)
    OBVIOUS
  <2>1. PICK g \in {h \in Fd : watched[h] # {"gone"}} : <<f, as>> \in {g} \X As(g)
    BY DEF Ready
  <2>2. f = g /\ as \in As(g)
    BY <2>1
  <2> QED BY <2>1, <2>2
<1>3. \A f \in Fd : As(f) \subseteq {"err", "in", "out"}
  BY DEF As
<1>4. Ready \subseteq Fd \X {"err", "in", "out"}
  BY <1>3 DEF Ready
<1>5. TypeOK'
  BY <1>1, <1>4, TypeFacts DEF TypeOK, Call
<1>6. TableInv' /\ OnceInv' /\ DialingInv'
  BY <1>1 DEF IInv, TableInv, OnceInv, DialingInv, Closing
<1>7. BatchInv'
  <2> SUFFICES ASSUME spoilt = {},
                      NEW f \in Fd, <<f, "in">> \in Ready \/ <<f, "out">> \in Ready
               PROVE  lied = {} /\ events_[f] # None /\ peer[f] \in {"up", "data", "eof", "broken"}
    <3>1. spoilt = {} => lied = {}
      BY DEF IInv, BatchInv
    <3> QED BY <1>1, <3>1 DEF BatchInv
  <2>1. lied = {}
    BY DEF IInv, BatchInv
  <2>2. events_[f] # None
    BY <1>2 DEF IInv, TableInv
  <2>3. "in" \in As(f) \/ "out" \in As(f)
    BY <1>2
  <2>4. peer[f] \in {"up", "data", "eof", "broken"}
    BY <2>3 DEF As
  <2> QED BY <2>1, <2>2, <2>4
<1> QED BY <1>5, <1>6, <1>7 DEF IInv

\* The network may change what becomes of a connection, and an attempt that has
\* succeeded stays one that has.
LEMMA NetworkStep ==
  ASSUME IInv, NEW f \in Fd, Answer(f) \/ ServerActs(f)
  PROVE  IInv'
<1>1. UNCHANGED <<status_, fd_, closed_, waiting, events_, open, watched, batch, calls,
                  attempts, told, lied, spoilt>>
  BY DEF Answer, ServerActs, object, ghosts
<1>2. PICK result \in {"up", "refused", "data", "eof", "broken"} :
        /\ peer' = [peer EXCEPT ![f] = result]
        /\ peer[f] = "dialing" \/ result \in {"data", "eof", "broken"}
  BY DEF Answer, ServerActs
<1>3. /\ peer' \in [Fd -> {"none", "dialing", "refused", "up", "data", "eof", "broken"}]
      /\ \A g \in Fd : peer[g] \in {"up", "data", "eof", "broken"}
                         => peer'[g] \in {"up", "data", "eof", "broken"}
  BY <1>2, TypeFacts
<1>4. TypeOK'
  BY <1>1, <1>3, TypeFacts DEF TypeOK, Call
<1>5. TableInv' /\ OnceInv' /\ DialingInv'
  BY <1>1 DEF IInv, TableInv, OnceInv, DialingInv, Closing
<1>6. BatchInv'
  BY <1>1, <1>3 DEF IInv, BatchInv
<1> QED BY <1>4, <1>5, <1>6 DEF IInv

-----------------------------------------------------------------------------
(***************************************************************************)
(* The theorems.                                                           *)
(***************************************************************************)
LEMMA NextIInv == IInv /\ [Next]_vars => IInv'
<1> SUFFICES ASSUME IInv, [Next]_vars PROVE IInv'
  OBVIOUS
<1>1. ASSUME NEW c \in Client, ConnectInLoop(c) PROVE IInv'
  BY <1>1, ConnectStep
<1>2. ASSUME NEW c \in Client, Send(c) PROVE IInv'
  BY <1>2, SendStep
<1>3. ASSUME NEW c \in Client, SendBuffer(c) PROVE IInv'
  BY <1>3, SendBufferStep
<1>4. ASSUME NEW c \in Client, ForceClose(c) PROVE IInv'
  BY <1>4, ForceCloseStep
<1>5. CASE LoopStep
  BY <1>5, PollStep, ReturnStep, DispatchStep DEF LoopStep
<1>6. ASSUME NEW f \in Fd, Answer(f) \/ ServerActs(f) PROVE IInv'
  BY <1>6, NetworkStep
<1>7. CASE UNCHANGED vars
  <2>1. UNCHANGED <<status_, fd_, closed_, waiting, events_, open, watched, peer, batch, calls,
                    attempts, told, lied, spoilt>>
    BY <1>7 DEF vars, object, kernel, ghosts
  <2>2. TypeOK'
    BY <2>1 DEF IInv, TypeOK
  <2>3. TableInv' /\ OnceInv' /\ DialingInv' /\ BatchInv'
    BY <2>1 DEF IInv, TableInv, OnceInv, DialingInv, BatchInv, Closing
  <2> QED BY <2>2, <2>3 DEF IInv
<1> QED BY <1>1, <1>2, <1>3, <1>4, <1>5, <1>6, <1>7 DEF Next

LEMMA Invariant == Spec => []IInv
BY InitIInv, NextIInv, PTL DEF Spec

\* The clients' fields, the table events_, what the kernel has and what is
\* running stay in their types.
THEOREM ClientTypeCorrect == Spec => []TypeOK
<1>1. IInv => TypeOK
  BY DEF IInv
<1> QED BY <1>1, Invariant, PTL

\* onRead and onWrite of a connecting client, and connectInLoop, call
\* connection_cb_ with true once at most for a client and when its connection is
\* established: an event that an earlier handler of the same batch or a close
\* made stale does not report an attempt that has not succeeded.  (Clients that
\* connect once and send no buffer; the code keeps it for no other.)
THEOREM ConnectedIsReportedTruly == Spec => []ConnectedIsTrue
<1>1. IInv => ConnectedIsTrue
  BY DEF IInv, BatchInv, ConnectedIsTrue
<1> QED BY <1>1, Invariant, PTL

\* A descriptor that a client opened in connectInLoop is the one in its fd_ until
\* onClose closes it, and as long as epoll watches it the loop finds that client
\* by it in events_, though the entries of closed clients stay in that table.
THEOREM ClientAndKernelAgree == Spec => []DescriptorsAgree
<1>1. IInv => DescriptorsAgree
  <2> SUFFICES ASSUME IInv, NEW f \in Fd, open[f] \notin spoilt \cup {None}
               PROVE  /\ fd_[open[f]] = f /\ open[f] \notin closed_
                      /\ watched[f] # {"gone"} => events_[f] = open[f]
    BY DEF DescriptorsAgree
  <2>1. open[f] \in Client \ spoilt
    BY TypeFacts
  <2>2. fd_[open[f]] = f
    BY <2>1 DEF IInv, OnceInv
  <2>3. open[f] \notin closed_
    BY <2>1, <2>2, NamesDiffer DEF IInv, OnceInv
  <2>4. watched[f] # {"gone"} => events_[f] = open[f]
    BY DEF IInv, TableInv
  <2> QED BY <2>2, <2>3, <2>4
<1> QED BY <1>1, Invariant, PTL

=============================================================================
