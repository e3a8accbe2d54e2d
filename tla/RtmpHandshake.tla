--------------------------- MODULE RtmpHandshake ---------------------------
(***************************************************************************)
(* The RTMP handshake (mmedia/rtmp/RtmpHandshake.cpp) driven by the        *)
(* callbacks of a TcpConnection as in mmedia/tests/RtmpServer.cpp:         *)
(* handshake is called when bytes have arrived, writeComplete when the     *)
(* connection has written all it was given, inside send if the kernel took *)
(* the packet whole.  Both ends may run this code, or one of them is       *)
(* another implementation that follows the protocol.                       *)
(*                                                                         *)
(* A packet is who made it, its kind and what the other end finds in it; a *)
(* byte of it is the packet and a position, of which there are few: C0/S0  *)
(* at 0, and 1 to kPacketSize.                                             *)
(***************************************************************************)
EXTENDS Integers, Sequences

CONSTANTS
  Setups,      \* who runs what, of which one is chosen
  Form,        \* forms of C0C1 or S0S1 that the other implementation sends
  kPacketSize  \* kRtmpHandShakePacketSize

Endpoint == {"client", "server"}

\* ours: the ends that run this code; mayQueue: the kernel may take a packet in
\* part; talkative: the other implementation's client goes on after S2.
Setup == [ours : SUBSET Endpoint, mayQueue : BOOLEAN, talkative : BOOLEAN]

AllForms == {"simple", "first", "second", "badVersion", "badDigest"}

ASSUME HandshakeAssumption ==
  /\ Setups \subseteq Setup
  /\ Form \subseteq AllForms
  /\ kPacketSize \in Nat \ {0}

Peer(e) == IF e = "client" THEN "server" ELSE "client"

\* A C2 or S2 is keyed by somebody's digest, or by nobody's.
Packet == [from : Endpoint, type : {"C1S1"}, holds : AllForms]
            \cup [from : Endpoint, type : {"C2S2"}, holds : Endpoint \cup {"none"}]
            \cup [from : Endpoint, type : {"App"}, holds : {"none"}]

C1S1(e, form) == [from |-> e, type |-> "C1S1", holds |-> form]
C2S2(e, keyedBy) == [from |-> e, type |-> "C2S2", holds |-> keyedBy]
App(e) == [from |-> e, type |-> "App", holds |-> "none"]

Pieces(p) ==
  IF p.type = "C1S1" THEN [i \in 1..(kPacketSize + 1) |-> <<p, i - 1>>]
  ELSE IF p.type = "C2S2" THEN [i \in 1..kPacketSize |-> <<p, i>>]
  ELSE << <<p, 1>> >>

Piece == Packet \X (0..kPacketSize)

VARIABLES
  setup,
  state_,
  is_complex_handshake_,
  C2S2_,       \* the C2 or S2 that createC2S2 made
  ret,         \* what handshake last returned
  calls,       \* what is left to do when the running calls return, next first
  closed,      \* the connection was closed by forceClose
  buffer,      \* bytes that have arrived and were not retrieved
  pending,     \* io_vec_list_ of the connection
  net,         \* bytes on their way to an end
  sent,        \* ghost: the packets each end has sent
  retrieved    \* ghost: the bytes each end has taken from its buffer

rtmpVars == <<setup, state_, is_complex_handshake_, C2S2_, ret, calls, closed, buffer,
          pending, net, sent, retrieved>>

ClientStates == {"kHandShakeWaitS0S1", "kHandShakePostC2", "kHandShakeDoing"}
ServerStates == {"kHandShakeWaitC0C1", "kHandShakePostS0S1",
                 "kHandShakePostS2", "kHandShakeWaitC2"}

Nothing == C2S2("client", "none")

Ours == setup.ours

RtmpInit ==
  /\ setup \in Setups
  /\ state_ = [e \in Endpoint |-> "kHandShakeInit"]
  /\ is_complex_handshake_ = [e \in Endpoint |-> TRUE]
  /\ C2S2_ = [e \in Endpoint |-> Nothing]
  /\ ret = [e \in Endpoint |-> 1]
  /\ calls = [e \in Endpoint |-> <<>>]
  /\ closed = [e \in Endpoint |-> FALSE]
  /\ buffer = [e \in Endpoint |-> <<>>]
  /\ pending = [e \in Endpoint |-> <<>>]
  /\ net = [e \in Endpoint |-> <<>>]
  /\ sent = [e \in Endpoint |-> <<>>]
  /\ retrieved = [e \in Endpoint |-> <<>>]

-----------------------------------------------------------------------------
AtLoop(e) == e \in Ours /\ calls[e] = <<>> /\ ~closed[e]

ToState(e, s) == state_' = [state_ EXCEPT ![e] = s]
ThenCall(e, next) == calls' = [calls EXCEPT ![e] = next]

\* conn->send(p), with next to be done after it: what the kernel takes at once
\* is on its way, and write_complete_cb_ is called when that is all of p.
SendPacket(e, p, next) ==
  /\ sent' = [sent EXCEPT ![e] = Append(@, p)]
  /\ \/ /\ pending[e] # <<>>
        /\ pending' = [pending EXCEPT ![e] = @ \o Pieces(p)]
        /\ ThenCall(e, next)
        /\ UNCHANGED net
     \/ /\ pending[e] = <<>>
        /\ net' = [net EXCEPT ![Peer(e)] = @ \o Pieces(p)]
        /\ ThenCall(e, <<"writeComplete">> \o next)
        /\ UNCHANGED pending
     \/ /\ setup.mayQueue
        /\ pending[e] = <<>>
        /\ \E k \in 1..(Len(Pieces(p)) - 1) :
             /\ net' = [net EXCEPT ![Peer(e)] = @ \o SubSeq(Pieces(p), 1, k)]
             /\ pending' = [pending EXCEPT ![e] =
                              SubSeq(Pieces(p), k + 1, Len(Pieces(p)))]
        /\ ThenCall(e, next)

\* createC1S1 always makes a packet with its digest in the first place.
OwnC1S1(e) == C1S1(e, "first")

\* start, when the connection is active.
Start(e) ==
  /\ AtLoop(e)
  /\ state_[e] = "kHandShakeInit"
  /\ IF e = "client"
       THEN /\ ToState(e, "kHandShakeWaitS0S1")
            /\ SendPacket(e, OwnC1S1(e), <<>>)
       ELSE /\ ToState(e, "kHandShakeWaitC0C1")
            /\ UNCHANGED <<sent, pending, net, calls>>
  /\ UNCHANGED <<is_complex_handshake_, C2S2_, ret, closed, buffer, retrieved>>

-----------------------------------------------------------------------------
\* checkC1S1: the version, a simple handshake, or the other role's digest in
\* one of the two places.
IsSimple(bytes) == bytes[1][1].holds = "simple"

CheckC1S1(e, bytes) ==
  /\ bytes = Pieces(bytes[1][1])
  /\ bytes[1][1].type = "C1S1"
  /\ bytes[1][1].from # e
  /\ \/ IsSimple(bytes)
     \/ is_complex_handshake_[e] /\ bytes[1][1].holds \in {"first", "second"}

\* createC2S2 keys the digest by digest_, the end's own.
CreatedC2S2(e, complex) == C2S2(e, IF complex THEN e ELSE "none")

\* The application closes the connection when the handshake failed.  2 is what
\* only a client's returns, of which the repository has no application.
Returned(e, value) ==
  /\ ret' = [ret EXCEPT ![e] = value]
  /\ closed' = [closed EXCEPT ![e] = @ \/ value = -1]

\* The running call of handshake, or of writeComplete, goes on to next.
Calling(e, call) == calls[e] # <<>> /\ Head(calls[e]) = call
Rest(e) == Tail(calls[e])

Has(e, n) == Len(buffer[e]) >= n

\* buf.retrieve(n)
TakeBytes(e, n) ==
  /\ buffer' = [buffer EXCEPT ![e] = SubSeq(@, n + 1, Len(@))]
  /\ retrieved' = [retrieved EXCEPT ![e] = @ \o SubSeq(buffer[e], 1, n)]

FirstC1S1(e) == SubSeq(buffer[e], 1, kPacketSize + 1)

\* A C0C1 or S0S1 that checks: createC2S2 and retrieve.
TakeC1S1(e) ==
  LET complex == is_complex_handshake_[e] /\ ~IsSimple(FirstC1S1(e))
  IN /\ CheckC1S1(e, FirstC1S1(e))
     /\ is_complex_handshake_' = [is_complex_handshake_ EXCEPT ![e] = complex]
     /\ C2S2_' = [C2S2_ EXCEPT ![e] = CreatedC2S2(e, complex)]
     /\ TakeBytes(e, kPacketSize + 1)

HandshakeC0C1(e) ==
  /\ state_[e] = "kHandShakeWaitC0C1"
  /\ Has(e, kPacketSize + 1)
  /\ TakeC1S1(e)
  /\ ToState(e, "kHandShakePostS0S1")
  /\ SendPacket(e, OwnC1S1(e), <<"return0">>)
  /\ UNCHANGED <<ret, closed>>

\* C2 goes out; if S2 is not here yet, C1 goes out again.
HandshakeS0S1(e) ==
  /\ state_[e] = "kHandShakeWaitS0S1"
  /\ Has(e, kPacketSize + 1)
  /\ TakeC1S1(e)
  /\ IF Has(e, kPacketSize + 1 + kPacketSize)
       THEN /\ ToState(e, "kHandShakeDoing")
            /\ SendPacket(e, C2S2_'[e], <<"return2">>)
       ELSE /\ ToState(e, "kHandShakePostC2")
            /\ SendPacket(e, C2S2_'[e], <<"postS0S1", "return0">>)
  /\ UNCHANGED <<ret, closed>>

\* Mutant: C2 is taken to be as long as C0C1.
HandshakeC2TakesMore(e) ==
  /\ state_[e] = "kHandShakeWaitC2"
  /\ Has(e, kPacketSize + 1)
  /\ ToState(e, "kHandShakeDone")
  /\ TakeBytes(e, kPacketSize + 1)
  /\ Returned(e, 0)
  /\ ThenCall(e, Rest(e))
  /\ UNCHANGED <<is_complex_handshake_, C2S2_, pending, net, sent>>

\* checkC2S2 accepts anything.
HandshakeC2(e) ==
  /\ state_[e] = "kHandShakeWaitC2"
  /\ Has(e, kPacketSize)
  /\ ToState(e, "kHandShakeDone")
  /\ TakeBytes(e, kPacketSize)
  /\ Returned(e, 0)
  /\ ThenCall(e, Rest(e))
  /\ UNCHANGED <<is_complex_handshake_, C2S2_, pending, net, sent>>

\* What handshake returns when it leaves the buffer alone: too few bytes, a
\* packet that does not check, or a state in which it takes nothing.
ReturnsAtOnce(e, value) ==
  CASE state_[e] \in {"kHandShakeWaitC0C1", "kHandShakeWaitS0S1"} ->
         IF Has(e, kPacketSize + 1)
           THEN ~CheckC1S1(e, FirstC1S1(e)) /\ value = -1
           ELSE value = 1
    [] state_[e] = "kHandShakeWaitC2" -> ~Has(e, kPacketSize) /\ value = 1
    [] OTHER -> value = 0

HandshakeNothing(e) ==
  /\ \E value \in {-1, 0, 1} : ReturnsAtOnce(e, value) /\ Returned(e, value)
  /\ ThenCall(e, Rest(e))
  /\ UNCHANGED <<state_, is_complex_handshake_, C2S2_, buffer, pending, net,
                 sent, retrieved>>

Handshake(e) ==
  /\ Calling(e, "handshake")
  /\ \/ HandshakeC0C1(e)
     \/ HandshakeS0S1(e)
     \/ HandshakeC2(e)
     \/ HandshakeNothing(e)

\* The rest of the client's handshake, after it has sent C2.
PostS0S1(e) ==
  /\ Calling(e, "postS0S1")
  /\ ToState(e, "kHandShakePostS0S1")
  /\ SendPacket(e, OwnC1S1(e), Rest(e))
  /\ UNCHANGED <<is_complex_handshake_, C2S2_, ret, closed, buffer, retrieved>>

Return(e) ==
  /\ \E value \in {0, 2} :
       /\ Calling(e, IF value = 0 THEN "return0" ELSE "return2")
       /\ Returned(e, value)
  /\ ThenCall(e, Rest(e))
  /\ UNCHANGED <<state_, is_complex_handshake_, C2S2_, buffer, pending, net,
                 sent, retrieved>>

-----------------------------------------------------------------------------
\* Mutant: after S2 the server is not told to wait for C2.
AfterWriteForgetS2(s) ==
  CASE s \in {"kHandShakePostC2", "kHandShakeDoing"} -> "kHandShakeDone"
    [] OTHER -> s

\* writeComplete after S0S1 sends S2; otherwise it moves on, or does nothing.
AfterWrite(s) ==
  CASE s = "kHandShakePostS2" -> "kHandShakeWaitC2"
    [] s \in {"kHandShakePostC2", "kHandShakeDoing"} -> "kHandShakeDone"
    [] OTHER -> s

\* Mutant: the state does not follow S2.
WriteCompleteSameState(e) ==
  /\ Calling(e, "writeComplete")
  /\ IF state_[e] = "kHandShakePostS0S1" /\ Len(sent[e]) < 4
       THEN /\ SendPacket(e, C2S2_[e], Rest(e))
            /\ UNCHANGED state_
       ELSE /\ ToState(e, AfterWrite(state_[e]))
            /\ ThenCall(e, Rest(e))
            /\ UNCHANGED <<pending, net, sent>>
  /\ UNCHANGED <<is_complex_handshake_, C2S2_, ret, closed, buffer, retrieved>>

WriteComplete(e) ==
  /\ Calling(e, "writeComplete")
  /\ IF state_[e] = "kHandShakePostS0S1"
       THEN /\ ToState(e, "kHandShakePostS2")
            /\ SendPacket(e, C2S2_[e], Rest(e))
       ELSE /\ ToState(e, AfterWrite(state_[e]))
            /\ ThenCall(e, Rest(e))
            /\ UNCHANGED <<pending, net, sent>>
  /\ UNCHANGED <<is_complex_handshake_, C2S2_, ret, closed, buffer, retrieved>>

-----------------------------------------------------------------------------
\* The loop of e: bytes arrive, in pieces of any size; or, when none do, what
\* waits is written.
OnRead(e) ==
  /\ AtLoop(e)
  /\ state_[e] # "kHandShakeInit"
  /\ \E n \in 1..Len(net[e]) :
       /\ buffer' = [buffer EXCEPT ![e] = @ \o SubSeq(net[e], 1, n)]
       /\ net' = [net EXCEPT ![e] = SubSeq(@, n + 1, Len(@))]
  /\ ThenCall(e, <<"handshake">>)
  /\ UNCHANGED <<state_, is_complex_handshake_, C2S2_, ret, closed, pending,
                 sent, retrieved>>

OnWrite(e) ==
  /\ AtLoop(e)
  /\ net[e] = <<>>
  /\ pending[e] # <<>>
  /\ net' = [net EXCEPT ![Peer(e)] = @ \o pending[e]]
  /\ pending' = [pending EXCEPT ![e] = <<>>]
  /\ ThenCall(e, <<"writeComplete">>)
  /\ UNCHANGED <<state_, is_complex_handshake_, C2S2_, ret, closed, buffer,
                 sent, retrieved>>

-----------------------------------------------------------------------------
\* The other implementation reads what arrives and sends its packets as the
\* protocol asks: C0C1, C2 after S0S1, and what follows after S2; S0S1 and S2
\* after C0C1.
OtherReads(e) ==
  /\ e \notin Ours
  /\ net[e] # <<>>
  /\ buffer' = [buffer EXCEPT ![e] = @ \o net[e]]
  /\ net' = [net EXCEPT ![e] = <<>>]
  /\ UNCHANGED <<state_, is_complex_handshake_, C2S2_, ret, calls, closed,
                 pending, sent, retrieved>>

OtherPacket(e) ==
  CASE sent[e] = <<>> /\ (e = "server" => Has(e, kPacketSize + 1)) ->
         {C1S1(e, form) : form \in Form}
    [] Len(sent[e]) = 1 /\ Has(e, kPacketSize + 1) ->
         {C2S2(e, IF sent[e][1].holds = "simple" THEN "none" ELSE Peer(e))}
    [] Len(sent[e]) = 2 /\ Has(e, kPacketSize + 1 + kPacketSize) ->
         {p \in {App(e)} : setup.talkative /\ e = "client"}
    [] OTHER -> {}

OtherSends(e) ==
  /\ e \notin Ours
  /\ \E p \in OtherPacket(e) :
       /\ sent' = [sent EXCEPT ![e] = Append(@, p)]
       /\ net' = [net EXCEPT ![Peer(e)] = @ \o Pieces(p)]
  /\ UNCHANGED <<state_, is_complex_handshake_, C2S2_, ret, calls, closed,
                 buffer, pending, retrieved>>

Step(e) ==
  \/ Start(e)
  \/ Handshake(e)
  \/ PostS0S1(e)
  \/ Return(e)
  \/ WriteComplete(e)
  \/ OnRead(e)
  \/ OnWrite(e)
  \/ OtherReads(e)
  \/ OtherSends(e)

RtmpNext == UNCHANGED setup /\ \E e \in Endpoint : Step(e)

RtmpSpec == RtmpInit /\ [][RtmpNext]_rtmpVars

\* Both loops run on, and the other implementation does its part.
RtmpFairSpec == RtmpSpec /\ \A e \in Endpoint : WF_rtmpVars(UNCHANGED setup /\ Step(e))

-----------------------------------------------------------------------------
RtmpTypeOK ==
  /\ setup \in Setups
  /\ state_ \in [Endpoint -> {"kHandShakeInit", "kHandShakeDone"}
                                \cup ClientStates \cup ServerStates]
  /\ is_complex_handshake_ \in [Endpoint -> BOOLEAN]
  /\ C2S2_ \in [Endpoint -> Packet]
  /\ ret \in [Endpoint -> -1..2]
  /\ calls \in [Endpoint -> Seq({"handshake", "writeComplete", "postS0S1",
                                 "return0", "return2"})]
  /\ closed \in [Endpoint -> BOOLEAN]
  /\ buffer \in [Endpoint -> Seq(Piece)]
  /\ pending \in [Endpoint -> Seq(Piece)]
  /\ net \in [Endpoint -> Seq(Piece)]
  /\ sent \in [Endpoint -> Seq(Packet)]
  /\ retrieved \in [Endpoint -> Seq(Piece)]

Types(packets) == [i \in 1..Len(packets) |-> packets[i].type]

\* The server sends S0S1 and S2 once each, in that order, and S2 not before
\* S0S1 has been written, whichever callbacks run inside send (handshake,
\* writeComplete).
ServerSendsInOrder ==
  "server" \in Ours =>
    /\ Types(sent["server"]) \in {<<>>, <<"C1S1">>, <<"C1S1", "C2S2">>}
    /\ Len(sent["server"]) = 2 =>
         \A i \in 1..Len(pending["server"]) :
           pending["server"][i][1].type = "C2S2"

\* A server that is done has taken the client's C0C1 and C2, byte for byte and
\* no more, and has S0S1 and S2 on the wire.
ServerDoneMeansExchanged ==
  "server" \in Ours /\ state_["server"] = "kHandShakeDone" =>
    /\ retrieved["server"] = Pieces(sent["client"][1]) \o Pieces(sent["client"][2])
    /\ sent["client"][1].holds \in {"simple", "first", "second"}
    /\ Types(sent["server"]) = <<"C1S1", "C2S2">>
    /\ pending["server"] = <<>>

\* A client that is done has S0S1 from the server that checks, and its answer,
\* C2, is on the wire.
ClientDoneMeansAnswered ==
  "client" \in Ours /\ state_["client"] = "kHandShakeDone" =>
    /\ SubSeq(retrieved["client"], 1, kPacketSize + 1) = Pieces(sent["server"][1])
    /\ sent["server"][1].holds \in {"simple", "first", "second"}
    /\ SubSeq(Types(sent["client"]), 1, 2) = <<"C1S1", "C2S2">>
    /\ pending["client"] = <<>>

\* Done means, at either end, that the other's packets have come and checked, and
\* that one's own are on the wire (handshake, writeComplete).
DoneMeansExchanged == ServerDoneMeansExchanged /\ ClientDoneMeansAnswered

\* The server's handshake ends, well or in a close, if the client follows the
\* protocol (writeComplete after S2: "wait for C2").
ServerFinishes == <>[](state_["server"] = "kHandShakeDone" \/ closed["server"])

\* It does with a client that sends more after its C2.
ServerFinishesIfTalkative == setup.talkative => ServerFinishes

\* When both ends run this code and the kernel takes packets whole, the client's
\* handshake ends too.
ClientFinishes ==
  Ours = Endpoint /\ ~setup.mayQueue
    => <>[](state_["client"] = "kHandShakeDone" \/ closed["client"])

\* The handshakes end, as far as this code sees to it: see README for the clients
\* and the kernels with which they do not.
HandshakeEnds == ServerFinishesIfTalkative /\ ClientFinishes

\* A client only enters the states listed for clients (RtmpHandshake.h:21).
ClientStaysClient ==
  state_["client"] \in {"kHandShakeInit", "kHandShakeDone"} \cup ClientStates

\* When handshake returns 0 the handshake is done (RtmpServer.cpp:32).
ZeroMeansDone == \A e \in Ours : ret[e] = 0 => state_[e] = "kHandShakeDone"

\* C2 and S2 are keyed by the digest of the other end's packet.
KeyedByPeer ==
  \A e \in Ours : \A i \in 1..Len(sent[e]) :
    sent[e][i].type = "C2S2" => sent[e][i].holds \in {"none", Peer(e)}

=============================================================================
