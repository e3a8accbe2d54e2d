--------------------------- MODULE OrderedChannel ---------------------------
(***************************************************************************)
(* What a sending socket promises the application: what it accepted goes   *)
(* out in the order it was accepted, nothing twice and nothing left out in *)
(* between, never once the socket cannot send any more, and completion is  *)
(* confirmed when all of it is out.  The socket may break the promise from *)
(* some step on, which it then says (broken).  TcpConnection and UdpSocket *)
(* are shown to implement this module.                                     *)
(***************************************************************************)
EXTENDS Naturals, Sequences

VARIABLES
  accepted,    \* what the application has sent
  delivered,   \* what the kernel has taken
  confirmed,   \* how much of accepted was reported as complete
  broken,
  able         \* the socket can send

vars == <<accepted, delivered, confirmed, broken, able>>

\* s is how t begins.
Begins(s, t) == Len(s) <= Len(t) /\ s = SubSeq(t, 1, Len(s))

Init ==
  /\ accepted = <<>>
  /\ delivered = <<>>
  /\ confirmed = 0
  /\ ~broken

\* Both sequences only grow, and what is delivered is how accepted begins.
Grow ==
  /\ Begins(accepted, accepted')
  /\ Begins(delivered, delivered')
  /\ ~broken' => Begins(delivered', accepted')

\* Nothing goes out of a socket that cannot send.
DeliverWhileAble == delivered' # delivered => able

\* A completion is reported for everything accepted, and when all of it is out.
Confirm ==
  confirmed' # confirmed =>
    confirmed' = Len(accepted') /\ (~broken' => delivered' = accepted')

Next == Grow /\ DeliverWhileAble /\ Confirm /\ (broken => broken')

Spec == Init /\ [][Next]_vars

=============================================================================
