---------------------------- MODULE MCTcpServer ----------------------------
(* Instances of TcpServer for TLC.                                         *)
EXTENDS TcpServer

CONSTANTS c1, c2, c3, k1

MCConn == {c1, c2, c3}
MCTwo == {c1, c2}
MCClient == {k1}
MCFd == 1..3
MCNobody == {}

\* What follows a start of a server that runs is left to TcpServerStop; of the
\* client and the other threads one has a descriptor at a time.
MCBound ==
  /\ ~startedTwice
  /\ Cardinality({fd \in Fd : open[fd] \in Client \cup {TheOthers}}) <= 1

=============================================================================
