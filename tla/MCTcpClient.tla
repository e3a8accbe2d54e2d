---------------------------- MODULE MCTcpClient ----------------------------
(* Two clients and two descriptors. *)
EXTENDS TcpClient

CONSTANTS k1, k2

MCClients == {k1, k2}
MCFd == 1 .. 2

=============================================================================
