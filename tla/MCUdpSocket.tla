---------------------------- MODULE MCUdpSocket ----------------------------
(* Instances of UdpSocket for TLC.                                         *)
EXTENDS UdpSocket

CONSTANTS d1, d2, d3, d4, e1

(* Two single buffers, a list of two, and an empty datagram.               *)
MCDatagram == {d1, d2, d3, d4}
MCDatagramE == {d1, d3, d4, e1}
MCEmpty == {e1}
MCLists == { <<d3, d4>> }
MCNone == {}

=============================================================================
