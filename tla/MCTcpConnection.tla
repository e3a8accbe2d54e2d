-------------------------- MODULE MCTcpConnection --------------------------
(* Instances of TcpConnection for TLC.                                     *)
EXTENDS TcpConnection, TLC

CONSTANTS s1, s2, s3, s4

(* A buffer and a list sent by the loop's thread, in a handler or in a     *)
(* callback, and a buffer and a list posted by other threads.              *)
MCCall == {s1, s2, s3, s4}
MCSize == (s1 :> 2) @@ (s2 :> 1) @@ (s3 :> 2) @@ (s4 :> 1)
MCByList == {s2, s4}
MCByOther == {s3, s4}

=============================================================================
