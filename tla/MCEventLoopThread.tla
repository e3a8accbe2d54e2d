------------------------- MODULE MCEventLoopThread -------------------------
(* Two threads, and a descriptor for another part of the program. *)
EXTENDS EventLoopThread

MCFd == 0 .. 3

=============================================================================
