---------------------------- MODULE MCEventLoop ----------------------------
(* Instances of EventLoop for TLC.                                         *)
EXTENDS EventLoop, TLC

CONSTANTS l1, l2, p1, p2, t1, t2, t3, t4, t5

MCLoop == {l1, l2}
MCPoster == {p1, p2}

(* p1 posts t1, whose body runs t3 on the spot and posts t4 to l2; p2      *)
(* posts t2; a handler of l2 posts t5 back to l1.  No running task posts   *)
(* from l2 to l1, so the mutexes are taken in one order.                   *)
MCTask == {t1, t2, t3, t4, t5}
MCOrigin == (t1 :> p1) @@ (t2 :> p2) @@ (t3 :> t1) @@ (t4 :> t1) @@ (t5 :> l2)
MCTarget == (t1 :> l1) @@ (t2 :> l1) @@ (t3 :> l1) @@ (t4 :> l2) @@ (t5 :> l1)

(* Tasks that post across, each from its loop to the other one.            *)
MCCrossTask == {t1, t2, t3, t4}
MCCrossOrigin == (t1 :> p1) @@ (t2 :> p2) @@ (t3 :> t1) @@ (t4 :> t2)
MCCrossTarget == (t1 :> l1) @@ (t2 :> l2) @@ (t3 :> l2) @@ (t4 :> l1)

(* One loop and two busy posters.                                          *)
MCOneLoop == {l1}
MCBusyTask == {t1, t2, t3, t4}
MCBusyOrigin == (t1 :> p1) @@ (t2 :> p1) @@ (t3 :> p2) @@ (t4 :> p2)
MCBusyTarget == [c \in MCBusyTask |-> l1]

=============================================================================
