---------------------------- MODULE MCMsgBuffer ----------------------------
(* Instances of MsgBuffer for TLC.                                         *)
EXTENDS MsgBuffer

(* Chunks that tell an order, of every length up to three.                 *)
MCChunk == {<<0>>, <<1>>, <<0, 1>>, <<1, 0, 0>>}
MCRequirement == [size \in IntSize |-> size]

(* The integers of the code, eight and four bytes long, with the           *)
(* requirement that each of them documents.                                *)
MCZeros == {<<0>>}
MCDocumented == [size \in IntSize |-> 4]

=============================================================================
