----------------------------- MODULE ByteQueue -----------------------------
(***************************************************************************)
(* What a byte buffer promises the code on both of its sides: the bytes    *)
(* come out in the order they went in, none lost, none twice, whatever     *)
(* memory holds them.                                                      *)
(***************************************************************************)
EXTENDS Integers, Sequences

CONSTANT Chunk   \* the byte strings that may be written at once

VARIABLE content \* the bytes written and not yet read

Init == content = <<>>

\* Bytes arrive at the back.
Put(s) == content' = content \o s

\* The reader takes the first n bytes.
Take(n) == content' = SubSeq(content, n + 1, Len(content))

\* The writer takes its last n bytes back.
Withdraw(n) == content' = SubSeq(content, 1, Len(content) - n)

\* A header goes in front of the bytes.
PutInFront(s) == content' = s \o content

Next ==
  \/ \E s \in Chunk : Put(s) \/ PutInFront(s)
  \/ \E n \in 0..Len(content) : Take(n) \/ Withdraw(n)

Spec == Init /\ [][Next]_content

=============================================================================
