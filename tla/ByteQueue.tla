------------------------------ MODULE ByteQueue ------------------------------
(***************************************************************************)
(* What a Buffer promises: a queue of bytes.  Bytes go in at the end, or   *)
(* in front of the content, and come out at the front, in order, unchanged *)
(* and each of them once.  Where they lie in memory is left to Buffer.     *)
(***************************************************************************)
EXTENDS Naturals, Sequences

CONSTANT Data           \* the byte strings that may be put in

VARIABLE content        \* the readable bytes

Init == content = <<>>

Put(s) == content' = content \o s

PutInFront(s) == content' = s \o content

(* More bytes than there are may be asked for: that takes all of them.     *)
Take(n) ==
  content' = IF n < Len(content) THEN SubSeq(content, n + 1, Len(content)) ELSE <<>>

Next ==
  \/ \E s \in Data : Put(s) \/ PutInFront(s)
  \/ \E n \in 0 .. Len(content) : Take(n)

Spec == Init /\ [][Next]_content

=============================================================================
