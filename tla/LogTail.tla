------------------------------- MODULE LogTail -------------------------------
(***************************************************************************)
(* What a ring buffer device promises: a log that remembers the last Size  *)
(* bytes written to it, in order, until it is cleared.                     *)
(***************************************************************************)
EXTENDS Integers, Sequences

CONSTANTS Size, Byte, Counts

VARIABLE tail

\* The last Size elements of s, or all of them when there are fewer.
LastOf(s) == IF Len(s) <= Size THEN s ELSE SubSeq(s, Len(s) - Size + 1, Len(s))

Init == tail = <<>>

\* A write of more than Size bytes is cut short to its first Size bytes.
Write(data, count) ==
  tail' = LastOf(tail \o SubSeq(data, 1, IF count <= Size THEN count ELSE Size))

Clear == tail' = <<>>

Next ==
  \/ \E count \in Counts : \E data \in [1 .. count -> Byte] : Write(data, count)
  \/ Clear

Spec == Init /\ [][Next]_tail
=============================================================================
