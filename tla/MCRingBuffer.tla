---------------------------- MODULE MCRingBuffer ----------------------------
(***************************************************************************)
(* Rings of 2 or 4 bytes, as the configuration says: every wrap of in and  *)
(* pos, a reader overtaken by more than the ring, and clears are reached.  *)
(***************************************************************************)
EXTENDS RingBuffer

MCByte == {1, 2}
MCCounts == {1, 3, 5}
MCOffsets == {-1, 0, 2}
=============================================================================
