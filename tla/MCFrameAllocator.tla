--------------------------- MODULE MCFrameAllocator --------------------------
(* Six frames: runs of two and three can wrap around the end. *)
EXTENDS FrameContig

MCCounts == {2, 3}
=============================================================================
