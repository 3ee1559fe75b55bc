--------------------------- MODULE MCBufferCache ---------------------------
(* Instances of BufferCache for TLC. *)
EXTENDS BufferCache

\* Blocks 1 and 3 share a bucket when NBUCKETS = 2.
ThreeBlocks == {1} \X (1..3)
=============================================================================
