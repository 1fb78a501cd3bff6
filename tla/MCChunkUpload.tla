---------------------------- MODULE MCChunkUpload ----------------------------
(* Small instances of ChunkUpload. *)
EXTENDS ChunkUpload, TLC

CONSTANTS r1, r2, r3, r4

RequestSymmetry == Permutations(Requests)
=============================================================================
