--------------------------- MODULE MCChunkIngest ---------------------------
(* Model-checking instance of ChunkIngest. *)
EXTENDS ChunkIngest
=============================================================================
