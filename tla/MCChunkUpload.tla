---------------------------- MODULE MCChunkUpload ----------------------------
(* ChunkUpload with the constants of its configurations. *)
EXTENDS ChunkUpload
=============================================================================
