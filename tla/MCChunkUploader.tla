--------------------------- MODULE MCChunkUploader ---------------------------
(* The chunk uploader on a small instance. *)
EXTENDS ChunkUploader
==============================================================================
