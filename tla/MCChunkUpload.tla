---------------------------- MODULE MCChunkUpload ----------------------------
(* Chunked uploads on small instances: two chunks are the fewest of which   *)
(* some can be missing, four requests the fewest that upload both and then   *)
(* complete the session twice, or complete it and cancel it.                 *)
EXTENDS ChunkUpload
=============================================================================
