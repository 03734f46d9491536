------------------------------ MODULE MCRagIndex ------------------------------
(* RagIndex with jobs that overlap. *)
EXTENDS RagIndex

CONSTANT r1

(* Its cap stops r1 within a batch; another run goes on after a full one. *)
MCChunkCap == [r \in Reindexers |-> IF r = r1 THEN 1 ELSE 3]
===============================================================================
