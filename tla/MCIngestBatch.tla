--------------------------- MODULE MCIngestBatch ---------------------------
(* A batch of two sources with a pool of two threads, and a batch of one source.     *)
(* One source returns nothing, a document twice, or three for two detail calls; the   *)
(* others return one document.                                                        *)
EXTENDS IngestBatch, TLC

CONSTANTS b1, b2, j1, j2, j3, x, y, z

MCJobsOf == b1 :> <<j1, j2>> @@ b2 :> <<j3>>
MCLists == j1 :> {<<>>, <<x, x>>, <<x, y, z>>} @@ j2 :> {<<x>>} @@ j3 :> {<<x>>}
=============================================================================
