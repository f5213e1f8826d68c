--------------------------- MODULE MCReviewQueue ---------------------------
(* An evidence conflict (read second) and a duplicate cluster (read third), two      *)
(* refreshers: the ingest and a maintenance command.                                 *)
EXTENDS ReviewQueue, TLC

CONSTANTS conflict, cluster, f1, f2, p1, p2

MCKindOf == [i \in Items |-> IF i = conflict THEN 2 ELSE 3]
=============================================================================
