-------------------------- MODULE MCRecordIdentity --------------------------
(* A listing source with two namesakes behind one search URL; a one-notice-per-  *)
(* URL source with two notices of the same title.  Every number comes and goes.  *)
(* One notice of each source is stored by the old id scheme, n4 under a title    *)
(* that has been corrected since.                                                *)
EXTENDS RecordIdentity, TLC

CONSTANTS n1, n2, n3, n4, listing, pages, t1, t2, d1, d2, search, page3, page4

MCSourceOf == (n1 :> listing) @@ (n2 :> listing) @@ (n3 :> pages) @@ (n4 :> pages)
MCUrlOf == (n1 :> search) @@ (n2 :> search) @@ (n3 :> page3) @@ (n4 :> page4)
MCEditions == (n1 :> {<<t1, d1>>, <<t2, d1>>}) @@ (n2 :> {<<t1, d2>>, <<t2, d2>>})
                @@ (n3 :> {<<t1, d1>>, <<t2, d2>>})
                @@ (n4 :> {<<t1, d2>>})
MCLegacyEdition == [n \in Notices |-> IF n = n1 THEN <<t1, d1>>
                                     ELSE IF n = n4 THEN <<t2, d1>> ELSE None]
MCLegacyNumber == [n \in Notices |-> IF n = n1 THEN n ELSE None]

\* n2 is published with the title and deadline under which n1 was stored.
MCAmbiguousEditions == [MCEditions EXCEPT ![n2] = {<<t1, d1>>}]
=============================================================================
