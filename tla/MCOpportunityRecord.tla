------------------------ MODULE MCOpportunityRecord ------------------------
(* One opportunity under every writer: three extractions of its notice that        *)
(* differ in facts, official link, evidence, deadline and address.                 *)
EXTENDS OpportunityRecord

CONSTANTS f1, f2, u1, u2, u3, a1, a2, c1

MCDocuments ==
  {[facts |-> f1, url |-> u1, level |-> 1, status |-> "discovered", deadline |-> 1,
    addr |-> a1, located |-> FALSE],
   [facts |-> f2, url |-> u2, level |-> 0, status |-> "archived", deadline |-> 2,
    addr |-> a2, located |-> FALSE],
   [facts |-> f2, url |-> u3, level |-> 1, status |-> "discovered", deadline |-> None,
    addr |-> None, located |-> FALSE]}
=============================================================================
