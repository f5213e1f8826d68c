------------------------- MODULE MCScreeningLedger -------------------------
(* Two processes, one source and the triage lists, three runs, two days of one month. *)
EXTENDS ScreeningLedger, TLC

CONSTANTS p1, p2, assess, triage, sourceLock, r1, r2, r3

MCLockOf == assess :> sourceLock @@ triage :> GlobalLock
MCReserveOf == assess :> 2 @@ triage :> 1

\* Processes are interchangeable, and so are run ids.
Symmetries == Permutations({p1, p2}) \cup Permutations({r1, r2, r3})
=============================================================================
