-------------------------- MODULE PreviewSessions --------------------------
(***************************************************************************)
(* What the preview generator promises about its manifest.  Each run starts *)
(* from the manifest on disk, revises a draft of it and publishes the draft *)
(* whole, as often as it likes.  In order, runs take turns.  Out of order,  *)
(* when a lock has been taken from a run at work, several may write; then a *)
(* run that shares its time with another may publish what is out of date,   *)
(* one that has worked alone since it began still never does, and order     *)
(* returns at the latest when all of them have ended.                        *)
(***************************************************************************)
EXTENDS Integers

CONSTANTS Procs, Slugs, Entry, NoEntry, Nobody

VARIABLES
  catalogue,  \* the manifest readers see
  writers,    \* the runs that have read it and may publish
  alone,      \* the one that has been the only writer since it began, if there is one
  drafts,     \* the manifest in the memory of each
  orderly     \* no lock was taken from a run at work

sessionVars == <<catalogue, writers, alone, drafts, orderly>>

Blank == [s \in Slugs |-> NoEntry]
Younger(old, new) == new # NoEntry /\ (old # NoEntry => new.hash >= old.hash)

SessionInit ==
  /\ catalogue = Blank
  /\ writers = {} /\ alone = Nobody
  /\ drafts = [p \in Procs |-> Blank]
  /\ orderly = TRUE

Begin(p) ==
  /\ p \notin writers
  /\ orderly => writers = {}
  /\ writers' = writers \cup {p}
  /\ alone' = IF writers = {} THEN p ELSE Nobody
  /\ drafts' = [drafts EXCEPT ![p] = catalogue]
  /\ UNCHANGED catalogue

\* An entry is only ever replaced by one made from the same or a later state of its record.
Revise(p, s) ==
  /\ p \in writers
  /\ \E e \in Entry : Younger(drafts[p][s], e) /\ drafts' = [drafts EXCEPT ![p][s] = e]
  /\ UNCHANGED <<catalogue, writers, alone>>

Drop(p, S) ==
  /\ p \in writers
  /\ drafts' = [drafts EXCEPT ![p] = [s \in Slugs |-> IF s \in S THEN NoEntry ELSE drafts[p][s]]]
  /\ UNCHANGED <<catalogue, writers, alone>>

\* An entry that was dropped and made again is no older than the one readers saw.
Publish(p) ==
  /\ p \in writers
  /\ alone = p => \A s \in Slugs :
       catalogue[s] # NoEntry /\ drafts[p][s] # NoEntry => drafts[p][s].hash >= catalogue[s].hash
  /\ catalogue' = drafts[p]
  /\ UNCHANGED <<writers, alone, drafts>>

\* The draft of a writer that leaves, or dies, is forgotten.
End(p) ==
  /\ p \in writers
  /\ writers' = writers \ {p}
  /\ alone' = IF alone = p THEN Nobody ELSE alone
  /\ drafts' = [drafts EXCEPT ![p] = Blank]
  /\ UNCHANGED catalogue

\* A lock is taken from a run at work, or two go for the same lock.
Disturb == UNCHANGED <<catalogue, writers, alone, drafts>>

SessionNext ==
  /\ \/ \E p \in Procs : Begin(p) \/ Publish(p) \/ End(p)
     \/ \E p \in Procs, s \in Slugs : Revise(p, s)
     \/ \E p \in Procs, S \in SUBSET Slugs : Drop(p, S)
     \/ Disturb
  /\ orderly' => orderly \/ writers' = {}

SessionSpec == SessionInit /\ [][SessionNext]_sessionVars
=============================================================================
