---------------------------- MODULE PreviewStore ----------------------------
(***************************************************************************)
(* The preview generator (packages/previews): runs of prewarm.mjs, started  *)
(* by hand for every visible record or, where ARCH_PREVIEW_PREWARM is set,  *)
(* by the worker for the records it has just ingested, share one directory. *)
(* A run holds the lock file while it reads the manifest, generates what is *)
(* not current, checkpoints the manifest and prunes.  A run may die anywhere *)
(* and leave its lock behind; a lock of two hours is broken by whoever finds *)
(* it, also when its owner is still at work.  The cleanup of expired records *)
(* deletes image files without the lock.                                     *)
(***************************************************************************)
EXTENDS Integers, FiniteSets

CONSTANTS
  Procs,            \* generator processes
  ByHand,           \* those an operator starts, for every visible record; the worker starts the others
  Slugs,            \* record ids
  Kinds,            \* outcomes of generatePreview
  ImageKinds,       \* those with an image: official-image, satellite
  CheckpointEvery,  \* MANIFEST_CHECKPOINT_EVERY
  MaxFaults,        \* bound: crashes, failed records, cleanups and disturbances of the lock
  MaxEdits,         \* bound: changes of the database
  MaxPartial,       \* bound: runs for given ids
  NotListed, NoEntry, NoLock, Nobody

\* computeSourceHash, named by the edit that produced it: every change of a previewed field
\* gives a record a hash of its own.
Hashes == 0 .. MaxEdits
Row == [hash : Hashes, shown : BOOLEAN]
File == Slugs \X Hashes
Entry == [hash : Hashes, kind : Kinds]
Manifest == [Slugs -> Entry \cup {NoEntry}]
Lock == [owner : Procs, stale : BOOLEAN]
Empty == [s \in Slugs |-> NoEntry]

ASSUME StoreAssumption ==
  /\ MaxFaults \in Nat /\ MaxEdits \in Nat /\ MaxPartial \in Nat
  /\ CheckpointEvery \in Nat \ {0}
  /\ ImageKinds \subseteq Kinds /\ ByHand \subseteq Procs
  /\ NotListed \notin Hashes /\ NoEntry \notin Entry /\ NoLock \notin Lock
  /\ Nobody \notin Procs

VARIABLES
  rows,       \* the records, and whether the list shows them
  lock,       \* the lock file
  manifest,   \* manifest.json
  images,     \* images/
  run,        \* per process: what it is doing
  disorder,   \* history: how the lock was lost by a run at work, until all have ended
  alone,      \* history: the run that has been the only one at work since it read its list
  peace,      \* history: since a run last read its list no record failed, no image was deleted
  faults, edits, partial

storeVars == <<rows, lock, manifest, images, run, disorder, alone, peace, faults, edits, partial>>
counters == <<faults, edits, partial>>
disk == <<manifest, images>>
history == <<disorder, alone, peace>>

\* only: the ids of --only, every visible record when empty; hash, kind: the record in progress.
Run == [pc : {"idle", "open", "exists", "breaking", "locked", "loop", "rendered", "swept", "ending"},
        attempt : 1 .. 2, only : SUBSET Slugs, memory : Manifest,
        listed : [Slugs -> Hashes \cup {NotListed}], todo : SUBSET Slugs,
        slug : Slugs \cup {Nobody}, kind : Kinds \cup {Nobody}, since : 0 .. CheckpointEvery]

Resting == [pc |-> "idle", attempt |-> 1, only |-> {}, memory |-> Empty,
            listed |-> [s \in Slugs |-> NotListed], todo |-> {}, slug |-> Nobody,
            kind |-> Nobody, since |-> 0]

\* At work: it has read the manifest.  Working: it has, or is about to.
AtWork(p) == run[p].pc \in {"loop", "rendered", "swept", "ending"}
Working(p) == AtWork(p) \/ run[p].pc = "locked"
Breaking(p) == run[p].pc = "breaking"
Calm == \A p \in Procs : ~Working(p) /\ ~Breaking(p)

\* Something goes wrong, what being one of "broken twice" and "outlived".
Fault == faults < MaxFaults /\ faults' = faults + 1
Disturbed(what) == Fault /\ disorder' = disorder \cup {what}
Settled == disorder' = IF Calm' THEN {} ELSE disorder

\* Between two records; a checkpoint that is due comes first.
Between(p) == run[p].pc = "loop" /\ run[p].since < CheckpointEvery

-----------------------------------------------------------------------------
(* acquireLock: create the file exclusively; when it is there, look at its age; when it is
   dead, remove it and create it once more. *)

FileOf(s, e) == IF e # NoEntry /\ e.kind \in ImageKinds THEN {<<s, e.hash>>} ELSE {}
Referenced(m) == UNION {FileOf(s, m[s]) : s \in Slugs}

StartRun(p, only) ==
  /\ run[p].pc = "idle"
  /\ (only = {}) = (p \in ByHand)
  /\ only # {} => partial < MaxPartial
  /\ partial' = IF only = {} THEN partial ELSE partial + 1
  /\ run' = [run EXCEPT ![p] = [Resting EXCEPT !.pc = "open", !.only = only]]
  /\ UNCHANGED <<rows, lock, disk, history, faults, edits>>

CreateLock(p) ==
  /\ run[p].pc = "open"
  /\ IF lock = NoLock
     THEN /\ lock' = [owner |-> p, stale |-> FALSE]
          /\ run' = [run EXCEPT ![p].pc = "locked"]
     ELSE /\ UNCHANGED lock
          /\ run' = [run EXCEPT ![p].pc = "exists"]
  /\ UNCHANGED <<rows, disk, history, counters>>

\* Slip: any lock in the way is taken for dead.
DeadWhenPresent(l) == l # NoLock

\* A lock that has just gone away counts as fresh.
Dead(l) == l # NoLock /\ l.stale

StatLock(p) ==
  /\ run[p].pc = "exists"
  /\ IF Dead(lock)
     THEN /\ run' = [run EXCEPT ![p].pc = "breaking"]
          /\ IF \E q \in Procs : Breaking(q) THEN Disturbed("broken twice") ELSE UNCHANGED <<disorder, faults>>
     ELSE run' = [run EXCEPT ![p] = Resting] /\ UNCHANGED <<disorder, faults>>
  /\ UNCHANGED <<rows, lock, disk, alone, peace, edits, partial>>

\* rm of whatever is at the path by now; the second removal ends in LockHeldError.
BreakLock(p) ==
  /\ run[p].pc = "breaking"
  /\ lock' = NoLock
  /\ run' = [run EXCEPT ![p] =
       IF @.attempt = 1 THEN [@ EXCEPT !.pc = "open", !.attempt = 2] ELSE Resting]
  /\ Settled
  /\ UNCHANGED <<rows, disk, alone, peace, counters>>

-----------------------------------------------------------------------------
(* runPrewarm *)

\* readManifest, readOpportunities: the list is a snapshot; ids given by hand bypass visibility.
ReadList(p) ==
  /\ run[p].pc = "locked"
  /\ LET wanted == IF run[p].only = {} THEN {s \in Slugs : rows[s].shown} ELSE run[p].only
     IN  run' = [run EXCEPT ![p] =
           [@ EXCEPT !.pc = "loop", !.memory = manifest, !.todo = wanted,
                     !.listed = [s \in Slugs |-> IF s \in wanted THEN rows[s].hash ELSE NotListed]]]
  /\ alone' = IF \A q \in Procs : ~AtWork(q) THEN p ELSE Nobody
  /\ peace' = TRUE
  /\ UNCHANGED <<rows, lock, disk, disorder, counters>>

\* Slip: nobody looks whether the image is still there.
IsCurrentOnPaper(s, e, hash, due) ==
  /\ e # NoEntry /\ e.hash = hash
  /\ e.kind \notin ImageKinds => ~due

\* An entry without an image is current for retryNoneDays only: due is whether they are over.
IsCurrent(s, e, hash, due) ==
  /\ e # NoEntry /\ e.hash = hash
  /\ FileOf(s, e) \subseteq images
  /\ e.kind \notin ImageKinds => ~due

Skip(p, s, due) ==
  /\ Between(p) /\ s \in run[p].todo
  /\ IsCurrent(s, run[p].memory[s], run[p].listed[s], due)
  /\ run' = [run EXCEPT ![p].todo = @ \ {s}]
  /\ UNCHANGED <<rows, lock, disk, history, counters>>

\* generatePreview and writeFileAtomic of the image.
Render(p, s, kind, due) ==
  /\ Between(p) /\ s \in run[p].todo
  /\ ~IsCurrent(s, run[p].memory[s], run[p].listed[s], due)
  /\ images' = IF kind \in ImageKinds THEN images \cup {<<s, run[p].listed[s]>>} ELSE images
  /\ run' = [run EXCEPT ![p] = [@ EXCEPT !.pc = "rendered", !.slug = s, !.kind = kind]]
  /\ UNCHANGED <<rows, lock, manifest, history, counters>>

Counted(r) == [r EXCEPT !.pc = "loop", !.since = @ + 1, !.slug = Nobody, !.kind = Nobody]

\* Slip: the image of the previous entry is left behind.
SupersededKept(s, old, new) == {}

Superseded(s, old, new) == FileOf(s, old) \ FileOf(s, new)

\* The new entry goes to memory; the superseded image is removed.
Record(p) ==
  LET s == run[p].slug
      e == [hash |-> run[p].listed[s], kind |-> run[p].kind]
  IN
  /\ run[p].pc = "rendered"
  /\ run' = [run EXCEPT ![p] = [Counted(@) EXCEPT !.memory[s] = e, !.todo = run[p].todo \ {s}]]
  /\ images' = images \ Superseded(s, run[p].memory[s], e)
  /\ UNCHANGED <<rows, lock, manifest, history, counters>>

\* record-failed: the previous entry stays.
FailRecord(p, s) ==
  /\ Between(p) /\ s \in run[p].todo
  /\ Fault
  /\ run' = [run EXCEPT ![p] = [Counted(@) EXCEPT !.todo = run[p].todo \ {s}]]
  /\ peace' = FALSE
  /\ UNCHANGED <<rows, lock, disk, disorder, alone, edits, partial>>

Checkpoint(p) ==
  /\ run[p].pc = "loop" /\ run[p].since >= CheckpointEvery
  /\ manifest' = run[p].memory
  /\ run' = [run EXCEPT ![p].since = 0]
  /\ UNCHANGED <<rows, lock, images, history, counters>>

\* A full pass drops what the list no longer shows, then every image nothing refers to.
Prune(p) ==
  /\ Between(p) /\ run[p].todo = {}
  /\ IF run[p].only = {}
     THEN LET kept == [s \in Slugs |-> IF run[p].listed[s] = NotListed THEN NoEntry ELSE run[p].memory[s]]
          IN  /\ run' = [run EXCEPT ![p] = [@ EXCEPT !.pc = "swept", !.memory = kept]]
              /\ images' = images \cap Referenced(kept)
     ELSE /\ run' = [run EXCEPT ![p].pc = "swept"]
          /\ UNCHANGED images
  /\ UNCHANGED <<rows, lock, manifest, history, counters>>

WriteManifest(p) ==
  /\ run[p].pc = "swept"
  /\ manifest' = run[p].memory
  /\ run' = [run EXCEPT ![p].pc = "ending"]
  /\ UNCHANGED <<rows, lock, images, history, counters>>

Gone(p) ==
  /\ run' = [run EXCEPT ![p] = Resting]
  /\ alone' = IF alone = p THEN Nobody ELSE alone
  /\ Settled

\* The finally of runPrewarm removes the lock file, whoever created it.
Release(p) ==
  /\ run[p].pc = "ending"
  /\ lock' = NoLock
  /\ Gone(p)
  /\ UNCHANGED <<rows, disk, peace, counters>>

\* The worker kills a run that exceeds its time, or the machine stops: nothing is cleaned up.
Crash(p) ==
  /\ run[p].pc # "idle"
  /\ Fault
  /\ Gone(p)
  /\ UNCHANGED <<rows, lock, disk, peace, edits, partial>>

-----------------------------------------------------------------------------
(* Around the generator *)

\* STALE_LOCK_MS passes; nothing ends a long run or renews its lock.
LockAges ==
  /\ lock # NoLock /\ ~lock.stale
  /\ lock' = [lock EXCEPT !.stale = TRUE]
  /\ IF Working(lock.owner) THEN Disturbed("outlived") ELSE UNCHANGED <<disorder, faults>>
  /\ UNCHANGED <<rows, disk, run, alone, peace, edits, partial>>

\* An ingest or an operator changes a record, or takes it out of the list or back.
Edit(s, changed, shown) ==
  /\ edits < MaxEdits /\ edits' = edits + 1
  /\ changed \/ shown # rows[s].shown
  /\ rows' = [rows EXCEPT ![s] = [hash |-> IF changed THEN edits + 1 ELSE @.hash, shown |-> shown]]
  /\ UNCHANGED <<lock, disk, run, history, faults, partial>>

\* _delete_expired_preview_files: every listed id, its row deleted or kept by a watchlist.
Cleanup(s) ==
  /\ Fault
  /\ images' = {f \in images : f[1] # s}
  /\ peace' = FALSE
  /\ UNCHANGED <<rows, lock, manifest, run, disorder, alone, edits, partial>>

-----------------------------------------------------------------------------

StoreInit ==
  /\ rows \in [Slugs -> {[hash |-> 0, shown |-> TRUE]}]
  /\ lock = NoLock /\ manifest = Empty /\ images = {}
  /\ run = [p \in Procs |-> Resting]
  /\ disorder = {} /\ alone = Nobody /\ peace = TRUE
  /\ faults = 0 /\ edits = 0 /\ partial = 0

Step(p) ==
  \/ StartRun(p, {})
  \/ CreateLock(p) \/ StatLock(p) \/ BreakLock(p)
  \/ ReadList(p) \/ Checkpoint(p) \/ Record(p) \/ Prune(p) \/ WriteManifest(p)
  \/ \E s \in Slugs, due \in BOOLEAN : Skip(p, s, due)
  \/ \E s \in Slugs, k \in Kinds : Render(p, s, k, FALSE)
  \/ Release(p)

StoreNext ==
  \/ \E p \in Procs : Step(p) \/ Crash(p)
  \/ \E p \in Procs, only \in SUBSET Slugs \ {{}} : StartRun(p, only)
  \/ \E p \in Procs, s \in Slugs : FailRecord(p, s)
  \/ \E p \in Procs, s \in Slugs, k \in Kinds : Render(p, s, k, TRUE)
  \/ \E s \in Slugs, changed, shown \in BOOLEAN : Edit(s, changed, shown)
  \/ \E s \in Slugs : Cleanup(s)
  \/ LockAges

StoreSpec == StoreInit /\ [][StoreNext]_storeVars

-----------------------------------------------------------------------------

StoreTypeOK ==
  /\ rows \in [Slugs -> Row]
  /\ lock \in Lock \cup {NoLock}
  /\ manifest \in Manifest /\ images \subseteq File
  /\ run \in [Procs -> Run]
  /\ disorder \subseteq {"broken twice", "outlived"} /\ alone \in Procs \cup {Nobody} /\ peace \in BOOLEAN
  /\ faults \in 0 .. MaxFaults /\ edits \in 0 .. MaxEdits /\ partial \in 0 .. MaxPartial

\* At most one run works in the directory, whoever dies or breaks a dead lock.
OneWriter == \A p, q \in Procs : Working(p) /\ Working(q) => p = q

\* acquireLock is a "single-writer lock", apart from one "older than two hours": unless a run
\* outlives its lock, there is one writer.
SingleWriter == "outlived" \notin disorder => OneWriter

\* As long as nothing went wrong, the directory between runs holds exactly the images the manifest
\* refers to: none missing, none left over.
QuietDirectory ==
  faults = 0 /\ (\A p \in Procs : ~Working(p)) => images = Referenced(manifest)

\* Whatever was killed, deleted, changed or written by several runs before: when a full run that
\* worked alone ends, and no record failed and no image was deleted meanwhile, the manifest has the
\* entry of the state it read of every listed record, and the directory exactly the images named.
FullRunHeals ==
  \A p \in Procs : run[p].pc = "ending" /\ run[p].only = {} /\ alone = p /\ peace =>
    /\ \A s \in Slugs : run[p].listed[s] # NotListed =>
         manifest[s] # NoEntry /\ manifest[s].hash = run[p].listed[s]
    /\ images = Referenced(manifest)

\* The runs write the manifest as PreviewSessions describes: they take turns unless a lock was lost
\* by a run at work, they start from what is on disk, and no run that works alone replaces an entry
\* on disk by one of an earlier state of its record.
Writers == {p \in Procs : AtWork(p)}
Drafts == [p \in Procs |-> IF AtWork(p) THEN run[p].memory ELSE Empty]
Sessions == INSTANCE PreviewSessions WITH
  catalogue <- manifest, writers <- Writers, drafts <- Drafts, orderly <- disorder = {}
TakeTurns == Sessions!SessionSpec
=============================================================================
