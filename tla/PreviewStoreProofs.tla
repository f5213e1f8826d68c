------------------------ MODULE PreviewStoreProofs ------------------------
(* What the runs of the preview generator keep to, in order and out of it, for any *)
(* processes, records, kinds and bounds.                                            *)
EXTENDS PreviewStore, TLAPS

\* Work goes on listed records only, and the one in progress is one of them.
Sound(r) ==
  /\ r \in Run
  /\ \A s \in r.todo : r.listed[s] # NotListed
  /\ r.pc = "rendered" => r.slug \in r.todo /\ r.kind \in Kinds /\ r.since < CheckpointEvery

AllSound == \A p \in Procs : Sound(run[p])
Shape == StoreTypeOK /\ AllSound

\* A worker has the lock, and it is fresh; one process at most is about to remove a dead one.
LockHeld ==
  /\ \A p \in Procs : Working(p) => lock # NoLock /\ lock.owner = p /\ ~lock.stale
  /\ \A p \in Procs : Breaking(p) => lock # NoLock /\ lock.stale
  /\ \A p, q \in Procs : Breaking(p) /\ Breaking(q) => p = q

\* In order, that is.
LockInv == disorder = {} => LockHeld

\* What goes wrong is counted.
Counting == faults = 0 => disorder = {}

\* The one that has been alone still is.
AloneInv == \A p \in Procs : alone = p => AtWork(p) /\ \A q \in Procs \ {p} : ~AtWork(q)

-----------------------------------------------------------------------------
(* The steps in groups *)

LockStep(p) ==
  (\E only \in SUBSET Slugs : StartRun(p, only)) \/ CreateLock(p) \/ StatLock(p) \/ BreakLock(p)
LoopStep(p) ==
  \/ \E s \in Slugs, due \in BOOLEAN : Skip(p, s, due)
  \/ \E s \in Slugs : FailRecord(p, s)
  \/ Checkpoint(p)
RenderStep(p) == \E s \in Slugs, kind \in Kinds, due \in BOOLEAN : Render(p, s, kind, due)
RestStep(p) == Release(p) \/ Crash(p)
EditStep == \E s \in Slugs, changed, shown \in BOOLEAN : Edit(s, changed, shown)
CleanupStep == \E s \in Slugs : Cleanup(s)

\* Every step is of one of these groups.
LEMMA StepGroups ==
  ASSUME StoreNext
  PROVE  \/ \E p \in Procs : LockStep(p) \/ ReadList(p) \/ LoopStep(p) \/ RenderStep(p) \/ Record(p)
                             \/ Prune(p) \/ WriteManifest(p) \/ RestStep(p)
         \/ EditStep \/ CleanupStep \/ LockAges
<1>1. ASSUME NEW p \in Procs, Step(p)
      PROVE  LockStep(p) \/ ReadList(p) \/ LoopStep(p) \/ RenderStep(p) \/ Record(p)
             \/ Prune(p) \/ WriteManifest(p) \/ RestStep(p)
  <2>1. {} \in SUBSET Slugs /\ FALSE \in BOOLEAN
    OBVIOUS
  <2> QED
    BY <1>1, <2>1 DEF Step, LockStep, LoopStep, RenderStep, RestStep
<1> QED
  BY <1>1 DEF StoreNext, LockStep, LoopStep, RenderStep, RestStep, EditStep, CleanupStep

\* What StatLock decides.
LEMMA StatChoices ==
  ASSUME NEW p \in Procs, StatLock(p)
  PROVE  /\ run' = [run EXCEPT ![p].pc = "breaking"] \/ run' = [run EXCEPT ![p] = Resting]
         /\ faults' = faults \/ Fault
         /\ disorder' = disorder \/ (Fault /\ disorder' = disorder \cup {"broken twice"})
         /\ UNCHANGED <<rows, lock, manifest, images, alone, peace, edits, partial>>
BY DEF StatLock, Disturbed, disk

\* What the age of the lock does.
LEMMA AgeChoices ==
  ASSUME LockAges
  PROVE  /\ lock # NoLock /\ lock' = [lock EXCEPT !.stale = TRUE]
         /\ faults' = faults \/ Fault
         /\ disorder' = disorder \/ (Fault /\ disorder' = disorder \cup {"outlived"})
         /\ UNCHANGED <<rows, manifest, images, run, alone, peace, edits, partial>>
BY DEF LockAges, Disturbed, disk

\* Every step leaves the count of faults alone or is one.
LEMMA StepsCount == ASSUME [StoreNext]_storeVars PROVE faults' = faults \/ Fault
<1>1. ASSUME NEW p \in Procs, LockStep(p) PROVE faults' = faults \/ Fault
  BY <1>1, StatChoices DEF LockStep, StartRun, CreateLock, BreakLock, counters
<1>2. ASSUME NEW p \in Procs, RestStep(p) PROVE faults' = faults \/ Fault
  BY <1>2 DEF RestStep, Release, Crash, counters
<1>3. ASSUME NEW p \in Procs, ReadList(p) \/ LoopStep(p) PROVE faults' = faults \/ Fault
  BY <1>3 DEF ReadList, LoopStep, Skip, FailRecord, Checkpoint, counters
<1>4. ASSUME NEW p \in Procs, RenderStep(p) \/ Record(p) \/ Prune(p) \/ WriteManifest(p)
      PROVE  faults' = faults
  BY <1>4 DEF RenderStep, Render, Record, Prune, WriteManifest, counters
<1>5. CASE EditStep \/ CleanupStep \/ UNCHANGED storeVars
  BY <1>5 DEF EditStep, Edit, CleanupStep, Cleanup, storeVars
<1>6. CASE LockAges
  BY <1>6, AgeChoices
<1> QED
  BY <1>1, <1>2, <1>3, <1>4, <1>5, <1>6, StepGroups

-----------------------------------------------------------------------------
(* The record each action leaves behind *)

\* A process that rests.
LEMMA RestingSound == Sound(Resting)
<1>1. Empty \in Manifest /\ [s \in Slugs |-> NotListed] \in [Slugs -> Hashes \cup {NotListed}]
  BY DEF Empty, Manifest
<1>2. 0 \in 0 .. CheckpointEvery
  BY StoreAssumption
<1>3. Resting \in Run
  BY <1>1, <1>2 DEF Resting, Run
<1> QED
  BY <1>3 DEF Sound, Resting

\* What one process does leaves the others as they are.
LEMMA OneMoves ==
  ASSUME Shape, NEW p \in Procs, NEW r, Sound(r), run' = [run EXCEPT ![p] = r]
  PROVE  /\ run' \in [Procs -> Run] /\ AllSound'
         /\ run'[p] = r /\ \A q \in Procs \ {p} : run'[q] = run[q]
<1>1. run \in [Procs -> Run] /\ r \in Run
  BY DEF Shape, StoreTypeOK, Sound
<1>2. run' \in [Procs -> Run] /\ run'[p] = r /\ \A q \in Procs \ {p} : run'[q] = run[q]
  BY <1>1
<1>3. \A q \in Procs : Sound(run'[q])
  BY <1>2 DEF Shape, AllSound
<1> QED
  BY <1>2, <1>3 DEF AllSound, Sound

\* Fields of a run record.
LEMMA Fields ==
  ASSUME NEW r \in Run
  PROVE  /\ r.pc \in {"idle", "open", "exists", "breaking", "locked", "loop", "rendered", "swept", "ending"}
         /\ r.attempt \in 1 .. 2 /\ r.only \in SUBSET Slugs /\ r.memory \in Manifest
         /\ r.listed \in [Slugs -> Hashes \cup {NotListed}] /\ r.todo \in SUBSET Slugs
         /\ r.slug \in Slugs \cup {Nobody} /\ r.kind \in Kinds \cup {Nobody}
         /\ r.since \in 0 .. CheckpointEvery
BY DEF Run

\* Changing the place alone.
LEMMA PcSound ==
  ASSUME NEW r, Sound(r), NEW pc \in {"open", "exists", "breaking", "locked", "loop", "swept", "ending"}
  PROVE  Sound([r EXCEPT !.pc = pc])
<1> DEFINE f == [r EXCEPT !.pc = pc]
<1>1. r \in Run
  BY DEF Sound
<1>2. f \in Run /\ f.pc = pc /\ f.todo = r.todo /\ f.listed = r.listed
  BY <1>1 DEF Run
<1> HIDE DEF f
<1>3. Sound(f)
  BY <1>2 DEF Sound
<1> QED
  BY <1>3 DEF f

\* Done with a record: counted, and taken off the list.
LEMMA CountedSound ==
  ASSUME NEW r, Sound(r), r.since < CheckpointEvery, NEW s \in Slugs, NEW memory \in Manifest
  PROVE  /\ Sound([Counted(r) EXCEPT !.memory = memory, !.todo = r.todo \ {s}])
         /\ Sound([Counted(r) EXCEPT !.todo = r.todo \ {s}])
<1>1. r \in Run
  BY DEF Sound
<1>2. r.since + 1 \in 0 .. CheckpointEvery
  BY <1>1, StoreAssumption, Fields
<1> DEFINE c == Counted(r)
           f == [c EXCEPT !.memory = memory, !.todo = r.todo \ {s}]
           g == [c EXCEPT !.todo = r.todo \ {s}]
<1>3. c \in Run /\ c.pc = "loop" /\ c.listed = r.listed
  BY <1>1, <1>2 DEF Counted, Run
<1> HIDE DEF c
<1>4. r.todo \ {s} \in SUBSET Slugs
  BY <1>1, Fields
<1>5. f \in Run /\ f.pc = "loop" /\ f.listed = r.listed /\ f.todo = r.todo \ {s}
  BY <1>3, <1>4 DEF Run
<1>6. g \in Run /\ g.pc = "loop" /\ g.listed = r.listed /\ g.todo = r.todo \ {s}
  BY <1>3, <1>4 DEF Run
<1> HIDE DEF f, g
<1>7. Sound(f) /\ Sound(g)
  BY <1>5, <1>6 DEF Sound
<1> QED
  BY <1>7 DEF f, g, c

\* StartRun, CreateLock, StatLock and BreakLock: the record, and where it came from.
LEMMA LockStepSound ==
  ASSUME Shape, NEW p \in Procs, LockStep(p)
  PROVE  \E r : /\ Sound(r) /\ run' = [run EXCEPT ![p] = r] /\ ~Working(p)
                /\ r.pc \in {"idle", "open", "exists", "breaking", "locked"}
<1>0. Sound(run[p]) /\ run[p] \in Run /\ run \in [Procs -> Run]
  BY DEF Shape, AllSound, Sound, StoreTypeOK
<1>1. CASE \E only \in SUBSET Slugs : StartRun(p, only)
  <2>1. PICK only \in SUBSET Slugs : StartRun(p, only)
    BY <1>1
  <2> DEFINE r == [Resting EXCEPT !.pc = "open", !.only = only]
  <2>2. Resting \in Run
    BY RestingSound DEF Sound
  <2>3. r \in Run /\ r.pc = "open" /\ r.todo = {}
    BY <2>2 DEF Run, Resting
  <2>4. run' = [run EXCEPT ![p] = r] /\ ~Working(p)
    BY <2>1 DEF StartRun, Working, AtWork
  <2> HIDE DEF r
  <2> QED
    BY <2>3, <2>4 DEF Sound
<1>2. CASE CreateLock(p)
  <2>1. PICK pc \in {"locked", "exists"} : run' = [run EXCEPT ![p].pc = pc]
    BY <1>2 DEF CreateLock
  <2> DEFINE r == [run[p] EXCEPT !.pc = pc]
  <2>2. Sound(r) /\ r.pc = pc
    BY <1>0, PcSound DEF Run
  <2>3. run' = [run EXCEPT ![p] = r] /\ ~Working(p)
    BY <1>2, <2>1 DEF CreateLock, Working, AtWork
  <2> HIDE DEF r
  <2> QED
    BY <2>2, <2>3
<1>3. CASE StatLock(p)
  <2>1. ~Working(p)
    BY <1>3 DEF StatLock, Working, AtWork
  <2>2. CASE Dead(lock)
    <3> DEFINE r == [run[p] EXCEPT !.pc = "breaking"]
    <3>1. Sound(r) /\ r.pc = "breaking"
      BY <1>0, PcSound DEF Run
    <3>2. run' = [run EXCEPT ![p] = r]
      BY <1>3, <2>2 DEF StatLock
    <3> HIDE DEF r
    <3> QED
      BY <2>1, <3>1, <3>2
  <2>3. CASE ~Dead(lock)
    <3>1. run' = [run EXCEPT ![p] = Resting] /\ Resting.pc = "idle"
      BY <1>3, <2>3 DEF StatLock, Resting
    <3> QED
      BY <2>1, <3>1, RestingSound
  <2> QED
    BY <2>2, <2>3
<1>4. CASE BreakLock(p)
  <2>1. ~Working(p)
    BY <1>4 DEF BreakLock, Working, AtWork
  <2>2. CASE run[p].attempt = 1
    <3> DEFINE r == [run[p] EXCEPT !.pc = "open", !.attempt = 2]
    <3>1. r \in Run /\ r.pc = "open" /\ r.todo = run[p].todo /\ r.listed = run[p].listed
      <4>1. 2 \in 1 .. 2
        OBVIOUS
      <4> QED
        BY <1>0, <4>1 DEF Run
    <3>2. run' = [run EXCEPT ![p] = r]
      BY <1>4, <2>2 DEF BreakLock
    <3> HIDE DEF r
    <3>3. Sound(r)
      BY <1>0, <3>1 DEF Sound
    <3> QED
      BY <2>1, <3>1, <3>2, <3>3
  <2>3. CASE run[p].attempt # 1
    <3>1. run' = [run EXCEPT ![p] = Resting] /\ Resting.pc = "idle"
      BY <1>4, <2>3 DEF BreakLock, Resting
    <3> QED
      BY <2>1, <3>1, RestingSound
  <2> QED
    BY <2>2, <2>3
<1> QED
  BY <1>1, <1>2, <1>3, <1>4 DEF LockStep

\* p alone moves, from one sound record to another.
Moves(p) ==
  /\ run' \in [Procs -> Run] /\ AllSound'
  /\ \A q \in Procs \ {p} : run'[q] = run[q]

\* The same, with the list and the memory it has.
MovesOn(p, pc) ==
  /\ Moves(p) /\ run'[p].pc = pc
  /\ run'[p].memory = run[p].memory /\ run'[p].listed = run[p].listed

\* readManifest and readOpportunities.
LEMMA ReadListMoves ==
  ASSUME Shape, NEW p \in Procs, ReadList(p)
  PROVE  /\ Moves(p) /\ run'[p].pc = "loop" /\ run'[p].memory = manifest
         /\ \A s \in Slugs : run'[p].listed[s] # NotListed => s \in run'[p].todo
         /\ \A s \in Slugs : run'[p].listed[s] # NotListed => run'[p].listed[s] = rows[s].hash
<1>0. Sound(run[p]) /\ run[p] \in Run /\ manifest \in Manifest /\ rows \in [Slugs -> Row]
  BY DEF Shape, AllSound, Sound, StoreTypeOK
<1> DEFINE wanted == IF run[p].only = {} THEN {s \in Slugs : rows[s].shown} ELSE run[p].only
           listed == [s \in Slugs |-> IF s \in wanted THEN rows[s].hash ELSE NotListed]
           r == [run[p] EXCEPT !.pc = "loop", !.memory = manifest, !.todo = wanted, !.listed = listed]
<1>1. run' = [run EXCEPT ![p] = r]
  BY DEF ReadList
<1>2. wanted \in SUBSET Slugs
  BY <1>0, Fields
<1>3. listed \in [Slugs -> Hashes \cup {NotListed}]
  BY <1>0 DEF Row
<1>4. \A s \in Slugs : listed[s] # NotListed => listed[s] = rows[s].hash /\ s \in wanted
  OBVIOUS
<1>5. \A s \in wanted : listed[s] # NotListed
  BY <1>0, <1>2, StoreAssumption DEF Row
<1> HIDE DEF wanted, listed
<1>6. r \in Run /\ r.pc = "loop" /\ r.memory = manifest /\ r.todo = wanted /\ r.listed = listed
  BY <1>0, <1>2, <1>3 DEF Run
<1> HIDE DEF r
<1>7. Sound(r)
  BY <1>5, <1>6 DEF Sound
<1> QED
  BY <1>1, <1>4, <1>6, <1>7, OneMoves DEF Moves

\* Skip, FailRecord and Checkpoint: the loop goes on.
LEMMA LoopMoves ==
  ASSUME Shape, NEW p \in Procs, LoopStep(p)
  PROVE  MovesOn(p, "loop") /\ run[p].pc = "loop"
<1>0. Sound(run[p]) /\ run[p] \in Run
  BY DEF Shape, AllSound, Sound, StoreTypeOK
<1>1. CASE \E s \in Slugs, due \in BOOLEAN : Skip(p, s, due)
  <2>1. PICK s \in Slugs, due \in BOOLEAN : Skip(p, s, due)
    BY <1>1
  <2> DEFINE r == [run[p] EXCEPT !.todo = run[p].todo \ {s}]
  <2>2. run' = [run EXCEPT ![p] = r] /\ run[p].pc = "loop"
    BY <2>1 DEF Skip, Between
  <2>3. run[p].todo \ {s} \in SUBSET Slugs
    BY <1>0, Fields
  <2>4. r \in Run /\ r.pc = run[p].pc /\ r.memory = run[p].memory /\ r.listed = run[p].listed
        /\ r.todo = run[p].todo \ {s}
    BY <1>0, <2>3 DEF Run
  <2> HIDE DEF r
  <2>5. Sound(r)
    BY <1>0, <2>2, <2>4 DEF Sound
  <2> QED
    BY <2>2, <2>4, <2>5, OneMoves DEF MovesOn, Moves
<1>2. CASE \E s \in Slugs : FailRecord(p, s)
  <2>1. PICK s \in Slugs : FailRecord(p, s)
    BY <1>2
  <2> DEFINE r == [Counted(run[p]) EXCEPT !.todo = run[p].todo \ {s}]
  <2>2. run' = [run EXCEPT ![p] = r] /\ run[p].pc = "loop" /\ run[p].since < CheckpointEvery
    BY <2>1 DEF FailRecord, Between
  <2>3. r.pc = "loop" /\ r.memory = run[p].memory /\ r.listed = run[p].listed
    BY <1>0 DEF Counted, Run
  <2>4. Sound(r)
    BY <1>0, <2>2, CountedSound, Fields
  <2> HIDE DEF r
  <2> QED
    BY <2>2, <2>3, <2>4, OneMoves DEF MovesOn, Moves
<1>3. CASE Checkpoint(p)
  <2> DEFINE r == [run[p] EXCEPT !.since = 0]
  <2>1. run' = [run EXCEPT ![p] = r] /\ run[p].pc = "loop"
    BY <1>3 DEF Checkpoint
  <2>2. 0 \in 0 .. CheckpointEvery
    BY StoreAssumption
  <2>3. r \in Run /\ r.pc = run[p].pc /\ r.memory = run[p].memory /\ r.listed = run[p].listed
        /\ r.todo = run[p].todo
    BY <1>0, <2>2 DEF Run
  <2> HIDE DEF r
  <2>4. Sound(r)
    BY <1>0, <2>1, <2>3 DEF Sound
  <2> QED
    BY <2>1, <2>3, <2>4, OneMoves DEF MovesOn, Moves
<1> QED
  BY <1>1, <1>2, <1>3 DEF LoopStep

\* generatePreview: the record in progress and its outcome are remembered.
LEMMA RenderMoves ==
  ASSUME Shape, NEW p \in Procs, NEW s \in Slugs, NEW kind \in Kinds, NEW due, Render(p, s, kind, due)
  PROVE  /\ MovesOn(p, "rendered") /\ run[p].pc = "loop"
         /\ run'[p].slug = s /\ run'[p].kind = kind /\ run[p].listed[s] # NotListed
<1>0. Sound(run[p]) /\ run[p] \in Run
  BY DEF Shape, AllSound, Sound, StoreTypeOK
<1> DEFINE r == [run[p] EXCEPT !.pc = "rendered", !.slug = s, !.kind = kind]
<1>1. /\ run' = [run EXCEPT ![p] = r]
      /\ run[p].pc = "loop" /\ run[p].since < CheckpointEvery /\ s \in run[p].todo
  BY DEF Render, Between
<1>2. r \in Run /\ r.pc = "rendered" /\ r.slug = s /\ r.kind = kind /\ r.memory = run[p].memory
      /\ r.listed = run[p].listed /\ r.todo = run[p].todo /\ r.since = run[p].since
  BY <1>0 DEF Run
<1> HIDE DEF r
<1>3. Sound(r)
  BY <1>0, <1>1, <1>2 DEF Sound
<1> QED
  BY <1>0, <1>1, <1>2, <1>3, OneMoves DEF MovesOn, Moves, Sound

\* The entry Record makes.
Made(p) == [hash |-> run[p].listed[run[p].slug], kind |-> run[p].kind]

\* The new entry is of a listed record and goes to memory.
LEMMA RecordMoves ==
  ASSUME Shape, NEW p \in Procs, Record(p)
  PROVE  /\ Moves(p) /\ run'[p].pc = "loop" /\ run'[p].listed = run[p].listed
         /\ run[p].slug \in Slugs /\ run[p].listed[run[p].slug] # NotListed
         /\ Made(p) \in Entry /\ run'[p].memory = [run[p].memory EXCEPT ![run[p].slug] = Made(p)]
<1>0. Sound(run[p]) /\ run[p] \in Run /\ run[p].pc = "rendered"
  BY DEF Shape, AllSound, Sound, StoreTypeOK, Record
<1> DEFINE s == run[p].slug
           e == Made(p)
           memory == [run[p].memory EXCEPT ![s] = e]
           r == [Counted(run[p]) EXCEPT !.memory = memory, !.todo = run[p].todo \ {s}]
<1>1. s \in run[p].todo /\ run[p].kind \in Kinds /\ run[p].since < CheckpointEvery
  BY <1>0 DEF Sound
<1>2. s \in Slugs /\ run[p].listed[s] # NotListed /\ run[p].listed[s] \in Hashes
  BY <1>0, <1>1, Fields DEF Sound
<1>3. e \in Entry
  BY <1>1, <1>2 DEF Made, Entry
<1>4. memory \in Manifest
  <2>1. run[p].memory \in Manifest
    BY <1>0, Fields
  <2> HIDE DEF e
  <2> QED
    BY <1>2, <1>3, <2>1 DEF Manifest
<1>5. run' = [run EXCEPT ![p] = r]
  <2>1. Counted(run[p]).memory = run[p].memory
    BY <1>0 DEF Counted, Run
  <2>2. run' = [run EXCEPT ![p] = [Counted(run[p]) EXCEPT !.memory[s] = e, !.todo = run[p].todo \ {s}]]
    BY DEF Record, Made
  <2>3. [Counted(run[p]) EXCEPT !.memory[s] = e, !.todo = run[p].todo \ {s}] = r
    <3> HIDE DEF e
    <3> QED
      BY <2>1
  <2> QED
    BY <2>2, <2>3, Zenon
<1>6. Sound(r)
  BY <1>0, <1>1, <1>2, <1>4, CountedSound
<1>7. r.pc = "loop" /\ r.listed = run[p].listed /\ r.memory = memory
  <2> HIDE DEF memory
  <2> QED
    BY <1>0 DEF Counted, Run
<1> HIDE DEF r
<1> QED
  BY <1>2, <1>3, <1>5, <1>6, <1>7, OneMoves DEF Moves

\* What a full pass keeps: the entries of listed records.
Survivors(p) == [s \in Slugs |-> IF run[p].listed[s] = NotListed THEN NoEntry ELSE run[p].memory[s]]

\* A full pass forgets what is not listed.
LEMMA PruneMoves ==
  ASSUME Shape, NEW p \in Procs, Prune(p)
  PROVE  /\ Moves(p) /\ run'[p].pc = "swept" /\ run[p].pc = "loop" /\ run'[p].listed = run[p].listed
         /\ \/ run'[p].memory = Survivors(p) /\ images' = images \cap Referenced(Survivors(p))
            \/ run[p].only # {} /\ run'[p].memory = run[p].memory /\ images' = images
<1>0. Sound(run[p]) /\ run[p] \in Run /\ run[p].pc = "loop"
  BY DEF Shape, AllSound, Sound, StoreTypeOK, Prune, Between
<1>1. CASE run[p].only = {}
  <2> DEFINE r == [run[p] EXCEPT !.pc = "swept", !.memory = Survivors(p)]
  <2>1. run' = [run EXCEPT ![p] = r] /\ images' = images \cap Referenced(Survivors(p))
    BY <1>1 DEF Prune, Survivors
  <2>2. Survivors(p) \in Manifest
    BY <1>0, Fields DEF Survivors, Manifest
  <2>3. r \in Run /\ r.pc = "swept" /\ r.memory = Survivors(p) /\ r.listed = run[p].listed /\ r.todo = run[p].todo
    BY <1>0, <2>2 DEF Run
  <2> HIDE DEF r
  <2>4. Sound(r)
    BY <1>0, <2>3 DEF Sound
  <2> QED
    BY <1>0, <2>1, <2>3, <2>4, OneMoves DEF Moves
<1>2. CASE run[p].only # {}
  <2> DEFINE r == [run[p] EXCEPT !.pc = "swept"]
  <2>1. run' = [run EXCEPT ![p] = r] /\ images' = images
    BY <1>2 DEF Prune
  <2>2. Sound(r) /\ r.pc = "swept" /\ r.memory = run[p].memory /\ r.listed = run[p].listed
    BY <1>0, PcSound DEF Run
  <2> HIDE DEF r
  <2> QED
    BY <1>0, <1>2, <2>1, <2>2, OneMoves DEF Moves
<1> QED
  BY <1>1, <1>2

\* The last write of the manifest.
LEMMA WriteMoves ==
  ASSUME Shape, NEW p \in Procs, WriteManifest(p)
  PROVE  MovesOn(p, "ending") /\ run[p].pc = "swept"
<1>0. Sound(run[p]) /\ run[p] \in Run
  BY DEF Shape, AllSound, Sound, StoreTypeOK
<1> DEFINE r == [run[p] EXCEPT !.pc = "ending"]
<1>1. Sound(r) /\ r.pc = "ending" /\ r.memory = run[p].memory /\ r.listed = run[p].listed
  BY <1>0, PcSound DEF Run
<1>2. run' = [run EXCEPT ![p] = r] /\ run[p].pc = "swept"
  BY DEF WriteManifest
<1> HIDE DEF r
<1> QED
  BY <1>1, <1>2, OneMoves DEF MovesOn, Moves

\* Release and Crash.
LEMMA RestMoves ==
  ASSUME Shape, NEW p \in Procs, RestStep(p)
  PROVE  Moves(p) /\ run'[p].pc = "idle"
<1>1. run' = [run EXCEPT ![p] = Resting] /\ Resting.pc = "idle"
  BY DEF RestStep, Release, Crash, Gone, Resting
<1> QED
  BY <1>1, RestingSound, OneMoves DEF Moves

\* StartRun, CreateLock, StatLock, BreakLock.
LEMMA LockMoves ==
  ASSUME Shape, NEW p \in Procs, LockStep(p)
  PROVE  Moves(p) /\ ~Working(p) /\ run'[p].pc \in {"idle", "open", "exists", "breaking", "locked"}
BY LockStepSound, OneMoves DEF Moves

-----------------------------------------------------------------------------
(* Types *)

HistoryOK ==
  disorder \subseteq {"broken twice", "outlived"} /\ alone \in Procs \cup {Nobody} /\ peace \in BOOLEAN

\* So do the history variables.
LEMMA HistoryKeeps == ASSUME HistoryOK, [StoreNext]_storeVars PROVE HistoryOK'
<1> USE DEF HistoryOK, history
<1>1. ASSUME NEW p \in Procs, LockStep(p) PROVE HistoryOK'
  BY <1>1 DEF LockStep, StartRun, CreateLock, StatLock, Disturbed, BreakLock, Settled
<1>2. ASSUME NEW p \in Procs, RestStep(p) PROVE HistoryOK'
  BY <1>2 DEF RestStep, Release, Crash, Gone, Settled
<1>3. ASSUME NEW p \in Procs, ReadList(p) PROVE HistoryOK'
  BY <1>3 DEF ReadList
<1>4. ASSUME NEW p \in Procs, LoopStep(p) \/ RenderStep(p) \/ Record(p) \/ Prune(p) \/ WriteManifest(p)
      PROVE  HistoryOK'
  BY <1>4 DEF LoopStep, Skip, FailRecord, Checkpoint, RenderStep, Render, Record, Prune, WriteManifest
<1>5. CASE EditStep \/ CleanupStep \/ LockAges \/ UNCHANGED storeVars
  BY <1>5 DEF EditStep, Edit, CleanupStep, Cleanup, LockAges, Disturbed, storeVars
<1> QED
  BY <1>1, <1>2, <1>3, <1>4, <1>5, StepGroups

\* Every step keeps the types and the soundness of runs.
LEMMA ShapeKeeps == ASSUME Shape, [StoreNext]_storeVars PROVE Shape'
<1> USE DEF Shape
<1>f. faults' \in 0 .. MaxFaults
  <2>1. faults \in 0 .. MaxFaults
    BY DEF StoreTypeOK
  <2> QED
    BY <2>1, StepsCount, StoreAssumption DEF Fault
<1>h. HistoryOK'
  BY HistoryKeeps DEF StoreTypeOK, HistoryOK
<1>0. /\ rows \in [Slugs -> Row] /\ lock \in Lock \cup {NoLock} /\ manifest \in Manifest /\ images \subseteq File
      /\ faults \in 0 .. MaxFaults /\ edits \in 0 .. MaxEdits /\ partial \in 0 .. MaxPartial
      /\ run \in [Procs -> Run]
  BY DEF StoreTypeOK
<1>1. ASSUME NEW p \in Procs, LockStep(p) PROVE Shape'
  <2>1. run' \in [Procs -> Run] /\ AllSound'
    BY <1>1, LockMoves DEF Moves
  <2>2. CASE \E only \in SUBSET Slugs : StartRun(p, only)
    <3>1. PICK only \in SUBSET Slugs : StartRun(p, only)
      BY <2>2
    <3>2. UNCHANGED <<rows, lock, manifest, images, faults, edits>>
      BY <3>1 DEF StartRun, disk
    <3>3. partial' \in 0 .. MaxPartial
      BY <1>0, <3>1, StoreAssumption DEF StartRun
    <3> QED
      BY <1>0, <1>h, <2>1, <3>2, <3>3 DEF StoreTypeOK, HistoryOK
  <2>3. CASE CreateLock(p) \/ StatLock(p) \/ BreakLock(p)
    <3>1. UNCHANGED <<rows, manifest, images, edits, partial>>
      BY <2>3, StatChoices DEF CreateLock, BreakLock, disk, counters
    <3>4. faults' \in 0 .. MaxFaults
      BY <1>f
    <3>2. lock' \in {lock, NoLock, [owner |-> p, stale |-> FALSE]}
      BY <2>3 DEF CreateLock, StatLock, BreakLock
    <3>3. [owner |-> p, stale |-> FALSE] \in Lock
      BY DEF Lock
    <3> QED
      BY <1>0, <1>h, <2>1, <3>1, <3>2, <3>3, <3>4 DEF StoreTypeOK, HistoryOK
  <2> QED
    BY <1>1, <2>2, <2>3 DEF LockStep
<1>2. ASSUME NEW p \in Procs, ReadList(p) PROVE Shape'
  BY <1>0, <1>h, <1>2, ReadListMoves DEF ReadList, StoreTypeOK, HistoryOK, Moves, disk, counters
<1>3. ASSUME NEW p \in Procs, LoopStep(p) PROVE Shape'
  <2>1. run' \in [Procs -> Run] /\ AllSound'
    BY <1>3, LoopMoves DEF MovesOn, Moves
  <2>2. UNCHANGED <<rows, lock, images, edits, partial>>
    BY <1>3 DEF LoopStep, Skip, FailRecord, Checkpoint, disk, counters
  <2>3. manifest' \in Manifest
    BY <1>0, <1>3, Fields DEF LoopStep, Skip, FailRecord, Checkpoint, disk
  <2>4. faults' \in 0 .. MaxFaults
    BY <1>0, <1>3, StoreAssumption DEF LoopStep, Skip, FailRecord, Fault, Checkpoint, counters
  <2> QED
    BY <1>0, <1>h, <2>1, <2>2, <2>3, <2>4 DEF StoreTypeOK, HistoryOK
<1>4. ASSUME NEW p \in Procs, RenderStep(p) PROVE Shape'
  <2>1. PICK s \in Slugs, kind \in Kinds, due \in BOOLEAN : Render(p, s, kind, due)
    BY <1>4 DEF RenderStep
  <2>2. run' \in [Procs -> Run] /\ AllSound' /\ run[p].listed[s] # NotListed
    BY <2>1, RenderMoves DEF MovesOn, Moves
  <2>3. <<s, run[p].listed[s]>> \in File
    BY <1>0, <2>2, Fields DEF File
  <2>4. images' \subseteq File
    BY <1>0, <2>1, <2>3 DEF Render
  <2>5. UNCHANGED <<rows, lock, manifest, faults, edits, partial>>
    BY <2>1 DEF Render, counters
  <2> QED
    BY <1>0, <1>h, <2>2, <2>4, <2>5 DEF StoreTypeOK, HistoryOK
<1>5. ASSUME NEW p \in Procs, Record(p) PROVE Shape'
  BY <1>0, <1>h, <1>5, RecordMoves DEF Record, StoreTypeOK, HistoryOK, Moves, counters
<1>6. ASSUME NEW p \in Procs, Prune(p) PROVE Shape'
  <2>1. images' \subseteq images /\ run' \in [Procs -> Run] /\ AllSound'
    BY <1>6, PruneMoves DEF Moves
  <2> QED
    BY <1>0, <1>h, <1>6, <2>1 DEF Prune, StoreTypeOK, HistoryOK, counters
<1>7. ASSUME NEW p \in Procs, WriteManifest(p) PROVE Shape'
  BY <1>0, <1>h, <1>7, WriteMoves, Fields DEF WriteManifest, StoreTypeOK, HistoryOK, MovesOn, Moves, counters
<1>8. ASSUME NEW p \in Procs, RestStep(p) PROVE Shape'
  <2>1. run' \in [Procs -> Run] /\ AllSound'
    BY <1>8, RestMoves DEF Moves
  <2>2. UNCHANGED <<rows, manifest, images, edits, partial>> /\ lock' \in Lock \cup {NoLock}
    BY <1>0, <1>8 DEF RestStep, Release, Crash, disk, counters
  <2>3. faults' \in 0 .. MaxFaults
    BY <1>0, <1>8, StoreAssumption DEF RestStep, Release, Crash, Fault, counters
  <2> QED
    BY <1>0, <1>h, <2>1, <2>2, <2>3 DEF StoreTypeOK, HistoryOK
<1>9. CASE EditStep
  <2>1. PICK s \in Slugs, changed, shown \in BOOLEAN : Edit(s, changed, shown)
    BY <1>9 DEF EditStep
  <2>2. edits + 1 \in Hashes /\ edits' \in 0 .. MaxEdits
    BY <1>0, <2>1, StoreAssumption DEF Edit, Hashes
  <2>3. [hash |-> IF changed THEN edits + 1 ELSE rows[s].hash, shown |-> shown] \in Row
    BY <1>0, <2>2 DEF Row
  <2>4. rows' \in [Slugs -> Row]
    BY <1>0, <2>1, <2>3 DEF Edit
  <2>5. UNCHANGED <<lock, manifest, images, run, faults, partial>>
    BY <2>1 DEF Edit, disk
  <2> QED
    BY <1>0, <1>h, <2>2, <2>4, <2>5 DEF StoreTypeOK, HistoryOK, AllSound
<1>10. CASE CleanupStep
  <2>1. /\ images' \subseteq images /\ faults' \in 0 .. MaxFaults
        /\ UNCHANGED <<rows, lock, manifest, run, edits, partial>>
    BY <1>0, <1>10, StoreAssumption DEF CleanupStep, Cleanup, Fault
  <2> QED
    BY <1>0, <1>h, <2>1 DEF StoreTypeOK, HistoryOK, AllSound
<1>11. CASE LockAges
  <2>1. lock' \in Lock /\ UNCHANGED <<rows, manifest, images, run, edits, partial>>
    BY <1>0, <1>11, AgeChoices DEF Lock
  <2> QED
    BY <1>0, <1>f, <1>h, <2>1 DEF StoreTypeOK, HistoryOK, AllSound
<1>12. CASE UNCHANGED storeVars
  BY <1>0, <1>h, <1>12 DEF storeVars, StoreTypeOK, HistoryOK, AllSound
<1> QED
  BY <1>1, <1>2, <1>3, <1>4, <1>5, <1>6, <1>7, <1>8, <1>9, <1>10, <1>11, <1>12, StepGroups

\* The directory is empty and every process rests.
LEMMA ShapeInitially == ASSUME StoreInit PROVE Shape
<1>1. [hash |-> 0, shown |-> TRUE] \in Row /\ Empty \in Manifest
  BY StoreAssumption DEF Row, Hashes, Empty, Manifest
<1>2. rows \in [Slugs -> Row]
  BY <1>1 DEF StoreInit
<1>3. StoreTypeOK
  BY <1>1, <1>2, RestingSound, StoreAssumption DEF StoreInit, StoreTypeOK, Sound
<1> QED
  BY <1>3, RestingSound DEF Shape, AllSound, StoreInit

-----------------------------------------------------------------------------
(* The lock *)

\* A step within the work of the one that has the lock.
LEMMA WorkKeepsLock ==
  ASSUME LockHeld, NEW p \in Procs, Moves(p), Working(p), Working(p)', lock' = lock
  PROVE  LockHeld'
<1>1. \A q \in Procs : (Working(q)' <=> Working(q)) /\ (Breaking(q)' => Breaking(q))
  BY DEF Moves, Working, AtWork, Breaking
<1> QED
  BY <1>1 DEF LockHeld

\* Order returns only when all have ended.
LEMMA OrderReturns ==
  ASSUME [StoreNext]_storeVars, disorder' = {}
  PROVE  disorder = {} \/ Calm'
<1>1. ASSUME NEW p \in Procs, LockStep(p) PROVE disorder = {} \/ Calm'
  BY <1>1 DEF LockStep, StartRun, CreateLock, StatLock, Disturbed, BreakLock, Settled, history
<1>2. ASSUME NEW p \in Procs, RestStep(p) PROVE disorder = {} \/ Calm'
  BY <1>2 DEF RestStep, Release, Crash, Gone, Settled
<1>3. ASSUME NEW p \in Procs, ReadList(p) \/ LoopStep(p) \/ RenderStep(p) \/ Record(p) \/ Prune(p) \/ WriteManifest(p)
      PROVE  disorder = {}
  BY <1>3 DEF ReadList, LoopStep, Skip, FailRecord, Checkpoint, RenderStep, Render, Record, Prune, WriteManifest, history
<1>4. CASE EditStep \/ CleanupStep \/ LockAges \/ UNCHANGED storeVars
  BY <1>4 DEF EditStep, Edit, CleanupStep, Cleanup, LockAges, Disturbed, storeVars, history
<1> QED
  BY <1>1, <1>2, <1>3, <1>4, StepGroups

\* In order, every step keeps the lock with the one that works.
LEMMA LockStays ==
  ASSUME Shape, LockHeld, disorder' = {}, [StoreNext]_storeVars
  PROVE  LockHeld'
<1>1. ASSUME NEW p \in Procs, LockStep(p) PROVE LockHeld'
  <2>0. Moves(p) /\ ~Working(p) /\ \A q \in Procs \ {p} : run'[q] = run[q]
    BY <1>1, LockMoves DEF Moves
  <2>1. \A q \in Procs \ {p} : (Working(q)' <=> Working(q)) /\ (Breaking(q)' <=> Breaking(q))
    BY <2>0 DEF Working, AtWork, Breaking
  <2>2. run \in [Procs -> Run]
    BY DEF Shape, StoreTypeOK
  <2>3. ASSUME NEW only \in SUBSET Slugs, StartRun(p, only) PROVE LockHeld'
    <3>1. run'[p].pc = "open" /\ lock' = lock
      BY <2>2, <2>3 DEF StartRun, Resting
    <3> QED
      BY <2>1, <3>1 DEF LockHeld, Working, AtWork, Breaking
  <2>4. CASE CreateLock(p)
    <3>1. CASE lock = NoLock
      <4>1. lock' = [owner |-> p, stale |-> FALSE] /\ run'[p].pc = "locked"
        BY <2>2, <2>4, <3>1 DEF CreateLock, Run
      <4>2. \A q \in Procs : ~Working(q) /\ ~Breaking(q)
        BY <3>1 DEF LockHeld
      <4>3. lock' # NoLock /\ lock'.owner = p /\ ~lock'.stale
        <5>1. [owner |-> p, stale |-> FALSE] \in Lock
          BY DEF Lock
        <5>2. lock' # NoLock
          BY <4>1, <5>1, StoreAssumption
        <5> QED
          BY <4>1, <5>2
      <4> QED
        BY <2>1, <4>1, <4>2, <4>3 DEF LockHeld, Working, AtWork, Breaking
    <3>2. CASE lock # NoLock
      <4>1. lock' = lock /\ run'[p].pc = "exists"
        BY <2>2, <2>4, <3>2 DEF CreateLock, Run
      <4> QED
        BY <2>1, <4>1 DEF LockHeld, Working, AtWork, Breaking
    <3> QED
      BY <3>1, <3>2
  <2>5. CASE StatLock(p)
    <3>1. lock' = lock
      BY <2>5 DEF StatLock
    <3>2. CASE Dead(lock)
      <4>1. run'[p].pc = "breaking" /\ \A q \in Procs : ~Breaking(q)
        BY <2>2, <2>5, <3>2 DEF StatLock, Disturbed, Run
      <4>2. lock # NoLock /\ lock.stale
        BY <3>2 DEF Dead
      <4> QED
        BY <2>1, <3>1, <4>1, <4>2 DEF LockHeld, Working, AtWork, Breaking
    <3>3. CASE ~Dead(lock)
      <4>1. run'[p].pc = "idle"
        BY <2>2, <2>5, <3>3 DEF StatLock, Resting
      <4> QED
        BY <2>1, <3>1, <4>1 DEF LockHeld, Working, AtWork, Breaking
    <3> QED
      BY <3>2, <3>3
  <2>6. CASE BreakLock(p)
    <3>1. Breaking(p)
      BY <2>6 DEF BreakLock, Breaking
    <3>2. \A q \in Procs : ~Working(q) /\ (q # p => ~Breaking(q))
      BY <3>1 DEF LockHeld
    <3>3. run'[p].pc \in {"open", "idle"}
      BY <2>2, <2>6 DEF BreakLock, Resting, Run
    <3> QED
      BY <2>1, <3>2, <3>3 DEF LockHeld, Working, AtWork, Breaking
  <2> QED
    BY <1>1, <2>3, <2>4, <2>5, <2>6 DEF LockStep
<1>2. ASSUME NEW p \in Procs, ReadList(p) \/ LoopStep(p) \/ RenderStep(p) \/ Record(p) \/ Prune(p) \/ WriteManifest(p)
      PROVE  LockHeld'
  <2>1. lock' = lock
    BY <1>2 DEF ReadList, LoopStep, Skip, FailRecord, Checkpoint, RenderStep, Render, Record, Prune, WriteManifest
  <2>2. Moves(p) /\ run[p].pc \in {"locked", "loop", "rendered", "swept"}
        /\ run'[p].pc \in {"loop", "rendered", "swept", "ending"}
    <3>1. CASE ReadList(p)
      BY <3>1, ReadListMoves DEF ReadList
    <3>2. CASE LoopStep(p)
      BY <3>2, LoopMoves DEF MovesOn
    <3>3. CASE RenderStep(p)
      BY <3>3, RenderMoves DEF RenderStep, MovesOn
    <3>4. CASE Record(p)
      BY <3>4, RecordMoves DEF Record
    <3>5. CASE Prune(p)
      BY <3>5, PruneMoves
    <3>6. CASE WriteManifest(p)
      BY <3>6, WriteMoves DEF MovesOn
    <3> QED
      BY <1>2, <3>1, <3>2, <3>3, <3>4, <3>5, <3>6
  <2> QED
    BY <2>1, <2>2, WorkKeepsLock DEF Working, AtWork
<1>3. ASSUME NEW p \in Procs, RestStep(p) PROVE LockHeld'
  <2>0. run'[p].pc = "idle" /\ \A q \in Procs \ {p} : run'[q] = run[q]
    BY <1>3, RestMoves DEF Moves
  <2>1. \A q \in Procs \ {p} : (Working(q)' <=> Working(q)) /\ (Breaking(q)' <=> Breaking(q))
    BY <2>0 DEF Working, AtWork, Breaking
  <2>2. CASE Release(p)
    <3>1. Working(p)
      BY <2>2 DEF Release, Working, AtWork
    <3>2. \A q \in Procs \ {p} : ~Working(q) /\ ~Breaking(q)
      BY <3>1 DEF LockHeld
    <3> QED
      BY <2>0, <2>1, <3>2 DEF LockHeld, Working, AtWork, Breaking
  <2>3. CASE Crash(p)
    <3>1. lock' = lock
      BY <2>3 DEF Crash
    <3> QED
      BY <2>0, <2>1, <3>1 DEF LockHeld, Working, AtWork, Breaking
  <2> QED
    BY <1>3, <2>2, <2>3 DEF RestStep
<1>4. CASE EditStep \/ CleanupStep \/ UNCHANGED storeVars
  <2>1. UNCHANGED <<lock, run>>
    BY <1>4 DEF EditStep, Edit, CleanupStep, Cleanup, storeVars
  <2> QED
    BY <2>1 DEF LockHeld, Working, AtWork, Breaking
<1>5. CASE LockAges
  <2>1. lock # NoLock /\ ~lock.stale /\ ~Working(lock.owner) /\ run' = run
    BY <1>5 DEF LockAges, Disturbed
  <2>2. \A q \in Procs : ~Working(q) /\ ~Breaking(q)
    BY <2>1 DEF LockHeld
  <2> QED
    BY <2>1, <2>2 DEF LockHeld, Working, AtWork, Breaking
<1> QED
  BY <1>1, <1>2, <1>3, <1>4, <1>5, StepGroups

\* And when order returns nobody is left who could lose it.
LEMMA LockKeeps == ASSUME Shape, LockInv, [StoreNext]_storeVars PROVE LockInv'
<1>1. CASE disorder' = {} /\ disorder = {}
  BY <1>1, LockStays DEF LockInv
<1>2. CASE disorder' = {} /\ Calm'
  BY <1>2 DEF LockInv, LockHeld, Calm
<1> QED
  BY <1>1, <1>2, OrderReturns DEF LockInv

\* Faults are counted from 0.
LEMMA FaultsCounted == ASSUME Shape PROVE faults \in Nat
<1>1. faults \in 0 .. MaxFaults
  BY DEF Shape, StoreTypeOK
<1> QED
  BY <1>1, StoreAssumption

\* A step that disturbs the lock is a fault.
LEMMA CountingKeeps == ASSUME Shape, Counting, [StoreNext]_storeVars PROVE Counting'
<1> SUFFICES ASSUME faults' = 0 PROVE disorder' = {}
  BY DEF Counting
<1>0. faults = 0 /\ disorder = {} /\ ~Fault
  <2>1. faults \in Nat
    BY FaultsCounted
  <2>2. ~Fault
    BY <2>1 DEF Fault
  <2> QED
    BY <2>2, StepsCount DEF Counting
<1>1. ASSUME NEW p \in Procs, LockStep(p) PROVE disorder' = {}
  BY <1>0, <1>1, StatChoices DEF LockStep, StartRun, CreateLock, BreakLock, Settled, history
<1>2. ASSUME NEW p \in Procs, RestStep(p) PROVE disorder' = {}
  BY <1>0, <1>2 DEF RestStep, Release, Crash, Gone, Settled
<1>3. ASSUME NEW p \in Procs, ReadList(p) \/ LoopStep(p) \/ RenderStep(p) \/ Record(p) \/ Prune(p) \/ WriteManifest(p)
      PROVE  disorder' = {}
  BY <1>0, <1>3 DEF ReadList, LoopStep, Skip, FailRecord, Checkpoint, RenderStep, Render, Record,
                    Prune, WriteManifest, history
<1>4. CASE EditStep \/ CleanupStep \/ UNCHANGED storeVars
  BY <1>0, <1>4 DEF EditStep, Edit, CleanupStep, Cleanup, storeVars, history
<1>5. CASE LockAges
  BY <1>0, <1>5, AgeChoices
<1> QED
  BY <1>1, <1>2, <1>3, <1>4, <1>5, StepGroups

\* Nobody works or breaks anything at the start.
LEMMA LockInitially == ASSUME StoreInit PROVE LockInv /\ Counting
BY DEF StoreInit, LockInv, LockHeld, Counting, Working, AtWork, Breaking, Resting

\* All state of the generator keeps its types, for any processes, records, kinds and bounds,
\* whatever the runs and the lock do to each other.
THEOREM StoreIsWellFormed == StoreSpec => []StoreTypeOK
<1>1. StoreInit => Shape
  BY ShapeInitially
<1>2. Shape /\ [StoreNext]_storeVars => Shape'
  BY ShapeKeeps
<1>3. Shape => StoreTypeOK
  BY DEF Shape
<1> QED
  BY <1>1, <1>2, <1>3, PTL DEF StoreSpec

\* acquireLock lets one run at a time work in the directory, through crashes, dead locks and their
\* removal, and again when all have ended after a lock was lost: only a run that outlives its lock
\* and two processes that break the same one, which the code does not exclude, let a second in.
THEOREM RunsExcludeEachOther == StoreSpec => [](disorder = {} => OneWriter)
<1>1. StoreInit => Shape /\ LockInv
  BY ShapeInitially, LockInitially
<1>2. (Shape /\ LockInv) /\ [StoreNext]_storeVars => (Shape /\ LockInv)'
  BY ShapeKeeps, LockKeeps
<1>3. LockInv => (disorder = {} => OneWriter)
  BY DEF LockInv, LockHeld, OneWriter
<1> QED
  BY <1>1, <1>2, <1>3, PTL DEF StoreSpec

-----------------------------------------------------------------------------
(* The images *)

\* What the directory holds while p works, as long as nothing went wrong.
Accounted(p) ==
  /\ run[p].pc \in {"locked", "ending"} => images = Referenced(manifest)
  /\ run[p].pc \in {"loop", "swept"} => images = Referenced(run[p].memory)
  /\ run[p].pc = "rendered" => images = Referenced(run[p].memory) \cup FileOf(run[p].slug, Made(p))
  /\ run[p].pc = "ending" => run[p].memory = manifest

AllAccounted ==
  faults = 0 => /\ \A p \in Procs : Working(p) => Accounted(p)
                /\ (\A p \in Procs : ~Working(p)) => images = Referenced(manifest)

\* The images of a record are its own, and an entry that is missing names none.
LEMMA FilesOf ==
  ASSUME NEW s, NEW e
  PROVE  /\ \A x \in FileOf(s, e) : x[1] = s
         /\ FileOf(s, NoEntry) = {}
         /\ e \in Entry => FileOf(s, e) = IF e.kind \in ImageKinds THEN {<<s, e.hash>>} ELSE {}
BY StoreAssumption DEF FileOf

\* Replacing one entry and removing what it supersedes.
LEMMA RecordImages ==
  ASSUME NEW m \in Manifest, NEW s \in Slugs, NEW e \in Entry
  PROVE  (Referenced(m) \cup FileOf(s, e)) \ Superseded(s, m[s], e) = Referenced([m EXCEPT ![s] = e])
<1> DEFINE n == [m EXCEPT ![s] = e]
<1>1. n[s] = e /\ \A t \in Slugs \ {s} : n[t] = m[t]
  BY DEF Manifest
<1>2. \A t \in Slugs : \A x \in FileOf(t, m[t]) : x[1] = t
  BY FilesOf
<1>3. \A x \in FileOf(s, e) : x[1] = s
  BY FilesOf
<1> HIDE DEF n
<1>4. ASSUME NEW x, x \in Referenced(m) \cup FileOf(s, e), x \notin Superseded(s, m[s], e)
      PROVE  x \in Referenced(n)
  <2>1. CASE x \in FileOf(s, e)
    BY <1>1, <2>1 DEF Referenced
  <2>2. CASE x \notin FileOf(s, e)
    <3>1. PICK t \in Slugs : x \in FileOf(t, m[t])
      BY <1>4, <2>2 DEF Referenced
    <3>2. t # s
      BY <1>4, <2>2, <3>1 DEF Superseded
    <3> QED
      BY <1>1, <3>1, <3>2 DEF Referenced
  <2> QED
    BY <2>1, <2>2
<1>5. ASSUME NEW x, x \in Referenced(n)
      PROVE  x \in Referenced(m) \cup FileOf(s, e) /\ x \notin Superseded(s, m[s], e)
  <2>1. PICK t \in Slugs : x \in FileOf(t, n[t])
    BY <1>5 DEF Referenced
  <2>2. CASE t = s
    BY <1>1, <2>1, <2>2 DEF Superseded
  <2>3. CASE t # s
    <3>1. x \in FileOf(t, m[t]) /\ x[1] # s
      BY <1>1, <1>2, <2>1, <2>3
    <3>2. x \notin FileOf(s, m[s])
      BY <1>2, <3>1
    <3> QED
      BY <3>1, <3>2 DEF Referenced, Superseded
  <2> QED
    BY <2>2, <2>3
<1> QED
  BY <1>4, <1>5 DEF n

\* Keeping fewer entries refers to fewer images.
LEMMA KeptImages ==
  ASSUME NEW p \in Procs PROVE Referenced(Survivors(p)) \subseteq Referenced(run[p].memory)
<1>1. \A s \in Slugs : Survivors(p)[s] \in {NoEntry, run[p].memory[s]}
  BY DEF Survivors
<1>2. \A s \in Slugs : FileOf(s, Survivors(p)[s]) \subseteq FileOf(s, run[p].memory[s])
  BY <1>1, FilesOf
<1> QED
  BY <1>2 DEF Referenced

\* In the next state only p works, and its images are accounted for.
LEMMA AccountedNext ==
  ASSUME LockHeld', NEW p \in Procs, Working(p)', faults' = 0 => Accounted(p)'
  PROVE  AllAccounted'
<1>1. \A q \in Procs : Working(q)' => q = p
  BY DEF LockHeld
<1> QED
  BY <1>1 DEF AllAccounted

\* Every step keeps account of the images, until the first fault.
LEMMA ImagesKeep ==
  ASSUME Shape, LockInv, LockInv', Counting, Counting', AllAccounted, [StoreNext]_storeVars
  PROVE  AllAccounted'
<1> SUFFICES ASSUME faults' = 0 PROVE AllAccounted'
  BY DEF AllAccounted
<1>0. run \in [Procs -> Run] /\ images \subseteq File
  BY DEF Shape, StoreTypeOK
<1>20. faults = 0 /\ ~Fault
  <2>1. faults \in Nat
    BY FaultsCounted
  <2>2. ~Fault
    BY <2>1 DEF Fault
  <2> QED
    BY <2>2, StepsCount
<1>21. LockHeld /\ LockHeld'
  BY <1>20 DEF LockInv, Counting
<1>1. ASSUME NEW p \in Procs, LockStep(p) PROVE AllAccounted'
  <2>1. /\ Moves(p) /\ ~Working(p) /\ \A q \in Procs \ {p} : run'[q] = run[q]
        /\ run'[p].pc \in {"idle", "open", "exists", "breaking", "locked"}
    BY <1>1, LockMoves DEF Moves
  <2>2. UNCHANGED <<manifest, images>>
    <3>1. CASE \E only \in SUBSET Slugs : StartRun(p, only)
      BY <3>1 DEF StartRun, disk
    <3>2. CASE CreateLock(p) \/ StatLock(p) \/ BreakLock(p)
      BY <3>2, StatChoices DEF CreateLock, BreakLock, disk
    <3> QED
      BY <1>1, <3>1, <3>2 DEF LockStep
  <2>3. CASE run'[p].pc = "locked"
    <3>1. lock = NoLock
      <4>1. ASSUME NEW only \in SUBSET Slugs, StartRun(p, only) PROVE FALSE
        BY <1>0, <2>3, <4>1 DEF StartRun, Resting
      <4>2. CASE CreateLock(p)
        BY <1>0, <2>3, <4>2 DEF CreateLock, Run
      <4>3. CASE StatLock(p)
        <5>1. run' = [run EXCEPT ![p].pc = "breaking"] \/ run' = [run EXCEPT ![p] = Resting]
          BY <4>3, StatChoices
        <5> QED
          BY <1>0, <2>3, <5>1 DEF Resting, Run
      <4>4. CASE BreakLock(p)
        BY <1>0, <2>3, <4>4 DEF BreakLock, Resting, Run
      <4> QED
        BY <1>1, <4>1, <4>2, <4>3, <4>4 DEF LockStep
    <3>2. \A q \in Procs : ~Working(q)
      BY <1>21, <3>1 DEF LockHeld
    <3>3. images' = Referenced(manifest')
      BY <1>20, <2>2, <3>2 DEF AllAccounted
    <3> QED
      BY <2>3, <3>3, <1>21, AccountedNext DEF Accounted, Working, AtWork
  <2>4. CASE run'[p].pc # "locked"
    <3>1. \A q \in Procs : Working(q)' => q # p
      BY <2>1, <2>4 DEF Working, AtWork
    <3>2. \A q \in Procs : (Working(q)' <=> Working(q)) /\ (q # p => run'[q] = run[q])
      BY <2>1, <3>1 DEF Working, AtWork
    <3>3. \A q \in Procs : q # p /\ Accounted(q) => Accounted(q)'
      BY <2>1, <2>2 DEF Accounted, Made
    <3> QED
      BY <1>20, <2>2, <3>1, <3>2, <3>3 DEF AllAccounted
  <2> QED
    BY <2>3, <2>4
<1>2. ASSUME NEW p \in Procs, ReadList(p) PROVE AllAccounted'
  <2>1. run[p].pc = "locked" /\ run'[p].pc = "loop" /\ run'[p].memory = manifest
        /\ UNCHANGED <<manifest, images, faults>>
    BY <1>2, ReadListMoves DEF ReadList, disk, counters
  <2>2. images' = Referenced(run'[p].memory)
    BY <2>1 DEF AllAccounted, Accounted, Working, AtWork
  <2> QED
    BY <2>1, <2>2, <1>21, AccountedNext DEF Accounted, Working, AtWork
<1>3. ASSUME NEW p \in Procs, LoopStep(p) PROVE AllAccounted'
  <2>1. run[p].pc = "loop" /\ run'[p].pc = "loop" /\ run'[p].memory = run[p].memory
    BY <1>3, LoopMoves DEF MovesOn
  <2>2. images' = images /\ faults = 0
    BY <1>20, <1>3 DEF LoopStep, Skip, FailRecord, Checkpoint, disk, counters
  <2>3. images' = Referenced(run'[p].memory)
    BY <2>1, <2>2 DEF AllAccounted, Accounted, Working, AtWork
  <2> QED
    BY <2>1, <2>3, <1>21, AccountedNext DEF Accounted, Working, AtWork
<1>4. ASSUME NEW p \in Procs, RenderStep(p) PROVE AllAccounted'
  <2>1. PICK s \in Slugs, kind \in Kinds, due \in BOOLEAN : Render(p, s, kind, due)
    BY <1>4 DEF RenderStep
  <2>2. /\ run[p].pc = "loop" /\ run'[p].pc = "rendered" /\ run'[p].memory = run[p].memory
        /\ run'[p].listed = run[p].listed /\ run'[p].slug = s /\ run'[p].kind = kind
        /\ run[p].listed[s] # NotListed
    BY <2>1, RenderMoves DEF MovesOn
  <2> DEFINE e == [hash |-> run[p].listed[s], kind |-> kind]
  <2>3. e \in Entry
    BY <1>0, <2>2, Fields DEF Entry
  <2>4. images' = images \cup FileOf(s, e) /\ faults = 0
    <3>1. FileOf(s, e) = IF kind \in ImageKinds THEN {<<s, run[p].listed[s]>>} ELSE {}
      BY <2>3, FilesOf
    <3> QED
      BY <2>1, <3>1 DEF Render, counters
  <2>5. Made(p)' = e
    BY <2>2 DEF Made
  <2>6. images = Referenced(run[p].memory)
    BY <2>2, <2>4 DEF AllAccounted, Accounted, Working, AtWork
  <2> HIDE DEF e
  <2>7. images' = Referenced(run'[p].memory) \cup FileOf(run'[p].slug, Made(p)')
    BY <2>2, <2>4, <2>5, <2>6
  <2>8. Accounted(p)'
    BY <2>2, <2>7 DEF Accounted
  <2> QED
    BY <2>2, <2>8, <1>21, AccountedNext DEF Working, AtWork
<1>5. ASSUME NEW p \in Procs, Record(p) PROVE AllAccounted'
  <2>1. /\ run[p].pc = "rendered" /\ run'[p].pc = "loop" /\ run[p].slug \in Slugs /\ Made(p) \in Entry
        /\ run'[p].memory = [run[p].memory EXCEPT ![run[p].slug] = Made(p)]
    BY <1>5, RecordMoves DEF Record
  <2>2. /\ images' = images \ Superseded(run[p].slug, run[p].memory[run[p].slug], Made(p))
        /\ faults = 0
    BY <1>5 DEF Record, Made, counters
  <2>3. images = Referenced(run[p].memory) \cup FileOf(run[p].slug, Made(p))
    BY <2>1, <2>2 DEF AllAccounted, Accounted, Working, AtWork
  <2>4. run[p].memory \in Manifest
    BY <1>0, Fields
  <2>5. images' = Referenced(run'[p].memory)
    BY <2>1, <2>2, <2>3, <2>4, RecordImages
  <2> QED
    BY <2>1, <2>5, <1>21, AccountedNext DEF Accounted, Working, AtWork
<1>6. ASSUME NEW p \in Procs, Prune(p) PROVE AllAccounted'
  <2>1. /\ run[p].pc = "loop" /\ run'[p].pc = "swept"
        /\ \/ run'[p].memory = Survivors(p) /\ images' = images \cap Referenced(Survivors(p))
           \/ run'[p].memory = run[p].memory /\ images' = images
    BY <1>6, PruneMoves
  <2>2. faults = 0
    BY <1>6 DEF Prune, counters
  <2>3. images = Referenced(run[p].memory)
    BY <2>1, <2>2 DEF AllAccounted, Accounted, Working, AtWork
  <2>4. images' = Referenced(run'[p].memory)
    BY <2>1, <2>3, KeptImages
  <2> QED
    BY <2>1, <2>4, <1>21, AccountedNext DEF Accounted, Working, AtWork
<1>7. ASSUME NEW p \in Procs, WriteManifest(p) PROVE AllAccounted'
  <2>1. run[p].pc = "swept" /\ run'[p].pc = "ending" /\ run'[p].memory = run[p].memory
    BY <1>7, WriteMoves DEF MovesOn
  <2>2. manifest' = run[p].memory /\ images' = images /\ faults = 0
    BY <1>7 DEF WriteManifest, counters
  <2>3. images' = Referenced(manifest')
    BY <2>1, <2>2 DEF AllAccounted, Accounted, Working, AtWork
  <2> QED
    BY <2>1, <2>2, <2>3, <1>21, AccountedNext DEF Accounted, Working, AtWork
<1>8. ASSUME NEW p \in Procs, RestStep(p) PROVE AllAccounted'
  <2>1. Release(p) /\ UNCHANGED <<manifest, images, faults>>
    BY <1>20, <1>8 DEF RestStep, Release, Crash, disk, counters
  <2>2. run[p].pc = "ending" /\ images' = Referenced(manifest')
    BY <2>1 DEF Release, AllAccounted, Accounted, Working, AtWork
  <2>3. \A q \in Procs : ~Working(q)'
    <3>1. \A q \in Procs \ {p} : ~Working(q) /\ run'[q] = run[q]
      BY <1>21, <1>8, <2>2, RestMoves DEF LockHeld, Working, AtWork, Moves
    <3>2. run'[p].pc = "idle"
      BY <1>8, RestMoves
    <3> QED
      BY <3>1, <3>2 DEF Working, AtWork
  <2> QED
    BY <2>2, <2>3 DEF AllAccounted
<1>9. CASE EditStep \/ LockAges \/ UNCHANGED storeVars
  <2>1. UNCHANGED <<manifest, images, run, faults>>
    BY <1>9, <1>20, AgeChoices DEF EditStep, Edit, storeVars, disk
  <2> QED
    BY <2>1 DEF AllAccounted, Accounted, Working, AtWork, Made
<1>10. CASE CleanupStep
  BY <1>20, <1>10 DEF CleanupStep, Cleanup
<1> QED
  BY <1>1, <1>2, <1>3, <1>4, <1>5, <1>6, <1>7, <1>8, <1>9, <1>10, StepGroups

\* An empty directory and an empty manifest.
LEMMA ImagesInitially == ASSUME StoreInit PROVE AllAccounted
<1>1. \A s \in Slugs : FileOf(s, Empty[s]) = {}
  BY FilesOf DEF Empty
<1>2. Referenced(Empty) = {}
  BY <1>1 DEF Referenced
<1> QED
  BY <1>2 DEF StoreInit, AllAccounted, Working, AtWork, Resting

\* Between runs the directory holds exactly the images the manifest names (runPrewarm: superseded
\* images removed, a full pass prunes), as long as nothing went wrong: no run was killed, no record
\* failed, nobody else deleted files and no lock was lost by a run at work.
THEOREM DirectoriesAreQuiet == StoreSpec => []QuietDirectory
<1> DEFINE IInv == Shape /\ LockInv /\ Counting /\ AllAccounted
<1>1. StoreInit => IInv
  BY ShapeInitially, LockInitially, ImagesInitially
<1>2. IInv /\ [StoreNext]_storeVars => IInv'
  BY ShapeKeeps, LockKeeps, CountingKeeps, ImagesKeep
<1>3. IInv => QuietDirectory
  BY DEF AllAccounted, QuietDirectory
<1> HIDE DEF IInv
<1> QED
  BY <1>1, <1>2, <1>3, PTL DEF StoreSpec

-----------------------------------------------------------------------------
(* The age of entries *)

\* The list of p is no newer than the records, its memory no newer than the list, and neither is
\* older than the manifest on disk when p is alone.
InOrder(p, s) ==
  /\ run[p].listed[s] # NotListed => run[p].listed[s] <= rows[s].hash
  /\ run[p].memory[s] # NoEntry => run[p].memory[s].hash <= rows[s].hash
  /\ run[p].memory[s] # NoEntry /\ run[p].listed[s] # NotListed => run[p].memory[s].hash <= run[p].listed[s]
  /\ alone = p => /\ manifest[s] # NoEntry /\ run[p].listed[s] # NotListed => manifest[s].hash <= run[p].listed[s]
                  /\ manifest[s] # NoEntry /\ run[p].memory[s] # NoEntry => manifest[s].hash <= run[p].memory[s].hash

NeverAhead ==
  /\ \A s \in Slugs : rows[s].hash <= edits
  /\ \A s \in Slugs : manifest[s] # NoEntry => manifest[s].hash <= rows[s].hash
  /\ \A p \in Procs : AtWork(p) => \A s \in Slugs : InOrder(p, s)

\* Hashes are numbers, wherever they are kept.
LEMMA Numbers ==
  ASSUME Shape
  PROVE  /\ edits \in Nat /\ \A s \in Slugs : rows[s].hash \in Nat
         /\ \A s \in Slugs : manifest[s] # NoEntry => manifest[s] \in Entry /\ manifest[s].hash \in Nat
         /\ \A p \in Procs, s \in Slugs :
              /\ run[p].memory[s] # NoEntry => run[p].memory[s] \in Entry /\ run[p].memory[s].hash \in Nat
              /\ run[p].listed[s] # NotListed => run[p].listed[s] \in Nat
<1>1. Hashes \subseteq Nat
  BY StoreAssumption DEF Hashes
<1>2. \A e \in Entry : e.hash \in Nat
  BY <1>1 DEF Entry
<1>3. \A m \in Manifest : \A s \in Slugs : m[s] # NoEntry => m[s] \in Entry
  BY DEF Manifest
<1>4. edits \in Nat /\ \A s \in Slugs : rows[s].hash \in Nat
  <2>1. edits \in 0 .. MaxEdits /\ rows \in [Slugs -> Row]
    BY DEF Shape, StoreTypeOK
  <2>2. edits \in Nat
    BY <2>1, StoreAssumption
  <2>3. \A r \in Row : r.hash \in Nat
    BY <1>1 DEF Row
  <2> QED
    BY <2>1, <2>2, <2>3
<1>5. manifest \in Manifest /\ \A p \in Procs : run[p] \in Run
  BY DEF Shape, StoreTypeOK
<1>6. \A p \in Procs : run[p].memory \in Manifest /\ run[p].listed \in [Slugs -> Hashes \cup {NotListed}]
  BY <1>5, Fields
<1> QED
  BY <1>1, <1>2, <1>3, <1>4, <1>5, <1>6

\* Who moves: p at most, or nobody; only p may become the one that is alone.
Elsewhere(p) == \A q \in Procs \ {p} : run'[q] = run[q] /\ (alone' = q => alone = q)

\* The one that is alone stays so until another reads its list or it ends.
LEMMA AloneKeeps == ASSUME Shape, AloneInv, [StoreNext]_storeVars PROVE AloneInv'
<1>0. run \in [Procs -> Run] /\ Nobody \notin Procs
  BY StoreAssumption DEF Shape, StoreTypeOK
<1>1. ASSUME NEW p \in Procs, LockStep(p) PROVE AloneInv'
  <2>1. alone' = alone /\ ~AtWork(p) /\ ~AtWork(p)' /\ \A q \in Procs \ {p} : run'[q] = run[q]
    BY <1>1, LockMoves DEF Moves, AtWork, Working, LockStep, StartRun, CreateLock, StatLock, BreakLock, history
  <2> QED
    BY <2>1 DEF AloneInv, AtWork
<1>2. ASSUME NEW p \in Procs, ReadList(p) PROVE AloneInv'
  <2>1. /\ AtWork(p)' /\ \A q \in Procs \ {p} : run'[q] = run[q]
        /\ alone' = IF \A q \in Procs : ~AtWork(q) THEN p ELSE Nobody
    BY <1>2, ReadListMoves DEF ReadList, Moves, AtWork
  <2> QED
    BY <1>0, <2>1 DEF AloneInv, AtWork
<1>3. ASSUME NEW p \in Procs, LoopStep(p) \/ RenderStep(p) \/ Record(p) \/ Prune(p) \/ WriteManifest(p)
      PROVE  AloneInv'
  <2>1. alone' = alone
    BY <1>3 DEF LoopStep, Skip, FailRecord, Checkpoint, RenderStep, Render, Record, Prune, WriteManifest, history
  <2>2. AtWork(p) /\ AtWork(p)' /\ \A q \in Procs \ {p} : run'[q] = run[q]
    <3>1. CASE LoopStep(p)
      BY <3>1, LoopMoves DEF MovesOn, Moves, AtWork
    <3>2. CASE RenderStep(p)
      BY <3>2, RenderMoves DEF RenderStep, MovesOn, Moves, AtWork
    <3>3. CASE Record(p)
      BY <3>3, RecordMoves DEF Record, Moves, AtWork
    <3>4. CASE Prune(p)
      BY <3>4, PruneMoves DEF Moves, AtWork
    <3>5. CASE WriteManifest(p)
      BY <3>5, WriteMoves DEF MovesOn, Moves, AtWork
    <3> QED
      BY <1>3, <3>1, <3>2, <3>3, <3>4, <3>5
  <2> QED
    BY <2>1, <2>2 DEF AloneInv, AtWork
<1>4. ASSUME NEW p \in Procs, RestStep(p) PROVE AloneInv'
  <2>1. /\ ~AtWork(p)' /\ \A q \in Procs \ {p} : run'[q] = run[q]
        /\ alone' = IF alone = p THEN Nobody ELSE alone
    BY <1>4, RestMoves DEF Moves, AtWork, RestStep, Release, Crash, Gone
  <2> QED
    BY <1>0, <2>1 DEF AloneInv, AtWork
<1>5. CASE EditStep \/ CleanupStep \/ LockAges \/ UNCHANGED storeVars
  <2>1. UNCHANGED <<run, alone>>
    BY <1>5 DEF EditStep, Edit, CleanupStep, Cleanup, LockAges, storeVars, history
  <2> QED
    BY <2>1 DEF AloneInv, AtWork
<1> QED
  BY <1>1, <1>2, <1>3, <1>4, <1>5, StepGroups

\* p moves and has its entries in order; a manifest that changed is of no concern to others.
LEMMA OrderNext ==
  ASSUME NeverAhead, NEW p \in Procs, Elsewhere(p), UNCHANGED <<rows, edits>>,
         AtWork(p)' => \A s \in Slugs : InOrder(p, s)',
         manifest' = manifest \/ \A q \in Procs \ {p} : alone' # q,
         \A s \in Slugs : manifest'[s] # NoEntry => manifest'[s].hash <= rows[s].hash
  PROVE  NeverAhead'
<1>1. ASSUME NEW q \in Procs \ {p}, AtWork(q)', NEW s \in Slugs PROVE InOrder(q, s)'
  <2>1. InOrder(q, s) /\ run'[q] = run[q] /\ (alone' = q => alone = q)
    BY <1>1 DEF NeverAhead, Elsewhere, AtWork
  <2> QED
    BY <2>1 DEF InOrder
<1> QED
  BY <1>1 DEF NeverAhead

\* Every step keeps the order.
LEMMA OrderKeeps ==
  ASSUME Shape, AloneInv, NeverAhead, [StoreNext]_storeVars
  PROVE  NeverAhead'
<1>1. ASSUME NEW p \in Procs, LockStep(p) PROVE NeverAhead'
  <2>1. /\ ~AtWork(p)' /\ \A q \in Procs \ {p} : run'[q] = run[q]
    BY <1>1, LockMoves DEF Moves, AtWork
  <2>2. UNCHANGED <<rows, manifest, edits>>
    <3>1. CASE \E only \in SUBSET Slugs : StartRun(p, only)
      BY <3>1 DEF StartRun, disk
    <3>2. CASE CreateLock(p) \/ StatLock(p) \/ BreakLock(p)
      BY <3>2 DEF CreateLock, StatLock, BreakLock, disk, counters
    <3> QED
      BY <1>1, <3>1, <3>2 DEF LockStep
  <2>3. Elsewhere(p)
    BY <1>1, <2>1 DEF Elsewhere, LockStep, StartRun, CreateLock, StatLock, BreakLock, history
  <2> QED
    BY <2>1, <2>2, <2>3, OrderNext DEF NeverAhead
<1>2. ASSUME NEW p \in Procs, ReadList(p) PROVE NeverAhead'
  <2>1. /\ run'[p].pc = "loop" /\ run'[p].memory = manifest /\ UNCHANGED <<rows, manifest, edits>>
        /\ \A s \in Slugs : run'[p].listed[s] # NotListed => run'[p].listed[s] = rows[s].hash
    BY <1>2, ReadListMoves DEF ReadList, disk, counters
  <2>2. \A s \in Slugs : InOrder(p, s)'
    BY <2>1, Numbers DEF NeverAhead, InOrder
  <2>3. Elsewhere(p)
    BY <1>2, ReadListMoves, StoreAssumption DEF Elsewhere, Moves, ReadList
  <2> QED
    BY <2>1, <2>2, <2>3, OrderNext DEF NeverAhead
<1>3. ASSUME NEW p \in Procs, LoopStep(p) \/ WriteManifest(p) PROVE NeverAhead'
  <2>0. AtWork(p) /\ Moves(p) /\ alone' = alone
        /\ run'[p].memory = run[p].memory /\ run'[p].listed = run[p].listed
    BY <1>3, LoopMoves, WriteMoves DEF MovesOn, AtWork, LoopStep, Skip, FailRecord, Checkpoint, WriteManifest, history
  <2>1. /\ AtWork(p) /\ Elsewhere(p) /\ \A q \in Procs \ {p} : alone' # q
        /\ run'[p].memory = run[p].memory /\ run'[p].listed = run[p].listed
    BY <2>0 DEF Elsewhere, Moves, AloneInv
  <2>2. UNCHANGED <<rows, edits>> /\ manifest' \in {manifest, run[p].memory}
    BY <1>3 DEF LoopStep, Skip, FailRecord, Checkpoint, WriteManifest, disk, counters
  <2>3. \A s \in Slugs : InOrder(p, s)
    BY <2>1 DEF NeverAhead
  <2>4. \A s \in Slugs : InOrder(p, s)'
    BY <2>0, <2>1, <2>2, <2>3, Numbers DEF InOrder
  <2>5. \A s \in Slugs : manifest'[s] # NoEntry => manifest'[s].hash <= rows[s].hash
    BY <2>2, <2>3 DEF InOrder, NeverAhead
  <2> QED
    BY <2>1, <2>2, <2>4, <2>5, OrderNext
<1>4. ASSUME NEW p \in Procs, RenderStep(p) PROVE NeverAhead'
  <2>1. PICK s \in Slugs, kind \in Kinds, due \in BOOLEAN : Render(p, s, kind, due)
    BY <1>4 DEF RenderStep
  <2>2. /\ AtWork(p) /\ Moves(p)
        /\ run'[p].memory = run[p].memory /\ run'[p].listed = run[p].listed
    BY <2>1, RenderMoves DEF MovesOn, AtWork
  <2>3. UNCHANGED <<rows, edits, manifest, alone>>
    BY <2>1 DEF Render, counters, history
  <2>4. Elsewhere(p) /\ \A s2 \in Slugs : InOrder(p, s2)'
    BY <2>2, <2>3 DEF Elsewhere, Moves, NeverAhead, InOrder
  <2> QED
    BY <2>3, <2>4, OrderNext DEF NeverAhead
<1>5. ASSUME NEW p \in Procs, Record(p) PROVE NeverAhead'
  <2>1. /\ AtWork(p) /\ Moves(p) /\ run'[p].listed = run[p].listed
        /\ run[p].slug \in Slugs /\ run[p].listed[run[p].slug] # NotListed
        /\ run'[p].memory = [run[p].memory EXCEPT ![run[p].slug] = Made(p)]
    BY <1>5, RecordMoves DEF Record, AtWork
  <2>2. UNCHANGED <<rows, edits, manifest, alone>>
    BY <1>5 DEF Record, counters, history
  <2>3. run[p].memory \in Manifest
    BY Fields DEF Shape, StoreTypeOK
  <2>4. /\ run'[p].memory[run[p].slug] = Made(p) /\ Made(p).hash = run[p].listed[run[p].slug]
        /\ \A s \in Slugs \ {run[p].slug} : run'[p].memory[s] = run[p].memory[s]
    BY <2>1, <2>3 DEF Manifest, Made
  <2>5. \A s \in Slugs : InOrder(p, s)
    BY <2>1 DEF NeverAhead
  <2>6. \A s \in Slugs \ {run[p].slug} : InOrder(p, s)'
    <3> SUFFICES ASSUME NEW s \in Slugs \ {run[p].slug} PROVE InOrder(p, s)'
      OBVIOUS
    <3>1. /\ run'[p].memory[s] = run[p].memory[s] /\ run'[p].listed[s] = run[p].listed[s]
          /\ rows'[s] = rows[s] /\ manifest'[s] = manifest[s] /\ alone' = alone
      BY <2>1, <2>2, <2>4
    <3>2. InOrder(p, s)
      BY <2>5
    <3> QED
      BY <3>1, <3>2 DEF InOrder
  <2>7. ASSUME NEW s \in Slugs, s = run[p].slug PROVE InOrder(p, s)'
    <3>1. run[p].listed[s] # NotListed
      BY <2>1, <2>7
    <3>2. InOrder(p, s) /\ run[p].listed[s] \in Nat
      BY <3>1, <2>5, Numbers
    <3>3. /\ run'[p].memory[s].hash = run[p].listed[s] /\ run'[p].listed[s] = run[p].listed[s]
          /\ rows'[s] = rows[s] /\ manifest'[s] = manifest[s] /\ alone' = alone
      BY <2>1, <2>2, <2>4, <2>7
    <3>4. /\ run'[p].listed[s] <= rows'[s].hash
          /\ run'[p].memory[s].hash <= rows'[s].hash
          /\ run'[p].memory[s].hash <= run'[p].listed[s]
          /\ alone' = p /\ manifest'[s] # NoEntry => manifest'[s].hash <= run'[p].listed[s]
      BY <3>1, <3>2, <3>3 DEF InOrder
    <3>5. alone' = p /\ manifest'[s] # NoEntry => manifest'[s].hash <= run'[p].memory[s].hash
      BY <3>3, <3>4
    <3> QED
      BY <3>4, <3>5 DEF InOrder
  <2>8. \A s \in Slugs : InOrder(p, s)'
    BY <2>6, <2>7
  <2>9. \A s \in Slugs : manifest'[s] # NoEntry => manifest'[s].hash <= rows[s].hash
    BY <2>2 DEF NeverAhead
  <2> QED
    BY <2>1, <2>2, <2>8, <2>9, OrderNext DEF Elsewhere, Moves
<1>6. ASSUME NEW p \in Procs, Prune(p) PROVE NeverAhead'
  <2>1. /\ AtWork(p) /\ Moves(p) /\ run'[p].listed = run[p].listed
        /\ run'[p].memory \in {Survivors(p), run[p].memory}
    BY <1>6, PruneMoves DEF AtWork
  <2>2. UNCHANGED <<rows, edits, manifest, alone>>
    BY <1>6 DEF Prune, counters, history
  <2>3. \A s \in Slugs : run'[p].memory[s] \in {NoEntry, run[p].memory[s]}
    BY <2>1 DEF Survivors
  <2>4. \A s \in Slugs : InOrder(p, s)
    BY <2>1 DEF NeverAhead
  <2>5. \A s \in Slugs : InOrder(p, s)'
    BY <2>1, <2>2, <2>3, <2>4 DEF InOrder
  <2> QED
    BY <2>1, <2>2, <2>5, OrderNext DEF NeverAhead, Elsewhere, Moves
<1>7. ASSUME NEW p \in Procs, RestStep(p) PROVE NeverAhead'
  <2>1. ~AtWork(p)' /\ \A q \in Procs \ {p} : run'[q] = run[q]
    BY <1>7, RestMoves DEF Moves, AtWork
  <2>2. UNCHANGED <<rows, manifest, edits>>
    BY <1>7 DEF RestStep, Release, Crash, disk, counters
  <2>3. Elsewhere(p)
    BY <1>7, <2>1, StoreAssumption DEF Elsewhere, RestStep, Release, Crash, Gone
  <2> QED
    BY <2>1, <2>2, <2>3, OrderNext DEF NeverAhead
<1>8. CASE EditStep
  <2>1. PICK s \in Slugs, changed, shown \in BOOLEAN : Edit(s, changed, shown)
    BY <1>8 DEF EditStep
  <2>2. /\ UNCHANGED <<manifest, run, alone>> /\ edits' = edits + 1
        /\ rows' = [rows EXCEPT ![s] = [hash |-> IF changed THEN edits + 1 ELSE rows[s].hash, shown |-> shown]]
    BY <2>1 DEF Edit, disk, history
  <2>3. rows \in [Slugs -> Row]
    BY DEF Shape, StoreTypeOK
  <2>4. rows'[s].hash \in {edits + 1, rows[s].hash} /\ \A t \in Slugs \ {s} : rows'[t] = rows[t]
    BY <2>2, <2>3
  <2>5. \A t \in Slugs : rows'[t].hash \in Nat /\ rows[t].hash <= rows'[t].hash /\ rows'[t].hash <= edits'
    BY <2>2, <2>4, Numbers DEF NeverAhead
  <2>6. \A t \in Slugs : manifest'[t] # NoEntry => manifest'[t].hash <= rows'[t].hash
    BY <2>2, <2>5, Numbers DEF NeverAhead
  <2>7. ASSUME NEW q \in Procs, AtWork(q)', NEW t \in Slugs PROVE InOrder(q, t)'
    <3>1. InOrder(q, t)
      BY <2>2, <2>7 DEF NeverAhead, AtWork
    <3> QED
      BY <2>2, <2>5, <3>1, Numbers DEF InOrder
  <2> QED
    BY <2>5, <2>6, <2>7 DEF NeverAhead
<1>9. CASE CleanupStep \/ LockAges \/ UNCHANGED storeVars
  <2>1. UNCHANGED <<rows, manifest, run, edits, alone>>
    BY <1>9 DEF CleanupStep, Cleanup, LockAges, storeVars, disk, counters
  <2> QED
    BY <2>1 DEF NeverAhead, InOrder, AtWork
<1> QED
  BY <1>1, <1>2, <1>3, <1>4, <1>5, <1>6, <1>7, <1>8, <1>9, StepGroups

\* Records as first ingested, no entry, no run.
LEMMA OrderInitially == ASSUME StoreInit PROVE NeverAhead /\ AloneInv
BY StoreAssumption DEF StoreInit, NeverAhead, AloneInv, AtWork, Resting, Empty

-----------------------------------------------------------------------------
(* Taking turns *)

\* Nobody comes or goes and no memory changes.
LEMMA Stutters ==
  ASSUME \A q \in Procs : AtWork(q)' <=> AtWork(q),
         \A q \in Procs : AtWork(q) => run'[q].memory = run[q].memory
  PROVE  Writers' = Writers /\ Drafts' = Drafts
BY DEF Writers, Drafts

\* p goes on.
LEMMA Stays ==
  ASSUME NEW p \in Procs, Moves(p), AtWork(p), AtWork(p)'
  PROVE  /\ p \in Writers /\ Drafts[p] = run[p].memory
         /\ Writers' = Writers /\ Drafts' = [Drafts EXCEPT ![p] = run'[p].memory]
<1>1. \A q \in Procs \ {p} : run'[q] = run[q] /\ (AtWork(q)' <=> AtWork(q))
  BY DEF Moves, AtWork
<1>2. Drafts' = [q \in Procs |-> IF q = p THEN run'[p].memory ELSE Drafts[q]]
  BY <1>1 DEF Drafts
<1> QED
  BY <1>1, <1>2 DEF Writers, Drafts

\* p begins.
LEMMA Joins ==
  ASSUME NEW p \in Procs, Moves(p), ~AtWork(p), AtWork(p)'
  PROVE  Writers' = Writers \cup {p} /\ Drafts' = [Drafts EXCEPT ![p] = run'[p].memory]
<1>1. \A q \in Procs \ {p} : run'[q] = run[q] /\ (AtWork(q)' <=> AtWork(q))
  BY DEF Moves, AtWork
<1>2. Drafts' = [q \in Procs |-> IF q = p THEN run'[p].memory ELSE Drafts[q]]
  BY <1>1 DEF Drafts
<1> QED
  BY <1>1, <1>2 DEF Writers, Drafts

\* p ends.
LEMMA Leaves ==
  ASSUME NEW p \in Procs, Moves(p), AtWork(p), ~AtWork(p)'
  PROVE  Writers' = Writers \ {p} /\ Drafts' = [Drafts EXCEPT ![p] = Empty]
<1>1. \A q \in Procs \ {p} : run'[q] = run[q] /\ (AtWork(q)' <=> AtWork(q))
  BY DEF Moves, AtWork
<1>2. Drafts' = [q \in Procs |-> IF q = p THEN Empty ELSE Drafts[q]]
  BY <1>1 DEF Drafts
<1> QED
  BY <1>1, <1>2 DEF Writers, Drafts

\* The steps of PreviewSessions, without its remark on order.
Turn ==
  \/ \E p \in Procs : Sessions!Begin(p) \/ Sessions!Publish(p) \/ Sessions!End(p)
  \/ \E p \in Procs, s \in Slugs : Sessions!Revise(p, s)
  \/ \E p \in Procs, S \in SUBSET Slugs : Sessions!Drop(p, S)
  \/ Sessions!Disturb

\* Every step of the generator is such a step.
LEMMA StepsAreTurns ==
  ASSUME Shape, LockInv, NeverAhead, AloneInv, [StoreNext]_storeVars
  PROVE  Turn
<1>0. run \in [Procs -> Run]
  BY DEF Shape, StoreTypeOK
<1>1. ASSUME NEW p \in Procs, LockStep(p) PROVE Turn
  <2>1. ~AtWork(p) /\ ~AtWork(p)' /\ \A q \in Procs \ {p} : run'[q] = run[q]
    BY <1>1, LockMoves DEF Moves, AtWork, Working
  <2>2. UNCHANGED <<manifest, alone>>
    BY <1>1 DEF LockStep, StartRun, CreateLock, StatLock, BreakLock, disk, history
  <2>3. \A q \in Procs : (AtWork(q)' <=> AtWork(q)) /\ (AtWork(q) => run'[q] = run[q])
    BY <2>1 DEF AtWork
  <2> QED
    BY <2>2, <2>3, Stutters DEF Turn, Sessions!Disturb
<1>2. ASSUME NEW p \in Procs, ReadList(p) PROVE Turn
  <2>1. Moves(p) /\ ~AtWork(p) /\ AtWork(p)' /\ run'[p].memory = manifest /\ manifest' = manifest
    BY <1>2, ReadListMoves DEF ReadList, AtWork, disk
  <2>2. p \notin Writers /\ alone' = IF Writers = {} THEN p ELSE Nobody
    BY <1>2, <2>1 DEF ReadList, Writers
  <2>3. disorder = {} => Writers = {}
    <3>1. SUFFICES ASSUME disorder = {}, NEW q \in Procs, AtWork(q) PROVE FALSE
      BY DEF Writers
    <3>2. Working(p) /\ Working(q)
      BY <1>2, <3>1 DEF ReadList, Working
    <3> QED
      BY <2>1, <3>1, <3>2 DEF LockInv, LockHeld
  <2>4. Sessions!Begin(p)
    BY <2>1, <2>2, <2>3, Joins DEF Sessions!Begin
  <2> QED
    BY <2>4 DEF Turn
<1>3. ASSUME NEW p \in Procs, LoopStep(p) \/ WriteManifest(p) PROVE Turn
  <2>1. /\ Moves(p) /\ AtWork(p) /\ AtWork(p)' /\ run'[p].memory = run[p].memory
        /\ manifest' \in {manifest, run[p].memory} /\ alone' = alone
    <3>1. Moves(p) /\ AtWork(p) /\ AtWork(p)' /\ run'[p].memory = run[p].memory
      BY <1>3, LoopMoves, WriteMoves DEF MovesOn, AtWork
    <3>2. manifest' \in {manifest, run[p].memory} /\ alone' = alone
      BY <1>3 DEF LoopStep, Skip, FailRecord, Checkpoint, WriteManifest, disk, history
    <3> QED
      BY <3>1, <3>2
  <2>2. \A q \in Procs : (AtWork(q)' <=> AtWork(q)) /\ run'[q].memory = run[q].memory
    BY <2>1 DEF Moves, AtWork
  <2>3. UNCHANGED <<Writers, Drafts>> /\ p \in Writers /\ Drafts[p] = run[p].memory
    BY <2>1, <2>2, Stutters, Stays
  <2>4. ASSUME alone = p, NEW s \in Slugs, manifest[s] # NoEntry, run[p].memory[s] # NoEntry
        PROVE  run[p].memory[s].hash >= manifest[s].hash
    <3>1. InOrder(p, s)
      BY <2>1 DEF NeverAhead
    <3> QED
      BY <2>4, <3>1, Numbers DEF InOrder
  <2>5. CASE manifest' = manifest
    BY <2>1, <2>3, <2>5 DEF Turn, Sessions!Disturb
  <2>6. CASE manifest' = run[p].memory
    <3>1. Sessions!Publish(p)
      BY <2>1, <2>3, <2>4, <2>6 DEF Sessions!Publish
    <3> QED
      BY <3>1 DEF Turn
  <2> QED
    BY <2>1, <2>5, <2>6
<1>4. ASSUME NEW p \in Procs, RenderStep(p) PROVE Turn
  <2>1. PICK s \in Slugs, kind \in Kinds, due \in BOOLEAN : Render(p, s, kind, due)
    BY <1>4 DEF RenderStep
  <2>2. Moves(p) /\ AtWork(p) /\ AtWork(p)' /\ run'[p].memory = run[p].memory
    BY <2>1, RenderMoves DEF Render, MovesOn, AtWork
  <2>3. \A q \in Procs : (AtWork(q)' <=> AtWork(q)) /\ run'[q].memory = run[q].memory
    BY <2>2 DEF Moves, AtWork
  <2>4. UNCHANGED <<manifest, alone>>
    BY <2>1 DEF Render, history
  <2> QED
    BY <2>3, <2>4, Stutters DEF Turn, Sessions!Disturb
<1>5. ASSUME NEW p \in Procs, Record(p) PROVE Turn
  <2> DEFINE s == run[p].slug
  <2>1. /\ Moves(p) /\ AtWork(p) /\ AtWork(p)' /\ s \in Slugs /\ Made(p) \in Entry
        /\ run[p].listed[s] # NotListed /\ run'[p].memory = [run[p].memory EXCEPT ![s] = Made(p)]
    BY <1>5, RecordMoves DEF Record, AtWork
  <2>2. UNCHANGED <<manifest, alone>>
    BY <1>5 DEF Record, history
  <2>3. /\ p \in Writers /\ Drafts[p] = run[p].memory /\ Writers' = Writers
        /\ Drafts' = [Drafts EXCEPT ![p] = run'[p].memory]
    BY <2>1, Stays
  <2>4. Sessions!Younger(Drafts[p][s], Made(p))
    <3>1. Made(p) # NoEntry /\ Made(p).hash = run[p].listed[s]
      BY <2>1, StoreAssumption DEF Made
    <3>2. run[p].memory[s] # NoEntry => run[p].memory[s].hash <= run[p].listed[s]
      BY <2>1 DEF NeverAhead, InOrder
    <3> QED
      BY <2>1, <2>3, <3>1, <3>2, Numbers DEF Sessions!Younger
  <2> DEFINE e == Made(p)
  <2>5. Drafts' = [Drafts EXCEPT ![p][s] = e]
    <3>1. run'[p].memory = [Drafts[p] EXCEPT ![s] = e]
      BY <2>1, <2>3
    <3>2. Drafts' = [Drafts EXCEPT ![p] = [Drafts[p] EXCEPT ![s] = e]]
      BY <2>3, <3>1
    <3> HIDE DEF e, s
    <3> QED
      BY <3>2
  <2>6. Sessions!Revise(p, s)
    BY <2>1, <2>2, <2>3, <2>4, <2>5 DEF Sessions!Revise
  <2> QED
    BY <2>1, <2>6 DEF Turn
<1>6. ASSUME NEW p \in Procs, Prune(p) PROVE Turn
  <2>1. /\ Moves(p) /\ AtWork(p) /\ AtWork(p)'
        /\ run'[p].memory = Survivors(p) \/ run'[p].memory = run[p].memory
    BY <1>6, PruneMoves DEF AtWork
  <2>2. UNCHANGED <<manifest, alone>>
    BY <1>6 DEF Prune, history
  <2>3. /\ p \in Writers /\ Drafts[p] = run[p].memory /\ Writers' = Writers
        /\ Drafts' = [Drafts EXCEPT ![p] = run'[p].memory]
    BY <2>1, Stays
  <2>4. CASE run'[p].memory = run[p].memory
    <3>1. \A q \in Procs : (AtWork(q)' <=> AtWork(q)) /\ run'[q].memory = run[q].memory
      BY <2>1, <2>4 DEF Moves, AtWork
    <3> QED
      BY <2>2, <3>1, Stutters DEF Turn, Sessions!Disturb
  <2>5. CASE run'[p].memory = Survivors(p)
    <3> DEFINE S == {s \in Slugs : run[p].listed[s] = NotListed}
    <3>1. Survivors(p) = [s \in Slugs |-> IF s \in S THEN NoEntry ELSE Drafts[p][s]]
      BY <2>3 DEF Survivors
    <3>2. Sessions!Drop(p, S)
      BY <2>2, <2>3, <2>5, <3>1 DEF Sessions!Drop
    <3>3. S \in SUBSET Slugs
      OBVIOUS
    <3> HIDE DEF S
    <3> QED
      BY <3>2, <3>3 DEF Turn
  <2> QED
    BY <2>1, <2>4, <2>5
<1>7. ASSUME NEW p \in Procs, RestStep(p) PROVE Turn
  <2>1. /\ Moves(p) /\ ~AtWork(p)' /\ manifest' = manifest
        /\ alone' = IF alone = p THEN Nobody ELSE alone
    BY <1>7, RestMoves DEF AtWork, RestStep, Release, Crash, Gone, disk
  <2>2. CASE AtWork(p)
    <3>1. Sessions!Blank = Empty
      BY DEF Sessions!Blank, Empty
    <3>2. Sessions!End(p)
      BY <2>1, <2>2, <3>1, Leaves DEF Sessions!End, Writers
    <3> QED
      BY <3>2 DEF Turn
  <2>3. CASE ~AtWork(p)
    <3>1. \A q \in Procs : (AtWork(q)' <=> AtWork(q)) /\ (AtWork(q) => run'[q] = run[q])
      BY <2>1, <2>3 DEF Moves, AtWork
    <3>2. alone' = alone
      BY <2>1, <2>3 DEF AloneInv
    <3> QED
      BY <2>1, <3>1, <3>2, Stutters DEF Turn, Sessions!Disturb
  <2> QED
    BY <2>2, <2>3
<1>8. CASE EditStep \/ CleanupStep \/ LockAges \/ UNCHANGED storeVars
  <2>1. UNCHANGED <<manifest, run, alone>>
    BY <1>8 DEF EditStep, Edit, CleanupStep, Cleanup, LockAges, storeVars, disk, history
  <2>2. \A q \in Procs : (AtWork(q)' <=> AtWork(q)) /\ run'[q].memory = run[q].memory
    BY <2>1 DEF AtWork
  <2> QED
    BY <2>1, <2>2, Stutters DEF Turn, Sessions!Disturb
<1> QED
  BY <1>1, <1>2, <1>3, <1>4, <1>5, <1>6, <1>7, <1>8, StepGroups

\* At the start nobody writes and the manifest is empty.
LEMMA TurnsInitially == ASSUME StoreInit PROVE Sessions!SessionInit
<1>1. \A p \in Procs : ~AtWork(p)
  BY DEF StoreInit, AtWork, Resting
<1>2. Writers = {} /\ Drafts = [p \in Procs |-> Empty]
  BY <1>1 DEF Writers, Drafts
<1> QED
  BY <1>2 DEF StoreInit, Empty, Sessions!SessionInit, Sessions!Blank

\* The runs of the generator implement PreviewSessions, for any processes, records, edits, crashes,
\* cleanups, long runs and races for the lock: in order they take turns, and no run that works alone
\* replaces an entry on disk by one of an earlier state of its record.
THEOREM RunsTakeTurns == StoreSpec => TakeTurns
<1> DEFINE IInv == Shape /\ LockInv /\ AloneInv /\ NeverAhead
<1>1. StoreInit => IInv /\ Sessions!SessionInit
  BY ShapeInitially, LockInitially, OrderInitially, TurnsInitially
<1>2. IInv /\ [StoreNext]_storeVars => IInv'
  BY ShapeKeeps, LockKeeps, AloneKeeps, OrderKeeps
<1>3. IInv /\ [StoreNext]_storeVars => [Sessions!SessionNext]_Sessions!sessionVars
  <2>1. SUFFICES ASSUME IInv, [StoreNext]_storeVars PROVE Sessions!SessionNext
    OBVIOUS
  <2>2. Turn
    BY <2>1, StepsAreTurns
  <2>3. disorder' = {} => disorder = {} \/ Writers' = {}
    <3>1. Calm' => Writers' = {}
      BY DEF Calm, Working, Writers
    <3> QED
      BY <2>1, <3>1, OrderReturns
  <2> QED
    BY <2>2, <2>3 DEF Turn, Sessions!SessionNext
<1> HIDE DEF IInv
<1> QED
  BY <1>1, <1>2, <1>3, PTL DEF StoreSpec, TakeTurns, Sessions!SessionSpec

-----------------------------------------------------------------------------
(* Healing *)

\* An entry is the one to have: of the state that was read, and its image is there.
Done(s, e, hash, files) == e # NoEntry /\ e.hash = hash /\ FileOf(s, e) \subseteq files

Complete(p, m) ==
  /\ \A s \in Slugs : run[p].listed[s] # NotListed => m[s] # NoEntry /\ m[s].hash = run[p].listed[s]
  /\ images = Referenced(m)

\* What a full run has done, when nobody disturbs it: the records it is through with are done.
Progress(p) ==
  /\ run[p].pc \in {"loop", "rendered"} =>
       \A s \in Slugs : run[p].listed[s] # NotListed /\ s \notin run[p].todo =>
         Done(s, run[p].memory[s], run[p].listed[s], images)
  /\ run[p].pc = "rendered" => FileOf(run[p].slug, Made(p)) \subseteq images
  /\ run[p].pc = "swept" => Complete(p, run[p].memory)
  /\ run[p].pc = "ending" => Complete(p, manifest)

Undisturbed(p) == alone = p /\ peace /\ run[p].only = {}
Healing == \A p \in Procs : Undisturbed(p) => Progress(p)

\* A step elsewhere that leaves the disk alone.
LEMMA HealsElsewhere ==
  ASSUME Healing, NEW q \in Procs, run'[q] = run[q], UNCHANGED <<manifest, images>>,
         Undisturbed(q)' => Undisturbed(q), Undisturbed(q)'
  PROVE  Progress(q)'
<1>1. Progress(q)
  BY DEF Healing
<1> QED
  BY <1>1 DEF Progress, Done, Complete, Made

\* What is at work keeps its orders.
LEMMA OrdersStay ==
  ASSUME Shape, NEW p \in Procs,
         LoopStep(p) \/ RenderStep(p) \/ Record(p) \/ Prune(p) \/ WriteManifest(p)
  PROVE  run'[p].only = run[p].only
<1>0. run \in [Procs -> Run] /\ run[p] \in Run
  BY DEF Shape, StoreTypeOK
<1>1. ASSUME NEW s \in Slugs, NEW due \in BOOLEAN, Skip(p, s, due) PROVE run'[p].only = run[p].only
  BY <1>0, <1>1 DEF Skip, Run
<1>2. ASSUME NEW s \in Slugs, FailRecord(p, s) PROVE run'[p].only = run[p].only
  BY <1>0, <1>2 DEF FailRecord, Counted, Run
<1>3. CASE Checkpoint(p)
  BY <1>0, <1>3 DEF Checkpoint, Run
<1>4. ASSUME NEW s \in Slugs, NEW kind \in Kinds, NEW due \in BOOLEAN, Render(p, s, kind, due)
      PROVE  run'[p].only = run[p].only
  BY <1>0, <1>4 DEF Render, Run
<1>5. CASE Record(p)
  <2>1. Counted(run[p]).only = run[p].only /\ Counted(run[p]) \in [{"pc", "attempt", "only", "memory",
          "listed", "todo", "slug", "kind", "since"} -> {Counted(run[p])[x] : x \in {"pc", "attempt", "only",
          "memory", "listed", "todo", "slug", "kind", "since"}}]
    BY <1>0 DEF Counted, Run
  <2> QED
    BY <1>0, <1>5, <2>1 DEF Record
<1>6. CASE Prune(p)
  BY <1>0, <1>6 DEF Prune, Run
<1>7. CASE WriteManifest(p)
  BY <1>0, <1>7 DEF WriteManifest, Run
<1> QED
  BY <1>1, <1>2, <1>3, <1>4, <1>5, <1>6, <1>7 DEF LoopStep, RenderStep

\* What is left to do after each step of the loop.
LEMMA TodoShrinks ==
  ASSUME Shape, NEW p \in Procs
  PROVE  /\ \A s \in Slugs, due \in BOOLEAN : Skip(p, s, due) => run'[p].todo = run[p].todo \ {s}
         /\ Checkpoint(p) => run'[p].todo = run[p].todo
         /\ \A s \in Slugs, kind \in Kinds, due \in BOOLEAN :
              Render(p, s, kind, due) => run'[p].todo = run[p].todo
<1>0. run \in [Procs -> Run] /\ run[p] \in Run
  BY DEF Shape, StoreTypeOK
<1>1. ASSUME NEW s \in Slugs, NEW due \in BOOLEAN, Skip(p, s, due) PROVE run'[p].todo = run[p].todo \ {s}
  BY <1>0, <1>1 DEF Skip, Run
<1>2. ASSUME Checkpoint(p) PROVE run'[p].todo = run[p].todo
  BY <1>0, <1>2 DEF Checkpoint, Run
<1>3. ASSUME NEW s \in Slugs, NEW kind \in Kinds, NEW due \in BOOLEAN, Render(p, s, kind, due)
      PROVE  run'[p].todo = run[p].todo
  BY <1>0, <1>3 DEF Render, Run
<1> QED
  BY <1>1, <1>2, <1>3

\* A record is recorded: it is off the list.
LEMMA RecordedOff ==
  ASSUME Shape, NEW p \in Procs, Record(p)
  PROVE  run'[p].todo = run[p].todo \ {run[p].slug}
<1>0. run \in [Procs -> Run] /\ run[p] \in Run
  BY DEF Shape, StoreTypeOK
<1> DEFINE c == Counted(run[p])
           e == [hash |-> run[p].listed[run[p].slug], kind |-> run[p].kind]
<1>1. run' = [run EXCEPT ![p] = [c EXCEPT !.memory[run[p].slug] = e, !.todo = run[p].todo \ {run[p].slug}]]
  BY DEF Record
<1>2. c.todo = run[p].todo /\ "todo" \in DOMAIN c
  BY <1>0 DEF Counted, Run
<1> HIDE DEF c, e
<1> QED
  BY <1>0, <1>1, <1>2

\* Every step of a full run that is left alone is progress.
LEMMA HealingKeeps ==
  ASSUME Shape, AloneInv, Healing, [StoreNext]_storeVars
  PROVE  Healing'
<1>0. run \in [Procs -> Run] /\ Nobody \notin Procs
  BY StoreAssumption DEF Shape, StoreTypeOK
<1> SUFFICES ASSUME NEW q \in Procs, Undisturbed(q)' PROVE Progress(q)'
  BY DEF Healing
<1>1. ASSUME NEW p \in Procs, LockStep(p) PROVE Progress(q)'
  <2>1. ~AtWork(p) /\ ~AtWork(p)' /\ \A r \in Procs \ {p} : run'[r] = run[r]
    BY <1>1, LockMoves DEF Moves, AtWork, Working
  <2>2. UNCHANGED <<manifest, images, alone, peace>>
    BY <1>1, StatChoices DEF LockStep, StartRun, CreateLock, BreakLock, disk, history
  <2>3. q # p
    BY <2>1, <2>2 DEF AloneInv, Undisturbed
  <2> QED
    BY <2>1, <2>2, <2>3, HealsElsewhere DEF Undisturbed
<1>2. ASSUME NEW p \in Procs, ReadList(p) PROVE Progress(q)'
  <2>1. q = p
    BY <1>0, <1>2 DEF Undisturbed, ReadList
  <2> QED
    BY <1>2, <2>1, ReadListMoves DEF Progress
<1>3. ASSUME NEW p \in Procs, LoopStep(p) \/ RenderStep(p) \/ Record(p) \/ Prune(p) \/ WriteManifest(p), q = p
      PROVE  Progress(q)'
  <2>0. run[p].only = {} /\ run'[p].only = {} /\ alone = p /\ peace /\ peace' /\ Progress(p)
        /\ ~(\E s \in Slugs : FailRecord(p, s))
    <3>1. alone' = alone /\ (peace' => peace) /\ ~(\E s \in Slugs : FailRecord(p, s))
      BY <1>3 DEF LoopStep, Skip, FailRecord, Checkpoint, RenderStep, Render, Record, Prune, WriteManifest, history,
                  Undisturbed
    <3> QED
      BY <1>3, <3>1, OrdersStay DEF Undisturbed, Healing
  <2>1. ASSUME NEW s \in Slugs, NEW due \in BOOLEAN, Skip(p, s, due) PROVE Progress(p)'
    <3>1. /\ run[p].pc = "loop" /\ run'[p].pc = "loop" /\ run'[p].memory = run[p].memory
          /\ run'[p].listed = run[p].listed /\ run'[p].todo = run[p].todo \ {s} /\ images' = images
      BY <2>1, LoopMoves, TodoShrinks DEF LoopStep, MovesOn, Skip, disk
    <3>2. Done(s, run[p].memory[s], run[p].listed[s], images)
      BY <2>1 DEF Skip, IsCurrent, Done
    <3>3. \A t \in Slugs : run[p].listed[t] # NotListed /\ t \notin run'[p].todo =>
            Done(t, run[p].memory[t], run[p].listed[t], images)
      BY <2>0, <3>1, <3>2 DEF Progress
    <3> QED
      BY <3>1, <3>3 DEF Progress, Done
  <2>2. ASSUME Checkpoint(p) PROVE Progress(p)'
    <3>1. /\ run[p].pc = "loop" /\ run'[p].pc = "loop" /\ run'[p].memory = run[p].memory
          /\ run'[p].listed = run[p].listed /\ run'[p].todo = run[p].todo /\ images' = images
      BY <2>2, LoopMoves, TodoShrinks DEF LoopStep, MovesOn, Checkpoint
    <3> QED
      BY <2>0, <3>1 DEF Progress, Done
  <2>3. ASSUME NEW s \in Slugs, NEW kind \in Kinds, NEW due \in BOOLEAN, Render(p, s, kind, due)
        PROVE  Progress(p)'
    <3>1. /\ run[p].pc = "loop" /\ run'[p].pc = "rendered" /\ run'[p].memory = run[p].memory
          /\ run'[p].listed = run[p].listed /\ run'[p].todo = run[p].todo
          /\ run'[p].slug = s /\ run'[p].kind = kind
      BY <2>3, RenderMoves, TodoShrinks DEF MovesOn
    <3>6. images \subseteq images'
      BY <2>3 DEF Render
    <3>2. FileOf(s, [hash |-> run[p].listed[s], kind |-> kind]) \subseteq images'
      BY <2>3 DEF Render, FileOf
    <3>3. Made(p)' = [hash |-> run[p].listed[s], kind |-> kind]
      BY <3>1 DEF Made
    <3>4. FileOf(run'[p].slug, Made(p)') \subseteq images'
      BY <3>1, <3>2, <3>3
    <3>5. \A t \in Slugs : run'[p].listed[t] # NotListed /\ t \notin run'[p].todo =>
            Done(t, run'[p].memory[t], run'[p].listed[t], images')
      BY <2>0, <3>1, <3>6 DEF Progress, Done
    <3> QED
      BY <3>1, <3>4, <3>5 DEF Progress
  <2>4. ASSUME Record(p) PROVE Progress(p)'
    <3> DEFINE s == run[p].slug
    <3>1. /\ run[p].pc = "rendered" /\ run'[p].pc = "loop" /\ run'[p].listed = run[p].listed
          /\ s \in Slugs /\ run[p].memory \in Manifest /\ Made(p) \in Entry
          /\ run'[p].memory = [run[p].memory EXCEPT ![s] = Made(p)]
          /\ run'[p].todo = run[p].todo \ {s}
      BY <1>0, <2>4, RecordMoves, RecordedOff, Fields DEF Record
    <3>2. images' = images \ Superseded(s, run[p].memory[s], Made(p))
      BY <2>4 DEF Record, Made
    <3>3. run'[p].memory[s] = Made(p) /\ \A t \in Slugs \ {s} : run'[p].memory[t] = run[p].memory[t]
      BY <3>1 DEF Manifest
    <3>4. Done(s, run'[p].memory[s], run'[p].listed[s], images')
      <4>1. FileOf(s, Made(p)) \subseteq images'
        BY <2>0, <3>1, <3>2 DEF Progress, Superseded
      <4>2. Made(p) # NoEntry /\ Made(p).hash = run[p].listed[s]
        BY <3>1, StoreAssumption DEF Made
      <4> QED
        BY <3>1, <3>3, <4>1, <4>2 DEF Done
    <3>5. ASSUME NEW t \in Slugs \ {s}, run'[p].listed[t] # NotListed, t \notin run'[p].todo
          PROVE  Done(t, run'[p].memory[t], run'[p].listed[t], images')
      <4>1. Done(t, run[p].memory[t], run[p].listed[t], images)
        BY <2>0, <3>1, <3>5 DEF Progress
      <4>2. \A x \in FileOf(t, run[p].memory[t]) : x \notin Superseded(s, run[p].memory[s], Made(p))
        BY FilesOf DEF Superseded
      <4> QED
        BY <3>1, <3>2, <3>3, <4>1, <4>2 DEF Done
    <3>6. \A t \in Slugs : run'[p].listed[t] # NotListed /\ t \notin run'[p].todo =>
            Done(t, run'[p].memory[t], run'[p].listed[t], images')
      BY <3>4, <3>5
    <3> QED
      BY <3>1, <3>6 DEF Progress
  <2>5. ASSUME Prune(p) PROVE Progress(p)'
    <3>1. /\ run[p].pc = "loop" /\ run'[p].pc = "swept" /\ run'[p].listed = run[p].listed
          /\ run'[p].memory = Survivors(p) /\ images' = images \cap Referenced(Survivors(p))
      BY <2>0, <2>5, PruneMoves
    <3>2. run[p].todo = {}
      BY <2>5 DEF Prune
    <3>3. \A s \in Slugs : run[p].listed[s] # NotListed =>
            Survivors(p)[s] = run[p].memory[s] /\ Done(s, Survivors(p)[s], run[p].listed[s], images)
      BY <2>0, <3>1, <3>2 DEF Progress, Survivors
    <3>4. \A s \in Slugs : FileOf(s, Survivors(p)[s]) \subseteq images
      <4>1. \A s \in Slugs : run[p].listed[s] = NotListed => FileOf(s, Survivors(p)[s]) = {}
        BY FilesOf DEF Survivors
      <4> QED
        BY <3>3, <4>1 DEF Done
    <3>5. images' = Referenced(Survivors(p))
      BY <3>1, <3>4 DEF Referenced
    <3>6. Complete(p, run[p].memory)'
      BY <3>1, <3>3, <3>5 DEF Complete, Done
    <3> QED
      BY <3>1, <3>6 DEF Progress, Complete
  <2>6. ASSUME WriteManifest(p) PROVE Progress(p)'
    <3>1. /\ run[p].pc = "swept" /\ run'[p].pc = "ending" /\ run'[p].listed = run[p].listed
          /\ manifest' = run[p].memory /\ images' = images
      BY <2>6, WriteMoves DEF MovesOn, WriteManifest
    <3>2. Complete(p, manifest)'
      BY <2>0, <3>1 DEF Progress, Complete
    <3> QED
      BY <3>1, <3>2 DEF Progress, Complete
  <2> QED
    BY <1>3, <2>0, <2>1, <2>2, <2>3, <2>4, <2>5, <2>6 DEF LoopStep, RenderStep
<1>4. ASSUME NEW p \in Procs, LoopStep(p) \/ RenderStep(p) \/ Record(p) \/ Prune(p) \/ WriteManifest(p), q # p
      PROVE  FALSE
  <2>1. alone' = alone
    BY <1>4 DEF LoopStep, Skip, FailRecord, Checkpoint, RenderStep, Render, Record, Prune, WriteManifest, history
  <2>2. AtWork(p)
    BY <1>4 DEF LoopStep, Skip, FailRecord, Checkpoint, RenderStep, Render, Record, Prune, WriteManifest, Between,
                AtWork
  <2> QED
    BY <1>4, <2>1, <2>2 DEF AloneInv, Undisturbed
<1>5. ASSUME NEW p \in Procs, RestStep(p) PROVE Progress(q)'
  <2>1. /\ UNCHANGED <<manifest, images, peace>> /\ \A r \in Procs \ {p} : run'[r] = run[r]
        /\ alone' = IF alone = p THEN Nobody ELSE alone
    BY <1>5, RestMoves DEF Moves, RestStep, Release, Crash, Gone, disk
  <2>2. q # p /\ alone' = alone
    BY <1>0, <2>1 DEF Undisturbed
  <2> QED
    BY <2>1, <2>2, HealsElsewhere DEF Undisturbed
<1>6. CASE EditStep \/ LockAges \/ UNCHANGED storeVars
  <2>1. UNCHANGED <<manifest, images, run, alone, peace>>
    BY <1>6, AgeChoices DEF EditStep, Edit, storeVars, disk, history
  <2> QED
    BY <2>1, HealsElsewhere DEF Undisturbed
<1>7. CASE CleanupStep
  BY <1>7 DEF CleanupStep, Cleanup, Undisturbed
<1> QED
  BY <1>1, <1>2, <1>3, <1>4, <1>5, <1>6, <1>7, StepGroups

\* Nobody is at work at the start.
LEMMA HealingInitially == ASSUME StoreInit PROVE Healing
BY StoreAssumption DEF StoreInit, Healing, Undisturbed

\* A full run that works alone and undisturbed repairs whatever it finds, for any history of kills,
\* deletions, long runs and lost locks before it.
THEOREM FullRunsHeal == StoreSpec => []FullRunHeals
<1> DEFINE IInv == Shape /\ AloneInv /\ Healing
<1>1. StoreInit => IInv
  BY ShapeInitially, OrderInitially, HealingInitially
<1>2. IInv /\ [StoreNext]_storeVars => IInv'
  BY ShapeKeeps, AloneKeeps, HealingKeeps
<1>3. IInv => FullRunHeals
  BY DEF Healing, Undisturbed, Progress, Complete, FullRunHeals
<1> HIDE DEF IInv
<1> QED
  BY <1>1, <1>2, <1>3, PTL DEF StoreSpec
=============================================================================
