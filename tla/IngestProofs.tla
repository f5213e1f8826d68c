----------------------------- MODULE IngestProofs ------------------------------
(***************************************************************************)
(* For any number of calls, documents and any limit: the counters of       *)
(* ingest_source say what became of every document, and the run on record  *)
(* is true.  The invariant adds which positions are still to be decided:   *)
(* all of them before the loop, those not yet reached in it, none after.   *)
(*                                                                         *)
(* For any batches, sources and workers: batches exclude each other, a     *)
(* fail-fast batch stops at its first failure, reports are in order and    *)
(* true, and the counters of every call are exact.  The invariant says     *)
(* what each batch has done with its calls: none of them has begun while   *)
(* the batch is idle, and a fail-fast batch makes them one by one.         *)
(***************************************************************************)
EXTENDS IngestBatch, FiniteSetTheorems, TLAPS

InHand(j) ==
  IF job[j].at \in {"ready", "collected"} THEN Positions(j)
  ELSE IF job[j].at = "processing" THEN Left(j)
  ELSE {}

Placed(j) ==
  /\ job[j].at # "raised" => Are(j, "open") = InHand(j)
  /\ job[j].at = "ready" => job[j].docs = <<>>
  /\ job[j].at \in {"ready", "collected"} =>
       job[j].next = 1 /\ Len(job[j].todo) = Len(job[j].docs)
                       /\ \A p \in DOMAIN job[j].todo : job[j].todo[p] = p
  /\ job[j].at = "processing" =>
       /\ job[j].next \in 1 .. Len(job[j].todo) + 1
       /\ \A k, l \in DOMAIN job[j].todo : job[j].todo[k] = job[j].todo[l] => k = l
  /\ job[j].at \notin {"recording", "returned", "raised"} => Are(j, "stored") = {}
  /\ job[j].at \in {"recording", "returned"} => Are(j, "kept") = {}
  /\ run[j] # NoRun => job[j].at \in {"returned", "raised"}

Good(j) == Placed(j) /\ Exact(j) /\ TrueRun(j)

IInv == PipelineTypeOK /\ \A j \in Jobs : Good(j)

-----------------------------------------------------------------------------
(* Lemmas on positions and counts. *)

JobRow == [at : Stages, docs : Seq(Documents), todo : Seq(Nat), next : Nat]

\* The positions of a call are finitely many, and so are those of each fate.
LEMMA Counts ==
  ASSUME PipelineTypeOK, NEW j \in Jobs
  PROVE  /\ Positions(j) = 1 .. Len(job[j].docs) /\ Len(job[j].docs) \in Nat
         /\ IsFiniteSet(Positions(j)) /\ Cardinality(Positions(j)) = Len(job[j].docs)
         /\ \A f : Are(j, f) \subseteq Positions(j) /\ IsFiniteSet(Are(j, f)) /\ Count(j, f) \in Nat
         /\ \A f : Count(j, f) = 0 <=> Are(j, f) = {}
<1>1. Positions(j) = 1 .. Len(job[j].docs) /\ Len(job[j].docs) \in Nat
  BY DEF PipelineTypeOK, Positions
<1>2. IsFiniteSet(Positions(j)) /\ Cardinality(Positions(j)) = Len(job[j].docs)
  BY <1>1, FS_Interval
<1>3. ASSUME NEW f
      PROVE  /\ Are(j, f) \subseteq Positions(j) /\ IsFiniteSet(Are(j, f)) /\ Count(j, f) \in Nat
             /\ Count(j, f) = 0 <=> Are(j, f) = {}
  <2>1. Are(j, f) \subseteq Positions(j)
    BY DEF Are
  <2>2. IsFiniteSet(Are(j, f))
    BY <1>2, <2>1, FS_Subset
  <2> QED
    BY <2>1, <2>2, FS_CardinalityType, FS_EmptySet DEF Count
<1> QED
  BY <1>1, <1>2, <1>3

\* s lists the members of T, each once, at the places from a to n.
ListsOnce(s, a, n, T) ==
  /\ \A k, l \in a .. n : s[k] = s[l] => k = l
  /\ \A k \in a .. n : s[k] \in T
  /\ \A p \in T : \E k \in a .. n : p = s[k]

\* As many positions as there are places, when no position is listed twice.
LEMMA ListedOnce ==
  ASSUME NEW s, NEW T, NEW a \in Nat, NEW n \in Nat, a <= n + 1,
         ListsOnce(s, a, n, T)
  PROVE  IsFiniteSet(T) /\ Cardinality(T) = n + 1 - a
<1> DEFINE f == [k \in a .. n |-> s[k]]
<1>1. f \in Bijection(a .. n, T)
  BY DEF ListsOnce, Bijection, Injection, Surjection, IsInjective
<1>2. IsFiniteSet(a .. n) /\ Cardinality(a .. n) = n + 1 - a
  BY FS_Interval
<1>3. ExistsBijection(a .. n, T)
  BY <1>1 DEF ExistsBijection
<1> QED
  BY <1>2, <1>3, FS_Bijection

\* Positions ps go from fate g to fate f, and nothing else changes.
Moved(j, ps, f, g) ==
  /\ Are(j, f)' = Are(j, f) \cup ps
  /\ Count(j, f)' = Count(j, f) + Cardinality(ps)
  /\ Are(j, g)' = Are(j, g) \ ps
  /\ \A h : h \notin {f, g} => Are(j, h)' = Are(j, h) /\ Count(j, h)' = Count(j, h)

\* Giving some positions of one fate another one moves them from one count to the other.
LEMMA MarkedCounts ==
  ASSUME PipelineTypeOK, NEW j \in Jobs, NEW f, NEW g, f # g, NEW ps, ps \subseteq Are(j, g),
         job'[j].docs = job[j].docs, fate'[j] = Marked(j, ps, f)
  PROVE  Moved(j, ps, f, g)
<1>1. Positions(j)' = Positions(j)
  BY DEF Positions
<1>2. ps \subseteq Positions(j) /\ Are(j, f) \cap ps = {}
  BY DEF Are
<1>3. Are(j, f)' = Are(j, f) \cup ps /\ Are(j, g)' = Are(j, g) \ ps
  BY <1>1, <1>2 DEF Are, Marked
<1>4. \A h : h \notin {f, g} => Are(j, h)' = Are(j, h)
  BY <1>1, <1>2 DEF Are, Marked
<1>5. IsFiniteSet(Are(j, f)) /\ IsFiniteSet(Are(j, g)) /\ Cardinality(Are(j, f)) \in Nat
  BY Counts DEF Count
<1>6. IsFiniteSet(ps) /\ Cardinality(ps) \in Nat
  BY <1>5, FS_Subset, FS_CardinalityType
<1>7. Cardinality(Are(j, f) \cup ps) = Cardinality(Are(j, f)) + Cardinality(ps) - 0
  BY <1>2, <1>5, <1>6, FS_Union, FS_EmptySet
<1> QED
  BY <1>3, <1>4, <1>5, <1>6, <1>7 DEF Count, Moved

\* What is not touched stays good.
LEMMA Untouched ==
  ASSUME NEW j \in Jobs, Good(j), job'[j] = job[j], result'[j] = result[j],
         fate'[j] = fate[j], run'[j] = run[j]
  PROVE  /\ Good(j)' /\ Positions(j)' = Positions(j)
         /\ Selected(job[j].todo)' = Selected(job[j].todo)
<1>1. Positions(j)' = Positions(j) /\ Selected(job[j].todo)' = Selected(job[j].todo)
  BY DEF Positions, Selected
<1>2. \A f : Are(j, f)' = Are(j, f) /\ Count(j, f)' = Count(j, f)
  BY <1>1 DEF Are, Count
<1>3. InHand(j)' = InHand(j)
  BY <1>1 DEF InHand, Left
<1>4. Placed(j)'
  BY <1>1, <1>2, <1>3 DEF Good, Placed
<1>5. Exact(j)'
  BY <1>1, <1>2 DEF Good, Exact
<1>6. TrueRun(j)'
  BY <1>2 DEF Good, TrueRun
<1> QED
  BY <1>1, <1>4, <1>5, <1>6 DEF Good

\* A step of one call is invisible to the others.
LEMMA LocalStep ==
  ASSUME IInv, NEW j \in Jobs, mode' = mode,
         job' \in [Jobs -> JobRow], result' \in [Jobs -> Result],
         run' \in [Jobs -> RunRow \cup {NoRun}], DOMAIN fate' = Jobs,
         fate'[j] \in [Positions(j)' -> Fates], Selected(job[j].todo)' \subseteq Positions(j)',
         \A i \in Jobs \ {j} : /\ job'[i] = job[i] /\ result'[i] = result[i]
                               /\ fate'[i] = fate[i] /\ run'[i] = run[i],
         Good(j)'
  PROVE  IInv'
<1>1. ASSUME NEW i \in Jobs \ {j}
      PROVE  /\ Good(i)' /\ fate'[i] \in [Positions(i)' -> Fates]
             /\ Selected(job[i].todo)' \subseteq Positions(i)'
  <2>1. Good(i) /\ fate[i] \in [Positions(i) -> Fates] /\ Selected(job[i].todo) \subseteq Positions(i)
    BY DEF IInv, PipelineTypeOK
  <2>2. job'[i] = job[i] /\ result'[i] = result[i] /\ fate'[i] = fate[i] /\ run'[i] = run[i]
    OBVIOUS
  <2> QED
    BY <2>1, <2>2, Untouched
<1>2. \A i \in Jobs : /\ Good(i)' /\ fate'[i] \in [Positions(i)' -> Fates]
                      /\ Selected(job[i].todo)' \subseteq Positions(i)'
  BY <1>1
<1>3. mode' \in Modes
  BY DEF IInv, PipelineTypeOK
<1> QED
  BY <1>2, <1>3 DEF IInv, PipelineTypeOK, JobRow

\* The types of one call.
LEMMA CallType ==
  ASSUME IInv, NEW j \in Jobs
  PROVE  /\ job \in [Jobs -> JobRow] /\ job[j] \in JobRow /\ result[j] \in Result
         /\ result \in [Jobs -> Result] /\ run \in [Jobs -> RunRow \cup {NoRun}] /\ DOMAIN fate = Jobs
         /\ fate[j] \in [Positions(j) -> Fates] /\ Selected(job[j].todo) \subseteq Positions(j)
         /\ Len(job[j].todo) \in Nat /\ DOMAIN job[j].todo = 1 .. Len(job[j].todo)
         /\ job[j].next \in Nat
         /\ PipelineTypeOK /\ Good(j)
BY DEF IInv, PipelineTypeOK, JobRow

\* Nothing is said of a run before it is recorded.
LEMMA Unrecorded ==
  ASSUME NEW j \in Jobs, Placed(j)', job'[j].at \notin {"returned", "raised"}
  PROVE  TrueRun(j)'
BY DEF Placed, TrueRun

-----------------------------------------------------------------------------
(* Before any call. *)

\* A call that has not begun has nothing in hand and nothing counted.
LEMMA FreshIsGood ==
  ASSUME NEW j \in Jobs, job[j] = Fresh, result[j] = NoResult, fate[j] = <<>>, run[j] = NoRun
  PROVE  /\ job[j] \in JobRow /\ result[j] \in Result
         /\ fate[j] \in [Positions(j) -> Fates] /\ Selected(job[j].todo) \subseteq Positions(j)
         /\ Good(j)
<1>1. /\ job[j].at = "ready" /\ job[j].docs = <<>> /\ job[j].todo = <<>> /\ job[j].next = 1
      /\ Positions(j) = {}
  BY DEF Fresh, Positions
<1>2. job[j] \in JobRow /\ result[j] \in Result
  BY DEF Fresh, JobRow, Stages, NoResult, Result
<1>3. fate[j] \in [Positions(j) -> Fates] /\ Selected(job[j].todo) \subseteq Positions(j)
  BY <1>1 DEF Selected
<1>4. \A f : Are(j, f) = {} /\ Count(j, f) = 0
  BY <1>1, FS_EmptySet DEF Are, Count
<1>5. Placed(j)
  BY <1>1, <1>4 DEF Placed, InHand
<1>6. Exact(j)
  BY <1>1, <1>4 DEF Exact, NoResult
<1>7. TrueRun(j)
  BY <1>1 DEF TrueRun
<1> QED
  BY <1>2, <1>3, <1>5, <1>6, <1>7 DEF Good

\* No call has begun.
LEMMA InitIsGood ==
  ASSUME PipelineInit
  PROVE  IInv
<1>1. \A j \in Jobs : /\ job[j] \in JobRow /\ result[j] \in Result
                      /\ fate[j] \in [Positions(j) -> Fates]
                      /\ Selected(job[j].todo) \subseteq Positions(j)
                      /\ Good(j)
  BY FreshIsGood DEF PipelineInit
<1> QED
  BY <1>1 DEF IInv, PipelineTypeOK, PipelineInit, JobRow

\* The calls of a process that ends are fresh again, the others untouched.
LEMMA ForgetIsGood ==
  ASSUME IInv, NEW js \in SUBSET Jobs, Forget(js)
  PROVE  IInv'
<1>1. ASSUME NEW j \in Jobs
      PROVE  /\ job'[j] \in JobRow /\ result'[j] \in Result /\ run'[j] \in RunRow \cup {NoRun}
             /\ fate'[j] \in [Positions(j)' -> Fates]
             /\ Selected(job[j].todo)' \subseteq Positions(j)'
             /\ Good(j)'
  <2>1. CASE j \in js
    <3>1. job'[j] = Fresh /\ result'[j] = NoResult /\ fate'[j] = <<>> /\ run'[j] = NoRun
      BY <2>1 DEF Forget
    <3>2. /\ job'[j].at = "ready" /\ job'[j].docs = <<>> /\ job'[j].todo = <<>> /\ job'[j].next = 1
          /\ Positions(j)' = {}
      BY <3>1 DEF Fresh, Positions
    <3>3. job'[j] \in JobRow /\ result'[j] \in Result
      BY <3>1 DEF Fresh, JobRow, Stages, NoResult, Result
    <3>4. fate'[j] \in [Positions(j)' -> Fates] /\ Selected(job[j].todo)' \subseteq Positions(j)'
      BY <3>1, <3>2 DEF Selected
    <3>5. \A f : Are(j, f)' = {} /\ Count(j, f)' = 0
      BY <3>2, FS_EmptySet DEF Are, Count
    <3>6. Placed(j)'
      BY <3>1, <3>2, <3>5 DEF Placed, InHand
    <3>7. Exact(j)'
      BY <3>1, <3>2, <3>5 DEF Exact, NoResult
    <3>8. TrueRun(j)'
      BY <3>1, <3>2 DEF TrueRun
    <3> QED
      BY <3>1, <3>3, <3>4, <3>6, <3>7, <3>8 DEF Good
  <2>2. CASE j \notin js
    <3>1. job'[j] = job[j] /\ result'[j] = result[j] /\ fate'[j] = fate[j] /\ run'[j] = run[j]
      BY <2>2 DEF Forget
    <3> QED
      BY <3>1, CallType, Untouched
  <2> QED
    BY <2>1, <2>2
<1>2. /\ job' = [j \in Jobs |-> job'[j]] /\ result' = [j \in Jobs |-> result'[j]]
      /\ run' = [j \in Jobs |-> run'[j]] /\ DOMAIN fate' = Jobs
  BY DEF Forget
<1>3. mode' \in Modes
  BY DEF Forget, IInv, PipelineTypeOK
<1> QED
  BY <1>1, <1>2, <1>3 DEF IInv, PipelineTypeOK, JobRow

-----------------------------------------------------------------------------
(* Steps that only go on: nothing becomes of any document. *)

\* If nothing is in hand any more, a step to a later stage needs only a true record.
LEMMA StageStep ==
  ASSUME IInv, NEW j \in Jobs,
         NEW a \in {"storing", "recording", "failing", "returned", "raised"},
         UNCHANGED <<mode, result, fate>>,
         job' = [job EXCEPT ![j].at = a],
         run' \in [Jobs -> RunRow \cup {NoRun}],
         \A i \in Jobs \ {j} : run'[i] = run[i],
         a # "raised" => Are(j, "open") = {},
         a \notin {"recording", "returned", "raised"} => Are(j, "stored") = {},
         a \in {"recording", "returned"} => Are(j, "kept") = {},
         a = "returned" => run'[j] # NoRun,
         run'[j] # NoRun =>
           /\ a \in {"returned", "raised"}
           /\ run'[j].upserted = Count(j, "stored")
           /\ run'[j].status = "failed" => Are(j, "stored") = {}
           /\ run'[j].status = "success" => Are(j, "failed") = {}
           /\ a = "returned" /\ run'[j].upserted > 0 => run'[j].status # "failed"
  PROVE  IInv'
<1>1. /\ job' \in [Jobs -> JobRow] /\ job'[j].at = a /\ job'[j].docs = job[j].docs
      /\ job'[j].todo = job[j].todo /\ \A i \in Jobs \ {j} : job'[i] = job[i]
  BY CallType DEF JobRow, Stages
<1>2. Positions(j)' = Positions(j) /\ Selected(job[j].todo)' = Selected(job[j].todo)
  BY <1>1 DEF Positions, Selected
<1>3. \A f : Are(j, f)' = Are(j, f) /\ Count(j, f)' = Count(j, f)
  BY <1>2 DEF Are, Count
<1>4. Placed(j)'
  BY <1>1, <1>3 DEF Placed, InHand
<1>5. Exact(j)'
  BY <1>1, <1>2, <1>3, CallType DEF Good, Exact
<1>6. TrueRun(j)'
  BY <1>1, <1>3 DEF TrueRun
<1>7. Good(j)'
  BY <1>4, <1>5, <1>6 DEF Good
<1>8. /\ result' \in [Jobs -> Result] /\ DOMAIN fate' = Jobs
      /\ fate'[j] \in [Positions(j)' -> Fates] /\ Selected(job[j].todo)' \subseteq Positions(j)'
  BY <1>2, CallType
<1> QED
  BY <1>1, <1>7, <1>8, LocalStep

\* Before a call has collected anything there is nothing of any fate.
LEMMA ReadyIsEmpty ==
  ASSUME IInv, NEW j \in Jobs, job[j].at = "ready"
  PROVE  /\ \A f : Are(j, f) = {} /\ Count(j, f) = 0
         /\ run[j] = NoRun
<1>1. job[j].docs = <<>> /\ run[j] = NoRun
  BY CallType DEF Good, Placed
<1>2. \A f : Are(j, f) = {}
  BY <1>1 DEF Are, Positions
<1> QED
  BY <1>1, <1>2, FS_EmptySet DEF Count

\* Refusing, failing and passing on to the next stage change no fate.
LEMMA GoesOn ==
  ASSUME IInv, NEW j \in Jobs,
         \/ Refuse(j) \/ CollectFails(j) \/ TriageEscapes(j)
         \/ LoopEnds(j) \/ StoreFails(j) \/ Raise(j)
  PROVE  IInv'
<1> USE CallType
<1>1. CASE Refuse(j)
  BY <1>1, ReadyIsEmpty, StageStep DEF Refuse
<1>2. CASE CollectFails(j)
  BY <1>2, ReadyIsEmpty, StageStep DEF CollectFails
<1>3. CASE LoopEnds(j)
  <2>1. Left(j) = {}
    BY <1>3 DEF LoopEnds, More, Left
  <2> QED
    BY <1>3, <2>1, StageStep DEF LoopEnds, Good, Placed, InHand
<1>4. CASE StoreFails(j)
  BY <1>4, StageStep DEF StoreFails, Good, Placed, InHand
<1>5. CASE Raise(j)
  BY <1>5, StageStep DEF Raise, Good, Placed, InHand
<1>6. CASE TriageEscapes(j)
  BY <1>6, StageStep DEF TriageEscapes, Good, Placed, InHand
<1> QED
  BY <1>1, <1>2, <1>3, <1>4, <1>5, <1>6

\* The row that is recorded agrees with what was stored and what failed.
LEMMA RecordIsGood ==
  ASSUME IInv, NEW j \in Jobs, Record(j) \/ RecordFailure(j)
  PROVE  IInv'
<1> USE CallType
<1>1. /\ result[j].documents \in Nat /\ result[j].ingested \in Nat /\ result[j].failures \in Nat
      /\ result[j].ingested = Count(j, "stored") /\ result[j].failures = Count(j, "failed")
      /\ result[j].documents = Cardinality(Positions(j))
  BY Counts DEF Result, Good, Exact
<1>2. /\ \A f : Count(j, f) \in Nat /\ (Count(j, f) = 0 <=> Are(j, f) = {}) /\ Are(j, f) \subseteq Positions(j)
      /\ IsFiniteSet(Positions(j))
  BY Counts
<1>3. result[j].documents = 0 => \A f : Are(j, f) = {}
  BY <1>1, <1>2, FS_EmptySet
<1>4. ASSUME NEW s \in {"empty", "success", "completed_with_failures", "failed"}, Recorded(j, s)
      PROVE  /\ run' \in [Jobs -> RunRow \cup {NoRun}] /\ \A i \in Jobs \ {j} : run'[i] = run[i]
             /\ run'[j] # NoRun /\ run'[j].status = s /\ run'[j].upserted = Count(j, "stored")
  <2> DEFINE row == [status |-> s, documents |-> result[j].documents,
                     upserted |-> result[j].ingested, failures |-> result[j].failures]
  <2>1. row \in RunRow /\ row.status = s /\ row.upserted = result[j].ingested
    BY <1>1 DEF RunRow
  <2>2. run' = [run EXCEPT ![j] = row]
    BY <1>4 DEF Recorded
  <2> HIDE DEF row
  <2> QED
    BY <1>1, <2>1, <2>2, PipelineAssumption
<1>5. CASE Record(j)
  <2> DEFINE s == RunStatus(result[j])
  <2>1. /\ s \in {"empty", "success", "completed_with_failures", "failed"}
        /\ s = "failed" => result[j].ingested = 0
        /\ s = "success" => result[j].failures = 0
    BY <1>1 DEF RunStatus
  <2>2. Recorded(j, s) /\ job[j].at = "recording"
    BY <1>5 DEF Record
  <2>3. job' = [job EXCEPT ![j].at = "returned"] /\ UNCHANGED <<mode, result, fate>>
    BY <1>5 DEF Record
  <2>4. Are(j, "open") = {} /\ Are(j, "kept") = {}
    BY <2>2 DEF Good, Placed, InHand
  <2> HIDE DEF s
  <2>5. /\ run'[j].status = "failed" => Count(j, "stored") = 0
        /\ run'[j].status = "success" => Count(j, "failed") = 0
    BY <1>1, <1>4, <2>1, <2>2
  <2>6. /\ run'[j] # NoRun /\ run'[j].upserted = Count(j, "stored")
        /\ run' \in [Jobs -> RunRow \cup {NoRun}] /\ \A i \in Jobs \ {j} : run'[i] = run[i]
    BY <1>4, <2>1, <2>2
  <2>7. /\ run'[j].status = "failed" => Are(j, "stored") = {}
        /\ run'[j].status = "success" => Are(j, "failed") = {}
        /\ run'[j].upserted > 0 => run'[j].status # "failed"
    BY <1>2, <2>5, <2>6
  <2> QED
    BY <2>3, <2>4, <2>6, <2>7, StageStep
<1>6. CASE RecordFailure(j)
  <2>1. Are(j, "open") = {} /\ Are(j, "stored") = {}
    BY <1>6 DEF RecordFailure, Good, Placed, InHand
  <2> QED
    BY <1>6, <1>4, <2>1, StageStep DEF RecordFailure
<1> QED
  BY <1>5, <1>6

-----------------------------------------------------------------------------
(* Steps that decide about documents. *)

\* Everything collected is in hand.
LEMMA CollectIsGood ==
  ASSUME IInv, NEW j \in Jobs, Collect(j)
  PROVE  IInv'
<1>1. PICK docs \in Lists[j] :
        /\ job' = [job EXCEPT ![j] = [at |-> IF mode = "triage" THEN "collected" ELSE "processing",
                                      docs |-> docs, todo |-> [p \in DOMAIN docs |-> p], next |-> 1]]
        /\ result' = [result EXCEPT ![j].documents = Len(docs)]
        /\ fate' = [fate EXCEPT ![j] = [p \in DOMAIN docs |-> "open"]]
  BY DEF Collect
<1> DEFINE todo == [p \in DOMAIN docs |-> p]
<1>2. docs \in Seq(Documents) /\ Len(docs) \in Nat /\ DOMAIN docs = 1 .. Len(docs)
  BY <1>1, PipelineAssumption
<1>3. /\ todo \in Seq(Nat) /\ Len(todo) = Len(docs)
      /\ \A p \in 1 .. Len(docs) : todo[p] = p
  BY <1>2
<1> HIDE DEF todo
<1>4. /\ job'[j].at \in {"collected", "processing"} /\ job'[j].docs = docs /\ job'[j].todo = todo
      /\ job'[j].next = 1 /\ job' \in [Jobs -> JobRow]
      /\ result' \in [Jobs -> Result] /\ result'[j] = [result[j] EXCEPT !.documents = Len(docs)]
      /\ run' = run /\ mode' = mode /\ DOMAIN fate' = Jobs
      /\ fate'[j] = [p \in DOMAIN docs |-> "open"]
      /\ \A i \in Jobs \ {j} : job'[i] = job[i] /\ result'[i] = result[i] /\ fate'[i] = fate[i]
  <2>1. job' = [job EXCEPT ![j] = [at |-> IF mode = "triage" THEN "collected" ELSE "processing",
                                   docs |-> docs, todo |-> todo, next |-> 1]]
    BY <1>1 DEF todo
  <2>2. /\ job'[j].at \in {"collected", "processing"} /\ job'[j].docs = docs /\ job'[j].todo = todo
        /\ job'[j].next = 1 /\ job' \in [Jobs -> JobRow]
        /\ \A i \in Jobs \ {j} : job'[i] = job[i]
    BY <1>2, <1>3, <2>1, CallType DEF JobRow, Stages
  <2>3. /\ result' \in [Jobs -> Result] /\ result'[j] = [result[j] EXCEPT !.documents = Len(docs)]
        /\ \A i \in Jobs \ {j} : result'[i] = result[i]
    BY <1>1, <1>2, CallType DEF Result
  <2>4. /\ DOMAIN fate' = Jobs /\ fate'[j] = [p \in DOMAIN docs |-> "open"]
        /\ \A i \in Jobs \ {j} : fate'[i] = fate[i]
    BY <1>1, CallType
  <2> QED
    BY <2>2, <2>3, <2>4 DEF Collect
<1>5. Positions(j)' = 1 .. Len(docs) /\ Left(j)' = 1 .. Len(docs)
  <2>1. Positions(j)' = 1 .. Len(docs)
    BY <1>2, <1>4 DEF Positions
  <2>2. Left(j)' = {todo[k] : k \in 1 .. Len(docs)}
    BY <1>3, <1>4 DEF Left
  <2> QED
    BY <1>3, <2>1, <2>2
<1>6. Are(j, "open")' = 1 .. Len(docs) /\ \A f : f # "open" => Are(j, f)' = {} /\ Count(j, f)' = 0
  <2>1. \A p \in 1 .. Len(docs) : fate'[j][p] = "open"
    BY <1>2, <1>4
  <2>2. \A f : Are(j, f)' = {p \in 1 .. Len(docs) : fate'[j][p] = f}
    BY <1>5 DEF Are
  <2>3. \A f : f # "open" => Are(j, f)' = {}
    BY <2>1, <2>2
  <2> QED
    BY <2>1, <2>2, <2>3, FS_EmptySet DEF Count
<1>7. run[j] = NoRun /\ \A f : Count(j, f) = 0
  BY ReadyIsEmpty DEF Collect
<1>8. Placed(j)'
  <2>1. InHand(j)' = 1 .. Len(docs)
    BY <1>4, <1>5 DEF InHand
  <2> QED
    <3>1. /\ Are(j, "open")' = InHand(j)' /\ Are(j, "stored")' = {}
          /\ run'[j] = NoRun
      BY <1>4, <1>6, <1>7, <2>1
    <3>2. /\ DOMAIN job'[j].todo = 1 .. Len(docs) /\ Len(job'[j].todo) = Len(docs)
          /\ \A p \in 1 .. Len(docs) : job'[j].todo[p] = p
      BY <1>3, <1>4
    <3> QED
      BY <1>2, <1>4, <3>1, <3>2 DEF Placed
<1>9. Exact(j)'
  <2>1. /\ result'[j].documents = Len(docs) /\ result'[j].filtered = 0 /\ result'[j].expired = 0
        /\ result'[j].failures = 0 /\ result'[j].ingested = 0
        /\ result'[j].deferred = 0
    <3>1. /\ result[j].filtered = 0 /\ result[j].expired = 0 /\ result[j].failures = 0
          /\ result[j].ingested = 0
      BY <1>7, CallType DEF Good, Exact
    <3>2. job[j].docs = <<>>
      BY CallType DEF Collect, Good, Placed
    <3>3. result[j].deferred = 0
      BY <1>7, <3>2, CallType DEF Good, Exact, Positions
    <3> QED
      BY <1>2, <1>4, <3>1, <3>3, CallType DEF Result
  <2> QED
    BY <1>4, <1>6, <2>1 DEF Exact
<1>10. Good(j)'
  BY <1>4, <1>8, <1>9, Unrecorded DEF Good
<1>11. fate'[j] \in [Positions(j)' -> Fates] /\ Selected(job[j].todo)' \subseteq Positions(j)'
  <2>1. \A p \in DOMAIN todo : todo[p] \in 1 .. Len(docs)
    BY <1>3
  <2> QED
    BY <1>2, <1>4, <1>5, <2>1 DEF Fates, Selected
<1> QED
  BY <1>4, <1>10, <1>11, CallType, LocalStep

\* Excluded or deferred are exactly the documents that are not selected.
LEMMA TriageIsGood ==
  ASSUME IInv, NEW j \in Jobs, NEW out \in SUBSET Positions(j),
         NEW s \in Selections(Positions(j) \ out), Triage(j, out, s)
  PROVE  IInv'
<1> DEFINE ps == Positions(j) \ out
           n == IF Cardinality(ps) < Limit THEN Cardinality(ps) ELSE Limit
<1>1. /\ IsFiniteSet(Positions(j)) /\ Positions(j) = 1 .. Len(job[j].docs)
      /\ \A f : Count(j, f) \in Nat /\ (Count(j, f) = 0 <=> Are(j, f) = {})
  BY Counts, CallType
<1>2. IsFiniteSet(ps) /\ IsFiniteSet(out) /\ Cardinality(ps) \in Nat /\ Cardinality(out) \in Nat
  BY <1>1, FS_Subset, FS_CardinalityType
<1>3. n \in Nat /\ n <= Cardinality(ps)
  BY <1>2, PipelineAssumption
<1>4. s \in [1 .. n -> ps] /\ \A a, b \in 1 .. n : s[a] = s[b] => a = b
  BY DEF Selections
<1> HIDE DEF n
<1>5. s \in Seq(Nat) /\ Len(s) = n /\ DOMAIN s = 1 .. n
  BY <1>1, <1>3, <1>4
<1>6. /\ Selected(s) \subseteq ps /\ Selected(s) = {s[k] : k \in 1 .. n}
  BY <1>4, <1>5 DEF Selected
<1>7. IsFiniteSet(Selected(s)) /\ Cardinality(Selected(s)) = n
  <2>1. n + 1 - 1 = n /\ 1 <= n + 1
    BY <1>3
  <2>2. ListsOnce(s, 1, n, Selected(s))
    BY <1>4, <1>6 DEF ListsOnce
  <2>3. IsFiniteSet(Selected(s)) /\ Cardinality(Selected(s)) = n + 1 - 1
    BY <1>3, <2>1, <2>2, ListedOnce
  <2> QED
    BY <2>1, <2>3
<1>8. Cardinality(ps \ Selected(s)) = Cardinality(ps) - n
  <2>1. ps \cap Selected(s) = Selected(s)
    BY <1>6
  <2> QED
    BY <1>2, <1>7, <2>1, FS_Difference
<1>9. /\ job[j].at = "collected" /\ job[j].next = 1
      /\ job'[j].at = "processing" /\ job'[j].todo = s /\ job'[j].docs = job[j].docs
      /\ job'[j].next = 1 /\ job' \in [Jobs -> JobRow]
      /\ run' = run /\ mode' = mode /\ DOMAIN fate' = Jobs
      /\ fate'[j] = [p \in Positions(j) |-> IF p \in out THEN "excluded"
                                            ELSE IF p \in Selected(s) THEN "open" ELSE "deferred"]
      /\ \A i \in Jobs \ {j} : job'[i] = job[i] /\ result'[i] = result[i] /\ fate'[i] = fate[i]
  BY <1>5, CallType DEF Triage, JobRow, Stages, Good, Placed
<1>10. Positions(j)' = Positions(j) /\ Left(j)' = Selected(s)
  BY <1>5, <1>6, <1>9 DEF Positions, Left
<1>11. /\ Are(j, "excluded")' = out /\ Are(j, "open")' = Selected(s)
       /\ Are(j, "deferred")' = ps \ Selected(s)
       /\ \A f \in Fates \ {"excluded", "open", "deferred"} : Are(j, f)' = {}
  BY <1>6, <1>9, <1>10 DEF Are
<1>12. \A f : f # "open" => Are(j, f) = {} /\ Count(j, f) = 0
  <2>1. Are(j, "open") = Positions(j)
    BY <1>9, CallType DEF Good, Placed, InHand
  <2> QED
    BY <1>1, <2>1 DEF Are
<1>13. /\ result[j].filtered = 0 /\ result[j].expired = 0 /\ result[j].failures = 0
       /\ result[j].ingested = 0 /\ result[j].documents = Len(job[j].docs)
       /\ result[j].deferred \in Nat /\ result[j].deferred >= 0
       /\ (\A p, q \in Positions(j) : job[j].docs[p] = job[j].docs[q] => p = q)
            => result[j].deferred = 0
  BY <1>12, CallType DEF Good, Exact, Result
<1>14. /\ result' \in [Jobs -> Result]
       /\ result'[j].filtered = Cardinality(out)
       /\ result'[j].deferred = result[j].deferred + Cardinality(ps) - n
       /\ result'[j].documents = Len(job[j].docs) /\ result'[j].expired = 0
       /\ result'[j].failures = 0 /\ result'[j].ingested = 0
  <2>1. result' = [result EXCEPT ![j].filtered = @ + Cardinality(out),
                                 ![j].deferred = @ + Cardinality(ps) - n]
    BY <1>5 DEF Triage
  <2>2. result[j].deferred + Cardinality(ps) - n \in Nat /\ 0 + Cardinality(out) = Cardinality(out)
    BY <1>2, <1>3, <1>13
  <2> QED
    BY <1>2, <1>13, <2>1, <2>2, CallType DEF Result
<1>15. Placed(j)'
  <2>1. InHand(j)' = Selected(s)
    BY <1>9, <1>10 DEF InHand
  <2>2. run[j] = NoRun
    BY <1>9, CallType DEF Good, Placed
  <2> QED
    BY <1>3, <1>4, <1>5, <1>9, <1>11, <2>1, <2>2 DEF Placed, Fates
<1>16. Exact(j)'
  <2>1. /\ Count(j, "excluded")' = Cardinality(out)
        /\ Count(j, "deferred")' = Cardinality(ps) - n
        /\ Count(j, "filtered")' = 0 /\ Count(j, "expired")' = 0 /\ Count(j, "failed")' = 0
        /\ Count(j, "stored")' = 0
    BY <1>8, <1>11, FS_EmptySet DEF Count, Fates
  <2> QED
    BY <1>2, <1>3, <1>9, <1>10, <1>13, <1>14, <2>1 DEF Exact
<1>17. Good(j)'
  BY <1>9, <1>15, <1>16, Unrecorded DEF Good
<1>18. fate'[j] \in [Positions(j)' -> Fates] /\ Selected(job[j].todo)' \subseteq Positions(j)'
  BY <1>6, <1>9, <1>10 DEF Fates
<1> QED
  BY <1>9, <1>14, <1>17, <1>18, CallType, LocalStep

\* Cutting the list leaves the first ones in hand; no counter changes, and no counted fate.
LEMMA TriageUnavailableIsGood ==
  ASSUME IInv, NEW j \in Jobs, TriageUnavailable(j)
  PROVE  IInv'
<1> DEFINE todo == job[j].todo
           n == IF Len(todo) < Limit THEN Len(todo) ELSE Limit
           ps == {p \in Positions(j) : p > Limit}
<1>1. /\ job[j].at = "collected" /\ job[j].next = 1 /\ Len(todo) = Len(job[j].docs)
      /\ \A p \in 1 .. Len(todo) : todo[p] = p
      /\ Are(j, "open") = Positions(j) /\ Are(j, "stored") = {} /\ run[j] = NoRun
  BY CallType DEF TriageUnavailable, Good, Placed, InHand
<1>2. /\ Len(todo) \in Nat /\ todo \in Seq(Nat) /\ Positions(j) = 1 .. Len(todo)
      /\ n \in Nat /\ n <= Len(todo) /\ n <= Limit
      /\ \A p \in Positions(j) \ ps : p \in 1 .. n
      /\ \A p \in 1 .. n : p \in Positions(j) \ ps
  BY <1>1, CallType, Counts, PipelineAssumption DEF JobRow
<1> HIDE DEF n
<1>3. /\ SubSeq(todo, 1, n) \in Seq(Nat) /\ Len(SubSeq(todo, 1, n)) = n
      /\ \A p \in 1 .. n : SubSeq(todo, 1, n)[p] = p
  <2>1. \A p \in 1 .. n : p \in 1 .. Len(todo) /\ todo[p] = p
    BY <1>1, <1>2
  <2>2. SubSeq(todo, 1, n) = [p \in 1 .. n |-> todo[p]]
    BY <1>2
  <2> QED
    BY <1>2, <2>1, <2>2
<1>4. /\ job' = [job EXCEPT ![j].at = "processing", ![j].todo = SubSeq(todo, 1, n)]
      /\ fate' = [fate EXCEPT ![j] = Marked(j, ps, "dropped")]
      /\ UNCHANGED <<mode, result, run>>
  BY DEF TriageUnavailable, n
<1>5. /\ job'[j].at = "processing" /\ job'[j].docs = job[j].docs /\ job'[j].next = 1
      /\ job'[j].todo = SubSeq(todo, 1, n) /\ job' \in [Jobs -> JobRow]
      /\ \A i \in Jobs \ {j} : job'[i] = job[i]
  BY <1>1, <1>3, <1>4, CallType DEF JobRow, Stages
<1>6. /\ DOMAIN fate' = Jobs /\ fate'[j] = Marked(j, ps, "dropped")
      /\ \A i \in Jobs \ {j} : fate'[i] = fate[i]
  BY <1>4, CallType
<1>7. /\ Are(j, "open")' = Are(j, "open") \ ps
      /\ \A h : h \notin {"dropped", "open"} => Are(j, h)' = Are(j, h) /\ Count(j, h)' = Count(j, h)
  <2>1. ps \subseteq Are(j, "open") /\ PipelineTypeOK
    BY <1>1, CallType
  <2> HIDE DEF ps
  <2>2. Moved(j, ps, "dropped", "open")
    BY <1>5, <1>6, <2>1, MarkedCounts
  <2> QED
    BY <2>2 DEF Moved
<1>8. Positions(j)' = Positions(j) /\ Left(j)' = 1 .. n
  <2>1. Positions(j)' = Positions(j)
    BY <1>5 DEF Positions
  <2>2. Left(j)' = {SubSeq(todo, 1, n)[k] : k \in 1 .. n}
    BY <1>3, <1>5 DEF Left
  <2> QED
    BY <1>3, <2>1, <2>2
<1>9. Placed(j)'
  <2>1. Are(j, "open")' = InHand(j)'
    BY <1>1, <1>2, <1>5, <1>7, <1>8 DEF InHand
  <2>2. DOMAIN job'[j].todo = 1 .. n /\ Len(job'[j].todo) = n
    BY <1>3, <1>5
  <2>3. Are(j, "stored")' = {} /\ run'[j] = NoRun
    BY <1>1, <1>4, <1>7
  <2>4. job'[j].next \in 1 .. n + 1
    BY <1>2, <1>5
  <2>5. \A k, l \in DOMAIN job'[j].todo : job'[j].todo[k] = job'[j].todo[l] => k = l
    BY <1>3, <1>5, <2>2
  <2> QED
    BY <1>5, <2>1, <2>2, <2>3, <2>4, <2>5 DEF Placed
<1>10. Exact(j)'
  <2>1. Exact(j)
    BY CallType DEF Good
  <2>2. \A h \in {"excluded", "filtered", "expired", "failed", "stored", "deferred"} :
          Count(j, h)' = Count(j, h)
    BY <1>7
  <2>3. result'[j] = result[j]
    BY <1>4
  <2> QED
    BY <1>5, <1>8, <2>1, <2>2, <2>3 DEF Exact
<1>11. Good(j)'
  BY <1>5, <1>9, <1>10, Unrecorded DEF Good
<1>12. fate'[j] \in [Positions(j)' -> Fates] /\ Selected(job[j].todo)' \subseteq Positions(j)'
  <2>1. \A k \in DOMAIN SubSeq(todo, 1, n) : SubSeq(todo, 1, n)[k] \in Positions(j)
    BY <1>2, <1>3
  <2>2. \A p \in Positions(j) : fate[j][p] \in Fates
    BY CallType
  <2>3. fate'[j] \in [Positions(j)' -> Fates]
    BY <1>6, <1>8, <2>2 DEF Marked, Fates
  <2> QED
    BY <1>5, <1>8, <2>1, <2>3 DEF Selected
<1> QED
  BY <1>4, <1>5, <1>6, <1>11, <1>12, CallType, LocalStep

\* The document that is decided leaves what is in hand and enters one count.
LEMMA AdvanceStep ==
  ASSUME IInv, NEW j \in Jobs, NEW f \in {"kept", "filtered", "expired", "failed"}, Advance(j, f)
  PROVE  /\ Placed(j)' /\ job'[j].at = "processing" /\ job'[j].docs = job[j].docs
         /\ Count(j, f)' = Count(j, f) + 1
         /\ \A h : h \notin {f, "open"} => Count(j, h)' = Count(j, h)
         /\ job' \in [Jobs -> JobRow] /\ DOMAIN fate' = Jobs /\ run' = run /\ mode' = mode
         /\ \A i \in Jobs \ {j} : job'[i] = job[i] /\ fate'[i] = fate[i]
         /\ fate'[j] \in [Positions(j)' -> Fates] /\ Selected(job[j].todo)' \subseteq Positions(j)'
<1> DEFINE todo == job[j].todo
           next == job[j].next
           n == Len(todo)
<1>0. PipelineTypeOK
  BY DEF IInv
<1>1. /\ job[j].at = "processing" /\ next \in 1 .. n /\ n \in Nat /\ DOMAIN todo = 1 .. n
      /\ Are(j, "open") = Left(j) /\ Are(j, "stored") = {} /\ run[j] = NoRun
      /\ \A k, l \in 1 .. n : todo[k] = todo[l] => k = l
  BY CallType DEF Advance, More, Good, Placed, InHand
<1>2. /\ job' = [job EXCEPT ![j].next = @ + 1] /\ run' = run /\ mode' = mode
      /\ fate' = [fate EXCEPT ![j] = Marked(j, {todo[next]}, f)]
  BY DEF Advance, Current
<1>3. /\ job'[j].at = "processing" /\ job'[j].docs = job[j].docs /\ job'[j].todo = todo
      /\ job'[j].next = next + 1 /\ job' \in [Jobs -> JobRow]
      /\ \A i \in Jobs \ {j} : job'[i] = job[i]
  <2> DEFINE row == [job[j] EXCEPT !.next = next + 1]
  <2>1. job[j] \in JobRow /\ job \in [Jobs -> JobRow]
    BY CallType
  <2>2. /\ row \in JobRow /\ row.at = job[j].at /\ row.docs = job[j].docs /\ row.todo = todo
        /\ row.next = next + 1
    <3>1. next + 1 \in Nat
      BY <1>1
    <3> HIDE DEF next
    <3> QED
      BY <2>1, <3>1 DEF JobRow
  <2> HIDE DEF row
  <2>3. job' = [job EXCEPT ![j] = row]
    BY <1>2 DEF row
  <2> QED
    BY <1>1, <2>1, <2>2, <2>3
<1>4. /\ DOMAIN fate' = Jobs /\ fate'[j] = Marked(j, {todo[next]}, f)
      /\ \A i \in Jobs \ {j} : fate'[i] = fate[i]
  BY <1>2, CallType
<1>5. {todo[next]} \subseteq Are(j, "open")
  BY <1>1 DEF Left
<1>6. /\ Count(j, f)' = Count(j, f) + 1
      /\ Are(j, "open")' = Are(j, "open") \ {todo[next]}
      /\ \A h : h \notin {f, "open"} => Are(j, h)' = Are(j, h) /\ Count(j, h)' = Count(j, h)
  <2>1. Cardinality({todo[next]}) = 1
    BY FS_Singleton
  <2>2. Moved(j, {todo[next]}, f, "open")
    BY <1>3, <1>4, <1>5, <1>0, MarkedCounts
  <2> QED
    BY <2>1, <2>2 DEF Moved
<1>7. Left(j)' = Left(j) \ {todo[next]}
  <2>1. Left(j) = {todo[k] : k \in next .. n} /\ Left(j)' = {todo[k] : k \in next + 1 .. n}
    BY <1>3 DEF Left
  <2>2. /\ \A k \in next .. n : k # next <=> k \in next + 1 .. n
        /\ \A k \in next + 1 .. n : k \in next .. n /\ todo[k] # todo[next]
    BY <1>1
  <2> QED
    BY <2>1, <2>2
<1>8. Placed(j)'
  <2>1. Are(j, "open")' = InHand(j)'
    BY <1>1, <1>3, <1>6, <1>7 DEF InHand
  <2>2. Are(j, "stored")' = {} /\ run'[j] = NoRun
    BY <1>1, <1>2, <1>6
  <2>3. next + 1 \in 1 .. n + 1
    BY <1>1
  <2> QED
    BY <1>1, <1>3, <2>1, <2>2, <2>3 DEF Placed
<1>9. Positions(j)' = Positions(j)
  BY <1>3 DEF Positions
<1>10. fate'[j] \in [Positions(j)' -> Fates] /\ Selected(job[j].todo)' \subseteq Positions(j)'
  BY <1>3, <1>4, <1>9, CallType DEF Marked, Fates, Selected
<1> QED
  BY <1>2, <1>3, <1>4, <1>6, <1>8, <1>10

\* Each decision is counted where it belongs.
LEMMA AdvanceCounted ==
  ASSUME IInv, NEW j \in Jobs, NEW f \in {"kept", "filtered", "expired", "failed"}, Advance(j, f),
         result' \in [Jobs -> Result], \A i \in Jobs \ {j} : result'[i] = result[i],
         result'[j].documents = result[j].documents, result'[j].ingested = result[j].ingested,
         result'[j].deferred = result[j].deferred,
         result'[j].filtered = IF f = "filtered" THEN result[j].filtered + 1 ELSE result[j].filtered,
         result'[j].expired = IF f = "expired" THEN result[j].expired + 1 ELSE result[j].expired,
         result'[j].failures = IF f = "failed" THEN result[j].failures + 1 ELSE result[j].failures
  PROVE  IInv'
<1>1. /\ Placed(j)' /\ job'[j].at = "processing" /\ job'[j].docs = job[j].docs
      /\ Count(j, f)' = Count(j, f) + 1
      /\ \A h : h \notin {f, "open"} => Count(j, h)' = Count(j, h)
      /\ job' \in [Jobs -> JobRow] /\ DOMAIN fate' = Jobs /\ run' = run /\ mode' = mode
      /\ \A i \in Jobs \ {j} : job'[i] = job[i] /\ fate'[i] = fate[i]
      /\ fate'[j] \in [Positions(j)' -> Fates] /\ Selected(job[j].todo)' \subseteq Positions(j)'
  BY AdvanceStep
<1>2. /\ Exact(j) /\ run \in [Jobs -> RunRow \cup {NoRun}] /\ PipelineTypeOK
  BY CallType DEF Good
<1>3. \A h : Count(j, h) \in Nat
  BY <1>2, Counts
<1>4. Positions(j)' = Positions(j)
  BY <1>1 DEF Positions
<1>5. /\ Count(j, "excluded")' = Count(j, "excluded") /\ Count(j, "stored")' = Count(j, "stored")
      /\ Count(j, "deferred")' = Count(j, "deferred")
      /\ Count(j, "filtered")' = IF f = "filtered" THEN Count(j, "filtered") + 1 ELSE Count(j, "filtered")
      /\ Count(j, "expired")' = IF f = "expired" THEN Count(j, "expired") + 1 ELSE Count(j, "expired")
      /\ Count(j, "failed")' = IF f = "failed" THEN Count(j, "failed") + 1 ELSE Count(j, "failed")
  BY <1>1
<1>6. Exact(j)'
  BY <1>1, <1>2, <1>3, <1>4, <1>5 DEF Exact
<1>7. Good(j)'
  BY <1>1, <1>6, Unrecorded DEF Good
<1> QED
  BY <1>1, <1>2, <1>7, LocalStep

\* The four ways out of the loop body.
LEMMA AdvanceIsGood ==
  ASSUME IInv, NEW j \in Jobs, SkipExpired(j) \/ FilterOut(j) \/ Fail(j) \/ Keep(j)
  PROVE  IInv'
<1>1. result \in [Jobs -> Result] /\ result[j] \in Result
  BY CallType
<1>2. CASE SkipExpired(j)
  <2>1. Advance(j, "expired") /\ result' = [result EXCEPT ![j].expired = @ + 1]
    BY <1>2 DEF SkipExpired
  <2>2. /\ result' \in [Jobs -> Result] /\ \A i \in Jobs \ {j} : result'[i] = result[i]
        /\ result'[j] = [result[j] EXCEPT !.expired = @ + 1]
    BY <1>1, <2>1 DEF Result
  <2> QED
    BY <1>1, <2>1, <2>2, AdvanceCounted DEF Result
<1>3. CASE FilterOut(j)
  <2>1. Advance(j, "filtered") /\ result' = [result EXCEPT ![j].filtered = @ + 1]
    BY <1>3 DEF FilterOut
  <2>2. /\ result' \in [Jobs -> Result] /\ \A i \in Jobs \ {j} : result'[i] = result[i]
        /\ result'[j] = [result[j] EXCEPT !.filtered = @ + 1]
    BY <1>1, <2>1 DEF Result
  <2> QED
    BY <1>1, <2>1, <2>2, AdvanceCounted DEF Result
<1>4. CASE Fail(j)
  <2>1. Advance(j, "failed") /\ result' = [result EXCEPT ![j].failures = @ + 1]
    BY <1>4 DEF Fail
  <2>2. /\ result' \in [Jobs -> Result] /\ \A i \in Jobs \ {j} : result'[i] = result[i]
        /\ result'[j] = [result[j] EXCEPT !.failures = @ + 1]
    BY <1>1, <2>1 DEF Result
  <2> QED
    BY <1>1, <2>1, <2>2, AdvanceCounted DEF Result
<1>5. CASE Keep(j)
  BY <1>1, <1>5, AdvanceCounted DEF Keep
<1> QED
  BY <1>2, <1>3, <1>4, <1>5

\* list.index finds a place that is not behind the current one, and this one when no
\* document was collected twice: the count covers what is left, or is exactly that.
LEMMA BudgetEndsIsGood ==
  ASSUME IInv, NEW j \in Jobs, BudgetEnds(j)
  PROVE  IInv'
<1> DEFINE todo == job[j].todo
           next == job[j].next
           n == Len(todo)
<1>1. PICK k \in DOMAIN todo : FirstEqual(j, k) /\ DeferRest(j, n - (k - 1)) /\ More(j)
  BY DEF BudgetEnds
<1>2. /\ job[j].at = "processing" /\ next \in 1 .. n /\ n \in Nat /\ DOMAIN todo = 1 .. n
      /\ Are(j, "open") = Left(j) /\ Are(j, "stored") = {} /\ run[j] = NoRun
      /\ \A l, m \in 1 .. n : todo[l] = todo[m] => l = m
      /\ \A l \in 1 .. n : todo[l] \in Positions(j)
  BY <1>1, CallType DEF More, Good, Placed, InHand, Selected
<1>3. /\ k \in 1 .. n /\ k <= next
      /\ job[j].docs[todo[k]] = job[j].docs[todo[next]]
  BY <1>1, <1>2 DEF FirstEqual, Current
<1>4. IsFiniteSet(Left(j)) /\ Cardinality(Left(j)) = n + 1 - next
  <2>1. ListsOnce(todo, next, n, Left(j))
    BY <1>2 DEF ListsOnce, Left
  <2> QED
    BY <1>2, <2>1, ListedOnce
<1>5. /\ job' = [job EXCEPT ![j].at = "storing"] /\ run' = run /\ mode' = mode
      /\ fate' = [fate EXCEPT ![j] = Marked(j, Left(j), "deferred")]
      /\ result' = [result EXCEPT ![j].deferred = @ + (n - (k - 1))]
  BY <1>1 DEF DeferRest
<1>6. /\ job'[j].at = "storing" /\ job'[j].docs = job[j].docs /\ job'[j].todo = todo
      /\ job' \in [Jobs -> JobRow] /\ \A i \in Jobs \ {j} : job'[i] = job[i]
  BY <1>5, CallType DEF JobRow, Stages
<1>7. /\ DOMAIN fate' = Jobs /\ fate'[j] = Marked(j, Left(j), "deferred")
      /\ \A i \in Jobs \ {j} : fate'[i] = fate[i]
  BY <1>5, CallType
<1>8. /\ result' \in [Jobs -> Result] /\ \A i \in Jobs \ {j} : result'[i] = result[i]
      /\ result'[j] = [result[j] EXCEPT !.deferred = @ + (n - (k - 1))]
  <2>1. n - (k - 1) \in Nat
    BY <1>2, <1>3
  <2>2. result \in [Jobs -> Result] /\ result[j] \in Result
    BY CallType
  <2> DEFINE m == n - (k - 1)
             r == [result[j] EXCEPT !.deferred = @ + m]
  <2>3. m \in Nat
    BY <2>1
  <2> HIDE DEF m
  <2>4. r \in Result
    BY <2>2, <2>3 DEF Result
  <2>5. result' = [result EXCEPT ![j] = r]
    BY <1>5 DEF m
  <2> QED
    BY <2>2, <2>4, <2>5 DEF m
<1>9. Moved(j, Left(j), "deferred", "open")
  <2>1. PipelineTypeOK /\ Left(j) \subseteq Are(j, "open")
    BY <1>2 DEF IInv
  <2> QED
    BY <1>6, <1>7, <2>1, MarkedCounts
<1>10. Positions(j)' = Positions(j)
  BY <1>6 DEF Positions
<1>11. /\ Are(j, "open")' = {} /\ Are(j, "stored")' = {}
       /\ Count(j, "deferred")' = Count(j, "deferred") + (n + 1 - next)
       /\ \A h \in {"excluded", "filtered", "expired", "failed", "stored"} :
            Count(j, h)' = Count(j, h)
  BY <1>2, <1>4, <1>9 DEF Moved
<1>12. Placed(j)'
  BY <1>2, <1>5, <1>6, <1>11 DEF Placed, InHand
<1>13. Exact(j)'
  <2>1. Exact(j) /\ result[j] \in Result /\ Count(j, "deferred") \in Nat
    BY CallType, Counts DEF Good
  <2>2. /\ result'[j].documents = result[j].documents /\ result'[j].filtered = result[j].filtered
        /\ result'[j].expired = result[j].expired /\ result'[j].failures = result[j].failures
        /\ result'[j].ingested = result[j].ingested
        /\ result'[j].deferred = result[j].deferred + (n - (k - 1)) /\ result[j].deferred \in Nat
    BY <1>8, <2>1 DEF Result
  <2>3. result'[j].deferred >= Count(j, "deferred")'
    <3>0. n \in Nat /\ k \in Nat /\ next \in Nat /\ k <= next /\ next <= n
      BY <1>2, <1>3
    <3>1. n + 1 - next <= n - (k - 1) /\ n + 1 - next \in Nat /\ n - (k - 1) \in Nat
      <4> HIDE DEF n, next
      <4> QED
        BY <3>0
    <3>2. result[j].deferred >= Count(j, "deferred")
      BY <2>1 DEF Exact
    <3> HIDE DEF n, next
    <3> QED
      BY <1>11, <2>1, <2>2, <3>1, <3>2
  <2>4. ASSUME \A p, q \in Positions(j) : job[j].docs[p] = job[j].docs[q] => p = q
        PROVE  result'[j].deferred = Count(j, "deferred")'
    <3>1. k = next
      BY <1>2, <1>3, <2>4
    <3>2. result[j].deferred = Count(j, "deferred")
      BY <2>1, <2>4 DEF Exact
    <3> QED
      BY <1>2, <1>11, <2>1, <2>2, <3>1, <3>2
  <2> QED
    BY <1>6, <1>10, <1>11, <2>1, <2>2, <2>3, <2>4 DEF Exact
<1>14. Good(j)'
  BY <1>6, <1>12, <1>13, Unrecorded DEF Good
<1>15. fate'[j] \in [Positions(j)' -> Fates] /\ Selected(job[j].todo)' \subseteq Positions(j)'
  <2>1. \A p \in Positions(j) : fate[j][p] \in Fates
    BY CallType
  <2>2. fate'[j] \in [Positions(j)' -> Fates]
    BY <1>7, <1>10, <2>1 DEF Marked, Fates
  <2> QED
    BY <1>2, <1>6, <1>10, <2>2 DEF Selected
<1> QED
  BY <1>5, <1>6, <1>7, <1>8, <1>14, <1>15, CallType, LocalStep

\* What was kept is what is stored, and what is counted as ingested.
LEMMA StoreIsGood ==
  ASSUME IInv, NEW j \in Jobs, Store(j)
  PROVE  IInv'
<1>1. /\ job[j].at = "storing" /\ run[j] = NoRun /\ Are(j, "open") = {} /\ Are(j, "stored") = {}
  BY CallType DEF Store, Good, Placed, InHand
<1>2. IsFiniteSet(Are(j, "kept")) /\ Count(j, "kept") \in Nat /\ Count(j, "stored") = 0
  BY <1>1, CallType, Counts
<1>3. /\ job' = [job EXCEPT ![j].at = "recording"] /\ run' = run /\ mode' = mode
      /\ fate' = [fate EXCEPT ![j] = Marked(j, Are(j, "kept"), "stored")]
      /\ result' = [result EXCEPT ![j].ingested = Count(j, "kept")]
  BY DEF Store, Count
<1>4. /\ job'[j].at = "recording" /\ job'[j].docs = job[j].docs /\ job'[j].todo = job[j].todo
      /\ job' \in [Jobs -> JobRow] /\ \A i \in Jobs \ {j} : job'[i] = job[i]
  BY <1>3, CallType DEF JobRow, Stages
<1>5. /\ DOMAIN fate' = Jobs /\ fate'[j] = Marked(j, Are(j, "kept"), "stored")
      /\ \A i \in Jobs \ {j} : fate'[i] = fate[i]
  BY <1>3, CallType
<1>6. /\ result' \in [Jobs -> Result] /\ \A i \in Jobs \ {j} : result'[i] = result[i]
      /\ result'[j] = [result[j] EXCEPT !.ingested = Count(j, "kept")]
  BY <1>2, <1>3, CallType DEF Result
<1>7. Moved(j, Are(j, "kept"), "stored", "kept")
  <2>1. PipelineTypeOK
    BY DEF IInv
  <2> QED
    BY <1>4, <1>5, <2>1, MarkedCounts
<1>8. /\ Are(j, "kept")' = {} /\ Are(j, "open")' = {}
      /\ Count(j, "stored")' = Count(j, "kept")
      /\ \A h \in {"excluded", "filtered", "expired", "failed", "deferred"} :
           Count(j, h)' = Count(j, h)
  <2>1. Cardinality(Are(j, "kept")) = Count(j, "kept") /\ 0 + Count(j, "kept") = Count(j, "kept")
    BY <1>2 DEF Count
  <2> QED
    BY <1>1, <1>2, <1>7, <2>1 DEF Moved
<1>9. Positions(j)' = Positions(j)
  BY <1>4 DEF Positions
<1>10. Placed(j)'
  BY <1>1, <1>3, <1>4, <1>8 DEF Placed, InHand
<1>11. Exact(j)'
  <2>1. Exact(j) /\ result[j] \in Result
    BY CallType DEF Good
  <2>2. /\ result'[j].documents = result[j].documents /\ result'[j].filtered = result[j].filtered
        /\ result'[j].expired = result[j].expired /\ result'[j].failures = result[j].failures
        /\ result'[j].deferred = result[j].deferred /\ result'[j].ingested = Count(j, "kept")
    BY <1>6, <2>1 DEF Result
  <2> QED
    BY <1>4, <1>8, <1>9, <2>1, <2>2 DEF Exact
<1>12. Good(j)'
  BY <1>4, <1>10, <1>11, Unrecorded DEF Good
<1>13. fate'[j] \in [Positions(j)' -> Fates] /\ Selected(job[j].todo)' \subseteq Positions(j)'
  <2>1. (\A p \in Positions(j) : fate[j][p] \in Fates) /\ Selected(job[j].todo) \subseteq Positions(j)
    BY CallType
  <2>2. fate'[j] \in [Positions(j)' -> Fates]
    BY <1>5, <1>9, <2>1 DEF Marked, Fates
  <2> QED
    BY <1>4, <1>9, <2>1, <2>2 DEF Selected
<1> QED
  BY <1>3, <1>4, <1>5, <1>6, <1>12, <1>13, CallType, LocalStep

-----------------------------------------------------------------------------
(* The theorems. *)

\* A call begins.
LEMMA StartIsGood ==
  ASSUME IInv, NEW j \in Jobs, Start(j)
  PROVE  IInv'
BY CollectIsGood, GoesOn DEF Start

\* A call goes on.
LEMMA ProceedIsGood ==
  ASSUME IInv, NEW j \in Jobs, Proceed(j)
  PROVE  IInv'
<1>1. CASE \E out \in SUBSET Positions(j) : \E s \in Selections(Positions(j) \ out) : Triage(j, out, s)
  BY <1>1, TriageIsGood
<1>2. CASE TriageUnavailable(j)
  BY <1>2, TriageUnavailableIsGood
<1>3. CASE SkipExpired(j) \/ FilterOut(j) \/ Fail(j) \/ Keep(j)
  BY <1>3, AdvanceIsGood
<1>4. CASE BudgetEnds(j)
  BY <1>4, BudgetEndsIsGood
<1>5. CASE TriageEscapes(j) \/ LoopEnds(j) \/ StoreFails(j) \/ Raise(j)
  BY <1>5, GoesOn
<1>6. CASE Store(j)
  BY <1>6, StoreIsGood
<1>7. CASE Record(j) \/ RecordFailure(j)
  BY <1>7, RecordIsGood
<1> QED
  BY <1>1, <1>2, <1>3, <1>4, <1>5, <1>6, <1>7 DEF Proceed

\* Steps outside the pipeline leave its invariant alone.
LEMMA StutterIsGood ==
  ASSUME IInv, UNCHANGED <<mode, pipeline>>
  PROVE  IInv'
<1>1. \A j \in Jobs : /\ Good(j)' /\ Positions(j)' = Positions(j)
                      /\ Selected(job[j].todo)' = Selected(job[j].todo)
  BY Untouched DEF IInv, pipeline
<1> QED
  BY <1>1 DEF IInv, PipelineTypeOK, pipeline

\* Whatever the calls, in whatever order they are made, end and are forgotten.
THEOREM PipelineInvariant == PipelineSpec => []IInv
<1>1. PipelineInit => IInv
  BY InitIsGood
<1>2. IInv /\ [PipelineNext]_<<mode, pipeline>> => IInv'
  BY StartIsGood, ProceedIsGood, ForgetIsGood, StutterIsGood DEF PipelineNext
<1> QED
  BY <1>1, <1>2, PTL DEF PipelineSpec

\* The counters say what became of every document (ingest_source).
THEOREM CountersAreExact == PipelineSpec => []CountersExact
<1>1. IInv => CountersExact
  BY DEF IInv, Good, CountersExact
<1> QED
  BY <1>1, PipelineInvariant, PTL

\* The run on record is true (record_source_run, _run_status).
THEOREM RunsAreTrue == PipelineSpec => []RunIsTrue
<1>1. IInv => RunIsTrue
  BY DEF IInv, Good, RunIsTrue
<1> QED
  BY <1>1, PipelineInvariant, PTL

-----------------------------------------------------------------------------
(* The batches *)

Quiet(b) ==
  batch[b].at = "idle" => batch[b] = Idle /\ \A j \in JobSet(b) : job[j] = Fresh

Reported(b) ==
  /\ Len(batch[b].report) <= Len(JobsOf[b])
  /\ \A i \in DOMAIN batch[b].report : /\ Ended(JobsOf[b][i])
                                       /\ batch[b].report[i] = Entry(JobsOf[b][i])

InTurn(b) ==
  batch[b].at # "idle" /\ ~batch[b].continue =>
    \A i \in DOMAIN JobsOf[b] :
      /\ i > Waiting(b) => job[JobsOf[b][i]].at = "ready"
      /\ batch[b].at = "running" /\ i < Waiting(b) => job[JobsOf[b][i]].at = "returned"
      /\ batch[b].at = "failed" =>
           /\ i = Waiting(b) => job[JobsOf[b][i]].at = "ready"
           /\ i + 1 < Waiting(b) => job[JobsOf[b][i]].at = "returned"

Orderly(b) == Quiet(b) /\ Reported(b) /\ InTurn(b)

BatchIInv == IInv /\ TypeOK /\ \A b \in Batches : Orderly(b)

-----------------------------------------------------------------------------
(* Lemmas on the calls of a batch. *)

Row == [job : Jobs, ok : BOOLEAN, result : Result]
State == [at : {"idle", "running", "failed"}, continue : BOOLEAN, report : Seq(Row)]

\* The calls of a batch are its own, and each is made for one source.
LEMMA CallsOf ==
  ASSUME NEW b \in Batches
  PROVE  /\ JobsOf[b] \in Seq(Jobs) /\ Len(JobsOf[b]) \in Nat
         /\ DOMAIN JobsOf[b] = 1 .. Len(JobsOf[b])
         /\ \A i \in DOMAIN JobsOf[b] : JobsOf[b][i] \in JobSet(b)
         /\ JobSet(b) \subseteq Jobs
         /\ \A i, k \in DOMAIN JobsOf[b] : JobsOf[b][i] = JobsOf[b][k] => i = k
         /\ \A c \in Batches \ {b} : \A j \in JobSet(b) : j \notin JobSet(c)
<1>1. JobsOf[b] \in Seq(Jobs)
  BY BatchAssumption
<1>2. /\ Len(JobsOf[b]) \in Nat /\ DOMAIN JobsOf[b] = 1 .. Len(JobsOf[b])
      /\ \A i \in DOMAIN JobsOf[b] : JobsOf[b][i] \in Jobs
  BY <1>1
<1>3. \A c \in Batches \ {b} : \A j \in JobSet(b) : j \notin JobSet(c)
  BY BatchAssumption
<1> QED
  BY <1>1, <1>2, <1>3, BatchAssumption DEF JobSet

\* The types of one batch.
LEMMA BatchType ==
  ASSUME TypeOK, NEW b \in Batches
  PROVE  /\ batch \in [Batches -> State] /\ batch[b] \in State
         /\ batch[b].report \in Seq(Row) /\ Len(batch[b].report) \in Nat
         /\ DOMAIN batch[b].report = 1 .. Len(batch[b].report)
         /\ Waiting(b) = Len(batch[b].report) + 1
         /\ batch[b].at \in {"idle", "running", "failed"} /\ batch[b].continue \in BOOLEAN
         /\ (batch[b].at # "idle" <=> lock = b)
<1>1. batch \in [Batches -> State] /\ (batch[b].at # "idle" <=> lock = b)
  BY DEF TypeOK, State, Row
<1>2. batch[b] \in State
  BY <1>1
<1> QED
  BY <1>1, <1>2 DEF State, Waiting

\* A batch none of whose calls moves stays as it is.
LEMMA Undisturbed ==
  ASSUME NEW b \in Batches, Orderly(b), batch'[b] = batch[b],
         \A j \in JobSet(b) : job'[j] = job[j] /\ result'[j] = result[j]
  PROVE  Orderly(b)'
<1>1. \A i \in DOMAIN JobsOf[b] : /\ job'[JobsOf[b][i]] = job[JobsOf[b][i]]
                                  /\ result'[JobsOf[b][i]] = result[JobsOf[b][i]]
  BY CallsOf
<1>2. Waiting(b)' = Waiting(b)
  BY DEF Waiting
<1>3. Quiet(b)'
  BY DEF Orderly, Quiet
<1>4. InTurn(b)'
  BY <1>1, <1>2 DEF Orderly, InTurn
<1>5. Reported(b)'
  <2>1. Len(batch[b].report) <= Len(JobsOf[b])
    BY DEF Orderly, Reported
  <2>2. ASSUME NEW i \in DOMAIN batch[b].report
        PROVE  Ended(JobsOf[b][i])' /\ batch[b].report[i] = Entry(JobsOf[b][i])'
    <3>1. Ended(JobsOf[b][i]) /\ batch[b].report[i] = Entry(JobsOf[b][i])
      BY DEF Orderly, Reported
    <3>2. JobsOf[b][i] \in JobSet(b)
      <4>1. i \in DOMAIN JobsOf[b]
        BY <2>1, CallsOf
      <4> QED
        BY <4>1 DEF JobSet
    <3> QED
      BY <3>1, <3>2 DEF Ended, Entry
  <2> QED
    BY <2>1, <2>2 DEF Reported
<1> QED
  BY <1>3, <1>4, <1>5 DEF Orderly

\* A call moves alone; it begins once, and is not taken up again when it has ended.
LEMMA StartSteps ==
  ASSUME IInv, NEW j \in Jobs, Start(j)
  PROVE  /\ job[j].at = "ready"
         /\ \A i \in Jobs \ {j} : job'[i] = job[i] /\ result'[i] = result[i]
<1>0. DOMAIN job = Jobs /\ DOMAIN result = Jobs
  BY DEF IInv, PipelineTypeOK
<1>1. CASE Refuse(j) \/ CollectFails(j)
  BY <1>0, <1>1 DEF Refuse, CollectFails
<1>2. CASE Collect(j)
  BY <1>0, <1>2 DEF Collect
<1> QED
  BY <1>1, <1>2 DEF Start

\* What goes on has begun and has not ended.
LEMMA ProceedSteps ==
  ASSUME IInv, NEW j \in Jobs, Proceed(j)
  PROVE  /\ job[j].at \notin {"ready", "returned", "raised"}
         /\ \A i \in Jobs \ {j} : job'[i] = job[i] /\ result'[i] = result[i]
<1>0. DOMAIN job = Jobs /\ DOMAIN result = Jobs
  BY DEF IInv, PipelineTypeOK
<1>1. CASE \E out \in SUBSET Positions(j) : \E s \in Selections(Positions(j) \ out) : Triage(j, out, s)
  BY <1>0, <1>1 DEF Triage
<1>2. CASE TriageUnavailable(j)
  BY <1>0, <1>2 DEF TriageUnavailable
<1>3. CASE SkipExpired(j) \/ FilterOut(j) \/ Fail(j) \/ Keep(j)
  BY <1>0, <1>3 DEF SkipExpired, FilterOut, Fail, Keep, Advance, More
<1>4. CASE BudgetEnds(j)
  BY <1>0, <1>4 DEF BudgetEnds, DeferRest, More
<1>5. CASE TriageEscapes(j) \/ LoopEnds(j) \/ StoreFails(j) \/ Raise(j)
  BY <1>0, <1>5 DEF TriageEscapes, LoopEnds, StoreFails, Raise
<1>6. CASE Store(j)
  BY <1>0, <1>6 DEF Store
<1>7. CASE Record(j) \/ RecordFailure(j)
  BY <1>0, <1>7 DEF Record, RecordFailure
<1> QED
  BY <1>1, <1>2, <1>3, <1>4, <1>5, <1>6, <1>7 DEF Proceed

-----------------------------------------------------------------------------
(* One step of a batch. *)

\* A step changes one batch, and only the calls of that batch.
LEMMA OneBatchMoves ==
  ASSUME BatchIInv, IInv', NEW b \in Batches,
         \A j \in Jobs \ JobSet(b) : job'[j] = job[j] /\ result'[j] = result[j],
         batch' \in [Batches -> State], \A c \in Batches \ {b} : batch'[c] = batch[c],
         lock' \in Batches \cup {NoBatch},
         \A c \in Batches : batch'[c].at # "idle" <=> lock' = c,
         Orderly(b)'
  PROVE  BatchIInv'
<1>1. ASSUME NEW c \in Batches \ {b}
      PROVE  Orderly(c)'
  <2>1. Orderly(c)
    BY DEF BatchIInv
  <2>2. \A j \in JobSet(c) : job'[j] = job[j] /\ result'[j] = result[j]
    BY CallsOf
  <2> QED
    BY <2>1, <2>2, Undisturbed
<1>2. TypeOK'
  BY DEF TypeOK, IInv, State, Row
<1> QED
  BY <1>1, <1>2 DEF BatchIInv

\* A batch begins with calls that have not begun.
LEMMA StartBatchIsGood ==
  ASSUME BatchIInv, NEW b \in Batches, NEW continue \in BOOLEAN, StartBatch(b, continue)
  PROVE  BatchIInv'
<1>1. /\ batch[b] = Idle /\ lock = NoBatch /\ lock' = b
      /\ batch' = [batch EXCEPT ![b] = [Idle EXCEPT !.at = "running", !.continue = continue]]
      /\ UNCHANGED <<mode, pipeline>>
  BY DEF StartBatch
<1>2. IInv'
  BY <1>1, StutterIsGood DEF BatchIInv
<1>3. job' = job /\ result' = result
  BY <1>1 DEF pipeline
<1>4. /\ batch \in [Batches -> State]
      /\ \A c \in Batches : batch[c].at # "idle" <=> lock = c
  BY BatchType DEF BatchIInv
<1>5. /\ batch'[b].at = "running" /\ batch'[b].continue = continue /\ batch'[b].report = <<>>
      /\ batch' \in [Batches -> State] /\ \A c \in Batches \ {b} : batch'[c] = batch[c]
  BY <1>1, <1>4 DEF Idle, State
<1>6. \A c \in Batches : batch'[c].at # "idle" <=> lock' = c
  BY <1>1, <1>4, <1>5, BatchAssumption
<1>7. \A i \in DOMAIN JobsOf[b] : job'[JobsOf[b][i]].at = "ready"
  <2>1. batch[b].at = "idle" /\ Quiet(b)
    BY <1>1 DEF Idle, BatchIInv, Orderly
  <2> QED
    BY <1>3, <2>1, CallsOf DEF Quiet, Fresh
<1>8. Waiting(b)' = 1
  BY <1>5 DEF Waiting
<1>9. Orderly(b)'
  <2>1. Quiet(b)'
    BY <1>5 DEF Quiet
  <2>2. Reported(b)'
    BY <1>5, CallsOf DEF Reported
  <2>3. InTurn(b)'
    BY <1>5, <1>7, <1>8, CallsOf DEF InTurn
  <2> QED
    BY <2>1, <2>2, <2>3 DEF Orderly
<1> QED
  BY <1>1, <1>2, <1>3, <1>5, <1>6, <1>9, OneBatchMoves

\* EndBatch and Crash: the batch and all its calls are forgotten.
LEMMA ForgottenIsGood ==
  ASSUME BatchIInv, NEW b \in Batches, lock = b, lock' = NoBatch,
         batch' = [batch EXCEPT ![b] = Idle], Forget(JobSet(b))
  PROVE  BatchIInv'
<1>1. IInv'
  BY CallsOf, ForgetIsGood DEF BatchIInv
<1>2. /\ \A j \in Jobs \ JobSet(b) : job'[j] = job[j] /\ result'[j] = result[j]
      /\ \A j \in JobSet(b) : job'[j] = Fresh
  BY CallsOf DEF Forget
<1>3. /\ batch \in [Batches -> State]
      /\ \A c \in Batches : batch[c].at # "idle" <=> lock = c
  BY BatchType DEF BatchIInv
<1>4. /\ batch'[b] = Idle /\ batch' \in [Batches -> State]
      /\ \A c \in Batches \ {b} : batch'[c] = batch[c]
  BY <1>3 DEF Idle, State
<1>5. batch'[b].at = "idle" /\ batch'[b].report = <<>>
  BY <1>4 DEF Idle
<1>6. \A c \in Batches : batch'[c].at # "idle" <=> lock' = c
  BY <1>3, <1>4, <1>5, BatchAssumption
<1>7. Orderly(b)'
  <2>1. Quiet(b)' /\ InTurn(b)'
    BY <1>2, <1>4, <1>5 DEF Quiet, InTurn
  <2>2. Reported(b)'
    BY <1>5, CallsOf DEF Reported
  <2> QED
    BY <2>1, <2>2 DEF Orderly
<1> QED
  BY <1>1, <1>2, <1>4, <1>6, <1>7, OneBatchMoves

\* A call that has not ended moves; if the batch is fail-fast it is the one waited for.
LEMMA CallMoves ==
  ASSUME BatchIInv, IInv', NEW b \in Batches, NEW i \in DOMAIN JobsOf[b],
         batch[b].at # "idle", ~Ended(JobsOf[b][i]), UNCHANGED <<lock, batch>>,
         ~batch[b].continue => i = Waiting(b) /\ batch[b].at = "running",
         \A j \in Jobs \ {JobsOf[b][i]} : job'[j] = job[j] /\ result'[j] = result[j]
  PROVE  BatchIInv'
<1>1. /\ batch \in [Batches -> State] /\ lock \in Batches \cup {NoBatch}
      /\ \A c \in Batches : batch[c].at # "idle" <=> lock = c
  BY BatchType DEF BatchIInv, TypeOK
<1>2. /\ JobsOf[b][i] \in JobSet(b) /\ JobSet(b) \subseteq Jobs
      /\ \A k \in DOMAIN JobsOf[b] : k # i => JobsOf[b][k] \in Jobs \ {JobsOf[b][i]}
  BY CallsOf
<1>3. \A k \in DOMAIN JobsOf[b] : k # i =>
        job'[JobsOf[b][k]] = job[JobsOf[b][k]] /\ result'[JobsOf[b][k]] = result[JobsOf[b][k]]
  BY <1>2
<1>4. Orderly(b) /\ Waiting(b)' = Waiting(b) /\ batch'[b] = batch[b]
  BY DEF BatchIInv, Waiting
<1>5. Reported(b)'
  <2>1. Len(batch[b].report) <= Len(JobsOf[b])
    BY <1>4 DEF Orderly, Reported
  <2>2. ASSUME NEW k \in DOMAIN batch[b].report
        PROVE  Ended(JobsOf[b][k])' /\ batch[b].report[k] = Entry(JobsOf[b][k])'
    <3>1. Ended(JobsOf[b][k]) /\ batch[b].report[k] = Entry(JobsOf[b][k])
      BY <1>4 DEF Orderly, Reported
    <3>2. k \in DOMAIN JobsOf[b] /\ k # i
      BY <2>1, <3>1, CallsOf, BatchType DEF BatchIInv
    <3> QED
      BY <1>3, <3>1, <3>2 DEF Ended, Entry
  <2> QED
    BY <1>4, <2>1, <2>2 DEF Reported
<1>6. InTurn(b)'
  <2>1. SUFFICES ASSUME ~batch[b].continue, NEW k \in DOMAIN JobsOf[b]
                 PROVE  /\ k > Waiting(b) => job'[JobsOf[b][k]].at = "ready"
                        /\ k < Waiting(b) => job'[JobsOf[b][k]].at = "returned"
    BY <1>4, <2>1 DEF InTurn
  <2>2. i = Waiting(b) /\ batch[b].at = "running"
    BY <2>1
  <2>3. /\ k > Waiting(b) => job[JobsOf[b][k]].at = "ready"
        /\ k < Waiting(b) => job[JobsOf[b][k]].at = "returned"
    BY <1>4, <2>1, <2>2 DEF Orderly, InTurn
  <2>4. k > Waiting(b) \/ k < Waiting(b) => k # i
    BY <2>2, CallsOf
  <2> QED
    BY <1>3, <2>3, <2>4
<1>7. Orderly(b)'
  BY <1>4, <1>5, <1>6 DEF Orderly, Quiet
<1>8. \A j \in Jobs \ JobSet(b) : job'[j] = job[j] /\ result'[j] = result[j]
  BY <1>2
<1> QED
  BY <1>1, <1>7, <1>8, OneBatchMoves

\* The pool takes up the next call; without a pool it is the one waited for.
LEMMA StartSourceIsGood ==
  ASSUME BatchIInv, NEW b \in Batches, StartSource(b)
  PROVE  BatchIInv'
<1>1. PICK i \in DOMAIN JobsOf[b] : MayStart(b, i) /\ Start(JobsOf[b][i])
  BY DEF StartSource
<1> DEFINE j == JobsOf[b][i]
<1>2. j \in Jobs
  BY CallsOf
<1>3. IInv'
  BY <1>1, <1>2, StartIsGood DEF BatchIInv
<1>4. job[j].at = "ready" /\ \A k \in Jobs \ {j} : job'[k] = job[k] /\ result'[k] = result[k]
  BY <1>1, <1>2, StartSteps DEF BatchIInv
<1>5. batch[b].at = "running" /\ (~batch[b].continue => i = Waiting(b))
  BY <1>1 DEF MayStart, Workers
<1>6. UNCHANGED <<lock, batch>>
  BY DEF StartSource
<1> QED
  BY <1>3, <1>4, <1>5, <1>6, CallMoves DEF Ended

\* A call that goes on in a fail-fast batch is the one waited for.
LEMMA ProceedSourceIsGood ==
  ASSUME BatchIInv, NEW b \in Batches, ProceedSource(b)
  PROVE  BatchIInv'
<1>1. PICK i \in DOMAIN JobsOf[b] : Proceed(JobsOf[b][i])
  BY DEF ProceedSource, JobSet
<1> DEFINE j == JobsOf[b][i]
<1>2. j \in Jobs /\ j \in JobSet(b)
  BY CallsOf
<1>3. IInv'
  BY <1>1, <1>2, ProceedIsGood DEF BatchIInv
<1>4. /\ job[j].at \notin {"ready", "returned", "raised"}
      /\ \A k \in Jobs \ {j} : job'[k] = job[k] /\ result'[k] = result[k]
  BY <1>1, <1>2, ProceedSteps DEF BatchIInv
<1>5. Orderly(b)
  BY DEF BatchIInv
<1>6. batch[b].at # "idle"
  BY <1>2, <1>4, <1>5 DEF Orderly, Quiet, Fresh
<1>7. ~batch[b].continue => i = Waiting(b) /\ batch[b].at = "running"
  <2>1. SUFFICES ASSUME ~batch[b].continue
                 PROVE  i = Waiting(b) /\ batch[b].at = "running"
    OBVIOUS
  <2>2. /\ i > Waiting(b) => FALSE
        /\ batch[b].at = "running" /\ i < Waiting(b) => FALSE
        /\ batch[b].at = "failed" => ~(i = Waiting(b)) /\ ~(i + 1 < Waiting(b))
    BY <1>4, <1>5, <1>6, <2>1 DEF Orderly, InTurn
  <2>3. i \in Nat /\ Waiting(b) = Len(batch[b].report) + 1 /\ Len(batch[b].report) \in Nat
    BY CallsOf, BatchType DEF BatchIInv
  <2>4. ~(batch[b].at = "failed" /\ i + 1 = Waiting(b))
    <3>1. i + 1 = Waiting(b) => i \in DOMAIN batch[b].report
      BY <2>3, CallsOf, BatchType DEF BatchIInv
    <3> QED
      BY <1>4, <1>5, <3>1 DEF Orderly, Reported, Ended
  <2>5. batch[b].at \in {"running", "failed"}
    BY <1>6, BatchType DEF BatchIInv
  <2> QED
    BY <2>2, <2>3, <2>4, <2>5
<1>8. UNCHANGED <<lock, batch>>
  BY DEF ProceedSource
<1> QED
  BY <1>3, <1>4, <1>6, <1>7, <1>8, CallMoves DEF Ended

\* The entry of the call that is waited for is true, and stays true.
LEMMA ReportIsGood ==
  ASSUME BatchIInv, NEW b \in Batches, Report(b)
  PROVE  BatchIInv'
<1> DEFINE w == Waiting(b)
           j == JobsOf[b][w]
           at == IF job[j].at = "raised" /\ ~batch[b].continue THEN "failed" ELSE batch[b].at
           report == Append(batch[b].report, Entry(j))
<1>1. /\ batch[b].at = "running" /\ w \in DOMAIN JobsOf[b] /\ Ended(j)
      /\ batch' = [batch EXCEPT ![b].report = report, ![b].at = at]
      /\ UNCHANGED <<mode, pipeline, lock>>
  BY DEF Report
<1>2. IInv'
  BY <1>1, StutterIsGood DEF BatchIInv
<1>3. job' = job /\ result' = result /\ lock' = lock
  BY <1>1 DEF pipeline
<1>4. /\ batch \in [Batches -> State] /\ batch[b] \in State /\ lock \in Batches \cup {NoBatch}
      /\ \A c \in Batches : batch[c].at # "idle" <=> lock = c
      /\ batch[b].report \in Seq(Row) /\ w = Len(batch[b].report) + 1 /\ Len(batch[b].report) \in Nat
  BY BatchType DEF BatchIInv, TypeOK
<1>5. Entry(j) \in Row
  <2>1. j \in Jobs
    BY <1>1, CallsOf
  <2>2. result[j] \in Result
    BY <2>1, CallType DEF BatchIInv
  <2> QED
    BY <2>1, <2>2 DEF Entry, Row
<1>6. /\ report \in Seq(Row) /\ Len(report) = w /\ report[w] = Entry(j)
      /\ \A k \in 1 .. w - 1 : report[k] = batch[b].report[k]
  BY <1>4, <1>5
<1>7. at \in {"running", "failed"} /\ (at = "running" /\ ~batch[b].continue => job[j].at = "returned")
  BY <1>1 DEF Ended
<1> HIDE DEF report, at
<1>8. /\ batch'[b].report = report /\ batch'[b].at = at /\ batch'[b].continue = batch[b].continue
      /\ batch' \in [Batches -> State] /\ \A c \in Batches \ {b} : batch'[c] = batch[c]
  <2> DEFINE new == [batch[b] EXCEPT !.report = report, !.at = at]
  <2>1. /\ new \in State /\ new.report = report /\ new.at = at
        /\ new.continue = batch[b].continue
    BY <1>4, <1>6, <1>7 DEF State
  <2> HIDE DEF new
  <2>2. batch' = [batch EXCEPT ![b] = new]
    BY <1>1 DEF new
  <2> QED
    BY <1>4, <2>1, <2>2
<1>9. Waiting(b)' = w + 1
  BY <1>6, <1>8 DEF Waiting
<1>10. Orderly(b)
  BY DEF BatchIInv
<1>11. Quiet(b)'
  BY <1>7, <1>8 DEF Quiet
<1>12. Reported(b)'
  <2>1. w <= Len(JobsOf[b])
    BY <1>1, CallsOf
  <2>2. ASSUME NEW k \in DOMAIN report
        PROVE  Ended(JobsOf[b][k]) /\ report[k] = Entry(JobsOf[b][k])
    <3>1. CASE k = w
      BY <1>1, <1>6, <3>1
    <3>2. CASE k # w
      <4>1. k \in 1 .. w - 1
        BY <1>4, <1>6, <3>2
      <4>2. k \in DOMAIN batch[b].report
        BY <1>4, <4>1
      <4> QED
        BY <1>6, <1>10, <4>1, <4>2 DEF Orderly, Reported
    <3> QED
      BY <3>1, <3>2
  <2>3. \A k \in DOMAIN report : Ended(JobsOf[b][k])' /\ report[k] = Entry(JobsOf[b][k])'
    BY <1>3, <2>2 DEF Ended, Entry
  <2> QED
    BY <1>6, <1>8, <2>1, <2>3 DEF Reported
<1>13. InTurn(b)'
  <2>1. SUFFICES ASSUME ~batch[b].continue, NEW i \in DOMAIN JobsOf[b]
                 PROVE  /\ i > w + 1 => job[JobsOf[b][i]].at = "ready"
                        /\ at = "running" /\ i < w + 1 => job[JobsOf[b][i]].at = "returned"
                        /\ at = "failed" =>
                             /\ i = w + 1 => job[JobsOf[b][i]].at = "ready"
                             /\ i + 1 < w + 1 => job[JobsOf[b][i]].at = "returned"
    BY <1>3, <1>8, <1>9, <2>1 DEF InTurn
  <2>2. /\ i > w => job[JobsOf[b][i]].at = "ready"
        /\ i < w => job[JobsOf[b][i]].at = "returned"
    BY <1>1, <1>10, <2>1 DEF Orderly, InTurn
  <2>3. i \in Nat /\ w \in Nat
    BY <1>4, CallsOf
  <2>4. at = "running" /\ i = w => job[JobsOf[b][i]].at = "returned"
    BY <1>7, <2>1
  <2> HIDE DEF w, j
  <2> QED
    BY <2>2, <2>3, <2>4
<1>14. Orderly(b)'
  BY <1>11, <1>12, <1>13 DEF Orderly
<1>15. \A c \in Batches : batch'[c].at # "idle" <=> lock' = c
  BY <1>1, <1>3, <1>4, <1>7, <1>8
<1> QED
  BY <1>2, <1>3, <1>4, <1>8, <1>14, <1>15, OneBatchMoves

-----------------------------------------------------------------------------
(* The theorems. *)

\* No batch runs, and no call has begun.
LEMMA InitIsOrderly ==
  ASSUME Init
  PROVE  BatchIInv
<1>1. IInv
  BY InitIsGood DEF Init
<1>2. \A b \in Batches : batch[b] = Idle /\ Idle.at = "idle" /\ Idle.report = <<>>
  BY DEF Init, Idle
<1>3. TypeOK
  <2>1. batch \in [Batches -> State]
    BY DEF Init, Idle, State
  <2>2. \A b \in Batches : batch[b].at # "idle" <=> lock = b
    BY <1>2, BatchAssumption DEF Init
  <2> QED
    BY <1>1, <2>1, <2>2 DEF TypeOK, IInv, Init, State, Row
<1>4. ASSUME NEW b \in Batches
      PROVE  Orderly(b)
  <2>1. Quiet(b)
    BY <1>2, CallsOf DEF Quiet, Init, PipelineInit
  <2>2. Reported(b)
    BY <1>2, CallsOf DEF Reported
  <2>3. InTurn(b)
    BY <1>2 DEF InTurn
  <2> QED
    BY <2>1, <2>2, <2>3 DEF Orderly
<1> QED
  BY <1>1, <1>3, <1>4 DEF BatchIInv

\* Both ends of a process free the lock that is its own.
LEMMA EndsAreGood ==
  ASSUME BatchIInv, NEW b \in Batches, EndBatch(b) \/ Crash(b)
  PROVE  BatchIInv'
<1>1. batch[b].at # "idle" /\ Forget(JobSet(b)) /\ batch' = [batch EXCEPT ![b] = Idle]
  BY DEF EndBatch, Crash
<1>2. lock = b
  BY <1>1, BatchType DEF BatchIInv
<1>3. lock' = NoBatch
  BY <1>2 DEF EndBatch, Crash
<1> QED
  BY <1>1, <1>2, <1>3, ForgottenIsGood

\* Every step keeps the batches orderly.
LEMMA NextIsOrderly ==
  ASSUME BatchIInv, [Next]_vars
  PROVE  BatchIInv'
<1>1. CASE Next
  BY <1>1, StartBatchIsGood, StartSourceIsGood, ProceedSourceIsGood, ReportIsGood, EndsAreGood
     DEF Next
<1>2. CASE UNCHANGED vars
  <2>1. /\ UNCHANGED <<mode, pipeline>> /\ lock' = lock /\ batch' = batch
        /\ job' = job /\ result' = result
    BY <1>2 DEF vars, pipeline
  <2>2. IInv'
    BY <2>1, StutterIsGood DEF BatchIInv
  <2>3. \A b \in Batches : Orderly(b)'
    BY <2>1, Undisturbed DEF BatchIInv
  <2>4. TypeOK'
    BY <2>1, <2>2 DEF TypeOK, IInv, BatchIInv
  <2> QED
    BY <2>2, <2>3, <2>4 DEF BatchIInv
<1> QED
  BY <1>1, <1>2

\* Batches start, work, end and die in any order.
THEOREM BatchInvariant == Spec => []BatchIInv
<1>1. Init => BatchIInv
  BY InitIsOrderly
<1>2. BatchIInv /\ [Next]_vars => BatchIInv'
  BY NextIsOrderly
<1> QED
  BY <1>1, <1>2, PTL DEF Spec

\* The state is well formed, and the lock is held exactly while a batch runs.
THEOREM BatchesAreWellFormed == Spec => []TypeOK
<1>1. BatchIInv => TypeOK
  BY DEF BatchIInv
<1> QED
  BY <1>1, BatchInvariant, PTL

\* "the ingest lock prevents overlapping batches".
THEOREM BatchesExcludeEachOther == Spec => []OneBatchAtATime
<1>1. ASSUME BatchIInv, NEW b \in Batches, lock # b, NEW j \in Active(b)
      PROVE  FALSE
  <2>1. batch[b].at = "idle" /\ Quiet(b)
    BY <1>1, BatchType DEF BatchIInv, Orderly
  <2>2. job[j] = Fresh
    BY <2>1 DEF Quiet, Active
  <2> QED
    BY <2>2 DEF Active, InFlight, Fresh
<1>2. BatchIInv => OneBatchAtATime
  BY <1>1 DEF OneBatchAtATime
<1> QED
  BY <1>2, BatchInvariant, PTL

\* --fail-fast: nothing is begun after a failure, with any number of workers.
THEOREM FailFastStops == Spec => []StopsAtFirstFailure
<1>1. ASSUME BatchIInv, NEW b \in Batches, NEW i \in DOMAIN JobsOf[b], NEW k \in DOMAIN JobsOf[b],
             batch[b].at # "idle", ~batch[b].continue, i < k, job[JobsOf[b][i]].at = "raised"
      PROVE  job[JobsOf[b][k]].at = "ready"
  <2>1. /\ i \in Nat /\ k \in Nat /\ Waiting(b) \in Nat
        /\ batch[b].at \in {"running", "failed"} /\ InTurn(b)
    BY <1>1, CallsOf, BatchType DEF BatchIInv, Orderly
  <2>2. /\ i > Waiting(b) => FALSE
        /\ batch[b].at = "running" /\ i < Waiting(b) => FALSE
        /\ batch[b].at = "failed" => ~(i = Waiting(b)) /\ ~(i + 1 < Waiting(b))
    BY <1>1, <2>1 DEF InTurn
  <2>3. k > Waiting(b) \/ (batch[b].at = "failed" /\ k = Waiting(b))
    BY <1>1, <2>1, <2>2
  <2> QED
    BY <1>1, <2>1, <2>3 DEF InTurn
<1>2. BatchIInv => StopsAtFirstFailure
  BY <1>1 DEF StopsAtFirstFailure
<1> QED
  BY <1>2, BatchInvariant, PTL

\* The entries are those of the sources, in their order, with the final counters.
THEOREM ReportsAreTrue == Spec => []ReportIsTrue
<1>1. BatchIInv => ReportIsTrue
  BY DEF BatchIInv, Orderly, Reported, ReportIsTrue
<1> QED
  BY <1>1, BatchInvariant, PTL

\* A batch is nothing but calls of ingest_source, made and forgotten: what holds of the
\* pipeline whatever is called when, holds in every batch.
THEOREM BatchesRunThePipeline == Spec => PipelineSpec
<1>1. Init => PipelineInit
  BY DEF Init
<1>2. [Next]_vars => [PipelineNext]_<<mode, pipeline>>
  <2>1. SUFFICES ASSUME [Next]_vars
                 PROVE  PipelineNext \/ UNCHANGED <<mode, pipeline>>
    OBVIOUS
  <2>2. CASE \E b \in Batches : StartSource(b) \/ ProceedSource(b)
    <3>1. PICK b \in Batches : StartSource(b) \/ ProceedSource(b)
      BY <2>2
    <3>2. \E j \in JobSet(b) : Start(j) \/ Proceed(j)
      BY <3>1 DEF StartSource, ProceedSource, JobSet
    <3>3. JobSet(b) \subseteq Jobs
      BY CallsOf
    <3> QED
      BY <3>2, <3>3 DEF PipelineNext
  <2>3. CASE \E b \in Batches : EndBatch(b) \/ Crash(b)
    <3>1. PICK b \in Batches : Forget(JobSet(b))
      BY <2>3 DEF EndBatch, Crash
    <3>2. JobSet(b) \in SUBSET Jobs
      BY CallsOf
    <3> QED
      BY <3>1, <3>2 DEF PipelineNext
  <2>4. CASE \E b \in Batches : (\E continue \in BOOLEAN : StartBatch(b, continue)) \/ Report(b)
    BY <2>4 DEF StartBatch, Report
  <2>5. CASE UNCHANGED vars
    BY <2>5 DEF vars, pipeline
  <2> QED
    BY <2>1, <2>2, <2>3, <2>4, <2>5 DEF Next
<1> QED
  BY <1>1, <1>2, PTL DEF Spec, PipelineSpec

\* In every batch the counters of every call are exact and the runs on record are true.
THEOREM BatchCountersAreExact == Spec => [](CountersExact /\ RunIsTrue)
<1> QED
  BY BatchesRunThePipeline, CountersAreExact, RunsAreTrue, PTL

=============================================================================
