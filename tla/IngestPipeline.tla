--------------------------- MODULE IngestPipeline ---------------------------
(***************************************************************************)
(* ingest_source: collect, triage, assess and verify each document, store  *)
(* the records in one transaction, record the run.  One document's error   *)
(* must not sink the run, and the counters of the result must say what     *)
(* became of every document.                                               *)
(*                                                                         *)
(* A document is known by its position in the collected list, because the  *)
(* same document may be collected twice.  "fate" is auxiliary: what really *)
(* became of each position; the counters are computed as the code does.    *)
(*                                                                         *)
(* Budgets, the AI locks and the provider (module ScreeningLedger) decide  *)
(* here only between the outcomes of a call, any of which may happen.      *)
(***************************************************************************)
EXTENDS Naturals, Sequences, FiniteSets

CONSTANTS
  Jobs,        \* calls of ingest_source
  Documents,   \* url and payload
  Lists,       \* [Jobs -> SUBSET Seq(Documents)]: what the source's collector may return
  Limit,       \* documents per source that are read in detail
  NoRun

Modes == {"keywords", "assess", "triage"}   \* ai_enabled, ai_triage_enabled

Fates == {"open", "kept", "stored", "excluded", "filtered", "expired", "failed",
          "deferred", "dropped"}

Result == [documents : Nat, filtered : Nat, deferred : Nat, expired : Nat,
           failures : Nat, ingested : Nat]

RunRow == [status : {"empty", "success", "completed_with_failures", "failed"},
           documents : Nat, upserted : Nat, failures : Nat]

ASSUME PipelineAssumption ==
  /\ Limit \in Nat \ {0}
  /\ \A j \in Jobs : Lists[j] \subseteq Seq(Documents)
  /\ NoRun \notin RunRow

VARIABLES
  mode,     \* the settings
  job,      \* per call: where it is, documents collected, positions to process
  result,   \* IngestResult
  fate,
  run       \* the row in source_runs, and in source_health

pipeline == <<job, result, fate, run>>

Stages == {"ready", "collected", "processing", "storing", "recording", "failing",
           "returned", "raised"}

Positions(j) == DOMAIN job[j].docs

Fresh == [at |-> "ready", docs |-> <<>>, todo |-> <<>>, next |-> 1]
NoResult == [documents |-> 0, filtered |-> 0, deferred |-> 0, expired |-> 0,
             failures |-> 0, ingested |-> 0]

Are(j, f) == {p \in Positions(j) : fate[j][p] = f}
Marked(j, ps, f) == [p \in Positions(j) |-> IF p \in ps THEN f ELSE fate[j][p]]

-----------------------------------------------------------------------------
(* Collection.  With triage the collector may return more than Limit (up to 100, so that
   one triage call sees them all). *)

Collect(j) ==
  /\ job[j].at = "ready"
  /\ \E docs \in Lists[j] :
       /\ mode # "triage" => Len(docs) <= Limit
       /\ job' = [job EXCEPT ![j] = [at |-> IF mode = "triage" THEN "collected" ELSE "processing",
                                     docs |-> docs, todo |-> [p \in DOMAIN docs |-> p], next |-> 1]]
       /\ result' = [result EXCEPT ![j].documents = Len(docs)]
       /\ fate' = [fate EXCEPT ![j] = [p \in DOMAIN docs |-> "open"]]
  /\ UNCHANGED <<mode, run>>

\* A disabled source, a broken configuration: nothing is touched.
Refuse(j) ==
  /\ job[j].at = "ready"
  /\ job' = [job EXCEPT ![j].at = "raised"]
  /\ UNCHANGED <<mode, result, fate, run>>

CollectFails(j) ==
  /\ job[j].at = "ready"
  /\ job' = [job EXCEPT ![j].at = "failing"]
  /\ UNCHANGED <<mode, result, fate, run>>

-----------------------------------------------------------------------------
(* screening/triage.py: triage_documents *)

\* The best of the retained candidates; confidences can rank them in any order.
Selections(ps) ==
  LET n == IF Cardinality(ps) < Limit THEN Cardinality(ps) ELSE Limit
  IN  {s \in [1 .. n -> ps] : \A a, b \in 1 .. n : s[a] = s[b] => a = b}

Selected(s) == {s[k] : k \in DOMAIN s}

Triage(j, out, s) ==
  /\ job[j].at = "collected"
  /\ job' = [job EXCEPT ![j].at = "processing", ![j].todo = s]
  /\ result' = [result EXCEPT
       ![j].filtered = @ + Cardinality(out),
       ![j].deferred = @ + Cardinality(Positions(j) \ out) - Len(s)]
  /\ fate' = [fate EXCEPT ![j] = [p \in Positions(j) |-> IF p \in out THEN "excluded"
                                    ELSE IF p \in Selected(s) THEN "open" ELSE "deferred"]]
  /\ UNCHANGED <<mode, run>>

\* .ai.lock is taken, the input is too large, the budget or the provider fails:
\* "candidates retained", documents[:limit].
TriageUnavailable(j) ==
  /\ job[j].at = "collected"
  /\ job[j].docs # <<>>
  /\ job' = [job EXCEPT ![j].at = "processing",
                        ![j].todo = SubSeq(@, 1, IF Len(@) < Limit THEN Len(@) ELSE Limit)]
  /\ fate' = [fate EXCEPT ![j] = Marked(j, {p \in Positions(j) : p > Limit}, "dropped")]
  /\ UNCHANGED <<mode, result, run>>

\* Any other exception of triage_documents, of the database or of a malformed answer,
\* leaves ingest_source; no run is recorded.
TriageEscapes(j) ==
  /\ job[j].at = "collected"
  /\ job[j].docs # <<>>
  /\ job' = [job EXCEPT ![j].at = "raised"]
  /\ UNCHANGED <<mode, result, fate, run>>

-----------------------------------------------------------------------------
(* The loop over the documents. *)

Current(j) == job[j].todo[job[j].next]
More(j) == job[j].at = "processing" /\ job[j].next <= Len(job[j].todo)

Advance(j, f) ==
  /\ More(j)
  /\ job' = [job EXCEPT ![j].next = @ + 1]
  /\ fate' = [fate EXCEPT ![j] = Marked(j, {Current(j)}, f)]
  /\ UNCHANGED <<mode, run>>

\* competition_is_stale_expired, before or after verification
SkipExpired(j) == Advance(j, "expired") /\ result' = [result EXCEPT ![j].expired = @ + 1]

\* A negative keyword; the AI modes have none.
FilterOut(j) ==
  /\ mode = "keywords"
  /\ Advance(j, "filtered")
  /\ result' = [result EXCEPT ![j].filtered = @ + 1]

\* An exception while it is parsed, assessed, verified or geocoded.
Fail(j) == Advance(j, "failed") /\ result' = [result EXCEPT ![j].failures = @ + 1]

Keep(j) == Advance(j, "kept") /\ UNCHANGED result

\* list.index: k is where a document equal to the current one is met first.
FirstEqual(j, k) ==
  LET equal == {l \in DOMAIN job[j].todo : job[j].docs[job[j].todo[l]] = job[j].docs[Current(j)]}
  IN  k \in equal /\ \A l \in equal : k <= l

Left(j) == {job[j].todo[k] : k \in job[j].next .. Len(job[j].todo)}

DeferRest(j, count) ==
  /\ mode # "keywords"
  /\ result' = [result EXCEPT ![j].deferred = @ + count]
  /\ fate' = [fate EXCEPT ![j] = Marked(j, Left(j), "deferred")]
  /\ job' = [job EXCEPT ![j].at = "storing"]
  /\ UNCHANGED <<mode, run>>

\* Slip: the document that met the empty budget is not counted.
BudgetEndsAfter(j) ==
  More(j) /\ \E k \in DOMAIN job[j].todo : FirstEqual(j, k) /\ DeferRest(j, Len(job[j].todo) - k)

\* ScreeningBudgetExceeded: the rest is deferred, what was processed is stored.
BudgetEnds(j) ==
  More(j) /\ \E k \in DOMAIN job[j].todo : FirstEqual(j, k) /\ DeferRest(j, Len(job[j].todo) - (k - 1))

LoopEnds(j) ==
  /\ job[j].at = "processing" /\ ~More(j)
  /\ job' = [job EXCEPT ![j].at = "storing"]
  /\ UNCHANGED <<mode, result, fate, run>>

-----------------------------------------------------------------------------
(* Storing and recording. *)

\* upsert_screened_competitions or upsert_competitions: one transaction.
Store(j) ==
  /\ job[j].at = "storing"
  /\ fate' = [fate EXCEPT ![j] = Marked(j, Are(j, "kept"), "stored")]
  /\ result' = [result EXCEPT ![j].ingested = Cardinality(Are(j, "kept"))]
  /\ job' = [job EXCEPT ![j].at = "recording"]
  /\ UNCHANGED <<mode, run>>

StoreFails(j) ==
  /\ job[j].at = "storing"
  /\ job' = [job EXCEPT ![j].at = "failing"]
  /\ UNCHANGED <<mode, result, fate, run>>

\* Slip: the failures decide before it is asked whether anything was stored.
RunStatusByFailures(r) ==
  IF r.documents = 0 THEN "empty"
  ELSE IF r.failures > 0 THEN "failed"
  ELSE "success"

\* _run_status
RunStatus(r) ==
  IF r.documents = 0 THEN "empty"
  ELSE IF r.failures > 0 /\ r.ingested > 0 THEN "completed_with_failures"
  ELSE IF r.failures > 0 THEN "failed"
  ELSE "success"

\* record_source_run
Recorded(j, status) ==
  run' = [run EXCEPT ![j] = [status |-> status, documents |-> result[j].documents,
                             upserted |-> result[j].ingested, failures |-> result[j].failures]]

Record(j) ==
  /\ job[j].at = "recording"
  /\ Recorded(j, RunStatus(result[j]))
  /\ job' = [job EXCEPT ![j].at = "returned"]
  /\ UNCHANGED <<mode, result, fate>>

\* The failed run is recorded, then IngestError is raised.
RecordFailure(j) ==
  /\ job[j].at = "failing"
  /\ Recorded(j, "failed")
  /\ job' = [job EXCEPT ![j].at = "raised"]
  /\ UNCHANGED <<mode, result, fate>>

\* The geocode cache cannot be written, or the run cannot be recorded.
Raise(j) ==
  /\ job[j].at \in {"storing", "recording", "failing"}
  /\ job' = [job EXCEPT ![j].at = "raised"]
  /\ UNCHANGED <<mode, result, fate, run>>

\* The process ends or dies; what is called next starts afresh.
Forget(js) ==
  /\ job' = [j \in Jobs |-> IF j \in js THEN Fresh ELSE job[j]]
  /\ result' = [j \in Jobs |-> IF j \in js THEN NoResult ELSE result[j]]
  /\ fate' = [j \in Jobs |-> IF j \in js THEN <<>> ELSE fate[j]]
  /\ run' = [j \in Jobs |-> IF j \in js THEN NoRun ELSE run[j]]
  /\ UNCHANGED mode

-----------------------------------------------------------------------------
PipelineInit ==
  /\ mode \in Modes
  /\ job = [j \in Jobs |-> Fresh]
  /\ result = [j \in Jobs |-> NoResult]
  /\ fate = [j \in Jobs |-> <<>>]
  /\ run = [j \in Jobs |-> NoRun]

Start(j) == Refuse(j) \/ Collect(j) \/ CollectFails(j)

Proceed(j) ==
  \/ \E out \in SUBSET Positions(j) : \E s \in Selections(Positions(j) \ out) : Triage(j, out, s)
  \/ TriageUnavailable(j)
  \/ TriageEscapes(j)
  \/ SkipExpired(j)
  \/ FilterOut(j)
  \/ Fail(j)
  \/ Keep(j)
  \/ BudgetEnds(j)
  \/ LoopEnds(j)
  \/ Store(j)
  \/ StoreFails(j)
  \/ Record(j)
  \/ RecordFailure(j)
  \/ Raise(j)

PipelineNext ==
  \/ \E j \in Jobs : Start(j) \/ Proceed(j)
  \/ \E js \in SUBSET Jobs : Forget(js)

PipelineSpec == PipelineInit /\ [][PipelineNext]_<<mode, pipeline>>

-----------------------------------------------------------------------------
(* Properties. *)

PipelineTypeOK ==
  /\ mode \in Modes
  /\ job \in [Jobs -> [at : Stages, docs : Seq(Documents), todo : Seq(Nat), next : Nat]]
  /\ result \in [Jobs -> Result]
  /\ run \in [Jobs -> RunRow \cup {NoRun}]
  /\ DOMAIN fate = Jobs
  /\ \A j \in Jobs : /\ fate[j] \in [Positions(j) -> Fates]
                     /\ Selected(job[j].todo) \subseteq Positions(j)

Count(j, f) == Cardinality(Are(j, f))

Exact(j) ==
  /\ result[j].documents = Len(job[j].docs)
  /\ result[j].filtered = Count(j, "excluded") + Count(j, "filtered")
  /\ result[j].expired = Count(j, "expired")
  /\ result[j].failures = Count(j, "failed")
  /\ result[j].ingested = Count(j, "stored")
  /\ result[j].deferred >= Count(j, "deferred")
  /\ (\A p, q \in Positions(j) : job[j].docs[p] = job[j].docs[q] => p = q)
       => result[j].deferred = Count(j, "deferred")

\* At every moment the counters say exactly what became of the documents; the deferred
\* ones may be counted too high when a document was collected twice ("Batch results
\* distinguish collected documents, model first-pass exclusions, processed records,
\* document failures and deferred candidates", docs/ARCHITECTURE.md; ingest_source).
CountersExact == \A j \in Jobs : Exact(j)

TrueRun(j) ==
  /\ job[j].at = "returned" => run[j] # NoRun /\ Are(j, "open") \cup Are(j, "kept") = {}
  /\ run[j] # NoRun =>
       /\ run[j].upserted = Count(j, "stored")
       /\ run[j].status = "failed" => Are(j, "stored") = {}
       /\ run[j].status = "success" => Are(j, "failed") = {}
       /\ job[j].at = "returned" /\ run[j].upserted > 0 => run[j].status # "failed"

\* The run on record is true: it is called failed exactly when nothing of a failing run
\* was stored, and what it says was stored is stored (record_source_run, _run_status).
RunIsTrue == \A j \in Jobs : TrueRun(j)

\* "A failed preliminary decision cannot justify discarding a candidate" (ingest.py):
\* when the call returns every document was processed, excluded by the model or counted.
NothingDropped ==
  \A j \in Jobs : job[j].at = "returned" => Are(j, "dropped") = {}
=============================================================================
