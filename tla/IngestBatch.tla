---------------------------- MODULE IngestBatch ----------------------------
(***************************************************************************)
(* run_automation_batch: the sources of a batch are ingested by a pool of  *)
(* threads, or one after the other, under the ingest lock; the results are *)
(* collected in the order of the sources.  Batches are processes of their  *)
(* own, started again and again by the schedule.                           *)
(***************************************************************************)
EXTENDS IngestPipeline

CONSTANTS
  Batches,
  JobsOf,       \* [Batches -> Seq(Jobs)]: one ingest_source call per source
  MaxWorkers,
  NoBatch

JobSet(b) == {JobsOf[b][i] : i \in DOMAIN JobsOf[b]}

ASSUME BatchAssumption ==
  /\ MaxWorkers \in 1 .. 4
  /\ JobsOf \in [Batches -> Seq(Jobs)]
  /\ \A b \in Batches : \A i, k \in DOMAIN JobsOf[b] : JobsOf[b][i] = JobsOf[b][k] => i = k
  /\ \A b, c \in Batches : b # c => JobSet(b) \cap JobSet(c) = {}
  /\ NoBatch \notin Batches

VARIABLES
  lock,    \* holder of the ingest lock
  batch    \* per batch: stage, continue_on_error, the entries of its result

vars == <<mode, pipeline, lock, batch>>

Idle == [at |-> "idle", continue |-> TRUE, report |-> <<>>]

Ended(j) == job[j].at \in {"returned", "raised"}
InFlight(j) == job[j].at \notin {"ready", "returned", "raised"}
Active(b) == {j \in JobSet(b) : InFlight(j)}

\* AutomationSourceRun or AutomationSourceFailure
Entry(j) == [job |-> j, ok |-> job[j].at = "returned", result |-> result[j]]

-----------------------------------------------------------------------------
\* Slip: a batch is told that the lock is already held (use_lock=False).
StartUnlocked(b, continue) ==
  /\ batch[b] = Idle
  /\ batch' = [batch EXCEPT ![b] = [Idle EXCEPT !.at = "running", !.continue = continue]]
  /\ lock' = b
  /\ UNCHANGED <<mode, pipeline>>

\* The ingest lock is free; if it is taken the command fails at once.
StartBatch(b, continue) ==
  /\ batch[b] = Idle
  /\ lock = NoBatch
  /\ batch' = [batch EXCEPT ![b] = [Idle EXCEPT !.at = "running", !.continue = continue]]
  /\ lock' = b
  /\ UNCHANGED <<mode, pipeline>>

\* Slip: the pool is used whatever happens after an error.
WorkersAlways(b) == IF mode # "keywords" THEN MaxWorkers ELSE 1

Workers(b) == IF mode # "keywords" /\ batch[b].continue THEN MaxWorkers ELSE 1

Waiting(b) == Len(batch[b].report) + 1

\* A pool takes submitted calls in order; without one, a call is made when it is its turn.
MayStart(b, i) ==
  /\ batch[b].at = "running"
  /\ \A k \in 1 .. i - 1 : job[JobsOf[b][k]].at # "ready"
  /\ IF Workers(b) > 1 THEN Cardinality(Active(b)) < Workers(b) ELSE i = Waiting(b)

StartSource(b) ==
  /\ \E i \in DOMAIN JobsOf[b] : MayStart(b, i) /\ Start(JobsOf[b][i])
  /\ UNCHANGED <<lock, batch>>

ProceedSource(b) ==
  /\ \E j \in JobSet(b) : Proceed(j)
  /\ UNCHANGED <<lock, batch>>

\* Slip: the entries come in the order in which the calls end.
ReportAnyEnded(b) ==
  /\ batch[b].at = "running"
  /\ \E j \in JobSet(b) :
       /\ Ended(j)
       /\ \A k \in DOMAIN batch[b].report : batch[b].report[k].job # j
       /\ batch' = [batch EXCEPT
            ![b].report = Append(@, Entry(j)),
            ![b].at = IF job[j].at = "raised" /\ ~batch[b].continue THEN "failed" ELSE @]
  /\ UNCHANGED <<mode, pipeline, lock>>

\* Slip: only a call that returns is waited for.
ReportReturned(b) ==
  /\ batch[b].at = "running"
  /\ Waiting(b) \in DOMAIN JobsOf[b]
  /\ LET j == JobsOf[b][Waiting(b)]
     IN  /\ job[j].at = "returned"
         /\ batch' = [batch EXCEPT ![b].report = Append(@, Entry(j))]
  /\ UNCHANGED <<mode, pipeline, lock>>

\* futures[index - 1].result(), or run_one: the next entry; an exception ends a
\* --fail-fast batch.
Report(b) ==
  /\ batch[b].at = "running"
  /\ Waiting(b) \in DOMAIN JobsOf[b]
  /\ LET j == JobsOf[b][Waiting(b)]
     IN  /\ Ended(j)
         /\ batch' = [batch EXCEPT
              ![b].report = Append(@, Entry(j)),
              ![b].at = IF job[j].at = "raised" /\ ~batch[b].continue THEN "failed" ELSE @]
  /\ UNCHANGED <<mode, pipeline, lock>>

\* The pool is shut down, which waits for its threads; the lock is released, the result
\* printed, and the process exits.
EndBatch(b) ==
  /\ \/ batch[b].at = "running" /\ Waiting(b) \notin DOMAIN JobsOf[b]
     \/ batch[b].at = "failed"
  /\ Active(b) = {}
  /\ batch' = [batch EXCEPT ![b] = Idle]
  /\ lock' = NoBatch
  /\ Forget(JobSet(b))

\* The process dies; the operating system drops its lock.
Crash(b) ==
  /\ batch[b].at # "idle"
  /\ batch' = [batch EXCEPT ![b] = Idle]
  /\ lock' = IF lock = b THEN NoBatch ELSE lock
  /\ Forget(JobSet(b))

-----------------------------------------------------------------------------
Init ==
  /\ PipelineInit
  /\ lock = NoBatch
  /\ batch = [b \in Batches |-> Idle]

Next ==
  \/ \E b \in Batches, continue \in BOOLEAN : StartBatch(b, continue)
  \/ \E b \in Batches : StartSource(b)
  \/ \E b \in Batches : ProceedSource(b)
  \/ \E b \in Batches : Report(b)
  \/ \E b \in Batches : EndBatch(b)
  \/ \E b \in Batches : Crash(b)

\* A process that is alive takes some step of its own again and again: its threads are
\* scheduled, and every call of a source, geocoder or provider has a timeout.  Nothing is
\* assumed of the schedule that starts batches, nor of crashes.
Work(b) == Report(b) \/ EndBatch(b) \/ StartSource(b) \/ ProceedSource(b)

Fairness == \A b \in Batches : WF_vars(Work(b))

Spec == Init /\ [][Next]_vars /\ Fairness

-----------------------------------------------------------------------------
(* Properties. *)

\* Well-formed state; the lock is held exactly while a batch runs.
TypeOK ==
  /\ PipelineTypeOK
  /\ lock \in Batches \cup {NoBatch}
  /\ batch \in [Batches -> [at : {"idle", "running", "failed"}, continue : BOOLEAN,
                            report : Seq([job : Jobs, ok : BOOLEAN, result : Result])]]
  /\ \A b \in Batches : batch[b].at # "idle" <=> lock = b

\* Two batches never ingest at once, even when one ends with an error or dies while its
\* threads are at work ("the ingest lock prevents overlapping batches").
OneBatchAtATime ==
  \A b \in Batches : lock # b => Active(b) = {}

\* --fail-fast: no source after a failed one is touched (run_automation_batch raises; the
\* pool is not used then, because it would have started the later ones already).
StopsAtFirstFailure ==
  \A b \in Batches : \A i, k \in DOMAIN JobsOf[b] :
    /\ batch[b].at # "idle" /\ ~batch[b].continue
    /\ i < k
    /\ job[JobsOf[b][i]].at = "raised"
    => job[JobsOf[b][k]].at = "ready"

\* The result of a batch has its entries in the order of the sources, each with the final
\* counters of its call, whatever order the threads ended in.
ReportIsTrue ==
  \A b \in Batches : \A i \in DOMAIN batch[b].report :
    batch[b].report[i] = Entry(JobsOf[b][i])

\* Every batch that starts ends and frees the lock, whatever fails in its sources.
BatchEnds == \A b \in Batches : batch[b].at = "running" ~> lock # b
=============================================================================
