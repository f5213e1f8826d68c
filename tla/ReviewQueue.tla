---------------------------- MODULE ReviewQueue ----------------------------
(***************************************************************************)
(* The operator review queue.  It is derived data: a refresh reads what    *)
(* the diagnostics detect in four separate read transactions, and then     *)
(* synchronises the queue table in one write transaction.  Refreshes run   *)
(* after every ingest, diagnosis and cleanup, in processes of their own,   *)
(* while operators decide items and facts change.                          *)
(***************************************************************************)
EXTENDS Naturals

CONSTANTS
  Items,       \* queue ids: one per diagnosed source, competition or duplicate cluster
  Facts,       \* what a diagnostic says of an item
  Clusters,    \* the items that list several competitions
  KindOf,      \* [Items -> Kinds]
  Refreshers,  \* processes that refresh the queue
  Decisions,   \* decisions operators take
  Absent,      \* not detected
  NoItem, None

\* Source runs, evidence conflicts, duplicate clusters, low confidence: in this order.
Kinds == 1 .. 4

\* stage[p] = 0: idle; 1 .. 4: the next kind to read; 5: everything read.
Stages == 0 .. 5

Statuses == {"pending", "accepted", "rejected", "needs_follow_up"}
Settled == {"accepted", "rejected"}

\* payload_json.  The competitions of a cluster are serialised in the order of their
\* updated_at, so the text depends on which was ingested last (one bit here).
Payload == [fact : Facts, order : BOOLEAN]
Item == [status : Statuses, payload : Payload, active : BOOLEAN]

ASSUME QueueAssumption ==
  /\ KindOf \in [Items -> Kinds]
  /\ Clusters \subseteq Items
  /\ Decisions \subseteq Statuses
  /\ Absent \notin Facts \cup Payload
  /\ NoItem \notin Item
  /\ None \notin Statuses \cup Payload

VARIABLES
  facts,      \* the diagnosis as the canonical tables support it now
  order,      \* which competition of a cluster was ingested last
  queue,      \* ops_review_queue_items
  stage, read, \* per refresher: progress, and the candidates it has read
  audit,      \* the latest row of ops_review_decisions
  basis,      \* auxiliary: the payload the latest decision was recorded on
  rewritten   \* auxiliary: a refresh has written another payload since

refresh == <<stage, read>>
vars == <<facts, order, queue, refresh, audit, basis, rewritten>>

Detected(i) ==
  IF facts[i] = Absent THEN Absent ELSE [fact |-> facts[i], order |-> order[i]]

-----------------------------------------------------------------------------
(* The canonical tables. *)

\* An ingest, cleanup or source run changes what is detected.
FactsChange(i, f) ==
  /\ facts[i] # f
  /\ facts' = [facts EXCEPT ![i] = f]
  /\ UNCHANGED <<order, queue, refresh, audit, basis, rewritten>>

\* An ingest that finds a notice unchanged still gives its row a new updated_at.
Reingest(i) ==
  /\ i \in Clusters
  /\ order' = [order EXCEPT ![i] = ~@]
  /\ UNCHANGED <<facts, queue, refresh, audit, basis, rewritten>>

-----------------------------------------------------------------------------
(* review_queue.py: refresh_review_queue *)

BeginRefresh(p) ==
  /\ stage[p] = 0
  /\ stage' = [stage EXCEPT ![p] = 1]
  /\ UNCHANGED <<facts, order, queue, read, audit, basis, rewritten>>

\* generate_review_queue_candidates: one connection, and one snapshot, per kind.
ReadKind(p) ==
  /\ stage[p] \in Kinds
  /\ stage' = [stage EXCEPT ![p] = @ + 1]
  /\ read' = [read EXCEPT ![p] =
                [i \in Items |-> IF KindOf[i] = stage[p] THEN Detected(i) ELSE @[i]]]
  /\ UNCHANGED <<facts, order, queue, audit, basis, rewritten>>

\* Slip: any decision is reopened by a new payload.
ReopenedAlways(item, payload) == IF item.payload # payload THEN "pending" ELSE item.status

\* The status CASE of the upsert.
Reopened(item, payload) ==
  IF item.status \in Settled /\ item.payload # payload THEN "pending" ELSE item.status

\* Slip: only what is detected is written, nothing is deactivated.
SyncedWithoutDeactivation(item, payload) ==
  IF payload # Absent
    THEN [status |-> IF item = NoItem THEN "pending" ELSE Reopened(item, payload),
          payload |-> payload, active |-> TRUE]
  ELSE item

\* The queue row of an item after a synchronisation that detected payload.
Synced(item, payload) ==
  IF payload # Absent
    THEN [status |-> IF item = NoItem THEN "pending" ELSE Reopened(item, payload),
          payload |-> payload, active |-> TRUE]
  ELSE IF item # NoItem THEN [item EXCEPT !.active = FALSE]
  ELSE NoItem

NothingRead == [i \in Items |-> Absent]

\* sync_review_queue_items: upsert what was read, deactivate everything else.
Sync(p) ==
  /\ stage[p] = 5
  /\ queue' = [i \in Items |-> Synced(queue[i], read[p][i])]
  /\ rewritten' = [i \in Items |-> rewritten[i] \/ (basis[i] # None /\ read[p][i] \notin {Absent, basis[i]})]
  /\ stage' = [stage EXCEPT ![p] = 0]
  /\ read' = [read EXCEPT ![p] = NothingRead]
  /\ UNCHANGED <<facts, order, audit, basis>>

\* The process dies, or _refresh_queue reports the failure and goes on without a refresh.
\* Reads leave no trace, so a failure among them is the same as one before the write.
Abandon(p) ==
  /\ stage[p] = 5
  /\ stage' = [stage EXCEPT ![p] = 0]
  /\ read' = [read EXCEPT ![p] = NothingRead]
  /\ UNCHANGED <<facts, order, queue, audit, basis, rewritten>>

-----------------------------------------------------------------------------
(* Operators. *)

\* Slip: a decision on an id the queue does not hold is audited all the same.
RecordUnchecked(i, decision) ==
  /\ queue' = [queue EXCEPT ![i] = IF @ = NoItem THEN NoItem ELSE [@ EXCEPT !.status = decision]]
  /\ audit' = [audit EXCEPT ![i] = decision]
  /\ basis' = [basis EXCEPT ![i] = IF queue[i] = NoItem THEN None ELSE queue[i].payload]
  /\ rewritten' = [rewritten EXCEPT ![i] = FALSE]
  /\ UNCHANGED <<facts, order, refresh>>

\* record_review_queue_decision, writeOpsReviewDecision: audit row and status together.
RecordDecision(i, decision) ==
  /\ queue[i] # NoItem
  /\ queue' = [queue EXCEPT ![i].status = decision]
  /\ audit' = [audit EXCEPT ![i] = decision]
  /\ basis' = [basis EXCEPT ![i] = queue[i].payload]
  /\ rewritten' = [rewritten EXCEPT ![i] = FALSE]
  /\ UNCHANGED <<facts, order, refresh>>

-----------------------------------------------------------------------------
Init ==
  /\ facts \in [Items -> Facts \cup {Absent}]
  /\ order = [i \in Items |-> FALSE]
  /\ queue = [i \in Items |-> NoItem]
  /\ stage = [p \in Refreshers |-> 0]
  /\ read = [p \in Refreshers |-> NothingRead]
  /\ audit = [i \in Items |-> None]
  /\ basis = [i \in Items |-> None]
  /\ rewritten = [i \in Items |-> FALSE]

Next ==
  \/ \E i \in Items, f \in Facts \cup {Absent} : FactsChange(i, f)
  \/ \E i \in Items : Reingest(i)
  \/ \E p \in Refreshers : BeginRefresh(p)
  \/ \E p \in Refreshers : ReadKind(p)
  \/ \E p \in Refreshers : Sync(p)
  \/ \E p \in Refreshers : Abandon(p)
  \/ \E i \in Items, decision \in Decisions : RecordDecision(i, decision)

\* Batches are scheduled again and again and a running process makes progress; a refresh
\* may fail, but not every one of them.
Fairness ==
  \A p \in Refreshers :
    /\ WF_vars(BeginRefresh(p))
    /\ WF_vars(ReadKind(p))
    /\ SF_vars(Sync(p))

Spec == Init /\ [][Next]_vars /\ Fairness

-----------------------------------------------------------------------------
(* Properties. *)

\* Well-formed tables; nothing is audited that was never queued (ops_review_decisions
\* refers to ops_review_queue_items).
TypeOK ==
  /\ facts \in [Items -> Facts \cup {Absent}]
  /\ order \in [Items -> BOOLEAN]
  /\ queue \in [Items -> Item \cup {NoItem}]
  /\ stage \in [Refreshers -> Stages]
  /\ read \in [Refreshers -> [Items -> Payload \cup {Absent}]]
  /\ audit \in [Items -> Statuses \cup {None}]
  /\ basis \in [Items -> Payload \cup {None}]
  /\ rewritten \in [Items -> BOOLEAN]
  /\ \A i \in Items : queue[i] = NoItem => audit[i] = None

\* The status an item must show: the latest decision, except that an accepted or
\* rejected item whose payload was rewritten since is pending again.
StatusByAudit(i) ==
  IF audit[i] = None \/ (audit[i] \in Settled /\ rewritten[i]) THEN "pending" ELSE audit[i]

\* The queue and its audit trail never contradict each other, through any number of
\* refreshes with fresh or stale readings, deactivations and new detections: a decision
\* is neither lost nor kept for a payload the operator did not decide on
\* (sync_review_queue_items, record_review_queue_decision).
StatusFollowsAudit ==
  \A i \in Items : queue[i] # NoItem => queue[i].status = StatusByAudit(i)

\* What is detected is in the queue as it is detected; nothing else is active.
Mirrors ==
  \A i \in Items :
    IF facts[i] = Absent THEN queue[i] # NoItem => ~queue[i].active
    ELSE queue[i] # NoItem /\ queue[i].active /\ queue[i].payload = Detected(i)

\* Once the facts stop changing the queue shows them for good, although a refresher may
\* still hold an older reading, and refreshes may fail.
QueueCatchesUp == <>[][UNCHANGED <<facts, order>>]_vars => <>[]Mirrors

\* "Operators therefore keep their decision across the refresh [...] until the underlying
\* facts actually change" (storage/review.py, sync_review_queue_items).
ReopenedOnlyByChange ==
  [][\A i \in Items :
       /\ queue[i] # NoItem
       /\ queue[i].status \in Settled
       /\ queue'[i].status = "pending"
       /\ audit'[i] = audit[i]
       => queue'[i].payload.fact # queue[i].payload.fact]_vars
=============================================================================
