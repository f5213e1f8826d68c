------------------------- MODULE OpportunityRecord -------------------------
(***************************************************************************)
(* One table, many writers: the life of stored competitions between        *)
(* re-ingest, AI screening, geocoding, status and URL normalisation,       *)
(* operators, watchlists and the cleanup of expired rows.  Every writer    *)
(* but ingest works from rows it has read in an earlier transaction.       *)
(*                                                                         *)
(* updated_at is the revision of a row; it is a microsecond timestamp in   *)
(* the code and a fresh number here.  AI advice names the revision it was  *)
(* given for and is in force only while the row still has it.              *)
(***************************************************************************)
EXTENDS Naturals, Sequences

CONSTANTS
  Ids,            \* competition ids
  Documents,      \* what one extraction of a notice may say, see Document
  Facts,          \* everything an assessment reads: title, scope, eligibility, ...
  Urls,           \* official links, up to case and trailing slash
  Addresses,
  MaxLevel,       \* evidence ranks 0 .. MaxLevel
  None,           \* SQL NULL
  NoRow, NoAdvice,
  Rulings,        \* statuses an operator sets
  Retention,      \* days an expired row is kept
  MaxLines,       \* conflict lines the evidence note keeps (MAX_NOTE_LINES - 1)
  MaxRevision, MaxDay   \* bounds of the two counters

HumanStatuses == {"shortlisted", "verified", "discarded"}
Statuses == HumanStatuses \cup {"discovered", "archived"}
Levels == 0 .. MaxLevel

\* An extracted record: facts and evidence, and whether geocoding located it at ingest.
Document == [facts : Facts, url : Urls \cup {None}, level : Levels,
             status : {"discovered", "archived"}, deadline : Nat \cup {None},
             addr : Addresses \cup {None}, located : BOOLEAN]

ASSUME RecordAssumption ==
  /\ Documents \subseteq Document
  /\ Rulings \subseteq Statuses \ {"discovered"}
  /\ MaxLevel \in Nat /\ Retention \in Nat /\ MaxLines \in Nat \ {0}
  /\ MaxRevision \in Nat /\ MaxDay \in Nat
  /\ None \notin Urls \cup Addresses \cup Statuses \cup Nat

Row == [facts : Facts, url : Urls \cup {None}, conflicts : Seq(Urls), level : Levels,
        status : Statuses, deadline : Nat \cup {None}, addr : Addresses \cup {None},
        located : BOOLEAN, rev : Nat]
Advice == [rev : Nat, basis : Facts]

ASSUME NullsAreDistinct == NoRow \notin Row /\ NoAdvice \notin Advice

VARIABLES
  rows,        \* competitions
  advice,      \* ai_screening_results
  watched,     \* ids with a workspace_watchlist_entries row
  geocoding,   \* rows the running geocode refresh has read and not handled yet
  normalizing, \* <<id, status>> the running status normaliser has settled on
  screening,   \* rows the running AI screening has read: id, facts, revision
  expired,     \* ids the running cleanup has listed
  revision,    \* the last timestamp given out
  today,
  ruling,      \* auxiliary: the operator's last decision on the row
  report,      \* auxiliary: the official link most recently reported for the row
  stated       \* auxiliary: the address most recently stated by a document

jobs == <<geocoding, normalizing, screening, expired>>
ghosts == <<ruling, report, stated>>
vars == <<rows, advice, watched, jobs, revision, today, ghosts>>

Stored == {i \in Ids : rows[i] # NoRow}

Stamp == revision < MaxRevision /\ revision' = revision + 1

-----------------------------------------------------------------------------
(* storage/merge.py *)

Keep(new, old) == IF new = None THEN old ELSE new

MergeStatus(old, new) == IF old = "discovered" THEN new ELSE old

Lines(s) == {s[k] : k \in DOMAIN s}

\* Slip: the note is cut at its end instead of its beginning.
NoteFirst(s, url) == IF url \in Lines(s) \/ Len(s) = MaxLines THEN s ELSE Append(s, url)

\* merge_evidence_note: a conflict line is added once; the oldest is cut off first.
Note(s, url) ==
  IF url \in Lines(s) THEN s
  ELSE IF Len(s) < MaxLines THEN Append(s, url) ELSE Append(Tail(s), url)

\* Slip: the evidence level is always the latest extraction's.
MergeLatestLevel(r, d) ==
  [facts |-> d.facts, url |-> Keep(r.url, d.url), conflicts |-> r.conflicts,
   level |-> d.level, status |-> MergeStatus(r.status, d.status),
   deadline |-> Keep(d.deadline, r.deadline), addr |-> Keep(d.addr, r.addr),
   located |-> r.located \/ d.located, rev |-> revision + 1]

\* merge_rows
Merge(r, d) ==
  [facts |-> d.facts,
   url |-> Keep(r.url, d.url),
   conflicts |-> IF r.url = None \/ d.url \in {None, r.url} THEN r.conflicts
                 ELSE Note(r.conflicts, d.url),
   level |-> IF r.level > d.level THEN r.level ELSE d.level,
   status |-> MergeStatus(r.status, d.status),
   deadline |-> Keep(d.deadline, r.deadline),
   addr |-> Keep(d.addr, r.addr),
   located |-> r.located \/ d.located,
   rev |-> revision + 1]

NewRow(d) ==
  [facts |-> d.facts, url |-> d.url, conflicts |-> <<>>, level |-> d.level,
   status |-> d.status, deadline |-> d.deadline, addr |-> d.addr, located |-> d.located,
   rev |-> revision + 1]

\* upsert_in_connection, for the id the document refers to (module RecordIdentity).
Upsert(i, d) ==
  /\ Stamp
  /\ rows' = [rows EXCEPT ![i] = IF @ = NoRow THEN NewRow(d) ELSE Merge(@, d)]
  /\ report' = [report EXCEPT ![i] = Keep(d.url, @)]
  /\ stated' = [stated EXCEPT ![i] = Keep(d.addr, @)]
  /\ UNCHANGED <<watched, jobs, today, ruling>>

Ingest(i, d) == Upsert(i, d) /\ UNCHANGED advice

\* upsert_screened_competitions: facts and the assessment of them in one transaction.
IngestScreened(i, d) ==
  /\ Upsert(i, d)
  /\ advice' = [advice EXCEPT ![i] = [rev |-> revision + 1, basis |-> d.facts]]

-----------------------------------------------------------------------------
(* Operators and users. *)

\* update_competition_status without only_from
SetStatus(i, s) ==
  /\ i \in Stored
  /\ Stamp
  /\ rows' = [rows EXCEPT ![i].status = s, ![i].rev = revision + 1]
  /\ ruling' = [ruling EXCEPT ![i] = s]
  /\ UNCHANGED <<advice, watched, jobs, today, report, stated>>

\* addWatchlistEntry inserts from a SELECT on competitions.
Watch(i) ==
  /\ i \in Stored
  /\ watched' = watched \cup {i}
  /\ UNCHANGED <<rows, advice, jobs, revision, today, ghosts>>

Unwatch(i) ==
  /\ i \in watched
  /\ watched' = watched \ {i}
  /\ UNCHANGED <<rows, advice, jobs, revision, today, ghosts>>

-----------------------------------------------------------------------------
(* postprocess/anac.py and gets.py *)

\* normalize_record_statuses, normalize_preannouncement_statuses: rows are listed and
\* judged (award notice: archive; advance notice: discard) ...
ListForNormalizing(ids, s) ==
  /\ normalizing = {}
  /\ ids # {}
  /\ \A i \in ids : rows[i].status \notin {"archived", s}
  /\ normalizing' = ids \X {s}
  /\ UNCHANGED <<rows, advice, watched, geocoding, screening, expired, revision, today, ghosts>>

\* Slip: the status read with the list is taken to be still there.
NormalizeAnyStatus(job) ==
  /\ IF job[1] \in Stored
       THEN /\ Stamp
            /\ rows' = [rows EXCEPT ![job[1]].status = job[2], ![job[1]].rev = revision + 1]
       ELSE UNCHANGED <<rows, revision>>
  /\ normalizing' = normalizing \ {job}
  /\ UNCHANGED <<advice, watched, geocoding, screening, expired, today, ghosts>>

\* ... and updated one by one, only from "discovered".
Normalize(job) ==
  /\ IF job[1] \in Stored /\ rows[job[1]].status = "discovered"
       THEN /\ Stamp
            /\ rows' = [rows EXCEPT ![job[1]].status = job[2], ![job[1]].rev = revision + 1]
       ELSE UNCHANGED <<rows, revision>>
  /\ normalizing' = normalizing \ {job}
  /\ UNCHANGED <<advice, watched, geocoding, screening, expired, today, ghosts>>

\* normalize_source_traces: update_competition_source_url, a new revision.
RewriteSourceUrl(i) ==
  /\ i \in Stored
  /\ Stamp
  /\ rows' = [rows EXCEPT ![i].rev = revision + 1]
  /\ UNCHANGED <<advice, watched, jobs, today, ghosts>>

-----------------------------------------------------------------------------
(* maintenance.py: refresh_missing_geocodes *)

ListMissingGeocodes ==
  /\ geocoding = {}
  /\ geocoding' = {[id |-> i, addr |-> rows[i].addr] : i \in {j \in Stored : ~rows[j].located}}
  /\ geocoding' # {}
  /\ UNCHANGED <<rows, advice, watched, normalizing, screening, expired, revision, today, ghosts>>

Rebased(a) == IF a = NoAdvice THEN NoAdvice ELSE [a EXCEPT !.rev = revision + 1]

\* Slip: advice is carried to the new revision whatever revision it was given for.
RebasedAlways(i) == Rebased(advice[i])

\* "Preserve current advice; an already stale assessment must never become current again."
RebasedIfCurrent(i) ==
  IF advice[i] # NoAdvice /\ advice[i].rev = rows[i].rev THEN Rebased(advice[i]) ELSE advice[i]

\* update_competition_geocode_fields: label and coordinates of the row as it was listed.
\* Without an address the label is inferred, or stays empty (country centroid).
WriteGeocode(job, label) ==
  /\ label \in IF job.addr = None THEN Addresses \cup {None} ELSE {job.addr}
  /\ geocoding' = geocoding \ {job}
  /\ IF job.id \in Stored
       THEN /\ Stamp
            /\ rows' = [rows EXCEPT ![job.id].addr = label, ![job.id].located = TRUE,
                                    ![job.id].rev = revision + 1]
            /\ advice' = [advice EXCEPT ![job.id] = RebasedIfCurrent(job.id)]
       ELSE UNCHANGED <<rows, advice, revision>>
  /\ UNCHANGED <<watched, normalizing, screening, expired, today, ghosts>>

\* The geocoder found nothing or failed: the row is left for the next refresh.
GeocodeUnchanged(job) ==
  /\ geocoding' = geocoding \ {job}
  /\ UNCHANGED <<rows, advice, watched, normalizing, screening, expired, revision, today, ghosts>>

-----------------------------------------------------------------------------
(* screening/service.py: screen_competitions, one at a time under .ai.lock *)

LoadCandidates ==
  /\ screening = {}
  /\ screening' = {[id |-> i, basis |-> rows[i].facts, rev |-> rows[i].rev] :
                     i \in {j \in Stored : /\ rows[j].status \notin {"archived", "discarded"}
                                           /\ rows[j].deadline = None \/ rows[j].deadline >= today}}
  /\ screening' # {}
  /\ UNCHANGED <<rows, advice, watched, geocoding, normalizing, expired, revision, today, ghosts>>

\* Slip: the advice is published for the revision found at the end of the request.
PublishForStoredRevision(job) ==
  /\ job.id \in Stored
  /\ advice' = [advice EXCEPT ![job.id] = [rev |-> rows[job.id].rev, basis |-> job.basis]]
  /\ screening' = screening \ {job}
  /\ UNCHANGED <<rows, watched, geocoding, normalizing, expired, revision, today, ghosts>>

\* publish_screening with the revision that was assessed.
Publish(job) ==
  /\ job.id \in Stored
  /\ advice' = [advice EXCEPT ![job.id] = [rev |-> job.rev, basis |-> job.basis]]
  /\ screening' = screening \ {job}
  /\ UNCHANGED <<rows, watched, geocoding, normalizing, expired, revision, today, ghosts>>

\* A provider, output or budget error, or the foreign key of a row deleted meanwhile,
\* ends the batch.
AbortScreening ==
  /\ screening # {}
  /\ screening' = {}
  /\ UNCHANGED <<rows, advice, watched, geocoding, normalizing, expired, revision, today, ghosts>>

-----------------------------------------------------------------------------
(* maintenance.py: cleanup_expired_competitions *)

IsExpired(i) == rows[i].deadline # None /\ rows[i].deadline + Retention < today

\* list_expired_competition_ids
ListExpired ==
  /\ expired = {}
  /\ expired' = {i \in Stored : IsExpired(i) /\ i \notin watched}
  /\ expired' # {}
  /\ UNCHANGED <<rows, advice, watched, geocoding, normalizing, screening, revision, today, ghosts>>

Forget(f, gone, empty) == [i \in Ids |-> IF i \in gone THEN empty ELSE f[i]]

\* Slip: the tables are not joined by a cascading foreign key.
DeletingRowsOnly(gone) ==
  /\ rows' = Forget(rows, gone, NoRow)
  /\ expired' = {}
  /\ ruling' = Forget(ruling, gone, None)
  /\ report' = Forget(report, gone, None)
  /\ stated' = Forget(stated, gone, None)
  /\ UNCHANGED <<advice, watched, geocoding, normalizing, screening, revision, today>>

Deleting(gone) ==
  /\ rows' = Forget(rows, gone, NoRow)
  /\ advice' = Forget(advice, gone, NoAdvice)      \* ON DELETE CASCADE
  /\ expired' = {}
  /\ ruling' = Forget(ruling, gone, None)
  /\ report' = Forget(report, gone, None)
  /\ stated' = Forget(stated, gone, None)
  /\ UNCHANGED <<watched, geocoding, normalizing, screening, revision, today>>

\* Slip: the watch is only checked when the list is read.
DeleteListed == expired # {} /\ Deleting(expired)

\* delete_competitions: the watchlist is checked again in the deleting transaction.
DeleteExpired == expired # {} /\ Deleting(expired \ watched)

NextDay ==
  /\ today < MaxDay
  /\ today' = today + 1
  /\ UNCHANGED <<rows, advice, watched, jobs, revision, ghosts>>

-----------------------------------------------------------------------------
Init ==
  /\ rows = [i \in Ids |-> NoRow]
  /\ advice = [i \in Ids |-> NoAdvice]
  /\ watched = {} /\ geocoding = {} /\ normalizing = {} /\ screening = {} /\ expired = {}
  /\ revision = 0
  /\ today = 1
  /\ ruling = [i \in Ids |-> None]
  /\ report = [i \in Ids |-> None]
  /\ stated = [i \in Ids |-> None]

Next ==
  \/ \E i \in Ids, d \in Documents : Ingest(i, d)
  \/ \E i \in Ids, d \in Documents : IngestScreened(i, d)
  \/ \E i \in Ids, s \in Rulings : SetStatus(i, s)
  \/ \E i \in Ids : Watch(i)
  \/ \E i \in Ids : Unwatch(i)
  \/ \E ids \in SUBSET Stored, s \in {"archived", "discarded"} : ListForNormalizing(ids, s)
  \/ \E job \in normalizing : Normalize(job)
  \/ \E i \in Ids : RewriteSourceUrl(i)
  \/ ListMissingGeocodes
  \/ \E job \in geocoding, label \in Addresses \cup {None} : WriteGeocode(job, label)
  \/ \E job \in geocoding : GeocodeUnchanged(job)
  \/ LoadCandidates
  \/ \E job \in screening : Publish(job)
  \/ AbortScreening
  \/ ListExpired
  \/ DeleteExpired
  \/ NextDay

Spec == Init /\ [][Next]_vars

-----------------------------------------------------------------------------
(* Properties. *)

\* Well-formed tables: advice exists only for stored rows and names a revision that
\* was given out (foreign key of ai_screening_results).
TypeOK ==
  /\ rows \in [Ids -> Row \cup {NoRow}]
  /\ advice \in [Ids -> Advice \cup {NoAdvice}]
  /\ watched \subseteq Ids
  /\ geocoding \subseteq [id : Ids, addr : Addresses \cup {None}]
  /\ normalizing \subseteq Ids \X {"archived", "discarded"}
  /\ screening \subseteq [id : Ids, basis : Facts, rev : Nat]
  /\ expired \subseteq Ids
  /\ revision \in Nat /\ today \in Nat
  /\ ruling \in [Ids -> Statuses \cup {None}]
  /\ report \in [Ids -> Urls \cup {None}]
  /\ stated \in [Ids -> Addresses \cup {None}]
  /\ \A i \in Ids : advice[i] # NoAdvice => i \in Stored /\ advice[i].rev <= revision

\* User data never dangles: a watched opportunity is never deleted, however the watch
\* and the two steps of the cleanup interleave (delete_competitions, watchlist.ts).
WatchedExist == watched \subseteq Stored

\* The web hides a row, and the detail page shows advice, only when the revisions agree
\* (buildWhere in opportunities/query.ts, list_screenings).
InForce(i) == i \in Stored /\ advice[i] # NoAdvice /\ advice[i].rev = rows[i].rev

\* Advice in force was given for the facts now stored: no interleaving of screening with
\* ingest, maintenance, deletion and re-creation puts an outdated exclusion in force.
AdviceIsCurrent == \A i \in Ids : InForce(i) => advice[i].basis = rows[i].facts

\* An operator's decision stands until the operator changes it: neither a re-ingest nor
\* a normaliser acting on an older reading overrides it (merge_status, only_from).
RulingStands == \A i \in Stored : ruling[i] # None => rows[i].status = ruling[i]

\* The official link reported last is on record, as the adopted link or in the conflict
\* lines, however many disagreements the bounded note had to forget (merge_rows).
LatestReportKept ==
  \A i \in Stored : report[i] # None => report[i] \in {rows[i].url} \cup Lines(rows[i].conflicts)

NoWeaker(new, old) ==
  /\ old.url # None => new.url = old.url
  /\ new.level >= old.level
  /\ old.conflicts # <<>> => new.conflicts # <<>>
  /\ old.deadline # None => new.deadline # None
  /\ old.located => new.located

EvidenceKept == \A i \in Ids : rows[i] # NoRow /\ rows'[i] # NoRow => NoWeaker(rows'[i], rows[i])

\* No step weakens a stored row: a known official link stays, the evidence level does
\* not fall, a recorded conflict leaves a trace, a deadline or a location is not erased.
EvidenceNeverWeakens == [][EvidenceKept]_vars

\* "The original project address stays in location_label" (docs/DATA_CONTRACT.md).
AddressAsStated == \A i \in Stored : stated[i] # None => rows[i].addr = stated[i]
=============================================================================
