# Formal models of arch-competition-ops

TLA+ specifications of the state-changing core of arch-competition-ops, the TLC
configurations that check them on small instances, and TLAPS proofs of their most
important invariants for every instance. The specifications are translated from the
source; `PROJECT.json` maps every definition to its lines (paths below are relative to
`src/apps/worker/src/arch_competition_ops/` unless they start with `packages/`, `apps/`,
`docs/` or `scripts/`).

    tlc -workers 2 -config MCScreeningLedger.cfg MCScreeningLedger
    tlapm ScreeningLedgerProofs.tla

## The system

A Python **worker** collects public notices of architecture competitions, has an AI model
extract and assess them, and stores them in one SQLite database. A TypeScript **web
application** and its **storage package** read the same tables (SQLite locally, Cloudflare
D1 when published) and write user data: watchlists, saved searches, operator decisions,
login sessions. A **preview generator** renders images of geocoded sites. Scheduled tasks
start the cleanup and the ingest batch (`scripts/register-auto-ingest-tasks.ps1`), the worker starts
the generator after an ingest where `ARCH_PREVIEW_PREWARM=1` asks for it, and operators start the
other commands, full preview runs among them. Each is a process of its own; nothing but the database,
the preview directory and lock files is shared, so everything below may interleave at the
granularity of transactions and file operations.

### Inventory

| Component | State it keeps | Operations | What is hard |
|---|---|---|---|
| Record identity (`storage/competitions.py`, `normalizers/keys.py`) | primary key, source, notice number and URL of every row | four lookups, upsert, migration of an old id scheme, URL rewriting, deletion | notices are collected again after corrections; two identities in one table; a URL may be shared |
| Opportunity records (`storage/competitions.py`, `storage/merge.py`, `storage/screening.py`, `maintenance.py`, `postprocess/`) | the row, its `updated_at`, AI advice, watchlist | ingest, screening, geocoding, status and URL normalising, operator decisions, cleanup | six writers, five of which act on rows read in an earlier transaction |
| Review queue (`review_queue.py`, `storage/review.py`, `packages/storage/src/ops/review.ts`) | queue items, decision audit | refresh (four reads, one write), decision | concurrent refreshes with stale reads, failing refreshes, decisions in between |
| AI budget ledger, cache and locks (`storage/screening.py`, `screening/service.py`, `screening/triage.py`, `locking.py`) | `ai_screening_runs`, lock files | reserve, call, settle, reuse | concurrent spenders, lost answers, crashes while paying, dates read before the transaction |
| Ingest pipeline and batches (`ingest.py`, `automation.py`) | counters of a result, batch lock | triage, per-document processing, deferral, queue refresh | errors of one document or source must not hide others; budget ends in the middle |
| Maintenance and geocoding (`maintenance.py`, `geocoding.py`) | last-run file, geocode cache | daily cleanup, geocode refresh, preview file deletion | once-a-day guard, partial failure |
| AI answer validation (`screening/extraction.py`, ...) | none | checks quotes and fields | text matching |
| Source runs and diagnostics (`storage/runs.py`, `diagnostics.py`) | run rows | start, finish, report | interrupted runs |
| HTTP client (`http/`) | per host: the last reserved start | fetch with checks, pacing, redirects and retries | a slot is reserved under a lock and slept for outside it, by all threads |
| Collectors, extractors, verifiers | none | per-platform parsing | text |
| Preview generator: directory (`packages/previews/src/pipeline/store.ts`, `prewarm.ts`) | lock file, manifest, images | lock, list, render, checkpoint, prune | lock taken over when stale, also from a run still at work; death between image and manifest; images deleted by the worker without the lock |
| Preview generator: one record (`resolve-record.ts`, `address/`, `official-image/`, `net/`) | budget, locator, candidates tried | official image, candidates of title, pages and PDFs, geocoding, tiles | candidates turn up again in later stages; the budget ends anywhere |
| Preview geocoding (`packages/previews/src/geocode/`) | cache, cache file, serial queue, `lastStartedAt`, `blockedUntil` | lookup, request, retry, debounced write, flush | shared loads, refusals that are not answers, writes under way when entries change |
| Web authentication (`packages/storage/src/auth/`, `apps/web/src/lib/api/auth-routes.ts`) | account, sessions, attempts, cookies | log in, register, renew, expire, sign out, throttle | each request is several statements, and pages re-issue the cookie they came with |
| Workspace (`apps/web/src/components/`, `packages/storage/src/workspace/`) | review desk, watch button, saved searches | decide, filter, load, watch, save, remove | late answers, lost answers, other tabs and administrators |
| Gate (`apps/web/src/middleware.ts`, `i18n/`, `lib/api/`) | locale cookie, visitor | redirect, guard, answer | permanent redirects that depend on path, cookie and language |
| Discover (`packages/storage/src/opportunities/`, `apps/web/src/lib/discover.ts`) | address, list on screen, request under way | filter, page, load more, restore | the list is rebuilt from an address while rows change and deadlines pass; an HTTP cache may answer in between |
| D1 export (`scripts/export-d1-data.mjs`, `scripts/lib/d1-sync/`) | SQL files, their position, scratch table | export, run, re-run | no transaction around the files; visitors write meanwhile |
| Storage drivers, CLI, demo data | none | adapters, argument parsing | |

### How they interact

`ingest` asks the ledger for the permission to pay, gets a record and an assessment of it,
looks up the row the record refers to (record identity), merges it and publishes the
assessment in one transaction (opportunity records), and finally refreshes the queue.
Maintenance, normalisers and `screen` rewrite the same rows from lists they read before.
The web hides a row only while the advice names the row's current `updated_at`. The queue is
derived from the rows; decisions live in its own tables.
The preview generator reads the visible rows, keeps images and manifest in a directory of its
own, and asks geocoders through a cache of its own; the worker may start it for what it has just
ingested (such a run is partial, and killed when it exceeds its time) and
deletes images of expired rows beside it; full runs are started by hand, whenever somebody does. Browsers reach the tables through the gate, the
session and the handlers of the web; the export carries the worker's tables to D1, where the
same web application serves visitors.

### What makes each part correct

* identity: two notices never share a row that says which notice it is of, a notice never has two of them;
* records: no outdated advice in force, no operator decision overridden, no watched row
  deleted, no evidence or reported link silently lost;
* queue: status and audit trail agree whatever the age of the reading a refresh writes, and
  the queue converges to what the tables support;
* ledger: bills are covered and within the budgets, and no input is paid for twice;
* ingest: the counters say what became of every collected document, the run on record is
  true, and one document's or source's error costs no other one;
* previews: one run at a time unless a lock was lost by a run at work, never a lone run that writes
  back what it read before another; a full run that is left alone repairs the directory; the place told
  is the place shown;
* both HTTP clients: a host is not asked more often than agreed, and only an answer is
  remembered as an answer;
* web: signed out means signed out, the screen agrees with the tables when nothing is under way, a
  list shows every row once, one redirect is enough;
* export: D1 becomes the snapshot without losing what visitors wrote; rows that are gone locally are
  removed of competitions only, with what hangs on them, and stay in the other tables.

## Modules

Each specification of the worker's database side has an `MC...` module with its small instance
(the two of the ingest share one) and a `...Proofs` module (again one for the ingest). `MCPreviews`
instantiates the parts of the preview generator and `SiteClient`, `MCWeb` those of the web and the
export. `PreviewStoreProofs` is about the directory, `PreviewProofs` about the other parts of
`MCPreviews`, `WebProofs` about those of `MCWeb`; the last two also prove the type invariants of the
compositions TLC runs.
Definitions commented as a *Slip* are not used by the specification: each is the plausible
mistake that a property must notice (`mutants` in `PROJECT.json`).

**RecordIdentity.** `rows` is the table as a set, one record per row with the identity
columns and an auxiliary column `seen`, the real notices merged into it. `Documents(n)` is
what the collectors may deliver of a notice: any of its editions, with or without its number,
whatever the adapter does, because the number is lost when the extraction fails (`ingest.py:242`).
The other auxiliary variable, `overlooked`, holds the notices of which a document was stored while
an old row of theirs was not attributed to its source yet (`storage/bootstrap.py:32-44` leaves it so
while the catalogue cannot be read) and was not found. `FindExisting` is `_find_existing` with its four lookups in order
and the early exits between them; `Ingest`, `MigrateLegacySourceIdentity`, `RewriteUrl` and
`Delete` are the transactions that write identity columns.

**OpportunityRecord.** One action per transaction of each writer. A writer that lists rows
first has a variable with what it read (`geocoding`, `normalizing`, `screening`,
`expired`), and a second action that writes from it; `Merge` is `merge_rows` field by
field; `Deleting` includes the cascade to the advice. `updated_at` is a fresh number per
write. The one-time migration of old rows (`migrate_legacy_source_identity`,
`storage/competitions.py:416-471`), which also erases an `official_url` that repeats `source_url`, runs
before the first of these writers and is an action of `RecordIdentity` only. `ruling`, `report` and `stated` are auxiliary history.

**ReviewQueue.** A refresher reads the four kinds of candidates in four snapshots
(`BeginRefresh`, `ReadKind`), and writes once (`Sync`) or fails (`Abandon`). `Synced` is the
upsert with its status `CASE`, and the deactivation of what was not read. A payload holds
the diagnosed fact and, for a duplicate cluster, the order in which its rows were last
updated, because that order is part of the serialised text. `RecordDecision` is both the
Python and the TypeScript operation.

**ScreeningLedger.** Each requester takes the lock of its input (`.ai-{source}.lock` or
`.ai.lock`; `screen_competitions` holds `.ai.lock` as well, `BeginBatch`), looks for a
completed run, reads the clock (`Miss`), reserves (`Reserve`, both budget sums and the
insertion at once), calls and settles. The provider is external: it bills at most what was
reserved, at most once, possibly after its caller has died. `Crash` may strike anywhere.
Amounts are whole units, and the budgets are those of `config`.

**IngestPipeline.** One call of `ingest_source`: `job[j].at` says where it is, `todo` lists
the positions of the collected documents it goes through. Each way a document can leave the
loop is an action (`SkipExpired`, `FilterOut`, `Fail`, `Keep`, and `BudgetEnds`, which
`break`s); `Triage` and `TriageUnavailable` are the two ends of the first pass that
`ingest_source` handles, and `TriageEscapes` is any other exception of it, which leaves the call without a run
on record (`ingest.py:201-213`); storing and
recording may fail, and `Raise` leaves between them as an unwritable geocode cache does.
`result` and `run` are computed as the code computes them; the auxiliary `fate` says what
became of each position.

**IngestBatch** extends it with `run_automation_batch`: the ingest lock, the pool (which
takes calls in their order and only in a batch that continues after errors), the report in
the order of the sources, the end of a failed batch after its threads, and the death of the
process. `Forget` ends the calls of a process.

**PreviewStore.** One action per step of `acquireLock` (`CreateLock`, `StatLock`,
`BreakLock`) and of `runPrewarm` (`ReadList` to `Release`). `run[p]` is the process: `memory`
is its copy of the manifest, `listed` the snapshot of the list, `todo` what is left of it.
`Crash` strikes at any step and leaves the lock; `LockAges` lets `STALE_LOCK_MS` pass, also under a run
that is still at work, for nothing bounds a run by it or renews the lock; `Edit` and `Cleanup` are the
worker. A record's hash is the number of the edit that produced it. Nothing is assumed of who starts runs,
when, or for how long they work. Three history variables say what the properties depend on: `disorder`
holds how a lock was lost by a run at work ("outlived": it grew stale under its owner; "broken twice": two
processes found the same dead lock) until all who work have ended, `alone` the run that has been the only
one at work since it read its list, `peace` that no record failed and no image was deleted since.
**PreviewSessions** is the abstract specification: in order, runs take turns, each starting
from the manifest of the one before; out of order several may write, but one that has worked alone
since it began still never replaces an entry by an older one. `PreviewStore` implements it with the
refinement mapping `catalogue <- manifest`, `writers` = who is at work, `drafts` = their memories,
`orderly` = nothing in `disorder` (`TakeTurns`).

**GeocodeClient.** Callers of one provider: `Lookup` (cache, shared loads), `StartLoad`, `Gate`
(interval, `blockedUntil`, refusal of a wait that is too long), `Request`, its answers, and
the cache file: a debounced timer, `BeginWrite`, `Serialise`, `Rename`, `Flush`. `Kill` loses
the memory. The keys in `CodedInBody` are those of Baidu and Amap, which state a refusal in the body of an
HTTP 200: the client decodes such a body as an answer without a place (`Decoded`), and the history
variable `answered` keeps such a `RefusedInBody` apart from a body that says there is none (`Answered`).

**PreviewRecord** with **PreviewDocuments**, **GeocodeRules** and **AddressCandidates**.
`PreviewRecord` is `generatePreview` with one action per request and decision; the other three
are the pure algorithms it calls (which URLs are public, which images, pages and PDFs are
preferred; queries, acceptance and precision; cleaning, scoring and de-duplication of
candidates). What regular expressions recognise is data: a text carries the *marks* of the
patterns that match it; the code's order of patterns, weights and thresholds is kept. The outside world is a parameter: `Traffic` (chains of
redirects with what each server answers; a URL may always stay without answer), `Answers` of the
providers and the `JsonValues` a page may embed.

**SiteClient.** Threads of the worker share one `HttpClient`: `ValidateUrl`, `WaitForSlot`
(`HostRateLimiter.wait`), `SendFetch`, and what an answer leads to (`SettleFetch`, `FailFetch`,
`FollowRedirect`, `RetryFetch`). A sleeper wakes at its time or later.

**WebSessions.** One storage call per step of every form and page: `Throttle` before `Verify`
before `RecordFailure`, `ReadSession` before `ResolvePage`. `Throttle` counts the failures of the
account and the registrations of the IP; a log-in may also be refused at any time, for the failures
of its IP with other emails, which are not counted. `cookies` are what the browsers
hold, `signedOut` is history. Passwords are right or wrong; hashes keep their format and cost.

**WebWorkspace.** Three controls with a request each: the review desk (`desk`, `deskRequest`),
the watch button (`watched`), saved searches (`searches`). A request is served before, after or
never relative to the answer the browser acts upon: one the browser gave up on is kept apart
(`deskLost`, `watched.lost`, `searches.lost`) and may be served at any later time, or never.
`OthersAtDesk` and `OtherTab` write to the same rows. The desk asks for `DeskLimit` items (50 in the code)
and `ReviewQueue` answers with the first of them in the order of the query.

**WebGate** is the middleware, locale negotiation, the guards of pages and of API calls. A path is its
segments and whether it begins with a doubled slash: `NeverRedirected` lets `/api/x` pass but not
`//api/x`, and lets any last segment in `StaticFiles` pass, the names that `negotiate.ts` matches.
**OpportunityQuery** is the reading of filters, the selection, order and paging of a snapshot, which is
the rows and the instant (`query.ts` compares deadlines with today and captures with now);
**WebDiscover** the address, list, dock and "load more" over a table that changes (`TableChanges`) and
a clock that moves (`ClockTicks`). "Load more" is answered from what is there or from anything that was
there before (`Answerable`): its answers are public and cacheable (`lib/api/http.ts:11`), and how
long a cache keeps one is left open. `steady` remembers whether the filters of the list select now what they
selected at each read.

**D1Export.** `RunExport` plans the files of one snapshot (`planFiles` and the statements of
each table), `RunStatement` runs them one by one on `remote`. The statements of all files are one
sequence, of which `begins` says where a file begins: `Rerun` goes back to the start of the file in
hand, or of the whole list. Visitors write in between. An export is refused for a row that cannot be
written as SQL, for a statement over the size limit and for an id too long to stage (`StageBudget`).

What is abstracted: text of any kind (titles, URLs, prompts, quotes are members of small
sets), formatting, logging, and the adapters to SQLite and D1, whose transactions are the
atomicity of the actions.

## Runs

| Run | Shows |
|---|---|
| `record_identity` | `OneNoticePerRow`, `OneRowPerNotice` over corrections, numbers of both sources that come and go, rewriting, deletion and old rows that are attributed late |
| `record_identity_legacy` | *violation*, finding 1 |
| `opportunity_record` | `WatchedExist`, `AdviceIsCurrent`, `RulingStands`, `LatestReportKept`, `EvidenceNeverWeakens` under all writers |
| `opportunity_address` | *violation*, finding 2 |
| `review_queue` | `StatusFollowsAudit` and the liveness property `QueueCatchesUp` with two refreshers |
| `review_decisions` | *violation*, finding 3 |
| `screening_ledger` | `LedgerCoversBill`, `SpendWithinBudget`, `PaidOnce` with two processes |
| `ingest_batch` | `CountersExact`, `RunIsTrue`, `OneBatchAtATime`, `StopsAtFirstFailure`, `ReportIsTrue` and the liveness property `BatchEnds` with two batches |
| `ingest_dropped` | *violation*, finding 4 |
| `previews` | the directory: `QuietDirectory`, `FullRunHeals`, `TakeTurns` (refinement), through lost locks and runs that outlive theirs; the geocoding client: `NegativeMeansAnswered`, `Polite`, `FlushedMeansSaved`; one record: `LocatorExplained`, `NothingTwice`; the worker's client: `SitesPaced` |
| `preview_lock` | *violation*, finding 5 |
| `web` | `DeskShowsLatest`, `ToggleSettles`, `SignedOutStaysOut`, `FewFailures`, `RedirectOnce`, `FeedComplete`, `D1Mirror` |

Each run also checks the type invariants of its modules, except `ingest_batch`, whose type
invariant is proved (`BatchesAreWellFormed`).

**Sums of parts.** `MCPreviews` and `MCWeb` put parts into one run that share no variable: a
variable `focus` is chosen at the start and only that part moves. Since no action of one part
reads or writes a variable of another, every behaviour of the product projects to behaviours
of the parts, and each property speaks of one part; so the sum shows for it what the product
would, with the sum of the states instead of their product. Parts that do interact (run and
worker, form and page, desk and administrator, export and visitor) are in one part.

**Bounds.** `record_identity`: two sources, one of each identity discipline, and four notices: two
namesakes behind one search URL, which share a title and are told apart by their numbers only, and two
of a page source with a title in common, one of which is stored by the old scheme under a title corrected since,
as one of the namesakes is. Every number comes and goes. No counter is bounded.
`opportunity_record`: rows interact only through lists, so one id; three documents that
differ in every field the properties speak of; five revisions are enough for a list, two
writes by others, a late write and one more; three days make a row expire and be collected
again; the note keeps a single line, so that it overflows at the second conflict.
`MaxRevision` and `MaxDay` stop the model, hence `CHECK_DEADLOCK FALSE` there, as in `previews`
and `web`, whose requests, clocks and visits are bounded.
`review_queue`: one duplicate cluster, the only kind of item whose text may change without
its facts, and two refreshers, one of which may hold any older reading; `review_decisions`
has two kinds of item. `screening_ledger`: two processes, one input under a source lock and
one under `.ai.lock`, three runs, two days, budgets that admit one reservation of the larger
size a day and three units a month; processes and run ids are interchangeable. A month has
more days than the run has: that a reservation for yesterday's month stays within its budget
is shown by the proof. `ingest_batch`: a batch of two sources on two threads and a batch of
one, in each of the three modes; the first source returns nothing, one document twice, or
three documents where `Limit` is two, the others one. So a call can be triaged, cut, defer
in the middle and meet a duplicate while another call is at any of its stages. When a
document was collected twice, `documents.index` finds the first copy, and `deferred` is an
upper bound: `CountersExact` says so, and asks for equality in every other case.

`previews`: a run by hand and one by the worker (`ByHand`), which differ in pruning; two records, so
that a checkpoint is due in the middle and an entry can be superseded while another is in progress;
one fault (a death, a failed record, a cleaned image, a lock that is broken twice or outlived by its
owner), one edit and one partial run, in any order and at any step: enough for two runs at work that
overwrite each other's entries, and for a full run after a death before a checkpoint. Slugs are
interchangeable (`SYMMETRY`; the run has no liveness property). `preview_lock` has two faults, for two
processes must find the lock of a third run, or of a dead one. The proofs drop every bound. Two callers and two keys
share or miss one load; two requests exhaust a budget; a `Retry-After` is within and beyond
the limit. Two opportunities: a European one with a notice in JSON, a page, a plan and an image, a
Chinese one with two providers that have keys. Two threads, a host with an interval and one
without, one redirect and one retry each.
`web`: three queue items of two reasons and a desk that lists two, so that a list is cut and a decision lets
another item move up; requests given up and served later, on every control; two searches and two filters;
two browsers, three forms in the order of `Agenda` (so that a log-in meets a sign-out of any kind and another
log-in), three hours with a lifetime and a throttle window of two; all paths of up to two segments of nine,
with and without a doubled slash; five rows that differ in every filtered column, one change of the table
or of the day (`MaxChanges`), between any two reads, with any answer from before or after it; a page size
of two, two clicks; two
exports of four local states, with a refused value and an id too long, one re-run and two writes of visitors. Browsers
are interchangeable (`SYMMETRY`; the run has no liveness property).

**Fairness.** In `ReviewQueue` refreshes run after every ingest, diagnosis and
cleanup, and these are scheduled without end: a refresher starts again (`WF BeginRefresh`)
and a running process makes progress (`WF ReadKind`). Every refresh may fail at its write,
so `Sync` and `Abandon` compete; that not all of them fail is `SF Sync`. Operators and facts
have no fairness: `QueueCatchesUp` speaks of behaviours in which facts stop changing, and
holds although operators go on deciding. In `IngestBatch` a process that is alive takes
some step of its own again and again (`WF Work(b)`): threads are scheduled, and every call
of a site, geocoder or provider has a timeout. Nothing is assumed of the schedule that
starts batches, of crashes, or of which thread runs. The other modules state safety only, `PreviewStore` among them: nothing in the repository starts a full
preview run again and again, so that the directory catches up is not promised; what holds is what a run
that does reach its end has repaired (`FullRunHeals`).

## Findings

1. **A second notice can enter a row of the old id scheme** (`storage/competitions.py:104`).
   That lookup compares title, source and deadline but not the notice number stored in the
   row, whereas `normalizers/keys.py:9` promises different rows for different notice ids.
   `LegacyUnambiguous` is the exact condition under which the promise holds, and the
   assumption of the theorems.
2. **A geocode refresh restores an address it read before an ingest corrected it**
   (`storage/competitions.py:336`), against "the original project address stays in
   `location_label`" (`docs/DATA_CONTRACT.md:60`); advice for the corrected facts moves to
   the new revision with it.
3. **An accepted duplicate cluster is reopened although nothing changed**
   (`review_queue.py:113`): its rows are serialised in the order of `updated_at`, which an
   ingest of an unchanged notice renews, against `storage/review.py:25`.
4. **Candidates are dropped when the triage is unavailable** (`ingest.py:212`): the list is
   cut to the limit and the rest is neither processed nor counted as deferred, against the
   comment above that line and "survivors beyond the extraction limit are counted as
   deferred" (`docs/ARCHITECTURE.md:90`). It takes no more than a concurrent source that
   holds `.ai.lock`. The model counts them as `dropped`.
5. **Two processes that find the same stale lock both run** (`packages/previews/src/pipeline/store.ts:129`):
   the second removes the lock the first has just created, against "Single-writer lock for a
   previews directory" (line 109 there). `SingleWriter` sets aside the two hours the same comment allows
   for: it asks for one writer unless a run outlived its lock. The run `previews` and the proofs contain
   both disturbances (`disorder`) and say what is left of the promises.

Five limits that are worth knowing; a document says otherwise of the first two.

* A refusal that Baidu or Amap state in a body with HTTP 200 becomes a negative cache entry
  (`packages/previews/src/geocode/providers.ts:180-185, 225-233`), although `cache.ts:3-5` and
  `lookup.ts:7-9` count every rate limit out. `NegativeMeansAnswered` names it as the one exception.
* `HostRateLimiter` spaces the *slots* it hands out: a thread that wakes up late may start right before the
  next one, so "at least interval seconds between request starts" (`ratelimit.py:10`) is more than it
  keeps. `SitesPaced` is what it keeps: counted from the first slot, no more requests than intervals.
* A listing notice that is delivered without its number and no longer has its stored title gets a second row,
  as `_find_existing` has nothing to know it by; the row says of no notice that it is of it
  (`ingest.py:242`). `OneRowPerNotice` therefore speaks of rows that do.
* A throttle check and the record of the failure are two statements, so an address may exceed the limit by
  the requests that are under way: `FewFailures` allows one per further browser.
* The offset of a page is capped at `DISCOVER_MAX_OFFSET` (`packages/core/src/discover-filters.ts:30`), so
  the rows beyond the 100 000th and one page are never reached: `FeedComplete` promises the whole list only
  where there are fewer.

## Proofs

Every theorem is of the form `Spec => []P` or `Spec => [][A]_vars`, and one says that a
specification implements another, for all values of the constants that satisfy the named
assumptions of the module. TLC checked the strengthened invariants `IInv` before
they were proved.

* **RecordIdentityProofs** (`TableIsWellFormed`, `NoticesAreNeverMixed`,
  `CorrectionsKeepTheRow`). `IInv` adds `EveryRowBelongs`: of every notice merged into a row the id is one
  this notice may have, and the number is its own or none. Without it a lookup
  could return a row whose columns say nothing about the notices seen in it. `OneRowPerNotice` is
  part of the invariant: of two identified rows a lookup may find either. That nothing found means
  no identified row, unless one was overlooked, is `NothingFound`. Assumes `LegacyUnambiguous`.
* **OpportunityRecordProofs** (`TablesAreWellFormed`, `WatchedRowsExist`,
  `AdviceInForceIsCurrent`, `OperatorRulingsStand`, `LatestReportsAreKept`,
  `EvidenceIsNeverWeakened`). `IInv` adds
  `RevisionsAgree`: whatever carries a revision, a row, its advice or a screening that is
  still waiting for its answer, carries one that was given out, and wherever the same
  revision of an id occurs the facts are the same. `NothingLeftBehind` says that deletion
  clears the history a re-created row would otherwise inherit.
* **ReviewQueueProofs** (`TablesAreWellFormed`, `DecisionsAreFollowed`). `IInv` adds
  `BasisAgrees`: while no refresh has rewritten a decided item, it still has the payload the
  decision was taken on. The number of refreshers and the age of their readings are
  arbitrary.
* **ScreeningLedgerProofs** (`LedgerIsWellFormed`, `EveryBillIsCovered`,
  `BudgetsAreRespected`, `InputsArePaidOnce`). `IInv` adds `Exclusive` (a lock has one
  holder), `Unanswered` (who is past the cache lookup unforced holds an input nobody has a
  completed unforced run of), `Covered` (an open request still has its whole reservation)
  and `BudgetsKept` (the *ledger* is within the budgets from every day on). `TotalLaws` are what
  this needs of `SUM(cost_usd)`: the empty sum, the effect of one summand, monotonicity. They are
  proved of the recursive function `Total`, for a finite set of run ids: what is inherited by a set
  of runs from the set without the one taken out holds of all (`EverySet`, by a smallest
  counterexample), and the recursion has a solution (`SumExists`).
* **IngestProofs** (of the pipeline: `CountersAreExact`, `RunsAreTrue`; of batches:
  `BatchesAreWellFormed`, `BatchesExcludeEachOther`, `FailFastStops`, `ReportsAreTrue`,
  `BatchesRunThePipeline`). `IInv` adds `Placed`: the open positions are exactly those in hand
  (all before the loop, those from `next` on in it, none after), no position is listed twice, and
  nothing is stored before the store. The counts change by `MarkedCounts`: giving positions
  another fate moves their number from one count to the other. That `deferred` covers the rest
  follows from where `documents.index` can find a document. `BatchIInv` adds `Quiet` (an idle
  batch has no call begun), `Reported` (what is in the report has ended and will not move again)
  and `InTurn` (a fail-fast batch has returned from the calls before the one it waits for and not
  begun those after). `BatchesRunThePipeline` shows that the batch implements `PipelineSpec`, in
  which calls are made and forgotten in any order; so the counters of the pipeline are exact in
  every batch (`BatchCountersAreExact`).
* **WebProofs**, one part after the other:
    * sessions (`SignedOutSessionsStayOut`, `TokensHaveOneRow`). `SessionInv` adds
      `OneRowPerToken` (with two rows, deleting the expired one would leave the other),
      `TokensGivenOut` (no token in use is ahead of the counter, no two forms have the same) and
      `FreshUnused` (the token a log-in will insert has never been in the table).
    * the throttle (`FailuresAreFew`, `AuthTypes`). `FewFailures` is not inductive: it says nothing of
      forms that have passed the check and not recorded yet. `ThrottleInv` adds their number to the
      failures in the window, which together stay below the limit plus one per further browser.
      `SumGrows` says what one more failure does to the sum over the hours.
    * the workspace (`DeskIsLatest`, `ButtonSettles`, `WorkspaceTypes`). `DeskInv` says of each stage of
      a request what its answer was read from: `LoadAccounted` and `DecisionAccounted` while it is under way,
      `ListFits` and `ListLatest` once it is settled. `WatchInv` says that the button shows what the
      click under way asked for, and that once it is served the list agrees unless something else has
      written since, a request given up before included. Such requests are in the state as long as they may
      be served; `SearchInv` is the shape of the panel.
    * the gate (`OneRedirect`, `GateTypes`). `GateInv`: the path after a redirect is `InPlace`, whatever
      the cookie and the language, so the middleware has nothing left to redirect. It rests on the
      negotiated locale being a supported one (`NegotiatedIsSupported`).
    * the export (`RemoteMirrors`, `SyncTypes`). `PlanIs` describes the statements `planFiles` makes:
      each exported row once, in order (`BatchesInOrder`, `RowsInOrder`), then the prune. `MirrorInv` follows
      them up to the current one: `UpsertsInForce` (of a queue item, what belongs to the worker),
      `StagedSoFar`, `Pruned`; `VisitorsStand` and `PinnedStand` protect what visitors wrote. A file that
      runs again only moves the position back.
    * the discover page (`ListsAreComplete`). `FeedInv` adds to the property where the next page
      begins (`Shown`: within what is shown, at its end if no offset was capped), where a restored list
      is to be read on (`Begun`), and that an answer continues the list it was asked for (`NextOf`),
      all while the filters select what they selected at each read; `ListShape` says of every list, left or
      on screen, that it has no id twice, and that any answer still in a cache was read from rows with ids
      of their own. An answer continues the list if the rows it was read from select the same
      (`RequestAnswered`); a change of the table or of the clock that keeps the selection keeps the list
      (`ChangeKeepsList`). It rests on three facts. The columns a list is sorted by end with the id, so they compare any two rows
      (`AheadIsOrder`), and `Arranged` gives each row the place of its rank (`PlacesAreTaken`). A request
      is read back as it was written but for a filter for "no licensed architect"
      (`RequestReadsBack`). And a page that begins within what is shown adds exactly what comes
      next, once (`FreshIsNext`), one page after the other (`FurtherPagesShow`) or while the list is on
      screen (`MoreIsShown`).
    * all of them together (`WebTypes`): a step moves one part and leaves the others alone (`PartsMove`).
* **PreviewStoreProofs** (`StoreIsWellFormed`, `RunsExcludeEachOther`, `DirectoriesAreQuiet`,
  `RunsTakeTurns`, `FullRunsHeal`). No theorem assumes anything of how long runs take or who finds a dead
  lock. `StoreNext` is split into groups (`StepGroups`) of which the moves are
  stated once each. `Shape` adds to the types that work goes on listed records only.
  `LockInv`, while nothing is in `disorder`: who works has the lock, and it is fresh; who is about to break
  one is alone, and it is stale. So one run at a time works until a lock is lost by a run at work, and
  again when all of those have ended. `AllAccounted`, until something goes wrong: the images are those of
  the manifest, of the memory or of both plus the one in progress, depending on where the run is.
  `NeverAhead` and `AloneInv`: on disk, in the memory of a run that is alone, in its list and in
  the table, hashes never decrease from one to the next. `Healing` follows a full run that is alone and at
  peace: the records it is through with have their entry and image, at the end all. The refinement follows
  step by step: `ReadList` begins a session, `Record` revises, `Prune` drops, a checkpoint
  publishes, `Release` and `Crash` of a writer end it; every other step is a stutter.
* **PreviewProofs**:
    * the worker's client (`SitesArePaced`, `SiteTypes`). `SitesPaced` counts requests sent;
      `PacingInv` counts those that wait as well: the slots handed out follow each other by the
      interval (`SlotsInOrder`, `HandedOut`), and those that would wake by any time fit before it
      (`DuePaced`).
    * the geocoding client (`NegativesAreAnswered`, `RequestsArePolite`, `FlushesSave`, `ClientTypes`).
      `ClientInv`: a load sleeps at least as long as interval and `blockedUntil` ask
      (`SleepsLongEnough`), each key has one load (`LoadsApart`), `Nothing` is in the cache or on its way
      only if a body said so, or is one of Baidu or Amap that refuses (`NothingAnswered`), and a fresh entry is in memory, in the write
      under way or in the file, up to what a flush waits for (`FreshStays`, `FreshTravels`,
      `OwedArrives`).
    * one record (`LocatorsAreExplained`, `NothingIsTriedTwice`, `RecordTypes`). `RecordInv`: the
      locator is the place of the first located attempt (`Located`); what is to be tried has been
      marked seen, has one entry per comparison key and none that was tried (`AllUntried`). It rests on
      what the algorithms return: a fold is a run through its list (`FoldExists`, `FoldIn`), `PickFrom`
      draws entries in order (`Picked`), the merge leaves one candidate per address (`Deduped`), and
      adding unseen ones keeps the rest (`UntriedGrows`).
    * all parts of `MCPreviews` together (`PreviewTypes`).

The assumptions are the named `ASSUME`s of the modules, which TLC evaluates for the instances: bounds
are natural numbers, limits and intervals of attempts positive; browsers, threads, run ids and keys
of tables are finite sets; markers such as `NoRow` or "failed" differ from what they stand in for.
Four say more: screening results of an exported database refer to rows that are there
(`SyncAssumption`, a foreign key), pages hold lists and text and geocoders answer with pairs of
integers (`RecordAssumption`), locales are none of the path segments the middleware leaves alone
(`GateAssumption`), and rows have ids of their own and columns that compare, a number in an address
reads as a number, and page length, restored list and largest offset follow each other in size
(`DiscoverAssumption`: 36, 500 and 100 000 in the code).

**Model-checked only**: the liveness properties `QueueCatchesUp` and `BatchEnds`, and the five
violations. Liveness under fairness and `ENABLED` are out
of the prover's reach. Every invariant and every action property of a passing run is a theorem.
Sums, folds and sorted lists are computed by recursive functions; the prover has no
induction over data, so where a theorem needs their value, it is found by a least counterexample
(`LeastExists`).

## Not modelled

* Collectors, extractors, normalisers, verifiers, the matching of AI quotes, and the presentation labels: text
  in, text out, without state; what their results lead to is in the modules above.
* Storage drivers: adapters to SQLite and D1; their transactions are the atomicity of the actions.
* Rendering: React markup, metadata, image composition and serving, placeholders, and the copy to the web
  application (`publishPreviews`): it takes what the manifest of the run names and is there, and nobody else
  writes the target but the cleanup. (Its comment says that an entry without image is dropped by the
  next prune; in the code it is rendered again by the next full run, as `FullRunHeals` says.)
* The once-a-day guard and state file of the cleanup, the health report, the archive and decoding
  of responses: one process, no reader that acts on them.
* Command line, configuration, demo data, scheduled scripts: the commands are actions.

Hazards that no property covers, with the reason in `PROJECT.json`: a decision does not name the
payload it was taken on (`packages/storage/src/ops/review.ts:217`); the payload of a conflict
holds neither note nor link (`review_queue.py:245`); a row re-ingested with a later deadline is
deleted all the same (`maintenance.py:195`); coordinates may outlive their label
(`storage/merge.py:135`); a failed removal on the dashboard leaves the row away until a reload
(`apps/web/src/components/watchlist-dashboard-table.tsx:79`).
