------------------------------ MODULE D1Export ------------------------------
(***************************************************************************)
(* The sync of the worker's tables to the production database on D1         *)
(* (scripts/export-d1-data.mjs, scripts/lib/d1-sync).  An export writes SQL *)
(* files from one snapshot; an operator runs them there one by one, again   *)
(* after a failure, while visitors watch and unwatch and administrators     *)
(* decide on the remote side.  There is no transaction around the files.    *)
(***************************************************************************)
EXTENDS Integers, Sequences, FiniteSets

CONSTANTS
  KeysOf(_),             \* primary keys of a table
  Facts,                 \* what the columns of a row say
  LocalTables,           \* states of the local database
  SizeOf(_),             \* bytes of the upsert of a row
  IdSize(_),             \* bytes of the literal of a staged id
  Printable(_),          \* formatSqlValue accepts the values of the row
  QueueStatuses,
  MaxStatementsPerFile, MaxFileBytes, MaxStatementBytes, MaxDataFiles,
  IdsPerStatement,       \* PRUNE_IDS_PER_STATEMENT
  MaxExports, MaxVisitorSteps, MaxReruns,  \* bounds
  NoRow

\* table-specs.mjs, in the order of the export.
SyncTables == <<"competitions", "source_runs", "ai_screening_results", "source_health",
                "ops_review_queue_items">>
Queue == "ops_review_queue_items"
Tables == {SyncTables[i] : i \in DOMAIN SyncTables}

SyncRow == [facts : Facts, status : {"none", "pending"} \cup QueueStatuses,
            origin : {"none", "worker_diagnostic", "submission"}]
Present(rows) == {k \in DOMAIN rows : rows[k] # NoRow}

\* A screening result refers to a competition (FOREIGN KEY in 0006_ai_screening.sql).
ASSUME SyncAssumption ==
  /\ \A t \in Tables : KeysOf(t) \subseteq Nat /\ IsFiniteSet(KeysOf(t))
  /\ \A tables \in LocalTables :
       /\ DOMAIN tables = Tables
       /\ \A t \in Tables : tables[t] \in [KeysOf(t) -> SyncRow \cup {NoRow}]
       /\ Present(tables["ai_screening_results"]) \subseteq Present(tables["competitions"])
  /\ 0 \in Facts /\ NoRow \notin SyncRow
  /\ \A row \in SyncRow : SizeOf(row) \in Nat
  /\ \A k \in KeysOf("competitions") : IdSize(k) \in Nat
  /\ {MaxStatementsPerFile, MaxFileBytes, MaxStatementBytes, IdsPerStatement} \subseteq Nat

VARIABLES
  local,     \* the local database: per table and key a row [facts, status, origin] or NoRow
  drifted,   \* its columns differ from the migrations
  remote,    \* the synced tables on D1
  staging,   \* ids of the scratch table
  pinned,    \* competitions on a watchlist of D1
  statements, \* of the files of the last export, one after the other
  begins,    \* where a file begins
  at,        \* next statement to run
  snapshot, pruning,  \* what the files were made from
  spared,    \* competitions the prune left because they were watched
  theirs,    \* queue rows a visitor created or an administrator decided: what must stay
  exports, visits, reruns

syncVars == <<local, drifted, remote, staging, pinned, statements, begins, at, snapshot, pruning,
              spared, theirs, exports, visits, reruns>>
exported == <<statements, begins, snapshot, pruning>>
syncCounters == <<exports, visits, reruns>>

Exported(table, row) == row # NoRow /\ (table = Queue => row.origin = "worker_diagnostic")
Done == statements # <<>> /\ at > Len(statements)

-----------------------------------------------------------------------------
(* Building the files *)

\* Rows are named by the place of their table and their key.
ExportedRows(tables) ==
  {r \in (1 .. Len(SyncTables)) \X UNION {KeysOf(t) : t \in Tables} :
     /\ r[2] \in KeysOf(SyncTables[r[1]])
     /\ Exported(SyncTables[r[1]], tables[SyncTables[r[1]]][r[2]])}

\* Tables in the order of the export, rows ORDER BY key.
Before(r, rows) == {q \in rows : q[1] < r[1] \/ (q[1] = r[1] /\ q[2] < r[2])}
InOrder(rows) ==
  [n \in 1 .. Cardinality(rows) |-> CHOOSE r \in rows : Cardinality(Before(r, rows)) = n - 1]

\* readTableRows and buildUpsertStatement: one statement per row.
Upsert(r, tables) ==
  [op |-> "upsert", table |-> SyncTables[r[1]], key |-> r[2], row |-> tables[SyncTables[r[1]]][r[2]]]
UpsertStatements(tables) ==
  [n \in DOMAIN InOrder(ExportedRows(tables)) |-> Upsert(InOrder(ExportedRows(tables))[n], tables)]

\* The number of the batch of every item: batches of one table, filled until the count or the bytes
\* are used up and never left empty.
SplitIntoBatches(items, count, bytes) ==
  LET fill[n \in 1 .. Len(items)] ==
        IF n = 1 THEN [batch |-> 1, length |-> 1, bytes |-> items[n].size]
        ELSE IF \/ items[n].table # items[n - 1].table
                \/ fill[n - 1].length >= count
                \/ fill[n - 1].bytes + items[n].size > bytes
             THEN [batch |-> fill[n - 1].batch + 1, length |-> 1, bytes |-> items[n].size]
             ELSE [batch |-> fill[n - 1].batch, length |-> fill[n - 1].length + 1,
                   bytes |-> fill[n - 1].bytes + items[n].size]
  IN  [n \in 1 .. Len(items) |-> fill[n].batch]

Batches(split) == IF split = <<>> THEN 0 ELSE split[Len(split)]

\* A statement of the scratch table holds at most this many bytes of ids.
StageBudget == MaxStatementBytes \div 2

\* The scratch table is made and emptied, filled by chunks, used once and dropped; an id counts
\* with its separator.
BuildPruneStatements(tables) ==
  LET rows == {r \in ExportedRows(tables) : r[1] = 1}
      ids == [n \in 1 .. Cardinality(rows) |-> InOrder(rows)[n][2]]
      literals == [n \in 1 .. Cardinality(rows) |-> [table |-> "staging", size |-> IdSize(ids[n]) + 2]]
      chunk == SplitIntoBatches(literals, IdsPerStatement, StageBudget)
  IN  <<[op |-> "create"], [op |-> "clear"]>>
      \o [i \in 1 .. Batches(chunk) |->
            [op |-> "stage", ids |-> {ids[n] : n \in {m \in DOMAIN ids : chunk[m] = i}}]]
      \o <<[op |-> "delete"], [op |-> "drop"]>>

\* planFiles: the data in the order of the tables, the prune in one last file.
FileOf(tables) ==
  LET upserts == UpsertStatements(tables)
  IN  SplitIntoBatches([n \in DOMAIN upserts |-> [table |-> upserts[n].table, size |-> SizeOf(upserts[n].row)]],
                       MaxStatementsPerFile, MaxFileBytes)

PlanFiles(tables, prune) ==
  UpsertStatements(tables) \o (IF prune THEN BuildPruneStatements(tables) ELSE <<>>)

FileBegins(tables, prune) ==
  LET file == FileOf(tables)
  IN  {n \in DOMAIN file : n = 1 \/ file[n] # file[n - 1]}
      \cup (IF prune THEN {Len(file) + 1} ELSE {})

FindSchemaProblems == drifted

\* Any of these throws, before a byte is written.
Refused(tables, prune) ==
  \/ FindSchemaProblems
  \/ \E t \in Tables : \E k \in KeysOf(t) :
       Exported(t, tables[t][k]) /\ (~Printable(tables[t][k]) \/ SizeOf(tables[t][k]) > MaxStatementBytes)
  \/ Batches(FileOf(tables)) > MaxDataFiles
  \/ /\ prune
     /\ \/ Present(tables["competitions"]) = {}
        \/ \E k \in Present(tables["competitions"]) : IdSize(k) > StageBudget
        \/ Len(BuildPruneStatements(tables)) > MaxStatementsPerFile
        \/ Len(BuildPruneStatements(tables)) > MaxFileBytes  \* a statement of it counts one

\* runExport; the operator turns to the files of the new export.
RunExport(prune) ==
  /\ exports < MaxExports /\ exports' = exports + 1
  /\ IF Refused(local, prune)
     THEN UNCHANGED <<exported, at>>
     ELSE /\ statements' = PlanFiles(local, prune) /\ begins' = FileBegins(local, prune)
          /\ snapshot' = local /\ pruning' = prune /\ at' = 1
  /\ UNCHANGED <<local, drifted, remote, staging, pinned, spared, theirs, visits, reruns>>

\* The worker goes on writing, a maintenance command deletes, a migration brings the columns back.
WriteLocal ==
  /\ local' \in LocalTables /\ local' # local
  /\ UNCHANGED <<drifted, remote, staging, pinned, exported, at, spared, theirs, syncCounters>>

MigrateLocal ==
  /\ drifted /\ drifted' = FALSE
  /\ UNCHANGED <<local, remote, staging, pinned, exported, at, spared, theirs, syncCounters>>

-----------------------------------------------------------------------------
(* Running them *)

\* Slip: all columns but the key, of every table.
UpsertedWhole(table, old, new) ==
  IF old = NoRow \/ table # Queue \/ old.origin = "worker_diagnostic" THEN new ELSE old

\* ON CONFLICT DO UPDATE: all but the key; of a queue row only the worker's columns, and only
\* when the worker created it.
Upserted(table, old, new) ==
  IF old = NoRow \/ table # Queue THEN new
  ELSE IF old.origin = "worker_diagnostic" THEN [old EXCEPT !.facts = new.facts]
  ELSE old

Current == statements[at]

RunUpsert ==
  /\ Current.op = "upsert"
  /\ remote' = [remote EXCEPT ![Current.table][Current.key] = Upserted(Current.table, @, Current.row)]
  /\ UNCHANGED <<staging, spared>>

RunStage ==
  /\ Current.op \in {"create", "clear", "stage", "drop"}
  /\ staging' = IF Current.op = "stage" THEN staging \cup Current.ids
                ELSE IF Current.op = "create" THEN staging ELSE {}
  /\ UNCHANGED <<remote, spared>>

\* Screening results go with their competition (ON DELETE CASCADE).
RunDelete ==
  /\ Current.op = "delete"
  /\ LET gone == Present(remote["competitions"]) \ (staging \cup pinned)
         without(rows) == [k \in DOMAIN rows |-> IF k \in gone THEN NoRow ELSE rows[k]]
     IN  remote' = [remote EXCEPT !["competitions"] = without(@), !["ai_screening_results"] = without(@)]
  /\ spared' = pinned \ staging
  /\ UNCHANGED staging

RunStatement ==
  /\ statements # <<>> /\ ~Done
  /\ RunUpsert \/ RunStage \/ RunDelete
  /\ at' = at + 1
  /\ UNCHANGED <<local, drifted, pinned, exported, theirs, syncCounters>>

\* "If one file fails, fix the cause and re-run that file (or the whole list)".
Rerun ==
  /\ reruns < MaxReruns /\ reruns' = reruns + 1
  /\ at' \in begins /\ at' < at
  /\ at' = 1 \/ \A n \in begins : n <= at' \/ at <= n
  /\ UNCHANGED <<local, drifted, remote, staging, pinned, exported, spared, theirs, exports, visits>>

-----------------------------------------------------------------------------
(* The remote side meanwhile *)

Visit == visits < MaxVisitorSteps /\ visits' = visits + 1

AddRemoteWatch(c) ==
  /\ Visit
  /\ remote["competitions"][c] # NoRow
  /\ pinned' = pinned \cup {c}
  /\ UNCHANGED <<local, drifted, remote, staging, exported, at, spared, theirs, exports, reruns>>

RemoveRemoteWatch(c) ==
  /\ Visit /\ c \in pinned
  /\ pinned' = pinned \ {c}
  /\ UNCHANGED <<local, drifted, remote, staging, exported, at, spared, theirs, exports, reruns>>

DecideRemote(q, status) ==
  /\ Visit /\ remote[Queue][q] # NoRow
  /\ remote' = [remote EXCEPT ![Queue][q].status = status]
  /\ theirs' = [theirs EXCEPT ![q] = [origin |-> remote[Queue][q].origin, status |-> status]]
  /\ UNCHANGED <<local, drifted, staging, pinned, exported, at, spared, exports, reruns>>

\* A row of another origin than the worker: no code creates one yet, the guard of the export and the
\* list of origins provide for it.
Submit(q) ==
  /\ Visit /\ remote[Queue][q] = NoRow
  /\ remote' = [remote EXCEPT ![Queue][q] = [facts |-> 0, status |-> "pending", origin |-> "submission"]]
  /\ theirs' = [theirs EXCEPT ![q] = [origin |-> "submission", status |-> "pending"]]
  /\ UNCHANGED <<local, drifted, staging, pinned, exported, at, spared, exports, reruns>>

-----------------------------------------------------------------------------

NoRows == [t \in Tables |-> [k \in KeysOf(t) |-> NoRow]]

SyncInit ==
  /\ local \in LocalTables /\ drifted \in BOOLEAN
  /\ remote = NoRows /\ staging = {} /\ pinned = {}
  /\ statements = <<>> /\ begins = {} /\ at = 1 /\ snapshot = NoRows /\ pruning = FALSE
  /\ spared = {} /\ theirs = [q \in KeysOf(Queue) |-> NoRow]
  /\ exports = 0 /\ visits = 0 /\ reruns = 0

SyncNext ==
  \/ \E prune \in BOOLEAN : RunExport(prune)
  \/ WriteLocal \/ MigrateLocal \/ RunStatement \/ Rerun
  \/ \E c \in KeysOf("competitions") : AddRemoteWatch(c) \/ RemoveRemoteWatch(c)
  \/ \E q \in KeysOf(Queue) : Submit(q) \/ \E status \in QueueStatuses : DecideRemote(q, status)

SyncSpec == SyncInit /\ [][SyncNext]_syncVars

SyncTypeOK ==
  /\ local \in LocalTables /\ snapshot \in LocalTables \cup {NoRows}
  /\ drifted \in BOOLEAN /\ pruning \in BOOLEAN
  /\ DOMAIN remote = Tables /\ \A t \in Tables : remote[t] \in [KeysOf(t) -> SyncRow \cup {NoRow}]
  /\ staging \cup pinned \cup spared \subseteq KeysOf("competitions")
  /\ at \in 1 .. Len(statements) + 1 /\ begins \subseteq 1 .. Len(statements)

\* When the last file of an export has run, whatever was re-run on the way and whatever visitors
\* did meanwhile, D1 has every exported row as it was in the snapshot (of a queue row the worker's
\* columns, unless a submission owns it) and, with --prune, no other competition than those
\* pinned at the time.  At all times decisions and submissions stand and no pinned competition
\* is missing.
D1Mirror ==
  /\ Done =>
       /\ \A t \in Tables : \A k \in KeysOf(t) : Exported(t, snapshot[t][k]) =>
            LET row == remote[t][k]
            IN  /\ row # NoRow
                /\ t # Queue => row = snapshot[t][k]
                /\ t = Queue => row.origin = "submission" \/ row.facts = snapshot[t][k].facts
       /\ pruning => Present(remote["competitions"]) \subseteq Present(snapshot["competitions"]) \cup spared
  /\ \A q \in KeysOf(Queue) : theirs[q] # NoRow =>
       remote[Queue][q] # NoRow /\ remote[Queue][q].origin = theirs[q].origin
         /\ remote[Queue][q].status = theirs[q].status
  /\ pinned \subseteq Present(remote["competitions"])
=============================================================================
