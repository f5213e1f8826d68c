-------------------------- MODULE ScreeningLedger --------------------------
(***************************************************************************)
(* The ledger of paid AI requests (ai_screening_runs).  Assessments,       *)
(* screening batches and candidate triage run in processes of their own.   *)
(* Each one holds an OS lock while it looks for a completed run of the     *)
(* same input, reserves the worst-case cost under the daily and monthly    *)
(* budgets, calls the provider once and settles the reservation.           *)
(***************************************************************************)
EXTENDS Integers, FiniteSets

CONSTANTS
  Requesters,     \* processes
  Keys,           \* what identifies an input: (source_url, model, input_json)
  Locks,          \* lock files beside the database
  GlobalLock,     \* .ai.lock; the others are .ai-{source}.lock
  LockOf,         \* [Keys -> Locks]; GlobalLock for the inputs of triage
  Runs,           \* run ids (uuid4), of which there are finitely many
  MaxReserve,     \* bound: the largest reservation
  ReserveOf,      \* [Keys -> 0 .. MaxReserve]
  DailyBudget, MonthlyBudget,
  DaysPerMonth,
  MaxDay,         \* bound: the last day
  NoRun, None

Days == 0 .. MaxDay
MonthOf(d) == d \div DaysPerMonth
Amounts == 0 .. MaxReserve
Charges == [Runs -> Amounts]

\* A row of ai_screening_runs; day is the date of started_at.
Run == [key : Keys, forced : BOOLEAN, day : Days, cost : Amounts,
        status : {"reserved", "failed", "uncertain", "completed"}]

ASSUME LedgerAssumption ==
  /\ IsFiniteSet(Runs)
  /\ MaxReserve \in Nat /\ MaxDay \in Nat /\ DaysPerMonth \in Nat \ {0}
  /\ DailyBudget \in Nat /\ MonthlyBudget \in Nat
  /\ GlobalLock \in Locks
  /\ LockOf \in [Keys -> Locks]
  /\ ReserveOf \in [Keys -> Amounts]
  /\ NoRun \notin Run
  /\ None \notin Keys \cup Runs

VARIABLES
  day,      \* the UTC date
  req,      \* per process: what it is doing
  ledger,   \* ai_screening_runs
  open,     \* external: the provider may still run, and bill, the request
  bill      \* external: what the provider billed

vars == <<day, req, ledger, open, bill>>
provider == <<open, bill>>

\* day is the date read for started_at (reserve_screening), run the reserved row.
Request == [batch : BOOLEAN, pc : {"idle", "locked", "missed", "calling"},
            key : Keys \cup {None}, forced : BOOLEAN, day : Days, run : Runs \cup {None}]

Between(batch) ==
  [batch |-> batch, pc |-> "idle", key |-> None, forced |-> FALSE, day |-> 0, run |-> None]
Idle == Between(FALSE)

-----------------------------------------------------------------------------
(* locking.py: a lock is held exactly while its holder runs the guarded block; the
   operating system drops it when the process dies. *)

Held(r) ==
  {lock \in Locks : \/ req[r].batch /\ lock = GlobalLock
                    \/ req[r].pc # "idle" /\ lock = LockOf[req[r].key]}

Free(lock) == \A r \in Requesters : lock \notin Held(r)

\* screen_competitions holds .ai.lock over its rows.
BeginBatch(r) ==
  /\ req[r] = Idle
  /\ Free(GlobalLock)
  /\ req' = [req EXCEPT ![r] = Between(TRUE)]
  /\ UNCHANGED <<day, ledger, provider>>

\* No row is left, or the lock of the next row's source is taken.
EndBatch(r) ==
  /\ req[r] = Between(TRUE)
  /\ req' = [req EXCEPT ![r] = Idle]
  /\ UNCHANGED <<day, ledger, provider>>

Acquired(r, k, forced) ==
  [req EXCEPT ![r].pc = "locked", ![r].key = k, ![r].forced = forced]

\* Slip: the lock of another checkout is not seen.
AcquireUnguarded(r, k, forced) ==
  /\ req[r].pc = "idle"
  /\ LockOf[k] = GlobalLock => ~forced /\ ~req[r].batch
  /\ req' = Acquired(r, k, forced)
  /\ UNCHANGED <<day, ledger, provider>>

\* Enter the guarded block: assess_document or a row of a batch with the lock of its
\* source, triage_documents with .ai.lock.  A taken lock raises LockHeldError: no step.
Acquire(r, k, forced) ==
  /\ req[r].pc = "idle"
  /\ LockOf[k] = GlobalLock => ~forced /\ ~req[r].batch
  /\ Free(LockOf[k])
  /\ req' = Acquired(r, k, forced)
  /\ UNCHANGED <<day, ledger, provider>>

\* The answer is used: back to the caller, or on to the next row of the batch.
Done(r) == [req EXCEPT ![r] = Between(@.batch)]

\* ScreeningError or ScreeningBudgetExceeded: a batch stops too.
Stop(r) == [req EXCEPT ![r] = Idle]

-----------------------------------------------------------------------------
(* The cache and the reservation. *)

\* find_cached_screening
Cached(k) == \E n \in Runs : ledger[n] # NoRun /\ ledger[n].key = k /\ ledger[n].status = "completed"

UseCached(r) ==
  /\ req[r].pc = "locked"
  /\ ~req[r].forced /\ Cached(req[r].key)
  /\ req' = Done(r)
  /\ UNCHANGED <<day, ledger, provider>>

\* Nothing usable: reserve_screening reads the clock before it opens its transaction.
Miss(r) ==
  /\ req[r].pc = "locked"
  /\ req[r].forced \/ ~Cached(req[r].key)
  /\ req' = [req EXCEPT ![r].pc = "missed", ![r].day = day]
  /\ UNCHANGED <<day, ledger, provider>>

\* COALESCE(SUM(cost_usd), 0), one row after another.
Total(charges) ==
  LET sum[S \in SUBSET Runs] ==
        IF S = {} THEN 0
        ELSE LET n == CHOOSE n \in S : TRUE IN charges[n] + sum[S \ {n}]
  IN  sum[Runs]

\* The costs of the runs that started on or after a day, or a month.
ChargesFrom(d) ==
  [n \in Runs |-> IF ledger[n] # NoRun /\ ledger[n].day >= d THEN ledger[n].cost ELSE 0]
ChargesFromMonth(m) ==
  [n \in Runs |-> IF ledger[n] # NoRun /\ MonthOf(ledger[n].day) >= m THEN ledger[n].cost ELSE 0]

\* Slip: the request itself is not counted.
AffordableBefore(d, amount) ==
  /\ Total(ChargesFromMonth(MonthOf(d))) <= MonthlyBudget
  /\ Total(ChargesFrom(d)) <= DailyBudget

Affordable(d, amount) ==
  /\ Total(ChargesFromMonth(MonthOf(d))) + amount <= MonthlyBudget
  /\ Total(ChargesFrom(d)) + amount <= DailyBudget

\* Slip: the run is to be recorded when its outcome is known.
ReserveUnrecorded(r, n) ==
  /\ req[r].pc = "missed"
  /\ Affordable(req[r].day, ReserveOf[req[r].key])
  /\ ledger[n] = NoRun
  /\ open' = [open EXCEPT ![n] = TRUE]
  /\ req' = [req EXCEPT ![r].pc = "calling", ![r].run = n]
  /\ UNCHANGED <<day, ledger, bill>>

\* Both checks and the insertion are one write transaction.
Reserve(r, n) ==
  /\ req[r].pc = "missed"
  /\ Affordable(req[r].day, ReserveOf[req[r].key])
  /\ ledger[n] = NoRun
  /\ ledger' = [ledger EXCEPT ![n] =
                  [key |-> req[r].key, forced |-> req[r].forced, day |-> req[r].day,
                   cost |-> ReserveOf[req[r].key], status |-> "reserved"]]
  /\ open' = [open EXCEPT ![n] = TRUE]
  /\ req' = [req EXCEPT ![r].pc = "calling", ![r].run = n]
  /\ UNCHANGED <<day, bill>>

BudgetExceeded(r) ==
  /\ req[r].pc = "missed"
  /\ ~Affordable(req[r].day, ReserveOf[req[r].key])
  /\ req' = Stop(r)
  /\ UNCHANGED <<day, ledger, provider>>

-----------------------------------------------------------------------------
(* The call.  The provider is external: it runs a request at most once (max_retries is 0)
   and never bills more than the conservative bound reserved for it, but it may do so
   after the caller has lost the connection or died. *)

ProviderBills(n, amount) ==
  /\ open[n]
  /\ amount <= ReserveOf[ledger[n].key]
  /\ open' = [open EXCEPT ![n] = FALSE]
  /\ bill' = [bill EXCEPT ![n] = amount]
  /\ UNCHANGED <<day, req, ledger>>

\* finish_screening; cost None is SQL NULL.
Settled(run, status, cost) ==
  [run EXCEPT !.status = status, !.cost = IF cost = None THEN @ ELSE cost]

Finish(r, status, cost) ==
  ledger' = [ledger EXCEPT ![req[r].run] = Settled(@, status, cost)]

\* A 4xx answer: the request was not run and costs nothing.
Rejected(r) ==
  /\ req[r].pc = "calling"
  /\ open[req[r].run]
  /\ open' = [open EXCEPT ![req[r].run] = FALSE]
  /\ Finish(r, "failed", 0)
  /\ req' = Stop(r)
  /\ UNCHANGED <<day, bill>>

\* Slip: every error is taken for a rejection.
OutcomeUnknownFree(r, status) ==
  /\ req[r].pc = "calling"
  /\ Finish(r, status, 0)
  /\ req' = Stop(r)
  /\ UNCHANGED <<day, provider>>

\* A 5xx answer, a timeout, a broken connection: the reservation stays.
OutcomeUnknown(r, status) ==
  /\ req[r].pc = "calling"
  /\ Finish(r, status, None)
  /\ req' = Stop(r)
  /\ UNCHANGED <<day, provider>>

\* An answer, with or without usage figures, that is valid or not.
Answered(r, valid, usage) ==
  /\ req[r].pc = "calling"
  /\ ~open[req[r].run]
  /\ Finish(r, IF valid THEN "completed" ELSE "failed",
            IF usage THEN bill[req[r].run] ELSE None)
  /\ req' = IF valid THEN Done(r) ELSE Stop(r)
  /\ UNCHANGED <<day, provider>>

\* The process dies, or an exception nobody settles leaves the guarded blocks.
Crash(r) ==
  /\ req[r] # Idle
  /\ req' = [req EXCEPT ![r] = Idle]
  /\ UNCHANGED <<day, ledger, provider>>

NextDay ==
  /\ day < MaxDay
  /\ day' = day + 1
  /\ UNCHANGED <<req, ledger, provider>>

-----------------------------------------------------------------------------
Init ==
  /\ day = 0
  /\ req = [r \in Requesters |-> Idle]
  /\ ledger = [n \in Runs |-> NoRun]
  /\ open = [n \in Runs |-> FALSE]
  /\ bill = [n \in Runs |-> 0]

Next ==
  \/ \E r \in Requesters : BeginBatch(r)
  \/ \E r \in Requesters : EndBatch(r)
  \/ \E r \in Requesters, k \in Keys, forced \in BOOLEAN : Acquire(r, k, forced)
  \/ \E r \in Requesters : UseCached(r)
  \/ \E r \in Requesters : Miss(r)
  \/ \E r \in Requesters, n \in Runs : Reserve(r, n)
  \/ \E r \in Requesters : BudgetExceeded(r)
  \/ \E n \in Runs, amount \in Amounts : ProviderBills(n, amount)
  \/ \E r \in Requesters : Rejected(r)
  \/ \E r \in Requesters, status \in {"failed", "uncertain"} : OutcomeUnknown(r, status)
  \/ \E r \in Requesters, valid \in BOOLEAN, usage \in BOOLEAN : Answered(r, valid, usage)
  \/ \E r \in Requesters : Crash(r)
  \/ NextDay

Spec == Init /\ [][Next]_vars

-----------------------------------------------------------------------------
(* Properties. *)

\* Well-formed rows; a process that waits for the provider owns a reserved run of its
\* input, so no paid request is ever without a row in the ledger (_request_one).
TypeOK ==
  /\ day \in Days
  /\ req \in [Requesters -> Request]
  /\ ledger \in [Runs -> Run \cup {NoRun}]
  /\ open \in [Runs -> BOOLEAN]
  /\ bill \in Charges
  /\ \A r \in Requesters :
       /\ req[r].pc = "idle" => req[r] = Between(req[r].batch)
       /\ req[r].pc # "idle" => req[r].key # None
       /\ req[r].pc = "calling" =>
            /\ req[r].run # None
            /\ ledger[req[r].run] # NoRun
            /\ ledger[req[r].run].status = "reserved"
            /\ ledger[req[r].run].key = req[r].key

\* "Ambiguous network outcomes retain their reservation": whatever the provider billed,
\* before or after the caller gave up or died, the ledger shows at least as much
\* (finish_screening and the error paths of _request_one and triage_documents).
LedgerCoversBill ==
  \A n \in Runs : bill[n] <= IF ledger[n] = NoRun THEN 0 ELSE ledger[n].cost

BilledOn(d) ==
  [n \in Runs |-> IF ledger[n] # NoRun /\ ledger[n].day = d THEN bill[n] ELSE 0]
BilledInMonth(m) ==
  [n \in Runs |-> IF ledger[n] # NoRun /\ MonthOf(ledger[n].day) = m THEN bill[n] ELSE 0]

\* What the provider bills for the requests started in a day or a month stays within the
\* budgets, however many sources reserve concurrently, with dates read before the
\* transaction, lost answers and crashed callers (reserve_screening).
SpendWithinBudget ==
  \A d \in Days : /\ Total(BilledOn(d)) <= DailyBudget
                  /\ Total(BilledInMonth(MonthOf(d))) <= MonthlyBudget

\* An input is not paid for again once it has been answered, unless the operator forces
\* it: the cache is read and filled under one lock (assess_document, screen_competitions,
\* triage_documents).
PaidOnce ==
  \A m, n \in Runs :
    /\ ledger[m] # NoRun /\ ledger[n] # NoRun
    /\ ledger[m].status = "completed" /\ ledger[n].status = "completed"
    /\ ledger[m].key = ledger[n].key
    /\ ~ledger[m].forced /\ ~ledger[n].forced
    => m = n
=============================================================================
