--------------------------- MODULE GeocodeClient ---------------------------
(***************************************************************************)
(* One geocoding provider as the preview generator uses it: a persistent    *)
(* cache in front of a rate-limited JSON client.  Lookups of one key share  *)
(* one load; loads go through a serial queue; the client keeps an interval  *)
(* between requests, honours Retry-After, retries a bounded number of times *)
(* and spends from the record's budget; only what a body says is cached,    *)
(* and the cache file is replaced whole by debounced writes.                *)
(***************************************************************************)
EXTENDS Integers, Sequences, FiniteSets, SequencesExt

CONSTANTS
  Callers,        \* concurrent lookups
  Keys,           \* provider:query
  CodedInBody,    \* the keys of Baidu and Amap, whose refusals come with status 200
  Place,          \* an accepted coordinate
  Nothing,        \* a definitive "nothing acceptable"
  MaxRetries, MinInterval, MaxRetryAfter,
  RetryAfters,    \* bound: the values of Retry-After
  MaxRequests,    \* budget: requests of one record
  TotalTime,      \* budget: time of one record; also the bound of the clock
  ClientFaultBound, \* bound: failed writes and kills
  MaxLookups,     \* bound: lookups started
  NotCached, NoKey

Times == 0 .. TotalTime
CachedEntry == [place : {Place, Nothing}, old : BOOLEAN]
CacheMap == [Keys -> CachedEntry \cup {NotCached}]

ASSUME ClientAssumption ==
  /\ MaxRetries \in Nat /\ MinInterval \in Nat /\ MaxRetryAfter \in Nat
  /\ RetryAfters \subseteq Nat /\ MaxRequests \in Nat /\ TotalTime \in Nat
  /\ ClientFaultBound \in Nat /\ MaxLookups \in Nat
  /\ CodedInBody \subseteq Keys
  /\ Place # Nothing /\ "failed" \notin {Place, Nothing} /\ NotCached \notin CachedEntry /\ NoKey \notin Keys

VARIABLES
  entries,   \* GeocodeCache.entries
  saved,     \* the cache file
  dirty, timer,
  issued, finished,   \* writes chained on `writing`, and those that have ended
  write,     \* the write under way
  flusher,   \* a caller of flush
  caller,    \* per lookup
  queue,     \* SerialQueue: keys whose load waits for its turn
  client,    \* the load under way
  now, lastStartedAt, blockedUntil,
  made,      \* requests spent from the budget
  answered,  \* external: what the provider has said of a key, "nothing" or, in a body, "refusal"
  clientFaults, lookups

cacheVars == <<entries, saved, dirty, timer, issued, finished, write, flusher>>
loadVars == <<queue, client, lastStartedAt, blockedUntil, made, answered>>
clientVars == <<cacheVars, loadVars, caller, now, clientFaults, lookups>>

NoWrite == [phase |-> "none", payload |-> [k \in Keys |-> NotCached]]
NoFlush == [pc |-> "idle", upTo |-> 0, owed |-> {}, failed |-> FALSE]
NoLoad == [pc |-> "idle", key |-> NoKey, attempt |-> 0, wakeAt |-> 0]
NotAsking == [pc |-> "idle", key |-> NoKey, result |-> Nothing]

-----------------------------------------------------------------------------
(* cachedLookup and dedupe *)

Larger(a, b) == IF a > b THEN a ELSE b

Inflight(k) == \E c \in Callers : caller[c].pc = "waiting" /\ caller[c].key = k

\* An entry past its time to live is deleted by the lookup that finds it.
Fresh(e) == e # NotCached /\ ~e.old

Lookup(c, k) ==
  /\ caller[c].pc = "idle" /\ lookups < MaxLookups
  /\ lookups' = lookups + 1
  /\ IF Fresh(entries[k])
     THEN /\ caller' = [caller EXCEPT ![c] = [pc |-> "answered", key |-> k, result |-> entries[k].place]]
          /\ UNCHANGED <<entries, queue>>
     ELSE /\ entries' = [entries EXCEPT ![k] = NotCached]
          /\ caller' = [caller EXCEPT ![c] = [pc |-> "waiting", key |-> k, result |-> Nothing]]
          /\ queue' = IF Inflight(k) THEN queue ELSE Append(queue, k)
  /\ UNCHANGED <<saved, dirty, timer, issued, finished, write, flusher, client, now,
                 lastStartedAt, blockedUntil, made, answered, clientFaults>>

Hear(c) ==
  /\ caller[c].pc = "answered"
  /\ caller' = [caller EXCEPT ![c] = NotAsking]
  /\ UNCHANGED <<cacheVars, loadVars, now, clientFaults, lookups>>

-----------------------------------------------------------------------------
(* attemptLoop: one load at a time *)

Remaining == TotalTime - now

\* Slip: the interval is kept, the pause is not.
WaitInterval == Larger(0, lastStartedAt + MinInterval - now)

Wait == Larger(0, Larger(lastStartedAt + MinInterval - now, blockedUntil - now))

\* Every lookup that shares the load gets its outcome; a place or an answered "nothing" is stored.
Settle(k, outcome) ==
  /\ caller' = [c \in Callers |->
       IF caller[c].pc = "waiting" /\ caller[c].key = k
       THEN [pc |-> "answered", key |-> k, result |-> IF outcome = Place THEN Place ELSE Nothing]
       ELSE caller[c]]
  /\ client' = NoLoad

\* Slip: a refusal is remembered like an answer.
KeptAlways(k, outcome) ==
  /\ entries' = [entries EXCEPT ![k] = [place |-> IF outcome = Place THEN Place ELSE Nothing, old |-> FALSE]]
  /\ dirty' = TRUE /\ timer' = TRUE

Kept(k, outcome) ==
  IF outcome \in {Place, Nothing}
  THEN /\ entries' = [entries EXCEPT ![k] = [place |-> outcome, old |-> FALSE]]
       /\ dirty' = TRUE /\ timer' = TRUE
  ELSE UNCHANGED <<entries, dirty, timer>>

Fail(k) == Settle(k, "failed") /\ Kept(k, "failed")

StartLoad ==
  /\ client.pc = "idle" /\ queue # <<>>
  /\ client' = [NoLoad EXCEPT !.pc = "gate", !.key = Head(queue)]
  /\ queue' = Tail(queue)
  /\ UNCHANGED <<cacheVars, caller, now, lastStartedAt, blockedUntil, made, answered, clientFaults, lookups>>

\* A wait beyond what is allowed, or beyond the record's time, gives up at once.
Gate ==
  /\ client.pc = "gate"
  /\ IF Wait > MaxRetryAfter \/ Wait > Remaining
     THEN Fail(client.key)
     ELSE /\ client' = [client EXCEPT !.pc = "sleeping", !.wakeAt = now + Wait]
          /\ UNCHANGED <<caller, entries, dirty, timer>>
  /\ UNCHANGED <<saved, issued, finished, write, flusher, queue, now, lastStartedAt,
                 blockedUntil, made, answered, clientFaults, lookups>>

\* The sleep is over, early never, late possibly.
Request ==
  /\ client.pc = "sleeping" /\ now >= client.wakeAt
  /\ IF made >= MaxRequests \/ Remaining <= 0
     THEN Fail(client.key) /\ UNCHANGED <<made, lastStartedAt>>
     ELSE /\ made' = made + 1
          /\ lastStartedAt' = now
          /\ client' = [client EXCEPT !.pc = "requesting"]
          /\ UNCHANGED <<caller, entries, dirty, timer>>
  /\ UNCHANGED <<saved, issued, finished, write, flusher, queue, now, blockedUntil,
                 answered, clientFaults, lookups>>

\* A response that is not an answer: network error, timeout, non-2xx, oversized or invalid body.
Unanswered ==
  /\ client.pc = "requesting"
  /\ Fail(client.key)
  /\ UNCHANGED <<saved, issued, finished, write, flusher, queue, now, lastStartedAt,
                 blockedUntil, made, answered, clientFaults, lookups>>

\* Slip: one retry too many.
MayRetryOnceMore(after) == client.attempt <= MaxRetries /\ after <= MaxRetryAfter

MayRetry(after) == client.attempt < MaxRetries /\ after <= MaxRetryAfter

\* 429 and 503.
Refused(after) ==
  /\ client.pc = "requesting"
  /\ blockedUntil' = now + after
  /\ IF MayRetry(after)
     THEN /\ client' = [client EXCEPT !.pc = "gate", !.attempt = @ + 1]
          /\ UNCHANGED <<caller, entries, dirty, timer>>
     ELSE Fail(client.key)
  /\ UNCHANGED <<saved, issued, finished, write, flusher, queue, now, lastStartedAt, made,
                 answered, clientFaults, lookups>>

\* A body of a 2xx response is decoded to a place or to "nothing".
Decoded(outcome, said) ==
  /\ client.pc = "requesting"
  /\ Settle(client.key, outcome) /\ Kept(client.key, outcome)
  /\ answered' = IF outcome = Nothing THEN answered \cup {<<client.key, said>>} ELSE answered
  /\ UNCHANGED <<saved, issued, finished, write, flusher, queue, now, lastStartedAt,
                 blockedUntil, made, clientFaults, lookups>>

Answered(outcome) == Decoded(outcome, "nothing")

\* An exhausted quota or a rejected key, told by a status in a body with HTTP 200, is decoded
\* like a query without a result.
RefusedInBody == client.key \in CodedInBody /\ Decoded(Nothing, "refusal")

ClockAdvances ==
  /\ now < TotalTime
  /\ now' = now + 1
  /\ UNCHANGED <<cacheVars, loadVars, caller, clientFaults, lookups>>

-----------------------------------------------------------------------------
(* scheduleFlush, flush and write *)

TimerFires ==
  /\ timer
  /\ timer' = FALSE /\ issued' = issued + 1
  /\ UNCHANGED <<entries, saved, dirty, finished, write, flusher, loadVars, caller, now, clientFaults, lookups>>

\* runPrewarm flushes at every checkpoint; owed are the keys it relies on.
Flush ==
  /\ flusher.pc = "idle" /\ (dirty \/ issued > finished)
  /\ timer' = FALSE
  /\ issued' = IF dirty THEN issued + 1 ELSE issued
  /\ flusher' = [pc |-> "waiting", upTo |-> issued', failed |-> FALSE,
                 owed |-> {k \in Keys : Fresh(entries[k])}]
  /\ UNCHANGED <<entries, saved, dirty, finished, write, loadVars, caller, now, clientFaults, lookups>>

FlushReturns ==
  /\ flusher.pc = "waiting" /\ finished >= flusher.upTo
  /\ flusher' = NoFlush
  /\ UNCHANGED <<entries, saved, dirty, timer, issued, finished, write, loadVars, caller, now, clientFaults, lookups>>

\* A chained write that finds nothing dirty ends at once.
BeginWrite ==
  /\ write = NoWrite /\ finished < issued
  /\ IF dirty
     THEN dirty' = FALSE /\ write' = [NoWrite EXCEPT !.phase = "mkdir"] /\ UNCHANGED finished
     ELSE finished' = finished + 1 /\ UNCHANGED <<dirty, write>>
  /\ UNCHANGED <<entries, saved, timer, issued, flusher, loadVars, caller, now, clientFaults, lookups>>

\* The payload is taken after the directory is there.
Serialise ==
  /\ write.phase = "mkdir"
  /\ write' = [phase |-> "renaming", payload |-> entries]
  /\ UNCHANGED <<entries, saved, dirty, timer, issued, finished, flusher, loadVars, caller, now, clientFaults, lookups>>

\* Slip: the write under way claims the entries stored since its payload was taken.
RenameClears ==
  /\ write.phase = "renaming"
  /\ saved' = write.payload
  /\ write' = NoWrite /\ finished' = finished + 1 /\ dirty' = FALSE
  /\ UNCHANGED <<entries, timer, issued, flusher, loadVars, caller, now, clientFaults, lookups>>

Rename ==
  /\ write.phase = "renaming"
  /\ saved' = write.payload
  /\ write' = NoWrite /\ finished' = finished + 1
  /\ UNCHANGED <<entries, dirty, timer, issued, flusher, loadVars, caller, now, clientFaults, lookups>>

WriteFails ==
  /\ write.phase # "none"
  /\ clientFaults < ClientFaultBound /\ clientFaults' = clientFaults + 1
  /\ dirty' = TRUE
  /\ write' = NoWrite /\ finished' = finished + 1
  /\ flusher' = [flusher EXCEPT !.failed = TRUE]
  /\ UNCHANGED <<entries, saved, timer, issued, loadVars, caller, now, lookups>>

\* The run is killed; the next one loads the file.
Kill ==
  /\ clientFaults < ClientFaultBound /\ clientFaults' = clientFaults + 1
  /\ entries' = saved
  /\ dirty' = FALSE /\ timer' = FALSE /\ issued' = 0 /\ finished' = 0
  /\ write' = NoWrite /\ flusher' = NoFlush
  /\ caller' = [c \in Callers |-> NotAsking]
  /\ queue' = <<>> /\ client' = NoLoad
  /\ lastStartedAt' = -MinInterval /\ blockedUntil' = 0 /\ made' = 0 /\ now' = 0
  /\ UNCHANGED <<saved, answered, lookups>>

-----------------------------------------------------------------------------

ClientInit ==
  /\ saved \in [Keys -> {NotCached} \cup [place : {Nothing}, old : {TRUE}]]
  /\ entries = saved
  /\ dirty = FALSE /\ timer = FALSE /\ issued = 0 /\ finished = 0
  /\ write = NoWrite /\ flusher = NoFlush
  /\ caller = [c \in Callers |-> NotAsking]
  /\ queue = <<>> /\ client = NoLoad
  /\ now = 0 /\ lastStartedAt = -MinInterval /\ blockedUntil = 0 /\ made = 0
  /\ answered = {<<k, "nothing">> : k \in {x \in Keys : saved[x] # NotCached}}
  /\ clientFaults = 0 /\ lookups = 0

LoadStep == StartLoad \/ Gate \/ Request
Response == Unanswered \/ (\E a \in RetryAfters : Refused(a)) \/ (\E o \in {Place, Nothing} : Answered(o))
  \/ RefusedInBody
WriteStep == BeginWrite \/ Serialise \/ Rename \/ WriteFails

ClientNext ==
  \/ \E c \in Callers, k \in Keys : Lookup(c, k)
  \/ \E c \in Callers : Hear(c)
  \/ LoadStep \/ Response \/ ClockAdvances
  \/ TimerFires \/ Flush \/ FlushReturns \/ WriteStep
  \/ Kill

ClientSpec == ClientInit /\ [][ClientNext]_clientVars

-----------------------------------------------------------------------------

ClientTypeOK ==
  /\ entries \in CacheMap /\ saved \in CacheMap
  /\ dirty \in BOOLEAN /\ timer \in BOOLEAN /\ issued \in Nat /\ finished \in 0 .. issued
  /\ caller \in [Callers -> [pc : {"idle", "waiting", "answered"}, key : Keys \cup {NoKey},
                             result : {Place, Nothing}]]
  /\ queue \in Seq(Keys)
  /\ client.pc \in {"idle", "gate", "sleeping", "requesting"}
  /\ client.attempt \in 0 .. MaxRetries
  /\ now \in Times /\ made \in 0 .. MaxRequests /\ answered \subseteq Keys \X {"nothing", "refusal"}

\* A negative entry, in memory or on disk, comes from a body of the provider: a refusal told by
\* the HTTP status, a timeout, a refused budget or a dead line never becomes one (lookup.ts).  The
\* one refusal that does is a status in a body with HTTP 200, and only Baidu and Amap refuse so
\* (providers.ts:180-185, 225-233), although cache.ts:3-5 counts every rate limit out.
NegativeMeansAnswered ==
  \A k \in Keys : \A e \in {entries[k], saved[k]} :
    e # NotCached /\ e.place = Nothing =>
      <<k, "nothing">> \in answered \/ (k \in CodedInBody /\ <<k, "refusal">> \in answered)

\* Requests of a provider start at least the interval apart, and none starts before the time a
\* 429 or 503 has asked to wait for, whoever the concurrent callers are.
Polite ==
  [][made' > made =>
       /\ now >= lastStartedAt + MinInterval
       /\ now >= blockedUntil]_clientVars

\* When flush returns, what was cached when it was called is in the file, unless a write failed.
FlushedMeansSaved ==
  [][flusher.pc = "waiting" /\ flusher' = NoFlush /\ clientFaults' = clientFaults /\ ~flusher.failed =>
       \A k \in flusher.owed : saved[k] = entries[k]]_clientVars
=============================================================================
