----------------------------- MODULE SiteClient -----------------------------
(***************************************************************************)
(* The HTTP client of the worker: threads that fetch from public sites      *)
(* share one client.  Every hop of a request is checked and waits for its    *)
(* slot at the host; redirects are followed by hand; a GET that fails for    *)
(* a while is tried again after a delay, a POST never.                       *)
(***************************************************************************)
EXTENDS Integers, FiniteSets

CONSTANTS
  Fetchers,             \* threads
  Sites,                \* hosts
  IntervalOf,           \* [Sites -> seconds between requests, 0 without a policy]
  MaxAttempts, MaxHops, \* max_attempts, max_redirects
  BackoffBase, BackoffMax,
  SiteHints,            \* bound: values of Retry-After
  SiteClock,            \* bound: the clock
  MaxFetches,           \* bound: requests begun
  NoHint, NoSlot

ASSUME SiteAssumption ==
  /\ IntervalOf \in [Sites -> Nat] /\ MaxAttempts \in Nat \ {0} /\ MaxHops \in Nat
  /\ BackoffBase \in Nat /\ BackoffMax \in Nat /\ SiteHints \subseteq Nat
  /\ SiteClock \in Nat /\ MaxFetches \in Nat /\ IsFiniteSet(Fetchers)
  /\ NoHint \notin Nat /\ NoSlot \notin Nat

VARIABLES
  monotonic,   \* the clock
  lastStart,   \* HostRateLimiter._last_start
  fetch,       \* per thread: the request under way
  begun,
  firstSlot,   \* history: per site, the slot of its first request
  started      \* history: per site, requests started

siteVars == <<monotonic, lastStart, fetch, begun, firstSlot, started>>
pacing == <<lastStart, firstSlot>>

Seconds == 0 .. SiteClock

\* asked, home: method and host of the caller; the others are those of the present hop.
NoFetch == [pc |-> "idle"]
FirstTry(method, home, attempt) ==
  [pc |-> "check", asked |-> method, home |-> home, attempt |-> attempt, method |-> method,
   host |-> home, hop |-> 0, credentials |-> TRUE, wake |-> 0]

AttemptsOf(method) == IF method = "GET" THEN MaxAttempts ELSE 1

Least(a, b) == IF a < b THEN a ELSE b
Latest(a, b) == IF a > b THEN a ELSE b

\* Without the jitter, which only makes sleepers later.
RetryDelay(attempt, hint) ==
  Least(BackoffMax, IF hint = NoHint THEN BackoffBase * 2 ^ (attempt - 1) ELSE hint)

Fetching(t, pc) == fetch[t].pc = pc
FetchBecomes(t, r) == fetch' = [fetch EXCEPT ![t] = r]

\* The answer or the error reaches the caller.
FinishFetch(t) == FetchBecomes(t, NoFetch)

\* A failure that may pass.
FailForNow(t, hint) ==
  IF fetch[t].attempt >= AttemptsOf(fetch[t].asked) THEN FinishFetch(t)
  ELSE FetchBecomes(t, [fetch[t] EXCEPT !.pc = "backoff",
                                   !.wake = monotonic + RetryDelay(fetch[t].attempt, hint)])

-----------------------------------------------------------------------------

BeginFetch(t, method, home) ==
  /\ Fetching(t, "idle") /\ begun < MaxFetches /\ begun' = begun + 1
  /\ FetchBecomes(t, FirstTry(method, home, 1))
  /\ UNCHANGED <<monotonic, pacing, started>>

\* validate_url: the name resolves to public addresses, or to others, or not at all.
ValidateUrl(t) ==
  /\ Fetching(t, "check")
  /\ \/ FetchBecomes(t, [fetch[t] EXCEPT !.pc = "pace"])
     \/ FinishFetch(t)
     \/ FailForNow(t, NoHint)
  /\ UNCHANGED <<monotonic, pacing, begun, started>>

\* Slip: what is remembered is the time of the reservation.
WaitForSlotFromNow(t) ==
  LET host == fetch[t].host
      start == IF lastStart[host] = NoSlot THEN monotonic
               ELSE Latest(monotonic, lastStart[host] + IntervalOf[host])
  IN
  /\ Fetching(t, "pace")
  /\ lastStart' = [lastStart EXCEPT ![host] = IF IntervalOf[host] = 0 THEN @ ELSE monotonic]
  /\ firstSlot' = [firstSlot EXCEPT ![host] = IF @ = NoSlot THEN start ELSE @]
  /\ FetchBecomes(t, [fetch[t] EXCEPT !.pc = "wait", !.wake = start])
  /\ UNCHANGED <<monotonic, begun, started>>

\* The slot is reserved under the lock and slept for outside it; a host without an interval is
\* never waited for.
WaitForSlot(t) ==
  LET host == fetch[t].host
      start == IF lastStart[host] = NoSlot THEN monotonic
               ELSE Latest(monotonic, lastStart[host] + IntervalOf[host])
  IN
  /\ Fetching(t, "pace")
  /\ lastStart' = [lastStart EXCEPT ![host] = IF IntervalOf[host] = 0 THEN @ ELSE start]
  /\ firstSlot' = [firstSlot EXCEPT ![host] = IF @ = NoSlot THEN start ELSE @]
  /\ FetchBecomes(t, [fetch[t] EXCEPT !.pc = "wait", !.wake = start])
  /\ UNCHANGED <<monotonic, begun, started>>

\* A sleeper wakes at its time or later.
SendFetch(t) ==
  /\ Fetching(t, "wait") /\ monotonic >= fetch[t].wake
  /\ FetchBecomes(t, [fetch[t] EXCEPT !.pc = "sent", !.wake = 0])
  /\ started' = [started EXCEPT ![fetch[t].host] = @ + 1]
  /\ UNCHANGED <<monotonic, pacing, begun>>

\* 2xx, read to its end or found too large; another final status; an error that will not pass.
SettleFetch(t) ==
  /\ Fetching(t, "sent") /\ FinishFetch(t)
  /\ UNCHANGED <<monotonic, pacing, begun, started>>

\* RETRY_STATUSES with the Retry-After they carry; a lost connection carries none.
FailFetch(t, hint) ==
  /\ Fetching(t, "sent") /\ FailForNow(t, hint)
  /\ UNCHANGED <<monotonic, pacing, begun, started>>

\* 301, 302 and 303 turn a POST into a GET, 307 and 308 repeat the request; another host gets
\* no credentials, and neither does any later one.
FollowRedirect(t, to, keeps) ==
  /\ Fetching(t, "sent")
  /\ IF fetch[t].hop >= MaxHops THEN FinishFetch(t)
     ELSE FetchBecomes(t, [fetch[t] EXCEPT !.pc = "check", !.host = to, !.hop = @ + 1,
            !.method = IF keeps THEN @ ELSE "GET",
            !.credentials = @ /\ to = fetch[t].host])
  /\ UNCHANGED <<monotonic, pacing, begun, started>>

\* The next attempt starts over, with the URL and headers of the caller.
RetryFetch(t) ==
  /\ Fetching(t, "backoff") /\ monotonic >= fetch[t].wake
  /\ FetchBecomes(t, FirstTry(fetch[t].asked, fetch[t].home, fetch[t].attempt + 1))
  /\ UNCHANGED <<monotonic, pacing, begun, started>>

SecondPasses ==
  /\ monotonic < SiteClock /\ monotonic' = monotonic + 1
  /\ UNCHANGED <<pacing, fetch, begun, started>>

-----------------------------------------------------------------------------

SiteInit ==
  /\ monotonic = 0 /\ begun = 0
  /\ lastStart = [h \in Sites |-> NoSlot] /\ firstSlot = lastStart
  /\ fetch = [t \in Fetchers |-> NoFetch]
  /\ started = [h \in Sites |-> 0]

SiteNext ==
  \/ \E t \in Fetchers :
       \/ \E method \in {"GET", "POST"}, home \in Sites : BeginFetch(t, method, home)
       \/ ValidateUrl(t) \/ WaitForSlot(t) \/ SendFetch(t) \/ SettleFetch(t) \/ RetryFetch(t)
       \/ \E hint \in SiteHints \cup {NoHint} : FailFetch(t, hint)
       \/ \E to \in Sites, keeps \in BOOLEAN : FollowRedirect(t, to, keeps)
  \/ SecondPasses

SiteSpec == SiteInit /\ [][SiteNext]_siteVars

-----------------------------------------------------------------------------

SiteTypeOK ==
  /\ monotonic \in Seconds /\ begun \in 0 .. MaxFetches
  /\ DOMAIN lastStart = Sites /\ DOMAIN firstSlot = Sites /\ started \in [Sites -> Nat]
  /\ \A t \in Fetchers : fetch[t] # NoFetch =>
       /\ fetch[t].attempt \in 1 .. AttemptsOf(fetch[t].asked) /\ fetch[t].hop \in 0 .. MaxHops
       /\ fetch[t].credentials => fetch[t].host = fetch[t].home

\* Counted from its first one, a host never gets more requests than its interval allows, whichever
\* threads send them, first attempts, further hops and retries alike, and however late a thread
\* wakes up after its slot (HostRateLimiter).
SitesPaced ==
  \A h \in Sites : started[h] > 0 =>
    monotonic - firstSlot[h] >= (started[h] - 1) * IntervalOf[h]
=============================================================================
