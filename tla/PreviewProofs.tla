---------------------------- MODULE PreviewProofs ----------------------------
(*************************************************************************)
(* The parts of the preview generator that PreviewStoreProofs leaves,    *)
(* the worker's client of public sites, and the composition that TLC     *)
(* runs.                                                                 *)
(*                                                                       *)
(* Pacing of public sites (SiteClient): no host is asked more often than *)
(* its interval allows.  SitesPaced speaks of requests already sent; the *)
(* invariant PacingInv counts those that wait as well.  The slots handed *)
(* out follow each other by the interval (HandedOut), and those that     *)
(* would wake by a time x fit between the first slot and x (DuePaced): a *)
(* thread that wakes, however late, leaves the count of waiting threads  *)
(* for that of started ones.                                             *)
(*                                                                       *)
(* The geocoding client (GeocodeClient): ClientInv keeps, for every      *)
(* program point of a lookup, what has been answered, how long the task  *)
(* sleeps and what the file must hold once a flush returns.              *)
(*                                                                       *)
(* The way of a record (PreviewRecord): RecordInv says that the locator  *)
(* is the place of the first located attempt until an image is made, and *)
(* that what is to be tried was seen, one entry per key, and not tried.  *)
(* That no list has a key twice is what de-duplication is for, so it     *)
(* rests on what a fold returns (FoldIn, by a least counterexample), on  *)
(* picking entries of a list (Picked) and on the merge (Deduped).        *)
(*************************************************************************)
EXTENDS MCPreviews, PreviewStoreProofs, WellFoundedInduction, FiniteSetTheorems, TLAPS

Waiting(h) == {t \in Fetchers : Fetching(t, "wait") /\ fetch[t].host = h}
Due(h, x) == {t \in Waiting(h) : fetch[t].wake <= x}

\* A request under way, whatever its time to wake.
Requests(wakes) ==
  [pc : {"check", "pace", "wait", "sent", "backoff"}, asked : {"GET", "POST"}, home : Sites,
   attempt : Nat, method : {"GET", "POST"}, host : Sites, hop : Nat, credentials : BOOLEAN,
   wake : wakes]

RequestShape(r) ==
  r # NoFetch =>
    /\ r \in Requests({r.wake})
    /\ r.pc = "wait" => r.wake \in Nat
    /\ r.pc = "backoff" => r.attempt < AttemptsOf(r.asked)
    /\ r.attempt \in 1 .. AttemptsOf(r.asked) /\ r.hop \in 0 .. MaxHops
    /\ r.credentials => r.host = r.home

SiteShape ==
  /\ monotonic \in Seconds /\ begun \in 0 .. MaxFetches
  /\ lastStart \in [Sites -> Nat \cup {NoSlot}] /\ firstSlot \in [Sites -> Nat \cup {NoSlot}]
  /\ started \in [Sites -> Nat]
  /\ DOMAIN fetch = Fetchers /\ fetch = [t \in Fetchers |-> fetch[t]]
  /\ \A t \in Fetchers : RequestShape(fetch[t])

\* Before the first slot of a host there is nothing; after it, slots are given out in order.
SlotsInOrder(h) ==
  /\ firstSlot[h] = NoSlot => started[h] = 0 /\ Waiting(h) = {} /\ lastStart[h] = NoSlot
  /\ firstSlot[h] # NoSlot => \A t \in Waiting(h) : firstSlot[h] <= fetch[t].wake
  /\ IntervalOf[h] = 0 => lastStart[h] = NoSlot /\ (firstSlot[h] # NoSlot => firstSlot[h] <= monotonic)
  /\ IntervalOf[h] # 0 /\ firstSlot[h] # NoSlot =>
       /\ lastStart[h] # NoSlot /\ firstSlot[h] <= lastStart[h]
       /\ \A t \in Waiting(h) : fetch[t].wake <= lastStart[h]

\* The slots handed out so far fill the time up to the last one at most.
HandedOut(h) ==
  IntervalOf[h] # 0 /\ firstSlot[h] # NoSlot =>
    (started[h] + Cardinality(Waiting(h)) - 1) * IntervalOf[h] <= lastStart[h] - firstSlot[h]

\* By any time from now on no more can have started than the interval allows.
DuePaced(h) ==
  \A x \in Nat : x >= monotonic /\ firstSlot[h] # NoSlot /\ started[h] + Cardinality(Due(h, x)) > 0 =>
    (started[h] + Cardinality(Due(h, x)) - 1) * IntervalOf[h] <= x - firstSlot[h]

PacingInv == SiteShape /\ \A h \in Sites : SlotsInOrder(h) /\ HandedOut(h) /\ DuePaced(h)

-----------------------------------------------------------------------------
(* Arithmetic of intervals *)

\* One more interval.
LEMMA OneMoreInterval ==
  ASSUME NEW n \in Int, NEW i \in Int
  PROVE  (n + 1) * i = n * i + i
OBVIOUS

\* More requests need at least as many intervals.
LEMMA IntervalsMonotone ==
  ASSUME NEW a \in Int, NEW b \in Int, NEW i \in Nat, a <= b
  PROVE  a * i <= b * i
<1>1. (b - a) * i >= 0
  OBVIOUS
<1>2. (b - a) * i = b * i - a * i
  OBVIOUS
<1> QED
  BY <1>1, <1>2

-----------------------------------------------------------------------------
(* Steps that give out no slot and start no request *)

\* The sets of waiting threads are finite and grow with the time looked at.
LEMMA WaitingFinite ==
  ASSUME NEW h \in Sites, NEW x \in Nat
  PROVE  /\ IsFiniteSet(Waiting(h)) /\ Cardinality(Waiting(h)) \in Nat
         /\ IsFiniteSet(Due(h, x)) /\ Cardinality(Due(h, x)) \in Nat
         /\ Cardinality(Due(h, x)) <= Cardinality(Waiting(h))
<1>1. IsFiniteSet(Fetchers)
  BY SiteAssumption
<1>2. Waiting(h) \subseteq Fetchers /\ Due(h, x) \subseteq Waiting(h)
  BY DEF Waiting, Due
<1> QED
  BY <1>1, <1>2, FS_Subset, FS_CardinalityType

\* A host whose slots, waiting threads and starts stay as they are keeps its pace while time passes.
LEMMA HostKeepsPace ==
  ASSUME NEW h \in Sites, SlotsInOrder(h), HandedOut(h), DuePaced(h),
         Waiting(h)' = Waiting(h), \A t \in Waiting(h) : fetch'[t] = fetch[t],
         lastStart'[h] = lastStart[h], firstSlot'[h] = firstSlot[h], started'[h] = started[h],
         monotonic \in Nat, monotonic' \in Nat, monotonic <= monotonic',
         firstSlot[h] \in Nat \cup {NoSlot}
  PROVE  (SlotsInOrder(h) /\ HandedOut(h) /\ DuePaced(h))'
<1>1. \A x : Due(h, x)' = Due(h, x)
  BY DEF Due
<1>2. SlotsInOrder(h)'
  BY DEF SlotsInOrder
<1>3. HandedOut(h)'
  BY DEF HandedOut
<1>4. DuePaced(h)'
  BY <1>1 DEF DuePaced
<1> QED
  BY <1>2, <1>3, <1>4

\* A thread keeps waiting as it was, or keeps not waiting.
NoSlotMoves ==
  /\ UNCHANGED <<monotonic, pacing, started>>
  /\ \A t \in Fetchers : Fetching(t, "wait") \/ Fetching(t, "wait")' => fetch'[t] = fetch[t]

\* So does every host in a step that gives out no slot and starts no request.
LEMMA QuietKeepsPace ==
  ASSUME PacingInv, NoSlotMoves
  PROVE  \A h \in Sites : (SlotsInOrder(h) /\ HandedOut(h) /\ DuePaced(h))'
<1> SUFFICES ASSUME NEW h \in Sites
             PROVE  (SlotsInOrder(h) /\ HandedOut(h) /\ DuePaced(h))'
  OBVIOUS
<1>1. Waiting(h)' = Waiting(h) /\ \A t \in Waiting(h) : fetch'[t] = fetch[t]
  BY DEF NoSlotMoves, Waiting, Fetching
<1>2. UNCHANGED <<monotonic, lastStart, firstSlot, started>>
  BY DEF NoSlotMoves, pacing
<1>3. SlotsInOrder(h) /\ HandedOut(h) /\ DuePaced(h) /\ firstSlot[h] \in Nat \cup {NoSlot}
  BY DEF PacingInv, SiteShape
<1>4. monotonic \in Nat
  BY SiteAssumption DEF PacingInv, SiteShape, Seconds
<1> QED
  BY <1>1, <1>2, <1>3, <1>4, HostKeepsPace

-----------------------------------------------------------------------------
(* The shape of requests *)

\* What a step of one thread leaves behind.
Rewrites(t, r) == FetchBecomes(t, r) /\ RequestShape(r)

\* Replacing one request by another of the right shape keeps the shape of all.
LEMMA RewriteShape ==
  ASSUME SiteShape, NEW t \in Fetchers, NEW r, Rewrites(t, r)
  PROVE  /\ DOMAIN fetch' = Fetchers /\ fetch' = [u \in Fetchers |-> fetch'[u]]
         /\ \A u \in Fetchers : RequestShape(fetch'[u])
         /\ fetch'[t] = r /\ \A u \in Fetchers \ {t} : fetch'[u] = fetch[u]
<1>1. fetch' = [fetch EXCEPT ![t] = r] /\ RequestShape(r)
  BY DEF Rewrites, FetchBecomes
<1>2. DOMAIN fetch = Fetchers /\ \A u \in Fetchers : RequestShape(fetch[u])
  BY DEF SiteShape
<1>3. fetch'[t] = r /\ \A u \in Fetchers \ {t} : fetch'[u] = fetch[u]
  BY <1>1, <1>2
<1>4. DOMAIN fetch' = Fetchers /\ fetch' = [u \in Fetchers |-> fetch'[u]]
  BY <1>1, <1>2
<1> QED
  BY <1>1, <1>2, <1>3, <1>4

\* Nothing is asked of a thread without a request.
LEMMA IdleShape == RequestShape(NoFetch)
BY DEF RequestShape

\* A request under way, of a thread that is not idle.
LEMMA BusyShape ==
  ASSUME SiteShape, NEW t \in Fetchers, fetch[t].pc # "idle"
  PROVE  /\ fetch[t] # NoFetch /\ fetch[t] \in Requests({fetch[t].wake})
         /\ fetch[t].attempt \in 1 .. AttemptsOf(fetch[t].asked) /\ fetch[t].hop \in 0 .. MaxHops
         /\ (fetch[t].credentials => fetch[t].host = fetch[t].home)
         /\ (fetch[t].pc = "wait" => fetch[t].wake \in Nat)
         /\ (fetch[t].pc = "backoff" => fetch[t].attempt < AttemptsOf(fetch[t].asked))
BY DEF SiteShape, RequestShape, NoFetch

\* The attempts a method has are positive in number.
LEMMA SomeAttempt ==
  ASSUME NEW method
  PROVE  AttemptsOf(method) \in Nat \ {0}
BY SiteAssumption DEF AttemptsOf

\* A fresh try has the shape.
LEMMA FirstTryShape ==
  ASSUME NEW method \in {"GET", "POST"}, NEW home \in Sites, NEW attempt \in 1 .. AttemptsOf(method)
  PROVE  RequestShape(FirstTry(method, home, attempt)) /\ FirstTry(method, home, attempt).pc = "check"
<1>1. FirstTry(method, home, attempt) \in Requests({0})
  BY SomeAttempt DEF FirstTry, Requests
<1>2. 0 \in 0 .. MaxHops
  BY SiteAssumption
<1> QED
  BY <1>1, <1>2 DEF FirstTry, RequestShape

\* Failing for now ends the request or puts it to sleep, and no slot is involved.
LEMMA FailForNowShape ==
  ASSUME SiteShape, NEW t \in Fetchers, NEW hint, fetch[t].pc \notin {"idle", "wait"}, FailForNow(t, hint)
  PROVE  \E r : Rewrites(t, r) /\ r.pc \in {"idle", "backoff"}
<1>1. CASE fetch[t].attempt >= AttemptsOf(fetch[t].asked)
  <2>1. Rewrites(t, NoFetch)
    BY <1>1, IdleShape DEF FailForNow, FinishFetch, Rewrites
  <2> QED
    BY <2>1 DEF NoFetch
<1>2. CASE ~(fetch[t].attempt >= AttemptsOf(fetch[t].asked))
  <2> DEFINE w == monotonic + RetryDelay(fetch[t].attempt, hint)
             r == [fetch[t] EXCEPT !.pc = "backoff", !.wake = w]
  <2>1. FetchBecomes(t, r)
    BY <1>2 DEF FailForNow
  <2>2. r \in Requests({w}) /\ r.wake = w /\ r.pc = "backoff" /\ r.asked = fetch[t].asked
        /\ r.attempt = fetch[t].attempt /\ r.hop = fetch[t].hop /\ r.credentials = fetch[t].credentials
        /\ r.host = fetch[t].host /\ r.home = fetch[t].home
    <3> HIDE DEF w
    <3> QED
      BY BusyShape DEF Requests
  <2> HIDE DEF r, w
  <2>3. r.attempt < AttemptsOf(r.asked)
    <3>1. fetch[t].attempt \in Int /\ AttemptsOf(fetch[t].asked) \in Int
      <4>1. fetch[t].attempt \in 1 .. AttemptsOf(fetch[t].asked)
        BY BusyShape
      <4> QED
        BY <4>1, SomeAttempt
    <3>2. fetch[t].attempt < AttemptsOf(fetch[t].asked)
      BY <1>2, <3>1
    <3> QED
      BY <2>2, <3>2
  <2>4. RequestShape(r)
    BY <2>2, <2>3, BusyShape DEF RequestShape
  <2> QED
    BY <2>1, <2>2, <2>4 DEF Rewrites
<1> QED
  BY <1>1, <1>2

-----------------------------------------------------------------------------
(* One lemma per step *)

\* A step of a thread that neither leaves nor enters the wait for a slot preserves the invariant.
LEMMA UnpacedKeeps ==
  ASSUME PacingInv, begun' \in 0 .. MaxFetches, UNCHANGED <<monotonic, pacing, started>>,
         NEW t \in Fetchers, NEW r, Rewrites(t, r), fetch[t].pc # "wait", r.pc # "wait"
  PROVE  PacingInv'
<1>1. SiteShape
  BY DEF PacingInv
<1>2. /\ DOMAIN fetch' = Fetchers /\ fetch' = [u \in Fetchers |-> fetch'[u]]
      /\ \A u \in Fetchers : RequestShape(fetch'[u])
      /\ fetch'[t] = r /\ \A u \in Fetchers \ {t} : fetch'[u] = fetch[u]
  BY <1>1, RewriteShape
<1>3. SiteShape'
  <2>1. UNCHANGED <<monotonic, lastStart, firstSlot, started>>
    BY DEF pacing
  <2>2. \A u \in Fetchers : RequestShape(fetch[u])'
    BY <1>2 DEF RequestShape
  <2> QED
    BY <1>1, <1>2, <2>1, <2>2 DEF SiteShape
<1>4. NoSlotMoves
  BY <1>2 DEF NoSlotMoves, Fetching
<1> QED
  BY <1>3, <1>4, QuietKeepsPace DEF PacingInv

\* A request begins.
LEMMA BeginFetchKeeps ==
  ASSUME PacingInv, NEW t \in Fetchers, NEW method \in {"GET", "POST"}, NEW home \in Sites,
         BeginFetch(t, method, home)
  PROVE  PacingInv'
<1>1. 1 \in 1 .. AttemptsOf(method)
  BY SomeAttempt
<1>2. Rewrites(t, FirstTry(method, home, 1)) /\ FirstTry(method, home, 1).pc = "check"
  BY <1>1, FirstTryShape DEF BeginFetch, Rewrites
<1>3. begun' \in 0 .. MaxFetches
  BY SiteAssumption DEF BeginFetch, PacingInv, SiteShape
<1> QED
  BY <1>2, <1>3, UnpacedKeeps DEF BeginFetch, Fetching

\* A thread that ends its request is none of those that wait.
LEMMA FinishKeeps ==
  ASSUME PacingInv, NEW t \in Fetchers, fetch[t].pc # "wait", FinishFetch(t),
         UNCHANGED <<monotonic, pacing, begun, started>>
  PROVE  PacingInv'
<1>1. Rewrites(t, NoFetch) /\ NoFetch.pc # "wait"
  BY IdleShape DEF FinishFetch, Rewrites, NoFetch
<1>2. begun' \in 0 .. MaxFetches
  BY DEF PacingInv, SiteShape
<1> QED
  BY <1>1, <1>2, UnpacedKeeps

\* Neither is one that fails for now.
LEMMA FailForNowKeeps ==
  ASSUME PacingInv, NEW t \in Fetchers, NEW hint, fetch[t].pc \notin {"idle", "wait"},
         FailForNow(t, hint), UNCHANGED <<monotonic, pacing, begun, started>>
  PROVE  PacingInv'
<1>1. PICK r : Rewrites(t, r) /\ r.pc \in {"idle", "backoff"}
  BY FailForNowShape DEF PacingInv
<1>2. begun' \in 0 .. MaxFetches
  BY DEF PacingInv, SiteShape
<1> QED
  BY <1>1, <1>2, UnpacedKeeps

\* A URL is checked.
LEMMA ValidateUrlKeeps ==
  ASSUME PacingInv, NEW t \in Fetchers, ValidateUrl(t)
  PROVE  PacingInv'
<1>1. fetch[t].pc = "check" /\ UNCHANGED <<monotonic, pacing, begun, started>>
  BY DEF ValidateUrl, Fetching
<1>2. CASE FetchBecomes(t, [fetch[t] EXCEPT !.pc = "pace"])
  <2> DEFINE r == [fetch[t] EXCEPT !.pc = "pace"]
  <2>1. r \in Requests({fetch[t].wake}) /\ r.wake = fetch[t].wake /\ r.pc = "pace"
        /\ r.asked = fetch[t].asked /\ r.attempt = fetch[t].attempt /\ r.hop = fetch[t].hop
        /\ r.credentials = fetch[t].credentials /\ r.host = fetch[t].host /\ r.home = fetch[t].home
    BY <1>1, BusyShape DEF PacingInv, Requests
  <2> HIDE DEF r
  <2>2. RequestShape(r)
    BY <1>1, <2>1, BusyShape DEF PacingInv, RequestShape
  <2>3. Rewrites(t, r)
    BY <1>2, <2>2 DEF Rewrites, r
  <2>4. begun' \in 0 .. MaxFetches
    BY <1>1 DEF PacingInv, SiteShape
  <2> QED
    BY <1>1, <2>1, <2>3, <2>4, UnpacedKeeps
<1>3. CASE FinishFetch(t)
  BY <1>1, <1>3, FinishKeeps
<1>4. CASE FailForNow(t, NoHint)
  BY <1>1, <1>4, FailForNowKeeps
<1> QED
  BY <1>2, <1>3, <1>4 DEF ValidateUrl

\* A redirect is followed, or is one too many.
LEMMA FollowRedirectKeeps ==
  ASSUME PacingInv, NEW t \in Fetchers, NEW to \in Sites, NEW keeps \in BOOLEAN,
         FollowRedirect(t, to, keeps)
  PROVE  PacingInv'
<1>1. fetch[t].pc = "sent" /\ UNCHANGED <<monotonic, pacing, begun, started>>
  BY DEF FollowRedirect, Fetching
<1>2. CASE fetch[t].hop >= MaxHops
  BY <1>1, <1>2, FinishKeeps DEF FollowRedirect
<1>3. CASE ~(fetch[t].hop >= MaxHops)
  <2> DEFINE c == fetch[t].credentials /\ to = fetch[t].host
             m == IF keeps THEN fetch[t].method ELSE "GET"
             r == [fetch[t] EXCEPT !.pc = "check", !.host = to, !.hop = fetch[t].hop + 1,
                     !.method = m, !.credentials = c]
  <2>1. fetch[t] \in Requests({fetch[t].wake}) /\ fetch[t].hop \in 0 .. MaxHops
        /\ fetch[t].attempt \in 1 .. AttemptsOf(fetch[t].asked)
        /\ (fetch[t].credentials => fetch[t].host = fetch[t].home)
    BY <1>1, BusyShape DEF PacingInv
  <2>2. c \in BOOLEAN /\ m \in {"GET", "POST"} /\ fetch[t].hop + 1 \in 0 .. MaxHops
    BY <1>3, <2>1, SiteAssumption DEF Requests
  <2>3. FetchBecomes(t, r)
    BY <1>3 DEF FollowRedirect
  <2>4. c => to = fetch[t].home
    BY <2>1
  <2> HIDE DEF c, m
  <2>5. /\ r \in Requests({fetch[t].wake}) /\ r.wake = fetch[t].wake /\ r.pc = "check"
        /\ r.asked = fetch[t].asked /\ r.attempt = fetch[t].attempt /\ r.hop = fetch[t].hop + 1
        /\ r.host = to /\ r.home = fetch[t].home /\ r.credentials = c
    <3>1. r \in Requests({fetch[t].wake})
      <4>1. fetch[t].hop + 1 \in Nat
        BY <2>1, SiteAssumption DEF Requests
      <4> QED
        BY <2>1, <2>2, <4>1 DEF Requests
    <3>2. /\ r.wake = fetch[t].wake /\ r.pc = "check"
          /\ r.asked = fetch[t].asked /\ r.attempt = fetch[t].attempt /\ r.hop = fetch[t].hop + 1
          /\ r.host = to /\ r.home = fetch[t].home
      BY <2>1, SMT DEF Requests
    <3>3. r.credentials = c
      BY <2>1, Zenon DEF Requests
    <3> QED
      BY <3>1, <3>2, <3>3
  <2> HIDE DEF r
  <2>6. r.credentials => r.host = r.home
    BY <2>4, <2>5
  <2>7. Rewrites(t, r)
    BY <2>1, <2>2, <2>3, <2>5, <2>6 DEF Rewrites, RequestShape
  <2>8. begun' \in 0 .. MaxFetches
    BY <1>1 DEF PacingInv, SiteShape
  <2> QED
    BY <1>1, <2>5, <2>7, <2>8, UnpacedKeeps
<1> QED
  BY <1>2, <1>3

\* The next attempt: there was one left when the thread went to sleep.
LEMMA RetryFetchKeeps ==
  ASSUME PacingInv, NEW t \in Fetchers, RetryFetch(t)
  PROVE  PacingInv'
<1>1. fetch[t].pc = "backoff" /\ UNCHANGED <<monotonic, pacing, begun, started>>
  BY DEF RetryFetch, Fetching
<1>2. fetch[t] \in Requests({fetch[t].wake}) /\ fetch[t].attempt \in 1 .. AttemptsOf(fetch[t].asked)
      /\ fetch[t].attempt < AttemptsOf(fetch[t].asked)
  BY <1>1, BusyShape DEF PacingInv
<1>3. fetch[t].asked \in {"GET", "POST"} /\ fetch[t].home \in Sites
      /\ fetch[t].attempt + 1 \in 1 .. AttemptsOf(fetch[t].asked)
  BY <1>2, SomeAttempt DEF Requests
<1> DEFINE r == FirstTry(fetch[t].asked, fetch[t].home, fetch[t].attempt + 1)
<1>4. RequestShape(r) /\ r.pc = "check"
  BY <1>3, FirstTryShape
<1>5. Rewrites(t, r)
  BY <1>4 DEF RetryFetch, Rewrites
<1>6. begun' \in 0 .. MaxFetches
  BY <1>1 DEF PacingInv, SiteShape
<1> HIDE DEF r
<1> QED
  BY <1>1, <1>4, <1>5, <1>6, UnpacedKeeps
\* A final answer, or a failure that may pass.
LEMMA AnswerKeeps ==
  ASSUME PacingInv, NEW t \in Fetchers, NEW hint, SettleFetch(t) \/ FailFetch(t, hint)
  PROVE  PacingInv'
<1>1. fetch[t].pc = "sent" /\ UNCHANGED <<monotonic, pacing, begun, started>>
  BY DEF SettleFetch, FailFetch, Fetching
<1>2. CASE SettleFetch(t)
  BY <1>1, <1>2, FinishKeeps DEF SettleFetch
<1>3. CASE FailFetch(t, hint)
  BY <1>1, <1>3, FailForNowKeeps DEF FailFetch
<1> QED
  BY <1>2, <1>3

\* A second passes: what was due by a later time still is.
LEMMA SecondKeeps ==
  ASSUME PacingInv, SecondPasses
  PROVE  PacingInv'
<1>1. UNCHANGED <<lastStart, firstSlot, fetch, begun, started>> /\ monotonic' = monotonic + 1
      /\ monotonic < SiteClock
  BY DEF SecondPasses, pacing
<1>2. monotonic \in Nat /\ monotonic' \in Seconds
  BY <1>1, SiteAssumption DEF PacingInv, SiteShape, Seconds
<1>3. SiteShape'
  BY <1>1, <1>2 DEF PacingInv, SiteShape, RequestShape
<1>4. ASSUME NEW h \in Sites
      PROVE  (SlotsInOrder(h) /\ HandedOut(h) /\ DuePaced(h))'
  <2>1. SlotsInOrder(h) /\ HandedOut(h) /\ DuePaced(h) /\ firstSlot[h] \in Nat \cup {NoSlot}
    BY DEF PacingInv, SiteShape
  <2>2. Waiting(h)' = Waiting(h)
    BY <1>1 DEF Waiting, Fetching
  <2> QED
    BY <1>1, <1>2, <2>1, <2>2, HostKeepsPace
<1> QED
  BY <1>3, <1>4 DEF PacingInv

\* A request that starts was due: for its host the count of what is due stays.
LEMMA SendKeeps ==
  ASSUME PacingInv, NEW t \in Fetchers, SendFetch(t)
  PROVE  PacingInv'
<1> SUFFICES ASSUME NEW host, host = fetch[t].host
             PROVE  PacingInv'
  OBVIOUS
<1> DEFINE r == [fetch[t] EXCEPT !.pc = "sent", !.wake = 0]
<1>1. /\ fetch[t].pc = "wait" /\ monotonic >= fetch[t].wake /\ FetchBecomes(t, r)
      /\ started' = [started EXCEPT ![host] = started[host] + 1]
      /\ UNCHANGED <<monotonic, lastStart, firstSlot, begun>>
  BY DEF SendFetch, Fetching, pacing
<1>2. SiteShape /\ monotonic \in Nat
  BY SiteAssumption DEF PacingInv, SiteShape, Seconds
<1>3. fetch[t] \in Requests({fetch[t].wake}) /\ fetch[t].wake \in Nat /\ host \in Sites
  BY <1>1, <1>2, BusyShape DEF Requests
<1>4. r.pc = "sent" /\ RequestShape(r)
  <2>1. /\ r \in Requests({0}) /\ r.wake = 0 /\ r.pc = "sent" /\ r.asked = fetch[t].asked
        /\ r.attempt = fetch[t].attempt /\ r.hop = fetch[t].hop /\ r.host = fetch[t].host
        /\ r.home = fetch[t].home /\ r.credentials = fetch[t].credentials
    BY <1>3 DEF Requests
  <2> HIDE DEF r
  <2> QED
    BY <1>1, <1>2, <2>1, BusyShape DEF RequestShape
<1> HIDE DEF r
<1>5. /\ DOMAIN fetch' = Fetchers /\ fetch' = [u \in Fetchers |-> fetch'[u]]
      /\ \A u \in Fetchers : RequestShape(fetch'[u])
      /\ fetch'[t] = r /\ \A u \in Fetchers \ {t} : fetch'[u] = fetch[u]
  BY <1>1, <1>2, <1>4, RewriteShape DEF Rewrites
<1>6. started' \in [Sites -> Nat] /\ started'[host] = started[host] + 1
      /\ \A h \in Sites \ {host} : started'[h] = started[h]
  BY <1>1, <1>2, <1>3 DEF SiteShape
<1>7. SiteShape'
  <2>1. \A u \in Fetchers : RequestShape(fetch[u])'
    BY <1>5 DEF RequestShape
  <2> QED
    BY <1>1, <1>2, <1>5, <1>6, <2>1 DEF SiteShape
<1>8. t \in Waiting(host) /\ Waiting(host)' = Waiting(host) \ {t}
      /\ \A u \in Waiting(host) \ {t} : fetch'[u] = fetch[u]
  BY <1>1, <1>4, <1>5 DEF Waiting, Fetching
<1>9. ASSUME NEW h \in Sites, h # host
      PROVE  (SlotsInOrder(h) /\ HandedOut(h) /\ DuePaced(h))'
  <2>1. SlotsInOrder(h) /\ HandedOut(h) /\ DuePaced(h) /\ firstSlot[h] \in Nat \cup {NoSlot}
    BY DEF PacingInv, SiteShape
  <2>2. Waiting(h)' = Waiting(h) /\ \A u \in Waiting(h) : fetch'[u] = fetch[u]
    BY <1>1, <1>4, <1>5, <1>9 DEF Waiting, Fetching
  <2> QED
    BY <1>1, <1>2, <1>6, <1>9, <2>1, <2>2, HostKeepsPace
<1>10. SlotsInOrder(host) /\ HandedOut(host) /\ DuePaced(host)
       /\ firstSlot[host] \in Nat \cup {NoSlot} /\ started[host] \in Nat
  BY <1>3 DEF PacingInv, SiteShape
<1>11. firstSlot[host] \in Nat /\ firstSlot[host] <= fetch[t].wake
  BY <1>8, <1>10 DEF SlotsInOrder
<1>12. SlotsInOrder(host)'
  BY <1>1, <1>2, <1>3, <1>8, <1>10, <1>11, SiteAssumption DEF SlotsInOrder
<1>13. Cardinality(Waiting(host))' = Cardinality(Waiting(host)) - 1
       /\ Cardinality(Waiting(host)) \in Nat
  BY <1>3, <1>8, WaitingFinite, FS_RemoveElement
<1>14. HandedOut(host)'
  <2>1. (started[host] + 1) + (Cardinality(Waiting(host)) - 1) - 1
          = started[host] + Cardinality(Waiting(host)) - 1
    BY <1>10, <1>13
  <2> QED
    BY <1>1, <1>6, <1>10, <1>13, <2>1 DEF HandedOut
<1>15. DuePaced(host)'
  <2> SUFFICES ASSUME NEW x \in Nat, x >= monotonic,
                      started[host] + 1 + Cardinality(Due(host, x)') > 0
               PROVE  (started[host] + 1 + Cardinality(Due(host, x)') - 1) * IntervalOf[host]
                        <= x - firstSlot[host]
    BY <1>1, <1>6 DEF DuePaced
  <2>1. t \in Due(host, x) /\ Due(host, x)' = Due(host, x) \ {t}
    BY <1>1, <1>2, <1>3, <1>8 DEF Due
  <2>2. Cardinality(Due(host, x)') = Cardinality(Due(host, x)) - 1 /\ Cardinality(Due(host, x)) \in Nat
    <3>1. IsFiniteSet(Due(host, x)) /\ Cardinality(Due(host, x)) \in Nat
      BY <1>3, WaitingFinite
    <3>2. Cardinality(Due(host, x) \ {t}) = Cardinality(Due(host, x)) - 1
      BY <2>1, <3>1, FS_RemoveElement
    <3> QED
      BY <2>1, <3>1, <3>2
  <2>3. started[host] + 1 + Cardinality(Due(host, x)') - 1 = started[host] + Cardinality(Due(host, x)) - 1
        /\ started[host] + Cardinality(Due(host, x)) > 0
    BY <1>10, <2>2
  <2>4. (started[host] + Cardinality(Due(host, x)) - 1) * IntervalOf[host] <= x - firstSlot[host]
    BY <1>10, <1>11, <2>3, SiteAssumption DEF DuePaced
  <2> QED
    BY <2>3, <2>4
<1>16. \A h \in Sites : (SlotsInOrder(h) /\ HandedOut(h) /\ DuePaced(h))'
  BY <1>9, <1>12, <1>14, <1>15
<1> QED
  BY <1>7, <1>16 DEF PacingInv
\* A slot is reserved an interval after the last one, or now.
LEMMA WaitKeeps ==
  ASSUME PacingInv, NEW t \in Fetchers, WaitForSlot(t)
  PROVE  PacingInv'
<1> SUFFICES ASSUME NEW host, host = fetch[t].host
             PROVE  PacingInv'
  OBVIOUS
<1> SUFFICES ASSUME NEW start, NEW first, NEW last,
                    start = IF lastStart[host] = NoSlot THEN monotonic
                            ELSE Latest(monotonic, lastStart[host] + IntervalOf[host]),
                    first = IF firstSlot[host] = NoSlot THEN start ELSE firstSlot[host],
                    last = IF IntervalOf[host] = 0 THEN lastStart[host] ELSE start
             PROVE  PacingInv'
  OBVIOUS
<1> DEFINE r == [fetch[t] EXCEPT !.pc = "wait", !.wake = start]
<1>1. /\ fetch[t].pc = "pace" /\ FetchBecomes(t, r)
      /\ lastStart' = [lastStart EXCEPT ![host] = last]
      /\ firstSlot' = [firstSlot EXCEPT ![host] = first]
      /\ UNCHANGED <<monotonic, started, begun>>
  BY DEF WaitForSlot, Fetching
<1>2. SiteShape /\ monotonic \in Nat
  BY SiteAssumption DEF PacingInv, SiteShape, Seconds
<1>3. fetch[t] \in Requests({fetch[t].wake}) /\ host \in Sites
  BY <1>1, <1>2, BusyShape DEF Requests
<1>4. SlotsInOrder(host) /\ HandedOut(host) /\ DuePaced(host) /\ started[host] \in Nat
      /\ firstSlot[host] \in Nat \cup {NoSlot} /\ lastStart[host] \in Nat \cup {NoSlot}
      /\ IntervalOf[host] \in Nat
  BY <1>3, SiteAssumption DEF PacingInv, SiteShape
<1>5. /\ start \in Nat /\ start >= monotonic
      /\ lastStart[host] # NoSlot => start >= lastStart[host] + IntervalOf[host]
      /\ first \in Nat /\ last \in Nat \cup {NoSlot}
  BY <1>2, <1>4 DEF Latest
<1>6. r.pc = "wait" /\ r.wake = start /\ r.host = host /\ RequestShape(r)
  <2>1. /\ r \in Requests({start}) /\ r.wake = start /\ r.pc = "wait" /\ r.asked = fetch[t].asked
        /\ r.attempt = fetch[t].attempt /\ r.hop = fetch[t].hop /\ r.host = fetch[t].host
        /\ r.home = fetch[t].home /\ r.credentials = fetch[t].credentials
    BY <1>3 DEF Requests
  <2> HIDE DEF r
  <2> QED
    BY <1>1, <1>2, <1>5, <2>1, BusyShape DEF RequestShape
<1> HIDE DEF r
<1>7. /\ DOMAIN fetch' = Fetchers /\ fetch' = [u \in Fetchers |-> fetch'[u]]
      /\ \A u \in Fetchers : RequestShape(fetch'[u])
      /\ fetch'[t] = r /\ \A u \in Fetchers \ {t} : fetch'[u] = fetch[u]
  BY <1>1, <1>2, <1>6, RewriteShape DEF Rewrites
<1>8. /\ lastStart' \in [Sites -> Nat \cup {NoSlot}] /\ lastStart'[host] = last
      /\ firstSlot' \in [Sites -> Nat \cup {NoSlot}] /\ firstSlot'[host] = first
      /\ \A h \in Sites \ {host} : lastStart'[h] = lastStart[h] /\ firstSlot'[h] = firstSlot[h]
  BY <1>1, <1>2, <1>3, <1>5 DEF SiteShape
<1>9. SiteShape'
  <2>1. \A u \in Fetchers : RequestShape(fetch[u])'
    BY <1>7 DEF RequestShape
  <2> QED
    BY <1>1, <1>2, <1>7, <1>8, <2>1 DEF SiteShape
<1>10. t \notin Waiting(host) /\ Waiting(host)' = Waiting(host) \cup {t}
       /\ \A u \in Waiting(host) : u # t /\ fetch'[u] = fetch[u] /\ fetch[u].wake \in Nat
  <2>1. t \notin Waiting(host) /\ Waiting(host)' = Waiting(host) \cup {t}
    BY <1>1, <1>3, <1>6, <1>7 DEF Waiting, Fetching
  <2>2. ASSUME NEW u \in Waiting(host)
        PROVE  u # t /\ fetch'[u] = fetch[u] /\ fetch[u].wake \in Nat
    <3>1. u \in Fetchers /\ fetch[u].pc = "wait"
      BY DEF Waiting, Fetching
    <3> QED
      BY <1>2, <1>7, <2>1, <3>1, BusyShape
  <2> QED
    BY <2>1, <2>2
<1>11. ASSUME NEW h \in Sites, h # host
       PROVE  (SlotsInOrder(h) /\ HandedOut(h) /\ DuePaced(h))'
  <2>1. SlotsInOrder(h) /\ HandedOut(h) /\ DuePaced(h) /\ firstSlot[h] \in Nat \cup {NoSlot}
    BY DEF PacingInv, SiteShape
  <2>2. Waiting(h)' = Waiting(h) /\ \A u \in Waiting(h) : fetch'[u] = fetch[u]
    BY <1>1, <1>6, <1>7, <1>11 DEF Waiting, Fetching
  <2> QED
    BY <1>1, <1>2, <1>8, <1>11, <2>1, <2>2, HostKeepsPace
<1>12. first <= start
  <2>1. CASE firstSlot[host] = NoSlot
    BY <1>5, <2>1
  <2>2. CASE firstSlot[host] # NoSlot /\ IntervalOf[host] = 0
    BY <1>2, <1>4, <1>5, <2>2, SiteAssumption DEF SlotsInOrder
  <2>3. CASE firstSlot[host] # NoSlot /\ IntervalOf[host] # 0
    <3>1. firstSlot[host] <= lastStart[host] /\ lastStart[host] \in Nat /\ firstSlot[host] \in Nat
      BY <1>4, <2>3 DEF SlotsInOrder
    <3>2. start >= lastStart[host] + IntervalOf[host]
      BY <1>5, <3>1, SiteAssumption
    <3> QED
      BY <1>4, <1>5, <2>3, <3>1, <3>2
  <2> QED
    BY <2>1, <2>2, <2>3
<1>13. SlotsInOrder(host)'
  <2>1. \A u \in Waiting(host)' : first <= fetch'[u].wake
    BY <1>4, <1>5, <1>6, <1>7, <1>10, <1>12 DEF SlotsInOrder
  <2>2. IntervalOf[host] = 0 => last = NoSlot /\ start = monotonic
    BY <1>4 DEF SlotsInOrder
  <2>3. IntervalOf[host] = 0 => last = NoSlot /\ first <= monotonic
    BY <1>12, <2>2
  <2>4. IntervalOf[host] # 0 => last # NoSlot /\ first <= last /\ \A u \in Waiting(host)' : fetch'[u].wake <= last
    <3> SUFFICES ASSUME IntervalOf[host] # 0, NEW u \in Waiting(host)'
                 PROVE  fetch'[u].wake <= start
      BY <1>5, <1>12, SiteAssumption
    <3>1. CASE u = t
      BY <1>5, <1>6, <1>7, <3>1
    <3>2. CASE u # t
      <4>1. u \in Waiting(host) /\ fetch'[u] = fetch[u] /\ fetch[u].wake \in Nat
        BY <1>10, <3>2
      <4>2. lastStart[host] \in Nat /\ fetch[u].wake <= lastStart[host]
        BY <1>4, <4>1 DEF SlotsInOrder
      <4>3. start >= lastStart[host] + IntervalOf[host]
        BY <1>5, <4>2, SiteAssumption
      <4> QED
        BY <1>4, <1>5, <4>1, <4>2, <4>3
    <3> QED
      BY <3>1, <3>2
  <2> QED
    BY <1>1, <1>5, <1>8, <2>1, <2>3, <2>4, SiteAssumption DEF SlotsInOrder
<1> DEFINE n == started[host] + Cardinality(Waiting(host))
<1>14. Cardinality(Waiting(host)) \in Nat /\ IsFiniteSet(Waiting(host))
  BY <1>2, <1>3, WaitingFinite
<1>15. Cardinality(Waiting(host)') = Cardinality(Waiting(host)) + 1
  BY <1>10, <1>14, FS_AddElement
<1>16. n \in Nat /\ n * IntervalOf[host] <= start - first
  <2>1. n \in Nat
    BY <1>4, <1>14
  <2>2. CASE firstSlot[host] = NoSlot
    <3>1. Cardinality(Waiting(host)) = 0
      BY <1>4, <2>2, FS_EmptySet DEF SlotsInOrder
    <3>2. n = 0 /\ first = start
      BY <1>4, <2>2, <3>1 DEF SlotsInOrder
    <3> QED
      BY <1>4, <1>5, <3>2
  <2>3. CASE firstSlot[host] # NoSlot /\ IntervalOf[host] = 0
    BY <1>5, <1>12, <2>1, <2>3
  <2>4. CASE firstSlot[host] # NoSlot /\ IntervalOf[host] # 0
    <3>1. lastStart[host] \in Nat /\ first = firstSlot[host]
      BY <1>4, <2>4 DEF SlotsInOrder
    <3>2. (started[host] + Cardinality(Waiting(host)) - 1) * IntervalOf[host] <= lastStart[host] - firstSlot[host]
      BY <1>4, <2>4, Zenon DEF HandedOut
    <3>3. n - 1 = started[host] + Cardinality(Waiting(host)) - 1
      BY <1>4, <1>14
    <3> HIDE DEF n
    <3>4. (n - 1) * IntervalOf[host] <= lastStart[host] - first
      BY <3>1, <3>2, <3>3, Zenon
    <3>5. n * IntervalOf[host] = (n - 1) * IntervalOf[host] + IntervalOf[host]
      <4> DEFINE m == n - 1
                 interval == IntervalOf[host]
      <4>1. m + 1 = n /\ m \in Int /\ interval \in Int
        BY <1>4, <2>1
      <4> HIDE DEF m, interval
      <4>2. (m + 1) * interval = m * interval + interval
        BY <4>1, OneMoreInterval
      <4>3. n * interval = m * interval + interval
        BY <4>1, <4>2
      <4> QED
        BY <4>3, Zenon DEF m, interval
    <3>6. start >= lastStart[host] + IntervalOf[host]
      BY <1>5, <3>1, SiteAssumption
    <3>7. (n - 1) * IntervalOf[host] \in Int
      BY <1>4, <2>1
    <3> QED
      BY <1>4, <1>5, <2>1, <3>1, <3>4, <3>5, <3>6, <3>7
  <2> QED
    BY <2>1, <2>2, <2>3, <2>4
<1>17. HandedOut(host)'
  <2>1. started[host] + (Cardinality(Waiting(host)) + 1) - 1 = n
    BY <1>4, <1>14
  <2>2. IntervalOf[host] # 0 => last = start
    OBVIOUS
  <2> HIDE DEF n
  <2> QED
    BY <1>1, <1>8, <1>15, <1>16, <2>1, <2>2 DEF HandedOut
<1>18. DuePaced(host)'
  <2> SUFFICES ASSUME NEW x \in Nat, x >= monotonic,
                      started[host] + Cardinality(Due(host, x)') > 0
               PROVE  (started[host] + Cardinality(Due(host, x)') - 1) * IntervalOf[host] <= x - first
    BY <1>1, <1>8 DEF DuePaced
  <2>1. IsFiniteSet(Due(host, x)) /\ Cardinality(Due(host, x)) \in Nat
        /\ Cardinality(Due(host, x)) <= Cardinality(Waiting(host))
    BY <1>2, <1>3, WaitingFinite
  <2>2. CASE x < start
    <3>1. Due(host, x)' = Due(host, x)
      BY <1>5, <1>6, <1>7, <1>10, <2>2 DEF Due
    <3>2. firstSlot[host] # NoSlot
      <4> SUFFICES ASSUME firstSlot[host] = NoSlot
                   PROVE  FALSE
        OBVIOUS
      <4>1. started[host] = 0 /\ Waiting(host) = {}
        BY <1>4 DEF SlotsInOrder
      <4>2. Cardinality(Due(host, x)) = 0
        BY <4>1, FS_EmptySet DEF Due
      <4> QED
        BY <3>1, <4>1, <4>2
    <3> QED
      BY <1>4, <3>1, <3>2 DEF DuePaced
  <2>3. CASE x >= start
    <3>1. Due(host, x)' = Due(host, x) \cup {t} /\ t \notin Due(host, x)
      BY <1>5, <1>6, <1>7, <1>10, <2>3 DEF Due
    <3>2. Cardinality(Due(host, x)') = Cardinality(Due(host, x)) + 1
      BY <2>1, <3>1, FS_AddElement
    <3> SUFFICES ASSUME NEW k, k = started[host] + Cardinality(Due(host, x)') - 1
                 PROVE  k * IntervalOf[host] <= x - first
      OBVIOUS
    <3>3. k \in Int /\ k <= n
      BY <1>4, <1>14, <2>1, <3>2
    <3> HIDE DEF n
    <3>4. k * IntervalOf[host] <= n * IntervalOf[host]
      BY <1>4, <1>16, <3>3, IntervalsMonotone
    <3>5. k * IntervalOf[host] \in Int /\ n * IntervalOf[host] \in Int
      BY <1>4, <1>16, <3>3
    <3> QED
      BY <1>5, <1>16, <2>3, <3>4, <3>5
  <2> QED
    BY <1>5, <2>2, <2>3
<1>19. \A h \in Sites : (SlotsInOrder(h) /\ HandedOut(h) /\ DuePaced(h))'
  BY <1>11, <1>13, <1>17, <1>18
<1> QED
  BY <1>9, <1>19 DEF PacingInv

-----------------------------------------------------------------------------
(* The theorems of the worker's client *)

\* The invariant holds at first: no host has been asked for anything.
LEMMA PacingInit == SiteInit => PacingInv
<1> SUFFICES ASSUME SiteInit PROVE PacingInv
  OBVIOUS
<1>1. SiteShape
  BY SiteAssumption DEF SiteInit, SiteShape, RequestShape, Seconds
<1>2. \A h \in Sites : Waiting(h) = {} /\ lastStart[h] = NoSlot /\ firstSlot[h] = NoSlot /\ started[h] = 0
  BY DEF SiteInit, Waiting, Fetching, NoFetch
<1>3. \A h \in Sites : SlotsInOrder(h) /\ HandedOut(h) /\ DuePaced(h)
  BY <1>2 DEF SlotsInOrder, HandedOut, DuePaced
<1> QED
  BY <1>1, <1>3 DEF PacingInv

\* Every step preserves it.
LEMMA PacingStep == PacingInv /\ [SiteNext]_siteVars => PacingInv'
<1> SUFFICES ASSUME PacingInv, [SiteNext]_siteVars PROVE PacingInv'
  OBVIOUS
<1>1. CASE UNCHANGED siteVars
  <2>1. begun' \in 0 .. MaxFetches /\ UNCHANGED <<monotonic, lastStart, firstSlot, fetch, begun, started>>
    BY <1>1 DEF siteVars, PacingInv, SiteShape
  <2>2. NoSlotMoves
    BY <2>1 DEF NoSlotMoves, pacing, Fetching
  <2>3. SiteShape'
    BY <2>1 DEF PacingInv, SiteShape, RequestShape
  <2> QED
    BY <2>2, <2>3, QuietKeepsPace DEF PacingInv
<1>2. CASE SecondPasses
  BY <1>2, SecondKeeps
<1>3. ASSUME NEW t \in Fetchers, NEW method \in {"GET", "POST"}, NEW home \in Sites,
             BeginFetch(t, method, home)
      PROVE  PacingInv'
  BY <1>3, BeginFetchKeeps
<1>4. ASSUME NEW t \in Fetchers, ValidateUrl(t)
      PROVE  PacingInv'
  BY <1>4, ValidateUrlKeeps
<1>5. ASSUME NEW t \in Fetchers, WaitForSlot(t)
      PROVE  PacingInv'
  BY <1>5, WaitKeeps
<1>6. ASSUME NEW t \in Fetchers, SendFetch(t)
      PROVE  PacingInv'
  BY <1>6, SendKeeps
<1>7. ASSUME NEW t \in Fetchers, NEW hint, SettleFetch(t) \/ FailFetch(t, hint)
      PROVE  PacingInv'
  BY <1>7, AnswerKeeps
<1>8. ASSUME NEW t \in Fetchers, RetryFetch(t)
      PROVE  PacingInv'
  BY <1>8, RetryFetchKeeps
<1>9. ASSUME NEW t \in Fetchers, NEW to \in Sites, NEW keeps \in BOOLEAN, FollowRedirect(t, to, keeps)
      PROVE  PacingInv'
  BY <1>9, FollowRedirectKeeps
<1> QED
  BY <1>1, <1>2, <1>3, <1>4, <1>5, <1>6, <1>7, <1>8, <1>9 DEF SiteNext

\* What is due now has been paced, and what has started was due.
LEMMA PacingEnough == PacingInv => SiteTypeOK /\ SitesPaced
<1> SUFFICES ASSUME PacingInv PROVE SiteTypeOK /\ SitesPaced
  OBVIOUS
<1>1. SiteTypeOK
  BY DEF PacingInv, SiteShape, RequestShape, SiteTypeOK
<1>2. ASSUME NEW h \in Sites, started[h] > 0
      PROVE  monotonic - firstSlot[h] >= (started[h] - 1) * IntervalOf[h]
  <2>1. monotonic \in Nat /\ started[h] \in Nat /\ IntervalOf[h] \in Nat /\ firstSlot[h] \in Nat
        /\ DuePaced(h)
    BY <1>2, SiteAssumption DEF PacingInv, SiteShape, SlotsInOrder, Seconds
  <2>2. Cardinality(Due(h, monotonic)) \in Nat
    BY <2>1, WaitingFinite
  <2> SUFFICES ASSUME NEW k, k = started[h] + Cardinality(Due(h, monotonic)) - 1
               PROVE  monotonic - firstSlot[h] >= (started[h] - 1) * IntervalOf[h]
    OBVIOUS
  <2>3. k * IntervalOf[h] <= monotonic - firstSlot[h]
    BY <1>2, <2>1, <2>2, SiteAssumption DEF DuePaced
  <2>4. k \in Int /\ started[h] - 1 \in Int /\ started[h] - 1 <= k
    BY <2>1, <2>2
  <2>5. (started[h] - 1) * IntervalOf[h] <= k * IntervalOf[h]
    BY <2>1, <2>4, IntervalsMonotone
  <2>6. (started[h] - 1) * IntervalOf[h] \in Int /\ k * IntervalOf[h] \in Int
    BY <2>1, <2>4
  <2> QED
    BY <2>1, <2>3, <2>5, <2>6
<1> QED
  BY <1>1, <1>2 DEF SitesPaced

\* The client of public sites keeps its types: attempts and hops stay within their limits, and
\* credentials only ever reach the host they are meant for (HttpClient).
THEOREM SiteTypes == SiteSpec => []SiteTypeOK
BY PacingInit, PacingStep, PacingEnough, PTL DEF SiteSpec

\* No host is asked more often than its interval allows, for any number of threads, any intervals
\* and however late sleepers wake (HostRateLimiter).
THEOREM SitesArePaced == SiteSpec => []SitesPaced
BY PacingInit, PacingStep, PacingEnough, PTL DEF SiteSpec
-----------------------------------------------------------------------------
(* The geocoding client *)

CallerRecord == [pc : {"idle", "waiting", "answered"}, key : Keys \cup {NoKey}, result : {Place, Nothing}]
LoadRecord == [pc : {"idle", "gate", "sleeping", "requesting"}, key : Keys \cup {NoKey},
               attempt : 0 .. MaxRetries, wakeAt : Int]
WriteRecord == [phase : {"none", "mkdir", "renaming"}, payload : CacheMap]
FlushRecord == [pc : {"idle", "waiting"}, upTo : Nat, owed : SUBSET Keys, failed : BOOLEAN]

ClientShape ==
  /\ entries \in CacheMap /\ saved \in CacheMap
  /\ dirty \in BOOLEAN /\ timer \in BOOLEAN /\ issued \in Nat /\ finished \in 0 .. issued
  /\ write \in WriteRecord /\ flusher \in FlushRecord
  /\ caller \in [Callers -> CallerRecord] /\ queue \in Seq(Keys)
  /\ client \in LoadRecord /\ (client.pc # "idle" => client.key \in Keys)
  /\ now \in Times /\ lastStartedAt \in Int /\ blockedUntil \in Int
  /\ made \in 0 .. MaxRequests /\ answered \subseteq Keys \X {"nothing", "refusal"}
  /\ lookups \in Nat /\ clientFaults \in Nat

\* The sleep lasts until the interval and the pause are over.
SleepsLongEnough ==
  client.pc = "sleeping" =>
    client.wakeAt >= lastStartedAt + MinInterval /\ client.wakeAt >= blockedUntil

\* A load in hand or in the queue is of a key that is not cached and that some lookup waits for.
InHand(k) == client.pc # "idle" /\ client.key = k
Queued(k) == \E i \in 1 .. Len(queue) : queue[i] = k
LoadsApart ==
  /\ \A i, j \in 1 .. Len(queue) : queue[i] = queue[j] => i = j
  /\ \A k \in Keys : ~(InHand(k) /\ Queued(k))
  /\ \A k \in Keys : InHand(k) \/ Queued(k) => entries[k] = NotCached /\ Inflight(k)

\* A body has said "nothing" of the key, or has refused where refusals come in bodies.
Told(k) == <<k, "nothing">> \in answered \/ (k \in CodedInBody /\ <<k, "refusal">> \in answered)

\* A negative entry, wherever it is kept, was told.
NothingAnswered ==
  \A k \in Keys : \A e \in {entries[k], saved[k], write.payload[k]} :
    e # NotCached /\ e.place = Nothing => Told(k)

\* What is fresh in the file is fresh in what is about to replace it, and in memory.
FreshStays ==
  \A k \in Keys :
    /\ Fresh(saved[k]) => entries[k] = saved[k]
    /\ write.phase = "renaming" =>
         /\ Fresh(write.payload[k]) => entries[k] = write.payload[k]
         /\ Fresh(saved[k]) => write.payload[k] = saved[k]

\* Whatever is fresh in memory is in the file or on its way to it.
Underway(k) == write.phase = "mkdir" \/ (write.phase = "renaming" /\ write.payload[k] = entries[k])
FreshTravels ==
  /\ write # NoWrite => finished < issued
  /\ write.phase = "none" => write = NoWrite
  /\ \A k \in Keys : Fresh(entries[k]) => saved[k] = entries[k] \/ Underway(k) \/ dirty

\* What a caller of flush relies on arrives with the writes it waits for.
OwedArrives ==
  flusher.pc = "waiting" /\ ~flusher.failed =>
    \A k \in flusher.owed :
      /\ Fresh(entries[k])
      /\ \/ saved[k] = entries[k]
         \/ Underway(k) /\ finished < flusher.upTo
         \/ dirty /\ finished + (IF write = NoWrite THEN 0 ELSE 1) < flusher.upTo

ClientInv ==
  /\ ClientShape /\ SleepsLongEnough /\ LoadsApart /\ NothingAnswered
  /\ FreshStays /\ FreshTravels /\ OwedArrives
-----------------------------------------------------------------------------
(* What the steps of the geocoding client leave alone *)

\* The invariant, by the parts that loads and writes disturb.
LoadPart == SleepsLongEnough /\ LoadsApart
CachePart == FreshStays /\ FreshTravels /\ OwedArrives

\* The cache is as it was.
LEMMA CacheUntouched ==
  ASSUME CachePart, UNCHANGED <<entries, saved, dirty, issued, finished, write, flusher>>
  PROVE  CachePart'
BY DEF CachePart, FreshStays, FreshTravels, OwedArrives, Underway, Fresh, NoWrite

\* So are the loads.
LEMMA LoadsUntouched ==
  ASSUME LoadPart, UNCHANGED <<entries, caller, queue, client, lastStartedAt, blockedUntil>>
  PROVE  LoadPart'
BY DEF LoadPart, SleepsLongEnough, LoadsApart, InHand, Queued, Inflight

\* What the provider has said is not forgotten.
LEMMA AnswersStay ==
  ASSUME NothingAnswered, UNCHANGED <<entries, saved>>, answered \subseteq answered',
         \A k \in Keys : write'.payload[k] \in {write.payload[k], entries[k]}
  PROVE  NothingAnswered'
BY DEF NothingAnswered, Told

\* A wait is as long as the interval and the pause ask for.
LEMMA WaitLongEnough ==
  ASSUME ClientShape
  PROVE  Wait \in Nat /\ now + Wait >= lastStartedAt + MinInterval /\ now + Wait >= blockedUntil
BY ClientAssumption DEF ClientShape, Wait, Larger, Times

\* An entry that is kept is fresh.
LEMMA KeptFresh ==
  ASSUME NEW place \in {Place, Nothing}
  PROVE  /\ [place |-> place, old |-> FALSE] \in CachedEntry
         /\ Fresh([place |-> place, old |-> FALSE])
         /\ [place |-> place, old |-> FALSE] # NotCached
<1>1. [place |-> place, old |-> FALSE] \in CachedEntry
  BY DEF CachedEntry
<1>2. [place |-> place, old |-> FALSE] # NotCached
  BY <1>1, ClientAssumption
<1> QED
  BY <1>1, <1>2 DEF Fresh

-----------------------------------------------------------------------------
(* Settling a load *)

\* Every lookup has one of the shapes, whatever the outcome.
LEMMA SettleShape ==
  ASSUME ClientShape, NEW outcome, client.pc # "idle", Settle(client.key, outcome)
  PROVE  /\ caller' \in [Callers -> CallerRecord] /\ client' \in LoadRecord /\ client'.pc = "idle"
         /\ \A c \in Callers : caller[c].pc = "waiting" /\ caller[c].key # client.key =>
              caller'[c] = caller[c]
<1>1. client.key \in Keys /\ caller \in [Callers -> CallerRecord]
  BY DEF ClientShape
<1>2. NoLoad \in LoadRecord /\ NoLoad.pc = "idle"
  BY ClientAssumption DEF NoLoad, LoadRecord
<1>3. caller' \in [Callers -> CallerRecord]
  BY <1>1 DEF Settle, CallerRecord
<1>4. \A c \in Callers : caller[c].pc = "waiting" /\ caller[c].key # client.key => caller'[c] = caller[c]
  BY <1>1 DEF Settle
<1> QED
  BY <1>2, <1>3, <1>4 DEF Settle

\* The loads that remain are of other keys: their lookups wait on.
LEMMA SettleApart ==
  ASSUME ClientShape, LoadPart, NEW outcome, client.pc # "idle", Settle(client.key, outcome), queue' = queue,
         \A k \in Keys : k # client.key => entries'[k] = entries[k]
  PROVE  LoadPart'
<1>1. client'.pc = "idle"
  BY SettleShape
<1>2. \A k \in Keys : ~InHand(k)' /\ Queued(k)' = Queued(k)
  BY <1>1 DEF InHand, Queued
<1>3. ASSUME NEW k \in Keys, Queued(k)
      PROVE  entries'[k] = NotCached /\ Inflight(k)'
  <2>1. k # client.key /\ entries[k] = NotCached /\ Inflight(k)
    BY <1>3 DEF LoadPart, LoadsApart, InHand
  <2>2. PICK c \in Callers : caller[c].pc = "waiting" /\ caller[c].key = k
    BY <2>1 DEF Inflight
  <2>3. caller'[c] = caller[c]
    BY <2>1, <2>2, SettleShape
  <2> QED
    BY <2>1, <2>2, <2>3 DEF Inflight
<1>4. LoadsApart'
  BY <1>2, <1>3 DEF LoadPart, LoadsApart
<1>5. SleepsLongEnough'
  BY <1>1 DEF SleepsLongEnough
<1> QED
  BY <1>4, <1>5 DEF LoadPart

\* A failed load settles and leaves the cache alone.
LEMMA FailKeeps ==
  ASSUME ClientShape, LoadPart, CachePart, NothingAnswered, client.pc # "idle", Fail(client.key),
         UNCHANGED <<saved, issued, finished, write, flusher, queue, answered>>
  PROVE  /\ LoadPart' /\ CachePart' /\ NothingAnswered'
         /\ UNCHANGED <<entries, dirty, timer>>
         /\ caller' \in [Callers -> CallerRecord] /\ client' \in LoadRecord /\ client'.pc = "idle"
<1>1. Settle(client.key, "failed") /\ Kept(client.key, "failed")
  BY DEF Fail
<1>2. UNCHANGED <<entries, dirty, timer>>
  BY <1>1, ClientAssumption DEF Kept
<1>3. LoadPart'
  BY <1>1, <1>2, SettleApart
<1>4. CachePart'
  BY <1>2, CacheUntouched
<1>5. NothingAnswered'
  BY <1>2, AnswersStay
<1> QED
  BY <1>1, <1>2, <1>3, <1>4, <1>5, SettleShape
-----------------------------------------------------------------------------
(* Lookups and loads, one lemma per step *)

\* A lookup answers at once or starts waiting for a load of its key, its own or another's.
LEMMA LookupKeeps ==
  ASSUME ClientInv, NEW c \in Callers, NEW k \in Keys, Lookup(c, k)
  PROVE  ClientInv'
<1>1. /\ caller[c].pc = "idle" /\ lookups' = lookups + 1
      /\ UNCHANGED <<saved, dirty, timer, issued, finished, write, flusher, client, now,
                      lastStartedAt, blockedUntil, made, answered, clientFaults>>
  BY DEF Lookup
<1>2. CASE Fresh(entries[k])
  <2>1. /\ caller' = [caller EXCEPT ![c] = [pc |-> "answered", key |-> k, result |-> entries[k].place]]
        /\ UNCHANGED <<entries, queue>>
    BY <1>2 DEF Lookup
  <2>2. entries[k].place \in {Place, Nothing}
    BY <1>2 DEF ClientInv, ClientShape, CacheMap, CachedEntry, Fresh
  <2>3. ClientShape'
    <3>1. caller' \in [Callers -> CallerRecord]
      BY <2>1, <2>2 DEF ClientInv, ClientShape, CallerRecord
    <3> QED
      BY <1>1, <2>1, <3>1 DEF ClientInv, ClientShape
  <2>4. LoadsApart'
    <3>1. \A q \in Keys : InHand(q)' = InHand(q) /\ Queued(q)' = Queued(q)
      BY <1>1, <2>1 DEF InHand, Queued
    <3>2. ASSUME NEW q \in Keys, Inflight(q)
          PROVE  Inflight(q)'
      <4>1. PICK d \in Callers : caller[d].pc = "waiting" /\ caller[d].key = q
        BY <3>2 DEF Inflight
      <4>2. caller'[d] = caller[d]
        BY <1>1, <2>1, <4>1 DEF ClientInv, ClientShape
      <4> QED
        BY <4>1, <4>2 DEF Inflight
    <3> QED
      BY <2>1, <3>1, <3>2 DEF ClientInv, LoadsApart
  <2>5. SleepsLongEnough'
    BY <1>1 DEF ClientInv, SleepsLongEnough
  <2>6. CachePart'
    BY <1>1, <2>1, CacheUntouched DEF ClientInv, CachePart
  <2>7. NothingAnswered'
    BY <1>1, <2>1, AnswersStay DEF ClientInv
  <2> QED
    BY <2>3, <2>4, <2>5, <2>6, <2>7 DEF ClientInv, CachePart
<1>3. CASE ~Fresh(entries[k])
  <2>1. /\ entries' = [entries EXCEPT ![k] = NotCached]
        /\ caller' = [caller EXCEPT ![c] = [pc |-> "waiting", key |-> k, result |-> Nothing]]
        /\ queue' = IF Inflight(k) THEN queue ELSE Append(queue, k)
    BY <1>3 DEF Lookup
  <2>2. entries' \in CacheMap /\ entries'[k] = NotCached /\ \A q \in Keys \ {k} : entries'[q] = entries[q]
    BY <2>1 DEF ClientInv, ClientShape, CacheMap
  <2>3. ClientShape'
    <3>1. caller' \in [Callers -> CallerRecord]
      BY <2>1 DEF ClientInv, ClientShape, CallerRecord
    <3>2. queue' \in Seq(Keys)
      BY <2>1 DEF ClientInv, ClientShape
    <3> QED
      BY <1>1, <2>2, <3>1, <3>2 DEF ClientInv, ClientShape
  <2>4. LoadsApart'
    <3>1. ASSUME NEW q \in Keys, Inflight(q) \/ q = k
          PROVE  Inflight(q)'
      <4>1. CASE q = k
        BY <2>1, <4>1 DEF Inflight, ClientInv, ClientShape
      <4>2. CASE Inflight(q)
        <5>1. PICK d \in Callers : caller[d].pc = "waiting" /\ caller[d].key = q
          BY <4>2 DEF Inflight
        <5>2. caller'[d] = caller[d]
          BY <1>1, <2>1, <5>1 DEF ClientInv, ClientShape
        <5> QED
          BY <5>1, <5>2 DEF Inflight
      <4> QED
        BY <3>1, <4>1, <4>2
    <3>2. \A q \in Keys : InHand(q)' = InHand(q)
      BY <1>1 DEF InHand
    <3>3. \A q \in Keys : InHand(q) \/ Queued(q) => entries[q] = NotCached /\ Inflight(q)
      BY DEF ClientInv, LoadsApart
    <3>4. CASE Inflight(k)
      <4>1. queue' = queue /\ \A q \in Keys : Queued(q)' = Queued(q)
        BY <2>1, <3>4 DEF Queued
      <4> QED
        BY <2>2, <3>1, <3>2, <3>3, <4>1 DEF ClientInv, LoadsApart
    <3>5. CASE ~Inflight(k)
      <4>1. ~InHand(k) /\ ~Queued(k)
        BY <3>3, <3>5
      <4>2. queue' = Append(queue, k) /\ queue \in Seq(Keys)
        BY <2>1, <3>5 DEF ClientInv, ClientShape
      <4>3. /\ Len(queue') = Len(queue) + 1 /\ queue'[Len(queue) + 1] = k
            /\ \A i \in 1 .. Len(queue) : queue'[i] = queue[i]
            /\ Len(queue) \in Nat
        BY <4>2
      <4>4. \A q \in Keys : Queued(q)' => Queued(q) \/ q = k
        <5> SUFFICES ASSUME NEW q \in Keys, NEW i \in 1 .. Len(queue'), queue'[i] = q, q # k
                     PROVE  Queued(q)
          BY DEF Queued
        <5>1. i \in 1 .. Len(queue)
          BY <4>3
        <5> QED
          BY <4>3, <5>1 DEF Queued
      <4>5. \A i, j \in 1 .. Len(queue') : queue'[i] = queue'[j] => i = j
        <5> SUFFICES ASSUME NEW i \in 1 .. Len(queue'), NEW j \in 1 .. Len(queue'), queue'[i] = queue'[j]
                     PROVE  i = j
          OBVIOUS
        <5>1. \A m \in 1 .. Len(queue) : queue[m] # k
          BY <4>1 DEF Queued
        <5>2. \A m, n \in 1 .. Len(queue) : queue[m] = queue[n] => m = n
          BY DEF ClientInv, LoadsApart
        <5> QED
          BY <4>3, <5>1, <5>2
      <4> QED
        BY <2>2, <3>1, <3>2, <3>3, <4>1, <4>4, <4>5 DEF ClientInv, LoadsApart
    <3> QED
      BY <3>4, <3>5
  <2>5. SleepsLongEnough'
    BY <1>1 DEF ClientInv, SleepsLongEnough
  <2>6. CachePart'
    <3>1. ~Fresh(NotCached)
      BY DEF Fresh
    <3>2. \A q \in Keys : Fresh(entries'[q]) \/ Fresh(entries[q]) => q # k /\ entries'[q] = entries[q]
      BY <1>3, <2>2, <3>1
    <3>3. FreshStays'
      BY <1>1, <3>2 DEF ClientInv, FreshStays
    <3>4. FreshTravels'
      BY <1>1, <3>2 DEF ClientInv, FreshTravels, Underway, NoWrite
    <3>5. OwedArrives'
      <4>1. flusher.owed \subseteq Keys
        BY DEF ClientInv, ClientShape, FlushRecord
      <4> QED
        BY <1>1, <3>2, <4>1 DEF ClientInv, OwedArrives, Underway, NoWrite
    <3> QED
      BY <3>3, <3>4, <3>5 DEF CachePart
  <2>7. NothingAnswered'
    BY <1>1, <2>2 DEF ClientInv, NothingAnswered, Told
  <2> QED
    BY <2>3, <2>4, <2>5, <2>6, <2>7 DEF ClientInv, CachePart
<1> QED
  BY <1>2, <1>3

\* A lookup that hears its answer waits for no load.
LEMMA HearKeeps ==
  ASSUME ClientInv, NEW c \in Callers, Hear(c)
  PROVE  ClientInv'
<1>1. /\ caller[c].pc = "answered" /\ caller' = [caller EXCEPT ![c] = NotAsking]
      /\ UNCHANGED <<entries, saved, dirty, timer, issued, finished, write, flusher, queue, client,
                      lastStartedAt, blockedUntil, made, answered, now, clientFaults, lookups>>
  BY DEF Hear, cacheVars, loadVars
<1>2. NotAsking \in CallerRecord
  BY DEF NotAsking, CallerRecord
<1>3. ClientShape'
  <2>1. caller' \in [Callers -> CallerRecord]
    BY <1>1, <1>2 DEF ClientInv, ClientShape
  <2> QED
    BY <1>1, <2>1 DEF ClientInv, ClientShape
<1>4. LoadsApart'
  <2>1. \A q \in Keys : InHand(q)' = InHand(q) /\ Queued(q)' = Queued(q)
    BY <1>1 DEF InHand, Queued
  <2>2. ASSUME NEW q \in Keys, Inflight(q)
        PROVE  Inflight(q)'
    <3>1. PICK d \in Callers : caller[d].pc = "waiting" /\ caller[d].key = q
      BY <2>2 DEF Inflight
    <3>2. caller'[d] = caller[d]
      BY <1>1, <3>1 DEF ClientInv, ClientShape
    <3> QED
      BY <3>1, <3>2 DEF Inflight
  <2> QED
    BY <1>1, <2>1, <2>2 DEF ClientInv, LoadsApart
<1>5. SleepsLongEnough'
  BY <1>1 DEF ClientInv, SleepsLongEnough
<1>6. CachePart'
  BY <1>1, CacheUntouched DEF ClientInv, CachePart
<1>7. NothingAnswered'
  BY <1>1, AnswersStay DEF ClientInv
<1> QED
  BY <1>3, <1>4, <1>5, <1>6, <1>7 DEF ClientInv, CachePart
\* The next load is taken from the queue.
LEMMA StartLoadKeeps ==
  ASSUME ClientInv, StartLoad
  PROVE  ClientInv'
<1> DEFINE load == [NoLoad EXCEPT !.pc = "gate", !.key = Head(queue)]
<1>1. /\ client.pc = "idle" /\ queue # <<>> /\ queue' = Tail(queue) /\ client' = load
      /\ UNCHANGED <<entries, saved, dirty, timer, issued, finished, write, flusher, caller, now,
                      lastStartedAt, blockedUntil, made, answered, clientFaults, lookups>>
  BY DEF StartLoad, cacheVars
<1>2. /\ Head(queue) \in Keys /\ Head(queue) = queue[1] /\ queue' \in Seq(Keys) /\ Len(queue) \in Nat \ {0}
      /\ Len(queue') = Len(queue) - 1 /\ \A i \in 1 .. Len(queue') : queue'[i] = queue[i + 1]
  BY <1>1 DEF ClientInv, ClientShape
<1>3. load \in LoadRecord /\ load.pc = "gate" /\ load.key = queue[1]
  <2>1. NoLoad \in LoadRecord /\ NoLoad = [pc |-> "idle", key |-> NoKey, attempt |-> 0, wakeAt |-> 0]
    BY ClientAssumption DEF NoLoad, LoadRecord
  <2> SUFFICES ASSUME NEW k \in Keys
               PROVE  LET r == [NoLoad EXCEPT !.pc = "gate", !.key = k]
                      IN  r \in LoadRecord /\ r.pc = "gate" /\ r.key = k
    BY <1>2
  <2> QED
    BY <2>1 DEF LoadRecord
<1> HIDE DEF load
<1>4. ClientShape'
  BY <1>1, <1>2, <1>3 DEF ClientInv, ClientShape
<1>5. LoadsApart'
  <2>1. \A i, j \in 1 .. Len(queue) : queue[i] = queue[j] => i = j
    BY DEF ClientInv, LoadsApart
  <2>2. \A i, j \in 1 .. Len(queue') : queue'[i] = queue'[j] => i = j
    <3> SUFFICES ASSUME NEW i \in 1 .. Len(queue'), NEW j \in 1 .. Len(queue'), queue'[i] = queue'[j]
                 PROVE  i = j
      OBVIOUS
    <3>1. i + 1 \in 1 .. Len(queue) /\ j + 1 \in 1 .. Len(queue) /\ queue[i + 1] = queue[j + 1]
      BY <1>2
    <3>2. i + 1 = j + 1
      BY <2>1, <3>1
    <3> QED
      BY <3>2
  <2>3. ASSUME NEW q \in Keys, Queued(q)'
        PROVE  Queued(q) /\ q # queue[1]
    <3>1. PICK i \in 1 .. Len(queue') : queue'[i] = q
      BY <2>3 DEF Queued
    <3>2. i + 1 \in 1 .. Len(queue) /\ queue[i + 1] = q /\ 1 \in 1 .. Len(queue) /\ i + 1 # 1
      BY <1>2, <3>1
    <3> QED
      BY <2>1, <3>2 DEF Queued
  <2>4. ASSUME NEW q \in Keys, InHand(q)'
        PROVE  Queued(q) /\ q = queue[1]
    <3>1. q = queue[1] /\ 1 \in 1 .. Len(queue)
      BY <1>1, <1>2, <1>3, <2>4 DEF InHand
    <3> QED
      BY <3>1 DEF Queued
  <2>5. \A q \in Keys : Queued(q) => entries[q] = NotCached /\ Inflight(q)
    BY DEF ClientInv, LoadsApart
  <2>6. \A q \in Keys : Inflight(q) => Inflight(q)'
    BY <1>1 DEF Inflight
  <2> QED
    BY <1>1, <2>2, <2>3, <2>4, <2>5, <2>6 DEF LoadsApart
<1>6. SleepsLongEnough'
  BY <1>1, <1>3 DEF SleepsLongEnough
<1>7. CachePart'
  BY <1>1, CacheUntouched DEF ClientInv, CachePart
<1>8. NothingAnswered'
  BY <1>1, AnswersStay DEF ClientInv
<1> QED
  BY <1>4, <1>5, <1>6, <1>7, <1>8 DEF ClientInv, CachePart

\* A load that goes on with the same key leaves the queue and the cache alone.
LEMMA LoadGoesOn ==
  ASSUME ClientInv, client.pc # "idle", client' \in LoadRecord, client'.pc # "idle", client'.key = client.key,
         UNCHANGED <<entries, caller, queue>>
  PROVE  LoadsApart'
<1>1. \A q \in Keys : (InHand(q)' <=> InHand(q)) /\ (Queued(q)' <=> Queued(q)) /\ (Inflight(q)' <=> Inflight(q))
  BY DEF InHand, Queued, Inflight
<1> QED
  BY <1>1 DEF ClientInv, LoadsApart

\* The gate: give up, or sleep until the request may start.
LEMMA GateKeeps ==
  ASSUME ClientInv, Gate
  PROVE  ClientInv'
<1>1. /\ client.pc = "gate"
      /\ UNCHANGED <<saved, issued, finished, write, flusher, queue, now, lastStartedAt, blockedUntil,
                      made, answered, clientFaults, lookups>>
  BY DEF Gate
<1>2. CASE Fail(client.key)
  <2>1. /\ LoadPart' /\ CachePart' /\ NothingAnswered' /\ UNCHANGED <<entries, dirty, timer>>
        /\ caller' \in [Callers -> CallerRecord] /\ client' \in LoadRecord /\ client'.pc = "idle"
    BY <1>1, <1>2, FailKeeps DEF ClientInv, LoadPart, CachePart
  <2>2. ClientShape'
    BY <1>1, <2>1 DEF ClientInv, ClientShape
  <2> QED
    BY <2>1, <2>2 DEF ClientInv, LoadPart, CachePart
<1>3. CASE ~Fail(client.key)
  <2> DEFINE load == [client EXCEPT !.pc = "sleeping", !.wakeAt = now + Wait]
  <2>1. client' = load /\ UNCHANGED <<caller, entries, dirty, timer>>
    BY <1>3 DEF Gate
  <2>2. now + Wait \in Int /\ now + Wait >= lastStartedAt + MinInterval /\ now + Wait >= blockedUntil
    BY WaitLongEnough DEF ClientInv, ClientShape, Times
  <2>3. load \in LoadRecord /\ load.pc = "sleeping" /\ load.key = client.key /\ load.wakeAt = now + Wait
    <3>1. client \in LoadRecord
      BY DEF ClientInv, ClientShape
    <3> SUFFICES ASSUME NEW w \in Int, w = now + Wait
                 PROVE  /\ [client EXCEPT !.pc = "sleeping", !.wakeAt = w] \in LoadRecord
                        /\ [client EXCEPT !.pc = "sleeping", !.wakeAt = w].pc = "sleeping"
                        /\ [client EXCEPT !.pc = "sleeping", !.wakeAt = w].key = client.key
                        /\ [client EXCEPT !.pc = "sleeping", !.wakeAt = w].wakeAt = w
      BY <2>2
    <3> QED
      BY <3>1 DEF LoadRecord
  <2> HIDE DEF load
  <2>4. ClientShape'
    BY <1>1, <2>1, <2>3 DEF ClientInv, ClientShape
  <2>5. LoadsApart'
    BY <1>1, <2>1, <2>3, LoadGoesOn
  <2>6. SleepsLongEnough'
    BY <1>1, <2>1, <2>2, <2>3 DEF SleepsLongEnough
  <2>7. CachePart'
    BY <1>1, <2>1, CacheUntouched DEF ClientInv, CachePart
  <2>8. NothingAnswered'
    BY <1>1, <2>1, AnswersStay DEF ClientInv
  <2> QED
    BY <2>4, <2>5, <2>6, <2>7, <2>8 DEF ClientInv, CachePart
<1> QED
  BY <1>2, <1>3

\* The request starts, or the budget refuses it.
LEMMA RequestKeeps ==
  ASSUME ClientInv, Request
  PROVE  ClientInv'
<1>1. /\ client.pc = "sleeping" /\ now >= client.wakeAt
      /\ UNCHANGED <<saved, issued, finished, write, flusher, queue, now, blockedUntil,
                      answered, clientFaults, lookups>>
  BY DEF Request
<1>2. CASE Fail(client.key) /\ UNCHANGED <<made, lastStartedAt>>
  <2>1. /\ LoadPart' /\ CachePart' /\ NothingAnswered' /\ UNCHANGED <<entries, dirty, timer>>
        /\ caller' \in [Callers -> CallerRecord] /\ client' \in LoadRecord /\ client'.pc = "idle"
    BY <1>1, <1>2, FailKeeps DEF ClientInv, LoadPart, CachePart
  <2>2. ClientShape'
    BY <1>1, <1>2, <2>1 DEF ClientInv, ClientShape
  <2> QED
    BY <2>1, <2>2 DEF ClientInv, LoadPart, CachePart
<1>3. CASE ~(Fail(client.key) /\ UNCHANGED <<made, lastStartedAt>>)
  <2> DEFINE load == [client EXCEPT !.pc = "requesting"]
  <2>1. /\ ~(made >= MaxRequests) /\ made' = made + 1 /\ lastStartedAt' = now
        /\ client' = load /\ UNCHANGED <<caller, entries, dirty, timer>>
    BY <1>3 DEF Request
  <2>2. load \in LoadRecord /\ load.pc = "requesting" /\ load.key = client.key
    BY DEF ClientInv, ClientShape, LoadRecord
  <2> HIDE DEF load
  <2>3. ClientShape'
    <3>1. made' \in 0 .. MaxRequests /\ lastStartedAt' \in Int
      BY <2>1, ClientAssumption DEF ClientInv, ClientShape, Times
    <3> QED
      BY <1>1, <2>1, <2>2, <3>1 DEF ClientInv, ClientShape
  <2>4. LoadsApart'
    BY <1>1, <2>1, <2>2, LoadGoesOn
  <2>5. SleepsLongEnough'
    BY <2>1, <2>2 DEF SleepsLongEnough
  <2>6. CachePart'
    BY <1>1, <2>1, CacheUntouched DEF ClientInv, CachePart
  <2>7. NothingAnswered'
    BY <1>1, <2>1, AnswersStay DEF ClientInv
  <2> QED
    BY <2>3, <2>4, <2>5, <2>6, <2>7 DEF ClientInv, CachePart
<1> QED
  BY <1>2, <1>3

\* A response that is no answer, or a refusal that may be tried again.
LEMMA UnansweredKeeps ==
  ASSUME ClientInv, Unanswered \/ \E a \in RetryAfters : Refused(a)
  PROVE  ClientInv'
<1>1. /\ client.pc = "requesting" /\ blockedUntil' \in Int
      /\ UNCHANGED <<saved, issued, finished, write, flusher, queue, now, lastStartedAt, made,
                      answered, clientFaults, lookups>>
  BY ClientAssumption DEF Unanswered, Refused, ClientInv, ClientShape, Times
<1>2. CASE Fail(client.key)
  <2>1. /\ LoadPart' /\ CachePart' /\ NothingAnswered' /\ UNCHANGED <<entries, dirty, timer>>
        /\ caller' \in [Callers -> CallerRecord] /\ client' \in LoadRecord /\ client'.pc = "idle"
    BY <1>1, <1>2, FailKeeps DEF ClientInv, LoadPart, CachePart
  <2>2. ClientShape'
    BY <1>1, <2>1 DEF ClientInv, ClientShape
  <2> QED
    BY <2>1, <2>2 DEF ClientInv, LoadPart, CachePart
<1>3. CASE ~Fail(client.key)
  <2> DEFINE load == [client EXCEPT !.pc = "gate", !.attempt = client.attempt + 1]
  <2>1. client' = load /\ UNCHANGED <<caller, entries, dirty, timer>> /\ client.attempt < MaxRetries
    BY <1>3 DEF Unanswered, Refused, MayRetry
  <2>2. load \in LoadRecord /\ load.pc = "gate" /\ load.key = client.key
    <3>1. client \in LoadRecord
      BY DEF ClientInv, ClientShape
    <3>2. client.attempt \in 0 .. MaxRetries
      BY <3>1 DEF LoadRecord
    <3>3. client.attempt + 1 \in 0 .. MaxRetries
      BY <2>1, <3>2, ClientAssumption
    <3> QED
      BY <3>1, <3>3 DEF LoadRecord
  <2> HIDE DEF load
  <2>3. ClientShape'
    BY <1>1, <2>1, <2>2 DEF ClientInv, ClientShape
  <2>4. LoadsApart'
    BY <1>1, <2>1, <2>2, LoadGoesOn
  <2>5. SleepsLongEnough'
    BY <2>1, <2>2 DEF SleepsLongEnough
  <2>6. CachePart'
    BY <1>1, <2>1, CacheUntouched DEF ClientInv, CachePart
  <2>7. NothingAnswered'
    BY <1>1, <2>1, AnswersStay DEF ClientInv
  <2> QED
    BY <2>3, <2>4, <2>5, <2>6, <2>7 DEF ClientInv, CachePart
<1> QED
  BY <1>2, <1>3
\* What a body says is the first entry of its key: nobody could have relied on another one.
LEMMA DecodedKeeps ==
  ASSUME ClientInv, NEW outcome \in {Place, Nothing}, NEW said \in {"nothing", "refusal"},
         said = "refusal" => client.key \in CodedInBody, Decoded(outcome, said)
  PROVE  ClientInv'
<1> SUFFICES ASSUME NEW k, k = client.key PROVE ClientInv'
  OBVIOUS
<1> SUFFICES ASSUME NEW kept, kept = [place |-> outcome, old |-> FALSE] PROVE ClientInv'
  OBVIOUS
<1>1. /\ client.pc = "requesting" /\ Settle(k, outcome) /\ Kept(k, outcome)
      /\ answered' = IF outcome = Nothing THEN answered \cup {<<k, said>>} ELSE answered
      /\ UNCHANGED <<saved, issued, finished, write, flusher, queue, now, lastStartedAt, blockedUntil,
                      made, clientFaults, lookups>>
  BY DEF Decoded
<1>2. k \in Keys /\ InHand(k) /\ entries \in CacheMap
  BY <1>1 DEF ClientInv, ClientShape, InHand
<1>3. entries[k] = NotCached
  BY <1>2 DEF ClientInv, LoadsApart
<1>4. entries' = [entries EXCEPT ![k] = kept] /\ dirty' = TRUE /\ timer' = TRUE
  BY <1>1 DEF Kept
<1>5. kept \in CachedEntry /\ Fresh(kept) /\ kept # NotCached /\ kept.place = outcome
  BY KeptFresh
<1>6. entries' \in CacheMap /\ entries'[k] = kept /\ \A q \in Keys \ {k} : entries'[q] = entries[q]
  BY <1>2, <1>4, <1>5 DEF CacheMap
<1>7. LoadPart'
  BY <1>1, <1>6, SettleApart DEF ClientInv, LoadPart
<1>8. ClientShape'
  <2>1. caller' \in [Callers -> CallerRecord] /\ client' \in LoadRecord /\ client'.pc = "idle"
    BY <1>1, SettleShape DEF ClientInv
  <2>2. answered' \subseteq Keys \X {"nothing", "refusal"}
    BY <1>1, <1>2 DEF ClientInv, ClientShape
  <2> QED
    BY <1>1, <1>4, <1>6, <2>1, <2>2 DEF ClientInv, ClientShape
<1>9. ~Fresh(entries[k]) /\ ~Fresh(saved[k]) /\ (write.phase = "renaming" => ~Fresh(write.payload[k]))
  <2>1. ~Fresh(NotCached)
    BY DEF Fresh
  <2> QED
    BY <1>2, <1>3, <2>1 DEF ClientInv, FreshStays
<1>10. FreshStays'
  BY <1>1, <1>6, <1>9 DEF ClientInv, FreshStays
<1>11. FreshTravels'
  BY <1>1, <1>4 DEF ClientInv, FreshTravels, NoWrite
<1>12. OwedArrives'
  <2>1. flusher.owed \subseteq Keys
    BY DEF ClientInv, ClientShape, FlushRecord
  <2>2. ASSUME flusher.pc = "waiting", ~flusher.failed, NEW q \in flusher.owed
        PROVE  q \in Keys \ {k} /\ entries'[q] = entries[q] /\ dirty'
    BY <1>4, <1>6, <1>9, <2>1, <2>2 DEF ClientInv, OwedArrives
  <2> QED
    BY <1>1, <2>2 DEF ClientInv, OwedArrives, Underway, NoWrite
<1>13. NothingAnswered'
  <2> SUFFICES ASSUME NEW q \in Keys, NEW e \in {entries'[q], saved[q], write.payload[q]},
                      e # NotCached, e.place = Nothing
               PROVE  Told(q)'
    BY <1>1 DEF NothingAnswered
  <2>1. answered \subseteq answered'
    BY <1>1
  <2>2. CASE q = k /\ e = entries'[q]
    BY <1>1, <1>5, <1>6, <2>2 DEF Told
  <2>3. CASE ~(q = k /\ e = entries'[q])
    BY <1>6, <2>1, <2>3 DEF ClientInv, NothingAnswered, Told
  <2> QED
    BY <2>2, <2>3
<1> QED
  BY <1>7, <1>8, <1>10, <1>11, <1>12, <1>13 DEF ClientInv, LoadPart

\* Time passes: the shape is all it can disturb.
LEMMA ClockKeeps ==
  ASSUME ClientInv, ClockAdvances
  PROVE  ClientInv'
<1>1. /\ now < TotalTime /\ now' = now + 1
      /\ UNCHANGED <<entries, saved, dirty, timer, issued, finished, write, flusher, queue, client,
                      lastStartedAt, blockedUntil, made, answered, caller, clientFaults, lookups>>
  BY DEF ClockAdvances, cacheVars, loadVars
<1>2. ClientShape'
  <2>1. now' \in Times
    BY <1>1, ClientAssumption DEF ClientInv, ClientShape, Times
  <2> QED
    BY <1>1, <2>1 DEF ClientInv, ClientShape
<1>3. LoadPart'
  BY <1>1, LoadsUntouched DEF ClientInv, LoadPart
<1>4. CachePart'
  BY <1>1, CacheUntouched DEF ClientInv, CachePart
<1>5. NothingAnswered'
  BY <1>1, AnswersStay DEF ClientInv
<1> QED
  BY <1>2, <1>3, <1>4, <1>5 DEF ClientInv, LoadPart, CachePart

-----------------------------------------------------------------------------
(* Writes and flushes, one lemma per step *)

\* What the writes and flushes leave alone.
LoadsStill == UNCHANGED <<queue, client, lastStartedAt, blockedUntil, made, answered, caller, now>>

\* The loads and the answers of a step of the writer.
LEMMA WriterLeavesLoads ==
  ASSUME ClientInv, LoadsStill, entries' = entries,
         \A k \in Keys : saved'[k] \in {saved[k], write.payload[k], entries[k]},
         \A k \in Keys : write'.payload[k] \in {write.payload[k], entries[k], NotCached}
  PROVE  LoadPart' /\ NothingAnswered'
<1>1. LoadPart'
  BY LoadsUntouched DEF ClientInv, LoadPart, LoadsStill
<1>2. NothingAnswered'
  BY DEF ClientInv, NothingAnswered, Told, LoadsStill
<1> QED
  BY <1>1, <1>2

\* The timer issues a write.
LEMMA TimerKeeps ==
  ASSUME ClientInv, TimerFires
  PROVE  ClientInv'
<1>1. /\ timer' = FALSE /\ issued' = issued + 1 /\ LoadsStill
      /\ UNCHANGED <<entries, saved, dirty, finished, write, flusher, clientFaults, lookups>>
  BY DEF TimerFires, loadVars, LoadsStill
<1>2. ClientShape'
  <2>1. issued' \in Nat /\ finished' \in 0 .. issued'
    BY <1>1 DEF ClientInv, ClientShape
  <2> QED
    BY <1>1, <2>1 DEF ClientInv, ClientShape, LoadsStill
<1>3. LoadPart' /\ NothingAnswered'
  BY <1>1, WriterLeavesLoads
<1>4. FreshStays' /\ OwedArrives'
  BY <1>1 DEF ClientInv, FreshStays, OwedArrives, Underway, NoWrite
<1>5. FreshTravels'
  BY <1>1 DEF ClientInv, ClientShape, FreshTravels, Underway, NoWrite
<1> QED
  BY <1>2, <1>3, <1>4, <1>5 DEF ClientInv, LoadPart

\* A flush waits for every write it needs: one more than was issued if something is dirty.
LEMMA FlushKeeps ==
  ASSUME ClientInv, Flush
  PROVE  ClientInv'
<1> DEFINE owed == {k \in Keys : Fresh(entries[k])}
<1>1. /\ timer' = FALSE /\ issued' = (IF dirty THEN issued + 1 ELSE issued) /\ LoadsStill
      /\ flusher' = [pc |-> "waiting", upTo |-> issued', failed |-> FALSE, owed |-> owed]
      /\ UNCHANGED <<entries, saved, dirty, finished, write, clientFaults, lookups>>
  BY DEF Flush, loadVars, LoadsStill
<1>2. issued' \in Nat /\ issued <= issued' /\ finished \in 0 .. issued /\ issued \in Nat
      /\ (dirty => issued' = issued + 1)
  BY <1>1 DEF ClientInv, ClientShape
<1>3. /\ flusher' \in FlushRecord /\ flusher'.upTo = issued' /\ flusher'.owed = owed
  <2>1. owed \in SUBSET Keys
    OBVIOUS
  <2> HIDE DEF owed
  <2> QED
    BY <1>1, <1>2, <2>1 DEF FlushRecord
<1>4. ClientShape'
  <2>1. issued' \in Nat /\ timer' \in BOOLEAN /\ finished' \in 0 .. issued'
    <3>1. finished' = finished /\ timer' = FALSE
      BY <1>1
    <3>2. finished \in 0 .. issued'
      BY <1>2
    <3> QED
      BY <1>2, <3>1, <3>2
  <2> QED
    BY <1>1, <1>3, <2>1 DEF ClientInv, ClientShape, LoadsStill
<1>5. LoadPart' /\ NothingAnswered'
  BY <1>1, WriterLeavesLoads
<1>6. FreshStays'
  BY <1>1 DEF ClientInv, FreshStays
<1>7. FreshTravels'
  BY <1>1, <1>2 DEF ClientInv, FreshTravels, Underway, NoWrite
<1>8. OwedArrives'
  <2> SUFFICES ASSUME NEW k \in owed
               PROVE  /\ Fresh(entries[k])
                      /\ \/ saved[k] = entries[k]
                         \/ Underway(k) /\ finished < issued'
                         \/ dirty /\ finished + (IF write = NoWrite THEN 0 ELSE 1) < issued'
    BY <1>1, <1>3 DEF OwedArrives, Underway, NoWrite
  <2>1. k \in Keys /\ Fresh(entries[k])
    OBVIOUS
  <2>2. saved[k] = entries[k] \/ Underway(k) \/ dirty
    BY <2>1 DEF ClientInv, FreshTravels
  <2>3. (write # NoWrite => finished < issued) /\ (Underway(k) => write # NoWrite)
    BY DEF ClientInv, FreshTravels, Underway, NoWrite
  <2> QED
    BY <1>2, <2>1, <2>2, <2>3
<1> QED
  BY <1>4, <1>5, <1>6, <1>7, <1>8 DEF ClientInv, LoadPart

\* A flush that has returned is owed nothing.
LEMMA FlushReturnsKeeps ==
  ASSUME ClientInv, FlushReturns
  PROVE  ClientInv'
<1>1. /\ flusher' = NoFlush /\ LoadsStill
      /\ UNCHANGED <<entries, saved, dirty, timer, issued, finished, write, clientFaults, lookups>>
  BY DEF FlushReturns, loadVars, LoadsStill
<1>2. NoFlush \in FlushRecord /\ NoFlush.pc = "idle"
  BY DEF NoFlush, FlushRecord
<1>3. ClientShape'
  BY <1>1, <1>2 DEF ClientInv, ClientShape, LoadsStill
<1>4. LoadPart' /\ NothingAnswered'
  BY <1>1, WriterLeavesLoads
<1>5. FreshStays' /\ FreshTravels'
  BY <1>1 DEF ClientInv, FreshStays, FreshTravels, Underway, NoWrite
<1>6. OwedArrives'
  BY <1>1, <1>2 DEF OwedArrives
<1> QED
  BY <1>3, <1>4, <1>5, <1>6 DEF ClientInv, LoadPart
\* A write begins, or ends at once with nothing to do.
LEMMA BeginWriteKeeps ==
  ASSUME ClientInv, BeginWrite
  PROVE  ClientInv'
<1>1. /\ write = NoWrite /\ finished < issued /\ LoadsStill
      /\ UNCHANGED <<entries, saved, timer, issued, flusher, clientFaults, lookups>>
  BY DEF BeginWrite, loadVars, LoadsStill
<1>2. finished \in Nat /\ issued \in Nat /\ (flusher.upTo \in Nat)
  BY DEF ClientInv, ClientShape, FlushRecord
<1>3. CASE dirty
  <2> DEFINE begun1 == [NoWrite EXCEPT !.phase = "mkdir"]
  <2>1. dirty' = FALSE /\ write' = begun1 /\ UNCHANGED finished
    BY <1>3 DEF BeginWrite
  <2>2. write \in WriteRecord /\ write = NoWrite /\ NoWrite.phase = "none"
    BY <1>1 DEF ClientInv, ClientShape, NoWrite
  <2>3. begun1 \in WriteRecord /\ begun1.phase = "mkdir" /\ begun1.payload = NoWrite.payload
    BY <2>2 DEF WriteRecord
  <2>4. \A k \in Keys : NoWrite.payload[k] = NotCached
    BY DEF NoWrite
  <2> HIDE DEF begun1
  <2>5. ClientShape'
    BY <1>1, <2>1, <2>3 DEF ClientInv, ClientShape, LoadsStill
  <2>6. LoadPart' /\ NothingAnswered'
    BY <1>1, <2>1, <2>3, <2>4, WriterLeavesLoads
  <2>7. FreshStays' /\ FreshTravels'
    BY <1>1, <2>1, <2>3 DEF ClientInv, FreshStays, FreshTravels, Underway
  <2>8. OwedArrives'
    <3>1. \A k \in flusher.owed : ~Underway(k)
      BY <2>2 DEF Underway
    <3> QED
      BY <1>1, <1>2, <2>1, <2>3, <3>1 DEF ClientInv, OwedArrives, Underway
  <2> QED
    BY <2>5, <2>6, <2>7, <2>8 DEF ClientInv, LoadPart
<1>4. CASE ~dirty
  <2>1. finished' = finished + 1 /\ UNCHANGED <<dirty, write>>
    BY <1>4 DEF BeginWrite
  <2>2. ClientShape'
    <3>1. finished' \in 0 .. issued
      BY <1>1, <1>2, <2>1
    <3> QED
      BY <1>1, <2>1, <3>1 DEF ClientInv, ClientShape, LoadsStill
  <2>3. LoadPart' /\ NothingAnswered'
    BY <1>1, <2>1, WriterLeavesLoads
  <2>4. FreshStays' /\ FreshTravels'
    BY <1>1, <2>1 DEF ClientInv, FreshStays, FreshTravels, Underway, NoWrite
  <2>5. OwedArrives'
    <3>1. \A k \in flusher.owed : ~Underway(k)
      BY <1>1 DEF Underway, NoWrite
    <3> QED
      BY <1>1, <1>4, <2>1, <3>1 DEF ClientInv, OwedArrives, Underway
  <2> QED
    BY <2>2, <2>3, <2>4, <2>5 DEF ClientInv, LoadPart
<1> QED
  BY <1>3, <1>4

\* The payload is what is cached now.
LEMMA SerialiseKeeps ==
  ASSUME ClientInv, Serialise
  PROVE  ClientInv'
<1>1. /\ write.phase = "mkdir" /\ write' = [phase |-> "renaming", payload |-> entries] /\ LoadsStill
      /\ UNCHANGED <<entries, saved, dirty, timer, issued, finished, flusher, clientFaults, lookups>>
  BY DEF Serialise, loadVars, LoadsStill
<1>2. write' \in WriteRecord /\ write'.phase = "renaming" /\ write'.payload = entries
  BY <1>1 DEF ClientInv, ClientShape, WriteRecord
<1>3. write # NoWrite /\ write' # NoWrite
  BY <1>1, <1>2 DEF NoWrite
<1>4. ClientShape'
  BY <1>1, <1>2 DEF ClientInv, ClientShape, LoadsStill
<1>5. LoadPart' /\ NothingAnswered'
  BY <1>1, <1>2, WriterLeavesLoads
<1>6. FreshStays'
  BY <1>1, <1>2 DEF ClientInv, FreshStays
<1>7. \A k \in Keys : Underway(k) /\ Underway(k)'
  BY <1>1, <1>2 DEF Underway
<1>8. NoWrite' = NoWrite
  BY DEF NoWrite
<1>9. FreshTravels'
  BY <1>1, <1>2, <1>3, <1>7, <1>8 DEF ClientInv, FreshTravels
<1>10. OwedArrives'
  <2>1. flusher.owed \subseteq Keys
    BY DEF ClientInv, ClientShape, FlushRecord
  <2> QED
    BY <1>1, <1>3, <1>7, <1>8, <2>1 DEF ClientInv, OwedArrives
<1> QED
  BY <1>4, <1>5, <1>6, <1>9, <1>10 DEF ClientInv, LoadPart

\* The file is replaced by the payload, which holds all that is fresh in the file.
LEMMA RenameKeeps ==
  ASSUME ClientInv, Rename
  PROVE  ClientInv'
<1>1. /\ write.phase = "renaming" /\ saved' = write.payload /\ write' = NoWrite /\ finished' = finished + 1
      /\ LoadsStill /\ UNCHANGED <<entries, dirty, timer, issued, flusher, clientFaults, lookups>>
  BY DEF Rename, loadVars, LoadsStill
<1>2. /\ NoWrite \in WriteRecord /\ NoWrite.phase = "none" /\ NoWrite' = NoWrite
      /\ \A k \in Keys : NoWrite.payload[k] = NotCached
  BY DEF NoWrite, WriteRecord, CacheMap
<1>3. write # NoWrite
  BY <1>1 DEF NoWrite
<1>4. finished < issued /\ finished \in Nat /\ issued \in Nat /\ flusher.upTo \in Nat
  BY <1>3 DEF ClientInv, ClientShape, FreshTravels, FlushRecord
<1>5. ClientShape'
  <2>1. saved' \in CacheMap
    BY <1>1 DEF ClientInv, ClientShape, WriteRecord
  <2>2. finished' \in 0 .. issued
    BY <1>1, <1>4
  <2> QED
    BY <1>1, <1>2, <2>1, <2>2 DEF ClientInv, ClientShape, LoadsStill
<1>6. LoadPart' /\ NothingAnswered'
  BY <1>1, <1>2, WriterLeavesLoads
<1>7. \A k \in Keys : Fresh(entries[k]) /\ (saved[k] = entries[k] \/ Underway(k)) => saved'[k] = entries[k]
  BY <1>1 DEF ClientInv, FreshStays, Underway
<1>8. FreshStays'
  BY <1>1, <1>2 DEF ClientInv, FreshStays
<1>9. FreshTravels'
  BY <1>1, <1>2, <1>7 DEF ClientInv, FreshTravels
<1>10. OwedArrives'
  <2> SUFFICES ASSUME flusher.pc = "waiting", ~flusher.failed, NEW k \in flusher.owed
               PROVE  /\ Fresh(entries[k])
                      /\ saved'[k] = entries[k] \/ (dirty /\ finished' < flusher.upTo)
    BY <1>1, <1>2, <1>4 DEF OwedArrives
  <2>1. k \in Keys
    BY DEF ClientInv, ClientShape, FlushRecord
  <2>2. /\ Fresh(entries[k])
        /\ saved[k] = entries[k] \/ Underway(k) \/ (dirty /\ finished + 1 < flusher.upTo)
    BY <1>3, <2>1 DEF ClientInv, OwedArrives
  <2> QED
    BY <1>1, <1>7, <2>1, <2>2
<1> QED
  BY <1>5, <1>6, <1>8, <1>9, <1>10 DEF ClientInv, LoadPart

\* A failed write leaves the cache dirty, and every flush that waits learns of it.
LEMMA WriteFailsKeeps ==
  ASSUME ClientInv, WriteFails
  PROVE  ClientInv'
<1> DEFINE told == [flusher EXCEPT !.failed = TRUE]
<1>1. /\ write.phase # "none" /\ dirty' = TRUE /\ write' = NoWrite /\ finished' = finished + 1
      /\ flusher' = told /\ clientFaults' = clientFaults + 1
      /\ LoadsStill /\ UNCHANGED <<entries, saved, timer, issued, lookups>>
  BY DEF WriteFails, loadVars, LoadsStill
<1>2. /\ NoWrite \in WriteRecord /\ NoWrite.phase = "none" /\ NoWrite' = NoWrite
      /\ \A k \in Keys : NoWrite.payload[k] = NotCached
  BY DEF NoWrite, WriteRecord, CacheMap
<1>3. write # NoWrite
  BY <1>1 DEF NoWrite
<1>4. finished < issued /\ finished \in Nat /\ issued \in Nat
  BY <1>3 DEF ClientInv, ClientShape, FreshTravels
<1>5. told \in FlushRecord /\ told.failed = TRUE
  BY DEF ClientInv, ClientShape, FlushRecord
<1> HIDE DEF told
<1>6. ClientShape'
  <2>1. finished' \in 0 .. issued
    BY <1>1, <1>4
  <2> QED
    BY <1>1, <1>2, <1>5, <2>1 DEF ClientInv, ClientShape, LoadsStill
<1>7. LoadPart' /\ NothingAnswered'
  BY <1>1, <1>2, WriterLeavesLoads
<1>8. FreshStays' /\ FreshTravels'
  BY <1>1, <1>2 DEF ClientInv, FreshStays, FreshTravels
<1>9. OwedArrives'
  BY <1>1, <1>5 DEF OwedArrives
<1> QED
  BY <1>6, <1>7, <1>8, <1>9 DEF ClientInv, LoadPart

\* After a kill the next run starts from the file, and only from it.
LEMMA KillKeeps ==
  ASSUME ClientInv, Kill
  PROVE  ClientInv'
<1>1. /\ clientFaults' = clientFaults + 1 /\ entries' = saved /\ dirty' = FALSE /\ timer' = FALSE
      /\ issued' = 0 /\ finished' = 0 /\ write' = NoWrite /\ flusher' = NoFlush
      /\ caller' = [c \in Callers |-> NotAsking] /\ queue' = <<>> /\ client' = NoLoad
      /\ lastStartedAt' = -MinInterval /\ blockedUntil' = 0 /\ made' = 0 /\ now' = 0
      /\ UNCHANGED <<saved, answered, lookups>>
  BY DEF Kill
<1>2. /\ NoWrite \in WriteRecord /\ NoWrite.phase = "none" /\ NoWrite' = NoWrite
      /\ \A k \in Keys : NoWrite.payload[k] = NotCached
  BY DEF NoWrite, WriteRecord, CacheMap
<1>3. NoLoad \in LoadRecord /\ NoLoad.pc = "idle" /\ NotAsking \in CallerRecord
      /\ NoFlush \in FlushRecord /\ NoFlush.pc = "idle"
  BY ClientAssumption DEF NoLoad, LoadRecord, NotAsking, CallerRecord, NoFlush, FlushRecord
<1>4. ClientShape'
  <2>1. 0 \in Times /\ -MinInterval \in Int /\ 0 \in 0 .. MaxRequests /\ 0 \in 0 .. 0 /\ <<>> \in Seq(Keys)
    BY ClientAssumption DEF Times
  <2>2. caller' \in [Callers -> CallerRecord] /\ answered' \subseteq Keys \X {"nothing", "refusal"} /\ saved' \in CacheMap
        /\ entries' \in CacheMap /\ dirty' \in BOOLEAN /\ timer' \in BOOLEAN
    BY <1>1, <1>3 DEF ClientInv, ClientShape
  <2>3. issued' \in Nat /\ finished' \in 0 .. issued' /\ now' \in Times /\ lastStartedAt' \in Int
        /\ blockedUntil' \in Int /\ made' \in 0 .. MaxRequests /\ lookups' \in Nat /\ clientFaults' \in Nat
    BY <1>1, <2>1 DEF ClientInv, ClientShape
  <2>4. write' \in WriteRecord /\ flusher' \in FlushRecord /\ client' \in LoadRecord /\ client'.pc = "idle"
        /\ queue' \in Seq(Keys)
    BY <1>1, <1>2, <1>3, <2>1
  <2> QED
    BY <2>2, <2>3, <2>4 DEF ClientShape
<1>5. LoadPart'
  <2>1. \A k \in Keys : ~InHand(k)' /\ ~Queued(k)'
    BY <1>1, <1>3 DEF InHand, Queued
  <2>2. \A i, j \in 1 .. Len(queue') : queue'[i] = queue'[j] => i = j
    BY <1>1
  <2> QED
    BY <1>1, <1>3, <2>1, <2>2 DEF LoadPart, LoadsApart, SleepsLongEnough
<1>6. NothingAnswered'
  BY <1>1, <1>2 DEF ClientInv, NothingAnswered, Told
<1>7. FreshStays' /\ FreshTravels' /\ OwedArrives'
  BY <1>1, <1>2, <1>3 DEF FreshStays, FreshTravels, OwedArrives
<1> QED
  BY <1>4, <1>5, <1>6, <1>7 DEF ClientInv, LoadPart

-----------------------------------------------------------------------------
(* The theorems of the geocoding client *)

\* A run starts with what an earlier one has left in the file.
LEMMA ClientStarts == ClientInit => ClientInv
<1> SUFFICES ASSUME ClientInit PROVE ClientInv
  OBVIOUS
<1>1. /\ NoWrite \in WriteRecord /\ NoWrite.phase = "none"
      /\ \A k \in Keys : NoWrite.payload[k] = NotCached
  BY DEF NoWrite, WriteRecord, CacheMap
<1>2. NoLoad \in LoadRecord /\ NoLoad.pc = "idle" /\ NotAsking \in CallerRecord
      /\ NoFlush \in FlushRecord /\ NoFlush.pc = "idle"
  BY ClientAssumption DEF NoLoad, LoadRecord, NotAsking, CallerRecord, NoFlush, FlushRecord
<1>3. saved \in CacheMap /\ entries = saved
  BY DEF ClientInit, CacheMap, CachedEntry
<1>4. ClientShape
  <2>1. 0 \in Times /\ -MinInterval \in Int /\ 0 \in 0 .. MaxRequests /\ 0 \in 0 .. 0 /\ <<>> \in Seq(Keys)
    BY ClientAssumption DEF Times
  <2>2. caller \in [Callers -> CallerRecord] /\ answered \subseteq Keys \X {"nothing", "refusal"}
        /\ dirty \in BOOLEAN /\ timer \in BOOLEAN
    <3>1. answered = {<<k, "nothing">> : k \in {x \in Keys : saved[x] # NotCached}}
      BY DEF ClientInit
    <3>2. answered \subseteq Keys \X {"nothing", "refusal"}
      BY <3>1
    <3> QED
      BY <1>2, <3>2 DEF ClientInit
  <2>3. issued \in Nat /\ finished \in 0 .. issued /\ now \in Times /\ lastStartedAt \in Int
        /\ blockedUntil \in Int /\ made \in 0 .. MaxRequests /\ lookups \in Nat /\ clientFaults \in Nat
    BY <2>1 DEF ClientInit
  <2>4. write \in WriteRecord /\ flusher \in FlushRecord /\ client \in LoadRecord /\ client.pc = "idle"
        /\ queue \in Seq(Keys)
    BY <1>1, <1>2, <2>1 DEF ClientInit
  <2> QED
    BY <1>3, <2>2, <2>3, <2>4 DEF ClientShape
<1>5. LoadPart
  <2>1. \A k \in Keys : ~InHand(k) /\ ~Queued(k)
    BY <1>2 DEF ClientInit, InHand, Queued
  <2>2. \A i, j \in 1 .. Len(queue) : queue[i] = queue[j] => i = j
    BY DEF ClientInit
  <2> QED
    BY <1>2, <2>1, <2>2 DEF ClientInit, LoadPart, LoadsApart, SleepsLongEnough
<1>6. NothingAnswered
  BY <1>1, <1>3 DEF ClientInit, NothingAnswered, Told
<1>7. FreshStays /\ FreshTravels /\ OwedArrives
  BY <1>1, <1>2 DEF ClientInit, FreshStays, FreshTravels, OwedArrives
<1> QED
  BY <1>4, <1>5, <1>6, <1>7 DEF ClientInv, LoadPart

\* Every step preserves the invariant.
LEMMA ClientSteps == ClientInv /\ [ClientNext]_clientVars => ClientInv'
<1> SUFFICES ASSUME ClientInv, [ClientNext]_clientVars PROVE ClientInv'
  OBVIOUS
<1>1. CASE UNCHANGED clientVars
  <2>1. /\ LoadsStill
        /\ UNCHANGED <<entries, saved, dirty, timer, issued, finished, write, flusher, clientFaults, lookups>>
    BY <1>1 DEF clientVars, cacheVars, loadVars, LoadsStill
  <2>2. ClientShape'
    BY <2>1 DEF ClientInv, ClientShape, LoadsStill
  <2>3. LoadPart' /\ NothingAnswered'
    BY <2>1, WriterLeavesLoads
  <2>4. CachePart'
    BY <2>1, CacheUntouched DEF ClientInv, CachePart
  <2> QED
    BY <2>2, <2>3, <2>4 DEF ClientInv, LoadPart, CachePart
<1>2. CASE \E c \in Callers, k \in Keys : Lookup(c, k)
  BY <1>2, LookupKeeps
<1>3. CASE \E c \in Callers : Hear(c)
  BY <1>3, HearKeeps
<1>4. CASE LoadStep
  BY <1>4, StartLoadKeeps, GateKeeps, RequestKeeps DEF LoadStep
<1>5. CASE Response
  <2>1. CASE Unanswered \/ \E a \in RetryAfters : Refused(a)
    BY <2>1, UnansweredKeeps
  <2>2. CASE \E o \in {Place, Nothing} : Answered(o)
    BY <2>2, DecodedKeeps DEF Answered
  <2>3. CASE RefusedInBody
    BY <2>3, DecodedKeeps DEF RefusedInBody
  <2> QED
    BY <1>5, <2>1, <2>2, <2>3 DEF Response
<1>6. CASE ClockAdvances
  BY <1>6, ClockKeeps
<1>7. CASE TimerFires \/ Flush \/ FlushReturns
  BY <1>7, TimerKeeps, FlushKeeps, FlushReturnsKeeps
<1>8. CASE WriteStep
  BY <1>8, BeginWriteKeeps, SerialiseKeeps, RenameKeeps, WriteFailsKeeps DEF WriteStep
<1>9. CASE Kill
  BY <1>9, KillKeeps
<1> QED
  BY <1>1, <1>2, <1>3, <1>4, <1>5, <1>6, <1>7, <1>8, <1>9 DEF ClientNext

\* The invariant says that types are kept and every negative entry was told.
LEMMA ClientInvEnough == ClientInv => ClientTypeOK /\ NegativeMeansAnswered
<1> SUFFICES ASSUME ClientInv PROVE ClientTypeOK /\ NegativeMeansAnswered
  OBVIOUS
<1>1. ClientTypeOK
  BY DEF ClientInv, ClientShape, ClientTypeOK, CallerRecord, LoadRecord
<1>2. NegativeMeansAnswered
  BY DEF ClientInv, NothingAnswered, Told, NegativeMeansAnswered
<1> QED
  BY <1>1, <1>2

\* The variables of the geocoding client keep their types; no load is retried more often, and no
\* record spends more requests, than allowed.
THEOREM ClientTypes == ClientSpec => []ClientTypeOK
BY ClientStarts, ClientSteps, ClientInvEnough, PTL DEF ClientSpec

\* A negative entry comes from a body of the provider, and from a refusal only where Baidu or Amap
\* states it in a body with HTTP 200 (lookup.ts, providers.ts).
THEOREM NegativesAreAnswered == ClientSpec => []NegativeMeansAnswered
BY ClientStarts, ClientSteps, ClientInvEnough, PTL DEF ClientSpec

\* Requests keep the interval and the pause the provider asked for (http.ts).
THEOREM RequestsArePolite == ClientSpec => Polite
<1>1. ClientInv /\ [ClientNext]_clientVars =>
        (made' > made => now >= lastStartedAt + MinInterval /\ now >= blockedUntil)
  <2> SUFFICES ASSUME ClientInv, [ClientNext]_clientVars, made' > made
               PROVE  now >= lastStartedAt + MinInterval /\ now >= blockedUntil
    OBVIOUS
  <2>1. made \in Int /\ ~(made > made) /\ ~(0 > made)
    BY DEF ClientInv, ClientShape
  <2>2. Request
    BY <2>1 DEF ClientNext, clientVars, cacheVars, loadVars, Lookup, Hear, LoadStep, StartLoad, Gate,
       Response, Unanswered, Refused, Answered, RefusedInBody, Decoded, ClockAdvances, TimerFires, Flush, FlushReturns, WriteStep,
       BeginWrite, Serialise, Rename, WriteFails, Kill
  <2>3. client.pc = "sleeping" /\ now >= client.wakeAt
    BY <2>2 DEF Request
  <2>4. client.wakeAt \in Int /\ now \in Int /\ lastStartedAt \in Int /\ blockedUntil \in Int /\ MinInterval \in Int
    BY ClientAssumption DEF ClientInv, ClientShape, LoadRecord, Times
  <2> QED
    BY <2>3, <2>4 DEF ClientInv, SleepsLongEnough
<1> QED
  BY <1>1, ClientStarts, ClientSteps, PTL DEF ClientSpec, Polite

\* What was cached when flush was called is in the file when it returns (cache.ts).
THEOREM FlushesSave == ClientSpec => FlushedMeansSaved
<1>1. ClientInv /\ [ClientNext]_clientVars =>
        (flusher.pc = "waiting" /\ flusher' = NoFlush /\ clientFaults' = clientFaults /\ ~flusher.failed =>
           \A k \in flusher.owed : saved[k] = entries[k])
  <2> SUFFICES ASSUME ClientInv, [ClientNext]_clientVars, flusher.pc = "waiting", flusher' = NoFlush,
                      clientFaults' = clientFaults, ~flusher.failed, NEW k \in flusher.owed
               PROVE  saved[k] = entries[k]
    OBVIOUS
  <2>1. flusher # NoFlush /\ clientFaults # clientFaults + 1
    BY DEF NoFlush, ClientInv, ClientShape
  <2>2. FlushReturns
    <3>1. ~Flush /\ ~WriteFails /\ ~Kill
      BY <2>1 DEF Flush, WriteFails, Kill
    <3> QED
      BY <2>1, <3>1 DEF ClientNext, clientVars, cacheVars, loadVars, Lookup, Hear, LoadStep, StartLoad, Gate,
         Request, Response, Unanswered, Refused, Answered, RefusedInBody, Decoded, ClockAdvances, TimerFires, WriteStep,
         BeginWrite, Serialise, Rename
  <2>3. finished >= flusher.upTo /\ finished \in Int /\ flusher.upTo \in Int
    BY <2>2 DEF FlushReturns, ClientInv, ClientShape, FlushRecord
  <2> QED
    BY <2>3 DEF ClientInv, OwedArrives
<1> QED
  BY <1>1, ClientStarts, ClientSteps, PTL DEF ClientSpec, FlushedMeansSaved

-----------------------------------------------------------------------------
(* LISTS AND FOLDS *)

\* A set of naturals that is not empty has a least element.
LEMMA LeastExists ==
  ASSUME NEW T, T \subseteq Nat, T # {}
  PROVE  \E n \in T : \A m \in T : n <= m
<1> DEFINE R == OpToRel(<, Nat)
<1>1. IsWellFoundedOn(R, Nat)
  BY NatLessThanWellFounded
<1>2. \A x, y \in Nat : y < x => <<y, x>> \in R
  BY DEF OpToRel
<1> HIDE DEF R
<1>3. PICK n \in T : \A m \in T : ~(<<m, n>> \in R)
  BY <1>1, WFMin
<1>4. ASSUME NEW m \in T PROVE n <= m
  <2>1. n \in Nat /\ m \in Nat /\ ~(m < n)
    BY <1>2, <1>3
  <2> QED
    BY <2>1
<1> QED
  BY <1>4

\* A fold exists when every step leads from what may be reached to what may be reached.
FoldRule(n, S, step, base, f, k) ==
  /\ f = [i \in 0 .. n |-> f[i]] /\ f[0] = base
  /\ \A i \in 1 .. k : f[i - 1] \in S[i - 1] /\ f[i] \in S[i] /\ f[i] = step[<<i, f[i - 1]>>]

\* The recursive function of a fold exists and stays in S, or a least number of entries would fail.
LEMMA FoldExists ==
  ASSUME NEW n \in Nat, NEW S, NEW step, NEW base, base \in S[0],
         \A k \in 1 .. n : \A s \in S[k - 1] : step[<<k, s>>] \in S[k]
  PROVE  \E f : FoldRule(n, S, step, base, f, n)
<1> DEFINE missing == {k \in 0 .. n : ~\E f : FoldRule(n, S, step, base, f, k)}
<1>1. SUFFICES ASSUME missing # {} PROVE FALSE
  <2>1. n \in 0 .. n
    OBVIOUS
  <2> QED
    BY <1>1, <2>1
<1>2. PICK k \in missing : \A m \in missing : k <= m
  <2>1. missing \subseteq Nat
    OBVIOUS
  <2> HIDE DEF missing
  <2> QED
    BY <1>1, <2>1, LeastExists
<1>3. CASE k = 0
  <2> DEFINE f == [i \in 0 .. n |-> base]
  <2>1. FoldRule(n, S, step, base, f, 0)
    BY DEF FoldRule
  <2> QED
    BY <1>2, <1>3, <2>1
<1>4. CASE k # 0
  <2>1. k \in 1 .. n /\ k - 1 \in 0 .. n /\ k - 1 \notin missing
    <3>1. k \in 1 .. n /\ k - 1 \in 0 .. n /\ ~(k <= k - 1)
      BY <1>2, <1>4
    <3> HIDE DEF missing
    <3> QED
      BY <1>2, <3>1
  <2>2. PICK f : FoldRule(n, S, step, base, f, k - 1)
    BY <2>1
  <2>3. f[k - 1] \in S[k - 1]
    <3>1. CASE k = 1
      BY <2>2, <3>1 DEF FoldRule
    <3>2. CASE k # 1
      <4>1. k - 1 \in 1 .. k - 1
        BY <2>1, <3>2
      <4> QED
        BY <2>2, <4>1 DEF FoldRule
    <3> QED
      BY <3>1, <3>2
  <2> DEFINE next == [i \in 0 .. n |-> IF i = k THEN step[<<k, f[k - 1]>>] ELSE f[i]]
  <2>4. next = [i \in 0 .. n |-> next[i]]
    OBVIOUS
  <2>5. next[k] = step[<<k, f[k - 1]>>] /\ next[k] \in S[k]
    BY <2>1, <2>3
  <2>6. next[0] = base
    BY <2>1, <2>2 DEF FoldRule
  <2>7. \A i \in 0 .. n : i # k => next[i] = f[i]
    OBVIOUS
  <2> HIDE DEF next
  <2>8. ASSUME NEW i \in 1 .. k
        PROVE  next[i - 1] \in S[i - 1] /\ next[i] \in S[i] /\ next[i] = step[<<i, next[i - 1]>>]
    <3>1. i - 1 \in 0 .. n /\ i - 1 # k /\ i \in 0 .. n
      BY <2>1
    <3>2. next[i - 1] = f[i - 1]
      BY <2>7, <3>1
    <3>3. CASE i = k
      BY <2>3, <2>5, <3>2, <3>3
    <3>4. CASE i # k
      <4>1. i \in 1 .. k - 1 /\ next[i] = f[i]
        BY <2>1, <2>7, <3>1, <3>4
      <4> QED
        BY <2>2, <3>2, <4>1 DEF FoldRule
    <3> QED
      BY <3>3, <3>4
  <2>9. FoldRule(n, S, step, base, next, k)
    BY <2>4, <2>6, <2>8 DEF FoldRule
  <2> QED
    BY <1>2, <2>9
<1> QED
  BY <1>3, <1>4

\* A fold stays in a set its base is in and its steps do not leave.
LEMMA FoldIn ==
  ASSUME NEW n \in Nat, NEW S, NEW f, f[0] \in S[0],
         \A k \in 1 .. n : f[k - 1] \in S[k - 1] => f[k] \in S[k]
  PROVE  f[n] \in S[n]
<1> DEFINE outside == {k \in 0 .. n : f[k] \notin S[k]}
<1>1. SUFFICES ASSUME outside # {} PROVE FALSE
  <2>1. n \in 0 .. n
    OBVIOUS
  <2> QED
    BY <1>1, <2>1
<1>2. PICK k \in outside : \A m \in outside : k <= m
  <2>1. outside \subseteq Nat
    OBVIOUS
  <2> HIDE DEF outside
  <2> QED
    BY <1>1, <2>1, LeastExists
<1>3. k \in 1 .. n /\ k - 1 \in 0 .. n /\ ~(k <= k - 1)
  BY <1>2
<1>4. f[k - 1] \in S[k - 1]
  BY <1>2, <1>3
<1> QED
  BY <1>2, <1>3, <1>4

-----------------------------------------------------------------------------
(* LISTS *)

\* Whatever is a sequence of something is a list.
LEMMA ListOf ==
  ASSUME NEW X, NEW s \in Seq(X)
  PROVE  /\ IsList(s) /\ Len(s) \in Nat /\ DOMAIN s = 1 .. Len(s)
         /\ s = [i \in 1 .. Len(s) |-> s[i]]
<1>1. Len(s) \in Nat /\ DOMAIN s = 1 .. Len(s) /\ s = [i \in 1 .. Len(s) |-> s[i]]
  OBVIOUS
<1>2. s \in Seq({s[i] : i \in DOMAIN s})
  BY <1>1
<1> QED
  BY <1>1, <1>2 DEF IsList

\* What a list is: its length, its domain, its entries.
LEMMA Lists ==
  ASSUME NEW s, IsList(s)
  PROVE  /\ Len(s) \in Nat /\ DOMAIN s = 1 .. Len(s) /\ s = [i \in 1 .. Len(s) |-> s[i]]
         /\ s \in Seq({s[i] : i \in DOMAIN s})
BY ListOf DEF IsList

\* The empty list and the list of one entry.
LEMMA NoneIsList == IsList(<<>>)
BY ListOf, <<>> \in Seq({})

LEMMA OneIsList == ASSUME NEW x PROVE IsList(<<x>>)
BY ListOf, <<x>> \in Seq({x})

\* A function on 1 .. n is a list.
LEMMA ListByRule ==
  ASSUME NEW n \in Nat, NEW f, f = [i \in 1 .. n |-> f[i]]
  PROVE  IsList(f) /\ Len(f) = n
<1>1. f \in [1 .. n -> {f[i] : i \in 1 .. n}]
  BY Zenon
<1>2. f \in Seq({f[i] : i \in 1 .. n})
  BY <1>1
<1> QED
  BY <1>1, <1>2, ListOf

\* Two lists joined are a list, the entries of the first before those of the second.
LEMMA Joined ==
  ASSUME NEW s, NEW t, IsList(s), IsList(t)
  PROVE  /\ IsList(s \o t) /\ Len(s \o t) = Len(s) + Len(t)
         /\ \A i \in 1 .. Len(s) : (s \o t)[i] = s[i]
         /\ \A i \in 1 .. Len(t) : (s \o t)[Len(s) + i] = t[i]
         /\ \A i \in DOMAIN (s \o t) : i \in DOMAIN s \/ (i > Len(s) /\ i - Len(s) \in DOMAIN t)
<1> DEFINE X == {s[i] : i \in DOMAIN s} \cup {t[i] : i \in DOMAIN t}
<1>1. s \in Seq(X) /\ t \in Seq(X)
  <2>1. s \in Seq({s[i] : i \in DOMAIN s}) /\ t \in Seq({t[i] : i \in DOMAIN t})
    BY DEF IsList
  <2> QED
    BY <2>1
<1> HIDE DEF X
<1>2. s \o t \in Seq(X)
  BY <1>1
<1>3. IsList(s \o t)
  BY <1>2, ListOf
<1> QED
  BY <1>1, <1>2, <1>3

\* A list with one more entry at its end.
LEMMA Appended ==
  ASSUME NEW s, NEW x, IsList(s)
  PROVE  /\ IsList(Append(s, x)) /\ Len(Append(s, x)) = Len(s) + 1
         /\ DOMAIN Append(s, x) = 1 .. Len(s) + 1
         /\ \A i \in 1 .. Len(s) : Append(s, x)[i] = s[i]
         /\ Append(s, x)[Len(s) + 1] = x
<1> DEFINE X == {s[i] : i \in DOMAIN s} \cup {x}
<1>1. s \in Seq(X) /\ x \in X
  <2>1. s \in Seq({s[i] : i \in DOMAIN s})
    BY DEF IsList
  <2> QED
    BY <2>1
<1> HIDE DEF X
<1>2. Append(s, x) \in Seq(X)
  BY <1>1
<1>3. IsList(Append(s, x))
  BY <1>2, ListOf
<1> QED
  BY <1>1, <1>2, <1>3
\* The entries of q are entries of the list at different places.
Draws(q, list, places, at) ==
  /\ \A a \in DOMAIN q : at[a] \in places /\ at[a] \in DOMAIN list /\ q[a] = list[at[a]]
  /\ \A a, b \in DOMAIN q : at[a] = at[b] => a = b
Drawn(q, list, places) == IsList(q) /\ \E at : Draws(q, list, places, at)

\* One more chosen place adds its entry.
LEMMA DrawOne ==
  ASSUME NEW list, NEW places, NEW k \in places, k \in DOMAIN list, NEW before, k \notin before,
         NEW q, Drawn(q, list, before), before \subseteq places
  PROVE  Drawn(Append(q, list[k]), list, places)
<1>1. PICK at : Draws(q, list, before, at)
  BY DEF Drawn
<1> DEFINE new == Append(q, list[k])
           place == [a \in 1 .. Len(q) + 1 |-> IF a = Len(q) + 1 THEN k ELSE at[a]]
<1>2. IsList(q) /\ IsList(new) /\ Len(q) \in Nat /\ DOMAIN q = 1 .. Len(q)
  BY Appended, Lists DEF Drawn
<1>3. /\ DOMAIN new = 1 .. Len(q) + 1
      /\ \A a \in 1 .. Len(q) : new[a] = q[a]
      /\ new[Len(q) + 1] = list[k]
  BY <1>2, Appended
<1>4. /\ place[Len(q) + 1] = k
      /\ \A a \in 1 .. Len(q) : place[a] = at[a] /\ place[a] \in before
  BY <1>1, <1>2 DEF Draws
<1> HIDE DEF place, new
<1>5. ASSUME NEW a \in DOMAIN new
      PROVE  place[a] \in places /\ place[a] \in DOMAIN list /\ new[a] = list[place[a]]
  <2>1. CASE a = Len(q) + 1
    BY <1>3, <1>4, <2>1
  <2>2. CASE a \in 1 .. Len(q)
    BY <1>1, <1>2, <1>3, <1>4, <2>2 DEF Draws
  <2> QED
    BY <1>2, <1>3, <2>1, <2>2
<1>6. ASSUME NEW a \in DOMAIN new, NEW b \in DOMAIN new, place[a] = place[b] PROVE a = b
  <2>1. CASE a = Len(q) + 1 /\ b = Len(q) + 1
    BY <2>1
  <2>2. CASE a = Len(q) + 1 /\ b \in 1 .. Len(q)
    BY <1>4, <1>6, <2>2
  <2>3. CASE a \in 1 .. Len(q) /\ b = Len(q) + 1
    BY <1>4, <1>6, <2>3
  <2>4. CASE a \in 1 .. Len(q) /\ b \in 1 .. Len(q)
    BY <1>1, <1>2, <1>4, <1>6, <2>4 DEF Draws
  <2> QED
    BY <1>2, <1>3, <2>1, <2>2, <2>3, <2>4
<1>7. Draws(new, list, places, place)
  BY <1>5, <1>6 DEF Draws
<1> QED
  BY <1>2, <1>7 DEF Drawn, new

\* PickFrom gives a list whose entries come from different places among the chosen ones.
LEMMA Picked ==
  ASSUME NEW list, IsList(list), NEW places
  PROVE  Drawn(PickFrom(list, places), list, places)
<1> DEFINE n == Len(list)
           X == {list[i] : i \in DOMAIN list}
           Good(k) == {q \in Seq(X) : Drawn(q, list, places \cap (1 .. k))}
           S == [k \in 0 .. n |-> Good(k)]
           op(q, i) == IF i \in places THEN Append(q, list[i]) ELSE q
           all == [i \in 1 .. n |-> i]
           step == [p \in (1 .. n) \X Seq(X) |-> op(p[2], all[p[1]])]
           solves(f) == f = [k \in 0 .. n |-> IF k = 0 THEN <<>> ELSE op(f[k - 1], all[k])]
           it == CHOOSE f : solves(f)
<1>1. n \in Nat /\ DOMAIN list = 1 .. n /\ Len(all) = n
  <2>1. all \in Seq(Nat)
    BY Lists
  <2> QED
    BY Lists, <2>1
<1>2. PickFrom(list, places) = it[n]
  <2>1. PickFrom(list, places) = Folded(op, <<>>, all)
    BY DEF PickFrom
  <2>2. Folded(op, <<>>, all) = (CHOOSE f : f = [k \in 0 .. Len(all) |-> IF k = 0 THEN <<>> ELSE op(f[k - 1], all[k])])[Len(all)]
    BY DEF Folded
  <2> QED
    BY <1>1, <2>1, <2>2
<1>3. <<>> \in Good(0)
  <2>1. Draws(<<>>, list, places \cap (1 .. 0), <<>>)
    BY DEF Draws
  <2> QED
    BY <2>1, NoneIsList DEF Drawn
<1>4. ASSUME NEW k \in 1 .. n, NEW q \in Good(k - 1) PROVE op(q, all[k]) \in Good(k)
  <2>1. all[k] = k /\ k \in DOMAIN list /\ list[k] \in X
    BY <1>1
  <2>2. CASE k \in places
    <3>1. op(q, all[k]) = Append(q, list[k]) /\ Append(q, list[k]) \in Seq(X)
      BY <2>1, <2>2
    <3>2. k \in places \cap (1 .. k) /\ k \notin places \cap (1 .. k - 1)
      BY <1>1, <2>2
    <3>3. places \cap (1 .. k - 1) \subseteq places \cap (1 .. k)
      BY <1>1
    <3>4. Drawn(Append(q, list[k]), list, places \cap (1 .. k))
      BY <2>1, <3>2, <3>3, DrawOne
    <3> QED
      BY <3>1, <3>4
  <2>3. CASE k \notin places
    <3>1. op(q, all[k]) = q /\ places \cap (1 .. k - 1) = places \cap (1 .. k)
      BY <1>1, <2>1, <2>3
    <3> QED
      BY <3>1
  <2> QED
    BY <2>2, <2>3
<1> HIDE DEF Good, op, all
<1>5. \A k \in 1 .. n : \A q \in S[k - 1] : step[<<k, q>>] = op(q, all[k]) /\ op(q, all[k]) \in S[k]
  <2>1. ASSUME NEW k \in 1 .. n, NEW q \in S[k - 1] PROVE step[<<k, q>>] = op(q, all[k]) /\ op(q, all[k]) \in S[k]
    <3>1. S[k - 1] = Good(k - 1) /\ S[k] = Good(k) /\ q \in Seq(X)
      BY <1>1 DEF Good
    <3> QED
      BY <1>4, <3>1
  <2> QED
    BY <2>1
<1>6. <<>> \in S[0]
  BY <1>1, <1>3
<1> HIDE DEF S, step, n
<1>7. PICK f : FoldRule(n, S, step, <<>>, f, n)
  BY <1>1, <1>5, <1>6, FoldExists
<1>8. solves(f)
  <2>1. ASSUME NEW k \in 0 .. n PROVE f[k] = IF k = 0 THEN <<>> ELSE op(f[k - 1], all[k])
    <3>1. CASE k = 0
      BY <1>7, <3>1 DEF FoldRule
    <3>2. CASE k # 0
      <4>1. k \in 1 .. n
        BY <1>1, <3>2
      <4>2. f[k - 1] \in S[k - 1] /\ f[k] = step[<<k, f[k - 1]>>]
        BY <1>7, <4>1 DEF FoldRule
      <4>3. step[<<k, f[k - 1]>>] = op(f[k - 1], all[k])
        BY <1>5, <4>1, <4>2
      <4> QED
        BY <3>2, <4>2, <4>3
    <3> QED
      BY <3>1, <3>2
  <2> QED
    BY <1>7, <2>1 DEF FoldRule
<1>9. solves(it)
  BY <1>8
<1> HIDE DEF it
<1>10. it[0] = <<>> /\ \A k \in 1 .. n : it[k] = op(it[k - 1], all[k])
  BY <1>1, <1>9
<1>11. it[n] \in S[n]
  <2>1. \A k \in 1 .. n : it[k - 1] \in S[k - 1] => it[k] \in S[k]
    BY <1>5, <1>10
  <2>2. it[0] \in S[0]
    BY <1>6, <1>10
  <2> QED
    BY <1>1, <2>1, <2>2, FoldIn
<1>12. S[n] = Good(n) /\ places \cap (1 .. n) \subseteq places
  BY <1>1 DEF S
<1> QED
  BY <1>2, <1>11, <1>12 DEF Good, Drawn, Draws
-----------------------------------------------------------------------------
(* DEDUPLICATION *)

\* The preferred of two hints is one of them.
LEMMA EitherHint == \A l, r : MoreSpecificHint(l, r) \in {l, r}
BY DEF MoreSpecificHint

\* At most one entry per kind and address.
OnePerAddress(q) == \A a, b \in DOMAIN q : SameAddress(q[a], q[b]) => a = b

\* A candidate merged brings no other keys and no second entry of an address.
LEMMA MergedAddsNothing ==
  ASSUME NEW q, IsList(q), NEW c, NEW keys, KeysOf(q) \subseteq keys, ComparisonKey(c) \in keys,
         OnePerAddress(q)
  PROVE  /\ KeysOf(Merged(q, c)) \subseteq keys
         /\ OnePerAddress(Merged(q, c))
<1> DEFINE m == Merged(q, c)
<1>1. DOMAIN q = 1 .. Len(q) /\ Len(q) \in Nat
  BY Lists
<1>2. CASE \E i \in DOMAIN q : SameAddress(q[i], c)
  <2>1. /\ DOMAIN m = DOMAIN q
        /\ \A i \in DOMAIN q :
             m[i] = IF SameAddress(q[i], c)
                    THEN Candidate(q[i].kind, q[i].address, MoreSpecificHint(q[i].hint, c.hint), q[i].source)
                    ELSE q[i]
    BY <1>2 DEF Merged
  <2> HIDE DEF m
  <2>2. ASSUME NEW i \in DOMAIN q
        PROVE  m[i].kind = q[i].kind /\ m[i].address = q[i].address /\ ComparisonKey(m[i]) \in keys
    <3>1. CASE SameAddress(q[i], c)
      <4> DEFINE h == MoreSpecificHint(q[i].hint, c.hint)
      <4>1. m[i] = Candidate(q[i].kind, q[i].address, h, q[i].source)
        BY <2>1, <3>1
      <4>2. h \in {q[i].hint, c.hint}
        BY EitherHint
      <4> HIDE DEF h
      <4>3. m[i].kind = q[i].kind /\ m[i].address = q[i].address /\ m[i].hint = h
        BY <4>1 DEF Candidate
      <4>4. ComparisonKey(m[i]) \in {ComparisonKey(q[i]), ComparisonKey(c)}
        BY <3>1, <4>2, <4>3 DEF ComparisonKey, SameAddress
      <4>5. ComparisonKey(q[i]) \in keys
        BY DEF KeysOf
      <4> QED
        BY <4>3, <4>4, <4>5
    <3>2. CASE ~SameAddress(q[i], c)
      BY <2>1, <3>2 DEF KeysOf
    <3> QED
      BY <3>1, <3>2
  <2> QED
    BY <2>1, <2>2 DEF KeysOf, OnePerAddress, SameAddress, m
<1>3. CASE ~\E i \in DOMAIN q : SameAddress(q[i], c)
  <2>1. /\ DOMAIN m = 1 .. Len(q) + 1
        /\ \A i \in 1 .. Len(q) : m[i] = q[i]
        /\ m[Len(q) + 1] = c
    BY <1>3, Appended DEF Merged
  <2> HIDE DEF m
  <2>2. ASSUME NEW i \in DOMAIN m PROVE i \in DOMAIN q \/ i = Len(q) + 1
    BY <1>1, <2>1
  <2>3. KeysOf(m) \subseteq keys
    BY <1>1, <2>1, <2>2 DEF KeysOf
  <2>4. ASSUME NEW a \in DOMAIN m, NEW b \in DOMAIN m, SameAddress(m[a], m[b]) PROVE a = b
    <3>1. CASE a \in DOMAIN q /\ b \in DOMAIN q
      BY <1>1, <2>1, <2>4, <3>1 DEF OnePerAddress
    <3>2. CASE a \in DOMAIN q /\ b = Len(q) + 1
      BY <1>1, <1>3, <2>1, <2>4, <3>2
    <3>3. CASE a = Len(q) + 1 /\ b \in DOMAIN q
      BY <1>1, <1>3, <2>1, <2>4, <3>3 DEF SameAddress
    <3>4. CASE a = Len(q) + 1 /\ b = Len(q) + 1
      BY <3>4
    <3> QED
      BY <2>2, <3>1, <3>2, <3>3, <3>4
  <2> QED
    BY <2>3, <2>4 DEF OnePerAddress, m
<1> QED
  BY <1>2, <1>3

\* Whatever a merged entry says was said by an entry of the list.
LEMMA MergedStays ==
  ASSUME NEW K, NEW A, NEW H, NEW O, NEW own,
         \A x \in own : x.kind \in K /\ x.address \in A /\ x.hint \in H /\ x.source \in O,
         NEW q \in Seq(own \cup [kind : K, address : A, hint : H, source : O]), NEW c \in own
  PROVE  Merged(q, c) \in Seq(own \cup [kind : K, address : A, hint : H, source : O])
<1> DEFINE X == own \cup [kind : K, address : A, hint : H, source : O]
           m == Merged(q, c)
<1>1. \A x \in X : x.kind \in K /\ x.address \in A /\ x.hint \in H /\ x.source \in O
  OBVIOUS
<1>2. Len(q) \in Nat /\ DOMAIN q = 1 .. Len(q) /\ \A i \in DOMAIN q : q[i] \in X
  OBVIOUS
<1>3. CASE \E i \in DOMAIN q : SameAddress(q[i], c)
  <2>1. m = [i \in 1 .. Len(q) |->
               IF SameAddress(q[i], c)
               THEN Candidate(q[i].kind, q[i].address, MoreSpecificHint(q[i].hint, c.hint), q[i].source)
               ELSE q[i]]
    BY <1>2, <1>3 DEF Merged
  <2>2. ASSUME NEW i \in 1 .. Len(q)
        PROVE  Candidate(q[i].kind, q[i].address, MoreSpecificHint(q[i].hint, c.hint), q[i].source) \in X
    <3>1. q[i].kind \in K /\ q[i].address \in A /\ q[i].hint \in H /\ q[i].source \in O /\ c.hint \in H
      BY <1>1, <1>2
    <3>2. MoreSpecificHint(q[i].hint, c.hint) \in H
      BY <3>1, EitherHint
    <3> QED
      BY <3>1, <3>2 DEF Candidate
  <2> HIDE DEF X, m
  <2>3. m \in [1 .. Len(q) -> X]
    BY <1>2, <2>1, <2>2
  <2> QED
    BY <1>2, <2>3 DEF X, m
<1>4. CASE ~\E i \in DOMAIN q : SameAddress(q[i], c)
  <2>1. m = Append(q, c) /\ c \in X
    BY <1>4 DEF Merged
  <2> QED
    BY <2>1
<1> QED
  BY <1>3, <1>4

\* DedupeCandidates keeps one entry per address, with keys that were there.
LEMMA Deduped ==
  ASSUME NEW list, IsList(list)
  PROVE  LET d == DedupeCandidates(list)
         IN  IsList(d) /\ KeysOf(d) \subseteq KeysOf(list) /\ OnePerAddress(d)
<1> DEFINE n == Len(list)
           own == {list[i] : i \in DOMAIN list}
           K == {x.kind : x \in own}
           A == {x.address : x \in own}
           H == {x.hint : x \in own}
           O == {x.source : x \in own}
           X == own \cup [kind : K, address : A, hint : H, source : O]
           good == {q \in Seq(X) : KeysOf(q) \subseteq KeysOf(list) /\ OnePerAddress(q)}
           S == [k \in 0 .. n |-> good]
           step == [p \in (1 .. n) \X good |-> Merged(p[2], list[p[1]])]
           solves(f) == f = [k \in 0 .. n |-> IF k = 0 THEN <<>> ELSE Merged(f[k - 1], list[k])]
           it == CHOOSE f : solves(f)
<1>1. n \in Nat /\ DOMAIN list = 1 .. n
  BY Lists
<1>2. DedupeCandidates(list) = it[n]
  BY DEF DedupeCandidates, Folded
<1>3. <<>> \in good
  BY DEF KeysOf, OnePerAddress
<1>4. ASSUME NEW k \in 1 .. n, NEW q \in good PROVE Merged(q, list[k]) \in good
  <2>1. list[k] \in own /\ ComparisonKey(list[k]) \in KeysOf(list)
    BY <1>1 DEF KeysOf
  <2>2. q \in Seq(X) /\ KeysOf(q) \subseteq KeysOf(list) /\ OnePerAddress(q)
    OBVIOUS
  <2>3. \A x \in own : x.kind \in K /\ x.address \in A /\ x.hint \in H /\ x.source \in O
    OBVIOUS
  <2> HIDE DEF own, K, A, H, O
  <2>4. Merged(q, list[k]) \in Seq(X)
    BY <2>1, <2>2, <2>3, MergedStays
  <2>5. KeysOf(Merged(q, list[k])) \subseteq KeysOf(list) /\ OnePerAddress(Merged(q, list[k]))
    BY <2>1, <2>2, ListOf, MergedAddsNothing
  <2> QED
    BY <2>4, <2>5
<1> HIDE DEF good
<1>5. \A k \in 1 .. n : \A q \in S[k - 1] : step[<<k, q>>] = Merged(q, list[k]) /\ Merged(q, list[k]) \in S[k]
  <2>1. \A k \in 1 .. n : S[k - 1] = good /\ S[k] = good
    BY <1>1
  <2> QED
    BY <1>4, <2>1
<1>6. <<>> \in S[0]
  BY <1>1, <1>3
<1> HIDE DEF S, step, n
<1>7. PICK f : FoldRule(n, S, step, <<>>, f, n)
  BY <1>1, <1>5, <1>6, FoldExists
<1>8. solves(f)
  <2>1. ASSUME NEW k \in 0 .. n PROVE f[k] = IF k = 0 THEN <<>> ELSE Merged(f[k - 1], list[k])
    <3>1. CASE k = 0
      BY <1>7, <3>1 DEF FoldRule
    <3>2. CASE k # 0
      <4>1. k \in 1 .. n
        BY <1>1, <3>2
      <4>2. f[k - 1] \in S[k - 1] /\ f[k] = step[<<k, f[k - 1]>>]
        BY <1>7, <4>1 DEF FoldRule
      <4>3. step[<<k, f[k - 1]>>] = Merged(f[k - 1], list[k])
        BY <1>5, <4>1, <4>2
      <4> QED
        BY <3>2, <4>2, <4>3
    <3> QED
      BY <3>1, <3>2
  <2> QED
    BY <1>7, <2>1 DEF FoldRule
<1>9. solves(it)
  BY <1>8
<1> HIDE DEF it
<1>10. it[0] = <<>> /\ \A k \in 1 .. n : it[k] = Merged(it[k - 1], list[k])
  BY <1>1, <1>9
<1>11. it[n] \in S[n]
  <2>1. \A k \in 1 .. n : it[k - 1] \in S[k - 1] => it[k] \in S[k]
    BY <1>5, <1>10
  <2>2. it[0] \in S[0]
    BY <1>6, <1>10
  <2> QED
    BY <1>1, <2>1, <2>2, FoldIn
<1>12. it[n] \in good
  BY <1>1, <1>11 DEF S
<1>13. it[n] \in Seq(X) /\ KeysOf(it[n]) \subseteq KeysOf(list) /\ OnePerAddress(it[n])
  BY <1>12 DEF good
<1> HIDE DEF X
<1> QED
  BY <1>2, <1>13, ListOf
-----------------------------------------------------------------------------
(* CANDIDATES ARE LISTS *)

\* Lists joined end to end are a list.
LEMMA FlattenIsList ==
  ASSUME NEW lists, IsList(lists), \A i \in DOMAIN lists : IsList(lists[i])
  PROVE  IsList(FlattenSeq(lists))
<1> DEFINE n == Len(lists)
           X == UNION {{lists[i][j] : j \in DOMAIN lists[i]} : i \in DOMAIN lists}
           S == [k \in 0 .. n |-> Seq(X)]
           step == [p \in (1 .. n) \X Seq(X) |-> IF p[1] = 1 THEN lists[1] ELSE p[2] \o lists[p[1]]]
           solves(f) == f = [k \in 1 .. n |-> IF k = 1 THEN lists[k] ELSE f[k - 1] \o lists[k]]
           it == CHOOSE f : solves(f)
<1>1. n \in Nat /\ DOMAIN lists = 1 .. n
  BY Lists
<1>2. CASE n = 0
  BY <1>2 DEF FlattenSeq
<1>3. CASE n # 0
  <2>1. FlattenSeq(lists) = it[n]
    BY <1>3 DEF FlattenSeq
  <2>2. \A i \in 1 .. n : lists[i] \in Seq(X)
    <3>1. ASSUME NEW i \in 1 .. n PROVE lists[i] \in Seq(X)
      <4>1. lists[i] \in Seq({lists[i][j] : j \in DOMAIN lists[i]})
        BY <1>1, Lists
      <4>2. {lists[i][j] : j \in DOMAIN lists[i]} \subseteq X
        BY <1>1
      <4> HIDE DEF X
      <4> QED
        BY <4>1, <4>2
    <3> QED
      BY <3>1
  <2> HIDE DEF X
  <2>3. \A k \in 1 .. n : \A q \in S[k - 1] : step[<<k, q>>] \in S[k]
    <3>1. ASSUME NEW k \in 1 .. n, NEW q \in Seq(X) PROVE step[<<k, q>>] \in Seq(X)
      <4>1. step[<<k, q>>] = IF k = 1 THEN lists[1] ELSE q \o lists[k]
        OBVIOUS
      <4>2. lists[1] \in Seq(X) /\ lists[k] \in Seq(X)
        BY <1>1, <1>3, <2>2
      <4> QED
        BY <4>1, <4>2
    <3> HIDE DEF step
    <3>2. \A k \in 1 .. n : k - 1 \in 0 .. n /\ k \in 0 .. n
      BY <1>1
    <3>3. \A k \in 0 .. n : S[k] = Seq(X)
      OBVIOUS
    <3> QED
      BY <3>1, <3>2, <3>3
  <2>4. <<>> \in S[0] /\ \A k \in 1 .. n : \A q \in S[k - 1] :
          step[<<k, q>>] = IF k = 1 THEN lists[k] ELSE q \o lists[k]
    <3>1. \A k \in 1 .. n : S[k - 1] = Seq(X)
      BY <1>1
    <3>2. S[0] = Seq(X)
      BY <1>1
    <3> QED
      BY <3>1, <3>2
  <2> HIDE DEF S, step, n
  <2>5. PICK f : FoldRule(n, S, step, <<>>, f, n)
    BY <1>1, <2>3, <2>4, FoldExists
  <2> DEFINE g == [k \in 1 .. n |-> f[k]]
  <2>6. solves(g)
    <3>1. ASSUME NEW k \in 1 .. n PROVE g[k] = IF k = 1 THEN lists[k] ELSE g[k - 1] \o lists[k]
      <4>1. f[k - 1] \in S[k - 1] /\ f[k] = step[<<k, f[k - 1]>>]
        BY <2>5 DEF FoldRule
      <4>2. f[k] = IF k = 1 THEN lists[k] ELSE f[k - 1] \o lists[k]
        BY <2>4, <4>1
      <4>3. k # 1 => k - 1 \in 1 .. n
        BY <1>1
      <4> QED
        BY <4>2, <4>3
    <3> QED
      BY <3>1
  <2>7. solves(it)
    BY <2>6
  <2> HIDE DEF it
  <2>8. \A k \in 1 .. n : it[k] = IF k = 1 THEN lists[k] ELSE it[k - 1] \o lists[k]
    BY <2>7
  <2> DEFINE T == [k \in 0 .. n |-> IF k = 0 THEN {it[0]} ELSE Seq(X)]
  <2>9. \A k \in 1 .. n : it[k - 1] \in T[k - 1] => it[k] \in T[k]
    <3>1. ASSUME NEW k \in 1 .. n, it[k - 1] \in T[k - 1] PROVE it[k] \in Seq(X)
      <4>1. CASE k = 1
        BY <2>2, <2>8, <4>1
      <4>2. CASE k # 1
        <5>1. k - 1 \in 0 .. n /\ k - 1 # 0
          BY <1>1, <4>2
        <5>2. it[k - 1] \in Seq(X)
          BY <3>1, <5>1
        <5>3. lists[k] \in Seq(X) /\ it[k] = it[k - 1] \o lists[k]
          BY <2>2, <2>8, <4>2
        <5> HIDE DEF T
        <5> QED
          BY <5>2, <5>3
      <4> QED
        BY <4>1, <4>2
    <3>2. \A k \in 1 .. n : T[k] = Seq(X)
      BY <1>1
    <3> QED
      BY <3>1, <3>2
  <2>10. it[0] \in T[0]
    BY <1>1
  <2>11. it[n] \in T[n]
    <3> HIDE DEF T
    <3> QED
      BY <1>1, <2>9, <2>10, FoldIn
  <2>12. it[n] \in Seq(X)
    BY <1>1, <1>3, <2>11
  <2> QED
    BY <2>1, <2>12, ListOf
<1> QED
  BY <1>2, <1>3

\* A list made from another, entry by entry, by lists.
LEMMA FlatByRule ==
  ASSUME NEW n \in Nat, NEW f, f = [i \in 1 .. n |-> f[i]], \A i \in 1 .. n : IsList(f[i])
  PROVE  IsList(FlattenSeq(f))
<1>1. IsList(f) /\ DOMAIN f = 1 .. n
  BY ListByRule, Lists
<1> QED
  BY <1>1, FlattenIsList

\* DedupeRaw of a list is a list.
LEMMA DistinctIsList == ASSUME NEW list, IsList(list) PROVE IsList(DedupeRaw(list))
<1> DEFINE places == {i \in DOMAIN list : \A j \in 1 .. i - 1 : ComparisonKey(list[j]) # ComparisonKey(list[i])}
<1>1. DedupeRaw(list) = PickFrom(list, places)
  BY DEF DedupeRaw, DistinctBy
<1> QED
  BY <1>1, Picked DEF Drawn

\* What a match adds does not depend on what was kept before.
LEMMA AddsItsOwn ==
  ASSUME NEW q, NEW m, NEW global, NEW source
  PROVE  AddChinese(q, m, global, source) \in {q, Append(q, AddChinese(<<>>, m, global, source)[1])}
<1> DEFINE
      address == IF m.family \in {"locality", "plot"} THEN m.whole ELSE CleanFor(m.kind, m.raw)
      lead == CleanHint(m.lead)
      context == ContextHint(m.context)
      near == MoreSpecificHint(context, IF m.family = "field" /\ lead # None THEN lead ELSE global)
      hint == CASE m.family = "compound" -> MoreSpecificHint(MoreSpecificHint(lead, context), near)
                [] m.family = "administrative" -> MoreSpecificHint(lead, near)
                [] m.family = "campus" /\ near = None -> m.whole
                [] OTHER -> near
      pushed == m.family \in {"field", "boundary", "anchor", "embedded"}
      unfit == \/ address = None
               \/ pushed /\ m.kind = "street" /\ "quarter" \in m.raw.marks
               \/ (pushed \/ m.family = "compound") /\ TooBroad(address, m.kind, m.raw.marks)
               \/ m.family \in {"administrative", "anchor"} /\ "regeneration" \in m.raw.marks
      anchored(kept) ==
        m.family = "anchor" /\ \E i \in DOMAIN kept :
          kept[i].kind = "site" /\ kept[i].address # m.whole /\ Includes(kept[i].address, m.whole)
      entry == Candidate(m.kind, address, hint, source)
<1>1. \A kept : AddChinese(kept, m, global, source) = IF unfit \/ anchored(kept) THEN kept ELSE Append(kept, entry)
  BY Zenon DEF AddChinese
<1>2. ~anchored(<<>>)
  OBVIOUS
<1> HIDE DEF unfit, anchored, entry
<1>3. CASE unfit
  BY <1>1, <1>3
<1>4. CASE ~unfit
  <2>1. AddChinese(<<>>, m, global, source) = Append(<<>>, entry)
    BY <1>1, <1>2, <1>4
  <2>2. Append(<<>>, entry)[1] = entry
    OBVIOUS
  <2> QED
    BY <1>1, <1>4, <2>1, <2>2
<1> QED
  BY <1>3, <1>4

\* The Chinese matches that are let through.
LEMMA ChineseMatchesAreList ==
  ASSUME NEW t, IsList(t.chinese), NEW source
  PROVE  IsList(ChineseCandidates(t, source))
<1> DEFINE list == t.chinese
           global == GlobalChineseHint(t.global)
           n == Len(list)
           X == {AddChinese(<<>>, list[k], global, source)[1] : k \in DOMAIN list}
           good == Seq(X)
           S == [k \in 0 .. n |-> good]
           op(q, c) == AddChinese(q, c, global, source)
           step == [p \in (1 .. n) \X good |-> op(p[2], list[p[1]])]
           solves(f) == f = [k \in 0 .. n |-> IF k = 0 THEN <<>> ELSE op(f[k - 1], list[k])]
           it == CHOOSE f : solves(f)
<1>1. n \in Nat /\ DOMAIN list = 1 .. n
  BY Lists
<1>2. ChineseCandidates(t, source) = DedupeCandidates(DedupeRaw(it[n]))
  BY DEF ChineseCandidates, Folded
<1> HIDE DEF list, global
<1>3. <<>> \in good
  OBVIOUS
<1>4. ASSUME NEW k \in 1 .. n, NEW q \in good PROVE op(q, list[k]) \in good
  <2>1. AddChinese(<<>>, list[k], global, source)[1] \in X
    BY <1>1
  <2> HIDE DEF X
  <2>2. op(q, list[k]) \in {q, Append(q, AddChinese(<<>>, list[k], global, source)[1])}
    BY AddsItsOwn
  <2> QED
    BY <2>1, <2>2
<1> HIDE DEF good, op
<1>5. \A k \in 1 .. n : \A q \in S[k - 1] : step[<<k, q>>] = op(q, list[k]) /\ op(q, list[k]) \in S[k]
  <2>1. \A k \in 1 .. n : S[k - 1] = good /\ S[k] = good
    BY <1>1
  <2> QED
    BY <1>4, <2>1
<1>6. <<>> \in S[0]
  BY <1>1, <1>3
<1> HIDE DEF S, step, n
<1>7. PICK f : FoldRule(n, S, step, <<>>, f, n)
  BY <1>1, <1>5, <1>6, FoldExists
<1>8. solves(f)
  <2>1. ASSUME NEW k \in 0 .. n PROVE f[k] = IF k = 0 THEN <<>> ELSE op(f[k - 1], list[k])
    <3>1. CASE k = 0
      BY <1>7, <3>1 DEF FoldRule
    <3>2. CASE k # 0
      <4>1. k \in 1 .. n
        BY <1>1, <3>2
      <4>2. f[k - 1] \in S[k - 1] /\ f[k] = step[<<k, f[k - 1]>>]
        BY <1>7, <4>1 DEF FoldRule
      <4>3. step[<<k, f[k - 1]>>] = op(f[k - 1], list[k])
        BY <1>5, <4>1, <4>2
      <4> QED
        BY <3>2, <4>2, <4>3
    <3> QED
      BY <3>1, <3>2
  <2> QED
    BY <1>7, <2>1 DEF FoldRule
<1>9. solves(it)
  BY <1>8
<1> HIDE DEF it
<1>10. it[0] = <<>> /\ \A k \in 1 .. n : it[k] = op(it[k - 1], list[k])
  BY <1>1, <1>9
<1>11. it[n] \in S[n]
  <2>1. \A k \in 1 .. n : it[k - 1] \in S[k - 1] => it[k] \in S[k]
    BY <1>5, <1>10
  <2>2. it[0] \in S[0]
    BY <1>6, <1>10
  <2> QED
    BY <1>1, <2>1, <2>2, FoldIn
<1>12. it[n] \in good
  BY <1>1, <1>11 DEF S
<1>13. it[n] \in Seq(X)
  BY <1>12 DEF good
<1> HIDE DEF X
<1>14. IsList(it[n])
  BY <1>13, ListOf
<1> QED
  BY <1>2, <1>14, DistinctIsList, Deduped

\* The matches of a title, added to those met before.
LEMMA TitledIsList ==
  ASSUME NEW list, IsList(list), NEW base, IsList(base)
  PROVE  IsList(Folded(AddTitleMatch, base, list))
<1> DEFINE n == Len(list)
           X == {base[i] : i \in DOMAIN base} \cup {list[i] : i \in DOMAIN list}
           good == Seq(X)
           S == [k \in 0 .. n |-> good]
           op(q, c) == AddTitleMatch(q, c)
           step == [p \in (1 .. n) \X good |-> op(p[2], list[p[1]])]
           solves(f) == f = [k \in 0 .. n |-> IF k = 0 THEN base ELSE op(f[k - 1], list[k])]
           it == CHOOSE f : solves(f)
<1>1. n \in Nat /\ DOMAIN list = 1 .. n
  BY Lists
<1>2. Folded(AddTitleMatch, base, list) = it[n]
  BY DEF Folded
<1>3. base \in good
  <2>1. base \in Seq({base[i] : i \in DOMAIN base})
    BY Lists
  <2> QED
    BY <2>1
<1>4. ASSUME NEW k \in 1 .. n, NEW q \in good PROVE op(q, list[k]) \in good
  <2>1. list[k] \in X
    BY <1>1
  <2> HIDE DEF X
  <2>2. op(q, list[k]) \in {q, Append(q, list[k])}
    BY DEF AddTitleMatch
  <2> QED
    BY <2>1, <2>2
<1> HIDE DEF good, op
<1>5. \A k \in 1 .. n : \A q \in S[k - 1] : step[<<k, q>>] = op(q, list[k]) /\ op(q, list[k]) \in S[k]
  <2>1. \A k \in 1 .. n : S[k - 1] = good /\ S[k] = good
    BY <1>1
  <2> QED
    BY <1>4, <2>1
<1>6. base \in S[0]
  BY <1>1, <1>3
<1> HIDE DEF S, step, n
<1>7. PICK f : FoldRule(n, S, step, base, f, n)
  BY <1>1, <1>5, <1>6, FoldExists
<1>8. solves(f)
  <2>1. ASSUME NEW k \in 0 .. n PROVE f[k] = IF k = 0 THEN base ELSE op(f[k - 1], list[k])
    <3>1. CASE k = 0
      BY <1>7, <3>1 DEF FoldRule
    <3>2. CASE k # 0
      <4>1. k \in 1 .. n
        BY <1>1, <3>2
      <4>2. f[k - 1] \in S[k - 1] /\ f[k] = step[<<k, f[k - 1]>>]
        BY <1>7, <4>1 DEF FoldRule
      <4>3. step[<<k, f[k - 1]>>] = op(f[k - 1], list[k])
        BY <1>5, <4>1, <4>2
      <4> QED
        BY <3>2, <4>2, <4>3
    <3> QED
      BY <3>1, <3>2
  <2> QED
    BY <1>7, <2>1 DEF FoldRule
<1>9. solves(it)
  BY <1>8
<1> HIDE DEF it
<1>10. it[0] = base /\ \A k \in 1 .. n : it[k] = op(it[k - 1], list[k])
  BY <1>1, <1>9
<1>11. it[n] \in S[n]
  <2>1. \A k \in 1 .. n : it[k - 1] \in S[k - 1] => it[k] \in S[k]
    BY <1>5, <1>10
  <2>2. it[0] \in S[0]
    BY <1>6, <1>10
  <2> QED
    BY <1>1, <2>1, <2>2, FoldIn
<1>12. it[n] \in good
  BY <1>1, <1>11 DEF S
<1>13. it[n] \in Seq(X)
  BY <1>12 DEF good
<1> HIDE DEF X
<1> QED
  BY <1>2, <1>13, ListOf
\* The candidates of a text's matches are a list.
LEMMA MatchesAreList ==
  ASSUME NEW matches, IsList(matches), NEW source PROVE IsList(BuildAll(matches, source))
<1> DEFINE f == [i \in DOMAIN matches |-> BuildCandidate(matches[i], source)]
<1>1. Len(matches) \in Nat /\ DOMAIN matches = 1 .. Len(matches)
  BY Lists
<1>2. \A m : IsList(BuildCandidate(m, source))
  BY NoneIsList, OneIsList DEF BuildCandidate
<1>3. f = [i \in 1 .. Len(matches) |-> f[i]] /\ \A i \in 1 .. Len(matches) : IsList(f[i])
  BY <1>1, <1>2
<1> HIDE DEF f
<1>4. IsList(FlattenSeq(f))
  BY <1>1, <1>3, FlatByRule
<1> QED
  BY <1>4 DEF BuildAll, f

\* So are those of its leads.
LEMMA LeadsAreList ==
  ASSUME NEW leads, IsList(leads)
  PROVE  IsList(FlattenSeq([i \in DOMAIN leads |-> LeadCandidate(leads[i])]))
<1> DEFINE f == [i \in DOMAIN leads |-> LeadCandidate(leads[i])]
<1>1. Len(leads) \in Nat /\ DOMAIN leads = 1 .. Len(leads)
  BY Lists
<1>2. \A m : IsList(LeadCandidate(m))
  BY NoneIsList, OneIsList DEF LeadCandidate
<1>3. f = [i \in 1 .. Len(leads) |-> f[i]] /\ \A i \in 1 .. Len(leads) : IsList(f[i])
  BY <1>1, <1>2
<1> HIDE DEF f
<1>4. IsList(FlattenSeq(f))
  BY <1>1, <1>3, FlatByRule
<1> QED
  BY <1>4 DEF f

\* A locality before the dash changes hints, not the list.
LEMMA EnrichedIsList ==
  ASSUME NEW list, IsList(list), NEW dash PROVE IsList(EnrichWithDash(list, dash))
<1>1. Len(list) \in Nat /\ DOMAIN list = 1 .. Len(list)
  BY Lists
<1>2. EnrichWithDash(list, dash) = [i \in 1 .. Len(list) |-> EnrichWithDash(list, dash)[i]]
  BY <1>1 DEF EnrichWithDash
<1> QED
  BY <1>1, <1>2, ListByRule

\* Whatever the text, its candidates are a list.
LEMMA TextGivesList ==
  ASSUME NEW t, IsText(t), NEW source PROVE IsList(ExtractFromText(t, source))
<1> DEFINE plain == BuildAll(t.matches, source) \o ChineseCandidates(t, source)
           leads == FlattenSeq([i \in DOMAIN t.leads |-> LeadCandidate(t.leads[i])])
           all == IF source = "page" THEN plain
                  ELSE Folded(AddTitleMatch, DedupeRaw(plain \o leads), BuildAll(t.titled, source))
<1>1. IsList(t.matches) /\ IsList(t.chinese) /\ IsList(t.leads) /\ IsList(t.titled)
  BY DEF IsText
<1>2. IsList(ChineseCandidates(t, source))
  BY <1>1, ChineseMatchesAreList
<1>3. IsList(plain)
  BY <1>1, <1>2, MatchesAreList, Joined
<1>4. IsList(leads)
  BY <1>1, LeadsAreList
<1>5. IsList(all)
  <2> HIDE DEF plain, leads
  <2>1. IsList(DedupeRaw(plain \o leads)) /\ IsList(BuildAll(t.titled, source))
    BY <1>1, <1>3, <1>4, Joined, DistinctIsList, MatchesAreList
  <2>2. IsList(Folded(AddTitleMatch, DedupeRaw(plain \o leads), BuildAll(t.titled, source)))
    BY <2>1, TitledIsList
  <2> QED
    BY <1>3, <2>2
<1>6. ExtractFromText(t, source) = DedupeCandidates(DedupeRaw(EnrichWithDash(DedupeRaw(all), t.dash)))
  BY DEF ExtractFromText
<1> HIDE DEF all
<1> QED
  BY <1>5, <1>6, DistinctIsList, EnrichedIsList, Deduped

\* Whatever the meta tags, their candidates are a list.
LEMMA StructuredIsList ==
  ASSUME NEW meta, IsMeta(meta) PROVE IsList(ExtractStructured(meta))
<1> DEFINE records == StructuredRecords(meta)
           f == [i \in DOMAIN records |-> StructuredCandidates(records[i])]
           streets == [i \in DOMAIN meta.streets |->
                         [street |-> meta.streets[i], locality |-> meta.locality,
                          segments |-> meta.segments, placename |-> meta.placename]]
           place == IF meta.named
                    THEN <<[street |-> meta.placestreet, locality |-> meta.locality,
                            segments |-> meta.segments, placename |-> meta.placename]>>
                    ELSE <<>>
<1>1. /\ IsList(meta.streets) /\ IsList(meta.jsonld) /\ IsText(meta.placename)
      /\ \A i \in DOMAIN meta.jsonld : IsText(meta.jsonld[i].placename)
  BY DEF IsMeta
<1>2. IsList(streets) /\ \A i \in DOMAIN streets : IsText(streets[i].placename)
  <2>1. Len(meta.streets) \in Nat /\ DOMAIN meta.streets = 1 .. Len(meta.streets)
    BY <1>1, Lists
  <2>2. streets = [i \in 1 .. Len(meta.streets) |-> streets[i]]
    BY <2>1
  <2>3. \A i \in DOMAIN streets : streets[i].placename = meta.placename
    OBVIOUS
  <2> HIDE DEF streets
  <2> QED
    BY <1>1, <2>1, <2>2, <2>3, ListByRule
<1>3. IsList(place) /\ \A i \in DOMAIN place : IsText(place[i].placename)
  BY <1>1, NoneIsList, OneIsList
<1>4. records = (streets \o place) \o meta.jsonld
  BY DEF StructuredRecords
<1> HIDE DEF streets, place
<1>5. IsList(streets \o place) /\ \A i \in DOMAIN (streets \o place) : IsText((streets \o place)[i].placename)
  <2>1. Len(streets) \in Nat /\ Len(place) \in Nat /\ DOMAIN streets = 1 .. Len(streets) /\ DOMAIN place = 1 .. Len(place)
    BY <1>2, <1>3, Lists
  <2>2. ASSUME NEW i \in DOMAIN (streets \o place) PROVE IsText((streets \o place)[i].placename)
    <3>1. CASE i \in DOMAIN streets
      BY <1>2, <1>3, <2>1, <3>1, Joined
    <3>2. CASE i > Len(streets) /\ i - Len(streets) \in DOMAIN place
      <4>1. Len(streets) + (i - Len(streets)) = i
        BY <1>2, <1>3, <2>1, <3>2, Joined, Lists
      <4>2. (streets \o place)[i] = place[i - Len(streets)]
        BY <1>2, <1>3, <2>1, <3>2, <4>1, Joined
      <4> QED
        BY <1>3, <3>2, <4>2
    <3> QED
      BY <1>2, <1>3, <3>1, <3>2, Joined
  <2> QED
    BY <1>2, <1>3, <2>2, Joined
<1> DEFINE front == streets \o place
<1>6. IsList(records) /\ \A i \in DOMAIN records : IsText(records[i].placename)
  <2> DEFINE back == meta.jsonld
  <2>1. /\ IsList(front) /\ IsList(back) /\ records = front \o back
        /\ \A i \in DOMAIN front : IsText(front[i].placename)
        /\ \A i \in DOMAIN back : IsText(back[i].placename)
    BY <1>1, <1>4, <1>5
  <2> HIDE DEF front, back, records
  <2>2. Len(front) \in Nat /\ Len(back) \in Nat /\ DOMAIN front = 1 .. Len(front) /\ DOMAIN back = 1 .. Len(back)
    BY <2>1, Lists
  <2>3. ASSUME NEW i \in DOMAIN (front \o back) PROVE IsText((front \o back)[i].placename)
    <3>1. CASE i \in DOMAIN front
      BY <2>1, <2>2, <3>1, Joined
    <3>2. CASE i > Len(front) /\ i - Len(front) \in DOMAIN back
      <4>1. Len(front) + (i - Len(front)) = i
        BY <2>1, <2>2, <3>2, Joined, Lists
      <4>2. (front \o back)[i] = back[i - Len(front)]
        BY <2>1, <2>2, <3>2, <4>1, Joined
      <4> QED
        BY <2>1, <3>2, <4>2
    <3> QED
      BY <2>1, <3>1, <3>2, Joined
  <2> QED
    BY <2>1, <2>3, Joined
<1> HIDE DEF records
<1>7. ASSUME NEW i \in DOMAIN records PROVE IsList(StructuredCandidates(records[i]))
  <2> DEFINE r == records[i]
             named == ExtractFromText(r.placename, "page")
             hint == IF CleanHint(r.locality) # None THEN CleanHint(r.locality)
                     ELSE FirstHint(Reverse(r.segments))
             filled == [j \in DOMAIN named |->
                          IF named[j].hint = None THEN [named[j] EXCEPT !.hint = hint] ELSE named[j]]
  <2>1. IsList(named)
    BY <1>6, <1>7, TextGivesList
  <2>2. IsList(filled)
    <3> HIDE DEF named, hint
    <3>1. Len(named) \in Nat /\ DOMAIN named = 1 .. Len(named)
      BY <2>1, Lists
    <3>2. filled = [j \in 1 .. Len(named) |-> filled[j]]
      BY <3>1
    <3> HIDE DEF filled
    <3> QED
      BY <3>1, <3>2, ListByRule
  <2>3. StructuredCandidates(r) = filled \/ StructuredCandidates(r) = <<>>
        \/ \E x : StructuredCandidates(r) = <<x>>
    BY DEF StructuredCandidates
  <2> HIDE DEF filled, r
  <2> QED
    BY <2>2, <2>3, NoneIsList, OneIsList DEF r
<1>8. IsList(FlattenSeq(f))
  <2>1. Len(records) \in Nat /\ DOMAIN records = 1 .. Len(records)
    BY <1>6, Lists
  <2>2. f = [i \in 1 .. Len(records) |-> f[i]] /\ \A i \in 1 .. Len(records) : IsList(f[i])
    BY <1>7, <2>1
  <2> HIDE DEF f
  <2> QED
    BY <2>1, <2>2, FlatByRule
<1>9. ExtractStructured(meta) = DedupeCandidates(FlattenSeq(f))
  BY DEF ExtractStructured, records
<1> QED
  BY <1>8, <1>9, Deduped

\* A locality gives one candidate or none.
LEMMA LocalityIsList == \A raw, source : IsList(LocalityCandidate(raw, source))
BY NoneIsList, OneIsList DEF LocalityCandidate

\* The hints give a list of candidates, one per address.
LEMMA HintsAreList ==
  ASSUME NEW list, IsList(list)
  PROVE  IsList(HintCandidates(list)) /\ OnePerAddress(HintCandidates(list))
<1> DEFINE entry(c) == IF c.hint = c.address THEN <<>> ELSE LocalityCandidate(Capture(c.hint, {}), c.source)
           f == [i \in DOMAIN list |-> entry(list[i])]
<1>1. Len(list) \in Nat /\ DOMAIN list = 1 .. Len(list)
  BY Lists
<1>2. \A c : IsList(entry(c))
  BY NoneIsList, LocalityIsList
<1>3. HintCandidates(list) = DedupeCandidates(FlattenSeq(f))
  BY DEF HintCandidates
<1> HIDE DEF entry
<1>4. f = [i \in 1 .. Len(list) |-> f[i]] /\ \A i \in 1 .. Len(list) : IsList(f[i])
  BY <1>1, <1>2
<1> HIDE DEF f
<1> QED
  BY <1>1, <1>3, <1>4, FlatByRule, Deduped

\* The candidates of the record itself are a list.
LEMMA OwnIsList ==
  ASSUME NEW o \in Opportunities PROVE IsList(OwnCandidates(o))
<1>1. IsList(TitleCandidates(o))
  BY RecordAssumption, TextGivesList DEF TitleCandidates
<1>2. IsList(LocalityCandidates(o))
  <2> DEFINE first == LocalityCandidate(Capture(DisplayLocality(o), {}), "title")
             second == IF "normalised" \in o.label.marks THEN LocalityCandidate(o.label, "page") ELSE <<>>
             third == LocalityCandidate(Capture(ExplicitCity(o), {}), "title")
  <2>1. IsList(first) /\ IsList(second) /\ IsList(third)
    BY LocalityIsList, NoneIsList
  <2>2. LocalityCandidates(o) = DedupeCandidates((first \o second) \o third)
    BY DEF LocalityCandidates
  <2> HIDE DEF first, second, third
  <2> QED
    BY <2>1, <2>2, Joined, Deduped
<1>3. IsList(HintCandidates(TitleCandidates(o)))
  BY <1>1, HintsAreList
<1> QED
  BY <1>1, <1>2, <1>3, Joined DEF OwnCandidates
-----------------------------------------------------------------------------
(* NOTHING TWICE *)

OnePerKey(list) == \A a, b \in DOMAIN list : ComparisonKey(list[a]) = ComparisonKey(list[b]) => a = b
TriedKeys(tries) == {tries[i].key : i \in DOMAIN tries}

\* What is to be tried was seen, and is new: among itself and to what was tried.
Untried(todo, seen, tries) ==
  /\ IsList(todo) /\ OnePerKey(todo)
  /\ KeysOf(todo) \subseteq seen /\ TriedKeys(tries) \subseteq seen
  /\ KeysOf(todo) \cap TriedKeys(tries) = {}

\* One entry per address is one entry per key.
LEMMA AddressesHaveKeys ==
  ASSUME NEW list, OnePerAddress(list) PROVE OnePerKey(list)
BY DEF OnePerAddress, OnePerKey, SameAddress, ComparisonKey

\* The first list of work is new: nothing was tried.
LEMMA UntriedBegins ==
  ASSUME NEW o \in Opportunities
  PROVE  Untried(DedupeCandidates(OwnCandidates(o)), KeysOf(OwnCandidates(o)), <<>>)
<1>1. TriedKeys(<<>>) = {}
  BY DEF TriedKeys
<1> QED
  BY <1>1, OwnIsList, Deduped, AddressesHaveKeys DEF Untried

\* What a list adds to the work is new to what was seen, and each key once.
LEMMA UntriedGrows ==
  ASSUME NEW todo, NEW seen, NEW tries, Untried(todo, seen, tries),
         NEW list, IsList(list), OnePerKey(list)
  PROVE  Untried(todo \o PickFrom(list, {i \in DOMAIN list : ComparisonKey(list[i]) \notin seen}),
               seen \cup KeysOf(list), tries)
<1> DEFINE new == {i \in DOMAIN list : ComparisonKey(list[i]) \notin seen}
           more == PickFrom(list, new)
           all == todo \o more
<1>1. Drawn(more, list, new)
  BY Picked
<1> HIDE DEF more
<1>2. IsList(todo) /\ IsList(more)
  BY <1>1 DEF Drawn, Untried
<1>3. PICK at : Draws(more, list, new, at)
  BY <1>1 DEF Drawn
<1>4. /\ Len(todo) \in Nat /\ DOMAIN todo = 1 .. Len(todo)
      /\ Len(more) \in Nat /\ DOMAIN more = 1 .. Len(more)
      /\ Len(all) \in Nat /\ DOMAIN all = 1 .. Len(all)
      /\ IsList(all) /\ Len(all) = Len(todo) + Len(more)
  BY <1>2, Lists, Joined
<1>5. \A i \in DOMAIN todo : all[i] = todo[i]
  BY <1>2, <1>4, Joined
<1>6. \A i \in DOMAIN all : i \in DOMAIN todo \/ (i - Len(todo) \in DOMAIN more /\ all[i] = more[i - Len(todo)])
  <2>1. ASSUME NEW i \in DOMAIN all, i \notin DOMAIN todo
        PROVE  i - Len(todo) \in DOMAIN more /\ all[i] = more[i - Len(todo)]
    <3>1. i - Len(todo) \in 1 .. Len(more) /\ Len(todo) + (i - Len(todo)) = i
      BY <1>4, <2>1
    <3>2. all[Len(todo) + (i - Len(todo))] = more[i - Len(todo)]
      BY <1>2, <3>1, Joined
    <3> QED
      BY <1>4, <3>1, <3>2
  <2> QED
    BY <2>1
<1> HIDE DEF all
<1>7. \A i \in DOMAIN more : ComparisonKey(more[i]) \in KeysOf(list) /\ ComparisonKey(more[i]) \notin seen
  BY <1>3 DEF Draws, KeysOf
<1>8. \A i \in DOMAIN todo : ComparisonKey(todo[i]) \in seen
  BY DEF Untried, KeysOf
<1>9. ASSUME NEW a \in DOMAIN all, NEW b \in DOMAIN all, ComparisonKey(all[a]) = ComparisonKey(all[b])
      PROVE  a = b
  <2>1. CASE a \in DOMAIN todo /\ b \in DOMAIN todo
    BY <1>5, <1>9, <2>1 DEF Untried, OnePerKey
  <2>2. CASE a \in DOMAIN todo /\ b \notin DOMAIN todo
    BY <1>5, <1>6, <1>7, <1>8, <1>9, <2>2
  <2>3. CASE a \notin DOMAIN todo /\ b \in DOMAIN todo
    BY <1>5, <1>6, <1>7, <1>8, <1>9, <2>3
  <2>4. CASE a \notin DOMAIN todo /\ b \notin DOMAIN todo
    <3> DEFINE i == a - Len(todo)
               j == b - Len(todo)
    <3>1. /\ i \in DOMAIN more /\ j \in DOMAIN more
          /\ ComparisonKey(more[i]) = ComparisonKey(more[j])
      BY <1>6, <1>9, <2>4
    <3>2. /\ at[i] \in DOMAIN list /\ at[j] \in DOMAIN list
          /\ ComparisonKey(list[at[i]]) = ComparisonKey(list[at[j]])
      <4> HIDE DEF i, j
      <4> QED
        BY <1>3, <3>1 DEF Draws
    <3>3. at[i] = at[j]
      BY <3>2 DEF OnePerKey
    <3>4. i = j
      <4> HIDE DEF i, j
      <4> QED
        BY <1>3, <3>1, <3>3 DEF Draws
    <3> QED
      BY <1>4, <3>4
  <2> QED
    BY <2>1, <2>2, <2>3, <2>4
<1>10. ASSUME NEW i \in DOMAIN all
       PROVE  ComparisonKey(all[i]) \in KeysOf(todo) \/ ComparisonKey(all[i]) \in KeysOf(list) \ seen
  BY <1>5, <1>6, <1>7 DEF KeysOf
<1>11. KeysOf(all) \subseteq KeysOf(todo) \cup (KeysOf(list) \ seen)
  BY <1>10 DEF KeysOf
<1> QED
  BY <1>4, <1>9, <1>11 DEF Untried, OnePerKey, all, more

\* The candidate taken was not tried, and the others stay new to what was.
LEMMA UntriedHead ==
  ASSUME NEW todo, NEW seen, NEW tries, Untried(todo, seen, tries), todo # <<>>, IsList(tries),
         NEW place
  PROVE  LET key == ComparisonKey(Head(todo))
         IN  /\ Untried(Tail(todo), seen, Append(tries, [key |-> key, place |-> place]))
             /\ key \notin TriedKeys(tries)
<1> DEFINE key == ComparisonKey(Head(todo))
           next == [key |-> key, place |-> place]
           rest == Tail(todo)
           new == Append(tries, next)
           X == {todo[i] : i \in DOMAIN todo}
<1>1. todo \in Seq(X) /\ Len(todo) \in Nat /\ DOMAIN todo = 1 .. Len(todo)
  BY Lists DEF Untried
<1>2. /\ Head(todo) = todo[1] /\ 1 \in DOMAIN todo
      /\ rest \in Seq(X) /\ DOMAIN rest = 1 .. Len(todo) - 1
      /\ \A i \in DOMAIN rest : i + 1 \in DOMAIN todo /\ rest[i] = todo[i + 1]
  <2> HIDE DEF X
  <2>1. todo # <<>>
    OBVIOUS
  <2>2. Len(todo) # 0
    BY <1>1, <2>1
  <2> QED
    BY <1>1, <2>1, <2>2
<1>3. IsList(rest)
  BY <1>2, ListOf
<1>4. key \in KeysOf(todo)
  BY <1>2 DEF KeysOf
<1>5. \A i \in DOMAIN rest : ComparisonKey(rest[i]) \in KeysOf(todo) /\ ComparisonKey(rest[i]) # key
  <2>1. ASSUME NEW i \in DOMAIN rest PROVE ComparisonKey(rest[i]) \in KeysOf(todo) /\ ComparisonKey(rest[i]) # key
    <3>1. i + 1 # 1 /\ i + 1 \in DOMAIN todo /\ rest[i] = todo[i + 1]
      BY <1>1, <1>2
    <3> QED
      BY <1>2, <3>1 DEF Untried, OnePerKey, KeysOf
  <2> QED
    BY <2>1
<1>6. OnePerKey(rest)
  <2>1. ASSUME NEW a \in DOMAIN rest, NEW b \in DOMAIN rest, ComparisonKey(rest[a]) = ComparisonKey(rest[b])
        PROVE  a = b
    <3>1. a + 1 = b + 1
      BY <1>2, <2>1 DEF Untried, OnePerKey
    <3> QED
      BY <1>1, <1>2, <3>1
  <2> QED
    BY <2>1 DEF OnePerKey
<1>7. TriedKeys(new) = TriedKeys(tries) \cup {key}
  <2>1. /\ DOMAIN new = 1 .. Len(tries) + 1 /\ Len(tries) \in Nat /\ DOMAIN tries = 1 .. Len(tries)
        /\ \A i \in 1 .. Len(tries) : new[i] = tries[i]
        /\ new[Len(tries) + 1] = next
    BY Appended, Lists
  <2> HIDE DEF new, next
  <2>2. next.key = key
    BY DEF next
  <2>3. DOMAIN new = DOMAIN tries \cup {Len(tries) + 1}
    BY <2>1
  <2> HIDE DEF key
  <2> QED
    BY <2>1, <2>2, <2>3 DEF TriedKeys
<1> HIDE DEF rest, new, key
<1>8. KeysOf(rest) \subseteq KeysOf(todo) \ {key}
  BY <1>5 DEF KeysOf
<1>9. Untried(rest, seen, new)
  BY <1>3, <1>4, <1>6, <1>7, <1>8 DEF Untried
<1> QED
  BY <1>4, <1>9 DEF rest, new, key, Untried
-----------------------------------------------------------------------------
(* THE FIRST PLACE FOUND *)

\* p is the place of the first attempt that was located, or no place if none was.
IsFirst(p, tries) ==
  \/ p = NoPlace /\ \A i \in DOMAIN tries : tries[i].place = NoPlace
  \/ /\ p # NoPlace
     /\ \E i \in DOMAIN tries : tries[i].place = p /\ \A j \in DOMAIN tries : j < i => tries[j].place = NoPlace

\* FirstPlace is the only first place.
LEMMA FirstIs ==
  ASSUME IsList(attempts)
  PROVE  \A p : p = FirstPlace <=> IsFirst(p, attempts)
<1> DEFINE good == {i \in DOMAIN attempts : attempts[i].place # NoPlace}
           first == CHOOSE i \in good : \A j \in good : i <= j
<1>1. DOMAIN attempts \subseteq Nat /\ 0 \notin DOMAIN attempts
  BY Lists
<1>2. FirstPlace = IF good = {} THEN NoPlace
                   ELSE IF first = 0 THEN NoPlace ELSE attempts[first].place
  <2>1. FirstSuch(attempts, LAMBDA a : a.place # NoPlace) = IF good = {} THEN 0 ELSE first
    BY DEF FirstSuch
  <2> QED
    BY <2>1 DEF FirstPlace
<1>3. CASE good = {}
  <2>1. FirstPlace = NoPlace /\ \A i \in DOMAIN attempts : attempts[i].place = NoPlace
    BY <1>2, <1>3
  <2> QED
    BY <2>1 DEF IsFirst
<1>4. CASE good # {}
  <2>1. first \in good /\ \A j \in good : first <= j
    <3>1. good \subseteq Nat
      BY <1>1
    <3> HIDE DEF good
    <3>2. \E i \in good : \A j \in good : i <= j
      BY <1>4, <3>1, LeastExists
    <3> QED
      BY <3>2
  <2> HIDE DEF first
  <2>2. first \in DOMAIN attempts /\ attempts[first].place # NoPlace /\ first # 0
    BY <1>1, <2>1
  <2>3. FirstPlace = attempts[first].place
    BY <1>2, <1>4, <2>2
  <2>4. \A j \in DOMAIN attempts : j < first => attempts[j].place = NoPlace
    <3>1. ASSUME NEW j \in DOMAIN attempts, j < first, attempts[j].place # NoPlace PROVE FALSE
      <4>1. j \in good /\ first \in Nat /\ j \in Nat
        BY <1>1, <2>2, <3>1
      <4>2. first <= j
        BY <2>1, <4>1
      <4> QED
        BY <3>1, <4>1, <4>2
    <3> QED
      BY <3>1
  <2>5. ASSUME NEW p, IsFirst(p, attempts) PROVE p = FirstPlace
    <3>1. p # NoPlace
      BY <2>2, <2>5 DEF IsFirst
    <3>2. PICK i \in DOMAIN attempts : attempts[i].place = p /\ \A j \in DOMAIN attempts : j < i => attempts[j].place = NoPlace
      BY <2>5, <3>1 DEF IsFirst
    <3>3. ~(first < i) /\ ~(i < first) /\ i \in Nat /\ first \in Nat
      BY <1>1, <2>2, <2>4, <3>1, <3>2
    <3>4. i = first
      BY <3>3
    <3> QED
      BY <2>3, <3>2, <3>4
  <2> QED
    BY <2>2, <2>3, <2>4, <2>5 DEF IsFirst
<1> QED
  BY <1>3, <1>4

\* An attempt that is not located changes nothing.
LEMMA OneMoreAttempt ==
  ASSUME NEW p, NEW tries, IsList(tries), IsFirst(p, tries), NEW key
  PROVE  LET new == Append(tries, [key |-> key, place |-> NoPlace])
         IN  IsFirst(p, new) /\ IsList(new) /\ new # <<>> /\ new[Len(new)].place = NoPlace
             /\ ((\A i \in DOMAIN tries : DOMAIN tries[i] = {"key", "place"})
                   => \A i \in DOMAIN new : DOMAIN new[i] = {"key", "place"})
<1> DEFINE next == [key |-> key, place |-> NoPlace]
           new == Append(tries, next)
<1>1. /\ IsList(new) /\ Len(new) = Len(tries) + 1 /\ Len(tries) \in Nat
      /\ DOMAIN new = 1 .. Len(tries) + 1 /\ DOMAIN tries = 1 .. Len(tries)
      /\ \A i \in 1 .. Len(tries) : new[i] = tries[i]
      /\ new[Len(tries) + 1] = next
  BY Appended, Lists
<1>2. next.place = NoPlace /\ DOMAIN next = {"key", "place"}
  OBVIOUS
<1> HIDE DEF new, next
<1>3. DOMAIN new = DOMAIN tries \cup {Len(tries) + 1} /\ new # <<>>
  BY <1>1
<1>4. ASSUME p = NoPlace PROVE IsFirst(p, new)
  BY <1>1, <1>2, <1>3, <1>4 DEF IsFirst
<1>5. ASSUME p # NoPlace PROVE IsFirst(p, new)
  <2>1. PICK i \in DOMAIN tries : tries[i].place = p /\ \A j \in DOMAIN tries : j < i => tries[j].place = NoPlace
    BY <1>5 DEF IsFirst
  <2>2. i \in DOMAIN new /\ new[i].place = p /\ \A j \in DOMAIN new : j < i => new[j].place = NoPlace
    BY <1>1, <1>2, <1>3, <2>1
  <2> QED
    BY <1>5, <2>2 DEF IsFirst
<1>6. ASSUME \A i \in DOMAIN tries : DOMAIN tries[i] = {"key", "place"}, NEW i \in DOMAIN new
      PROVE  DOMAIN new[i] = {"key", "place"}
  BY <1>1, <1>2, <1>3, <1>6
<1>7. new[Len(new)].place = NoPlace
  BY <1>1, <1>2
<1> QED
  BY <1>1, <1>3, <1>4, <1>5, <1>6, <1>7 DEF new, next

\* Locating the last one does if nothing was located before.
LEMMA LastIsLocated ==
  ASSUME NEW p, NEW tries, IsList(tries), IsFirst(p, tries), tries # <<>>,
         tries[Len(tries)].place = NoPlace, NEW place, place # NoPlace,
         \A i \in DOMAIN tries : DOMAIN tries[i] = {"key", "place"}
  PROVE  LET new == [tries EXCEPT ![Len(tries)].place = place]
         IN  /\ IsFirst(IF p = NoPlace THEN place ELSE p, new) /\ IsList(new)
             /\ DOMAIN new = DOMAIN tries
             /\ \A i \in DOMAIN new : DOMAIN new[i] = {"key", "place"} /\ new[i].key = tries[i].key
<1> DEFINE n == Len(tries)
           new == [tries EXCEPT ![n].place = place]
<1>1. n \in Nat /\ DOMAIN tries = 1 .. n /\ n \in DOMAIN tries /\ tries = [i \in 1 .. n |-> tries[i]]
  <2>1. n \in Nat /\ DOMAIN tries = 1 .. n /\ tries = [i \in 1 .. n |-> tries[i]]
    BY Lists
  <2>2. n # 0
    <3>1. tries \in Seq({tries[i] : i \in DOMAIN tries})
      BY Lists
    <3> QED
      BY <2>1, <3>1
  <2> QED
    BY <2>1, <2>2
<1>2. /\ DOMAIN new = DOMAIN tries /\ new = [i \in 1 .. n |-> new[i]]
      /\ \A i \in DOMAIN tries : i # n => new[i] = tries[i]
      /\ new[n] = [tries[n] EXCEPT !.place = place]
  BY <1>1
<1> HIDE DEF new
<1>3. new[n].place = place /\ new[n].key = tries[n].key /\ DOMAIN new[n] = {"key", "place"}
  BY <1>1, <1>2
<1>4. IsList(new)
  BY <1>1, <1>2, ListByRule
<1>5. \A i \in DOMAIN tries : i \in Int /\ i <= n
  BY <1>1
<1> HIDE DEF n
<1>6. CASE p = NoPlace
  <2>1. ASSUME NEW j \in DOMAIN new, j < n PROVE new[j].place = NoPlace
    <3>1. j \in DOMAIN tries /\ j # n
      BY <1>1, <1>2, <2>1
    <3>2. new[j] = tries[j]
      BY <1>2, <3>1
    <3> QED
      BY <1>6, <3>1, <3>2 DEF IsFirst
  <2> QED
    BY <1>1, <1>2, <1>3, <1>4, <1>6, <2>1 DEF IsFirst, new, n
<1>7. CASE p # NoPlace
  <2>1. PICK i \in DOMAIN tries : tries[i].place = p /\ \A j \in DOMAIN tries : j < i => tries[j].place = NoPlace
    BY <1>7 DEF IsFirst
  <2>2. i # n
    BY <1>7, <2>1 DEF n
  <2>3. \A j \in DOMAIN tries : j < i => j # n
    BY <1>1, <1>5, <2>1
  <2>4. i \in DOMAIN new /\ new[i].place = p /\ \A j \in DOMAIN new : j < i => new[j].place = NoPlace
    BY <1>2, <2>1, <2>2, <2>3
  <2> QED
    BY <1>1, <1>2, <1>3, <1>4, <1>7, <2>4 DEF IsFirst, new, n
<1> QED
  BY <1>6, <1>7
-----------------------------------------------------------------------------
(* THE INVARIANT *)

Stages == {"official", "download", "title", "pages", "page", "pdfs", "pdf", "done"}
RecordFields == {"of", "stage", "pages", "visited", "todo", "candidate", "asks", "place", "tiles", "seen",
                 "structured", "text", "pdfs", "locator", "image"}

TilesCounted(tiles) ==
  /\ tiles \in [planned : Nat, next : Nat, busy : Nat, got : Nat]
  /\ tiles.got + tiles.busy <= tiles.next /\ tiles.next <= tiles.planned

InBudget == spent \in 0 .. RecordRequests /\ expired \in BOOLEAN

AttemptShape(tries) ==
  IsList(tries) /\ \A i \in DOMAIN tries : DOMAIN tries[i] = {"key", "place"}

RecordShape ==
  /\ DOMAIN record = RecordFields
  /\ record.of \in Opportunities /\ record.stage \in Stages
  /\ record.image.kind \in {"none", "official-image", "satellite"}
  /\ IsList(record.structured) /\ IsList(record.text)

AllUntried ==
  /\ Untried(record.todo, record.seen, attempts) /\ NothingTwice
  /\ record.stage \in {"official", "download"} => attempts = <<>>

\* While a provider is asked the last attempt is not located; a satellite image is the end.
Located ==
  /\ record.asks # <<>> => attempts # <<>> /\ attempts[Len(attempts)].place = NoPlace
  /\ record.image.kind = "satellite" =>
       /\ record.stage = "done" /\ record.asks = <<>> /\ record.tiles.planned = 0
       /\ record.locator = record.image.of
  /\ record.image.kind # "satellite" => IsFirst(record.locator, attempts)

RecordInv ==
  RecordShape /\ TilesCounted(record.tiles) /\ InBudget /\ AttemptShape(attempts) /\ AllUntried /\ Located

\* No tiles are planned, and none are out.
LEMMA NoTilesCounted == TilesCounted(NoTiles) /\ NoTiles.planned = 0
BY DEF TilesCounted, NoTiles

\* A request counts while there is room, and none is made without.
LEMMA SpentStays ==
  ASSUME InBudget, HasRoom => spent' = spent + 1, ~HasRoom => spent' = spent, expired' = expired
  PROVE  InBudget'
BY RecordAssumption DEF InBudget, HasRoom

\* A request that is made had room.
LEMMA OneSpent ==
  ASSUME InBudget, Spend, expired' = expired PROVE InBudget'
BY RecordAssumption DEF InBudget, HasRoom, Spend

\* Work that is given up leaves nothing to try.
LEMMA NothingLeft ==
  ASSUME NEW todo, NEW seen, NEW tries, Untried(todo, seen, tries) PROVE Untried(<<>>, seen, tries)
BY NoneIsList DEF Untried, OnePerKey, KeysOf

\* A page visited before, or without room, is passed.
LEMMA PassPageKeeps == ASSUME RecordInv, PassPage PROVE RecordInv'
<1>1. /\ DOMAIN record' = RecordFields /\ attempts' = attempts /\ record'.of = record.of
      /\ record'.stage = record.stage /\ record'.image = record.image
      /\ record'.tiles = record.tiles /\ record'.structured = record.structured
      /\ record'.text = record.text /\ record'.todo = record.todo
      /\ record'.seen = record.seen /\ record'.asks = record.asks
      /\ record'.locator = record.locator
  BY DEF RecordInv, RecordShape, RecordFields, PassPage
<1>2. InBudget'
  BY DEF RecordInv, InBudget, PassPage
<1> QED
  <2>1. RecordShape'
    BY <1>1 DEF RecordInv, RecordShape, Stages
  <2>2. TilesCounted(record'.tiles) /\ AttemptShape(attempts')
    BY <1>1 DEF RecordInv
  <2>3. AllUntried'
    BY <1>1 DEF RecordInv, AllUntried, NothingTwice
  <2>4. Located'
    BY <1>1 DEF RecordInv, Located
  <2> QED
    BY <1>2, <2>1, <2>2, <2>3, <2>4 DEF RecordInv

\* A page visited leads to its image, to other pages or nowhere.
LEMMA VisitPageKeeps == ASSUME RecordInv, VisitPage PROVE RecordInv'
<1>1. /\ DOMAIN record' = RecordFields /\ attempts' = attempts /\ record.stage = "official" /\ record'.stage \in {"official", "download"} /\ record'.of = record.of
      /\ record'.image = record.image /\ record'.tiles = record.tiles
      /\ record'.structured = record.structured /\ record'.text = record.text
      /\ record'.todo = record.todo /\ record'.seen = record.seen
      /\ record'.asks = record.asks /\ record'.locator = record.locator
  BY DEF RecordInv, RecordShape, RecordFields, VisitPage
<1>2. InBudget'
  BY OneSpent DEF RecordInv, VisitPage
<1> QED
  <2>1. RecordShape'
    BY <1>1 DEF RecordInv, RecordShape, Stages
  <2>2. TilesCounted(record'.tiles) /\ AttemptShape(attempts')
    BY <1>1 DEF RecordInv
  <2>3. AllUntried'
    BY <1>1 DEF RecordInv, AllUntried, NothingTwice
  <2>4. Located'
    BY <1>1 DEF RecordInv, Located
  <2> QED
    BY <1>2, <2>1, <2>2, <2>3, <2>4 DEF RecordInv

\* The title is done: pages and the PDF of the notice come next.
LEMMA AfterTitleKeeps == ASSUME RecordInv, AfterTitle PROVE RecordInv'
<1>1. /\ DOMAIN record' = RecordFields /\ attempts' = attempts /\ record'.of = record.of
      /\ record'.image = record.image /\ record'.tiles = record.tiles
      /\ record'.structured = record.structured /\ record'.text = record.text
      /\ record'.seen = record.seen /\ record'.asks = record.asks
      /\ record'.locator = record.locator /\ record'.stage = "pages" /\ record'.todo = <<>>
  BY DEF RecordInv, RecordShape, RecordFields, AfterTitle
<1>2. InBudget'
  BY DEF RecordInv, InBudget, AfterTitle
<1>3. record.stage = "title"
  BY DEF AfterTitle
<1> QED
  <2>1. RecordShape'
    BY <1>1 DEF RecordInv, RecordShape, Stages
  <2>2. TilesCounted(record'.tiles) /\ AttemptShape(attempts')
    BY <1>1 DEF RecordInv
  <2>3. AllUntried'
    BY <1>1, NothingLeft DEF RecordInv, AllUntried, NothingTwice
  <2>4. Located'
    BY <1>1, <1>3 DEF RecordInv, Located
  <2> QED
    BY <1>2, <2>1, <2>2, <2>3, <2>4 DEF RecordInv

\* The candidates of the pages are done: the PDFs come next.
LEMMA AfterPageKeeps == ASSUME RecordInv, AfterPage PROVE RecordInv'
<1>1. /\ DOMAIN record' = RecordFields /\ attempts' = attempts /\ record'.of = record.of
      /\ record'.image = record.image /\ record'.tiles = record.tiles
      /\ record'.structured = record.structured /\ record'.text = record.text
      /\ record'.seen = record.seen /\ record'.asks = record.asks
      /\ record'.locator = record.locator /\ record'.stage = "pdfs" /\ record'.todo = <<>>
  BY DEF RecordInv, RecordShape, RecordFields, AfterPage
<1>2. InBudget'
  BY DEF RecordInv, InBudget, AfterPage
<1>3. record.stage = "page"
  BY DEF AfterPage
<1> QED
  <2>1. RecordShape'
    BY <1>1 DEF RecordInv, RecordShape, Stages
  <2>2. TilesCounted(record'.tiles) /\ AttemptShape(attempts')
    BY <1>1 DEF RecordInv
  <2>3. AllUntried'
    BY <1>1, NothingLeft DEF RecordInv, AllUntried, NothingTwice
  <2>4. Located'
    BY <1>1, <1>3 DEF RecordInv, Located
  <2> QED
    BY <1>2, <2>1, <2>2, <2>3, <2>4 DEF RecordInv

\* The candidates of the PDFs are done, and so is the record.
LEMMA AfterPdfKeeps == ASSUME RecordInv, AfterPdf PROVE RecordInv'
<1>1. /\ DOMAIN record' = RecordFields /\ attempts' = attempts /\ record'.of = record.of
      /\ record'.image = record.image /\ record'.tiles = record.tiles
      /\ record'.structured = record.structured /\ record'.text = record.text
      /\ record'.seen = record.seen /\ record'.asks = record.asks
      /\ record'.locator = record.locator /\ record'.stage = "done" /\ record'.todo = <<>>
  BY DEF RecordInv, RecordShape, RecordFields, AfterPdf
<1>2. InBudget'
  BY DEF RecordInv, InBudget, AfterPdf
<1> QED
  <2>1. RecordShape'
    BY <1>1 DEF RecordInv, RecordShape, Stages
  <2>2. TilesCounted(record'.tiles) /\ AttemptShape(attempts')
    BY <1>1 DEF RecordInv
  <2>3. AllUntried'
    BY <1>1, NothingLeft DEF RecordInv, AllUntried, NothingTwice
  <2>4. Located'
    BY <1>1 DEF RecordInv, Located
  <2> QED
    BY <1>2, <2>1, <2>2, <2>3, <2>4 DEF RecordInv

\* No provider knows the candidate.
LEMMA UnlocatedKeeps == ASSUME RecordInv, Unlocated PROVE RecordInv'
<1>1. /\ DOMAIN record' = RecordFields /\ attempts' = attempts /\ record'.of = record.of
      /\ record'.stage = record.stage /\ record'.image = record.image
      /\ record'.structured = record.structured /\ record'.text = record.text
      /\ record'.todo = record.todo /\ record'.seen = record.seen
      /\ record'.locator = record.locator /\ record'.asks = <<>> /\ record'.tiles = NoTiles
  BY DEF RecordInv, RecordShape, RecordFields, Unlocated, Tried
<1>2. InBudget'
  BY DEF RecordInv, InBudget, Unlocated, Tried
<1> QED
  <2>1. RecordShape'
    BY <1>1 DEF RecordInv, RecordShape, Stages
  <2>2. TilesCounted(record'.tiles) /\ AttemptShape(attempts')
    BY <1>1, NoTilesCounted DEF RecordInv
  <2>3. AllUntried'
    BY <1>1 DEF RecordInv, AllUntried, NothingTwice
  <2>4. Located'
    BY <1>1, NoTilesCounted DEF RecordInv, Located
  <2> QED
    BY <1>2, <2>1, <2>2, <2>3, <2>4 DEF RecordInv
\* The record's time runs out.
LEMMA TimeKeeps == ASSUME RecordInv, TimeRunsOut PROVE RecordInv'
<1>1. DOMAIN record' = RecordFields /\ attempts' = attempts /\ record' = record
  BY DEF RecordInv, RecordShape, RecordFields, TimeRunsOut
<1>2. InBudget'
  BY DEF RecordInv, InBudget, TimeRunsOut
<1> QED
  <2>1. RecordShape'
    BY <1>1 DEF RecordInv, RecordShape, Stages
  <2>2. TilesCounted(record'.tiles) /\ AttemptShape(attempts')
    BY <1>1 DEF RecordInv
  <2>3. AllUntried'
    BY <1>1 DEF RecordInv, AllUntried, NothingTwice
  <2>4. Located'
    BY <1>1 DEF RecordInv, Located
  <2> QED
    BY <1>2, <2>1, <2>2, <2>3, <2>4 DEF RecordInv

\* A worker takes the next tile, or leaves it out without room.
LEMMA TakeTileKeeps == ASSUME RecordInv, TakeTile PROVE RecordInv'
<1>1. /\ DOMAIN record' = RecordFields /\ attempts' = attempts /\ record'.of = record.of
      /\ record'.stage = record.stage /\ record'.image = record.image
      /\ record'.structured = record.structured /\ record'.text = record.text
      /\ record'.todo = record.todo /\ record'.seen = record.seen
      /\ record'.asks = record.asks /\ record'.locator = record.locator
  BY DEF RecordInv, RecordShape, RecordFields, TakeTile
<1>2. InBudget'
  BY SpentStays DEF RecordInv, TakeTile
<1>3. TilesCounted(record'.tiles) /\ record'.tiles.planned = record.tiles.planned
  <2> DEFINE t == record.tiles
  <2>1. TilesCounted(t)
    BY DEF RecordInv
  <2> HIDE DEF t
  <2>2. /\ record'.tiles \in {[t EXCEPT !.next = @ + 1, !.busy = @ + 1], [t EXCEPT !.next = @ + 1]}
        /\ t.next < t.planned
    BY DEF TakeTile, RecordInv, RecordShape, RecordFields, t
  <2>3. /\ t = [planned |-> t.planned, next |-> t.next, busy |-> t.busy, got |-> t.got]
        /\ t.planned \in Nat /\ t.next \in Nat /\ t.busy \in Nat /\ t.got \in Nat
        /\ t.got + t.busy <= t.next /\ t.next <= t.planned
    BY <2>1 DEF TilesCounted
  <2>4. \E b \in {t.busy, t.busy + 1} :
          record'.tiles = [planned |-> t.planned, next |-> t.next + 1, busy |-> b, got |-> t.got]
    BY <2>2, <2>3
  <2> QED
    BY <2>2, <2>3, <2>4 DEF TilesCounted, t
<1> QED
  <2>1. RecordShape'
    BY <1>1 DEF RecordInv, RecordShape, Stages
  <2>2. TilesCounted(record'.tiles) /\ AttemptShape(attempts')
    BY <1>1, <1>3 DEF RecordInv
  <2>3. AllUntried'
    BY <1>1 DEF RecordInv, AllUntried, NothingTwice
  <2>4. Located'
    BY <1>1, <1>3 DEF RecordInv, Located
  <2> QED
    BY <1>2, <2>1, <2>2, <2>3, <2>4 DEF RecordInv

\* A tile arrives or fails.
LEMMA TileEndsKeeps == ASSUME RecordInv, NEW ok, TileEnds(ok) PROVE RecordInv'
<1>1. /\ DOMAIN record' = RecordFields /\ attempts' = attempts /\ record'.of = record.of
      /\ record'.stage = record.stage /\ record'.image = record.image
      /\ record'.structured = record.structured /\ record'.text = record.text
      /\ record'.todo = record.todo /\ record'.seen = record.seen
      /\ record'.asks = record.asks /\ record'.locator = record.locator
  BY DEF RecordInv, RecordShape, RecordFields, TileEnds
<1>2. InBudget'
  BY DEF RecordInv, InBudget, TileEnds
<1>3. TilesCounted(record'.tiles) /\ record'.tiles.planned = record.tiles.planned
  <2> DEFINE t == record.tiles
  <2>1. TilesCounted(t)
    BY DEF RecordInv
  <2> HIDE DEF t
  <2>2. /\ record'.tiles \in {[t EXCEPT !.busy = @ - 1, !.got = @ + 1], [t EXCEPT !.busy = @ - 1, !.got = @]}
        /\ t.busy > 0
    BY DEF TileEnds, RecordInv, RecordShape, RecordFields, t
  <2>3. /\ t = [planned |-> t.planned, next |-> t.next, busy |-> t.busy, got |-> t.got]
        /\ t.planned \in Nat /\ t.next \in Nat /\ t.busy \in Nat /\ t.got \in Nat
        /\ t.got + t.busy <= t.next /\ t.next <= t.planned
    BY <2>1 DEF TilesCounted
  <2>4. \E g \in {t.got, t.got + 1} :
          record'.tiles = [planned |-> t.planned, next |-> t.next, busy |-> t.busy - 1, got |-> g]
    BY <2>2, <2>3
  <2> QED
    BY <2>2, <2>3, <2>4 DEF TilesCounted, t
<1> QED
  <2>1. RecordShape'
    BY <1>1 DEF RecordInv, RecordShape, Stages
  <2>2. TilesCounted(record'.tiles) /\ AttemptShape(attempts')
    BY <1>1, <1>3 DEF RecordInv
  <2>3. AllUntried'
    BY <1>1 DEF RecordInv, AllUntried, NothingTwice
  <2>4. Located'
    BY <1>1, <1>3 DEF RecordInv, Located
  <2> QED
    BY <1>2, <2>1, <2>2, <2>3, <2>4 DEF RecordInv

\* The picture is usable, and its place the locator, or the candidate was tried in vain.
LEMMA EndRenderKeeps == ASSUME RecordInv, NEW good, EndRender(good) PROVE RecordInv'
<1>1. /\ DOMAIN record' = RecordFields /\ attempts' = attempts /\ record'.of = record.of
      /\ record'.structured = record.structured /\ record'.text = record.text
      /\ record'.todo = record.todo /\ record'.seen = record.seen /\ record'.asks = <<>>
      /\ record'.tiles = NoTiles
  BY DEF RecordInv, RecordShape, RecordFields, EndRender, Tried, Imaged
<1>2. InBudget'
  BY DEF RecordInv, InBudget, EndRender, Tried, Imaged
<1>3. \/ record'.stage = record.stage /\ record'.image = record.image /\ record'.locator = record.locator
      \/ record'.stage = "done" /\ record'.image.kind = "satellite" /\ record'.locator = record'.image.of
  BY DEF EndRender, Tried, Imaged, RecordInv, RecordShape, RecordFields
<1> QED
  <2>1. RecordShape'
    BY <1>1, <1>3 DEF RecordInv, RecordShape, Stages
  <2>2. TilesCounted(record'.tiles) /\ AttemptShape(attempts')
    BY <1>1, NoTilesCounted DEF RecordInv
  <2>3. AllUntried'
    BY <1>1, <1>3 DEF RecordInv, AllUntried, NothingTwice
  <2>4. Located'
    BY <1>1, <1>3, NoTilesCounted DEF RecordInv, Located
  <2> QED
    BY <1>2, <2>1, <2>2, <2>3, <2>4 DEF RecordInv

\* No official image: the candidates of the title are the first work.
LEMMA NoImageKeeps == ASSUME RecordInv, NoOfficialImage PROVE RecordInv'
<1>1. /\ DOMAIN record' = RecordFields /\ attempts' = attempts /\ record'.of = record.of
      /\ record'.image = record.image /\ record'.tiles = record.tiles
      /\ record'.structured = record.structured /\ record'.text = record.text
      /\ record'.asks = record.asks /\ record'.locator = record.locator
      /\ record'.stage = "title" /\ record.stage # "done"
  BY DEF RecordInv, RecordShape, RecordFields, NoOfficialImage, BeginTitle
<1>2. InBudget'
  BY DEF RecordInv, InBudget, NoOfficialImage, BeginTitle
<1>3. Untried(record'.todo, record'.seen, attempts)
  <2>1. record'.todo = DedupeCandidates(OwnCandidates(record.of)) /\ record'.seen = KeysOf(OwnCandidates(record.of))
    BY DEF NoOfficialImage, BeginTitle, RecordInv, RecordShape, RecordFields
  <2>2. attempts = <<>> /\ record.of \in Opportunities
    BY DEF NoOfficialImage, RecordInv, RecordShape, AllUntried
  <2> QED
    BY <2>1, <2>2, UntriedBegins
<1> QED
  <2>1. RecordShape'
    BY <1>1 DEF RecordInv, RecordShape, Stages
  <2>2. TilesCounted(record'.tiles) /\ AttemptShape(attempts')
    BY <1>1 DEF RecordInv
  <2>3. AllUntried'
    BY <1>1, <1>3 DEF RecordInv, AllUntried, NothingTwice
  <2>4. Located'
    BY <1>1 DEF RecordInv, Located
  <2> QED
    BY <1>2, <2>1, <2>2, <2>3, <2>4 DEF RecordInv

\* The image is usable, or the candidates of the title are the first work.
LEMMA DownloadKeeps == ASSUME RecordInv, Download PROVE RecordInv'
<1>1. PICK hops \in HopsOf(Head(record.pages)) :
        record' = IF UsableImage(SafeFetch(hops, ImageBytes))
                  THEN [record EXCEPT !.stage = "done", !.pages = <<>>,
                                      !.image = [NoImage EXCEPT !.kind = "official-image"]]
                  ELSE BeginTitle(record)
  BY DEF Download
<1>2. InBudget'
  BY OneSpent DEF RecordInv, Download
<1>3. record.stage = "download" /\ attempts' = attempts
  BY DEF Download
<1>4. CASE UsableImage(SafeFetch(hops, ImageBytes))
  <2> DEFINE picture == [NoImage EXCEPT !.kind = "official-image"]
  <2>1. picture.kind = "official-image"
    BY DEF NoImage
  <2>2. record' = [record EXCEPT !.stage = "done", !.pages = <<>>, !.image = picture]
    BY <1>1, <1>4
  <2> HIDE DEF picture
  <2>3. /\ DOMAIN record' = RecordFields /\ record'.of = record.of
        /\ record'.tiles = record.tiles /\ record'.structured = record.structured
        /\ record'.text = record.text /\ record'.todo = record.todo
        /\ record'.seen = record.seen /\ record'.asks = record.asks
        /\ record'.locator = record.locator /\ record'.stage = "done"
        /\ record'.image = picture
    BY <2>2 DEF RecordInv, RecordShape, RecordFields
  <2>4. RecordShape'
    BY <2>1, <2>3 DEF RecordInv, RecordShape, Stages
  <2>5. TilesCounted(record'.tiles) /\ AttemptShape(attempts')
    BY <1>3, <2>3 DEF RecordInv
  <2>6. AllUntried'
    BY <1>3, <2>3 DEF RecordInv, AllUntried, NothingTwice
  <2>7. Located'
    BY <1>3, <2>1, <2>3 DEF RecordInv, Located
  <2> QED
    BY <1>2, <2>4, <2>5, <2>6, <2>7 DEF RecordInv
<1>5. CASE ~UsableImage(SafeFetch(hops, ImageBytes))
  <2>1. /\ DOMAIN record' = RecordFields /\ record'.of = record.of
        /\ record'.image = record.image /\ record'.tiles = record.tiles
        /\ record'.structured = record.structured /\ record'.text = record.text
        /\ record'.asks = record.asks /\ record'.locator = record.locator
        /\ record'.stage = "title"
        /\ record'.todo = DedupeCandidates(OwnCandidates(record.of))
        /\ record'.seen = KeysOf(OwnCandidates(record.of))
    BY <1>1, <1>5 DEF BeginTitle, RecordInv, RecordShape, RecordFields
  <2>2. Untried(record'.todo, record'.seen, attempts)
    <3>1. attempts = <<>> /\ record.of \in Opportunities
      BY <1>3 DEF RecordInv, RecordShape, AllUntried
    <3> QED
      BY <2>1, <3>1, UntriedBegins
  <2>3. RecordShape'
    BY <2>1 DEF RecordInv, RecordShape, Stages
  <2>4. TilesCounted(record'.tiles) /\ AttemptShape(attempts')
    BY <1>3, <2>1 DEF RecordInv
  <2>5. AllUntried'
    BY <1>3, <2>1, <2>2 DEF RecordInv, AllUntried, NothingTwice
  <2>6. Located'
    BY <1>3, <2>1 DEF RecordInv, Located
  <2> QED
    BY <1>2, <2>3, <2>4, <2>5, <2>6 DEF RecordInv
<1> QED
  BY <1>4, <1>5

\* The next candidate becomes an attempt without a place.
LEMMA NextCandidateKeeps == ASSUME RecordInv, NextCandidate PROVE RecordInv'
<1>1. /\ DOMAIN record' = RecordFields
      /\ attempts' = Append(attempts, [key |-> ComparisonKey(Head(record.todo)), place |-> NoPlace])
      /\ record'.of = record.of /\ record'.stage = record.stage
      /\ record'.image = record.image /\ record'.tiles = record.tiles
      /\ record'.structured = record.structured /\ record'.text = record.text
      /\ record'.seen = record.seen /\ record'.locator = record.locator
      /\ record'.todo = Tail(record.todo) /\ record.todo # <<>>
      /\ record.stage \in {"title", "page", "pdf"}
  BY DEF RecordInv, RecordShape, RecordFields, NextCandidate, Idle, Trying
<1>2. InBudget'
  BY DEF RecordInv, InBudget, NextCandidate, Idle, Trying
<1>3. IsList(attempts)
  BY DEF RecordInv, AttemptShape
<1>4. /\ Untried(record'.todo, record'.seen, attempts')
      /\ ComparisonKey(Head(record.todo)) \notin TriedKeys(attempts)
  BY <1>1, <1>3, UntriedHead DEF RecordInv, AllUntried
<1>5. NothingTwice'
  <2> DEFINE new == [key |-> ComparisonKey(Head(record.todo)), place |-> NoPlace]
  <2>1. /\ Len(attempts) \in Nat /\ DOMAIN attempts = 1 .. Len(attempts)
        /\ DOMAIN attempts' = 1 .. Len(attempts) + 1
        /\ \A i \in DOMAIN attempts : attempts'[i] = attempts[i]
        /\ attempts'[Len(attempts) + 1] = new
    BY <1>1, <1>3, Appended, Lists
  <2>2. new.key \notin TriedKeys(attempts)
    BY <1>4
  <2> HIDE DEF new
  <2>3. \A i \in DOMAIN attempts' : i \in DOMAIN attempts \/ i = Len(attempts) + 1
    BY <2>1
  <2>4. \A i \in DOMAIN attempts : attempts[i].key # new.key
    BY <2>2 DEF TriedKeys
  <2> QED
    BY <2>1, <2>3, <2>4 DEF NothingTwice, RecordInv, AllUntried
<1>6. AttemptShape(attempts') /\ attempts' # <<>> /\ attempts'[Len(attempts')].place = NoPlace
  <2>1. \E p : IsFirst(p, attempts)
    BY <1>3, FirstIs
  <2> QED
    BY <1>1, <1>3, <2>1, OneMoreAttempt DEF RecordInv, AttemptShape
<1>7. record'.image.kind # "satellite" /\ IsFirst(record'.locator, attempts')
  BY <1>1, <1>3, OneMoreAttempt DEF RecordInv, Located
<1> QED
  <2>1. RecordShape'
    BY <1>1 DEF RecordInv, RecordShape, Stages
  <2>2. TilesCounted(record'.tiles) /\ AttemptShape(attempts')
    BY <1>1, <1>6 DEF RecordInv
  <2>3. AllUntried'
    BY <1>1, <1>4, <1>5 DEF RecordInv, AllUntried, NothingTwice
  <2>4. Located'
    BY <1>1, <1>6, <1>7 DEF RecordInv, Located
  <2> QED
    BY <1>2, <2>1, <2>2, <2>3, <2>4 DEF RecordInv
\* The pairs of two finite sets are finite.
LEMMA PairsAreFinite ==
  ASSUME NEW S, NEW T, IsFiniteSet(S), IsFiniteSet(T) PROVE IsFiniteSet(S \X T)
BY FS_Product, Zenon

\* The values of a function on a finite set are finite.
LEMMA ImageIsFinite ==
  ASSUME NEW S, IsFiniteSet(S), NEW f PROVE IsFiniteSet({f[p] : p \in S})
<1> DEFINE T == {f[p] : p \in S}
           g == [p \in S |-> f[p]]
<1>1. g \in Surjection(S, T)
  <2>1. g \in [S -> T] /\ \A t \in T : \E s \in S : g[s] = t
    OBVIOUS
  <2> HIDE DEF T, g
  <2> QED
    BY <2>1 DEF Surjection
<1> HIDE DEF T, g
<1>2. IsFiniteSet(T)
  BY <1>1, FS_Surjection, Zenon
<1> QED
  BY <1>2 DEF T

\* The tiles of a picture are finite in number.
LEMMA PlannedFinite ==
  ASSUME NEW x \in Int, NEW y \in Int, NEW zoom
  PROVE  Cardinality(PlanTiles(x, y, zoom, ImageSize, TileSize)) \in Nat
<1> DEFINE span(at) == (at - ImageSize \div 2) \div TileSize .. (at + ImageSize \div 2) \div TileSize
           perAxis == 2 ^ zoom
           band == {t \in span(y) : 0 <= t /\ t < perAxis}
           tiles == {<<tx % perAxis, ty>> : tx \in span(x), ty \in band}
           f == [p \in span(x) \X band |-> <<p[1] % perAxis, p[2]>>]
<1>1. ASSUME NEW at \in Int PROVE IsFiniteSet(span(at))
  <2>1. ImageSize \in Nat /\ TileSize \in Nat \ {0} /\ 2 \in Nat \ {0}
    BY RecordAssumption
  <2>2. (at - ImageSize \div 2) \in Int /\ (at + ImageSize \div 2) \in Int
    BY <2>1
  <2>3. \A z \in Int : z \div TileSize \in Int
    BY <2>1
  <2> QED
    BY <2>2, <2>3, FS_Interval
<1>2. IsFiniteSet(span(x)) /\ IsFiniteSet(band)
  <2>1. IsFiniteSet(span(x)) /\ IsFiniteSet(span(y))
    BY <1>1
  <2> QED
    BY <2>1, FS_Subset
<1> HIDE DEF span, perAxis
<1>3. IsFiniteSet(span(x) \X band)
  <2> DEFINE S == span(x)
  <2>1. IsFiniteSet(S) /\ IsFiniteSet(band)
    BY <1>2
  <2> HIDE DEF S, band
  <2>2. IsFiniteSet(S \X band)
    BY <2>1, PairsAreFinite
  <2> QED
    BY <2>2, Zenon DEF S, band
<1>4. tiles = {f[p] : p \in span(x) \X band}
  <2> DEFINE S == span(x)
             all == {f[p] : p \in S \X band}
  <2>1. \A p \in S \X band : f[p] = <<p[1] % perAxis, p[2]>>
    OBVIOUS
  <2>2. tiles = {<<tx % perAxis, ty>> : tx \in S, ty \in band}
    OBVIOUS
  <2> HIDE DEF S, band, f
  <2>3. ASSUME NEW t \in tiles PROVE t \in all
    <3>1. PICK tx \in S, ty \in band : t = <<tx % perAxis, ty>>
      BY <2>2, <2>3
    <3>2. <<tx, ty>> \in S \X band /\ f[<<tx, ty>>] = t
      BY <2>1, <3>1
    <3> QED
      BY <3>2
  <2>4. ASSUME NEW t \in all PROVE t \in tiles
    <3>1. PICK p \in S \X band : t = f[p]
      BY <2>4
    <3>2. p[1] \in S /\ p[2] \in band /\ t = <<p[1] % perAxis, p[2]>>
      BY <2>1, <3>1
    <3> QED
      BY <2>2, <3>2
  <2> HIDE DEF tiles
  <2>5. tiles = all
    BY <2>3, <2>4
  <2> QED
    BY <2>5 DEF S
<1>5. IsFiniteSet({f[p] : p \in span(x) \X band})
  <2> HIDE DEF f, band
  <2> QED
    BY <1>3, ImageIsFinite
<1>6. PlanTiles(x, y, zoom, ImageSize, TileSize) = tiles
  BY DEF PlanTiles, span, perAxis
<1> HIDE DEF tiles, band, f
<1> QED
  BY <1>4, <1>5, <1>6, FS_CardinalityType

\* A place found is the place of the last attempt, and the locator if it is the first.
LEMMA FoundKeeps ==
  ASSUME RecordInv, Asking, NEW at \in Int \X Int, NEW precision, Found(at, precision)
  PROVE  RecordShape' /\ TilesCounted(record'.tiles) /\ AttemptShape(attempts') /\ AllUntried' /\ Located'
<1> DEFINE c == record.candidate
           place == [label |-> IF c.hint # None THEN c.hint ELSE c.address, at |-> at, precision |-> precision]
           plan == PlanTiles(at[1], at[2], PrecisionZoom(c, precision), ImageSize, TileSize)
           tiles == [NoTiles EXCEPT !.planned = Cardinality(plan)]
<1>1. /\ record' = [LocatedAt(record, place) EXCEPT !.asks = <<>>, !.tiles = tiles]
      /\ attempts' = [attempts EXCEPT ![Len(attempts)].place = place]
  BY DEF Found
<1>2. place # NoPlace
  <2>1. place.at = at /\ NoPlace.at = <<>>
    BY DEF NoPlace
  <2>2. at # <<>>
    <3>1. at = <<at[1], at[2]>>
      OBVIOUS
    <3> HIDE DEF place
    <3> QED
      BY <3>1
  <2> HIDE DEF place
  <2> QED
    BY <2>1, <2>2
<1>3. TilesCounted(tiles)
  <2>1. Cardinality(plan) \in Nat
    BY PlannedFinite
  <2> HIDE DEF plan
  <2> QED
    BY <2>1 DEF TilesCounted, NoTiles
<1> HIDE DEF place, tiles
<1>4. /\ DOMAIN record' = RecordFields /\ record'.of = record.of
      /\ record'.stage = record.stage /\ record'.image = record.image
      /\ record'.structured = record.structured /\ record'.text = record.text
      /\ record'.todo = record.todo /\ record'.seen = record.seen /\ record'.tiles = tiles
      /\ record'.asks = <<>>
      /\ record'.locator = (IF record.locator = NoPlace THEN place ELSE record.locator)
  BY <1>1 DEF LocatedAt, RecordInv, RecordShape, RecordFields
<1>5. AttemptShape(attempts) /\ attempts # <<>> /\ attempts[Len(attempts)].place = NoPlace
      /\ record.image.kind # "satellite" /\ IsFirst(record.locator, attempts)
  BY DEF Asking, RecordInv, Located
<1>6. /\ IsFirst(record'.locator, attempts') /\ AttemptShape(attempts')
      /\ DOMAIN attempts' = DOMAIN attempts /\ \A i \in DOMAIN attempts : attempts'[i].key = attempts[i].key
  <2> DEFINE p == record.locator
             new == [attempts EXCEPT ![Len(attempts)].place = place]
  <2>1. IsList(attempts) /\ \A i \in DOMAIN attempts : DOMAIN attempts[i] = {"key", "place"}
    BY <1>5 DEF AttemptShape
  <2>2. /\ IsFirst(IF p = NoPlace THEN place ELSE p, new) /\ IsList(new)
        /\ DOMAIN new = DOMAIN attempts
        /\ \A i \in DOMAIN new : DOMAIN new[i] = {"key", "place"} /\ new[i].key = attempts[i].key
    BY <1>2, <1>5, <2>1, LastIsLocated
  <2>3. attempts' = new
    BY <1>1
  <2>4. record'.locator = IF p = NoPlace THEN place ELSE p
    BY <1>4
  <2> HIDE DEF p, new
  <2> QED
    BY <2>2, <2>3, <2>4 DEF AttemptShape
<1>7. RecordShape'
  BY <1>4 DEF RecordInv, RecordShape, Stages
<1>8. AllUntried'
  <2>1. TriedKeys(attempts') = TriedKeys(attempts)
    BY <1>6 DEF TriedKeys
  <2>2. NothingTwice'
    BY <1>6 DEF NothingTwice, RecordInv, AllUntried
  <2>3. Untried(record'.todo, record'.seen, attempts')
    BY <1>4, <2>1 DEF Untried, RecordInv, AllUntried
  <2>4. record.stage \notin {"official", "download"}
    BY <1>5 DEF RecordInv, AllUntried
  <2> QED
    BY <1>4, <2>2, <2>3, <2>4 DEF AllUntried
<1>9. Located'
  BY <1>4, <1>5, <1>6 DEF Located
<1> QED
  BY <1>3, <1>4, <1>6, <1>7, <1>8, <1>9

\* A provider that knows no place leaves the attempt as it is.
LEMMA NotFoundKeeps ==
  ASSUME RecordInv, Asking, NotFound
  PROVE  RecordShape' /\ TilesCounted(record'.tiles) /\ AttemptShape(attempts') /\ AllUntried' /\ Located'
<1>1. /\ DOMAIN record' = RecordFields /\ attempts' = attempts /\ record.asks # <<>>
      /\ record'.of = record.of /\ record'.stage = record.stage
      /\ record'.image = record.image /\ record'.tiles = record.tiles
      /\ record'.structured = record.structured /\ record'.text = record.text
      /\ record'.todo = record.todo /\ record'.seen = record.seen
      /\ record'.locator = record.locator
  BY DEF NotFound, Asking, RecordInv, RecordShape, RecordFields
<1>2. RecordShape'
  BY <1>1 DEF RecordInv, RecordShape, Stages
<1>3. TilesCounted(record'.tiles) /\ AttemptShape(attempts')
  BY <1>1 DEF RecordInv
<1>4. AllUntried'
  BY <1>1 DEF RecordInv, AllUntried, NothingTwice
<1>5. Located'
  BY <1>1 DEF RecordInv, Located
<1> QED
  BY <1>2, <1>3, <1>4, <1>5

\* The cache answers for a provider.
LEMMA AskCacheKeeps ==
  ASSUME RecordInv, NEW p \in CachedPlaces, AskCache(p) PROVE RecordInv'
<1>1. InBudget' /\ Asking
  BY DEF AskCache, RecordInv, InBudget
<1>2. CASE p = <<>>
  BY <1>1, <1>2, NotFoundKeeps DEF AskCache, RecordInv
<1>3. CASE p # <<>>
  <2>1. p[1].at \in Int \X Int
    BY <1>3, RecordAssumption
  <2>2. Found(p[1].at, IF p[1].precision = "none" THEN DefaultPrecision(record.candidate) ELSE p[1].precision)
    BY <1>3 DEF AskCache
  <2> QED
    BY <1>1, <2>1, <2>2, FoundKeeps DEF RecordInv
<1> QED
  BY <1>2, <1>3

\* A provider answers, and its answer is accepted or not.
LEMMA AskProviderKeeps == ASSUME RecordInv, AskProvider PROVE RecordInv'
<1> DEFINE provider == Head(record.asks)[1]
<1>1. PICK a \in GeocoderAnswers(provider) :
        IF Accepted(provider, a, record.candidate, record.of)
        THEN Found(a.at, PrecisionOf(provider, a, record.candidate)) ELSE NotFound
  BY DEF AskProvider
<1>2. InBudget' /\ Asking
  BY OneSpent DEF AskProvider, RecordInv
<1>3. a.at \in Int \X Int
  BY RecordAssumption DEF GeocoderAnswers
<1>4. CASE Accepted(provider, a, record.candidate, record.of)
  <2>1. Found(a.at, PrecisionOf(provider, a, record.candidate))
    BY <1>1, <1>4
  <2> QED
    BY <1>2, <1>3, <2>1, FoundKeeps DEF RecordInv
<1>5. CASE ~Accepted(provider, a, record.candidate, record.of)
  <2>1. NotFound
    BY <1>1, <1>5
  <2> QED
    BY <1>2, <2>1, NotFoundKeeps DEF RecordInv
<1> QED
  BY <1>4, <1>5

\* A provider fails, or may not be asked.
LEMMA AskFailsKeeps == ASSUME RecordInv, AskFails PROVE RecordInv'
<1>1. InBudget' /\ Asking /\ NotFound
  BY SpentStays DEF AskFails, RecordInv
<1> QED
  BY <1>1, NotFoundKeeps DEF RecordInv
\* A response that is one comes from the last hop of the traffic.
LEMMA FetchedIsPage ==
  ASSUME NEW u, NEW hops \in HopsOf(u), NEW cap, SafeFetch(hops, cap) # NoResponse
  PROVE  IsPage(SafeFetch(hops, cap).page)
<1> DEFINE good == {i \in DOMAIN hops : ~hops[i].redirect}
           first == CHOOSE i \in good : \A j \in good : i <= j
           last == FirstSuch(hops, LAMBDA h : ~h.redirect)
<1>1. last = IF good = {} THEN 0 ELSE first
  BY DEF FirstSuch
<1>2. last # 0 /\ SafeFetch(hops, cap) = hops[last]
  BY DEF SafeFetch
<1> HIDE DEF last
<1>3. hops \in Traffic
  <2>1. hops # <<>>
    <3>1. CASE hops = <<>>
      <4>1. good = {}
        BY <3>1
      <4> QED
        BY <1>1, <1>2, <4>1
    <3> QED
      BY <3>1
  <2> QED
    BY <2>1 DEF HopsOf
<1>4. IsList(hops) /\ \A i \in DOMAIN hops : IsPage(hops[i].page)
  BY <1>3, RecordAssumption
<1>5. good # {} /\ good \subseteq Nat
  BY <1>1, <1>2, <1>4, Lists
<1>6. first \in good
  <2>1. \E i \in good : \A j \in good : i <= j
    BY <1>5, LeastExists
  <2> QED
    BY <2>1
<1> QED
  BY <1>1, <1>2, <1>4, <1>5, <1>6

\* The page of a document is one.
LEMMA DocumentIsPage ==
  ASSUME NEW u, NEW hops \in HopsOf(u), NEW cap, HtmlDocument(SafeFetch(hops, cap)) # <<>>
  PROVE  IsPage(HtmlDocument(SafeFetch(hops, cap))[1].page)
<1> DEFINE response == SafeFetch(hops, cap)
<1>1. response # NoResponse /\ HtmlDocument(response)[1].page = response.page
  BY DEF HtmlDocument
<1> QED
  BY <1>1, FetchedIsPage

\* The text of a PDF is one.
LEMMA PdfTextIsText ==
  ASSUME NEW u, NEW hops \in HopsOf(u), NEW cap, PdfText(SafeFetch(hops, cap)) # <<>>
  PROVE  IsText(PdfText(SafeFetch(hops, cap))[1])
<1> DEFINE response == SafeFetch(hops, cap)
           text == PdfText(response)
<1>1. response # NoResponse /\ text = response.page.pdftext
  <2>1. Succeeded(response) /\ text = response.page.pdftext
    BY DEF PdfText
  <2>2. NoResponse.status = 0
    BY DEF NoResponse
  <2>3. response.status # 0
    <3>1. response.status \in 200 .. 299
      BY <2>1 DEF Succeeded
    <3> HIDE DEF response
    <3>2. \A n \in 200 .. 299 : n # 0
      OBVIOUS
    <3> QED
      BY <3>1, <3>2
  <2> HIDE DEF response
  <2>4. response # NoResponse
    BY <2>2, <2>3
  <2> QED
    BY <2>1, <2>4
<1>2. IsPage(response.page)
  BY <1>1, FetchedIsPage
<1> HIDE DEF response
<1>3. IsList(text) /\ text # <<>> /\ \A i \in DOMAIN text : IsText(text[i])
  BY <1>1, <1>2 DEF IsPage, response
<1> HIDE DEF text
<1>4. 1 \in DOMAIN text
  <2>1. Len(text) \in Nat /\ DOMAIN text = 1 .. Len(text) /\ text = [i \in 1 .. Len(text) |-> text[i]]
    BY <1>3, Lists
  <2>2. Len(text) # 0
    <3>1. text \in Seq({text[i] : i \in DOMAIN text})
      BY <1>3, Lists
    <3> QED
      BY <1>3, <3>1
  <2> QED
    BY <2>1, <2>2
<1> QED
  BY <1>3, <1>4 DEF text, response

\* What a list adds to the record is new to it.
LEMMA UnseenKeeps ==
  ASSUME NEW r, NEW tries, DOMAIN r = RecordFields, Untried(r.todo, r.seen, tries),
         NEW list, IsList(list), OnePerKey(list)
  PROVE  LET s == Unseen(r, list)
         IN  /\ DOMAIN s = RecordFields /\ Untried(s.todo, s.seen, tries)
             /\ s.of = r.of /\ s.stage = r.stage /\ s.image = r.image /\ s.tiles = r.tiles
             /\ s.structured = r.structured /\ s.text = r.text
             /\ s.asks = r.asks /\ s.locator = r.locator
<1> DEFINE more == r.todo \o PickFrom(list, {i \in DOMAIN list : ComparisonKey(list[i]) \notin r.seen})
           met == r.seen \cup KeysOf(list)
<1>1. Unseen(r, list) = [r EXCEPT !.todo = more, !.seen = met]
  BY DEF Unseen
<1>2. Untried(more, met, tries)
  BY UntriedGrows
<1> HIDE DEF more, met
<1> QED
  BY <1>1, <1>2 DEF RecordFields

\* A page read: the record takes its candidates and the links to its PDFs.
LEMMA FetchPageKeeps == ASSUME RecordInv, FetchPage PROVE RecordInv'
<1>1. PICK hops \in HopsOf(Head(record.pages)) :
        LET document == HtmlDocument(SafeFetch(hops, PageBytes))
            read == [record EXCEPT !.pages = Tail(@)]
        IN  record' = IF document = <<>> THEN read
                      ELSE [read EXCEPT
                        !.structured = @ \o ExtractStructured(document[1].page.meta),
                        !.text = IF document[1].ok THEN @ \o ExtractFromText(document[1].page.text, "page") ELSE @,
                        !.pdfs = @ \o RankedPdfs(PdfUrls(document[1].page))]
  BY DEF FetchPage
<1>2. InBudget'
  BY OneSpent DEF RecordInv, FetchPage
<1> DEFINE document == HtmlDocument(SafeFetch(hops, PageBytes))
           page == document[1].page
           read == [record EXCEPT !.pages = Tail(@)]
           structured == record.structured \o ExtractStructured(page.meta)
           text == IF document[1].ok THEN record.text \o ExtractFromText(page.text, "page") ELSE record.text
           pdfs == record.pdfs \o RankedPdfs(PdfUrls(page))
<1>3. CASE document = <<>>
  <2>1. record' = read
    BY <1>1, <1>3
  <2> HIDE DEF document
  <2>2. /\ DOMAIN record' = RecordFields /\ attempts' = attempts /\ record'.of = record.of
      /\ record'.stage = record.stage /\ record'.image = record.image
      /\ record'.tiles = record.tiles /\ record'.structured = record.structured
      /\ record'.text = record.text /\ record'.todo = record.todo
      /\ record'.seen = record.seen /\ record'.asks = record.asks
      /\ record'.locator = record.locator
    BY <2>1 DEF FetchPage, RecordInv, RecordShape, RecordFields
  <2> QED
    <3>1. RecordShape'
      BY <2>2 DEF RecordInv, RecordShape, Stages
    <3>2. TilesCounted(record'.tiles) /\ AttemptShape(attempts')
      BY <2>2 DEF RecordInv
    <3>3. AllUntried'
      BY <2>2 DEF RecordInv, AllUntried, NothingTwice
    <3>4. Located'
      BY <2>2 DEF RecordInv, Located
    <3> QED
      BY <1>2, <3>1, <3>2, <3>3, <3>4 DEF RecordInv
<1>4. CASE document # <<>>
  <2>1. IsPage(page)
    BY <1>4, DocumentIsPage
  <2>2. record' = [read EXCEPT !.structured = structured, !.text = text, !.pdfs = pdfs]
    <3> DEFINE fields == DOMAIN record
    <3>1. DOMAIN record = RecordFields
      BY DEF RecordInv, RecordShape
    <3>2. read.structured = record.structured /\ read.text = record.text /\ read.pdfs = record.pdfs
      BY <3>1 DEF RecordFields
    <3>3. record' = [read EXCEPT
                       !.structured = @ \o ExtractStructured(document[1].page.meta),
                       !.text = IF document[1].ok THEN @ \o ExtractFromText(document[1].page.text, "page") ELSE @,
                       !.pdfs = @ \o RankedPdfs(PdfUrls(document[1].page))]
      BY <1>1, <1>4
    <3> HIDE DEF document, read
    <3> QED
      BY <3>2, <3>3
  <2>3. IsList(structured) /\ IsList(text)
    <3>1. IsList(ExtractStructured(page.meta)) /\ IsList(ExtractFromText(page.text, "page"))
      BY <2>1, StructuredIsList, TextGivesList DEF IsPage
    <3> HIDE DEF page
    <3> QED
      BY <3>1, Joined DEF RecordInv, RecordShape
  <2> HIDE DEF structured, text, pdfs, document, page
  <2>4. /\ DOMAIN record' = RecordFields /\ attempts' = attempts /\ record'.of = record.of
      /\ record'.stage = record.stage /\ record'.image = record.image
      /\ record'.tiles = record.tiles /\ record'.todo = record.todo
      /\ record'.seen = record.seen /\ record'.asks = record.asks
      /\ record'.locator = record.locator /\ record'.structured = structured
      /\ record'.text = text
    BY <2>2 DEF FetchPage, RecordInv, RecordShape, RecordFields
  <2> QED
    <3>1. RecordShape'
      BY <2>3, <2>4 DEF RecordInv, RecordShape, Stages
    <3>2. TilesCounted(record'.tiles) /\ AttemptShape(attempts')
      BY <2>4 DEF RecordInv
    <3>3. AllUntried'
      BY <2>4 DEF RecordInv, AllUntried, NothingTwice
    <3>4. Located'
      BY <2>4 DEF RecordInv, Located
    <3> QED
      BY <1>2, <3>1, <3>2, <3>3, <3>4 DEF RecordInv
<1> QED
  BY <1>3, <1>4

\* A PDF read: the record takes the candidates of its text.
LEMMA FetchPdfKeeps == ASSUME RecordInv, FetchPdf PROVE RecordInv'
<1>1. PICK hops \in HopsOf(Head(record.pages)) :
        LET text == PdfText(SafeFetch(hops, PdfBytes))
        IN  record' = [record EXCEPT !.pages = Tail(@),
                         !.text = IF text = <<>> THEN @ ELSE @ \o ExtractFromText(text[1], "page")]
  BY DEF FetchPdf
<1>2. InBudget'
  BY OneSpent DEF RecordInv, FetchPdf
<1> DEFINE read == PdfText(SafeFetch(hops, PdfBytes))
           text == IF read = <<>> THEN record.text ELSE record.text \o ExtractFromText(read[1], "page")
<1>3. record' = [record EXCEPT !.pages = Tail(@), !.text = text]
  BY <1>1
<1>4. IsList(text)
  <2>1. read # <<>> => IsList(ExtractFromText(read[1], "page"))
    BY PdfTextIsText, TextGivesList
  <2> HIDE DEF read
  <2> QED
    BY <2>1, Joined DEF RecordInv, RecordShape
<1> HIDE DEF text, read
<1>5. /\ DOMAIN record' = RecordFields /\ attempts' = attempts /\ record'.of = record.of
      /\ record'.stage = record.stage /\ record'.image = record.image
      /\ record'.tiles = record.tiles /\ record'.structured = record.structured
      /\ record'.todo = record.todo /\ record'.seen = record.seen
      /\ record'.asks = record.asks /\ record'.locator = record.locator
      /\ record'.text = text
  BY <1>3 DEF FetchPdf, RecordInv, RecordShape, RecordFields
<1> QED
  <2>1. RecordShape'
    BY <1>4, <1>5 DEF RecordInv, RecordShape, Stages
  <2>2. TilesCounted(record'.tiles) /\ AttemptShape(attempts')
    BY <1>5 DEF RecordInv
  <2>3. AllUntried'
    BY <1>5 DEF RecordInv, AllUntried, NothingTwice
  <2>4. Located'
    BY <1>5 DEF RecordInv, Located
  <2> QED
    BY <1>2, <2>1, <2>2, <2>3, <2>4 DEF RecordInv

\* The candidates of the pages, then the localities they name, as far as they are new.
LEMMA AfterPagesKeeps == ASSUME RecordInv, AfterPages PROVE RecordInv'
<1> DEFINE joined == DedupeCandidates(record.structured) \o DedupeCandidates(record.text)
           found == DedupeCandidates(joined)
           told == [record EXCEPT !.stage = "page", !.pages = <<>>, !.structured = <<>>, !.text = <<>>]
           once == Unseen(told, found)
<1>1. record' = Unseen(once, HintCandidates(found)) /\ attempts' = attempts /\ spent' = spent /\ expired' = expired
  BY DEF AfterPages
<1>2. IsList(found) /\ OnePerKey(found)
  <2>1. IsList(DedupeCandidates(record.structured)) /\ IsList(DedupeCandidates(record.text))
    BY Deduped DEF RecordInv, RecordShape
  <2>2. IsList(joined)
    BY <2>1, Joined
  <2> HIDE DEF joined
  <2> QED
    BY <2>2, Deduped, AddressesHaveKeys
<1>3. IsList(HintCandidates(found)) /\ OnePerKey(HintCandidates(found))
  <2> HIDE DEF found
  <2> QED
    BY <1>2, HintsAreList, AddressesHaveKeys
<1>4. /\ DOMAIN told = RecordFields /\ told.todo = record.todo /\ told.seen = record.seen
      /\ told.of = record.of /\ told.stage = "page" /\ told.image = record.image /\ told.tiles = record.tiles
      /\ told.structured = <<>> /\ told.text = <<>>
      /\ told.asks = record.asks /\ told.locator = record.locator
  BY DEF RecordInv, RecordShape, RecordFields
<1>5. Untried(told.todo, told.seen, attempts)
  BY <1>4 DEF RecordInv, AllUntried
<1> HIDE DEF found, told
<1>6. /\ DOMAIN once = RecordFields /\ Untried(once.todo, once.seen, attempts)
      /\ once.of = told.of /\ once.stage = told.stage /\ once.image = told.image /\ once.tiles = told.tiles
      /\ once.structured = told.structured /\ once.text = told.text
      /\ once.asks = told.asks /\ once.locator = told.locator
  BY <1>2, <1>4, <1>5, UnseenKeeps
<1> HIDE DEF once
<1>7. /\ DOMAIN record' = RecordFields /\ Untried(record'.todo, record'.seen, attempts)
      /\ record'.of = once.of /\ record'.stage = once.stage /\ record'.image = once.image
      /\ record'.tiles = once.tiles
      /\ record'.structured = once.structured /\ record'.text = once.text
      /\ record'.asks = once.asks /\ record'.locator = once.locator
  BY <1>1, <1>3, <1>6, UnseenKeeps
<1> QED
  <2>1. RecordShape'
    BY <1>4, <1>6, <1>7, NoneIsList DEF RecordInv, RecordShape, Stages
  <2>2. TilesCounted(record'.tiles) /\ AttemptShape(attempts') /\ InBudget'
    BY <1>1, <1>4, <1>6, <1>7 DEF RecordInv, InBudget
  <2>3. AllUntried'
    BY <1>1, <1>4, <1>6, <1>7 DEF RecordInv, AllUntried, NothingTwice
  <2>4. Located'
    <3>1. record.stage = "pages" /\ record'.asks = record.asks /\ record'.image = record.image
          /\ record'.locator = record.locator
      BY <1>4, <1>6, <1>7 DEF AfterPages
    <3> QED
      BY <1>1, <3>1 DEF RecordInv, Located
  <2> QED
    BY <2>1, <2>2, <2>3, <2>4 DEF RecordInv

\* The candidates of the PDFs, as far as they are new.
LEMMA AfterPdfsKeeps == ASSUME RecordInv, AfterPdfs PROVE RecordInv'
<1> DEFINE found == DedupeCandidates(record.text)
           told == [record EXCEPT !.stage = "pdf", !.pages = <<>>, !.text = <<>>]
<1>1. record' = Unseen(told, found) /\ attempts' = attempts /\ spent' = spent /\ expired' = expired
  BY DEF AfterPdfs
<1>2. IsList(found) /\ OnePerKey(found)
  BY Deduped, AddressesHaveKeys DEF RecordInv, RecordShape
<1>3. /\ DOMAIN told = RecordFields /\ told.todo = record.todo /\ told.seen = record.seen
      /\ told.of = record.of /\ told.stage = "pdf" /\ told.image = record.image /\ told.tiles = record.tiles
      /\ told.structured = record.structured /\ told.text = <<>>
      /\ told.asks = record.asks /\ told.locator = record.locator
  BY DEF RecordInv, RecordShape, RecordFields
<1>4. Untried(told.todo, told.seen, attempts)
  BY <1>3 DEF RecordInv, AllUntried
<1> HIDE DEF found, told
<1>5. /\ DOMAIN record' = RecordFields /\ Untried(record'.todo, record'.seen, attempts)
      /\ record'.of = told.of /\ record'.stage = told.stage /\ record'.image = told.image
      /\ record'.tiles = told.tiles
      /\ record'.structured = told.structured /\ record'.text = told.text
      /\ record'.asks = told.asks /\ record'.locator = told.locator
  <2> DEFINE next == Unseen(told, found)
  <2>1. /\ DOMAIN next = RecordFields /\ Untried(next.todo, next.seen, attempts)
        /\ next.of = told.of /\ next.stage = told.stage /\ next.image = told.image /\ next.tiles = told.tiles
        /\ next.structured = told.structured /\ next.text = told.text
        /\ next.asks = told.asks /\ next.locator = told.locator
    BY <1>2, <1>3, <1>4, UnseenKeeps
  <2>2. record' = next
    BY <1>1
  <2> HIDE DEF next
  <2> QED
    BY <2>1, <2>2
<1> QED
  <2>1. RecordShape'
    BY <1>3, <1>5, NoneIsList DEF RecordInv, RecordShape, Stages
  <2>2. TilesCounted(record'.tiles) /\ AttemptShape(attempts') /\ InBudget'
    BY <1>1, <1>3, <1>5 DEF RecordInv, InBudget
  <2>3. AllUntried'
    BY <1>1, <1>3, <1>5 DEF RecordInv, AllUntried, NothingTwice
  <2>4. Located'
    <3>1. record.stage = "pdfs" /\ record'.asks = record.asks /\ record'.image = record.image
          /\ record'.locator = record.locator
      BY <1>3, <1>5 DEF AfterPdfs
    <3> QED
      BY <1>1, <3>1 DEF RecordInv, Located
  <2> QED
    BY <2>1, <2>2, <2>3, <2>4 DEF RecordInv
\* A record starts with nothing tried, located or spent.
LEMMA RecordStarts == ASSUME RecordInit PROVE RecordInv
<1>1. PICK o \in Opportunities :
        record = IF OfficialSource({Urls(o)[i] : i \in DOMAIN Urls(o)}) THEN Untouched(o) ELSE BeginTitle(Untouched(o))
  BY DEF RecordInit
<1>2. spent = 0 /\ expired = FALSE /\ attempts = <<>>
  BY DEF RecordInit
<1> DEFINE r == Untouched(o)
<1>3. /\ DOMAIN r = RecordFields /\ r.of = o /\ r.stage = "official" /\ r.image = NoImage /\ r.tiles = NoTiles
      /\ r.structured = <<>> /\ r.text = <<>> /\ r.todo = <<>> /\ r.seen = {} /\ r.asks = <<>>
      /\ r.locator = NoPlace
  BY DEF Untouched, RecordFields
<1> HIDE DEF r
<1>4. /\ DOMAIN record = RecordFields /\ record.of = o /\ record.stage \in {"official", "title"}
      /\ record.image = NoImage /\ record.tiles = NoTiles
      /\ record.structured = <<>> /\ record.text = <<>> /\ record.asks = <<>>
      /\ record.locator = NoPlace
      /\ \/ record.todo = <<>> /\ record.seen = {}
         \/ /\ record.todo = DedupeCandidates(OwnCandidates(o))
            /\ record.seen = KeysOf(OwnCandidates(o))
  <2>1. CASE record = r
    BY <1>3, <2>1
  <2>2. CASE record = BeginTitle(r)
    BY <1>3, <2>2 DEF BeginTitle, RecordFields
  <2> QED
    BY <1>1, <2>1, <2>2 DEF r
<1>5. NoImage.kind = "none"
  BY DEF NoImage
<1>6. RecordShape
  <2>1. record.image.kind = "none"
    BY <1>4, <1>5
  <2>2. record.stage \in Stages
    BY <1>4 DEF Stages
  <2>3. DOMAIN record = RecordFields /\ record.of \in Opportunities
    BY <1>4
  <2>4. IsList(record.structured) /\ IsList(record.text)
    BY <1>4, NoneIsList
  <2> QED
    BY <2>1, <2>2, <2>3, <2>4 DEF RecordShape
<1>7. TilesCounted(record.tiles) /\ InBudget
  <2>1. InBudget
    <3>1. RecordRequests \in Nat
      BY RecordAssumption
    <3>2. 0 \in 0 .. RecordRequests
      BY <3>1
    <3> QED
      BY <1>2, <3>2 DEF InBudget
  <2> QED
    BY <1>4, <2>1, NoTilesCounted
<1>8. DOMAIN attempts = {}
  BY <1>2
<1>9. AttemptShape(attempts)
  BY <1>2, <1>8, NoneIsList DEF AttemptShape
<1>10. Untried(record.todo, record.seen, attempts)
  <2>1. CASE record.todo = <<>> /\ record.seen = {}
    <3>1. TriedKeys(attempts) = {}
      BY <1>8 DEF TriedKeys
    <3> QED
      BY <2>1, <3>1, NoneIsList DEF Untried, OnePerKey, KeysOf
  <2>2. CASE /\ record.todo = DedupeCandidates(OwnCandidates(o))
             /\ record.seen = KeysOf(OwnCandidates(o))
    BY <1>2, <2>2, UntriedBegins
  <2> QED
    BY <1>4, <2>1, <2>2
<1>11. AllUntried
  BY <1>2, <1>8, <1>10 DEF AllUntried, NothingTwice
<1>12. Located
  BY <1>4, <1>5, <1>8 DEF Located, IsFirst
<1> QED
  BY <1>6, <1>7, <1>9, <1>11, <1>12 DEF RecordInv

\* Every step of a record keeps the invariant.
LEMMA RecordSteps == ASSUME RecordInv, [RecordNext]_recordVars PROVE RecordInv'
<1>1. CASE VisitPage \/ PassPage \/ NoOfficialImage \/ Download
  BY <1>1, VisitPageKeeps, PassPageKeeps, NoImageKeeps, DownloadKeeps
<1>2. CASE NextCandidate \/ AskProvider \/ AskFails \/ Unlocated
  BY <1>2, NextCandidateKeeps, AskProviderKeeps, AskFailsKeeps, UnlocatedKeeps
<1>3. CASE \E p \in CachedPlaces : AskCache(p)
  BY <1>3, AskCacheKeeps
<1>4. CASE TakeTile \/ \E b \in BOOLEAN : TileEnds(b) \/ EndRender(b)
  BY <1>4, TakeTileKeeps, TileEndsKeeps, EndRenderKeeps
<1>5. CASE AfterTitle \/ FetchPage \/ AfterPages \/ AfterPage
  BY <1>5, AfterTitleKeeps, FetchPageKeeps, AfterPagesKeeps, AfterPageKeeps
<1>6. CASE FetchPdf \/ AfterPdfs \/ AfterPdf \/ TimeRunsOut
  BY <1>6, FetchPdfKeeps, AfterPdfsKeeps, AfterPdfKeeps, TimeKeeps
<1>7. CASE UNCHANGED recordVars
  BY <1>7 DEF recordVars, RecordInv, RecordShape, TilesCounted, InBudget, AttemptShape, AllUntried, NothingTwice,
              Located
<1> QED
  BY <1>1, <1>2, <1>3, <1>4, <1>5, <1>6, <1>7 DEF RecordNext

\* The invariant says what the runs check.
LEMMA RecordInvEnough ==
  ASSUME RecordInv PROVE RecordTypeOK /\ LocatorExplained /\ NothingTwice
<1>1. RecordTypeOK
  BY DEF RecordInv, RecordTypeOK, RecordShape, Stages, TilesCounted, InBudget
<1>2. LocatorExplained
  <2>1. CASE record.image.kind = "satellite"
    BY <2>1 DEF RecordInv, Located, LocatorExplained
  <2>2. CASE record.image.kind # "satellite"
    <3>1. record.locator = FirstPlace
      BY <2>2, FirstIs DEF RecordInv, Located, AttemptShape
    <3> QED
      BY <2>2, <3>1 DEF LocatorExplained
  <2> QED
    BY <2>1, <2>2
<1> QED
  BY <1>1, <1>2 DEF RecordInv, AllUntried

\* The counters of the tiles and of the budget add up, at every step of a record: generatePreview
\* never makes a request beyond its budget, and never renders more tiles than it planned.
THEOREM RecordTypes == RecordSpec => []RecordTypeOK
<1>1. RecordInit => RecordInv
  BY RecordStarts
<1>2. RecordInv /\ [RecordNext]_recordVars => RecordInv'
  BY RecordSteps
<1>3. RecordInv => RecordTypeOK
  BY RecordInvEnough
<1> QED
  BY <1>1, <1>2, <1>3, PTL DEF RecordSpec

\* The locator generatePreview returns is the place of its satellite image, else the first place
\* any candidate was located at.
THEOREM LocatorsAreExplained == RecordSpec => []LocatorExplained
<1>1. RecordInit => RecordInv
  BY RecordStarts
<1>2. RecordInv /\ [RecordNext]_recordVars => RecordInv'
  BY RecordSteps
<1>3. RecordInv => LocatorExplained
  BY RecordInvEnough
<1> QED
  BY <1>1, <1>2, <1>3, PTL DEF RecordSpec

\* generatePreview geocodes no candidate twice, whatever its title, its pages and its PDFs say.
THEOREM NothingIsTriedTwice == RecordSpec => []NothingTwice
<1>1. RecordInit => RecordInv
  BY RecordStarts
<1>2. RecordInv /\ [RecordNext]_recordVars => RecordInv'
  BY RecordSteps
<1>3. RecordInv => NothingTwice
  BY RecordInvEnough
<1> QED
  BY <1>1, <1>2, <1>3, PTL DEF RecordSpec

-----------------------------------------------------------------------------
(* THE PARTS TOGETHER *)

\* A step of the generator is a step of one of its parts, and leaves the others as they are.
LEMMA PartsMove ==
  ASSUME [PreviewsNext]_previewVars
  PROVE  /\ [StoreNext]_storeVars /\ [ClientNext]_clientVars
         /\ [RecordNext]_recordVars /\ [SiteNext]_siteVars
<1>1. CASE UNCHANGED previewVars
  BY <1>1 DEF previewVars
<1>2. CASE PreviewsNext
  BY <1>2 DEF PreviewsNext
<1> QED
  BY <1>1, <1>2

\* All variables of the generator and of the worker's client keep their types, whichever moves.
THEOREM PreviewTypes == PreviewsSpec => []PreviewTypeOK
<1> DEFINE Inv == Shape /\ ClientInv /\ RecordInv /\ PacingInv
<1>1. PreviewsInit => Inv
  BY ShapeInitially, ClientStarts, RecordStarts, PacingInit DEF PreviewsInit
<1>2. Inv /\ [PreviewsNext]_previewVars => Inv'
  BY PartsMove, ShapeKeeps, ClientSteps, RecordSteps, PacingStep
<1>3. Inv => PreviewTypeOK
  BY ClientInvEnough, RecordInvEnough, PacingEnough DEF PreviewTypeOK, Shape
<1> QED
  BY <1>1, <1>2, <1>3, PTL DEF PreviewsSpec
=============================================================================
