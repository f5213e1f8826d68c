------------------------------ MODULE WebGate ------------------------------
(***************************************************************************)
(* Every request on its way in: the middleware that puts each page under a  *)
(* locale, the pages that ask for a session or an administrator and send    *)
(* the visitor to sign in and back, and the checks every API call passes    *)
(* before its handler runs, with what the browser makes of the answer.      *)
(* A path is the sequence of its segments; `doubled` says that it begins    *)
(* with two slashes or, below a locale, has two anywhere.                   *)
(***************************************************************************)
EXTENDS Integers, Sequences, FiniteSets

CONSTANTS
  Locales, DefaultLocale,
  RegionOf(_),       \* "en-GB" -> "en"; any other segment is its own primary tag
  LocaleLike,        \* segments that look like a locale prefix
  StaticFiles,       \* segments that end like the name of a static file
  Entered,           \* bound: the paths a visitor enters: [segments, doubled]
  AcceptLanguages,   \* bound: values of Accept-Language: sequences of [tag, quality]
  ReturnPaths,       \* bound: what a `next` parameter may hold
  ApiRequests,       \* bound: [method, origin, site, referer, media, valid, outcome]
  MaxHops            \* bound: redirects a browser follows

ASSUME GateAssumption ==
  /\ DefaultLocale \in Locales /\ Locales \subseteq STRING
  /\ Entered \subseteq [segments : Seq(STRING), doubled : BOOLEAN]
  /\ AcceptLanguages \subseteq Seq([tag : STRING, quality : Int])
  /\ ReturnPaths \subseteq [kind : {"path", "other"}, segments : Seq(STRING), doubled : BOOLEAN]
  /\ MaxHops \in Nat

NoLocale == "no locale"
NoAnswer == [code |-> "none", kind |-> "none"]

VARIABLES
  visit,          \* the page the visitor asks for or sees
  localeCookie,
  visitor,        \* "anonymous", "user" or "admin"
  apiAnswer       \* what the last API call came to

gateVars == <<visit, localeCookie, visitor, apiAnswer>>

-----------------------------------------------------------------------------
(* i18n/negotiate.ts, i18n/config.ts *)

\* Positions of the ranges that count; quality in tenths.  Malformed ranges and the wildcard are dropped.
ParseAcceptLanguage(header) == {i \in DOMAIN header : header[i].tag # "*" /\ header[i].quality \in 1 .. 10}

\* The order they are tried in: by quality, ties in the order of the header.
Preferred(header, i, j) ==
  header[i].quality > header[j].quality \/ (header[i].quality = header[j].quality /\ i <= j)

LocaleFromLanguageTag(tag) == IF RegionOf(tag) \in Locales THEN RegionOf(tag) ELSE NoLocale

NegotiateLocale(cookie, header) ==
  LET spoken == {i \in ParseAcceptLanguage(header) : LocaleFromLanguageTag(header[i].tag) # NoLocale}
      best == CHOOSE i \in spoken : \A j \in spoken : Preferred(header, i, j)
  IN  CASE cookie \in Locales -> cookie
        [] cookie \notin Locales /\ spoken # {} -> LocaleFromLanguageTag(header[best].tag)
        [] OTHER -> DefaultLocale

\* Slip: the old detail address is not mapped.
ToPathUnmapped(locale, rest) ==
  IF rest = <<>> THEN <<locale, "discover">> ELSE <<locale>> \o rest

ToPath(locale, rest) ==
  CASE rest = <<>> -> <<locale, "discover">>
    [] rest # <<>> /\ rest[1] = "competitions" -> <<locale, "opportunities">> \o Tail(rest)
    [] OTHER -> <<locale>> \o rest

NoRedirect == <<>>

\* The prefixes /api and /_next/ of the path as it is written, and static files wherever they lie.
NeverRedirected(path) ==
  LET segments == path.segments
  IN  /\ segments # <<>>
      /\ \/ ~path.doubled /\ (segments[1] = "api" \/ (segments[1] = "_next" /\ Tail(segments) # <<>>))
         \/ segments[Len(segments)] \in StaticFiles

ResolveLocaleRedirect(path, preferred) ==
  LET first == IF path.segments = <<>> THEN "" ELSE path.segments[1]
      rest == IF path.segments = <<>> THEN <<>> ELSE Tail(path.segments)
  IN  CASE NeverRedirected(path) -> NoRedirect
        [] ~NeverRedirected(path) /\ first \in Locales ->
             IF rest = <<>> \/ path.doubled \/ rest[1] = "competitions" THEN ToPath(first, rest) ELSE NoRedirect
        [] ~NeverRedirected(path) /\ first \in LocaleLike \ Locales ->
             ToPath(IF LocaleFromLanguageTag(first) # NoLocale THEN LocaleFromLanguageTag(first) ELSE preferred, rest)
        [] OTHER -> ToPath(preferred, path.segments)

\* Following a link to another language must not count before it is followed: prefetches are skipped.
LocaleToRemember(path, cookie, prefetch) ==
  IF ~prefetch /\ path.segments # <<>> /\ path.segments[1] \in Locales \ {cookie} THEN path.segments[1] ELSE NoLocale

BuildLocalePath(locale, rest) == <<locale>> \o rest
StripLocalePrefix(segments) ==
  IF segments # <<>> /\ segments[1] \in Locales THEN Tail(segments) ELSE segments

-----------------------------------------------------------------------------
(* return-path.ts, auth.ts: what a page asks of its visitor *)

NoReturn == [kind |-> "none", segments |-> <<>>, doubled |-> FALSE]
ReturnTo(segments) == [kind |-> "path", segments |-> segments, doubled |-> FALSE]

\* Only an absolute path of this site under a known locale is followed.
SanitizeReturnPath(value, locale) ==
  IF value.kind = "path" /\ ~value.doubled /\ value.segments # <<>> /\ value.segments[1] \in Locales
  THEN value.segments ELSE BuildLocalePath(locale, <<"dashboard">>)

BuildLoginRedirect(locale, segments) ==
  [segments |-> BuildLocalePath(locale, <<"login">>),
   next |-> ReturnTo(SanitizeReturnPath(ReturnTo(segments), locale))]

Private == {"dashboard", "ops"}
\* An administrator's page shows a signed-in user that it is forbidden; a redirect would loop.
Page(segments) ==
  IF segments[1] \notin Locales \/ segments[2] \notin Private \cup {"discover", "opportunities", "login"}
  THEN "not found"
  ELSE IF segments[2] \in Private /\ visitor = "anonymous" THEN "sign in first"
  ELSE IF segments[2] = "ops" /\ visitor = "user" THEN "forbidden"
  ELSE segments[2]

\* The header of every page: the pipeline is linked for administrators only.
Navigation(locale) ==
  {BuildLocalePath(locale, <<p>>) :
     p \in {"discover", "dashboard"}
           \cup (IF visitor = "admin" THEN {"ops"} ELSE {})
           \cup (IF visitor = "anonymous" THEN {"login"} ELSE {})}

-----------------------------------------------------------------------------
(* lib/api: what every handler does before and after its own work *)

SafeMethods == {"GET", "HEAD", "OPTIONS"}

\* origin, site and referer: "own", "other" or "absent" (and "none" for a site the user typed).
SameOrigin(r) ==
  CASE r.method \in SafeMethods -> TRUE
    [] r.method \notin SafeMethods /\ r.origin # "absent" -> r.origin = "own"
    [] r.method \notin SafeMethods /\ r.origin = "absent" /\ r.site # "absent" -> r.site \in {"own", "none"}
    [] OTHER -> r.referer = "own"

RequireApiUser == visitor # "anonymous"
RequireApiAdmin == visitor = "admin"

ReadJsonBody(r) ==
  CASE r.method \in SafeMethods \/ (r.media = "json" /\ r.valid) -> "ok"
    [] r.method \notin SafeMethods /\ r.media # "json" -> "unsupported_media_type"
    [] OTHER -> "invalid_request"

\* `guarded`: failures of the handler itself and of storage become codes.
Guarded(outcome) ==
  CASE outcome = "done" -> "ok"
    [] outcome = "unknown row" -> "not_found"
    [] outcome = "rejected value" -> "invalid_request"
    [] outcome = "busy" -> "storage_unavailable"
    [] OTHER -> "internal_error"

ApiCode(r) ==
  CASE ~SameOrigin(r) -> "csrf_rejected"
    [] SameOrigin(r) /\ ~RequireApiUser -> "unauthenticated"
    [] SameOrigin(r) /\ RequireApiUser /\ r.ops /\ ~RequireApiAdmin -> "forbidden"
    [] SameOrigin(r) /\ RequireApiUser /\ (r.ops => RequireApiAdmin) /\ ReadJsonBody(r) # "ok" -> ReadJsonBody(r)
    [] OTHER -> Guarded(r.outcome)

StatusOf(code) ==
  CASE code = "ok" -> 200 [] code = "unauthenticated" -> 401 [] code \in {"forbidden", "csrf_rejected"} -> 403
    [] code = "not_found" -> 404 [] code = "unsupported_media_type" -> 415
    [] code = "storage_unavailable" -> 503 [] code = "invalid_request" -> 400 [] OTHER -> 500

ClassifyApiFailure(status) ==
  CASE status = 401 -> "unauthenticated" [] status = 403 -> "forbidden" [] status = 503 -> "unavailable"
    [] status \in {400, 415, 422} -> "invalid_request" [] OTHER -> "generic"

RequestJson(code) ==
  [code |-> code, kind |-> IF code = "ok" THEN "none" ELSE ClassifyApiFailure(StatusOf(code))]

-----------------------------------------------------------------------------

AskFor(segments, doubled, next) ==
  [segments |-> segments, doubled |-> doubled, next |-> next, hops |-> 0, shown |-> "asked for"]

Forget == apiAnswer' = NoAnswer   \* what a page was answered goes with the page

EnterPath ==
  /\ visit.shown # "asked for"
  /\ \E p \in Entered : visit' = AskFor(p.segments, p.doubled, NoReturn)
  /\ Forget /\ UNCHANGED <<localeCookie, visitor>>

FollowLink ==
  /\ visit.shown \notin {"asked for", "not found"}
  /\ \/ \E link \in Navigation(visit.segments[1]) : visit' = AskFor(link, FALSE, NoReturn)
     \/ \E l \in Locales \ {visit.segments[1]} :   \* LocaleSwitcher
          visit' = AskFor(BuildLocalePath(l, StripLocalePrefix(visit.segments)), FALSE, visit.next)
  /\ Forget /\ UNCHANGED <<localeCookie, visitor>>

MiddlewareRedirects ==
  /\ visit.shown = "asked for" /\ visit.hops < MaxHops
  /\ \E header \in AcceptLanguages :
       LET target == ResolveLocaleRedirect(visit, NegotiateLocale(localeCookie, header))
       IN  /\ target # NoRedirect
           /\ visit' = [visit EXCEPT !.segments = target, !.doubled = FALSE, !.hops = @ + 1]
  /\ Forget /\ UNCHANGED <<localeCookie, visitor>>

ServePage ==
  /\ visit.shown = "asked for" /\ ResolveLocaleRedirect(visit, DefaultLocale) = NoRedirect
  /\ LET page == Page(visit.segments)
         signin == BuildLoginRedirect(visit.segments[1], visit.segments)
         remember == LocaleToRemember(visit, localeCookie, FALSE)
     IN  /\ visit' = IF page = "sign in first" THEN AskFor(signin.segments, FALSE, signin.next)
                     ELSE [visit EXCEPT !.shown = page]
         /\ localeCookie' = IF remember = NoLocale THEN localeCookie ELSE remember
  /\ Forget /\ UNCHANGED visitor

\* The form carries `next` through; it may also have been typed into the address.
SignIn ==
  /\ visit.shown = "login"
  /\ visitor' \in {"user", "admin"}
  /\ \E next \in ReturnPaths \cup {visit.next} :
       visit' = AskFor(SanitizeReturnPath(next, visit.segments[1]), FALSE, NoReturn)
  /\ Forget /\ UNCHANGED localeCookie

SignOut ==
  /\ visit.shown \notin {"asked for", "not found"} /\ visitor # "anonymous" /\ visitor' = "anonymous"
  /\ visit' = AskFor(BuildLocalePath(visit.segments[1], <<"login">>), FALSE, NoReturn)
  /\ Forget /\ UNCHANGED localeCookie

CallApi ==
  /\ visit.shown # "asked for"
  /\ \E r \in ApiRequests : apiAnswer' = RequestJson(ApiCode(r))
  /\ UNCHANGED <<visit, localeCookie, visitor>>

GateInit ==
  /\ visit = [AskFor(<<>>, FALSE, NoReturn) EXCEPT !.shown = "not found"]
  /\ localeCookie = NoLocale /\ visitor = "anonymous" /\ apiAnswer = NoAnswer
GateNext ==
  \/ EnterPath \/ FollowLink \/ MiddlewareRedirects \/ ServePage \/ SignIn \/ SignOut \/ CallApi
GateSpec == GateInit /\ [][GateNext]_gateVars

-----------------------------------------------------------------------------

GateTypeOK ==
  /\ localeCookie \in Locales \cup {NoLocale} /\ visitor \in {"anonymous", "user", "admin"}
  /\ visit.hops \in 0 .. MaxHops /\ visit.doubled \in BOOLEAN
  /\ apiAnswer.kind \in {"none", "unauthenticated", "forbidden", "unavailable", "invalid_request", "generic"}

\* Whatever address is entered, linked or returned to after signing in, and whatever language is
\* preferred, the permanent redirect leads to an address that needs no other one.
RedirectOnce == visit.hops <= 1
=============================================================================
