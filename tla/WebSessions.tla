---------------------------- MODULE WebSessions ----------------------------
(***************************************************************************)
(* Signing in and out: form posts and page requests of several browsers     *)
(* over the tables auth_users, auth_sessions and auth_attempts, one storage *)
(* call per step, and the cookie each browser ends up with.  A page request *)
(* re-issues the session cookie it came with; only answers to forms are     *)
(* meant to change it.                                                      *)
(***************************************************************************)
EXTENDS Integers, Sequences, FiniteSets

CONSTANTS
  Browsers,                   \* all behind one IP, one account
  SessionLifetime, RenewBelow,   \* SESSION_LIFETIME_MS, SESSION_RENEW_BELOW_MS
  ThrottleWindow, FailureLimit, RegisterLimit,   \* AUTH_THROTTLE_POLICIES
  ScryptCost, MaxScryptCost,  \* SCRYPT_PARAMS and the bound on what is parsed
  StoredHashes,               \* password hashes accounts may have been left with
  LastHour,                   \* bound: the clock
  Agenda,                     \* bound: the kinds of form that may be sent as the first, second ...
  MaxPages                    \* bound: pages requested

FormKinds == {"login", "register", "current", "all"}

ASSUME AuthAssumption ==
  /\ SessionLifetime \in Nat /\ LastHour \in Nat /\ MaxPages \in Nat
  /\ ThrottleWindow \in Nat /\ FailureLimit \in Nat \ {0} /\ RegisterLimit \in Nat \ {0}
  /\ IsFiniteSet(Browsers)
  /\ Agenda \in Seq(SUBSET FormKinds)

NoToken == 0
NoUser == [format |-> "none", cost |-> 0, whole |-> FALSE, readings |-> {}]
Hours == 0 .. LastHour
MaxForms == Len(Agenda)

VARIABLES
  account,        \* the row of auth_users: its password hash, or NoUser
  sessions,       \* auth_sessions: [token, expires]
  authAttempts,   \* auth_attempts: per scope and hour, how many
  authClock,
  cookies,        \* per browser
  forms, pages,   \* per browser: the requests under way
  formsSent, pagesSent,
  signedOut       \* history: tokens that were deleted

authVars == <<account, sessions, authAttempts, authClock, cookies, forms, pages,
              formsSent, pagesSent, signedOut>>

NoForm == [pc |-> "none"]
NoPage == [pc |-> "none"]

-----------------------------------------------------------------------------
(* passwords *)

HashPassword(password) ==
  [format |-> "current", cost |-> ScryptCost, whole |-> TRUE, readings |-> {password}]

WithinBounds(stored) == stored.cost \in 1 .. MaxScryptCost /\ stored.whole

\* Salt and hash in the current format read in one way only.
ParseCurrentFormat(stored) == stored.format = "current" /\ WithinBounds(stored)

\* Two builds wrote the legacy format: a hash may read as hex, as base64url, or as either.
ParseLegacyFormats(stored) ==
  IF stored.format = "legacy" /\ WithinBounds(stored) THEN stored.readings ELSE {}

VerifyPassword(password, stored) ==
  LET candidates == IF ParseCurrentFormat(stored) THEN stored.readings ELSE ParseLegacyFormats(stored)
      valid == password \in candidates
  IN  [valid |-> valid,
       needsRehash |-> valid /\ ~(ParseCurrentFormat(stored) /\ stored.cost >= ScryptCost)]

-----------------------------------------------------------------------------
(* the throttle *)

Limit(scope) == IF scope = "login" THEN FailureLimit ELSE RegisterLimit

\* f[0] + ... + f[n]
SumTo(f, n) == LET sum[i \in 0 .. n] == IF i = 0 THEN f[0] ELSE sum[i - 1] + f[i] IN sum[n]

CountRecent(scope) ==
  SumTo([h \in Hours |-> IF h > authClock - ThrottleWindow THEN authAttempts[scope][h] ELSE 0], LastHour)

\* Slip: the limit itself is let through.
CheckThrottleLate(scope) == CountRecent(scope) <= Limit(scope)

CheckThrottle(scope) == CountRecent(scope) < Limit(scope)

RecordAttempt(scope) == authAttempts' = [authAttempts EXCEPT ![scope][authClock] = @ + 1]
ClearLoginFailures == authAttempts' = [authAttempts EXCEPT !["login"] = [h \in Hours |-> 0]]

-----------------------------------------------------------------------------
(* sessions *)

Session(token) == {s \in sessions : s.token = token}
Expired(s) == s.expires <= authClock

\* What is no longer there has been deleted.
Deleting(rows) == signedOut' = signedOut \cup {s.token : s \in rows}

CreateSession(replaced, token) ==
  LET gone == {s \in sessions : Expired(s)} \cup Session(replaced)
  IN
  /\ sessions' = (sessions \ gone) \cup {[token |-> token, expires |-> authClock + SessionLifetime]}
  /\ Deleting(gone)

DeleteSession(token) == sessions' = sessions \ Session(token) /\ Deleting(Session(token))
DeleteAllSessionsForUser == sessions' = {} /\ Deleting(sessions)

\* Slip: the renewal is written back as a whole row.
RenewSessionAnew(token) ==
  sessions' = (sessions \ Session(token)) \cup {[token |-> token, expires |-> authClock + SessionLifetime]}

\* Slip: the lifetime is added to the expiry instead of to the time of the renewal.
RenewSessionFurther(token) ==
  sessions' = {IF s.token = token THEN [s EXCEPT !.expires = @ + SessionLifetime] ELSE s : s \in sessions}

RenewSession(token) ==
  sessions' = {IF s.token = token THEN [s EXCEPT !.expires = authClock + SessionLifetime] ELSE s : s \in sessions}

\* The second call of getSession, by the row that was read before: delete, renew or leave alone.
ResolveSession(row) ==
  \/ Expired(row) /\ DeleteSession(row.token)
  \/ ~Expired(row) /\ row.expires - authClock < RenewBelow /\ RenewSession(row.token) /\ UNCHANGED signedOut
  \/ ~Expired(row) /\ UNCHANGED <<sessions, signedOut>>   \* not due, or the renewal failed

-----------------------------------------------------------------------------
(* forms *)

NewToken == formsSent + 1

SubmitForm(b) ==
  /\ forms[b] = NoForm /\ formsSent < MaxForms /\ formsSent' = formsSent + 1
  /\ \E kind \in Agenda[formsSent + 1] : \E right \in IF kind = "login" THEN BOOLEAN ELSE {TRUE} :
       forms' = [forms EXCEPT ![b] =
         [kind |-> kind, right |-> right, pc |-> IF kind \in {"login", "register"} THEN "throttle" ELSE "logout",
          carried |-> cookies[b], token |-> NewToken, row |-> {}]]
  /\ UNCHANGED <<account, sessions, authAttempts, authClock, cookies, pages, pagesSent, signedOut>>

At(b, pc) == forms[b].pc = pc
Goto(b, pc) == forms' = [forms EXCEPT ![b].pc = pc]
Refuse(b) == forms' = [forms EXCEPT ![b] = NoForm]   \* a redirect to the form: no cookie changes
FormFrame == UNCHANGED <<authClock, cookies, pages, formsSent, pagesSent>>

\* A log-in is also refused for the failures of its address with other emails, which are not counted
\* here: they may always have used that limit up.
Throttle(b) ==
  /\ At(b, "throttle")
  /\ \/ CheckThrottle(forms[b].kind) /\ Goto(b, IF forms[b].kind = "login" THEN "verify" ELSE "count")
     \/ (CheckThrottle(forms[b].kind) => forms[b].kind = "login") /\ Refuse(b)
  /\ UNCHANGED <<account, sessions, authAttempts, signedOut>> /\ FormFrame

\* authenticateUser; a legacy or weaker hash is rewritten unless it changed meanwhile or the write fails.
Verify(b) ==
  /\ At(b, "verify")
  /\ LET check == VerifyPassword(IF forms[b].right THEN "right" ELSE "wrong", account)
     IN  /\ Goto(b, IF check.valid THEN "clear" ELSE "record")
         /\ \/ check.needsRehash /\ account' = HashPassword("right")
            \/ UNCHANGED account
  /\ UNCHANGED <<sessions, authAttempts, signedOut>> /\ FormFrame

RecordFailure(b) ==
  /\ At(b, "record") /\ RecordAttempt("login") /\ Refuse(b)
  /\ UNCHANGED <<account, sessions, signedOut>> /\ FormFrame

ForgiveFailures(b) ==
  /\ At(b, "clear") /\ ClearLoginFailures /\ Goto(b, "create")
  /\ UNCHANGED <<account, sessions, signedOut>> /\ FormFrame

CountRegistration(b) ==
  /\ At(b, "count") /\ RecordAttempt("register") /\ Goto(b, "insert")
  /\ UNCHANGED <<account, sessions, signedOut>> /\ FormFrame

\* The unique index on the email decides between two registrations.
RegisterUser(b) ==
  /\ At(b, "insert")
  /\ IF account = NoUser THEN account' = HashPassword("right") /\ Goto(b, "create")
     ELSE UNCHANGED account /\ Refuse(b)
  /\ UNCHANGED <<sessions, authAttempts, signedOut>> /\ FormFrame

StartSession(b) ==
  /\ At(b, "create") /\ CreateSession(forms[b].carried, forms[b].token) /\ Goto(b, "granted")
  /\ UNCHANGED <<account, authAttempts>> /\ FormFrame

\* Signing out everywhere first resolves the session it came with, as any request does.
BeginLogout(b) ==
  /\ At(b, "logout")
  /\ forms' = [forms EXCEPT ![b].row = Session(forms[b].carried),
                 ![b].pc = CASE forms[b].carried = NoToken -> "cleared"
                             [] forms[b].carried # NoToken /\ forms[b].kind = "all"
                                /\ Session(forms[b].carried) # {} -> "resolve"
                             [] OTHER -> "delete"]
  /\ UNCHANGED <<account, sessions, authAttempts, signedOut>> /\ FormFrame

ResolveLogout(b) ==
  /\ At(b, "resolve")
  /\ \E row \in forms[b].row :
       /\ ResolveSession(row)
       /\ forms' = [forms EXCEPT ![b].pc = IF Expired(row) THEN "delete" ELSE "everywhere", ![b].row = {}]
  /\ UNCHANGED <<account, authAttempts>> /\ FormFrame

LogoutEverywhere(b) ==
  /\ At(b, "everywhere") /\ DeleteAllSessionsForUser /\ Goto(b, "delete")
  /\ UNCHANGED <<account, authAttempts>> /\ FormFrame

Logout(b) ==
  /\ At(b, "delete") /\ DeleteSession(forms[b].carried) /\ Goto(b, "cleared")
  /\ UNCHANGED <<account, authAttempts>> /\ FormFrame

\* The answer to a form sets the cookie, clears it or leaves it alone; it may be lost, and a storage
\* call may have failed anywhere on the way.
EndForm(b) ==
  /\ forms[b] # NoForm /\ forms' = [forms EXCEPT ![b] = NoForm]
  /\ \/ /\ forms[b].pc \in {"granted", "cleared"}
        /\ \E value \in {IF At(b, "granted") THEN forms[b].token ELSE NoToken} :
             cookies' = [cookies EXCEPT ![b] = value]
     \/ UNCHANGED cookies
  /\ UNCHANGED <<account, sessions, authAttempts, authClock, pages, formsSent, pagesSent, signedOut>>

-----------------------------------------------------------------------------
(* pages: middleware and getCurrentAuthUser *)

PageFrame == UNCHANGED <<account, authAttempts, authClock, forms, formsSent>>

RequestPage(b) ==
  /\ pages[b] = NoPage /\ pagesSent < MaxPages /\ pagesSent' = pagesSent + 1 /\ cookies[b] # NoToken
  /\ pages' = [pages EXCEPT ![b] = [pc |-> "sent", carried |-> cookies[b], row |-> {}]]
  /\ UNCHANGED <<sessions, cookies, signedOut>> /\ PageFrame

ReadSession(b) ==
  /\ pages[b].pc = "sent"
  /\ pages' = [pages EXCEPT ![b].pc = "read", ![b].row = Session(pages[b].carried)]
  /\ UNCHANGED <<sessions, cookies, pagesSent, signedOut>> /\ PageFrame

ResolvePage(b) ==
  /\ pages[b].pc = "read" /\ pages' = [pages EXCEPT ![b].pc = "resolved", ![b].row = {}]
  /\ IF pages[b].row = {} THEN UNCHANGED <<sessions, signedOut>>
     ELSE \E row \in pages[b].row : ResolveSession(row)
  /\ UNCHANGED <<cookies, pagesSent>> /\ PageFrame

\* The middleware re-issued the cookie of the request, valid or not.
EndPage(b) ==
  /\ pages[b].pc = "resolved" /\ pages' = [pages EXCEPT ![b] = NoPage]
  /\ \/ cookies' = [cookies EXCEPT ![b] = pages[b].carried]
     \/ UNCHANGED cookies
  /\ UNCHANGED <<sessions, pagesSent, signedOut>> /\ PageFrame

AuthTick ==
  /\ authClock < LastHour /\ authClock' = authClock + 1
  /\ UNCHANGED <<account, sessions, authAttempts, cookies, forms, pages, formsSent, pagesSent, signedOut>>

-----------------------------------------------------------------------------

AuthInit ==
  /\ account \in {NoUser} \cup StoredHashes
  /\ sessions = {} /\ authClock = 0 /\ signedOut = {}
  /\ authAttempts = [scope \in {"login", "register"} |-> [h \in Hours |-> 0]]
  /\ cookies = [b \in Browsers |-> NoToken]
  /\ forms = [b \in Browsers |-> NoForm] /\ pages = [b \in Browsers |-> NoPage]
  /\ formsSent = 0 /\ pagesSent = 0

AuthNext ==
  \/ \E b \in Browsers :
       \/ SubmitForm(b) \/ Throttle(b) \/ Verify(b) \/ RecordFailure(b) \/ ForgiveFailures(b)
       \/ CountRegistration(b) \/ RegisterUser(b) \/ StartSession(b)
       \/ BeginLogout(b) \/ ResolveLogout(b) \/ LogoutEverywhere(b) \/ Logout(b) \/ EndForm(b)
       \/ RequestPage(b) \/ ReadSession(b) \/ ResolvePage(b) \/ EndPage(b)
  \/ AuthTick

AuthSpec == AuthInit /\ [][AuthNext]_authVars

-----------------------------------------------------------------------------

AuthTypeOK ==
  /\ \A s \in sessions : s.token \in 1 .. MaxForms /\ s.expires \in 0 .. LastHour + SessionLifetime
  /\ \A scope \in {"login", "register"} : \A h \in Hours : authAttempts[scope][h] \in 0 .. MaxForms
  /\ authClock \in Hours /\ formsSent \in 0 .. MaxForms /\ pagesSent \in 0 .. MaxPages
  /\ \A b \in Browsers : cookies[b] \in 0 .. MaxForms
  /\ signedOut \subseteq 1 .. MaxForms

\* A session that was signed out, replaced or found expired stays so: no request that read its row
\* before brings it back.
SignedOutStaysOut == \A s \in sessions : s.token \notin signedOut

\* Within one window an address and email collect at most the allowed failures and one more for every further
\* request that passed the check before the last of them was recorded.
FewFailures == CountRecent("login") <= FailureLimit + Cardinality(Browsers) - 1
=============================================================================
