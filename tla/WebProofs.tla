------------------------------ MODULE WebProofs ------------------------------
(***************************************************************************)
(* The web application, for any browsers, queues, addresses and bounds.     *)
(* Sessions that were signed out stay out.  The failures of a window are    *)
(* counted out: a browser that was let through is one that may still fail.  *)
(* The watch button and the review desk say what the server holds once      *)
(* nothing is under way: the invariants say what the answer under way will  *)
(* be worth, as the page may act upon it long after it was read.  A visitor *)
(* is redirected once at most: the target of a redirect is an address in    *)
(* place, and those stay.  An export that ran to its end mirrors the        *)
(* snapshot: what a prefix of its statements leaves is known at each point, *)
(* whichever prefix ran before.  The list of the discover page is the       *)
(* beginning of what its filters select: a request for more, written to an  *)
(* address and read back, asks for the same list, and a page of a list that *)
(* starts within what is shown adds what comes next.  The parts share no    *)
(* variables, so each keeps its types while another moves.                  *)
(***************************************************************************)
EXTENDS MCWeb, WellFoundedInduction, FiniteSetTheorems,
        SequenceTheorems, TLAPS

\* A set of naturals that is not empty has a least element.
LEMMA LeastExists ==
  ASSUME NEW T, T \subseteq Nat, T # {}
  PROVE  \E n \in T : \A m \in T : n <= m
<1> DEFINE R == OpToRel(<, Nat)
<1>1. IsWellFoundedOn(R, Nat)
  BY NatLessThanWellFounded
<1>2. \A x, y \in Nat : y < x => <<y, x>> \in R
  BY DEF OpToRel
<1> HIDE DEF R
<1>3. PICK n \in T : \A m \in T : ~(<<m, n>> \in R)
  BY <1>1, WFMin
<1>4. ASSUME NEW m \in T PROVE n <= m
  <2>1. n \in Nat /\ m \in Nat /\ ~(m < n)
    BY <1>2, <1>3
  <2> QED
    BY <2>1
<1> QED
  BY <1>4

-----------------------------------------------------------------------------
(* SESSIONS *)

SessionRow == [token : 1 .. MaxForms, expires : 0 .. LastHour + SessionLifetime]
BeforeGrant == {"throttle", "verify", "record", "clear", "count", "insert", "create"}
FormSteps == BeforeGrant \cup {"granted", "logout", "resolve", "everywhere", "delete", "cleared"}
FormRecord == [kind : FormKinds, right : BOOLEAN, pc : FormSteps, carried : 0 .. MaxForms, token : 1 .. MaxForms,
               row : SUBSET SessionRow]
PageRecord == [pc : {"sent", "read", "resolved"}, carried : 0 .. MaxForms, row : SUBSET SessionRow]

AuthShape ==
  /\ sessions \subseteq SessionRow /\ signedOut \subseteq 1 .. MaxForms
  /\ forms \in [Browsers -> FormRecord \cup {NoForm}]
  /\ pages \in [Browsers -> PageRecord \cup {NoPage}]
  /\ cookies \in [Browsers -> 0 .. MaxForms]
  /\ formsSent \in 0 .. MaxForms /\ authClock \in Hours

Pending(b) == forms[b] # NoForm
Fresh(b) == forms[b].pc \in BeforeGrant
SessionTokens == {s.token : s \in sessions}

\* The bound on forms is a number.
LEMMA FormsCounted == MaxForms \in Nat
BY AuthAssumption DEF MaxForms

\* A token has one row at most: with two, deleting the expired one would leave the other.
OneRowPerToken == \A s, t \in sessions : s.token = t.token => s = t

\* Tokens are given out in order: none in use is ahead of the counter, no two forms have the same.
TokensGivenOut ==
  /\ \A t \in SessionTokens \cup signedOut : t <= formsSent
  /\ \A b \in Browsers : Pending(b) => forms[b].token <= formsSent
  /\ \A b, c \in Browsers : Pending(b) /\ Pending(c) /\ b # c => forms[b].token # forms[c].token

\* The token a log-in will use has never been in the table.
FreshUnused == \A b \in Browsers : Fresh(b) => forms[b].token \notin SessionTokens \cup signedOut

SessionInv == AuthShape /\ OneRowPerToken /\ TokensGivenOut /\ FreshUnused /\ SignedOutStaysOut

-----------------------------------------------------------------------------
(* What a storage call and a step of a form may do *)

\* The table keeps its shape and loses tokens only to signedOut.
StoreShrinks ==
  /\ sessions' \subseteq SessionRow /\ signedOut' \subseteq 1 .. MaxForms
  /\ OneRowPerToken' /\ SignedOutStaysOut'
  /\ SessionTokens' \subseteq SessionTokens
  /\ signedOut' \subseteq signedOut \cup SessionTokens

\* Forms come to an end or move on with the token they have.
FormsFollow ==
  /\ formsSent' = formsSent
  /\ \A c \in Browsers :
       /\ Pending(c)' => Pending(c) /\ forms'[c].token = forms[c].token
       /\ Fresh(c)' => Fresh(c) /\ forms'[c].token = forms[c].token

\* Removing whole rows signs their tokens out and no other: DeleteSession and its like.
LEMMA RemovingRows ==
  ASSUME SessionInv, NEW gone, gone \subseteq sessions, sessions' = sessions \ gone, Deleting(gone)
  PROVE  StoreShrinks
<1>1. sessions' \subseteq sessions /\ signedOut' = signedOut \cup {s.token : s \in gone}
  BY DEF Deleting
<1>2. sessions' \subseteq SessionRow /\ signedOut' \subseteq 1 .. MaxForms
  BY <1>1 DEF SessionInv, AuthShape, SessionRow
<1>3. OneRowPerToken'
  BY <1>1 DEF SessionInv, OneRowPerToken
<1>4. SignedOutStaysOut'
  BY <1>1 DEF SessionInv, OneRowPerToken, SignedOutStaysOut
<1>5. SessionTokens' \subseteq SessionTokens /\ signedOut' \subseteq signedOut \cup SessionTokens
  BY <1>1 DEF SessionTokens
<1> QED
  BY <1>2, <1>3, <1>4, <1>5 DEF StoreShrinks

\* A storage call that changes nothing.
LEMMA LeavingRows ==
  ASSUME SessionInv, UNCHANGED <<sessions, signedOut>>
  PROVE  StoreShrinks
BY DEF SessionInv, StoreShrinks, AuthShape, OneRowPerToken, SignedOutStaysOut, SessionTokens

\* A renewal moves the expiry of rows that are still there, and adds none.
LEMMA RenewingRows ==
  ASSUME SessionInv, NEW token \in Nat, RenewSession(token), UNCHANGED signedOut
  PROVE  StoreShrinks
<1> DEFINE renewed(s) == IF s.token = token THEN [s EXCEPT !.expires = authClock + SessionLifetime] ELSE s
<1>1. sessions' = {renewed(s) : s \in sessions}
  BY DEF RenewSession
<1>2. \A s \in SessionRow : renewed(s) \in SessionRow /\ renewed(s).token = s.token
  <2>1. authClock + SessionLifetime \in 0 .. LastHour + SessionLifetime
    BY AuthAssumption DEF SessionInv, AuthShape, Hours
  <2> QED
    BY <2>1 DEF SessionRow
<1>3. \A s \in sessions : renewed(s) \in SessionRow /\ renewed(s).token = s.token
  BY <1>2 DEF SessionInv, AuthShape
<1> HIDE DEF renewed
<1>4. sessions' \subseteq SessionRow /\ signedOut' \subseteq 1 .. MaxForms
  BY <1>1, <1>3 DEF SessionInv, AuthShape
<1>5. OneRowPerToken'
  BY <1>1, <1>3 DEF SessionInv, OneRowPerToken
<1>6. SessionTokens' = SessionTokens
  BY <1>1, <1>3 DEF SessionTokens
<1>7. SignedOutStaysOut'
  BY <1>1, <1>3 DEF SessionInv, SignedOutStaysOut
<1> QED
  BY <1>4, <1>5, <1>6, <1>7 DEF StoreShrinks

\* getSession, with whatever row was read before.
LEMMA ResolvingRows ==
  ASSUME SessionInv, NEW row \in SessionRow, ResolveSession(row)
  PROVE  StoreShrinks
<1>1. CASE DeleteSession(row.token)
  BY <1>1, RemovingRows DEF DeleteSession, Session
<1>2. CASE RenewSession(row.token) /\ UNCHANGED signedOut
  BY <1>2, RenewingRows DEF SessionRow
<1>3. CASE UNCHANGED <<sessions, signedOut>>
  BY <1>3, LeavingRows
<1> QED
  BY <1>1, <1>2, <1>3 DEF ResolveSession

\* All steps but the two that handle a new token preserve the invariant for these two reasons.
LEMMA NoNewToken ==
  ASSUME SessionInv, StoreShrinks, FormsFollow, AuthShape'
  PROVE  SessionInv'
<1>1. OneRowPerToken' /\ SignedOutStaysOut'
  BY DEF StoreShrinks
<1>2. TokensGivenOut'
  BY DEF SessionInv, StoreShrinks, FormsFollow, TokensGivenOut, Pending
<1>3. FreshUnused'
  BY DEF SessionInv, StoreShrinks, FormsFollow, FreshUnused, Fresh
<1> QED
  BY <1>1, <1>2, <1>3 DEF SessionInv

\* A form that exists is a full record; Goto and Refuse act on one form.
LEMMA FormShape ==
  ASSUME AuthShape, NEW b \in Browsers, NEW pc, At(b, pc), pc # "none"
  PROVE  forms[b] \in FormRecord /\ Pending(b)
BY DEF AuthShape, At, NoForm, Pending, FormRecord

\* Moving a form on within the steps keeps its token; what is fresh was fresh.
LEMMA MovingOn ==
  ASSUME AuthShape, NEW b \in Browsers, NEW f \in FormRecord, forms[b] \in FormRecord,
         forms' = [forms EXCEPT ![b] = f], f.token = forms[b].token,
         f.pc \in BeforeGrant => forms[b].pc \in BeforeGrant, formsSent' = formsSent
  PROVE  FormsFollow /\ forms' \in [Browsers -> FormRecord \cup {NoForm}]
<1>1. forms' \in [Browsers -> FormRecord \cup {NoForm}]
  BY DEF AuthShape
<1>2. forms'[b] = f /\ \A c \in Browsers \ {b} : forms'[c] = forms[c]
  BY DEF AuthShape
<1>3. Pending(b)
  BY DEF Pending, FormRecord, NoForm, FormSteps, BeforeGrant
<1> QED
  BY <1>1, <1>2, <1>3 DEF FormsFollow, Pending, Fresh

\* A form that ends leaves the others alone.
LEMMA Ending ==
  ASSUME AuthShape, NEW b \in Browsers, forms' = [forms EXCEPT ![b] = NoForm], formsSent' = formsSent
  PROVE  FormsFollow /\ forms' \in [Browsers -> FormRecord \cup {NoForm}]
<1>1. forms' \in [Browsers -> FormRecord \cup {NoForm}]
  BY DEF AuthShape
<1>2. forms'[b] = NoForm /\ \A c \in Browsers \ {b} : forms'[c] = forms[c]
  BY DEF AuthShape
<1> QED
  BY <1>1, <1>2 DEF FormsFollow, Pending, Fresh, NoForm, BeforeGrant

\* Goto to a step that keeps freshness.
LEMMA Going ==
  ASSUME AuthShape, NEW b \in Browsers, NEW from, At(b, from), from # "none",
         NEW to \in FormSteps, to \in BeforeGrant => from \in BeforeGrant, Goto(b, to), formsSent' = formsSent
  PROVE  FormsFollow /\ forms' \in [Browsers -> FormRecord \cup {NoForm}]
<1>1. forms[b] \in FormRecord /\ forms[b].pc = from
  BY FormShape DEF At
<1> DEFINE f == [forms[b] EXCEPT !.pc = to]
<1>2. f \in FormRecord /\ f.token = forms[b].token /\ f.pc = to
  BY <1>1 DEF FormRecord
<1>3. forms' = [forms EXCEPT ![b] = f]
  BY DEF Goto
<1> HIDE DEF f
<1> QED
  BY <1>1, <1>2, <1>3, MovingOn

-----------------------------------------------------------------------------
(* The steps of forms *)

\* A new form gets a token nobody has had.
LEMMA SubmitKeeps == ASSUME SessionInv, NEW b \in Browsers, SubmitForm(b) PROVE SessionInv'
<1>1. PICK kind \in Agenda[formsSent + 1], right \in BOOLEAN :
        forms' = [forms EXCEPT ![b] =
          [kind |-> kind, right |-> right, pc |-> IF kind \in {"login", "register"} THEN "throttle" ELSE "logout",
           carried |-> cookies[b], token |-> formsSent + 1, row |-> {}]]
  BY DEF SubmitForm, NewToken
<1> DEFINE f == [kind |-> kind, right |-> right,
                 pc |-> IF kind \in {"login", "register"} THEN "throttle" ELSE "logout",
                 carried |-> cookies[b], token |-> formsSent + 1, row |-> {}]
<1>2. formsSent \in Nat /\ formsSent' = formsSent + 1 /\ formsSent + 1 \in 1 .. Len(Agenda)
  BY AuthAssumption DEF SubmitForm, MaxForms, SessionInv, AuthShape
<1>3. kind \in FormKinds
  BY <1>2, AuthAssumption
<1>4. f \in FormRecord /\ f.token = formsSent + 1
  BY <1>2, <1>3, FormsCounted DEF FormRecord, FormSteps, BeforeGrant, SessionInv, AuthShape, MaxForms
<1>5. forms' = [forms EXCEPT ![b] = f]
  BY <1>1
<1> HIDE DEF f
<1>6. UNCHANGED <<sessions, signedOut, cookies, pages, authClock>>
  BY DEF SubmitForm
<1>7. AuthShape'
  <2>1. formsSent' \in 0 .. MaxForms
    BY <1>2, FormsCounted DEF MaxForms
  <2> QED
    BY <1>4, <1>5, <1>6, <2>1 DEF SessionInv, AuthShape
<1>8. forms'[b] = f /\ \A c \in Browsers \ {b} : forms'[c] = forms[c]
  BY <1>5 DEF SessionInv, AuthShape
<1>9. \A t \in SessionTokens \cup signedOut : t \in Nat /\ t <= formsSent
  <2>1. 1 .. MaxForms \subseteq Nat
    BY FormsCounted
  <2> QED
    BY <2>1 DEF SessionInv, AuthShape, TokensGivenOut, SessionTokens, SessionRow
<1>10. \A c \in Browsers : Pending(c) => forms[c].token \in Nat /\ forms[c].token <= formsSent
  BY DEF SessionInv, AuthShape, TokensGivenOut, Pending, FormRecord
<1>11. TokensGivenOut'
  <2>1. \A t \in (SessionTokens \cup signedOut)' : t <= formsSent'
    BY <1>2, <1>6, <1>9 DEF SessionTokens
  <2>2. \A c \in Browsers \ {b} : Pending(c)' => Pending(c) /\ forms'[c].token = forms[c].token
    BY <1>8 DEF Pending
  <2>3. \A c \in Browsers \ {b} : Pending(c)' => forms'[c].token <= formsSent /\ forms'[c].token # forms'[b].token
    BY <1>2, <1>4, <1>8, <1>10, <2>2
  <2>4. forms'[b].token <= formsSent'
    BY <1>2, <1>4, <1>8
  <2>5. \A c \in Browsers : Pending(c)' => forms'[c].token <= formsSent'
    BY <1>2, <1>10, <2>2, <2>4
  <2>6. \A c, d \in Browsers : Pending(c)' /\ Pending(d)' /\ c # d => forms'[c].token # forms'[d].token
    BY <2>2, <2>3 DEF SessionInv, TokensGivenOut
  <2> QED
    BY <2>1, <2>5, <2>6 DEF TokensGivenOut
<1>12. FreshUnused'
  BY <1>2, <1>4, <1>6, <1>8, <1>9 DEF SessionInv, FreshUnused, Fresh, SessionTokens
<1> QED
  BY <1>6, <1>7, <1>11, <1>12 DEF SessionInv, OneRowPerToken, SignedOutStaysOut

\* The fresh token enters the table; what it replaces, and what has expired, is signed out.
LEMMA StartKeeps == ASSUME SessionInv, NEW b \in Browsers, StartSession(b) PROVE SessionInv'
<1> DEFINE token == forms[b].token
           fresh == [token |-> token, expires |-> authClock + SessionLifetime]
           gone == {s \in sessions : Expired(s)} \cup Session(forms[b].carried)
<1>1. /\ forms[b] \in FormRecord /\ Pending(b) /\ forms[b].pc = "create"
      /\ At(b, "create") /\ Goto(b, "granted") /\ formsSent' = formsSent
  BY FormShape DEF StartSession, At, SessionInv, FormFrame
<1>2. FormsFollow /\ forms' \in [Browsers -> FormRecord \cup {NoForm}]
  BY <1>1, Going DEF SessionInv, FormSteps, BeforeGrant
<1>3. gone \subseteq sessions /\ sessions' = (sessions \ gone) \cup {fresh}
      /\ signedOut' = signedOut \cup {s.token : s \in gone}
  BY DEF StartSession, CreateSession, Deleting, Session
<1>4. token \in 1 .. MaxForms /\ token <= formsSent /\ token \notin SessionTokens \cup signedOut
  BY <1>1 DEF SessionInv, TokensGivenOut, FreshUnused, Fresh, BeforeGrant, FormRecord
<1>5. fresh \in SessionRow /\ fresh.token = token
  <2>1. authClock + SessionLifetime \in 0 .. LastHour + SessionLifetime
    BY AuthAssumption DEF SessionInv, AuthShape, Hours
  <2> QED
    BY <1>4, <2>1 DEF SessionRow
<1> HIDE DEF fresh, gone
<1>6. \A s \in sessions : s.token # token
  BY <1>4 DEF SessionTokens
<1>7. AuthShape'
  <2>1. sessions' \subseteq SessionRow /\ signedOut' \subseteq 1 .. MaxForms
    BY <1>3, <1>5 DEF SessionInv, AuthShape, SessionRow
  <2>2. UNCHANGED <<pages, cookies, authClock, formsSent>>
    BY DEF StartSession, FormFrame
  <2> QED
    BY <1>2, <2>1, <2>2 DEF SessionInv, AuthShape
<1>8. OneRowPerToken'
  BY <1>3, <1>5, <1>6 DEF SessionInv, OneRowPerToken
<1>9. SessionTokens' \subseteq SessionTokens \cup {token} /\ signedOut' \subseteq signedOut \cup SessionTokens
  BY <1>3, <1>5 DEF SessionTokens
<1>10. SignedOutStaysOut'
  <2>1. \A s \in sessions \ gone : s.token \notin signedOut'
    BY <1>3 DEF SessionInv, OneRowPerToken, SignedOutStaysOut
  <2>2. token \notin signedOut'
    BY <1>4, <1>9
  <2> QED
    BY <1>3, <1>5, <2>1, <2>2 DEF SignedOutStaysOut
<1>11. /\ ~Fresh(b)'
       /\ \A c \in Browsers : Pending(c)' => Pending(c) /\ forms'[c].token = forms[c].token
  <2>1. forms'[b].pc = "granted"
    BY <1>1 DEF Goto, SessionInv, AuthShape, FormRecord
  <2> QED
    BY <1>2, <2>1 DEF Fresh, BeforeGrant, FormsFollow
<1>12. TokensGivenOut'
  BY <1>1, <1>4, <1>9, <1>11 DEF SessionInv, TokensGivenOut
<1>13. FreshUnused'
  <2> SUFFICES ASSUME NEW c \in Browsers, Fresh(c)'
               PROVE  forms'[c].token \notin (SessionTokens \cup signedOut)'
    BY DEF FreshUnused
  <2>1. Fresh(c) /\ forms'[c].token = forms[c].token /\ c # b
    BY <1>2, <1>11 DEF FormsFollow
  <2>2. Pending(c)
    BY <2>1 DEF Pending, Fresh, NoForm, BeforeGrant
  <2>3. forms[c].token # token
    BY <1>1, <2>1, <2>2 DEF SessionInv, TokensGivenOut
  <2> QED
    BY <1>9, <2>1, <2>3 DEF SessionInv, FreshUnused
<1> QED
  BY <1>7, <1>8, <1>10, <1>12, <1>13 DEF SessionInv

\* Throttle, password, counters and registration move the form on and leave sessions alone.
LEMMA AuthenticatingKeeps ==
  ASSUME SessionInv, NEW b \in Browsers,
         Throttle(b) \/ Verify(b) \/ RecordFailure(b) \/ ForgiveFailures(b)
         \/ CountRegistration(b) \/ RegisterUser(b)
  PROVE  SessionInv'
<1>1. UNCHANGED <<sessions, signedOut, pages, cookies, authClock, formsSent>>
  BY DEF Throttle, Verify, RecordFailure, ForgiveFailures, CountRegistration, RegisterUser, FormFrame
<1>2. FormsFollow /\ forms' \in [Browsers -> FormRecord \cup {NoForm}]
  <2> USE DEF SessionInv
  <2>1. CASE Throttle(b)
    <3>1. At(b, "throttle") /\ (Goto(b, "verify") \/ Goto(b, "count") \/ Refuse(b))
      BY <2>1 DEF Throttle
    <3> QED
      BY <1>1, <3>1, Going, Ending DEF Refuse, FormSteps, BeforeGrant
  <2>2. CASE Verify(b)
    <3>1. At(b, "verify") /\ (Goto(b, "clear") \/ Goto(b, "record"))
      BY <2>2 DEF Verify
    <3> QED
      BY <1>1, <3>1, Going DEF FormSteps, BeforeGrant
  <2>3. CASE RecordFailure(b)
    BY <1>1, <2>3, Ending DEF RecordFailure, Refuse
  <2>4. CASE ForgiveFailures(b)
    BY <1>1, <2>4, Going DEF ForgiveFailures, FormSteps, BeforeGrant
  <2>5. CASE CountRegistration(b)
    BY <1>1, <2>5, Going DEF CountRegistration, FormSteps, BeforeGrant
  <2>6. CASE RegisterUser(b)
    <3>1. At(b, "insert") /\ (Goto(b, "create") \/ Refuse(b))
      BY <2>6 DEF RegisterUser
    <3> QED
      BY <1>1, <3>1, Going, Ending DEF Refuse, FormSteps, BeforeGrant
  <2> QED
    BY <2>1, <2>2, <2>3, <2>4, <2>5, <2>6
<1>3. AuthShape'
  BY <1>1, <1>2 DEF SessionInv, AuthShape
<1> QED
  BY <1>1, <1>2, <1>3, LeavingRows, NoNewToken

\* Signing out removes rows only.
LEMMA SigningOutKeeps ==
  ASSUME SessionInv, NEW b \in Browsers,
         BeginLogout(b) \/ ResolveLogout(b) \/ LogoutEverywhere(b) \/ Logout(b)
  PROVE  SessionInv'
<1>1. UNCHANGED <<pages, cookies, authClock, formsSent>>
  BY DEF BeginLogout, ResolveLogout, LogoutEverywhere, Logout, FormFrame
<1>2. FormsFollow /\ forms' \in [Browsers -> FormRecord \cup {NoForm}] /\ StoreShrinks
  <2> USE DEF SessionInv
  <2>1. CASE BeginLogout(b)
    <3> DEFINE to == CASE forms[b].carried = NoToken -> "cleared"
                       [] forms[b].carried # NoToken /\ forms[b].kind = "all"
                          /\ Session(forms[b].carried) # {} -> "resolve"
                       [] OTHER -> "delete"
               f == [forms[b] EXCEPT !.row = Session(forms[b].carried), !.pc = to]
    <3>0. to \in {"cleared", "resolve", "delete"}
      OBVIOUS
    <3>1. forms[b] \in FormRecord /\ forms[b].pc = "logout"
      BY <2>1, FormShape DEF BeginLogout, At
    <3>2. Session(forms[b].carried) \in SUBSET SessionRow
      BY DEF Session, AuthShape
    <3>3. f.pc \in {"cleared", "resolve", "delete"} /\ f.token = forms[b].token /\ f \in FormRecord
      <4> HIDE DEF to
      <4> QED
        BY <3>0, <3>1, <3>2 DEF FormRecord, FormSteps
    <3>4. forms' = [forms EXCEPT ![b] = f] /\ UNCHANGED <<sessions, signedOut>>
      <4>1. /\ forms' = [forms EXCEPT ![b].row = Session(forms[b].carried), ![b].pc = to]
            /\ UNCHANGED <<sessions, signedOut>>
        BY <2>1, Zenon DEF BeginLogout
      <4> HIDE DEF to
      <4> QED
        BY <4>1
    <3> HIDE DEF f
    <3>5. f.pc \notin BeforeGrant
      BY <3>3 DEF BeforeGrant
    <3> QED
      BY <1>1, <3>1, <3>3, <3>4, <3>5, MovingOn, LeavingRows
  <2>2. CASE ResolveLogout(b)
    <3>1. PICK row \in forms[b].row : ResolveSession(row)
            /\ forms' = [forms EXCEPT ![b].pc = IF Expired(row) THEN "delete" ELSE "everywhere", ![b].row = {}]
      BY <2>2 DEF ResolveLogout
    <3> DEFINE f == [forms[b] EXCEPT !.pc = IF Expired(row) THEN "delete" ELSE "everywhere", !.row = {}]
    <3>2. forms[b] \in FormRecord /\ forms[b].pc = "resolve"
      BY <2>2, FormShape DEF ResolveLogout, At
    <3>3. f.pc \in {"delete", "everywhere"} /\ f.token = forms[b].token /\ f \in FormRecord
      BY <3>2 DEF FormRecord, FormSteps
    <3>4. forms' = [forms EXCEPT ![b] = f]
      BY <3>1
    <3>5. row \in SessionRow
      BY <3>2 DEF FormRecord
    <3> HIDE DEF f
    <3>6. f.pc \notin BeforeGrant
      BY <3>3 DEF BeforeGrant
    <3> QED
      BY <1>1, <3>1, <3>2, <3>3, <3>4, <3>5, <3>6, MovingOn, ResolvingRows
  <2>3. CASE LogoutEverywhere(b)
    <3>1. sessions' = sessions \ sessions /\ Deleting(sessions) /\ At(b, "everywhere") /\ Goto(b, "delete")
      BY <2>3 DEF LogoutEverywhere, DeleteAllSessionsForUser
    <3> QED
      BY <1>1, <3>1, RemovingRows, Going DEF FormSteps, BeforeGrant
  <2>4. CASE Logout(b)
    <3>1. sessions' = sessions \ Session(forms[b].carried) /\ Deleting(Session(forms[b].carried))
          /\ At(b, "delete") /\ Goto(b, "cleared")
      BY <2>4 DEF Logout, DeleteSession
    <3>2. Session(forms[b].carried) \subseteq sessions
      BY DEF Session
    <3> QED
      BY <1>1, <3>1, <3>2, RemovingRows, Going DEF FormSteps, BeforeGrant
  <2> QED
    BY <2>1, <2>2, <2>3, <2>4
<1>3. AuthShape'
  BY <1>1, <1>2 DEF SessionInv, AuthShape, StoreShrinks
<1> QED
  BY <1>2, <1>3, NoNewToken

\* An answer, and a request that failed, end the form; the cookie is a token or none.
LEMMA EndFormKeeps == ASSUME SessionInv, NEW b \in Browsers, EndForm(b) PROVE SessionInv'
<1>1. UNCHANGED <<sessions, signedOut, pages, authClock, formsSent>> /\ forms' = [forms EXCEPT ![b] = NoForm]
  BY DEF EndForm
<1>2. FormsFollow /\ forms' \in [Browsers -> FormRecord \cup {NoForm}]
  BY <1>1, Ending DEF SessionInv
<1>3. forms[b].token \in 1 .. MaxForms
  BY DEF EndForm, SessionInv, AuthShape, FormRecord
<1>4. cookies' \in [Browsers -> 0 .. MaxForms]
  BY <1>3, FormsCounted DEF EndForm, SessionInv, AuthShape, NoToken
<1>5. AuthShape'
  BY <1>1, <1>2, <1>4 DEF SessionInv, AuthShape
<1> QED
  BY <1>1, <1>2, <1>5, LeavingRows, NoNewToken

\* Pages renew or delete rows and re-issue cookies, the clock moves: no form is touched.
LEMMA PagesKeep ==
  ASSUME SessionInv, NEW b \in Browsers, RequestPage(b) \/ ReadSession(b) \/ ResolvePage(b) \/ EndPage(b)
  PROVE  SessionInv'
<1>1. UNCHANGED <<forms, authClock, formsSent>>
  BY DEF RequestPage, ReadSession, ResolvePage, EndPage, PageFrame
<1>2. FormsFollow
  BY <1>1 DEF FormsFollow, Pending, Fresh
<1>3. StoreShrinks /\ pages' \in [Browsers -> PageRecord \cup {NoPage}] /\ cookies' \in [Browsers -> 0 .. MaxForms]
  <2>1. CASE RequestPage(b)
    <3>1. [pc |-> "sent", carried |-> cookies[b], row |-> {}] \in PageRecord
      BY DEF PageRecord, SessionInv, AuthShape
    <3> QED
      BY <2>1, <3>1, LeavingRows DEF RequestPage, SessionInv, AuthShape
  <2>2. CASE ReadSession(b)
    <3> DEFINE f == [pages[b] EXCEPT !.pc = "read", !.row = Session(pages[b].carried)]
    <3>1. pages[b] \in PageRecord
      BY <2>2 DEF ReadSession, SessionInv, AuthShape, NoPage
    <3>2. Session(pages[b].carried) \in SUBSET SessionRow
      BY DEF Session, SessionInv, AuthShape
    <3>3. f \in PageRecord
      BY <3>1, <3>2 DEF PageRecord
    <3>4. pages' = [pages EXCEPT ![b] = f] /\ UNCHANGED <<sessions, signedOut, cookies>>
      BY <2>2 DEF ReadSession
    <3> QED
      BY <3>3, <3>4, LeavingRows DEF SessionInv, AuthShape
  <2>3. CASE ResolvePage(b)
    <3> DEFINE f == [pages[b] EXCEPT !.pc = "resolved", !.row = {}]
    <3>1. pages[b] \in PageRecord
      BY <2>3 DEF ResolvePage, SessionInv, AuthShape, NoPage
    <3>2. f \in PageRecord
      BY <3>1 DEF PageRecord
    <3>3. pages' = [pages EXCEPT ![b] = f] /\ UNCHANGED cookies
      BY <2>3 DEF ResolvePage
    <3>4. UNCHANGED <<sessions, signedOut>> \/ \E row \in SessionRow : ResolveSession(row)
      BY <2>3, <3>1 DEF ResolvePage, PageRecord
    <3>5. StoreShrinks
      BY <3>4, LeavingRows, ResolvingRows
    <3> QED
      BY <3>2, <3>3, <3>5 DEF SessionInv, AuthShape
  <2>4. CASE EndPage(b)
    <3>1. pages[b].carried \in 0 .. MaxForms
      BY <2>4 DEF EndPage, SessionInv, AuthShape, NoPage, PageRecord
    <3> QED
      BY <2>4, <3>1, LeavingRows DEF EndPage, SessionInv, AuthShape
  <2> QED
    BY <2>1, <2>2, <2>3, <2>4
<1>4. AuthShape'
  BY <1>1, <1>3 DEF SessionInv, AuthShape, StoreShrinks
<1> QED
  BY <1>2, <1>3, <1>4, NoNewToken

\* Only the clock.
LEMMA TickKeeps == ASSUME SessionInv, AuthTick PROVE SessionInv'
<1>1. UNCHANGED <<sessions, cookies, forms, pages, formsSent, signedOut>> /\ authClock' \in Hours
  BY AuthAssumption DEF AuthTick, SessionInv, AuthShape, Hours
<1>2. AuthShape'
  BY <1>1 DEF SessionInv, AuthShape
<1>3. FormsFollow
  BY <1>1 DEF FormsFollow, Pending, Fresh
<1> QED
  BY <1>1, <1>2, <1>3, LeavingRows, NoNewToken

\* What holds when the tables are empty and no browser has sent anything.
LEMMA AuthInitially == AuthInit => SessionInv
<1> SUFFICES ASSUME AuthInit PROVE SessionInv
  OBVIOUS
<1>1. AuthShape
  BY FormsCounted, AuthAssumption DEF AuthInit, AuthShape, NoToken, Hours
<1>2. \A b \in Browsers : ~Pending(b) /\ ~Fresh(b)
  BY DEF AuthInit, Pending, Fresh, NoForm, BeforeGrant
<1> QED
  BY <1>1, <1>2 DEF AuthInit, SessionInv, OneRowPerToken, TokensGivenOut, FreshUnused, SignedOutStaysOut, SessionTokens

\* Every step of AuthNext preserves the invariant.
LEMMA AuthStep == SessionInv /\ [AuthNext]_authVars => SessionInv'
<1> SUFFICES ASSUME SessionInv, [AuthNext]_authVars PROVE SessionInv'
  OBVIOUS
<1>1. ASSUME NEW b \in Browsers, SubmitForm(b) PROVE SessionInv'
  BY <1>1, SubmitKeeps
<1>2. ASSUME NEW b \in Browsers, StartSession(b) PROVE SessionInv'
  BY <1>2, StartKeeps
<1>3. ASSUME NEW b \in Browsers,
             Throttle(b) \/ Verify(b) \/ RecordFailure(b) \/ ForgiveFailures(b)
             \/ CountRegistration(b) \/ RegisterUser(b)
      PROVE  SessionInv'
  BY <1>3, AuthenticatingKeeps
<1>4. ASSUME NEW b \in Browsers, BeginLogout(b) \/ ResolveLogout(b) \/ LogoutEverywhere(b) \/ Logout(b)
      PROVE  SessionInv'
  BY <1>4, SigningOutKeeps
<1>5. ASSUME NEW b \in Browsers, EndForm(b) PROVE SessionInv'
  BY <1>5, EndFormKeeps
<1>6. ASSUME NEW b \in Browsers, RequestPage(b) \/ ReadSession(b) \/ ResolvePage(b) \/ EndPage(b)
      PROVE  SessionInv'
  BY <1>6, PagesKeep
<1>7. CASE AuthTick
  BY <1>7, TickKeeps
<1>8. CASE UNCHANGED authVars
  <2>1. UNCHANGED <<sessions, cookies, forms, pages, formsSent, signedOut, authClock>>
    BY <1>8 DEF authVars
  <2>2. AuthShape' /\ FormsFollow
    BY <2>1 DEF SessionInv, AuthShape, FormsFollow, Pending, Fresh
  <2> QED
    BY <2>1, <2>2, LeavingRows, NoNewToken
<1> QED
  BY <1>1, <1>2, <1>3, <1>4, <1>5, <1>6, <1>7, <1>8 DEF AuthNext

\* A session that was signed out, replaced or found expired never comes back, whichever requests
\* had read it before and renew it afterwards (getSession, createSession, deleteSession), for any
\* browsers, agenda, lifetime, renewal threshold and clock.
THEOREM SignedOutSessionsStayOut == AuthSpec => []SignedOutStaysOut
<1>1. SessionInv => SignedOutStaysOut
  BY DEF SessionInv
<1> QED
  BY <1>1, AuthInitially, AuthStep, PTL DEF AuthSpec

\* The table never holds two rows of one token, so that deleting by token and deleting the expired
\* row of a token are the same.
THEOREM TokensHaveOneRow == AuthSpec => []OneRowPerToken
<1>1. SessionInv => OneRowPerToken
  BY DEF SessionInv
<1> QED
  BY <1>1, AuthInitially, AuthStep, PTL DEF AuthSpec

-----------------------------------------------------------------------------
(* The throttle *)

SumRule(n, f, sum) == \A i \in 0 .. n : sum[i] = IF i = 0 THEN f[0] ELSE sum[i - 1] + f[i]

\* The recursion of SumTo has a solution, which counts up from f[0].
LEMMA SumExists ==
  ASSUME NEW n \in Nat, NEW f \in [0 .. n -> Nat]
  PROVE  \E sum \in [0 .. n -> Nat] : SumRule(n, f, sum)
<1> DEFINE UpTo(k, sum) == \A i \in 0 .. k : sum[i] = IF i = 0 THEN f[0] ELSE sum[i - 1] + f[i]
           missing == {k \in 0 .. n : ~\E sum \in [0 .. n -> Nat] : UpTo(k, sum)}
<1>1. SUFFICES missing = {}
  <2>1. n \in 0 .. n
    OBVIOUS
  <2> QED
    BY <1>1, <2>1 DEF SumRule
<1>2. SUFFICES ASSUME missing # {} PROVE FALSE
  OBVIOUS
<1>3. PICK k \in missing : \A m \in missing : k <= m
  <2>1. missing \subseteq Nat
    OBVIOUS
  <2> HIDE DEF missing
  <2> QED
    BY <1>2, <2>1, LeastExists
<1>4. \A i \in 0 .. n : f[i] \in Nat
  OBVIOUS
<1>5. CASE k = 0
  <2> DEFINE sum == [i \in 0 .. n |-> f[0]]
  <2>1. sum \in [0 .. n -> Nat] /\ UpTo(0, sum)
    BY <1>4
  <2> QED
    BY <1>3, <1>5, <2>1
<1>6. CASE k # 0
  <2>1. k \in 1 .. n /\ k - 1 \in 0 .. n /\ k - 1 \notin missing
    <3>1. k \in 1 .. n /\ k - 1 \in 0 .. n /\ ~(k <= k - 1)
      BY <1>3, <1>6
    <3> HIDE DEF missing
    <3> QED
      BY <1>3, <3>1
  <2>2. PICK sum \in [0 .. n -> Nat] : UpTo(k - 1, sum)
    BY <2>1
  <2> DEFINE next == [sum EXCEPT ![k] = sum[k - 1] + f[k]]
  <2>3. sum[k - 1] \in Nat /\ f[k] \in Nat
    BY <1>4, <2>1
  <2>4. next \in [0 .. n -> Nat]
    BY <2>3
  <2>5. next[k] = sum[k - 1] + f[k] /\ \A i \in 0 .. n \ {k} : next[i] = sum[i]
    BY <2>1
  <2>6. ASSUME NEW i \in 0 .. k PROVE next[i] = IF i = 0 THEN f[0] ELSE next[i - 1] + f[i]
    <3>1. CASE i = k
      <4>1. k - 1 \in 0 .. n \ {k}
        BY <2>1
      <4> QED
        BY <1>6, <2>5, <3>1, <4>1
    <3>2. CASE i # k
      <4>1. i \in 0 .. k - 1 /\ i \in 0 .. n \ {k} /\ (i # 0 => i - 1 \in 0 .. n \ {k})
        BY <2>1, <3>2
      <4> QED
        BY <2>2, <2>5, <4>1
    <3> QED
      BY <3>1, <3>2
  <2> HIDE DEF next
  <2>7. UpTo(k, next)
    BY <2>6
  <2> QED
    BY <1>3, <2>4, <2>7
<1> QED
  BY <1>5, <1>6

\* SumTo is the last value of such a solution.
LEMMA SumIs ==
  ASSUME NEW n \in Nat, NEW f \in [0 .. n -> Nat]
  PROVE  \E sum \in [0 .. n -> Nat] : SumRule(n, f, sum) /\ SumTo(f, n) = sum[n]
<1> DEFINE solves(g) == g = [i \in 0 .. n |-> IF i = 0 THEN f[0] ELSE g[i - 1] + f[i]]
           it == CHOOSE g : solves(g)
<1>1. PICK sum \in [0 .. n -> Nat] : SumRule(n, f, sum)
  BY SumExists
<1>2. solves(sum)
  BY <1>1 DEF SumRule
<1>3. solves(it)
  BY <1>2
<1>4. SumTo(f, n) = it[n]
  BY DEF SumTo
<1> HIDE DEF it
<1>5. \A i \in 0 .. n : it[i] = IF i = 0 THEN f[0] ELSE it[i - 1] + f[i]
  BY <1>3
<1> DEFINE differ == {i \in 0 .. n : it[i] # sum[i]}
<1>6. ASSUME differ # {} PROVE FALSE
  <2>1. differ \subseteq Nat
    OBVIOUS
  <2>2. PICK i \in differ : \A j \in differ : i <= j
    <3> HIDE DEF differ
    <3> QED
      BY <1>6, <2>1, LeastExists
  <2>3. CASE i = 0
    BY <1>1, <1>5, <2>2, <2>3 DEF SumRule
  <2>4. CASE i # 0
    <3>1. i \in 0 .. n /\ i - 1 \in 0 .. n /\ ~(i <= i - 1)
      BY <2>2, <2>4
    <3>2. it[i - 1] = sum[i - 1]
      BY <2>2, <3>1
    <3> QED
      BY <1>1, <1>5, <2>2, <2>4, <3>1, <3>2 DEF SumRule
  <2> QED
    BY <2>3, <2>4
<1>7. n \in 0 .. n
  OBVIOUS
<1> QED
  BY <1>1, <1>4, <1>6, <1>7

\* A sum grows by one at most when one summand does and no other grows.
LEMMA SumGrows ==
  ASSUME NEW n \in Nat, NEW f \in [0 .. n -> Nat], NEW g \in [0 .. n -> Nat], NEW k \in Int,
         \A i \in 0 .. n : g[i] <= f[i] + (IF i = k THEN 1 ELSE 0)
  PROVE  /\ SumTo(f, n) \in Nat /\ SumTo(g, n) \in Nat
         /\ SumTo(g, n) <= SumTo(f, n) + (IF k \in 0 .. n THEN 1 ELSE 0)
<1>1. PICK F \in [0 .. n -> Nat] : SumRule(n, f, F) /\ SumTo(f, n) = F[n]
  BY SumIs
<1>2. PICK G \in [0 .. n -> Nat] : SumRule(n, g, G) /\ SumTo(g, n) = G[n]
  BY SumIs
<1> DEFINE extra(i) == IF 0 <= k /\ k <= i THEN 1 ELSE 0
           ahead == {i \in 0 .. n : ~(G[i] <= F[i] + extra(i))}
<1>3. \A i \in 0 .. n : F[i] \in Nat /\ G[i] \in Nat /\ f[i] \in Nat /\ g[i] \in Nat
  OBVIOUS
<1>4. ASSUME ahead # {} PROVE FALSE
  <2>1. ahead \subseteq Nat
    OBVIOUS
  <2>2. PICK i \in ahead : \A j \in ahead : i <= j
    <3> HIDE DEF ahead
    <3> QED
      BY <1>4, <2>1, LeastExists
  <2>3. CASE i = 0
    <3>1. G[0] = g[0] /\ F[0] = f[0]
      BY <1>1, <1>2 DEF SumRule
    <3> QED
      BY <1>3, <2>2, <2>3, <3>1
  <2>4. CASE i # 0
    <3>1. i \in 0 .. n /\ i - 1 \in 0 .. n /\ i - 1 \notin ahead
      <4>1. i \in 0 .. n /\ i - 1 \in 0 .. n /\ ~(i <= i - 1)
        BY <2>2, <2>4
      <4> HIDE DEF ahead
      <4> QED
        BY <2>2, <4>1
    <3>2. G[i] = G[i - 1] + g[i] /\ F[i] = F[i - 1] + f[i]
      BY <1>1, <1>2, <2>4, <3>1 DEF SumRule
    <3>3. G[i - 1] <= F[i - 1] + extra(i - 1)
      BY <3>1
    <3>4. g[i] <= f[i] + (IF i = k THEN 1 ELSE 0)
      BY <3>1
    <3>5. i \in Nat /\ i # 0
      BY <2>4, <3>1
    <3>6. extra(i - 1) + (IF i = k THEN 1 ELSE 0) = extra(i)
      <4>1. CASE i = k
        <5>1. ~(k <= i - 1) /\ 0 <= k /\ k <= i
          BY <3>5, <4>1
        <5> QED
          BY <4>1, <5>1
      <4>2. CASE i # k
        <5>1. k <= i - 1 <=> k <= i
          BY <3>5, <4>2
        <5>2. extra(i - 1) = extra(i) /\ extra(i) \in Int
          BY <5>1
        <5> HIDE DEF extra
        <5> QED
          BY <4>2, <5>2
      <4> QED
        BY <4>1, <4>2
    <3>7. extra(i - 1) \in Int /\ extra(i) \in Int /\ (IF i = k THEN 1 ELSE 0) \in Int
      OBVIOUS
    <3> DEFINE one == IF i = k THEN 1 ELSE 0
    <3> HIDE DEF extra, one
    <3>8. \A a, b, c, d, x, y, z \in Int : a <= b + x /\ c <= d + y /\ x + y = z => a + c <= (b + d) + z
      OBVIOUS
    <3>9. G[i - 1] + g[i] <= (F[i - 1] + f[i]) + extra(i)
      <4>1. G[i - 1] <= F[i - 1] + extra(i - 1) /\ g[i] <= f[i] + one /\ extra(i - 1) + one = extra(i)
        BY <3>3, <3>4, <3>6 DEF one
      <4>2. /\ G[i - 1] \in Int /\ F[i - 1] \in Int /\ g[i] \in Int /\ f[i] \in Int
            /\ extra(i - 1) \in Int /\ one \in Int /\ extra(i) \in Int
        BY <1>3, <3>1, <3>5, <3>7  DEF one
      <4> QED
        BY <3>8, <4>1, <4>2
    <3>10. G[i] <= F[i] + extra(i)
      BY <3>2, <3>9
    <3> QED
      BY <2>2, <3>10
  <2> QED
    BY <2>3, <2>4
<1>5. n \in 0 .. n
  OBVIOUS
<1>6. F[n] \in Nat /\ G[n] \in Nat /\ G[n] <= F[n] + extra(n)
  BY <1>3, <1>4, <1>5
<1> QED
  BY <1>1, <1>2, <1>6

\* Nothing adds up to nothing.
LEMMA SumOfNothing == \A n \in Nat : SumTo([i \in 0 .. n |-> 0], n) = 0
<1> SUFFICES ASSUME NEW n \in Nat PROVE SumTo([i \in 0 .. n |-> 0], n) = 0
  OBVIOUS
<1> DEFINE f == [i \in 0 .. n |-> 0]
<1>1. f \in [0 .. n -> Nat] /\ \A i \in 0 .. n : f[i] = 0
  OBVIOUS
<1> HIDE DEF f
<1>2. PICK F \in [0 .. n -> Nat] : SumRule(n, f, F) /\ SumTo(f, n) = F[n]
  BY <1>1, SumIs
<1> DEFINE more == {i \in 0 .. n : F[i] # 0}
<1>3. ASSUME more # {} PROVE FALSE
  <2>1. more \subseteq Nat
    OBVIOUS
  <2>2. PICK i \in more : \A j \in more : i <= j
    <3> HIDE DEF more
    <3> QED
      BY <1>3, <2>1, LeastExists
  <2>3. i # 0 => i - 1 \in 0 .. n /\ i - 1 \notin more
    BY <2>2
  <2> QED
    BY <1>1, <1>2, <2>2, <2>3 DEF SumRule
<1> QED
  BY <1>2, <1>3 DEF f

Scopes == {"login", "register"}
InWindow(scope) == [h \in Hours |-> IF h > authClock - ThrottleWindow THEN authAttempts[scope][h] ELSE 0]

\* Forms that are still to be recorded as an attempt, if at all; and failures past the check.
Recordable == {b \in Browsers : forms[b].pc \in {"throttle", "verify", "record", "count"}}
PastCheck == {b \in Browsers : forms[b].pc \in {"verify", "record"}}

\* Every attempt on record had a form of its own.  A request that has passed the check is one
\* failure more at most.
ThrottleInv ==
  /\ authAttempts \in [Scopes -> [Hours -> Nat]] /\ pagesSent \in 0 .. MaxPages
  /\ \A scope \in Scopes : \A h \in Hours : authAttempts[scope][h] + Cardinality(Recordable) <= formsSent
  /\ CountRecent("login") + Cardinality(PastCheck) <= FailureLimit - 1 + Cardinality(Browsers)

\* How many browsers there are.
LEMMA Counting ==
  ASSUME NEW P, NEW Q, P \subseteq Browsers, Q \subseteq Browsers
  PROVE  /\ Cardinality(P) \in Nat /\ Cardinality(Q) \in Nat /\ Cardinality(Q) <= Cardinality(Browsers)
         /\ Cardinality(Browsers) \in Nat
         /\ Q \subseteq P => Cardinality(Q) <= Cardinality(P)
         /\ \A b \in P : Q \subseteq P \ {b} => Cardinality(Q) <= Cardinality(P) - 1
         /\ \A b \in Browsers : Q \subseteq P \cup {b} => Cardinality(Q) <= Cardinality(P) + 1
<1>1. IsFiniteSet(P) /\ IsFiniteSet(Q) /\ IsFiniteSet(Browsers)
  BY AuthAssumption, FS_Subset
<1>2. Cardinality(P) \in Nat /\ Cardinality(Q) \in Nat /\ Cardinality(Browsers) \in Nat
  BY <1>1, FS_CardinalityType
<1>3. ASSUME NEW b \in P, Q \subseteq P \ {b} PROVE Cardinality(Q) <= Cardinality(P) - 1
  <2>1. IsFiniteSet(P \ {b}) /\ Cardinality(P \ {b}) = Cardinality(P) - 1
    BY <1>1, FS_RemoveElement
  <2> QED
    BY <1>3, <2>1, FS_Subset
<1>4. ASSUME NEW b \in Browsers, Q \subseteq P \cup {b} PROVE Cardinality(Q) <= Cardinality(P) + 1
  <2>1. IsFiniteSet(P \cup {b}) /\ (Cardinality(P \cup {b}) = Cardinality(P) + 1 \/ P \cup {b} = P)
    BY <1>1, FS_AddElement
  <2>2. Cardinality(Q) <= Cardinality(P \cup {b})
    BY <1>4, <2>1, FS_Subset
  <2>3. Cardinality(Q) <= Cardinality(P) + 1 \/ Cardinality(Q) <= Cardinality(P)
    BY <2>1, <2>2
  <2> QED
    BY <1>2, <2>3
<1>5. Q \subseteq P => Cardinality(Q) <= Cardinality(P)
  BY <1>1, FS_Subset
<1>6. Cardinality(Q) <= Cardinality(Browsers)
  BY <1>1, FS_Subset
<1> QED
  BY <1>2, <1>3, <1>4, <1>5, <1>6

\* The count of the throttle is the sum over its window.
LEMMA CountIs ==
  ASSUME ThrottleInv, AuthShape, NEW scope \in Scopes
  PROVE  /\ InWindow(scope) \in [0 .. LastHour -> Nat] /\ CountRecent(scope) = SumTo(InWindow(scope), LastHour)
         /\ CountRecent(scope) \in Nat
<1>1. InWindow(scope) \in [0 .. LastHour -> Nat]
  BY DEF ThrottleInv, InWindow, Hours
<1>2. CountRecent(scope) = SumTo(InWindow(scope), LastHour)
  BY DEF CountRecent, InWindow
<1>3. SumTo(InWindow(scope), LastHour) \in Nat
  <2>1. PICK sum \in [0 .. LastHour -> Nat] :
          SumRule(LastHour, InWindow(scope), sum) /\ SumTo(InWindow(scope), LastHour) = sum[LastHour]
    BY <1>1, SumIs, AuthAssumption
  <2> QED
    BY <2>1, AuthAssumption
<1> QED
  BY <1>1, <1>2, <1>3

\* What the step does to the attempts of one hour bounds what it does to the count.
LEMMA CountFollows ==
  ASSUME ThrottleInv, AuthShape, AuthShape', authClock' >= authClock, NEW scope \in Scopes,
         authAttempts' \in [Scopes -> [Hours -> Nat]], NEW k \in Int,
         \A h \in Hours : authAttempts'[scope][h] <= authAttempts[scope][h] + (IF h = k THEN 1 ELSE 0)
  PROVE  CountRecent(scope)' <= CountRecent(scope) + (IF k \in Hours THEN 1 ELSE 0) /\ CountRecent(scope)' \in Nat
<1> DEFINE f == InWindow(scope)
           g == [h \in Hours |-> IF h > authClock' - ThrottleWindow THEN authAttempts'[scope][h] ELSE 0]
<1>1. f \in [0 .. LastHour -> Nat] /\ CountRecent(scope) = SumTo(f, LastHour)
  BY CountIs
<1>2. g \in [0 .. LastHour -> Nat] /\ CountRecent(scope)' = SumTo(g, LastHour)
  BY DEF Hours, CountRecent
<1>3. ASSUME NEW i \in 0 .. LastHour PROVE g[i] <= f[i] + (IF i = k THEN 1 ELSE 0)
  <2> DEFINE one == IF i = k THEN 1 ELSE 0
  <2>1. i \in Hours /\ i \in Int /\ ThrottleWindow \in Nat /\ authClock \in Int /\ authClock' \in Int
    BY AuthAssumption DEF Hours, AuthShape
  <2>2. authAttempts[scope][i] \in Nat /\ authAttempts'[scope][i] \in Nat /\ one \in {0, 1}
    BY <2>1 DEF ThrottleInv
  <2>3. authAttempts'[scope][i] <= authAttempts[scope][i] + one
    BY <2>1
  <2>4. g[i] = IF i > authClock' - ThrottleWindow THEN authAttempts'[scope][i] ELSE 0
    BY <2>1
  <2>5. f[i] = IF i > authClock - ThrottleWindow THEN authAttempts[scope][i] ELSE 0
    BY <2>1 DEF InWindow
  <2> HIDE DEF one, f, g
  <2>6. i > authClock' - ThrottleWindow => i > authClock - ThrottleWindow
    <3>1. \A c, d, j, w \in Int : d >= c => (j > d - w => j > c - w)
      OBVIOUS
    <3>2. ThrottleWindow \in Int /\ authClock' >= authClock
      BY <2>1
    <3> QED
      BY <2>1, <3>1, <3>2, Zenon
  <2>7. g[i] <= f[i] + one
    BY <2>2, <2>3, <2>4, <2>5, <2>6
  <2> QED
    BY <2>7 DEF one
<1> HIDE DEF f, g
<1>4. LastHour \in Nat
  BY AuthAssumption
<1>5. SumTo(g, LastHour) <= SumTo(f, LastHour) + (IF k \in 0 .. LastHour THEN 1 ELSE 0) /\ SumTo(g, LastHour) \in Nat
  BY <1>1, <1>2, <1>3, <1>4, SumGrows
<1> QED
  BY <1>1, <1>2, <1>5 DEF Hours

\* A step that records nothing and lets no form past the check.
LEMMA NothingRecorded ==
  ASSUME ThrottleInv, AuthShape, AuthShape', authClock' >= authClock, pagesSent' \in 0 .. MaxPages,
         authAttempts' \in [Scopes -> [Hours -> Nat]],
         \A scope \in Scopes : \A h \in Hours : authAttempts'[scope][h] <= authAttempts[scope][h],
         PastCheck' \subseteq PastCheck,
         \/ Recordable' \subseteq Recordable /\ formsSent' = formsSent
         \/ \E b \in Browsers : Recordable' \subseteq Recordable \cup {b} /\ formsSent' = formsSent + 1
  PROVE  ThrottleInv'
<1>1. PastCheck \subseteq Browsers /\ PastCheck' \subseteq Browsers
      /\ Recordable \subseteq Browsers /\ Recordable' \subseteq Browsers
  BY DEF PastCheck, Recordable
<1>2. CountRecent("login")' <= CountRecent("login") /\ CountRecent("login")' \in Nat /\ CountRecent("login") \in Nat
  <2>1. "login" \in Scopes /\ -1 \in Int /\ -1 \notin Hours
    BY DEF Scopes, Hours
  <2>2. \A h \in Hours : authAttempts'["login"][h] <= authAttempts["login"][h] + (IF h = -1 THEN 1 ELSE 0)
    <3> SUFFICES ASSUME NEW h \in Hours
                 PROVE  authAttempts'["login"][h] <= authAttempts["login"][h] + (IF h = -1 THEN 1 ELSE 0)
      OBVIOUS
    <3>1. h # -1 /\ authAttempts'["login"][h] <= authAttempts["login"][h] /\ authAttempts["login"][h] \in Nat
      BY <2>1 DEF ThrottleInv
    <3>2. (IF h = -1 THEN 1 ELSE 0) = 0
      BY <3>1
    <3> QED
      BY <3>1, <3>2
  <2>3. CountRecent("login")' <= CountRecent("login") + (IF -1 \in Hours THEN 1 ELSE 0) /\ CountRecent("login")' \in Nat
    BY <2>1, <2>2, CountFollows
  <2>4. CountRecent("login") \in Nat
    BY <2>1, CountIs
  <2> QED
    BY <2>1, <2>3, <2>4
<1>3. Cardinality(PastCheck') <= Cardinality(PastCheck) /\ Cardinality(PastCheck) \in Nat
      /\ Cardinality(PastCheck') \in Nat /\ Cardinality(Browsers) \in Nat
  BY <1>1, Counting
<1>4. CountRecent("login")' + Cardinality(PastCheck') <= FailureLimit - 1 + Cardinality(Browsers)
  <2>1. CountRecent("login") + Cardinality(PastCheck) <= FailureLimit - 1 + Cardinality(Browsers)
    BY DEF ThrottleInv
  <2> QED
    BY <1>2, <1>3, <2>1, AuthAssumption
<1>5. Cardinality(Recordable) \in Nat /\ Cardinality(Recordable') \in Nat
      /\ Cardinality(Recordable') - Cardinality(Recordable) <= formsSent' - formsSent
  <2>1. Cardinality(Recordable) \in Nat /\ Cardinality(Recordable') \in Nat
    BY <1>1, Counting
  <2>2. \/ Cardinality(Recordable') <= Cardinality(Recordable) /\ formsSent' = formsSent
        \/ Cardinality(Recordable') <= Cardinality(Recordable) + 1 /\ formsSent' = formsSent + 1
    BY <1>1, Counting
  <2>3. formsSent \in Int
    BY DEF AuthShape
  <2> QED
    BY <2>1, <2>2, <2>3
<1>6. ASSUME NEW scope \in Scopes, NEW h \in Hours
      PROVE  authAttempts'[scope][h] + Cardinality(Recordable') <= formsSent'
  <2>1. authAttempts[scope][h] \in Nat /\ authAttempts'[scope][h] \in Nat
        /\ authAttempts'[scope][h] <= authAttempts[scope][h]
    BY DEF ThrottleInv
  <2>2. authAttempts[scope][h] + Cardinality(Recordable) <= formsSent
    BY DEF ThrottleInv
  <2>3. formsSent \in Int /\ formsSent' \in Int
    BY DEF AuthShape
  <2> QED
    BY <1>5, <2>1, <2>2, <2>3
<1> QED
  BY <1>4, <1>6 DEF ThrottleInv

\* One attempt is recorded, that of a form that ends or moves on.
LEMMA OneRecorded ==
  ASSUME ThrottleInv, AuthShape, AuthShape', NEW scope \in Scopes, RecordAttempt(scope), NEW b \in Browsers,
         b \in Recordable, scope = "login" => b \in PastCheck,
         \A c \in Browsers \ {b} : forms'[c] = forms[c], forms'[b].pc \notin {"throttle", "verify", "record", "count"},
         UNCHANGED <<authClock, formsSent, pagesSent>>
  PROVE  ThrottleInv'
<1>1. PastCheck \subseteq Browsers /\ PastCheck' \subseteq PastCheck \ {b}
      /\ Recordable \subseteq Browsers /\ Recordable' \subseteq Recordable \ {b}
  BY DEF PastCheck, Recordable
<1>2. authClock \in Hours /\ authAttempts \in [Scopes -> [Hours -> Nat]]
  BY DEF AuthShape, ThrottleInv
<1>3. /\ authAttempts' \in [Scopes -> [Hours -> Nat]]
      /\ \A s \in Scopes : \A h \in Hours :
           authAttempts'[s][h] = authAttempts[s][h] + (IF s = scope /\ h = authClock THEN 1 ELSE 0)
  <2>1. \A s \in Scopes : authAttempts'[s] = IF s = scope THEN [authAttempts[s] EXCEPT ![authClock] = @ + 1]
                                            ELSE authAttempts[s]
    BY <1>2 DEF RecordAttempt
  <2>2. \A s \in Scopes : authAttempts[s] \in [Hours -> Nat]
    BY <1>2
  <2>3. DOMAIN authAttempts' = Scopes /\ authAttempts' = [s \in Scopes |-> authAttempts'[s]]
    BY <1>2 DEF RecordAttempt
  <2>4. ASSUME NEW s \in Scopes
        PROVE  /\ authAttempts'[s] \in [Hours -> Nat]
               /\ \A h \in Hours : authAttempts'[s][h] = authAttempts[s][h] + (IF s = scope /\ h = authClock THEN 1 ELSE 0)
    <3> DEFINE old == authAttempts[s]
               new == authAttempts'[s]
    <3>1. old \in [Hours -> Nat] /\ new = IF s = scope THEN [old EXCEPT ![authClock] = @ + 1] ELSE old
      BY <2>1, <2>2
    <3> HIDE DEF old, new
    <3>2. new \in [Hours -> Nat] /\ \A h \in Hours : new[h] = old[h] + (IF s = scope /\ h = authClock THEN 1 ELSE 0)
      <4>1. CASE s = scope
        BY <1>2, <3>1, <4>1
      <4>2. CASE s # scope
        BY <3>1, <4>2
      <4> QED
        BY <4>1, <4>2
    <3> QED
      BY <3>2 DEF old, new
  <2> QED
    BY <2>3, <2>4
<1>4. ASSUME NEW s \in Scopes, NEW h \in Hours
      PROVE  authAttempts'[s][h] + Cardinality(Recordable') <= formsSent'
  <2>1. Cardinality(Recordable') <= Cardinality(Recordable) - 1 /\ Cardinality(Recordable) \in Nat
        /\ Cardinality(Recordable') \in Nat
    BY <1>1, Counting
  <2>2. authAttempts[s][h] \in Nat /\ authAttempts'[s][h] \in Nat /\ formsSent \in Int
        /\ authAttempts[s][h] + Cardinality(Recordable) <= formsSent /\ formsSent' = formsSent
    BY <1>3 DEF ThrottleInv, AuthShape
  <2>3. authAttempts'[s][h] = authAttempts[s][h] \/ authAttempts'[s][h] = authAttempts[s][h] + 1
    BY <1>3, <2>2
  <2> QED
    BY <2>1, <2>2, <2>3
<1>5. CountRecent("login")' + Cardinality(PastCheck') <= FailureLimit - 1 + Cardinality(Browsers)
  <2>1. CountRecent("login") + Cardinality(PastCheck) <= FailureLimit - 1 + Cardinality(Browsers)
    BY DEF ThrottleInv
  <2>2. CountRecent("login") \in Nat
    BY CountIs DEF Scopes
  <2>3. Cardinality(PastCheck) \in Nat /\ Cardinality(PastCheck') \in Nat /\ Cardinality(Browsers) \in Nat
        /\ Cardinality(PastCheck') <= Cardinality(PastCheck)
        /\ (b \in PastCheck => Cardinality(PastCheck') <= Cardinality(PastCheck) - 1)
    BY <1>1, Counting
  <2>4. \A h \in Hours : authAttempts["login"][h] \in Nat /\ "login" \in Scopes
    BY <1>2 DEF Scopes
  <2>5. CASE scope = "login"
    <3>1. \A h \in Hours : authAttempts'["login"][h] <= authAttempts["login"][h] + (IF h = authClock THEN 1 ELSE 0)
      BY <1>3, <2>4, <2>5
    <3>2. authClock \in Int /\ authClock' >= authClock
      BY <1>2 DEF Hours
    <3>3. CountRecent("login")' <= CountRecent("login") + (IF authClock \in Hours THEN 1 ELSE 0)
          /\ CountRecent("login")' \in Nat
      BY <1>3, <2>4, <3>1, <3>2, CountFollows DEF Scopes
    <3>4. CountRecent("login")' <= CountRecent("login") + 1
      BY <1>2, <3>3
    <3> QED
      BY <2>1, <2>2, <2>3, <2>5, <3>3, <3>4, AuthAssumption
  <2>6. CASE scope # "login"
    <3>1. \A h \in Hours : authAttempts'["login"][h] <= authAttempts["login"][h] + (IF h = -1 THEN 1 ELSE 0)
      BY <1>3, <2>4, <2>6
    <3>2. -1 \in Int /\ -1 \notin Hours /\ authClock' >= authClock
      BY <1>2 DEF Hours
    <3>3. CountRecent("login")' <= CountRecent("login") + (IF -1 \in Hours THEN 1 ELSE 0)
          /\ CountRecent("login")' \in Nat
      BY <1>3, <2>4, <3>1, <3>2, CountFollows DEF Scopes
    <3>4. CountRecent("login")' <= CountRecent("login")
      BY <2>2, <3>2, <3>3
    <3> QED
      BY <2>1, <2>2, <2>3, <3>3, <3>4, AuthAssumption
  <2> QED
    BY <2>5, <2>6
<1>6. pagesSent' \in 0 .. MaxPages
  BY DEF ThrottleInv
<1> QED
  BY <1>3, <1>4, <1>5, <1>6 DEF ThrottleInv

\* The program counter of the form that moves.
LEMMA MovesTo ==
  ASSUME AuthShape, NEW b \in Browsers, NEW from, At(b, from), from # "none", NEW to, Goto(b, to)
  PROVE  forms'[b].pc = to /\ \A c \in Browsers \ {b} : forms'[c] = forms[c]
<1>1. forms[b] \in FormRecord /\ forms \in [Browsers -> FormRecord \cup {NoForm}]
  BY FormShape DEF AuthShape
<1>2. forms'[b] = [forms[b] EXCEPT !.pc = to] /\ \A c \in Browsers \ {b} : forms'[c] = forms[c]
  BY <1>1 DEF Goto
<1>3. \A f \in FormRecord : [f EXCEPT !.pc = to].pc = to
  BY DEF FormRecord
<1> QED
  BY <1>1, <1>2, <1>3

\* A form that is refused is over, and the others go on as they were.
LEMMA RefusesOne ==
  ASSUME AuthShape, NEW b \in Browsers, Refuse(b)
  PROVE  forms'[b].pc = "none" /\ \A c \in Browsers \ {b} : forms'[c] = forms[c]
BY DEF AuthShape, Refuse, NoForm

\* A step that records nothing and leaves its form behind the check.
LEMMA FormPasses ==
  ASSUME ThrottleInv, AuthShape, AuthShape', NEW b \in Browsers, \A c \in Browsers \ {b} : forms'[c] = forms[c],
         forms'[b].pc \in {"verify", "record"} => b \in PastCheck,
         forms'[b].pc \in {"throttle", "verify", "record", "count"} => b \in Recordable,
         UNCHANGED <<authAttempts, authClock, pagesSent, formsSent>>
  PROVE  ThrottleInv'
<1>1. PastCheck' \subseteq PastCheck /\ Recordable' \subseteq Recordable
  BY DEF PastCheck, Recordable
<1>2. \A scope \in Scopes : \A h \in Hours : authAttempts'[scope][h] <= authAttempts[scope][h]
  BY DEF ThrottleInv
<1>3. authAttempts' \in [Scopes -> [Hours -> Nat]] /\ pagesSent' \in 0 .. MaxPages /\ authClock' >= authClock
  BY DEF ThrottleInv, AuthShape, Hours
<1> QED
  BY <1>1, <1>2, <1>3, NothingRecorded

\* A form submitted was not checked yet.
LEMMA SubmitIsCounted == ASSUME ThrottleInv, AuthShape, AuthShape', NEW b \in Browsers, SubmitForm(b) PROVE ThrottleInv'
<1>1. PICK kind \in Agenda[formsSent + 1], right \in BOOLEAN :
        forms' = [forms EXCEPT ![b] =
          [kind |-> kind, right |-> right, pc |-> IF kind \in {"login", "register"} THEN "throttle" ELSE "logout",
           carried |-> cookies[b], token |-> NewToken, row |-> {}]]
  BY DEF SubmitForm
<1>2. forms'[b].pc \in {"throttle", "logout"} /\ \A c \in Browsers \ {b} : forms'[c] = forms[c]
  BY <1>1 DEF AuthShape
<1>3. PastCheck' \subseteq PastCheck /\ Recordable' \subseteq Recordable \cup {b}
  BY <1>2 DEF PastCheck, Recordable
<1>4. \A scope \in Scopes : \A h \in Hours : authAttempts'[scope][h] <= authAttempts[scope][h]
  BY DEF ThrottleInv, SubmitForm
<1>5. authAttempts' \in [Scopes -> [Hours -> Nat]] /\ pagesSent' \in 0 .. MaxPages /\ authClock' >= authClock
      /\ formsSent' = formsSent + 1
  BY DEF ThrottleInv, AuthShape, Hours, SubmitForm
<1> QED
  BY <1>3, <1>4, <1>5, NothingRecorded

\* The check: a log-in passes below the limit, so there is room for every browser.
LEMMA ThrottleIsChecked == ASSUME ThrottleInv, AuthShape, AuthShape', NEW b \in Browsers, Throttle(b) PROVE ThrottleInv'
<1>1. At(b, "throttle") /\ b \in Recordable /\ UNCHANGED <<authAttempts, authClock, pagesSent, formsSent>>
  BY DEF Throttle, FormFrame, At, Recordable
<1>2. CASE Refuse(b)
  BY <1>1, <1>2, RefusesOne, FormPasses
<1>3. CASE Goto(b, "count")
  BY <1>1, <1>3, MovesTo, FormPasses
<1>4. CASE Goto(b, "verify") /\ forms[b].kind = "login" /\ CheckThrottle(forms[b].kind)
  <2>1. forms'[b].pc = "verify" /\ \A c \in Browsers \ {b} : forms'[c] = forms[c]
    BY <1>1, <1>4, MovesTo
  <2>2. Recordable' \subseteq Recordable /\ PastCheck' \subseteq Browsers /\ Recordable \subseteq Browsers
        /\ Recordable' \subseteq Browsers
    BY <1>1, <2>1 DEF Recordable, PastCheck
  <2>3. CountRecent("login") < FailureLimit /\ CountRecent("login") \in Nat
    BY <1>4, CountIs DEF CheckThrottle, Limit, Scopes
  <2>4. CountRecent("login")' = CountRecent("login")
    BY <1>1 DEF CountRecent
  <2>5. Cardinality(PastCheck') <= Cardinality(Browsers) /\ Cardinality(PastCheck') \in Nat /\ Cardinality(Browsers) \in Nat
        /\ Cardinality(Recordable') <= Cardinality(Recordable) /\ Cardinality(Recordable') \in Nat
        /\ Cardinality(Recordable) \in Nat
    BY <2>2, Counting
  <2>6. CountRecent("login")' + Cardinality(PastCheck') <= FailureLimit - 1 + Cardinality(Browsers)
    BY <2>3, <2>4, <2>5, AuthAssumption
  <2>7. ASSUME NEW scope \in Scopes, NEW h \in Hours
        PROVE  authAttempts'[scope][h] + Cardinality(Recordable') <= formsSent'
    <3>1. authAttempts[scope][h] \in Nat /\ authAttempts[scope][h] + Cardinality(Recordable) <= formsSent /\ formsSent \in Int
      BY DEF ThrottleInv, AuthShape
    <3> QED
      BY <1>1, <2>5, <3>1
  <2> QED
    BY <1>1, <2>6, <2>7 DEF ThrottleInv
<1> QED
  BY <1>2, <1>3, <1>4 DEF Throttle

\* A log-in or registration on its way: checked, failed, counted.
LEMMA AuthenticatingIsCounted ==
  ASSUME ThrottleInv, AuthShape, AuthShape', NEW b \in Browsers,
         Verify(b) \/ RecordFailure(b) \/ ForgiveFailures(b) \/ CountRegistration(b) \/ RegisterUser(b)
  PROVE  ThrottleInv'
<1>1. UNCHANGED <<authClock, pagesSent, formsSent>>
  BY DEF Verify, RecordFailure, ForgiveFailures, CountRegistration, RegisterUser, FormFrame
<1>2. CASE Verify(b)
  <2>1. At(b, "verify") /\ (Goto(b, "clear") \/ Goto(b, "record")) /\ UNCHANGED authAttempts
    BY <1>2 DEF Verify
  <2>2. b \in PastCheck /\ b \in Recordable
    BY <2>1 DEF At, PastCheck, Recordable
  <2> QED
    BY <1>1, <2>1, <2>2, MovesTo, FormPasses
<1>3. CASE RecordFailure(b)
  <2>1. At(b, "record") /\ Refuse(b) /\ RecordAttempt("login")
    BY <1>3 DEF RecordFailure
  <2>2. b \in PastCheck /\ b \in Recordable /\ "login" \in Scopes
    BY <2>1 DEF At, PastCheck, Recordable, Scopes
  <2> QED
    BY <1>1, <2>1, <2>2, RefusesOne, OneRecorded
<1>4. CASE ForgiveFailures(b)
  <2>1. At(b, "clear") /\ Goto(b, "create") /\ ClearLoginFailures
    BY <1>4 DEF ForgiveFailures
  <2>2. forms'[b].pc = "create" /\ \A c \in Browsers \ {b} : forms'[c] = forms[c]
    BY <2>1, MovesTo
  <2>3. PastCheck' \subseteq PastCheck /\ Recordable' \subseteq Recordable
    BY <2>2 DEF PastCheck, Recordable
  <2>4. authAttempts' = [authAttempts EXCEPT !["login"] = [h \in Hours |-> 0]] /\ authAttempts \in [Scopes -> [Hours -> Nat]]
    BY <2>1 DEF ClearLoginFailures, ThrottleInv
  <2>5. \A scope \in Scopes : authAttempts'[scope] = IF scope = "login" THEN [h \in Hours |-> 0] ELSE authAttempts[scope]
    BY <2>4
  <2>6. authAttempts' \in [Scopes -> [Hours -> Nat]]
    BY <2>4
  <2>7. ASSUME NEW scope \in Scopes, NEW h \in Hours PROVE authAttempts'[scope][h] <= authAttempts[scope][h]
    <3>1. authAttempts[scope][h] \in Nat
      BY <2>4
    <3> QED
      BY <2>5, <3>1
  <2>8. pagesSent' \in 0 .. MaxPages /\ authClock' >= authClock
    BY <1>1 DEF ThrottleInv, AuthShape, Hours
  <2> QED
    BY <1>1, <2>3, <2>6, <2>7, <2>8, NothingRecorded
<1>5. CASE CountRegistration(b)
  <2>1. At(b, "count") /\ Goto(b, "insert") /\ RecordAttempt("register")
    BY <1>5 DEF CountRegistration
  <2>2. b \in Recordable /\ "register" \in Scopes /\ "register" # "login"
    BY <2>1 DEF At, Recordable, Scopes
  <2>3. forms'[b].pc = "insert" /\ \A c \in Browsers \ {b} : forms'[c] = forms[c]
    BY <2>1, MovesTo
  <2> QED
    BY <1>1, <2>1, <2>2, <2>3, OneRecorded
<1>6. CASE RegisterUser(b)
  <2>1. At(b, "insert") /\ (Goto(b, "create") \/ Refuse(b)) /\ UNCHANGED authAttempts
    BY <1>6 DEF RegisterUser
  <2> QED
    BY <1>1, <2>1, MovesTo, RefusesOne, FormPasses
<1> QED
  BY <1>2, <1>3, <1>4, <1>5, <1>6

\* Signing out counts no failure.
LEMMA SigningOutIsCounted ==
  ASSUME ThrottleInv, AuthShape, AuthShape', NEW b \in Browsers,
         StartSession(b) \/ BeginLogout(b) \/ ResolveLogout(b) \/ LogoutEverywhere(b) \/ Logout(b) \/ EndForm(b)
  PROVE  ThrottleInv'
<1>1. UNCHANGED <<authAttempts, authClock, pagesSent, formsSent>>
  BY DEF StartSession, BeginLogout, ResolveLogout, LogoutEverywhere, Logout, EndForm, FormFrame
<1>2. CASE StartSession(b) \/ LogoutEverywhere(b) \/ Logout(b)
  <2>1. \/ At(b, "create") /\ Goto(b, "granted")
        \/ At(b, "everywhere") /\ Goto(b, "delete")
        \/ At(b, "delete") /\ Goto(b, "cleared")
    BY <1>2 DEF StartSession, LogoutEverywhere, Logout
  <2> QED
    BY <1>1, <2>1, MovesTo, FormPasses
<1>3. CASE EndForm(b)
  BY <1>1, <1>3, RefusesOne, FormPasses DEF EndForm, Refuse
<1>4. CASE BeginLogout(b) \/ ResolveLogout(b)
  <2>1. \E row, pc : /\ pc \in {"cleared", "resolve", "delete", "everywhere"}
                     /\ \/ forms' = [forms EXCEPT ![b].row = row, ![b].pc = pc]
                        \/ forms' = [forms EXCEPT ![b].pc = pc, ![b].row = row]
    BY <1>4 DEF BeginLogout, ResolveLogout
  <2>2. PICK row, pc : /\ pc \in {"cleared", "resolve", "delete", "everywhere"}
                       /\ \/ forms' = [forms EXCEPT ![b].row = row, ![b].pc = pc]
                          \/ forms' = [forms EXCEPT ![b].pc = pc, ![b].row = row]
    BY <2>1
  <2>3. forms[b] \in FormRecord
    BY <1>4, FormShape DEF BeginLogout, ResolveLogout
  <2>4. /\ \/ forms'[b] = [forms[b] EXCEPT !.row = row, !.pc = pc]
           \/ forms'[b] = [forms[b] EXCEPT !.pc = pc, !.row = row]
        /\ \A c \in Browsers \ {b} : forms'[c] = forms[c]
    BY <2>2 DEF AuthShape
  <2>5. forms'[b].pc = pc
    <3>1. \A f \in FormRecord : [f EXCEPT !.row = row, !.pc = pc].pc = pc /\ [f EXCEPT !.pc = pc, !.row = row].pc = pc
      BY DEF FormRecord
    <3> QED
      BY <2>3, <2>4, <3>1
  <2> QED
    BY <1>1, <2>2, <2>4, <2>5, FormPasses
<1> QED
  BY <1>2, <1>3, <1>4

\* Every step of the authentication keeps the count of failures.
LEMMA ThrottleStep ==
  ASSUME ThrottleInv, AuthShape, AuthShape', [AuthNext]_authVars
  PROVE  ThrottleInv'
<1>1. ASSUME NEW b \in Browsers,
             \/ SubmitForm(b) \/ Throttle(b) \/ Verify(b) \/ RecordFailure(b) \/ ForgiveFailures(b)
             \/ CountRegistration(b) \/ RegisterUser(b) \/ StartSession(b)
             \/ BeginLogout(b) \/ ResolveLogout(b) \/ LogoutEverywhere(b) \/ Logout(b) \/ EndForm(b)
      PROVE  ThrottleInv'
  BY <1>1, SubmitIsCounted, ThrottleIsChecked, AuthenticatingIsCounted, SigningOutIsCounted
<1>2. CASE UNCHANGED <<authAttempts, forms, formsSent>> /\ pagesSent' \in 0 .. MaxPages /\ authClock' >= authClock
  <2>1. PastCheck' \subseteq PastCheck /\ Recordable' \subseteq Recordable
    BY <1>2 DEF PastCheck, Recordable
  <2>2. \A scope \in Scopes : \A h \in Hours : authAttempts'[scope][h] <= authAttempts[scope][h]
    BY <1>2 DEF ThrottleInv
  <2>3. authAttempts' \in [Scopes -> [Hours -> Nat]]
    BY <1>2 DEF ThrottleInv
  <2> QED
    BY <1>2, <2>1, <2>2, <2>3, NothingRecorded
<1>3. ASSUME NEW b \in Browsers, RequestPage(b) \/ ReadSession(b) \/ ResolvePage(b) \/ EndPage(b)
      PROVE  ThrottleInv'
  <2>1. UNCHANGED <<authAttempts, forms, formsSent, authClock>>
    BY <1>3 DEF RequestPage, ReadSession, ResolvePage, EndPage, PageFrame
  <2>2. authClock' >= authClock
    BY <2>1 DEF AuthShape, Hours
  <2>3. pagesSent \in 0 .. MaxPages /\ MaxPages \in Nat
    BY AuthAssumption DEF ThrottleInv
  <2>4. pagesSent' = pagesSent \/ (pagesSent < MaxPages /\ pagesSent' = pagesSent + 1)
    BY <1>3 DEF RequestPage, ReadSession, ResolvePage, EndPage
  <2> QED
    BY <1>2, <2>1, <2>2, <2>3, <2>4
<1>4. CASE AuthTick
  <2>1. authClock' >= authClock /\ UNCHANGED <<authAttempts, forms, formsSent, pagesSent>>
    BY <1>4 DEF AuthTick, AuthShape, Hours
  <2> QED
    BY <1>2, <2>1 DEF ThrottleInv
<1>5. CASE UNCHANGED authVars
  <2>1. authClock' >= authClock /\ UNCHANGED <<authAttempts, forms, formsSent, pagesSent>>
    BY <1>5 DEF authVars, AuthShape, Hours
  <2> QED
    BY <1>2, <2>1 DEF ThrottleInv
<1> QED
  BY <1>1, <1>3, <1>4, <1>5 DEF AuthNext

\* At the start there are no failures.
LEMMA ThrottleStarts == ASSUME AuthInit PROVE ThrottleInv
<1>1. authAttempts = [scope \in Scopes |-> [h \in Hours |-> 0]] /\ LastHour \in Nat /\ authClock = 0
  BY AuthAssumption DEF AuthInit, Scopes
<1>2. Recordable = {} /\ PastCheck = {}
  BY DEF AuthInit, NoForm, Recordable, PastCheck
<1>3. Cardinality({}) = 0 /\ Cardinality(Browsers) \in Nat
  BY AuthAssumption, FS_EmptySet, FS_CardinalityType
<1>4. CountRecent("login") = 0
  <2>1. "login" \in Scopes
    BY DEF Scopes
  <2>2. \A h \in Hours : (IF h > authClock - ThrottleWindow THEN authAttempts["login"][h] ELSE 0) = 0
    BY <1>1, <2>1
  <2>3. [h \in Hours |-> IF h > authClock - ThrottleWindow THEN authAttempts["login"][h] ELSE 0] = [i \in 0 .. LastHour |-> 0]
    BY <2>2 DEF Hours
  <2> QED
    BY <1>1, <2>3, SumOfNothing DEF CountRecent
<1>5. pagesSent = 0 /\ formsSent = 0
  BY DEF AuthInit
<1>6. CountRecent("login") + Cardinality(PastCheck) <= FailureLimit - 1 + Cardinality(Browsers)
  BY <1>2, <1>3, <1>4, AuthAssumption
<1>7. \A scope \in Scopes : \A h \in Hours : authAttempts[scope][h] + Cardinality(Recordable) <= formsSent
  BY <1>1, <1>2, <1>3, <1>5
<1>8. authAttempts \in [Scopes -> [Hours -> Nat]] /\ pagesSent \in 0 .. MaxPages
  BY <1>1, <1>5, AuthAssumption
<1> QED
  BY <1>6, <1>7, <1>8 DEF ThrottleInv

\* However log-ins of several browsers interleave (checkAuthThrottle, authenticateUser,
\* recordAuthAttempt, clearLoginFailures), the failures that count within one window stay below the
\* limit and one for every further browser, for any browsers, window, limit and clock.
THEOREM FailuresAreFew == AuthSpec => []FewFailures
<1>1. AuthInit => SessionInv /\ ThrottleInv
  BY AuthInitially, ThrottleStarts
<1>2. SessionInv /\ ThrottleInv /\ [AuthNext]_authVars => SessionInv' /\ ThrottleInv'
  BY AuthStep, ThrottleStep DEF SessionInv
<1>3. SessionInv /\ ThrottleInv => FewFailures
  <2> SUFFICES ASSUME SessionInv, ThrottleInv PROVE FewFailures
    OBVIOUS
  <2>1. CountRecent("login") \in Nat
    BY CountIs DEF SessionInv, Scopes
  <2>2. Cardinality(PastCheck) \in Nat /\ Cardinality(Browsers) \in Nat
    BY Counting DEF PastCheck
  <2>3. CountRecent("login") + Cardinality(PastCheck) <= FailureLimit - 1 + Cardinality(Browsers)
    BY DEF ThrottleInv
  <2> QED
    BY <2>1, <2>2, <2>3, AuthAssumption DEF FewFailures
<1> QED
  BY <1>1, <1>2, <1>3, PTL DEF AuthSpec

\* Rows, cookies, counters and histories keep their types.
LEMMA AuthTyped == SessionInv /\ ThrottleInv => AuthTypeOK
<1> SUFFICES ASSUME SessionInv, ThrottleInv PROVE AuthTypeOK
  OBVIOUS
<1>1. \A s \in sessions : s.token \in 1 .. MaxForms /\ s.expires \in 0 .. LastHour + SessionLifetime
  BY DEF SessionInv, AuthShape, SessionRow
<1>2. ASSUME NEW scope \in Scopes, NEW h \in Hours PROVE authAttempts[scope][h] \in 0 .. MaxForms
  <2>1. authAttempts[scope][h] \in Nat /\ authAttempts[scope][h] + Cardinality(Recordable) <= formsSent
    BY DEF ThrottleInv
  <2>2. Cardinality(Recordable) \in Nat
    BY Counting DEF Recordable
  <2>3. formsSent \in 0 .. MaxForms /\ MaxForms \in Nat
    BY FormsCounted DEF SessionInv, AuthShape
  <2> QED
    BY <2>1, <2>2, <2>3
<1>3. \A b \in Browsers : cookies[b] \in 0 .. MaxForms
  BY DEF SessionInv, AuthShape
<1> QED
  BY <1>1, <1>2, <1>3 DEF SessionInv, AuthShape, ThrottleInv, AuthTypeOK, Scopes

\* Log-in keeps its types: sessions, forms, attempts and cookies of any browsers.
THEOREM AuthTypes == AuthSpec => []AuthTypeOK
<1>1. AuthInit => SessionInv /\ ThrottleInv
  BY AuthInitially, ThrottleStarts
<1>2. SessionInv /\ ThrottleInv /\ [AuthNext]_authVars => SessionInv' /\ ThrottleInv'
  BY AuthStep, ThrottleStep DEF SessionInv
<1> QED
  BY <1>1, <1>2, AuthTyped, PTL DEF AuthSpec

-----------------------------------------------------------------------------
(* The watch button *)

ClickRecord == [watch : BOOLEAN, served : BOOLEAN]
ButtonRecord == [shown : BOOLEAN, listed : BOOLEAN, saving : BOOLEAN, failed : BOOLEAN,
                 requests : SUBSET ClickRecord, lost : SUBSET BOOLEAN, alone : BOOLEAN]

\* The button shows what the request under way asks for, and once served so does the list.
ClickUnderWay(r) ==
  /\ watched.requests = {r} /\ watched.shown = r.watch
  /\ r.served /\ watched.alone => watchRow = r.watch

WatchInv ==
  /\ watchRow \in BOOLEAN /\ watched \in ButtonRecord
  /\ watched.saving => \E r \in ClickRecord : ClickUnderWay(r)
  /\ ~watched.saving => watched.requests = {}
  /\ ToggleSettles

\* What WatchInv says of the fields of the button.
LEMMA ButtonFields ==
  ASSUME WatchInv
  PROVE  /\ watchRow \in BOOLEAN /\ watched.shown \in BOOLEAN /\ watched.listed \in BOOLEAN
         /\ watched.saving \in BOOLEAN /\ watched.failed \in BOOLEAN /\ watched.alone \in BOOLEAN
         /\ watched.requests \subseteq ClickRecord /\ watched.lost \subseteq BOOLEAN
BY DEF WatchInv, ButtonRecord

\* The button is idle and shows no failure, or has one request under way.
LEMMA WatchStarts == ASSUME WatchInit PROVE WatchInv
BY DEF WatchInit, WatchInv, ButtonRecord, ToggleSettles

\* A click shows its wish and sends it.
LEMMA ClickKeeps == ASSUME WatchInv, ClickWatch PROVE WatchInv'
<1> DEFINE r == [watch |-> ~watched.shown, served |-> FALSE]
           b == [watched EXCEPT !.saving = TRUE, !.failed = FALSE, !.shown = ~@, !.listed = OnToggle(~watched.shown),
                   !.requests = @ \cup {r}]
<1>1. watched' = b /\ watchRow' = watchRow /\ ~watched.saving
  BY DEF ClickWatch, Clickable
<1>2. watched.requests = {} /\ watched \in ButtonRecord /\ watched.shown \in BOOLEAN /\ watched.listed \in BOOLEAN
  BY <1>1, ButtonFields DEF WatchInv
<1>3. r \in ClickRecord /\ r.watch = ~watched.shown /\ ~r.served
  BY <1>2 DEF ClickRecord
<1> HIDE DEF r
<1>4. OnToggle(~watched.shown) \in BOOLEAN
  BY <1>2 DEF OnToggle
<1>5. b \in ButtonRecord /\ b.requests = {r} /\ b.shown = ~watched.shown /\ b.saving
  BY <1>2, <1>3, <1>4 DEF ButtonRecord
<1> HIDE DEF b
<1>6. (\E q \in ClickRecord : ClickUnderWay(q))'
  BY <1>1, <1>3, <1>5 DEF ClickUnderWay
<1>7. watched'.requests # {}
  BY <1>1, <1>5
<1> QED
  BY <1>1, <1>5, <1>6, <1>7, ButtonFields DEF WatchInv, ToggleSettles

\* The server does what was asked.
LEMMA ServeWatchKeeps == ASSUME WatchInv, ServeWatch PROVE WatchInv'
<1>1. PICK r \in watched.requests :
        /\ ~r.served
        /\ IF r.watch THEN AddWatch ELSE RemoveWatch
        /\ watched' = [watched EXCEPT !.requests = (@ \ {r}) \cup {[r EXCEPT !.served = TRUE]}, !.alone = TRUE]
  BY DEF ServeWatch
<1>2. watched.saving /\ ClickUnderWay(r) /\ r \in ClickRecord
  BY <1>1 DEF WatchInv, ClickUnderWay
<1> DEFINE q == [r EXCEPT !.served = TRUE]
           b == [watched EXCEPT !.requests = {q}, !.alone = TRUE]
<1>3. q \in ClickRecord /\ q.watch = r.watch
  BY <1>2 DEF ClickRecord
<1>4. watched' = b
  BY <1>1, <1>2 DEF ClickUnderWay
<1> HIDE DEF q
<1>5. /\ b \in ButtonRecord /\ b.requests = {q} /\ b.shown = watched.shown /\ b.saving = watched.saving
      /\ b.failed = watched.failed
  BY <1>3, ButtonFields DEF ButtonRecord, WatchInv
<1>6. watchRow' = r.watch
  BY <1>1, <1>2 DEF AddWatch, RemoveWatch, ClickRecord
<1> HIDE DEF b
<1>7. (\E c \in ClickRecord : ClickUnderWay(c))'
  BY <1>2, <1>3, <1>4, <1>5, <1>6 DEF ClickUnderWay
<1>8. watchRow' \in BOOLEAN
  BY <1>2, <1>6 DEF ClickRecord
<1>9. watched'.requests # {}
  BY <1>4, <1>5
<1> QED
  BY <1>2, <1>4, <1>5, <1>7, <1>8, <1>9 DEF WatchInv, ToggleSettles

\* An answer ends the request; without one the button goes back and says so.
LEMMA EndWatchKeeps == ASSUME WatchInv, EndWatch PROVE WatchInv'
<1> DEFINE over(r) == [watched EXCEPT !.saving = FALSE, !.requests = @ \ {r}]
           undone(r) == [over(r) EXCEPT !.shown = ~r.watch, !.failed = TRUE,
                                        !.lost = IF r.served THEN @ ELSE @ \cup {r.watch}]
<1>1. PICK r \in watched.requests :
        /\ \/ r.served /\ watched' = over(r)
           \/ watched' = undone(r)
        /\ UNCHANGED watchRow
  BY DEF EndWatch
<1>2. watched.saving /\ ClickUnderWay(r) /\ r \in ClickRecord
  BY <1>1 DEF WatchInv, ClickUnderWay
<1>3. /\ over(r) \in ButtonRecord /\ over(r).requests = {} /\ over(r).shown = watched.shown /\ ~over(r).saving
      /\ over(r).alone = watched.alone
  BY <1>2, ButtonFields DEF ButtonRecord, WatchInv, ClickUnderWay
<1>4. undone(r) \in ButtonRecord /\ undone(r).requests = {} /\ undone(r).failed /\ ~undone(r).saving
  <2>1. r.watch \in BOOLEAN
    BY <1>2 DEF ClickRecord
  <2>2. over(r).lost = watched.lost /\ watched.lost \subseteq BOOLEAN
    BY ButtonFields DEF WatchInv, ButtonRecord
  <2> HIDE DEF over
  <2> DEFINE gone == IF r.served THEN over(r).lost ELSE over(r).lost \cup {r.watch}
  <2>3. gone \in SUBSET BOOLEAN
    BY <2>1, <2>2
  <2>4. undone(r) = [over(r) EXCEPT !.shown = ~r.watch, !.failed = TRUE, !.lost = gone]
    OBVIOUS
  <2> HIDE DEF gone, undone
  <2> QED
    BY <1>3, <2>1, <2>3, <2>4 DEF ButtonRecord
<1> HIDE DEF over, undone
<1>5. ToggleSettles'
  BY <1>1, <1>2, <1>3, <1>4 DEF ToggleSettles, ClickUnderWay
<1>6. watchRow' \in BOOLEAN
  BY <1>1, ButtonFields
<1> QED
  BY <1>1, <1>3, <1>4, <1>5, <1>6 DEF WatchInv

\* Another tab takes away the promise about the list, not that about the button.
LEMMA OtherTabKeeps == ASSUME WatchInv, OtherTab PROVE WatchInv'
<1> DEFINE b == [watched EXCEPT !.alone = FALSE]
<1>1. watched' = b /\ watchRow' \in BOOLEAN
  BY DEF OtherTab, AddWatch, RemoveWatch
<1>2. /\ b \in ButtonRecord /\ ~b.alone /\ b.requests = watched.requests /\ b.saving = watched.saving
      /\ b.shown = watched.shown
  BY DEF WatchInv, ButtonRecord
<1> HIDE DEF b
<1>3. watched.saving => (\E c \in ClickRecord : ClickUnderWay(c))'
  BY <1>1, <1>2 DEF WatchInv, ClickUnderWay
<1> QED
  BY <1>1, <1>2, <1>3 DEF WatchInv, ToggleSettles

\* So does a click that was given up and is served after all.
LEMMA ServeLostKeeps == ASSUME WatchInv, ServeLostWatch PROVE WatchInv'
<1>1. PICK left \in SUBSET watched.lost :
        (AddWatch \/ RemoveWatch) /\ watched' = [watched EXCEPT !.lost = left, !.alone = FALSE]
  BY DEF ServeLostWatch
<1> DEFINE b == [watched EXCEPT !.lost = left, !.alone = FALSE]
<1>2. watched' = b /\ watchRow' \in BOOLEAN /\ left \in SUBSET BOOLEAN
  BY <1>1, ButtonFields DEF AddWatch, RemoveWatch
<1>3. /\ b \in ButtonRecord /\ ~b.alone /\ b.requests = watched.requests /\ b.saving = watched.saving
      /\ b.shown = watched.shown
  BY <1>2 DEF WatchInv, ButtonRecord
<1> HIDE DEF b
<1>4. watched.saving => (\E c \in ClickRecord : ClickUnderWay(c))'
  BY <1>2, <1>3 DEF WatchInv, ClickUnderWay
<1> QED
  BY <1>2, <1>3, <1>4 DEF WatchInv, ToggleSettles

\* Every step of the workspace keeps what is known of the button.
LEMMA WatchHolds == ASSUME WatchInv, [WorkspaceNext]_workspaceVars PROVE WatchInv'
<1>1. CASE WatchNext
  BY <1>1, ClickKeeps, ServeWatchKeeps, EndWatchKeeps, ServeLostKeeps, OtherTabKeeps DEF WatchNext
<1>2. CASE UNCHANGED watchVars
  BY <1>2 DEF watchVars, WatchInv, ToggleSettles, ClickUnderWay
<1> QED
  BY <1>1, <1>2 DEF WorkspaceNext, workspaceVars

\* When nothing is under way and nothing else has written since its own last request was served,
\* the watch button says what the watchlist holds.
THEOREM ButtonSettles == WorkspaceSpec => []ToggleSettles
<1>1. WorkspaceInit => WatchInv
  BY WatchStarts DEF WorkspaceInit
<1>2. WatchInv /\ [WorkspaceNext]_workspaceVars => WatchInv'
  BY WatchHolds
<1>3. WatchInv => ToggleSettles
  BY DEF WatchInv
<1> QED
  BY <1>1, <1>2, <1>3, PTL DEF WorkspaceSpec

-----------------------------------------------------------------------------
(* Saved searches *)

SavedRow == [id : Nat, name : SearchNames, filters : SearchFilters]
SaveRequest == [kind : {"save"}, name : SearchNames, filters : SearchFilters, served : BOOLEAN]
RemoveRequest == [kind : {"remove"}, id : Nat, served : BOOLEAN]
PanelRecord == [items : SUBSET SavedRow, saving : SaveRequest \cup {NoRequest},
                removing : RemoveRequest \cup {NoRequest}, lost : SUBSET (SaveRequest \cup RemoveRequest),
                message : {"none", "saved", "error"}]

\* Ids are those AUTOINCREMENT has given out.
SearchInv ==
  /\ savedSoFar \in 0 .. SaveBound /\ searches \in PanelRecord
  /\ savedRows \subseteq SavedRow /\ \A r \in savedRows : r.id \in 1 .. savedSoFar

\* The panel opens with nothing saved.
LEMMA SearchStarts == ASSUME SearchInit PROVE SearchInv
BY WorkspaceAssumption DEF SearchInit, SearchInv, PanelRecord, NoRequest

\* A request under way has its own kind of record.
LEMMA Requested ==
  ASSUME SearchInv
  PROVE  /\ searches.saving # NoRequest => searches.saving \in SaveRequest
         /\ searches.removing # NoRequest => searches.removing \in RemoveRequest
         /\ searches.items \subseteq SavedRow /\ searches.message \in {"none", "saved", "error"}
         /\ searches.saving \in SaveRequest \cup {NoRequest} /\ searches.removing \in RemoveRequest \cup {NoRequest}
         /\ searches.lost \subseteq SaveRequest \cup RemoveRequest
BY DEF SearchInv, PanelRecord

\* A step of the panel that keeps the table.
LEMMA PanelMoves ==
  ASSUME SearchInv, UNCHANGED <<savedRows, savedSoFar>>, NEW p \in PanelRecord, searches' = p
  PROVE  SearchInv'
BY DEF SearchInv

\* A name and filters are sent.
LEMMA SubmitSearchKeeps == ASSUME SearchInv, SubmitSearch PROVE SearchInv'
<1>1. PICK n \in SearchNames, f \in SearchFilters :
        searches' = [searches EXCEPT !.saving = [kind |-> "save", name |-> n, filters |-> f, served |-> FALSE],
                                     !.message = "none"]
  BY DEF SubmitSearch
<1> DEFINE r == [kind |-> "save", name |-> n, filters |-> f, served |-> FALSE]
           p == [searches EXCEPT !.saving = r, !.message = "none"]
<1>2. r \in SaveRequest
  BY DEF SaveRequest
<1>3. searches' = p
  BY <1>1
<1> HIDE DEF r
<1>4. p \in PanelRecord
  BY <1>2 DEF SearchInv, PanelRecord
<1> HIDE DEF p
<1> QED
  BY <1>3, <1>4, PanelMoves DEF SubmitSearch

\* An answer, or none, ends the save.
LEMMA EndSaveKeeps == ASSUME SearchInv, EndSave PROVE SearchInv'
<1> DEFINE left == searches.lost \cup GivenUp(searches.saving)
<1>1. PICK m \in {"saved", "error"} : searches' = [searches EXCEPT !.saving = NoRequest, !.message = m, !.lost = left]
  BY DEF EndSave
<1> DEFINE p == [searches EXCEPT !.saving = NoRequest, !.message = m, !.lost = left]
<1>2. left \subseteq SaveRequest \cup RemoveRequest
  BY Requested DEF EndSave, GivenUp
<1> HIDE DEF left
<1>3. p \in PanelRecord
  BY <1>2 DEF SearchInv, PanelRecord
<1> HIDE DEF p
<1> QED
  BY <1>1, <1>3, PanelMoves DEF EndSave, p

\* The panel lists what is saved.
LEMMA OpenPanelKeeps == ASSUME SearchInv, OpenPanel PROVE SearchInv'
<1> DEFINE p == [searches EXCEPT !.items = savedRows, !.message = "none"]
<1>1. p \in PanelRecord
  BY DEF SearchInv, PanelRecord
<1>2. searches' = p
  BY DEF OpenPanel
<1> HIDE DEF p
<1> QED
  BY <1>1, <1>2, PanelMoves DEF OpenPanel, SearchInv

\* One of the listed rows is to go.
LEMMA RemoveKeeps == ASSUME SearchInv, RemoveSearch PROVE SearchInv'
<1>1. PICK i \in searches.items :
        searches' = [searches EXCEPT !.removing = [kind |-> "remove", id |-> i.id, served |-> FALSE]]
  BY DEF RemoveSearch
<1> DEFINE r == [kind |-> "remove", id |-> i.id, served |-> FALSE]
           p == [searches EXCEPT !.removing = r]
<1>2. r \in RemoveRequest
  BY Requested DEF RemoveRequest, SavedRow
<1>3. searches' = p
  BY <1>1
<1> HIDE DEF r
<1>4. p \in PanelRecord
  BY <1>2 DEF SearchInv, PanelRecord
<1> HIDE DEF p
<1> QED
  BY <1>3, <1>4, PanelMoves DEF RemoveSearch, SearchInv

\* The panel drops the row it was told is gone.
LEMMA EndRemoveKeeps == ASSUME SearchInv, EndRemove PROVE SearchInv'
<1> DEFINE kept == {i \in searches.items : i.id # searches.removing.id}
           left == searches.lost \cup GivenUp(searches.removing)
           p == [searches EXCEPT !.removing = NoRequest, !.items = kept]
           q == [searches EXCEPT !.removing = NoRequest, !.message = "error", !.lost = left]
<1>1. searches' = p \/ searches' = q
  BY DEF EndRemove
<1>2. kept \subseteq SavedRow /\ left \subseteq SaveRequest \cup RemoveRequest
  BY Requested DEF EndRemove, GivenUp
<1> HIDE DEF kept, left
<1>3. p \in PanelRecord /\ q \in PanelRecord
  BY <1>2 DEF SearchInv, PanelRecord
<1> HIDE DEF p, q
<1> QED
  BY <1>1, <1>3, PanelMoves DEF EndRemove

\* A row that is created has the next id, a row that is renamed keeps its own.
LEMMA SavedOnce ==
  ASSUME SearchInv, savedSoFar < SaveBound, NEW n \in SearchNames, NEW f \in SearchFilters,
         CreateSavedSearch(n, f), savedSoFar' = savedSoFar + 1
  PROVE  /\ savedSoFar' \in 0 .. SaveBound /\ savedRows' \subseteq SavedRow
         /\ \A r \in savedRows' : r.id \in 1 .. savedSoFar'
<1> DEFINE row == [id |-> savedSoFar + 1, name |-> n, filters |-> f]
           same == {r \in savedRows : r.filters = f}
           renamed(r) == IF r \in same THEN [r EXCEPT !.name = n] ELSE r
<1>1. savedSoFar \in Nat /\ savedSoFar' \in 0 .. SaveBound
  BY WorkspaceAssumption DEF SearchInv
<1>2. row \in SavedRow /\ row.id \in 1 .. savedSoFar'
  BY <1>1 DEF SavedRow
<1>3. savedRows' = savedRows \cup {row} \/ savedRows' = {renamed(r) : r \in savedRows}
  BY DEF CreateSavedSearch
<1>4. \A r \in savedRows : /\ r \in SavedRow /\ r.id \in 1 .. savedSoFar'
                           /\ renamed(r) \in SavedRow /\ renamed(r).id \in 1 .. savedSoFar'
  <2> SUFFICES ASSUME NEW r \in savedRows
               PROVE  /\ r \in SavedRow /\ r.id \in 1 .. savedSoFar'
                      /\ renamed(r) \in SavedRow /\ renamed(r).id \in 1 .. savedSoFar'
    OBVIOUS
  <2>1. r \in SavedRow /\ r.id \in 1 .. savedSoFar'
    BY <1>1 DEF SearchInv
  <2> HIDE DEF same
  <2>2. renamed(r) \in SavedRow /\ renamed(r).id = r.id
    BY <2>1 DEF SavedRow
  <2> HIDE DEF renamed
  <2> QED
    BY <2>1, <2>2
<1> HIDE DEF row, renamed
<1> QED
  BY <1>1, <1>2, <1>3, <1>4

\* A save is served.
LEMMA ServeSaveKeeps == ASSUME SearchInv, ServeSave PROVE SearchInv'
<1> DEFINE s == [searches.saving EXCEPT !.served = TRUE]
           p == [searches EXCEPT !.saving = s]
<1>1. searches.saving \in SaveRequest
  BY Requested DEF ServeSave
<1>2. s \in SaveRequest
  BY <1>1 DEF SaveRequest
<1>3. searches' = p
  BY DEF ServeSave
<1> HIDE DEF s
<1>4. p \in PanelRecord
  BY <1>2 DEF SearchInv, PanelRecord
<1> HIDE DEF p
<1>5. searches.saving.name \in SearchNames /\ searches.saving.filters \in SearchFilters
  BY <1>1 DEF SaveRequest
<1>6. /\ savedSoFar' \in 0 .. SaveBound /\ savedRows' \subseteq SavedRow
      /\ \A r \in savedRows' : r.id \in 1 .. savedSoFar'
  BY <1>5, SavedOnce DEF ServeSave
<1> QED
  BY <1>3, <1>4, <1>6 DEF SearchInv

\* Rows that are left keep their ids.
LEMMA ServeRemoveKeeps == ASSUME SearchInv, ServeRemove PROVE SearchInv'
<1> DEFINE s == [searches.removing EXCEPT !.served = TRUE]
           p == [searches EXCEPT !.removing = s]
<1>1. searches.removing \in RemoveRequest
  BY Requested DEF ServeRemove
<1>2. s \in RemoveRequest
  BY <1>1 DEF RemoveRequest
<1>3. searches' = p
  BY DEF ServeRemove
<1> HIDE DEF s
<1>4. p \in PanelRecord
  BY <1>2 DEF SearchInv, PanelRecord
<1> HIDE DEF p
<1>5. savedRows' \subseteq savedRows /\ savedSoFar' = savedSoFar
  BY DEF ServeRemove, DeleteSavedSearch
<1> QED
  BY <1>3, <1>4, <1>5 DEF SearchInv

\* A request that was given up is served: it saves or removes like any other.
LEMMA ServeLostSearchKeeps == ASSUME SearchInv, ServeLostSearch PROVE SearchInv'
<1>1. PICK r \in searches.lost :
        /\ searches' = [searches EXCEPT !.lost = @ \ {r}]
        /\ \/ /\ r.kind = "save" /\ savedSoFar < SaveBound
              /\ CreateSavedSearch(r.name, r.filters) /\ savedSoFar' = savedSoFar + 1
           \/ /\ r.kind = "remove"
              /\ DeleteSavedSearch(r.id) /\ UNCHANGED savedSoFar
  BY DEF ServeLostSearch
<1> DEFINE p == [searches EXCEPT !.lost = @ \ {r}]
<1>2. p \in PanelRecord /\ searches' = p
  BY <1>1 DEF SearchInv, PanelRecord
<1> HIDE DEF p
<1>3. r \in SaveRequest \/ r \in RemoveRequest
  BY Requested
<1>4. CASE savedSoFar < SaveBound /\ r.kind = "save" /\ CreateSavedSearch(r.name, r.filters) /\ savedSoFar' = savedSoFar + 1
  <2>1. r.name \in SearchNames /\ r.filters \in SearchFilters
    BY <1>3, <1>4 DEF SaveRequest, RemoveRequest
  <2>2. /\ savedSoFar' \in 0 .. SaveBound /\ savedRows' \subseteq SavedRow
        /\ \A row \in savedRows' : row.id \in 1 .. savedSoFar'
    BY <1>4, <2>1, SavedOnce
  <2> QED
    BY <1>2, <2>2 DEF SearchInv
<1>5. CASE DeleteSavedSearch(r.id) /\ UNCHANGED savedSoFar
  BY <1>2, <1>5 DEF SearchInv, DeleteSavedSearch
<1> QED
  BY <1>1, <1>4, <1>5

\* Every step of the workspace keeps what is known of the saved searches.
LEMMA SearchesHold == ASSUME SearchInv, [WorkspaceNext]_workspaceVars PROVE SearchInv'
<1>1. CASE SearchNext
  BY <1>1, SubmitSearchKeeps, ServeSaveKeeps, EndSaveKeeps, ServeLostSearchKeeps, OpenPanelKeeps, RemoveKeeps,
     ServeRemoveKeeps, EndRemoveKeeps DEF SearchNext
<1>2. CASE UNCHANGED searchVars
  BY <1>2 DEF searchVars, SearchInv
<1> QED
  BY <1>1, <1>2 DEF WorkspaceNext, workspaceVars

-----------------------------------------------------------------------------
(* The review desk *)

Reasons == {ReasonOf[q] : q \in QueueIds}
Listing == [id : QueueIds, reason : Reasons, status : DeskStatuses]
Counts == [DeskStatuses -> {Cardinality(c) : c \in SUBSET QueueIds}]
StatusFilters == DeskStatuses \cup {All}
ReasonFilters == Reasons \cup {All}
DeskRecord == [items : SUBSET Listing, summary : Counts, status : StatusFilters, reason : ReasonFilters,
               loading : BOOLEAN, error : BOOLEAN, outdated : BOOLEAN, unsure : BOOLEAN, cut : BOOLEAN]
LoadRequest == [kind : {"load"}, status : StatusFilters, reason : ReasonFilters, at : {"sent", "read", "served"},
                items : SUBSET Listing, summary : Counts, cut : BOOLEAN, late : BOOLEAN]
DecideRequest == [kind : {"decide"}, id : QueueIds, decision : DeskStatuses, at : {"sent", "written", "read", "served"},
                  item : Listing, summary : Counts]
LostDecision == [id : QueueIds, decision : DeskStatuses]

DeskShape ==
  /\ queueRows \in [QueueIds -> [status : DeskStatuses, active : BOOLEAN]]
  /\ desk \in DeskRecord /\ deskRequest \in LoadRequest \cup DecideRequest \cup {NoRequest}
  /\ deskLost \subseteq LostDecision
  /\ deskSent \in 0 .. DeskBound /\ deskOthers \in 0 .. OthersBound

Loading == deskRequest \in LoadRequest
Deciding == deskRequest \in DecideRequest
Alone == deskOthers = 0

Wanted == Matching(desk.status, desk.reason)
AllBut(items, id) == {i \in items : i.id # id}
Distinct(items) == \A i, j \in items : i.id = j.id => i = j
Fitting(items) == \A i \in items : Matches(i, desk.status, desk.reason)

\* What is listed is part of what is wanted, and all of it unless the list was cut.
Reflects(listed, wanted, cut) == listed \subseteq wanted /\ (~cut => listed = wanted)

\* The answer under way is to the filters of the toolbar, and to nobody else's writes.
LoadAccounted ==
  Loading =>
    /\ desk.loading /\ ~desk.error /\ deskRequest.status = desk.status /\ deskRequest.reason = desk.reason
    /\ deskRequest.at # "sent" => Distinct(deskRequest.items) /\ Fitting(deskRequest.items)
    /\ Alone /\ ~deskRequest.late /\ deskRequest.at # "sent" => Reflects(deskRequest.items, Wanted, deskRequest.cut)
    /\ Alone /\ ~deskRequest.late /\ deskRequest.at = "served" => deskRequest.summary = ReviewSummary

\* While one row is being decided the others are as the page shows them.
DecisionAccounted ==
  Deciding =>
    /\ deskRequest.item.id = deskRequest.id
    /\ Alone /\ ~desk.unsure /\ deskRequest.at \in {"read", "served"} => deskRequest.item = DeskItem(deskRequest.id)
    /\ Alone /\ ~desk.unsure /\ deskRequest.at = "served" => deskRequest.summary = ReviewSummary
    /\ Alone /\ ~desk.unsure /\ ~desk.outdated =>
         /\ queueRows[deskRequest.id].active
         /\ \E i \in desk.items : i.id = deskRequest.id
         /\ Reflects(AllBut(desk.items, deskRequest.id), AllBut(Wanted, deskRequest.id), desk.cut)

\* DeskShowsLatest is the conjunction of these two.
ListFits == ~desk.loading /\ ~desk.outdated => Distinct(desk.items) /\ Fitting(desk.items)
ListLatest ==
  Alone /\ deskRequest = NoRequest /\ ~desk.unsure /\ ~desk.outdated =>
    Reflects(desk.items, Wanted, desk.cut) /\ desk.summary = ReviewSummary

DeskInv ==
  /\ DeskShape /\ (desk.loading <=> Loading)
  /\ LoadAccounted /\ DecisionAccounted /\ ListFits /\ ListLatest

-----------------------------------------------------------------------------
(* What is on the page and in the queue *)

\* The rows of the desk.
LEMMA DeskFields ==
  ASSUME DeskShape
  PROVE  /\ desk.items \subseteq Listing /\ desk.summary \in Counts
         /\ desk.status \in StatusFilters /\ desk.reason \in ReasonFilters
         /\ desk.loading \in BOOLEAN /\ desk.error \in BOOLEAN /\ desk.outdated \in BOOLEAN /\ desk.unsure \in BOOLEAN
         /\ desk.cut \in BOOLEAN
BY DEF DeskShape, DeskRecord

\* A request is of one kind.
LEMMA Kinds ==
  /\ \A r \in LoadRequest : r.kind = "load" /\ r # NoRequest /\ r \notin DecideRequest
  /\ \A r \in DecideRequest : r.kind = "decide" /\ r # NoRequest /\ r \notin LoadRequest
  /\ NoRequest.kind = "none" /\ NoRequest \notin LoadRequest /\ NoRequest \notin DecideRequest
BY DEF LoadRequest, DecideRequest, NoRequest

\* Which request is under way, by what the actions test.
LEMMA UnderWay ==
  ASSUME DeskShape
  PROVE  /\ deskRequest # NoRequest => Loading \/ Deciding
         /\ deskRequest.kind = "load" => Loading
         /\ deskRequest.kind = "decide" => Deciding
         /\ Deciding <=> DeskBusy
         /\ ~(Loading /\ Deciding)
BY Kinds DEF DeskShape, Loading, Deciding, DeskBusy

\* What matches has each row once, and the list of the server is part of it.
LEMMA ListOfServer ==
  ASSUME DeskShape, NEW s, NEW r
  PROVE  /\ Matching(s, r) \subseteq Listing /\ ReviewQueue(s, r) \subseteq Matching(s, r)
         /\ Distinct(ReviewQueue(s, r))
         /\ \A i \in ReviewQueue(s, r) : Matches(i, s, r)
<1>1. \A q \in QueueIds : DeskItem(q) \in Listing /\ DeskItem(q).id = q
  BY DEF DeskShape, DeskItem, Listing, Reasons
<1>2. \A i \in Matching(s, r) : Matches(i, s, r) /\ \E q \in QueueIds : i = DeskItem(q)
  BY DEF Matching
<1>3. ReviewQueue(s, r) \subseteq Matching(s, r)
  BY DEF ReviewQueue, FirstOf
<1> QED
  BY <1>1, <1>2, <1>3 DEF Distinct

\* The counts of the server.
LEMMA CountsOfServer == ASSUME DeskShape PROVE ReviewSummary \in Counts
BY DEF ReviewSummary, Counts

\* The list and the counts depend on the rows alone.
LEMMA QueueUntouched ==
  ASSUME UNCHANGED queueRows, NEW s, NEW r, NEW q
  PROVE  /\ Matching(s, r)' = Matching(s, r) /\ ReviewSummary' = ReviewSummary
         /\ DeskItem(q)' = DeskItem(q)
BY DEF Matching, ReviewSummary, DeskItem

\* The shape of the rows after a decision or a change of activity.
LEMMA DecisionWritten ==
  ASSUME DeskShape, NEW id \in QueueIds, NEW d \in DeskStatuses, WriteDecision(id, d)
  PROVE  /\ queueRows' \in [QueueIds -> [status : DeskStatuses, active : BOOLEAN]]
         /\ \A q \in QueueIds : queueRows'[q].active = queueRows[q].active
         /\ \A q \in QueueIds : q # id => queueRows'[q] = queueRows[q]
BY DEF DeskShape, WriteDecision

\* A decision touches one row of every list.
LEMMA OthersUntouched ==
  ASSUME DeskShape, NEW id \in QueueIds, NEW d \in DeskStatuses, WriteDecision(id, d), NEW s, NEW r
  PROVE  AllBut(Matching(s, r), id)' = AllBut(Matching(s, r), id)
<1>1. \A q \in QueueIds : q # id => DeskItem(q)' = DeskItem(q) /\ queueRows'[q].active = queueRows[q].active
  BY DecisionWritten DEF DeskItem
<1>2. DeskItem(id).id = id /\ DeskItem(id)'.id = id
  BY DEF DeskItem
<1>3. \A q \in QueueIds : DeskItem(q).id = q /\ DeskItem(q)'.id = q
  BY DEF DeskItem
<1> QED
  BY <1>1, <1>3 DEF AllBut, Matching

\* The list after the answer to a decision.
LEMMA SettledList ==
  ASSUME DeskShape, NEW item \in Listing,
         Distinct(desk.items), Fitting(desk.items)
  PROVE  /\ Settled(desk.items, item) \subseteq Listing
         /\ Distinct(Settled(desk.items, item)) /\ Fitting(Settled(desk.items, item))
<1>1. \A i \in Settled(desk.items, item) : i \in AllBut(desk.items, item.id) \/ (i = item /\ Matches(item, desk.status, desk.reason))
  BY DEF Settled, AllBut
<1>2. \A i \in AllBut(desk.items, item.id) : i \in desk.items /\ i.id # item.id
  BY DEF AllBut
<1> QED
  BY <1>1, <1>2, DeskFields DEF Distinct, Fitting

\* When the others are as wanted and the answer is the row, so is the list.
LEMMA SettledLatest ==
  ASSUME DeskShape, NEW id \in QueueIds, queueRows[id].active, \E i \in desk.items : i.id = id,
         Reflects(AllBut(desk.items, id), AllBut(Wanted, id), desk.cut)
  PROVE  Reflects(Settled(desk.items, DeskItem(id)), Wanted, desk.cut)
<1> DEFINE item == DeskItem(id)
<1>1. item.id = id /\ \A q \in QueueIds : DeskItem(q).id = q
  BY DEF DeskItem
<1>2. item \in Wanted <=> Matches(item, desk.status, desk.reason)
  BY DEF Wanted, Matching
<1>3. \A i \in Wanted : i.id = id => i = item
  BY <1>1 DEF Wanted, Matching
<1> HIDE DEF item
<1>4. CASE Matches(item, desk.status, desk.reason)
  <2>1. Settled(desk.items, item) = AllBut(desk.items, id) \cup {item}
    BY <1>1, <1>4 DEF Settled, AllBut
  <2>2. Wanted = AllBut(Wanted, id) \cup {item}
    BY <1>1, <1>2, <1>3, <1>4 DEF AllBut
  <2>3. Reflects(AllBut(desk.items, id) \cup {item}, AllBut(Wanted, id) \cup {item}, desk.cut)
    BY DEF Reflects
  <2> QED
    BY <2>1, <2>2, <2>3 DEF item
<1>5. CASE ~Matches(item, desk.status, desk.reason)
  <2>1. Settled(desk.items, item) = AllBut(desk.items, id)
    BY <1>1, <1>5 DEF Settled, AllBut
  <2>2. Wanted = AllBut(Wanted, id)
    BY <1>2, <1>3, <1>5 DEF AllBut
  <2> QED
    BY <2>1, <2>2 DEF item
<1> QED
  BY <1>4, <1>5

-----------------------------------------------------------------------------
(* The steps of the desk *)

\* The page starts with the pending items.
LEMMA DeskStarts == ASSUME DeskInit PROVE DeskInv
<1> DEFINE d == [items |-> ReviewQueue("pending", All), summary |-> ReviewSummary,
                 status |-> "pending", reason |-> All, loading |-> FALSE, error |-> FALSE, outdated |-> FALSE,
                 unsure |-> FALSE, cut |-> ReviewQueue("pending", All) # Matching("pending", All)]
<1>1. /\ queueRows \in [QueueIds -> [status : DeskStatuses, active : BOOLEAN]] /\ desk = d
      /\ deskRequest = NoRequest /\ deskLost = {} /\ deskSent = 0 /\ deskOthers = 0
  BY DEF DeskInit
<1>2. ReviewQueue("pending", All) \subseteq Matching("pending", All) /\ Matching("pending", All) \subseteq Listing
  BY <1>1 DEF DeskItem, Listing, Reasons, Matching, ReviewQueue, FirstOf
<1>3. ReviewSummary \in Counts
  BY DEF ReviewSummary, Counts
<1>4. d \in DeskRecord
  BY <1>2, <1>3, WorkspaceAssumption DEF DeskRecord, StatusFilters, ReasonFilters
<1>5. /\ d.items = ReviewQueue(d.status, d.reason) /\ d.summary = ReviewSummary /\ ~d.loading /\ ~d.outdated
      /\ d.status = "pending" /\ d.reason = All
      /\ d.cut = (ReviewQueue("pending", All) # Matching("pending", All))
  OBVIOUS
<1> HIDE DEF d
<1>6. DeskShape
  BY <1>1, <1>4, WorkspaceAssumption DEF DeskShape
<1>7. ~Loading /\ ~Deciding
  BY Kinds DEF DeskInit, Loading, Deciding
<1>8. Reflects(desk.items, Wanted, desk.cut) /\ desk.summary = ReviewSummary /\ ~desk.loading
  BY <1>1, <1>2, <1>5 DEF Wanted, Reflects
<1>9. Distinct(desk.items) /\ Fitting(desk.items)
  BY <1>1, <1>5, <1>6, ListOfServer DEF Fitting
<1> QED
  BY <1>6, <1>7, <1>8, <1>9 DEF DeskInv, LoadAccounted, DecisionAccounted, ListFits, ListLatest

\* A request is sent: nothing is under way yet, whichever control it came from.
LEMMA LoadKeeps ==
  ASSUME DeskInv, NEW s \in StatusFilters, NEW r \in ReasonFilters, LoadQueue(s, r), deskRequest = NoRequest
  PROVE  DeskInv'
<1> DEFINE d == [desk EXCEPT !.status = s, !.reason = r, !.loading = TRUE, !.error = FALSE]
           q == [kind |-> "load", status |-> s, reason |-> r, at |-> "sent", items |-> {}, summary |-> desk.summary,
                 cut |-> FALSE, late |-> FALSE]
<1>1. desk' = d /\ deskRequest' = q /\ UNCHANGED <<queueRows, deskLost, deskOthers>> /\ deskSent' \in 0 .. DeskBound
  BY WorkspaceAssumption DEF LoadQueue, DeskInv, DeskShape
<1>2. desk \in DeskRecord /\ desk.summary \in Counts
  BY DeskFields DEF DeskInv, DeskShape
<1>3. d \in DeskRecord /\ d.status = s /\ d.reason = r /\ d.loading /\ ~d.error
  BY <1>2 DEF DeskRecord
<1>4. q \in LoadRequest /\ q.status = s /\ q.reason = r /\ q.at = "sent"
  BY <1>2 DEF LoadRequest
<1> HIDE DEF d, q
<1>5. DeskShape'
  BY <1>1, <1>3, <1>4 DEF DeskInv, DeskShape
<1>6. Loading' /\ ~Deciding' /\ deskRequest' # NoRequest
  BY <1>1, <1>4, Kinds DEF Loading, Deciding
<1>7. LoadAccounted'
  BY <1>1, <1>3, <1>4 DEF LoadAccounted
<1> QED
  BY <1>1, <1>3, <1>5, <1>6, <1>7 DEF DeskInv, DecisionAccounted, ListFits, ListLatest

\* The controls that load are offered only while nothing is under way.
LEMMA NothingUnderWay ==
  ASSUME DeskInv, DeskOffers.toolbar \/ DeskOffers.refresh
  PROVE  deskRequest = NoRequest
<1>1. ~DeskBusy /\ (~desk.loading \/ desk.error)
  BY DEF DeskOffers, DeskControls
<1>2. ~Loading
  BY <1>1 DEF DeskInv, LoadAccounted
<1>3. ~Deciding
  BY <1>1, UnderWay DEF DeskInv
<1> QED
  BY <1>2, <1>3, UnderWay DEF DeskInv

\* A filter or a refresh loads the list again.
LEMMA FilterKeeps == ASSUME DeskInv, ChangeFilter \/ RefreshDesk PROVE DeskInv'
<1>1. desk.status \in StatusFilters /\ desk.reason \in ReasonFilters
  BY DeskFields DEF DeskInv
<1>2. deskRequest = NoRequest
  BY NothingUnderWay DEF ChangeFilter, RefreshDesk
<1>3. \E s \in StatusFilters, r \in ReasonFilters : LoadQueue(s, r)
  <2>1. CASE ChangeFilter
    <3>1. \/ \E s \in StatusFilters : LoadQueue(s, desk.reason)
          \/ \E r \in ReasonFilters : LoadQueue(desk.status, r)
      BY <2>1 DEF ChangeFilter, StatusFilters, ReasonFilters, Reasons
    <3> QED
      BY <1>1, <3>1
  <2>2. CASE RefreshDesk
    BY <1>1, <2>2 DEF RefreshDesk
  <2> QED
    BY <2>1, <2>2
<1> QED
  BY <1>2, <1>3, LoadKeeps

\* The list is read: it is that of the filters the request was sent with.
LEMMA ServeLoadKeeps == ASSUME DeskInv, ServeLoad PROVE DeskInv'
<1> DEFINE list == ReviewQueue(deskRequest.status, deskRequest.reason)
           cut == list # Matching(deskRequest.status, deskRequest.reason)
           q == [deskRequest EXCEPT !.at = "read", !.items = list, !.cut = cut]
<1>1. deskRequest' = q /\ UNCHANGED <<queueRows, desk, deskLost, deskSent, deskOthers>>
  BY DEF ServeLoad
<1>2. DeskShape /\ Loading
  BY UnderWay DEF DeskInv, ServeLoad
<1>3. /\ desk.loading /\ ~desk.error
      /\ deskRequest.status = desk.status /\ deskRequest.reason = desk.reason
  BY <1>2 DEF DeskInv, LoadAccounted
<1>4. /\ list \subseteq Listing /\ Distinct(list) /\ Fitting(list) /\ cut \in BOOLEAN
      /\ Reflects(list, Wanted, cut)
  BY <1>2, <1>3, ListOfServer DEF Fitting, Wanted, Reflects
<1> HIDE DEF list, cut
<1>5. /\ q \in LoadRequest /\ q.items = list /\ q.at = "read" /\ q.status = deskRequest.status
      /\ q.reason = deskRequest.reason /\ q.cut = cut /\ q.late = deskRequest.late
  BY <1>2, <1>4 DEF Loading, LoadRequest
<1> HIDE DEF q
<1>6. DeskShape'
  BY <1>1, <1>2, <1>5 DEF DeskShape
<1>7. Loading' /\ ~Deciding' /\ deskRequest' # NoRequest
  BY <1>1, <1>5, Kinds DEF Loading, Deciding
<1>8. Wanted' = Wanted
  BY <1>1, QueueUntouched DEF Wanted
<1>9. LoadAccounted'
  BY <1>1, <1>3, <1>4, <1>5, <1>8 DEF LoadAccounted, Fitting
<1> QED
  BY <1>1, <1>3, <1>6, <1>7, <1>9 DEF DeskInv, DecisionAccounted, ListFits, ListLatest

\* The counts are read: they are those of the rows at that moment.
LEMMA ServeSummaryKeeps == ASSUME DeskInv, ServeSummary PROVE DeskInv'
<1> DEFINE q == [deskRequest EXCEPT !.at = "served", !.summary = ReviewSummary]
<1>1. deskRequest' = q /\ UNCHANGED <<queueRows, desk, deskLost, deskSent, deskOthers>> /\ deskRequest.at = "read"
  BY DEF ServeSummary
<1>2. DeskShape /\ ReviewSummary \in Counts /\ (Loading \/ Deciding) /\ deskRequest # NoRequest
  BY UnderWay, CountsOfServer DEF DeskInv, ServeSummary
<1>3. /\ Wanted' = Wanted /\ ReviewSummary' = ReviewSummary
      /\ \A id \in QueueIds : DeskItem(id)' = DeskItem(id)
  BY <1>1, QueueUntouched DEF Wanted
<1> SUFFICES ASSUME NEW counts, counts = ReviewSummary
             PROVE  DeskInv'
  OBVIOUS
<1>4. CASE Loading
  <2>1. /\ q \in LoadRequest /\ q.items = deskRequest.items /\ q.at = "served" /\ q.status = deskRequest.status
        /\ q.reason = deskRequest.reason /\ q.summary = counts /\ q.cut = deskRequest.cut /\ q.late = deskRequest.late
    BY <1>2, <1>4 DEF Loading, LoadRequest
  <2> HIDE DEF q
  <2>2. DeskShape'
    BY <1>1, <1>2, <2>1 DEF DeskShape
  <2>3. Loading' /\ ~Deciding' /\ deskRequest' # NoRequest
    BY <1>1, <2>1, Kinds DEF Loading, Deciding
  <2>4. LoadAccounted'
    BY <1>1, <1>3, <1>4, <2>1 DEF DeskInv, LoadAccounted, Fitting, Alone
  <2> QED
    BY <1>1, <1>4, <2>2, <2>3, <2>4 DEF DeskInv, DecisionAccounted, ListFits, ListLatest, LoadAccounted
<1>5. CASE Deciding
  <2>1. /\ q \in DecideRequest /\ q.item = deskRequest.item /\ q.at = "served" /\ q.id = deskRequest.id
        /\ q.summary = counts /\ deskRequest.id \in QueueIds
    BY <1>2, <1>5 DEF Deciding, DecideRequest
  <2> HIDE DEF q
  <2>2. DeskShape'
    BY <1>1, <1>2, <2>1 DEF DeskShape
  <2>3. Deciding' /\ ~Loading' /\ deskRequest' # NoRequest /\ ~Loading
    BY <1>1, <1>5, <2>1, Kinds DEF Loading, Deciding
  <2>4. DecisionAccounted'
    BY <1>1, <1>3, <1>5, <2>1 DEF DeskInv, DecisionAccounted, Alone
  <2>5. ListFits'
    BY <1>1 DEF DeskInv, ListFits, Fitting
  <2> QED
    BY <1>1, <2>2, <2>3, <2>4, <2>5 DEF DeskInv, LoadAccounted, ListLatest
<1> QED
  BY <1>2, <1>4, <1>5

\* With nothing under way, the invariant speaks of the page only.
LEMMA Settling ==
  ASSUME DeskShape', deskRequest' = NoRequest, ~desk'.loading, ListFits', ListLatest'
  PROVE  DeskInv'
BY Kinds DEF DeskInv, Loading, Deciding, LoadAccounted, DecisionAccounted

\* A load is answered with its list, or fails and leaves the old one under an error.
LEMMA EndLoadKeeps == ASSUME DeskInv, EndLoad PROVE DeskInv'
<1> DEFINE d == [desk EXCEPT !.loading = FALSE, !.outdated = FALSE, !.unsure = deskRequest.late,
                             !.items = deskRequest.items, !.summary = deskRequest.summary, !.cut = deskRequest.cut]
           f == [desk EXCEPT !.loading = FALSE, !.error = TRUE, !.outdated = TRUE]
<1>1. /\ deskRequest' = NoRequest /\ UNCHANGED <<queueRows, deskLost, deskSent, deskOthers>>
      /\ (deskRequest.at = "served" /\ desk' = d) \/ desk' = f
  BY DEF EndLoad
<1>2. DeskShape /\ Loading
  BY UnderWay DEF DeskInv, EndLoad
<1>3. /\ d \in DeskRecord /\ d.items = deskRequest.items /\ d.summary = deskRequest.summary /\ ~d.loading
      /\ d.status = desk.status /\ d.reason = desk.reason /\ d.cut = deskRequest.cut /\ d.unsure = deskRequest.late
  BY <1>2 DEF DeskShape, DeskRecord, Loading, LoadRequest
<1>4. f \in DeskRecord /\ ~f.loading /\ f.outdated
  BY <1>2 DEF DeskShape, DeskRecord
<1> HIDE DEF d, f
<1>5. DeskShape'
  BY <1>1, <1>2, <1>3, <1>4 DEF DeskShape
<1>6. CASE deskRequest.at = "served" /\ desk' = d
  <2>1. /\ Distinct(deskRequest.items) /\ Fitting(deskRequest.items)
        /\ Alone /\ ~deskRequest.late =>
             Reflects(deskRequest.items, Wanted, deskRequest.cut) /\ deskRequest.summary = ReviewSummary
    BY <1>2, <1>6 DEF DeskInv, LoadAccounted
  <2>2. Wanted' = Wanted /\ ReviewSummary' = ReviewSummary
    BY <1>1, <1>3, <1>6 DEF Wanted, Matching, DeskItem, ReviewSummary
  <2>3. ListFits'
    BY <1>3, <1>6, <2>1 DEF ListFits, Distinct, Fitting
  <2>4. ListLatest'
    BY <1>1, <1>3, <1>6, <2>1, <2>2 DEF ListLatest, Alone
  <2> QED
    BY <1>1, <1>3, <1>5, <1>6, <2>3, <2>4, Settling
<1>7. CASE desk' = f
  BY <1>1, <1>4, <1>5, <1>7, Settling DEF ListFits, ListLatest
<1> QED
  BY <1>1, <1>6, <1>7

\* A decision is sent: the row is on the page, so while nobody interferes it is active.
LEMMA ApplyKeeps == ASSUME DeskInv, ApplyDecision PROVE DeskInv'
<1>1. PICK i \in desk.items : \E decision \in DeskOffers.decisions[i] :
        deskRequest' = [kind |-> "decide", id |-> i.id, decision |-> decision, at |-> "sent", item |-> i,
                        summary |-> desk.summary]
  BY DEF ApplyDecision
<1>0. PICK decision \in DeskOffers.decisions[i] :
        deskRequest' = [kind |-> "decide", id |-> i.id, decision |-> decision, at |-> "sent", item |-> i,
                        summary |-> desk.summary]
  BY <1>1
<1> DEFINE q == [kind |-> "decide", id |-> i.id, decision |-> decision, at |-> "sent", item |-> i,
                 summary |-> desk.summary]
           d == [desk EXCEPT !.error = FALSE]
<1>2. /\ deskRequest = NoRequest /\ deskRequest' = q /\ desk' = d /\ UNCHANGED <<queueRows, deskLost, deskOthers>>
      /\ deskSent' \in 0 .. DeskBound
  BY <1>0, WorkspaceAssumption DEF ApplyDecision, DeskInv, DeskShape
<1>3. DeskShape /\ desk.summary \in Counts /\ i \in Listing
  BY DeskFields DEF DeskInv
<1>4. decision \in DeskStatuses
  <2>1. DeskOffers.decisions[i] = IF DeskControls THEN DeskStatuses \ {i.status} ELSE {}
    BY DEF DeskOffers
  <2> QED
    BY <2>1
<1>5. q \in DecideRequest /\ q.id = i.id /\ q.item = i /\ q.at = "sent"
  BY <1>3, <1>4 DEF DecideRequest, Listing
<1>6. /\ d \in DeskRecord /\ d.items = desk.items /\ d.summary = desk.summary /\ d.status = desk.status
      /\ d.reason = desk.reason /\ d.loading = desk.loading /\ d.outdated = desk.outdated /\ d.unsure = desk.unsure
      /\ d.cut = desk.cut
  BY <1>3 DEF DeskShape, DeskRecord
<1> HIDE DEF q, d
<1>7. DeskShape'
  BY <1>2, <1>3, <1>5, <1>6 DEF DeskShape
<1>8. Deciding' /\ ~Loading' /\ ~Loading /\ deskRequest' # NoRequest
  BY <1>2, <1>5, Kinds DEF Loading, Deciding
<1>9. Wanted' = Wanted
  BY <1>2, <1>6 DEF Wanted, Matching, DeskItem
<1>10. Alone /\ ~desk.unsure /\ ~desk.outdated =>
         Reflects(AllBut(desk.items, i.id), AllBut(Wanted, i.id), desk.cut) /\ queueRows[i.id].active
  <2>1. \A j \in Wanted : queueRows[j.id].active
    BY DEF Wanted, Matching, DeskItem
  <2> QED
    BY <1>2, <2>1 DEF DeskInv, ListLatest, Reflects, AllBut
<1>11. DecisionAccounted'
  BY <1>2, <1>5, <1>6, <1>9, <1>10 DEF DecisionAccounted, Alone, AllBut
<1>12. ListFits'
  BY <1>2, <1>6 DEF DeskInv, ListFits, Distinct, Fitting
<1> QED
  BY <1>2, <1>6, <1>7, <1>8, <1>11, <1>12 DEF DeskInv, LoadAccounted, ListLatest

\* The decision is written: the other rows of every list stay as they are.
LEMMA ServeDecisionKeeps == ASSUME DeskInv, ServeDecision PROVE DeskInv'
<1> DEFINE q == [deskRequest EXCEPT !.at = "written"]
           id == deskRequest.id
<1>1. /\ deskRequest' = q /\ UNCHANGED <<desk, deskLost, deskSent, deskOthers>>
      /\ WriteDecision(deskRequest.id, deskRequest.decision)
  BY DEF ServeDecision
<1>2. DeskShape /\ Deciding
  BY UnderWay DEF DeskInv, ServeDecision
<1>3. /\ q \in DecideRequest /\ q.id = id /\ q.item = deskRequest.item /\ q.at = "written"
      /\ id \in QueueIds /\ deskRequest.decision \in DeskStatuses
  BY <1>2 DEF Deciding, DecideRequest
<1> HIDE DEF q
<1>4. /\ queueRows' \in [QueueIds -> [status : DeskStatuses, active : BOOLEAN]]
      /\ queueRows'[id].active = queueRows[id].active
  BY <1>1, <1>2, <1>3, DecisionWritten
<1>5. AllBut(Wanted, id)' = AllBut(Wanted, id)
  <2> SUFFICES ASSUME NEW host, host = deskRequest.id
               PROVE  AllBut(Wanted, host)' = AllBut(Wanted, host)
    BY <1>1, <1>3
  <2>1. host \in QueueIds /\ WriteDecision(host, deskRequest.decision)
    BY <1>1, <1>3
  <2> SUFFICES ASSUME NEW s, NEW r, s = desk.status, r = desk.reason
               PROVE  AllBut(Matching(s, r), host)' = AllBut(Matching(s, r), host)
    BY <1>1 DEF Wanted
  <2> QED
    BY <1>2, <1>3, <2>1, OthersUntouched
<1>6. DeskShape'
  BY <1>1, <1>2, <1>3, <1>4 DEF DeskShape
<1>7. Deciding' /\ ~Loading' /\ ~Loading /\ deskRequest' # NoRequest
  BY <1>1, <1>2, <1>3, Kinds DEF Loading, Deciding
<1>8. DecisionAccounted'
  BY <1>1, <1>2, <1>3, <1>4, <1>5 DEF DeskInv, DecisionAccounted, Alone, AllBut
<1>9. ListFits'
  BY <1>1 DEF DeskInv, ListFits, Fitting
<1> QED
  BY <1>1, <1>6, <1>7, <1>8, <1>9 DEF DeskInv, LoadAccounted, ListLatest

\* The row is read back.
LEMMA RereadKeeps == ASSUME DeskInv, RereadDecision PROVE DeskInv'
<1> DEFINE q == [deskRequest EXCEPT !.at = "read", !.item = DeskItem(deskRequest.id)]
<1>1. deskRequest' = q /\ UNCHANGED <<queueRows, desk, deskLost, deskSent, deskOthers>>
  BY DEF RereadDecision
<1>2. DeskShape /\ Deciding /\ deskRequest.id \in QueueIds
  <2>1. DeskShape /\ Deciding
    BY UnderWay DEF DeskInv, RereadDecision
  <2> QED
    BY <2>1 DEF Deciding, DecideRequest
<1> SUFFICES ASSUME NEW row, row = DeskItem(deskRequest.id)
             PROVE  DeskInv'
  OBVIOUS
<1>3. row \in Listing /\ row.id = deskRequest.id
  BY <1>1, <1>2 DEF DeskShape, DeskItem, Listing, Reasons
<1>4. q \in DecideRequest /\ q.id = deskRequest.id /\ q.item = row /\ q.at = "read"
  BY <1>2, <1>3 DEF Deciding, DecideRequest
<1> HIDE DEF q
<1>5. DeskItem(deskRequest.id)' = row
  BY <1>1, <1>4 DEF DeskItem
<1>6. DeskShape'
  BY <1>1, <1>2, <1>4 DEF DeskShape
<1>7. Deciding' /\ ~Loading' /\ ~Loading /\ deskRequest' # NoRequest
  BY <1>1, <1>2, <1>4, Kinds DEF Loading, Deciding
<1>8. Wanted' = Wanted
  BY <1>1, QueueUntouched DEF Wanted
<1>9. DecisionAccounted'
  BY <1>1, <1>2, <1>3, <1>4, <1>5, <1>8 DEF DeskInv, DecisionAccounted, Alone, AllBut
<1>10. ListFits'
  BY <1>1 DEF DeskInv, ListFits, Fitting
<1> QED
  BY <1>1, <1>6, <1>7, <1>9, <1>10 DEF DeskInv, LoadAccounted, ListLatest

\* The answer replaces or drops the row; a lost answer leaves the page unsure.
LEMMA EndDecisionKeeps == ASSUME DeskInv, EndDecision PROVE DeskInv'
<1> DEFINE list == Settled(desk.items, deskRequest.item)
           d == [desk EXCEPT !.items = list, !.summary = deskRequest.summary]
           f == [desk EXCEPT !.error = TRUE, !.unsure = TRUE]
           lost == [id |-> deskRequest.id, decision |-> deskRequest.decision]
<1>1. /\ deskRequest' = NoRequest /\ UNCHANGED <<queueRows, deskSent, deskOthers>>
      /\ (deskRequest.at = "served" /\ desk' = d) \/ desk' = f
      /\ deskLost' = deskLost \/ deskLost' = deskLost \cup {lost}
  BY DEF EndDecision
<1>2. DeskShape /\ Deciding /\ ~Loading
  BY UnderWay DEF DeskInv, EndDecision
<1>3. /\ deskRequest.id \in QueueIds /\ deskRequest.item \in Listing /\ deskRequest.summary \in Counts
      /\ ~desk.loading /\ lost \in LostDecision
  BY <1>2 DEF Deciding, DecideRequest, DeskInv, LostDecision
<1> HIDE DEF lost
<1>4. list \subseteq Listing
  BY <1>2, <1>3, DeskFields DEF Settled
<1>5. ~desk.outdated => Distinct(list) /\ Fitting(list)
  BY <1>2, <1>3, SettledList DEF DeskInv, ListFits
<1>6. deskRequest.at = "served" /\ Alone /\ ~desk.unsure /\ ~desk.outdated =>
        Reflects(list, Wanted, desk.cut) /\ deskRequest.summary = ReviewSummary
  BY <1>2, <1>3, SettledLatest DEF DeskInv, DecisionAccounted
<1> HIDE DEF list
<1>7. /\ d \in DeskRecord /\ d.items = list /\ d.summary = deskRequest.summary /\ ~d.loading
      /\ d.status = desk.status /\ d.reason = desk.reason /\ d.outdated = desk.outdated /\ d.unsure = desk.unsure
      /\ d.cut = desk.cut
  BY <1>2, <1>3, <1>4 DEF DeskShape, DeskRecord
<1>8. /\ f \in DeskRecord /\ f.items = desk.items /\ ~f.loading /\ f.unsure /\ f.status = desk.status
      /\ f.reason = desk.reason /\ f.outdated = desk.outdated
  BY <1>2, <1>3 DEF DeskShape, DeskRecord
<1> HIDE DEF d, f
<1>9. DeskShape'
  BY <1>1, <1>2, <1>3, <1>7, <1>8 DEF DeskShape
<1>10. CASE deskRequest.at = "served" /\ desk' = d
  <2>1. Wanted' = Wanted /\ ReviewSummary' = ReviewSummary
    BY <1>1, <1>7, <1>10 DEF Wanted, Matching, DeskItem, ReviewSummary
  <2>2. ListFits'
    BY <1>5, <1>7, <1>10 DEF ListFits, Distinct, Fitting
  <2>3. ListLatest'
    BY <1>1, <1>6, <1>7, <1>10, <2>1 DEF ListLatest, Alone
  <2> QED
    BY <1>1, <1>7, <1>9, <1>10, <2>2, <2>3, Settling
<1>11. CASE desk' = f
  <2>1. ListFits'
    BY <1>3, <1>8, <1>11 DEF DeskInv, ListFits, Distinct, Fitting
  <2>2. ListLatest'
    BY <1>8, <1>11 DEF ListLatest
  <2> QED
    BY <1>1, <1>8, <1>9, <1>11, <2>1, <2>2, Settling
<1> QED
  BY <1>1, <1>10, <1>11

\* A decision that was given up is written: the page, and a list read before it, are of before.
LEMMA ServeLostDecisionKeeps == ASSUME DeskInv, ServeLostDecision PROVE DeskInv'
<1>1. PICK r \in deskLost :
        /\ WriteDecision(r.id, r.decision) /\ deskLost' = deskLost \ {r}
        /\ desk' = [desk EXCEPT !.unsure = TRUE]
        /\ deskRequest' = IF deskRequest.kind = "load" /\ deskRequest.at # "sent"
                          THEN [deskRequest EXCEPT !.late = TRUE] ELSE deskRequest
        /\ UNCHANGED <<deskSent, deskOthers>>
  BY DEF ServeLostDecision
<1> DEFINE d == [desk EXCEPT !.unsure = TRUE]
           q == [deskRequest EXCEPT !.late = TRUE]
<1>2. DeskShape /\ r \in LostDecision
  BY DEF DeskInv, DeskShape
<1>3. queueRows' \in [QueueIds -> [status : DeskStatuses, active : BOOLEAN]]
  BY <1>1, <1>2, DecisionWritten DEF LostDecision
<1>4. /\ desk' = d /\ d \in DeskRecord /\ d.unsure /\ d.items = desk.items /\ d.status = desk.status
      /\ d.reason = desk.reason /\ d.loading = desk.loading /\ d.outdated = desk.outdated /\ d.error = desk.error
  BY <1>1, <1>2 DEF DeskShape, DeskRecord
<1> HIDE DEF d
<1>5. ListFits' /\ ListLatest' /\ desk'.unsure
  BY <1>4 DEF DeskInv, ListFits, ListLatest, Distinct, Fitting
<1>6. CASE Loading /\ deskRequest.at # "sent"
  <2>1. /\ q \in LoadRequest /\ q.late /\ q.status = deskRequest.status /\ q.reason = deskRequest.reason
        /\ q.items = deskRequest.items /\ q.at = deskRequest.at
    BY <1>6 DEF Loading, LoadRequest
  <2>2. deskRequest' = q
    BY <1>1, <1>6, Kinds DEF Loading
  <2> HIDE DEF q
  <2>3. DeskShape' /\ Loading' /\ ~Deciding' /\ deskRequest' # NoRequest
    BY <1>1, <1>2, <1>3, <1>4, <2>1, <2>2, Kinds DEF DeskShape, Loading, Deciding
  <2>4. LoadAccounted'
    BY <1>4, <1>6, <2>1, <2>2 DEF DeskInv, LoadAccounted, Distinct, Fitting
  <2> QED
    BY <1>4, <1>5, <1>6, <2>3, <2>4 DEF DeskInv, DecisionAccounted
<1>7. CASE ~(Loading /\ deskRequest.at # "sent")
  <2>1. deskRequest' = deskRequest
    BY <1>1, <1>2, <1>7, UnderWay
  <2>2. DeskShape' /\ (desk.loading <=> Loading)'
    BY <1>1, <1>2, <1>3, <1>4, <2>1 DEF DeskInv, DeskShape, Loading
  <2>3. LoadAccounted'
    BY <1>4, <1>7, <2>1 DEF DeskInv, Loading, LoadAccounted
  <2>4. DecisionAccounted'
    BY <1>5, <2>1 DEF DeskInv, Deciding, DecisionAccounted
  <2> QED
    BY <1>5, <2>2, <2>3, <2>4 DEF DeskInv
<1> QED
  BY <1>6, <1>7

\* Once others have written, only the shape of the list is promised.
LEMMA OthersKeep == ASSUME DeskInv, OthersAtDesk PROVE DeskInv'
<1>1. /\ UNCHANGED <<desk, deskRequest, deskLost, deskSent>> /\ deskOthers' = deskOthers + 1
      /\ deskOthers \in Nat /\ deskOthers' \in 0 .. OthersBound
  BY WorkspaceAssumption DEF OthersAtDesk, DeskInv, DeskShape
<1>2. ~Alone'
  BY <1>1 DEF Alone
<1>3. queueRows' \in [QueueIds -> [status : DeskStatuses, active : BOOLEAN]]
  <2>1. PICK q \in QueueIds :
          \/ \E s \in DeskStatuses \ {queueRows[q].status} : WriteDecision(q, s)
          \/ queueRows' = [queueRows EXCEPT ![q].active = ~@]
    BY DEF OthersAtDesk
  <2>2. queueRows \in [QueueIds -> [status : DeskStatuses, active : BOOLEAN]]
    BY DEF DeskInv, DeskShape
  <2>3. ASSUME NEW s \in DeskStatuses, WriteDecision(q, s)
        PROVE  queueRows' \in [QueueIds -> [status : DeskStatuses, active : BOOLEAN]]
    BY <2>3, DecisionWritten DEF DeskInv
  <2>4. CASE queueRows' = [queueRows EXCEPT ![q].active = ~@]
    BY <2>2, <2>4
  <2> QED
    BY <2>1, <2>3, <2>4
<1>4. DeskShape'
  BY <1>1, <1>3 DEF DeskInv, DeskShape
<1>5. (desk.loading <=> Loading)' /\ LoadAccounted' /\ DecisionAccounted' /\ ListFits' /\ ListLatest'
  BY <1>1, <1>2 DEF DeskInv, Loading, Deciding, LoadAccounted, DecisionAccounted, ListFits, ListLatest, Fitting
<1> QED
  BY <1>4, <1>5 DEF DeskInv

\* Every step of the workspace keeps what is known of the desk.
LEMMA DeskHolds == ASSUME DeskInv, [WorkspaceNext]_workspaceVars PROVE DeskInv'
<1>1. CASE DeskNext
  BY <1>1, FilterKeeps, ServeLoadKeeps, EndLoadKeeps, ApplyKeeps, ServeDecisionKeeps, RereadKeeps, EndDecisionKeeps,
     ServeSummaryKeeps, ServeLostDecisionKeeps, OthersKeep DEF DeskNext
<1>2. CASE UNCHANGED deskVars
  <2>1. UNCHANGED <<queueRows, desk, deskRequest, deskLost, deskSent, deskOthers>>
    BY <1>2 DEF deskVars
  <2>2. Wanted' = Wanted /\ ReviewSummary' = ReviewSummary
    BY <2>1, QueueUntouched DEF Wanted
  <2>3. DeskShape' /\ (desk.loading <=> Loading)' /\ LoadAccounted' /\ ListFits' /\ ListLatest'
    BY <2>1, <2>2 DEF DeskInv, DeskShape, Loading, LoadAccounted, ListFits, ListLatest, Fitting, Alone
  <2>4. DecisionAccounted'
    BY <2>1, <2>2 DEF DeskInv, Deciding, DecisionAccounted, AllBut, Alone, DeskItem
  <2> QED
    BY <2>3, <2>4 DEF DeskInv
<1> QED
  BY <1>1, <1>2 DEF WorkspaceNext, workspaceVars

\* The desk lists what matches its filters, and while nobody interferes as it is in the queue, all
\* of it if the page has room.
THEOREM DeskIsLatest == WorkspaceSpec => []DeskShowsLatest
<1>1. WorkspaceInit => DeskInv
  BY DeskStarts DEF WorkspaceInit
<1>2. DeskInv /\ [WorkspaceNext]_workspaceVars => DeskInv'
  BY DeskHolds
<1>3. DeskInv => DeskShowsLatest
  BY DEF DeskInv, ListFits, ListLatest, DeskShowsLatest, Distinct, Fitting, Wanted, Reflects, Alone
<1> QED
  BY <1>1, <1>2, <1>3, PTL DEF WorkspaceSpec

\* The invariants of desk, button and searches give the types of the workspace.
LEMMA WorkspaceTyped == DeskInv /\ WatchInv /\ SearchInv => WorkspaceTypeOK
<1> SUFFICES ASSUME DeskInv, WatchInv, SearchInv PROVE WorkspaceTypeOK
  OBVIOUS
<1>1. /\ queueRows \in [QueueIds -> [status : DeskStatuses, active : BOOLEAN]]
      /\ deskSent \in 0 .. DeskBound /\ deskOthers \in 0 .. OthersBound
  BY DEF DeskInv, DeskShape
<1>2. desk.items \subseteq [id : QueueIds, reason : {ReasonOf[q] : q \in QueueIds}, status : DeskStatuses]
  BY DeskFields DEF DeskInv, Listing, Reasons
<1>3. watchRow \in BOOLEAN /\ watched.shown \in BOOLEAN
  BY ButtonFields
<1>4. /\ searches.message \in {"none", "saved", "error"} /\ savedSoFar \in 0 .. SaveBound
      /\ \A r \in savedRows : r.id \in 1 .. savedSoFar /\ r.filters \in SearchFilters
  BY Requested DEF SearchInv, SavedRow
<1> QED
  BY <1>1, <1>2, <1>3, <1>4 DEF WorkspaceTypeOK

\* The pages of the workspace keep their types, for any queue, bounds and names.
THEOREM WorkspaceTypes == WorkspaceSpec => []WorkspaceTypeOK
<1> DEFINE Inv == DeskInv /\ WatchInv /\ SearchInv
<1>1. WorkspaceInit => Inv
  BY DeskStarts, WatchStarts, SearchStarts DEF WorkspaceInit
<1>2. Inv /\ [WorkspaceNext]_workspaceVars => Inv'
  BY DeskHolds, WatchHolds, SearchesHold
<1>3. Inv => WorkspaceTypeOK
  BY WorkspaceTyped
<1> QED
  BY <1>1, <1>2, <1>3, PTL DEF WorkspaceSpec

-----------------------------------------------------------------------------
(* The gate *)

\* The provers do not know that a literal is a string: those the code writes are added.
Word == STRING \cup {"discover", "opportunities", "login", "dashboard", "ops"}
Segments == Seq(Word)
Return == [kind : {"none", "path", "other"}, segments : Segments, doubled : BOOLEAN]
Pages == {"sign in first", "forbidden", "dashboard", "ops", "discover", "opportunities", "login"}
VisitRecord == [segments : Segments, doubled : BOOLEAN, next : Return, hops : Nat,
                shown : Pages \cup {"asked for", "not found"}]

\* An address below a locale that is neither an old detail address nor written with a doubled slash.
InPlace(path) ==
  /\ path.segments \in Segments /\ Len(path.segments) >= 2 /\ ~path.doubled
  /\ path.segments[1] \in Locales /\ path.segments[2] # "competitions"

GateInv ==
  /\ visit \in VisitRecord /\ visit.hops \in 0 .. MaxHops
  /\ localeCookie \in Locales \cup {NoLocale} /\ visitor \in {"anonymous", "user", "admin"}
  /\ apiAnswer.kind \in {"none", "unauthenticated", "forbidden", "unavailable", "invalid_request", "generic"}
  /\ visit.shown \in Pages => visit.segments[1] \in Locales
  /\ visit.hops <= 1
  /\ visit.shown = "asked for" /\ visit.hops = 1 => InPlace(visit)

-----------------------------------------------------------------------------
(* Negotiation *)

\* Among the ranges that count one is tried first.
LEMMA BestExists ==
  ASSUME NEW header, NEW spoken, spoken \subseteq ParseAcceptLanguage(header), spoken # {},
         header \in Seq([tag : STRING, quality : Int])
  PROVE  \E i \in spoken : \A j \in spoken : Preferred(header, i, j)
<1>1. \A i \in spoken : i \in Nat /\ header[i].quality \in 1 .. 10
  BY DEF ParseAcceptLanguage
<1> DEFINE rest == {10 - header[i].quality : i \in spoken}
<1>2. ASSUME NEW i \in spoken PROVE header[i].quality \in Int /\ 10 - header[i].quality \in Nat
  <2> SUFFICES ASSUME NEW k \in 1 .. 10 PROVE k \in Int /\ 10 - k \in Nat
    BY <1>1
  <2> QED
    OBVIOUS
<1>3. rest \subseteq Nat /\ rest # {}
  BY <1>2
<1>4. PICK q \in rest : \A p \in rest : q <= p
  BY <1>3, LeastExists
<1> DEFINE best == {i \in spoken : 10 - header[i].quality = q}
<1>5. best \subseteq Nat /\ best # {}
  BY <1>1, <1>4
<1>6. PICK i \in best : \A j \in best : i <= j
  BY <1>5, LeastExists
<1>7. ASSUME NEW j \in spoken PROVE Preferred(header, i, j)
  <2>1. 10 - header[i].quality <= 10 - header[j].quality /\ 10 - header[i].quality = q
    BY <1>4, <1>6
  <2>2. header[i].quality \in Int /\ header[j].quality \in Int
    BY <1>2, <1>6
  <2>3. header[i].quality > header[j].quality \/ header[i].quality = header[j].quality
    BY <2>1, <2>2
  <2>4. CASE header[i].quality = header[j].quality
    <3>1. j \in best
      BY <2>1, <2>4
    <3> QED
      BY <1>6, <2>4, <3>1 DEF Preferred
  <2> QED
    BY <2>3, <2>4 DEF Preferred
<1> QED
  BY <1>6, <1>7

\* Whatever the cookie holds and the browser sends, a supported locale comes of it.
LEMMA NegotiatedIsSupported ==
  ASSUME NEW cookie, NEW header \in AcceptLanguages
  PROVE  NegotiateLocale(cookie, header) \in Locales
<1> DEFINE spoken == {i \in ParseAcceptLanguage(header) : LocaleFromLanguageTag(header[i].tag) # NoLocale}
           best == CHOOSE i \in spoken : \A j \in spoken : Preferred(header, i, j)
<1>1. header \in Seq([tag : STRING, quality : Int])
  BY GateAssumption
<1>2. \A i \in spoken : LocaleFromLanguageTag(header[i].tag) \in Locales
  BY DEF LocaleFromLanguageTag
<1>3. spoken # {} => best \in spoken
  <2>1. spoken # {} => \E i \in spoken : \A j \in spoken : Preferred(header, i, j)
    BY <1>1, BestExists
  <2> HIDE DEF spoken
  <2> QED
    BY <2>1
<1>4. NegotiateLocale(cookie, header) =
        CASE cookie \in Locales -> cookie
          [] cookie \notin Locales /\ spoken # {} -> LocaleFromLanguageTag(header[best].tag)
          [] OTHER -> DefaultLocale
  BY DEF NegotiateLocale
<1> HIDE DEF spoken, best
<1> QED
  BY <1>2, <1>3, <1>4, GateAssumption

-----------------------------------------------------------------------------
(* Redirects *)

\* What is below the first segment.
LEMMA Below ==
  ASSUME NEW path \in Segments, path # <<>>
  PROVE  /\ Tail(path) \in Segments /\ Len(Tail(path)) = Len(path) - 1
         /\ Len(path) >= 2 => Tail(path) # <<>> /\ Tail(path)[1] = path[2]
<1>1. /\ Tail(path) \in Seq(Word) /\ Len(Tail(path)) = Len(path) - 1 /\ Len(path) \in Nat
      /\ \A i \in 1 .. Len(Tail(path)) : Tail(path)[i] = path[i + 1]
  BY HeadTailProperties DEF Segments
<1>2. CASE Len(path) >= 2
  <2>1. 1 \in 1 .. Len(Tail(path))
    BY <1>1, <1>2
  <2>2. Tail(path)[1] = path[2]
    BY <1>1, <2>1
  <2>3. Tail(path) # <<>>
    <3>1. \A t \in Seq(Word) : Len(t) >= 1 => t # <<>>
      OBVIOUS
    <3>2. Len(Tail(path)) >= 1
      BY <1>1, <1>2
    <3> QED
      BY <1>1, <3>1, <3>2, Zenon
  <2> QED
    BY <1>1, <2>2, <2>3 DEF Segments
<1> QED
  BY <1>1, <1>2 DEF Segments

\* A path below a locale.
LEMMA Joined ==
  ASSUME NEW l \in Word, NEW rest \in Segments
  PROVE  /\ <<l>> \o rest \in Segments /\ Len(<<l>> \o rest) = Len(rest) + 1 /\ (<<l>> \o rest)[1] = l
         /\ rest # <<>> => (<<l>> \o rest)[2] = rest[1]
<1>1. <<l>> \in Seq(Word) /\ rest \in Seq(Word) /\ Len(<<l>>) = 1 /\ <<l>>[1] = l /\ Len(rest) \in Nat
  BY DEF Segments
<1>2. /\ <<l>> \o rest \in Seq(Word) /\ Len(<<l>> \o rest) = 1 + Len(rest)
      /\ \A i \in 1 .. 1 + Len(rest) : (<<l>> \o rest)[i] = IF i <= 1 THEN <<l>>[i] ELSE rest[i - 1]
  BY <1>1, ConcatProperties
<1>3. (<<l>> \o rest)[1] = l
  <2>1. 1 \in 1 .. 1 + Len(rest)
    BY <1>1
  <2> QED
    BY <1>1, <1>2, <2>1
<1>4. ASSUME rest # <<>> PROVE (<<l>> \o rest)[2] = rest[1]
  <2>1. 2 \in 1 .. 1 + Len(rest)
    BY <1>1, <1>4
  <2> QED
    BY <1>1, <1>2, <2>1
<1> QED
  BY <1>1, <1>2, <1>3, <1>4 DEF Segments

\* The target of a redirect is an address in place.
LEMMA PathInPlace ==
  ASSUME NEW l \in Locales, NEW rest \in Segments, NEW path, path.segments = ToPath(l, rest), ~path.doubled
  PROVE  InPlace(path)
<1>1. l \in Word
  BY GateAssumption DEF Word
<1>2. CASE rest = <<>>
  <2>1. path.segments = <<l, "discover">>
    BY <1>2 DEF ToPath
  <2> QED
    BY <1>1, <2>1 DEF InPlace, Segments, Word
<1>3. CASE rest # <<>> /\ rest[1] = "competitions"
  <2>1. path.segments = <<l, "opportunities">> \o Tail(rest)
    BY <1>3 DEF ToPath
  <2>2. <<"opportunities">> \o Tail(rest) \in Segments /\ Tail(rest) \in Segments
    BY <1>3, Below, Joined DEF Word
  <2>3. <<l, "opportunities">> \in Seq(Word) /\ Len(<<l, "opportunities">>) = 2
    <3>1. "opportunities" \in Word
      BY DEF Word
    <3> QED
      BY <1>1, <3>1
  <2>4. /\ path.segments \in Seq(Word) /\ Len(path.segments) = 2 + Len(Tail(rest))
        /\ \A i \in 1 .. 2 + Len(Tail(rest)) :
             path.segments[i] = IF i <= 2 THEN <<l, "opportunities">>[i] ELSE Tail(rest)[i - 2]
    BY <2>1, <2>2, <2>3, ConcatProperties DEF Segments
  <2>5. Len(Tail(rest)) \in Nat
    BY <2>2 DEF Segments
  <2>6. 1 \in 1 .. 2 + Len(Tail(rest)) /\ 2 \in 1 .. 2 + Len(Tail(rest))
    BY <2>5
  <2>7. path.segments[1] = l /\ path.segments[2] = "opportunities"
    BY <2>4, <2>6
  <2> QED
    BY <2>4, <2>5, <2>7 DEF InPlace, Segments
<1>4. CASE rest # <<>> /\ rest[1] # "competitions"
  <2>1. path.segments = <<l>> \o rest
    BY <1>4 DEF ToPath
  <2>2. Len(rest) \in Nat /\ Len(rest) # 0
    BY <1>4 DEF Segments
  <2> QED
    BY <1>1, <1>4, <2>1, <2>2, Joined DEF InPlace
<1> QED
  BY <1>2, <1>3, <1>4

\* A redirect goes below a supported locale.
LEMMA RedirectTarget ==
  ASSUME NEW path, path.segments \in Segments, NEW preferred \in Locales,
         ResolveLocaleRedirect(path, preferred) # NoRedirect
  PROVE  \E l \in Locales, rest \in Segments : ResolveLocaleRedirect(path, preferred) = ToPath(l, rest)
<1> DEFINE first == IF path.segments = <<>> THEN "" ELSE path.segments[1]
           rest == IF path.segments = <<>> THEN <<>> ELSE Tail(path.segments)
           own == LocaleFromLanguageTag(first)
           untouched == NeverRedirected(path)
<1>1. rest \in Segments
  <2>1. <<>> \in Segments
    BY DEF Segments
  <2> QED
    BY <2>1, Below
<1>2. own # NoLocale => own \in Locales
  BY DEF LocaleFromLanguageTag
<1>3. ResolveLocaleRedirect(path, preferred) =
        CASE untouched -> NoRedirect
          [] ~untouched /\ first \in Locales ->
               IF rest = <<>> \/ path.doubled \/ rest[1] = "competitions" THEN ToPath(first, rest) ELSE NoRedirect
          [] ~untouched /\ first \in LocaleLike \ Locales -> ToPath(IF own # NoLocale THEN own ELSE preferred, rest)
          [] OTHER -> ToPath(preferred, path.segments)
  BY DEF ResolveLocaleRedirect
<1> HIDE DEF first, rest, own, untouched
<1> QED
  BY <1>1, <1>2, <1>3

\* An address in place is not redirected, whatever language is preferred.
LEMMA InPlaceStays ==
  ASSUME NEW path, InPlace(path), NEW preferred
  PROVE  ResolveLocaleRedirect(path, preferred) = NoRedirect
<1>1. path.segments[1] \in Locales
  BY DEF InPlace
<1>2. path.segments # <<>> /\ path.segments \in Segments
  BY DEF InPlace, Segments
<1>3. Tail(path.segments) # <<>> /\ Tail(path.segments)[1] # "competitions"
  BY <1>2, Below DEF InPlace
<1> DEFINE first == IF path.segments = <<>> THEN "" ELSE path.segments[1]
           rest == IF path.segments = <<>> THEN <<>> ELSE Tail(path.segments)
           own == LocaleFromLanguageTag(first)
           untouched == NeverRedirected(path)
<1>4. first = path.segments[1] /\ rest = Tail(path.segments)
  BY <1>2, Zenon
<1>5. ResolveLocaleRedirect(path, preferred) =
        CASE untouched -> NoRedirect
          [] ~untouched /\ first \in Locales ->
               IF rest = <<>> \/ path.doubled \/ rest[1] = "competitions" THEN ToPath(first, rest) ELSE NoRedirect
          [] ~untouched /\ first \in LocaleLike \ Locales -> ToPath(IF own # NoLocale THEN own ELSE preferred, rest)
          [] OTHER -> ToPath(preferred, path.segments)
  BY DEF ResolveLocaleRedirect
<1> HIDE DEF first, rest, own, untouched
<1>6. first \in Locales
  BY <1>1, <1>4, Zenon
<1>7. rest # <<>> /\ rest[1] # "competitions" /\ ~path.doubled
  BY <1>3, <1>4, Zenon DEF InPlace
<1> QED
  BY <1>5, <1>6, <1>7

-----------------------------------------------------------------------------
(* The steps of a visit *)

\* What a visit starts from when a page is asked for.
LEMMA Asked ==
  ASSUME NEW segments \in Segments, NEW doubled \in BOOLEAN, NEW next \in Return
  PROVE  LET v == AskFor(segments, doubled, next)
         IN  v \in VisitRecord /\ v.hops = 0 /\ v.shown = "asked for"
BY DEF AskFor, VisitRecord

\* The bound on redirects leaves room for what the invariant allows.
LEMMA RoomForHops == MaxHops \in Nat /\ 0 \in 0 .. MaxHops
BY GateAssumption

\* A step that asks for a page keeps the rest of the invariant.
LEMMA AskingKeeps ==
  ASSUME GateInv, NEW segments \in Segments, NEW doubled \in BOOLEAN, NEW next \in Return,
         visit' = AskFor(segments, doubled, next), Forget,
         localeCookie' \in Locales \cup {NoLocale}, visitor' \in {"anonymous", "user", "admin"}
  PROVE  GateInv'
<1>1. visit' \in VisitRecord /\ visit'.hops = 0 /\ visit'.shown = "asked for"
  BY Asked
<1>2. apiAnswer'.kind = "none"
  BY DEF Forget, NoAnswer
<1>3. visit'.shown \notin Pages
  BY <1>1 DEF Pages
<1>4. visit'.hops = 0
  BY <1>1
<1>5. visit'.hops \in 0 .. MaxHops /\ visit'.hops <= 1 /\ visit'.hops # 1
  BY <1>4, RoomForHops
<1> QED
  BY <1>1, <1>2, <1>3, <1>5, Zenon DEF GateInv

\* The return addresses a page passes on.
LEMMA Returns ==
  /\ NoReturn \in Return
  /\ \A r \in ReturnPaths : r \in Return
  /\ \A segments \in Segments : ReturnTo(segments) \in Return
<1>1. <<>> \in Segments
  BY DEF Segments
<1>2. NoReturn \in Return
  BY <1>1 DEF NoReturn, Return
<1>3. \A segments \in Segments : ReturnTo(segments) \in Return
  BY DEF ReturnTo, Return
<1>4. \A r \in ReturnPaths : r \in Return
  <2>1. Seq(STRING) \subseteq Segments
    BY DEF Segments, Word
  <2> QED
    BY <2>1, GateAssumption DEF Return
<1> QED
  BY <1>2, <1>3, <1>4

\* Only addresses under a known locale are followed.
LEMMA SanitizedIsPath ==
  ASSUME NEW value \in Return, NEW l \in Locales
  PROVE  SanitizeReturnPath(value, l) \in Segments
<1>1. l \in Word /\ <<"dashboard">> \in Segments
  BY GateAssumption DEF Word, Segments
<1>2. <<l>> \o <<"dashboard">> \in Segments
  BY <1>1, Joined
<1> QED
  BY <1>2 DEF SanitizeReturnPath, BuildLocalePath, Return

\* The locale below which a page is shown.
LEMMA ShownBelowLocale ==
  ASSUME GateInv, visit.shown \notin {"asked for", "not found"}
  PROVE  visit.segments[1] \in Locales /\ visit.segments \in Segments /\ visit.next \in Return
<1>1. visit.shown \in Pages /\ visit.segments \in Segments /\ visit.next \in Return
  BY DEF GateInv, VisitRecord
<1> QED
  BY <1>1 DEF GateInv

\* The links the pages write.
LEMMA LocalePath ==
  ASSUME NEW l \in Locales, NEW p \in {"discover", "dashboard", "ops", "login"}
  PROVE  BuildLocalePath(l, <<p>>) \in Segments
<1>1. l \in Word /\ <<p>> \in Segments
  BY GateAssumption DEF Word, Segments
<1> QED
  BY <1>1, Joined DEF BuildLocalePath

\* An address is typed.
LEMMA EnterKeeps == ASSUME GateInv, EnterPath PROVE GateInv'
<1>1. PICK p \in Entered : visit' = AskFor(p.segments, p.doubled, NoReturn)
  BY DEF EnterPath
<1>2. p.segments \in Segments /\ p.doubled \in BOOLEAN
  <2>1. Seq(STRING) \subseteq Segments
    BY DEF Segments, Word
  <2> QED
    BY <2>1, GateAssumption
<1> QED
  BY <1>1, <1>2, Returns, AskingKeeps DEF EnterPath, GateInv

\* A link of the header, or the switch to another language.
LEMMA FollowKeeps == ASSUME GateInv, FollowLink PROVE GateInv'
<1>1. visit.segments[1] \in Locales /\ visit.segments \in Segments /\ visit.next \in Return
  BY ShownBelowLocale DEF FollowLink
<1>2. Forget /\ UNCHANGED <<localeCookie, visitor>>
  BY DEF FollowLink
<1>3. CASE \E link \in Navigation(visit.segments[1]) : visit' = AskFor(link, FALSE, NoReturn)
  <2>1. PICK link \in Navigation(visit.segments[1]) : visit' = AskFor(link, FALSE, NoReturn)
    BY <1>3
  <2>2. link \in Segments
    <3>1. PICK p \in {"discover", "dashboard", "ops", "login"} : link = BuildLocalePath(visit.segments[1], <<p>>)
      BY <2>1 DEF Navigation
    <3> QED
      BY <1>1, <3>1, LocalePath
  <2> QED
    BY <1>2, <2>1, <2>2, Returns, AskingKeeps DEF GateInv
<1>4. CASE \E l \in Locales : visit' = AskFor(BuildLocalePath(l, StripLocalePrefix(visit.segments)), FALSE, visit.next)
  <2>1. PICK l \in Locales : visit' = AskFor(BuildLocalePath(l, StripLocalePrefix(visit.segments)), FALSE, visit.next)
    BY <1>4
  <2>2. StripLocalePrefix(visit.segments) \in Segments
    BY <1>1, Below DEF StripLocalePrefix
  <2>3. l \in Word
    BY GateAssumption DEF Word
  <2>4. BuildLocalePath(l, StripLocalePrefix(visit.segments)) \in Segments
    BY <2>2, <2>3, Joined DEF BuildLocalePath
  <2> QED
    BY <1>1, <1>2, <2>1, <2>4, AskingKeeps DEF GateInv
<1> QED
  BY <1>3, <1>4 DEF FollowLink

\* The only step that counts a redirect: where one has been, there is no second.
LEMMA RedirectKeeps == ASSUME GateInv, MiddlewareRedirects PROVE GateInv'
<1>1. PICK header \in AcceptLanguages :
        LET target == ResolveLocaleRedirect(visit, NegotiateLocale(localeCookie, header))
        IN  /\ target # NoRedirect
            /\ visit' = [visit EXCEPT !.segments = target, !.doubled = FALSE, !.hops = @ + 1]
  BY DEF MiddlewareRedirects
<1> DEFINE preferred == NegotiateLocale(localeCookie, header)
           target == ResolveLocaleRedirect(visit, preferred)
           v == [visit EXCEPT !.segments = target, !.doubled = FALSE, !.hops = @ + 1]
<1>2. preferred \in Locales
  BY NegotiatedIsSupported
<1>3. target # NoRedirect /\ visit' = v
  BY <1>1
<1> HIDE DEF preferred
<1>4. visit \in VisitRecord /\ visit.segments \in Segments /\ visit.shown = "asked for"
  BY DEF GateInv, VisitRecord, MiddlewareRedirects
<1>5. ~InPlace(visit)
  BY <1>2, <1>3, InPlaceStays
<1>6. visit.hops \in Nat /\ visit.hops < MaxHops
  <2>1. visit.hops \in 0 .. MaxHops
    BY Zenon DEF GateInv
  <2>2. visit.hops < MaxHops
    BY Zenon DEF MiddlewareRedirects
  <2> QED
    BY <2>1, <2>2, RoomForHops
<1>7. visit.hops = 0
  <2>1. visit.hops <= 1 /\ visit.hops # 1
    BY <1>4, <1>5 DEF GateInv
  <2> QED
    BY <1>6, <2>1
<1>8. PICK l \in Locales, rest \in Segments : target = ToPath(l, rest)
  BY <1>2, <1>3, <1>4, RedirectTarget
<1> HIDE DEF target
<1>9. v.segments = target /\ ~v.doubled /\ v.shown = visit.shown
  BY <1>4 DEF VisitRecord
<1>10. v.hops = 1 /\ v.hops \in 0 .. MaxHops /\ v.hops <= 1
  <2>1. v.hops = visit.hops + 1
    BY <1>4 DEF VisitRecord
  <2> HIDE DEF v
  <2> QED
    BY <1>6, <1>7, <2>1, RoomForHops
<1>11. InPlace(v)
  BY <1>8, <1>9, PathInPlace
<1>12. v \in VisitRecord
  <2>1. target \in Segments
    BY <1>9, <1>11 DEF InPlace
  <2>2. visit.hops + 1 \in Nat
    BY <1>6
  <2>3. visit \in VisitRecord
    BY <1>4
  <2> QED
    BY <2>1, <2>2, <2>3 DEF VisitRecord
<1> HIDE DEF v
<1>13. InPlace(visit)'
  BY <1>3, <1>11 DEF InPlace
<1>14. visit'.shown \notin Pages /\ apiAnswer'.kind = "none" /\ UNCHANGED <<localeCookie, visitor>>
  BY <1>3, <1>4, <1>9 DEF MiddlewareRedirects, Forget, NoAnswer, Pages
<1>15. visit' \in VisitRecord /\ visit'.hops \in 0 .. MaxHops /\ visit'.hops <= 1
  BY <1>3, <1>10, <1>12, Zenon
<1> QED
  BY <1>13, <1>14, <1>15, Zenon DEF GateInv

\* A page that is shown lies below a locale.
LEMMA PageShown ==
  ASSUME NEW segments
  PROVE  /\ Page(segments) \in Pages \cup {"not found"}
         /\ Page(segments) # "not found" => segments[1] \in Locales
BY DEF Page, Pages, Private

\* The page is shown, or asks the visitor to sign in first.
LEMMA ServePageKeeps == ASSUME GateInv, ServePage PROVE GateInv'
<1> DEFINE page == Page(visit.segments)
           signin == BuildLoginRedirect(visit.segments[1], visit.segments)
           remember == LocaleToRemember(visit, localeCookie, FALSE)
           v == [visit EXCEPT !.shown = page]
<1>1. /\ visit' = IF page = "sign in first" THEN AskFor(signin.segments, FALSE, signin.next) ELSE v
      /\ localeCookie' = IF remember = NoLocale THEN localeCookie ELSE remember
      /\ Forget /\ visitor' = visitor /\ visit.shown = "asked for"
  BY DEF ServePage
<1>2. visit \in VisitRecord /\ visit.segments \in Segments
  BY DEF GateInv, VisitRecord
<1>3. page \in Pages \cup {"not found"} /\ (page # "not found" => visit.segments[1] \in Locales)
  BY PageShown
<1>4. localeCookie' \in Locales \cup {NoLocale} /\ visitor' \in {"anonymous", "user", "admin"}
  <2>1. remember \in Locales \cup {NoLocale}
    BY DEF LocaleToRemember
  <2> QED
    BY <1>1, <2>1 DEF GateInv
<1>5. CASE page = "sign in first"
  <2>1. visit.segments[1] \in Locales
    BY <1>3, <1>5
  <2>2. signin.segments \in Segments
    BY <2>1, LocalePath DEF BuildLoginRedirect
  <2>3. signin.next \in Return
    BY <1>2, <2>1, Returns, SanitizedIsPath DEF BuildLoginRedirect
  <2> HIDE DEF page, signin
  <2>4. visit' = AskFor(signin.segments, FALSE, signin.next)
    BY <1>1, <1>5
  <2> QED
    BY <1>1, <1>4, <2>2, <2>3, <2>4, AskingKeeps
<1>6. CASE page # "sign in first"
  <2> HIDE DEF page
  <2>1. /\ v \in VisitRecord /\ v.shown = page /\ v.segments = visit.segments /\ v.hops = visit.hops
    BY <1>2, <1>3 DEF VisitRecord
  <2>2. visit' = v
    BY <1>1, <1>6
  <2> HIDE DEF v
  <2>3. v.shown # "asked for" /\ (v.shown \in Pages => v.segments[1] \in Locales)
    BY <1>3, <2>1 DEF Pages
  <2>4. apiAnswer'.kind = "none"
    BY <1>1 DEF Forget, NoAnswer
  <2> QED
    BY <1>4, <2>1, <2>2, <2>3, <2>4 DEF GateInv
<1> QED
  BY <1>5, <1>6

\* Signing in leads back to a return address, signing out to the form.
LEMMA SignKeeps == ASSUME GateInv, SignIn \/ SignOut PROVE GateInv'
<1>1. visit.segments[1] \in Locales /\ visit.segments \in Segments /\ visit.next \in Return
  BY ShownBelowLocale DEF SignIn, SignOut
<1>2. CASE SignIn
  <2>1. PICK next \in ReturnPaths \cup {visit.next} :
          visit' = AskFor(SanitizeReturnPath(next, visit.segments[1]), FALSE, NoReturn)
    BY <1>2 DEF SignIn
  <2>2. next \in Return
    BY <1>1, <2>1, Returns
  <2>3. SanitizeReturnPath(next, visit.segments[1]) \in Segments
    BY <1>1, <2>2, SanitizedIsPath
  <2> QED
    BY <1>2, <2>1, <2>3, Returns, AskingKeeps DEF SignIn, GateInv
<1>3. CASE SignOut
  <2>1. BuildLocalePath(visit.segments[1], <<"login">>) \in Segments
    BY <1>1, LocalePath
  <2> QED
    BY <1>3, <2>1, Returns, AskingKeeps DEF SignOut, GateInv
<1> QED
  BY <1>2, <1>3

\* A call of the API leaves the visit alone.
LEMMA CallKeeps == ASSUME GateInv, CallApi PROVE GateInv'
<1>1. PICK r \in ApiRequests : apiAnswer' = RequestJson(ApiCode(r))
  BY DEF CallApi
<1>2. \A code : RequestJson(code).kind \in {"none", "unauthenticated", "forbidden", "unavailable", "invalid_request", "generic"}
  <2> SUFFICES ASSUME NEW code
               PROVE  RequestJson(code).kind
                        \in {"none", "unauthenticated", "forbidden", "unavailable", "invalid_request", "generic"}
    OBVIOUS
  <2>1. \A status : ClassifyApiFailure(status)
                      \in {"unauthenticated", "forbidden", "unavailable", "invalid_request", "generic"}
    BY DEF ClassifyApiFailure
  <2> QED
    BY <2>1 DEF RequestJson
<1> QED
  BY <1>1, <1>2 DEF CallApi, GateInv, InPlace

\* Before the first address.
LEMMA GateStarts == ASSUME GateInit PROVE GateInv
<1> DEFINE v == AskFor(<<>>, FALSE, NoReturn)
           w == [v EXCEPT !.shown = "not found"]
<1>1. v \in VisitRecord /\ v.hops = 0
  <2>1. <<>> \in Segments
    BY DEF Segments
  <2> QED
    BY <2>1, Returns, Asked
<1>2. visit = w
  BY DEF GateInit
<1> HIDE DEF v
<1>3. w \in VisitRecord /\ w.hops = 0 /\ w.shown = "not found"
  BY <1>1 DEF VisitRecord
<1> HIDE DEF w
<1>4. visit.hops = 0
  BY <1>2, <1>3
<1>5. visit.hops \in 0 .. MaxHops /\ visit.hops <= 1
  BY <1>4, RoomForHops
<1>6. visit.shown \notin Pages /\ visit.shown # "asked for" /\ apiAnswer.kind = "none"
  BY <1>2, <1>3 DEF GateInit, NoAnswer, Pages
<1>7. localeCookie \in Locales \cup {NoLocale} /\ visitor \in {"anonymous", "user", "admin"}
  BY DEF GateInit
<1> QED
  BY <1>2, <1>3, <1>5, <1>6, <1>7, Zenon DEF GateInv

\* Every step keeps what is known of the visit.
LEMMA GateHolds == ASSUME GateInv, [GateNext]_gateVars PROVE GateInv'
<1>1. CASE GateNext
  BY <1>1, EnterKeeps, FollowKeeps, RedirectKeeps, ServePageKeeps, SignKeeps, CallKeeps DEF GateNext
<1>2. CASE UNCHANGED gateVars
  BY <1>2 DEF gateVars, GateInv, InPlace
<1> QED
  BY <1>1, <1>2

\* A visitor is redirected once at most, from any address, cookie and language.
THEOREM OneRedirect == GateSpec => []RedirectOnce
<1>1. GateInit => GateInv
  BY GateStarts
<1>2. GateInv /\ [GateNext]_gateVars => GateInv'
  BY GateHolds
<1>3. GateInv => RedirectOnce
  BY DEF GateInv, RedirectOnce
<1> QED
  BY <1>1, <1>2, <1>3, PTL DEF GateSpec

\* The invariant of the gate gives its types.
LEMMA GateTyped == GateInv => GateTypeOK
BY DEF GateInv, GateTypeOK, VisitRecord

\* The gate keeps its types: what the cookie remembers, who visits, what an API call came to.
THEOREM GateTypes == GateSpec => []GateTypeOK
<1>1. GateInit => GateInv
  BY GateStarts
<1>2. GateInv /\ [GateNext]_gateVars => GateInv'
  BY GateHolds
<1>3. GateInv => GateTypeOK
  BY GateTyped
<1> QED
  BY <1>1, <1>2, <1>3, PTL DEF GateSpec

-----------------------------------------------------------------------------
(* THE SYNC TO D1 *)

Data(tables) == Cardinality(ExportedRows(tables))
Chunks(tables) == Len(BuildPruneStatements(tables)) - 4
DeleteAt(tables) == Data(tables) + Chunks(tables) + 3

SyncShape ==
  /\ local \in LocalTables /\ drifted \in BOOLEAN
  /\ DOMAIN remote = Tables /\ \A t \in Tables : remote[t] \in [KeysOf(t) -> SyncRow \cup {NoRow}]
  /\ staging \cup pinned \cup spared \subseteq KeysOf("competitions")
  /\ at \in 1 .. Len(statements) + 1
  /\ DOMAIN theirs = KeysOf(Queue)
  /\ exports \in Nat /\ visits \in Nat /\ reruns \in Nat

\* The files are those of the snapshot.
FilesOfSnapshot ==
  \/ statements = <<>> /\ begins = {} /\ snapshot \in LocalTables \cup {NoRows} /\ pruning \in BOOLEAN
  \/ /\ snapshot \in LocalTables /\ pruning \in BOOLEAN
     /\ statements = PlanFiles(snapshot, pruning) /\ begins = FileBegins(snapshot, pruning)

\* D1 has the row, of a queue item what belongs to the worker.
Holds(t, k, row) ==
  /\ remote[t][k] # NoRow
  /\ t # Queue => remote[t][k] = row
  /\ t = Queue => remote[t][k].origin = "submission" \/ remote[t][k].facts = row.facts

\* What has run stays in force, whatever is run again and whatever others do.
UpsertsInForce ==
  statements # <<>> =>
    \A n \in 1 .. Data(snapshot) : n < at => Holds(statements[n].table, statements[n].key, statements[n].row)

\* The scratch table holds the ids of the chunks before the next statement.
StagedSoFar ==
  statements # <<>> /\ pruning /\ at \in Data(snapshot) + 3 .. DeleteAt(snapshot) =>
    staging = UNION {statements[n].ids : n \in Data(snapshot) + 3 .. at - 1}

Pruned ==
  statements # <<>> /\ pruning /\ at > DeleteAt(snapshot) =>
    Present(remote["competitions"]) \subseteq Present(snapshot["competitions"]) \cup spared

\* A row of the queue was made by the worker or by a visitor, and what visitors decided stands.
VisitorsStand ==
  \A q \in KeysOf(Queue) :
    /\ remote[Queue][q] # NoRow => remote[Queue][q].origin \in {"worker_diagnostic", "submission"}
    /\ theirs[q] # NoRow =>
         remote[Queue][q] # NoRow /\ remote[Queue][q].origin = theirs[q].origin
           /\ remote[Queue][q].status = theirs[q].status

PinnedStand == pinned \subseteq Present(remote["competitions"])

MirrorInv ==
  /\ SyncShape /\ FilesOfSnapshot /\ UpsertsInForce /\ StagedSoFar /\ Pruned /\ VisitorsStand /\ PinnedStand

-----------------------------------------------------------------------------
(* Building the files *)

\* Rows are put in an order that has each of them once.
LEMMA RowsInOrder ==
  ASSUME NEW rows, IsFiniteSet(rows), rows \subseteq (1 .. 5) \X Nat
  PROVE  /\ \A n \in 1 .. Cardinality(rows) : InOrder(rows)[n] \in rows
         /\ \A r \in rows : \E n \in 1 .. Cardinality(rows) : InOrder(rows)[n] = r
<1> DEFINE rank(r) == Cardinality(Before(r, rows))
           total == Cardinality(rows)
<1>0. total \in Nat
  BY FS_CardinalityType
<1>1. ASSUME NEW r \in rows PROVE Before(r, rows) \subseteq rows \ {r}
  <2>1. r[1] \in Int /\ r[2] \in Int
    OBVIOUS
  <2> QED
    BY <2>1 DEF Before
<1>2. ASSUME NEW r \in rows
      PROVE  IsFiniteSet(Before(r, rows)) /\ rank(r) \in Nat /\ rank(r) + 1 \in 1 .. total
  <2>1. IsFiniteSet(rows \ {r}) /\ Cardinality(rows \ {r}) = total - 1
    BY FS_RemoveElement
  <2>2. IsFiniteSet(Before(r, rows)) /\ rank(r) <= total - 1
    BY <1>1, <2>1, FS_Subset
  <2>3. rank(r) \in Nat
    BY <2>2, FS_CardinalityType
  <2> QED
    BY <1>0, <2>2, <2>3
<1>3. ASSUME NEW q \in rows, NEW r \in rows, q \in Before(r, rows) PROVE rank(q) # rank(r)
  <2>1. Before(q, rows) \subseteq Before(r, rows)
    <3> SUFFICES ASSUME NEW x \in Before(q, rows) PROVE x \in Before(r, rows)
      OBVIOUS
    <3>1. x \in rows /\ x[1] \in Int /\ x[2] \in Int /\ q[1] \in Int /\ q[2] \in Int /\ r[1] \in Int /\ r[2] \in Int
      BY DEF Before
    <3> QED
      BY <1>3, <3>1 DEF Before
  <2>2. q \notin Before(q, rows)
    BY <1>1
  <2> QED
    BY <1>2, <1>3, <2>1, <2>2, FS_Subset
<1>4. ASSUME NEW q \in rows, NEW r \in rows, q # r PROVE rank(q) # rank(r)
  <2>1. q = <<q[1], q[2]>> /\ r = <<r[1], r[2]>> /\ q[1] \in Int /\ q[2] \in Int /\ r[1] \in Int /\ r[2] \in Int
    OBVIOUS
  <2>2. q \in Before(r, rows) \/ r \in Before(q, rows)
    BY <1>4, <2>1 DEF Before
  <2> QED
    BY <1>3, <2>2
<1> DEFINE place == [r \in rows |-> rank(r) + 1]
<1> HIDE DEF rank, total
<1>5. place \in [rows -> 1 .. total]
  BY <1>2
<1>6. \A q, r \in rows : place[q] = place[r] => q = r
  BY <1>2, <1>4
<1>7. place \in Injection(rows, 1 .. total)
  BY <1>5, <1>6 DEF Injection, IsInjective
<1>8. IsFiniteSet(1 .. total) /\ Cardinality(1 .. total) = total
  BY <1>0, FS_Interval
<1>9. place \in Surjection(rows, 1 .. total)
  BY <1>7, <1>8, FS_Injection DEF total
<1>10. ASSUME NEW n \in 1 .. total
       PROVE  InOrder(rows)[n] \in rows /\ place[InOrder(rows)[n]] = n
  <2>1. \E r \in rows : place[r] = n
    BY <1>9 DEF Surjection
  <2>2. \E r \in rows : rank(r) = n - 1
    BY <1>0, <1>2, <2>1
  <2> DEFINE first == CHOOSE r \in rows : rank(r) = n - 1
  <2>3. first \in rows /\ rank(first) = n - 1
    BY <2>2
  <2>4. InOrder(rows)[n] = first
    BY DEF InOrder, rank, total
  <2> QED
    BY <1>0, <2>3, <2>4
<1>11. ASSUME NEW r \in rows PROVE \E n \in 1 .. total : InOrder(rows)[n] = r
  <2>1. place[r] \in 1 .. total
    BY <1>5
  <2> QED
    BY <1>6, <1>10, <2>1
<1> QED
  BY <1>10, <1>11 DEF total

\* Batches are numbered from one to the last without a step back (splitIntoBatches).
LEMMA BatchesInOrder ==
  ASSUME NEW T, NEW items \in Seq([table : T, size : Nat]), NEW count \in Nat, NEW bytes \in Nat
  PROVE  LET split == SplitIntoBatches(items, count, bytes)
         IN  /\ split \in Seq(Nat) /\ Len(split) = Len(items) /\ Batches(split) \in Nat
             /\ \A n \in 1 .. Len(items) : split[n] \in 1 .. Batches(split)
<1> DEFINE last == Len(items)
           Load == [batch : Nat \ {0}, length : Nat, bytes : Nat]
           opened(n, batch) == [batch |-> batch, length |-> 1, bytes |-> items[n].size]
           next(n, f) ==
             IF n = 1 THEN [batch |-> 1, length |-> 1, bytes |-> items[n].size]
             ELSE IF \/ items[n].table # items[n - 1].table
                     \/ f[n - 1].length >= count
                     \/ f[n - 1].bytes + items[n].size > bytes
                  THEN [batch |-> f[n - 1].batch + 1, length |-> 1, bytes |-> items[n].size]
                  ELSE [batch |-> f[n - 1].batch, length |-> f[n - 1].length + 1,
                        bytes |-> f[n - 1].bytes + items[n].size]
           built(f, k) == f \in [1 .. last -> Load] /\ \A n \in 1 .. k : f[n] = next(n, f)
           fill == CHOOSE f : f = [n \in 1 .. last |-> next(n, f)]
           split == SplitIntoBatches(items, count, bytes)
<1> DEFINE Item == [table : T, size : Nat]
<1>1. last \in Nat /\ \A n \in 1 .. last : items[n].size \in Nat
  <2>1. last \in Nat /\ \A n \in 1 .. last : items[n] \in Item
    <3> HIDE DEF Item
    <3>1. items \in Seq(Item)
      BY DEF Item
    <3> QED
      BY <3>1
  <2> QED
    BY <2>1
<1>2. split = [n \in 1 .. last |-> fill[n].batch]
  BY DEF SplitIntoBatches
<1>3. ASSUME NEW f, NEW n \in 1 .. last, n # 1 => f[n - 1] \in Load
      PROVE  /\ next(n, f) \in Load
             /\ n = 1 => next(n, f).batch = 1
             /\ n # 1 => next(n, f).batch >= f[n - 1].batch
  <2>1. items[n].size \in Nat
    BY <1>1
  <2>2. CASE n = 1
    BY <2>1, <2>2
  <2>3. CASE n # 1
    <3> DEFINE b == f[n - 1].batch
               l == f[n - 1].length
               s == f[n - 1].bytes
    <3>1. b \in Nat \ {0} /\ l \in Nat /\ s \in Nat
      <4>1. f[n - 1] \in Load
        BY <1>3, <2>3
      <4> HIDE DEF next
      <4> QED
        BY <4>1
    <3>2. b + 1 \in Nat \ {0} /\ l + 1 \in Nat /\ s + items[n].size \in Nat /\ b + 1 >= b /\ b >= b
      <4> HIDE DEF b, l, s, next
      <4> QED
        BY <2>1, <3>1
    <3>3. \/ next(n, f) = opened(n, b + 1)
          \/ next(n, f) = [batch |-> b, length |-> l + 1, bytes |-> s + items[n].size]
      BY <2>3
    <3>4. opened(n, b + 1) \in Load /\ opened(n, b + 1).batch = b + 1
      BY <2>1, <3>2
    <3>5. [batch |-> b, length |-> l + 1, bytes |-> s + items[n].size] \in Load
      BY <3>1, <3>2
    <3> HIDE DEF next, Load, b, l, s
    <3>6. next(n, f) \in Load /\ next(n, f).batch \in {b, b + 1}
      BY <3>3, <3>4, <3>5
    <3>7. next(n, f).batch >= b
      BY <3>1, <3>2, <3>6
    <3> QED
      BY <2>3, <3>6, <3>7 DEF b
  <2> QED
    BY <2>2, <2>3
<1>4. \A k \in 0 .. last : \E f : built(f, k)
  <2> DEFINE bad == {k \in 0 .. last : \A f : ~built(f, k)}
  <2>0. bad \subseteq Nat
    BY <1>1
  <2> SUFFICES ASSUME bad # {} PROVE FALSE
    <3> HIDE DEF built
    <3> QED
      OBVIOUS
  <2>1. PICK k \in bad : \A m \in bad : k <= m
    <3> HIDE DEF bad
    <3> QED
      BY <2>0, LeastExists
  <2>2. built([n \in 1 .. last |-> [batch |-> 1, length |-> 1, bytes |-> 0]], 0)
    <3>1. [batch |-> 1, length |-> 1, bytes |-> 0] \in Load
      OBVIOUS
    <3> HIDE DEF Load, next
    <3> QED
      BY <3>1
  <2> HIDE DEF built
  <2>3. k # 0
    BY <2>1, <2>2
  <2>4. k - 1 \in 0 .. last /\ k \in 1 .. last /\ ~(k <= k - 1)
    BY <1>1, <2>1, <2>3
  <2>5. PICK f : built(f, k - 1)
    BY <2>1, <2>4
  <2>6. f \in [1 .. last -> Load] /\ \A n \in 1 .. k - 1 : f[n] = next(n, f)
    BY <2>5 DEF built
  <2> DEFINE g == [f EXCEPT ![k] = next(k, f)]
  <2>7. next(k, f) \in Load
    <3>1. k # 1 => k - 1 \in 1 .. last
      BY <2>4
    <3> HIDE DEF next, Load
    <3> QED
      BY <1>3, <2>4, <2>6, <3>1
  <2>8. g \in [1 .. last -> Load] /\ g[k] = next(k, f) /\ \A n \in 1 .. last : n # k => g[n] = f[n]
    <3> HIDE DEF next, Load
    <3> QED
      BY <2>4, <2>6, <2>7
  <2> HIDE DEF g
  <2>9. ASSUME NEW n \in 1 .. k PROVE g[n] = next(n, g)
    <3>1. n \in 1 .. last /\ (n # k => n \in 1 .. k - 1) /\ (n # 1 => n - 1 \in 1 .. last /\ n - 1 # k)
      BY <1>1, <2>4
    <3>2. n # 1 => g[n - 1] = f[n - 1]
      BY <2>8, <3>1
    <3>3. next(n, g) = next(n, f)
      BY <3>2
    <3> HIDE DEF next
    <3> QED
      BY <2>6, <2>8, <3>1, <3>3
  <2>10. built(g, k)
    BY <2>8, <2>9 DEF built
  <2> QED
    BY <2>1, <2>10
<1>5. fill = [n \in 1 .. last |-> next(n, fill)]
  <2>0. last \in 0 .. last
    BY <1>1
  <2>1. PICK f : built(f, last)
    <3> HIDE DEF built
    <3> QED
      BY <1>4, <2>0
  <2> HIDE DEF next, Load
  <2>2. f = [n \in 1 .. last |-> next(n, f)]
    BY <2>1
  <2> QED
    BY <2>2
<1> HIDE DEF next, fill
<1>6. \A n \in 1 .. last : fill[n] \in Load
  <2> DEFINE bad == {n \in 1 .. last : fill[n] \notin Load}
  <2>1. bad \subseteq Nat
    BY <1>1
  <2> SUFFICES ASSUME bad # {} PROVE FALSE
    OBVIOUS
  <2>2. PICK n \in bad : \A m \in bad : n <= m
    <3> HIDE DEF bad
    <3> QED
      BY <2>1, LeastExists
  <2> HIDE DEF Load
  <2>3. n # 1 => n - 1 \in 1 .. last /\ ~(n <= n - 1)
    BY <1>1
  <2>4. n # 1 => fill[n - 1] \in Load
    BY <2>2, <2>3
  <2>5. next(n, fill) \in Load
    BY <1>3, <2>4
  <2> QED
    BY <1>5, <2>5
<1>7. \A n \in 1 .. last : split[n] \in Nat \ {0}
  BY <1>2, <1>6
<1>8. ASSUME NEW n \in 2 .. last PROVE split[n] >= split[n - 1]
  <2>1. n \in 1 .. last /\ n - 1 \in 1 .. last /\ n # 1
    BY <1>1
  <2>2. next(n, fill).batch >= fill[n - 1].batch
    BY <1>3, <1>6, <2>1
  <2>3. fill[n] = next(n, fill)
    BY <1>5, <2>1
  <2> QED
    BY <1>2, <2>1, <2>2, <2>3
<1> HIDE DEF split
<1>9. DOMAIN split = 1 .. last
  BY <1>2
<1>10. split \in Seq(Nat) /\ Len(split) = last
  <2>1. split \in [1 .. last -> Nat]
    BY <1>2, <1>7, <1>9
  <2> QED
    BY <1>1, <2>1
<1>11. ASSUME NEW n \in 1 .. last PROVE split[n] <= split[last]
  <2> DEFINE bad == {d \in 0 .. last : last - d \in 1 .. last /\ ~(split[last - d] <= split[last])}
  <2>1. bad \subseteq Nat
    BY <1>1
  <2> SUFFICES ASSUME bad # {} PROVE FALSE
    <3>1. last - n \in 0 .. last /\ last - (last - n) = n
      BY <1>1
    <3> QED
      BY <3>1
  <2>2. PICK d \in bad : \A m \in bad : d <= m
    <3> HIDE DEF bad
    <3> QED
      BY <2>1, LeastExists
  <2>3. last - d \in 1 .. last /\ ~(split[last - d] <= split[last]) /\ d \in 0 .. last
    OBVIOUS
  <2> HIDE DEF bad
  <2>4. last \in 1 .. last /\ split[last] \in Nat /\ split[last - d] \in Nat
    BY <1>1, <1>7, <2>3
  <2>5. d # 0
    BY <1>1, <2>3, <2>4
  <2> DEFINE m == last - (d - 1)
  <2>6. m \in 2 .. last /\ m - 1 = last - d /\ d - 1 \in 0 .. last /\ ~(d <= d - 1) /\ m \in 1 .. last
    BY <1>1, <2>3, <2>5
  <2>7. split[m] <= split[last]
    BY <2>2, <2>6 DEF bad
  <2> HIDE DEF m
  <2>8. split[m] >= split[last - d] /\ split[m] \in Nat
    BY <1>7, <1>8, <2>6
  <2> QED
    BY <2>3, <2>4, <2>7, <2>8
<1>12. CASE last = 0
  <2>1. split = <<>>
    BY <1>10, <1>12
  <2>2. 1 .. Len(items) = {}
    BY <1>12
  <2> QED
    BY <1>10, <2>1, <2>2, <1>12 DEF Batches, split
<1>13. CASE last # 0
  <2>1. Batches(split) = split[last] /\ last \in 1 .. last
    BY <1>1, <1>10, <1>13 DEF Batches
  <2>2. split[last] \in Nat /\ \A n \in 1 .. last : split[n] \in Nat \ {0} /\ split[n] <= split[last]
    BY <1>7, <1>11, <2>1
  <2>3. \A n \in 1 .. last : split[n] \in 1 .. split[last]
    BY <2>2
  <2>4. \A n \in 1 .. last : split[n] \in 1 .. Batches(split)
    BY <2>1, <2>3
  <2> QED
    BY <1>10, <2>1, <2>2, <2>4 DEF split
<1> QED
  BY <1>12, <1>13 DEF split

\* What a concatenation holds, whatever the sequences are made of.
LEMMA Concatenated ==
  ASSUME NEW m \in Nat, NEW n \in Nat, NEW s, NEW t, s = [i \in 1 .. m |-> s[i]], t = [i \in 1 .. n |-> t[i]]
  PROVE  /\ Len(s \o t) = m + n /\ s \o t = [i \in 1 .. m + n |-> (s \o t)[i]]
         /\ \A i \in 1 .. m : (s \o t)[i] = s[i]
         /\ \A i \in 1 .. n : (s \o t)[m + i] = t[i]
<1> DEFINE A == {s[i] : i \in 1 .. m} \cup {t[i] : i \in 1 .. n}
<1>1. s \in [1 .. m -> A] /\ t \in [1 .. n -> A]
  OBVIOUS
<1> HIDE DEF A
<1>2. s \in Seq(A) /\ t \in Seq(A) /\ Len(s) = m /\ Len(t) = n
  BY <1>1
<1>3. s \o t \in Seq(A) /\ Len(s \o t) = m + n
  BY <1>2
<1>4. s \o t = [i \in 1 .. m + n |-> (s \o t)[i]]
  BY <1>3
<1>5. \A i \in 1 .. m : (s \o t)[i] = s[i]
  BY <1>2
<1>6. \A i \in 1 .. n : (s \o t)[m + i] = t[i]
  BY <1>2
<1> QED
  BY <1>3, <1>4, <1>5, <1>6

\* The rows of an export are finitely many.
LEMMA RowsFinite ==
  ASSUME NEW tables \in LocalTables
  PROVE  /\ IsFiniteSet(ExportedRows(tables)) /\ ExportedRows(tables) \subseteq (1 .. 5) \X Nat
         /\ Data(tables) \in Nat
<1> DEFINE keys == UNION {KeysOf(t) : t \in Tables}
<1>1. \A t \in Tables : KeysOf(t) \subseteq Nat /\ IsFiniteSet(KeysOf(t))
  BY SyncAssumption
<1>2. Tables = {"competitions", "source_runs", "ai_screening_results", "source_health", "ops_review_queue_items"}
  BY DEF Tables, SyncTables
<1>3. keys = KeysOf("competitions") \cup KeysOf("source_runs") \cup KeysOf("ai_screening_results")
              \cup KeysOf("source_health") \cup KeysOf("ops_review_queue_items")
  BY <1>2
<1>4. IsFiniteSet(keys) /\ keys \subseteq Nat
  <2>1. IsFiniteSet(KeysOf("competitions") \cup KeysOf("source_runs"))
    BY <1>1, <1>2, FS_Union
  <2>2. IsFiniteSet(KeysOf("competitions") \cup KeysOf("source_runs") \cup KeysOf("ai_screening_results"))
    BY <1>1, <1>2, <2>1, FS_Union
  <2>3. IsFiniteSet(KeysOf("competitions") \cup KeysOf("source_runs") \cup KeysOf("ai_screening_results")
                    \cup KeysOf("source_health"))
    BY <1>1, <1>2, <2>2, FS_Union
  <2>4. IsFiniteSet(KeysOf("competitions") \cup KeysOf("source_runs") \cup KeysOf("ai_screening_results")
                    \cup KeysOf("source_health") \cup KeysOf("ops_review_queue_items"))
    BY <1>1, <1>2, <2>3, FS_Union
  <2>5. keys \subseteq Nat
    BY <1>1
  <2> HIDE DEF keys
  <2>6. IsFiniteSet(keys)
    BY <1>3, <2>4, Zenon
  <2> QED
    BY <2>5, <2>6
<1>5. IsFiniteSet(1 .. 5)
  <2>1. \A n \in Nat : IsFiniteSet(1 .. n)
    BY FS_Interval
  <2> QED
    BY <2>1
<1>6. IsFiniteSet((1 .. 5) \X keys)
  BY <1>4, <1>5, FS_Product
<1>7. Len(SyncTables) = 5
  BY DEF SyncTables
<1>8. ExportedRows(tables) \subseteq (1 .. 5) \X keys
  BY <1>7 DEF ExportedRows
<1> HIDE DEF keys
<1>9. IsFiniteSet(ExportedRows(tables))
  BY <1>6, <1>8, FS_Subset
<1> QED
  BY <1>4, <1>8, <1>9, FS_CardinalityType DEF Data

\* The competitions of an export are the rows of its first table.
LEMMA CompetitionRows ==
  ASSUME NEW tables \in LocalTables
  PROVE  /\ \A k \in Present(tables["competitions"]) : <<1, k>> \in ExportedRows(tables)
         /\ \A r \in ExportedRows(tables) : r[1] = 1 => r[2] \in Present(tables["competitions"])
<1>1. Len(SyncTables) = 5 /\ SyncTables[1] = "competitions" /\ "competitions" # Queue /\ "competitions" \in Tables
  BY DEF SyncTables, Queue, Tables
<1>2. DOMAIN tables["competitions"] = KeysOf("competitions")
  BY <1>1, SyncAssumption
<1>3. ASSUME NEW k \in Present(tables["competitions"]) PROVE <<1, k>> \in ExportedRows(tables)
  <2>1. k \in KeysOf("competitions") /\ tables["competitions"][k] # NoRow
    BY <1>2 DEF Present
  <2>2. <<1, k>> \in (1 .. Len(SyncTables)) \X UNION {KeysOf(t) : t \in Tables}
    BY <1>1, <2>1
  <2> QED
    BY <1>1, <2>1, <2>2 DEF ExportedRows, Exported
<1>4. ASSUME NEW r \in ExportedRows(tables), r[1] = 1 PROVE r[2] \in Present(tables["competitions"])
  BY <1>1, <1>2, <1>4 DEF ExportedRows, Exported, Present
<1> QED
  BY <1>3, <1>4

\* The prune makes and empties the scratch table, stages the ids of all competitions and no other,
\* deletes and drops.
LEMMA PrunePlan ==
  ASSUME NEW tables \in LocalTables
  PROVE  LET p == BuildPruneStatements(tables)
         IN  /\ Chunks(tables) \in Nat /\ Len(p) = Chunks(tables) + 4 /\ p = [n \in 1 .. Len(p) |-> p[n]]
             /\ p[1] = [op |-> "create"] /\ p[2] = [op |-> "clear"]
             /\ \A i \in 1 .. Chunks(tables) : p[i + 2].op = "stage" /\ p[i + 2].ids \subseteq KeysOf("competitions")
             /\ p[Chunks(tables) + 3] = [op |-> "delete"] /\ p[Chunks(tables) + 4] = [op |-> "drop"]
             /\ UNION {p[i + 2].ids : i \in 1 .. Chunks(tables)} = Present(tables["competitions"])
<1> DEFINE p == BuildPruneStatements(tables)
           rows == {r \in ExportedRows(tables) : r[1] = 1}
           total == Cardinality(rows)
           ids == [n \in 1 .. Cardinality(rows) |-> InOrder(rows)[n][2]]
           literals == [n \in 1 .. Cardinality(rows) |-> [table |-> "staging", size |-> IdSize(ids[n]) + 2]]
           chunk == SplitIntoBatches(literals, IdsPerStatement, StageBudget)
           c == Batches(chunk)
           head == <<[op |-> "create"], [op |-> "clear"]>>
           stages == [i \in 1 .. c |->
             [op |-> "stage", ids |-> {ids[n] : n \in {m \in DOMAIN ids : chunk[m] = i}}]]
           tail == <<[op |-> "delete"], [op |-> "drop"]>>
<1>1. p = head \o stages \o tail
  BY DEF BuildPruneStatements
<1>2. IsFiniteSet(rows) /\ rows \subseteq (1 .. 5) \X Nat /\ total \in Nat
  <2>1. rows \subseteq ExportedRows(tables)
    OBVIOUS
  <2> HIDE DEF rows
  <2>2. IsFiniteSet(rows)
    BY <2>1, RowsFinite, FS_Subset
  <2> QED
    BY <2>1, <2>2, RowsFinite, FS_CardinalityType
<1>4. /\ \A n \in 1 .. total : ids[n] \in Present(tables["competitions"])
      /\ \A k \in Present(tables["competitions"]) : \E n \in 1 .. total : ids[n] = k
  <2>1. ASSUME NEW n \in 1 .. total PROVE ids[n] \in Present(tables["competitions"])
    <3>1. InOrder(rows)[n] \in rows
      BY <1>2, RowsInOrder
    <3> QED
      BY <3>1, CompetitionRows DEF rows
  <2>2. ASSUME NEW k \in Present(tables["competitions"]) PROVE \E n \in 1 .. total : ids[n] = k
    <3>1. <<1, k>> \in rows
      BY CompetitionRows DEF rows
    <3>2. PICK n \in 1 .. total : InOrder(rows)[n] = <<1, k>>
      BY <1>2, <3>1, RowsInOrder
    <3> HIDE DEF rows
    <3>3. ids[n] = InOrder(rows)[n][2]
      BY <3>2
    <3>4. <<1, k>>[2] = k
      OBVIOUS
    <3> HIDE DEF ids
    <3>5. ids[n] = k
      BY <3>2, <3>3, <3>4
    <3> QED
      BY <3>2, <3>5
  <2> QED
    BY <2>1, <2>2
<1>3. c \in Nat /\ \A n \in 1 .. total : chunk[n] \in 1 .. c
  <2> DEFINE Item == [table : {"staging"}, size : Nat]
  <2>1. literals \in [1 .. total -> Item]
    <3>1. "competitions" \in Tables
      BY DEF Tables, SyncTables
    <3>2. Present(tables["competitions"]) \subseteq KeysOf("competitions")
      BY <3>1, SyncAssumption DEF Present
    <3> HIDE DEF ids, rows
    <3>3. \A n \in 1 .. total : IdSize(ids[n]) + 2 \in Nat
      BY <1>4, <3>2, SyncAssumption
    <3> QED
      BY <3>3
  <2>2. literals \in Seq(Item) /\ Len(literals) = total
    <3> HIDE DEF Item, literals, total
    <3> QED
      BY <1>2, <2>1
  <2>3. IdsPerStatement \in Nat /\ StageBudget \in Nat
    BY SyncAssumption DEF StageBudget
  <2> HIDE DEF literals, total
  <2> QED
    BY <2>2, <2>3, BatchesInOrder
<1> HIDE DEF chunk, rows
<1>5. DOMAIN ids = 1 .. total
  OBVIOUS
<1> HIDE DEF c, ids, total
<1>6. /\ \A i \in 1 .. c : stages[i].op = "stage" /\ stages[i].ids \subseteq Present(tables["competitions"])
      /\ \A k \in Present(tables["competitions"]) : \E i \in 1 .. c : k \in stages[i].ids
  <2>1. \A i \in 1 .. c : stages[i].op = "stage" /\ stages[i].ids = {ids[n] : n \in {m \in 1 .. total : chunk[m] = i}}
    BY <1>5
  <2> HIDE DEF stages
  <2> QED
    BY <1>3, <1>4, <2>1
<1>7. head = [n \in 1 .. 2 |-> head[n]] /\ tail = [n \in 1 .. 2 |-> tail[n]] /\ stages = [n \in 1 .. c |-> stages[n]]
  OBVIOUS
<1>8. head[1] = [op |-> "create"] /\ head[2] = [op |-> "clear"] /\ tail[1] = [op |-> "delete"] /\ tail[2] = [op |-> "drop"]
  OBVIOUS
<1> HIDE DEF head, tail, stages, p
<1>9. /\ Len(head \o stages) = 2 + c /\ head \o stages = [i \in 1 .. 2 + c |-> (head \o stages)[i]]
      /\ \A i \in 1 .. 2 : (head \o stages)[i] = head[i]
      /\ \A i \in 1 .. c : (head \o stages)[2 + i] = stages[i]
  BY <1>3, <1>7, Concatenated
<1>10. /\ Len(p) = 2 + c + 2 /\ p = [i \in 1 .. 2 + c + 2 |-> p[i]]
       /\ \A i \in 1 .. 2 + c : p[i] = (head \o stages)[i]
       /\ \A i \in 1 .. 2 : p[2 + c + i] = tail[i]
  <2> DEFINE front == head \o stages
  <2>1. front = [i \in 1 .. 2 + c |-> front[i]] /\ 2 + c \in Nat /\ p = front \o tail
    BY <1>1, <1>3, <1>9
  <2> HIDE DEF front
  <2>2. /\ Len(front \o tail) = 2 + c + 2 /\ front \o tail = [i \in 1 .. 2 + c + 2 |-> (front \o tail)[i]]
        /\ \A i \in 1 .. 2 + c : (front \o tail)[i] = front[i]
        /\ \A i \in 1 .. 2 : (front \o tail)[2 + c + i] = tail[i]
    BY <1>7, <2>1, Concatenated
  <2> QED
    BY <2>1, <2>2 DEF front
<1>11. Chunks(tables) = c
  BY <1>3, <1>10 DEF Chunks, p
<1>12. \A i \in 1 .. c : p[i + 2] = stages[i]
  <2> SUFFICES ASSUME NEW i \in 1 .. c PROVE p[i + 2] = stages[i]
    OBVIOUS
  <2>1. i + 2 = 2 + i /\ 2 + i \in 1 .. 2 + c
    BY <1>3
  <2> QED
    BY <1>9, <1>10, <2>1
<1>13. p[1] = [op |-> "create"] /\ p[2] = [op |-> "clear"]
  <2>1. 1 \in 1 .. 2 + c /\ 2 \in 1 .. 2 + c /\ 1 \in 1 .. 2 /\ 2 \in 1 .. 2
    BY <1>3
  <2> QED
    BY <1>8, <1>9, <1>10, <2>1
<1>14. p[c + 3] = [op |-> "delete"] /\ p[c + 4] = [op |-> "drop"]
  <2>1. c + 3 = 2 + c + 1 /\ c + 4 = 2 + c + 2 /\ 1 \in 1 .. 2 /\ 2 \in 1 .. 2
    BY <1>3
  <2> QED
    BY <1>8, <1>10, <2>1
<1>15. UNION {p[i + 2].ids : i \in 1 .. c} = Present(tables["competitions"])
  BY <1>6, <1>12
<1>16. Present(tables["competitions"]) \subseteq KeysOf("competitions")
  <2>1. "competitions" \in Tables
    BY DEF Tables, SyncTables
  <2> QED
    BY <2>1, SyncAssumption DEF Present
<1>17. Len(p) = c + 4 /\ p = [n \in 1 .. Len(p) |-> p[n]]
  BY <1>3, <1>10
<1>18. \A i \in 1 .. c : p[i + 2].op = "stage" /\ p[i + 2].ids \subseteq KeysOf("competitions")
  BY <1>6, <1>12, <1>16
<1> QED
  BY <1>3, <1>11, <1>13, <1>14, <1>15, <1>17, <1>18 DEF p

\* A row of an export is one of its table.
LEMMA RowOfTable ==
  ASSUME NEW tables \in LocalTables, NEW r \in ExportedRows(tables)
  PROVE  /\ SyncTables[r[1]] \in Tables /\ r[2] \in KeysOf(SyncTables[r[1]])
         /\ Exported(SyncTables[r[1]], tables[SyncTables[r[1]]][r[2]])
         /\ tables[SyncTables[r[1]]][r[2]] \in SyncRow
<1>1. r[1] \in DOMAIN SyncTables /\ r[2] \in KeysOf(SyncTables[r[1]])
      /\ Exported(SyncTables[r[1]], tables[SyncTables[r[1]]][r[2]])
  BY DEF ExportedRows, SyncTables
<1>2. SyncTables[r[1]] \in Tables
  BY <1>1 DEF Tables
<1>3. tables[SyncTables[r[1]]] \in [KeysOf(SyncTables[r[1]]) -> SyncRow \cup {NoRow}]
  BY <1>2, SyncAssumption
<1>4. tables[SyncTables[r[1]]][r[2]] \in SyncRow \cup {NoRow}
  BY <1>1, <1>3
<1>5. tables[SyncTables[r[1]]][r[2]] # NoRow
  BY <1>1 DEF Exported
<1> QED
  BY <1>1, <1>2, <1>4, <1>5

\* A row of a table is one of the export.
LEMMA TableOfRow ==
  ASSUME NEW tables \in LocalTables, NEW t \in Tables, NEW k \in KeysOf(t), Exported(t, tables[t][k])
  PROVE  \E r \in ExportedRows(tables) : SyncTables[r[1]] = t /\ r[2] = k
<1>1. PICK i \in 1 .. 5 : SyncTables[i] = t
  BY DEF Tables, SyncTables
<1>2. Len(SyncTables) = 5
  BY DEF SyncTables
<1>3. <<i, k>> \in (1 .. Len(SyncTables)) \X UNION {KeysOf(s) : s \in Tables}
  BY <1>2
<1>4. <<i, k>> \in ExportedRows(tables)
  BY <1>1, <1>3 DEF ExportedRows
<1> QED
  BY <1>1, <1>4

\* The files upsert every exported row, then prune; a file begins no later than the prune.
LEMMA PlanIs ==
  ASSUME NEW tables \in LocalTables, NEW prune \in BOOLEAN
  PROVE  LET p == PlanFiles(tables, prune)
             d == Data(tables)
         IN  /\ Len(p) = IF prune THEN d + Chunks(tables) + 4 ELSE d
             /\ \A n \in 1 .. d : \E r \in ExportedRows(tables) : p[n] = Upsert(r, tables)
             /\ \A r \in ExportedRows(tables) : \E n \in 1 .. d : p[n] = Upsert(r, tables)
             /\ prune => \A n \in 1 .. Chunks(tables) + 4 : p[d + n] = BuildPruneStatements(tables)[n]
             /\ FileBegins(tables, prune) \subseteq 1 .. d + 1
             /\ FileBegins(tables, prune) \subseteq 1 .. Len(p)
<1> DEFINE p == PlanFiles(tables, prune)
           d == Data(tables)
           rows == ExportedRows(tables)
           ups == UpsertStatements(tables)
           last == BuildPruneStatements(tables)
           c == Chunks(tables)
<1>1. d \in Nat /\ DOMAIN InOrder(rows) = 1 .. d
  BY RowsFinite DEF InOrder, Data
<1>2. ups = [n \in 1 .. d |-> Upsert(InOrder(rows)[n], tables)]
  BY <1>1 DEF UpsertStatements
<1>3. /\ \A n \in 1 .. d : InOrder(rows)[n] \in rows /\ ups[n] = Upsert(InOrder(rows)[n], tables)
      /\ \A r \in rows : \E n \in 1 .. d : InOrder(rows)[n] = r
  BY <1>2, RowsFinite, RowsInOrder DEF Data
<1>4. ups = [n \in 1 .. d |-> ups[n]]
  BY <1>2
<1>5. c \in Nat /\ last = [n \in 1 .. c + 4 |-> last[n]]
  BY PrunePlan
<1> HIDE DEF ups, last, c, d, rows
<1>6. /\ Len(p) = IF prune THEN d + c + 4 ELSE d
      /\ \A n \in 1 .. d : p[n] = ups[n]
      /\ prune => \A n \in 1 .. c + 4 : p[d + n] = last[n]
  <2>1. CASE prune
    <3>1. p = ups \o last
      BY <2>1 DEF PlanFiles, ups, last
    <3>2. c + 4 \in Nat /\ d + (c + 4) = d + c + 4
      BY <1>1, <1>5
    <3> HIDE DEF p
    <3>3. /\ Len(ups \o last) = d + (c + 4)
          /\ \A i \in 1 .. d : (ups \o last)[i] = ups[i]
          /\ \A i \in 1 .. c + 4 : (ups \o last)[d + i] = last[i]
      BY <1>1, <1>4, <1>5, <3>2, Concatenated
    <3> QED
      BY <2>1, <3>1, <3>2, <3>3
  <2>2. CASE ~prune
    <3> DEFINE none == <<>>
    <3>0. p = ups \o none /\ none = [n \in 1 .. 0 |-> none[n]]
      BY <2>2 DEF PlanFiles, ups
    <3> HIDE DEF p, none
    <3>1. Len(ups \o none) = d + 0 /\ \A i \in 1 .. d : (ups \o none)[i] = ups[i]
      BY <1>1, <1>4, <3>0, Concatenated
    <3> QED
      BY <1>1, <2>2, <3>0, <3>1
  <2> QED
    BY <2>1, <2>2
<1> HIDE DEF p
<1>7. \A n \in 1 .. d : ups[n].table \in Tables /\ SizeOf(ups[n].row) \in Nat
  <2> SUFFICES ASSUME NEW n \in 1 .. d PROVE ups[n].table \in Tables /\ SizeOf(ups[n].row) \in Nat
    OBVIOUS
  <2>1. PICK r \in ExportedRows(tables) : ups[n] = Upsert(r, tables)
    BY <1>3 DEF rows
  <2>2. ups[n].table = SyncTables[r[1]] /\ ups[n].row = tables[SyncTables[r[1]]][r[2]]
    BY <2>1 DEF Upsert
  <2>3. ups[n].table \in Tables /\ ups[n].row \in SyncRow
    BY <2>2, RowOfTable
  <2> QED
    BY <2>3, SyncAssumption
<1> DEFINE file == FileOf(tables)
<1>8. Len(file) = d /\ DOMAIN file = 1 .. d
  <2> DEFINE Item == [table : Tables, size : Nat]
             items == [n \in DOMAIN ups |-> [table |-> ups[n].table, size |-> SizeOf(ups[n].row)]]
  <2>1. file = SplitIntoBatches(items, MaxStatementsPerFile, MaxFileBytes)
    BY DEF FileOf, ups
  <2>2. DOMAIN ups = 1 .. d
    BY <1>4
  <2>3. items \in [1 .. d -> Item]
    BY <1>7, <2>2
  <2>4. items \in Seq(Item) /\ Len(items) = d
    <3> HIDE DEF items, Item
    <3> QED
      BY <1>1, <2>3
  <2>5. MaxStatementsPerFile \in Nat /\ MaxFileBytes \in Nat
    BY SyncAssumption
  <2> HIDE DEF items, file
  <2>6. file \in Seq(Nat) /\ Len(file) = d
    BY <2>1, <2>4, <2>5, BatchesInOrder
  <2> QED
    BY <2>6
<1> HIDE DEF file
<1>9. FileBegins(tables, prune) \subseteq (1 .. d) \cup (IF prune THEN {d + 1} ELSE {})
  BY <1>8 DEF FileBegins, file
<1>10. FileBegins(tables, prune) \subseteq 1 .. d + 1 /\ FileBegins(tables, prune) \subseteq 1 .. Len(p)
  BY <1>1, <1>5, <1>6, <1>9
<1>11. \A n \in 1 .. d : \E r \in rows : p[n] = Upsert(r, tables)
  BY <1>3, <1>6
<1>12. \A r \in rows : \E n \in 1 .. d : p[n] = Upsert(r, tables)
  BY <1>3, <1>6
<1> QED
  BY <1>6, <1>10, <1>11, <1>12 DEF p, d, c, last, rows

\* What the statements are, by their place.
LEMMA StatementsAre ==
  ASSUME FilesOfSnapshot, statements # <<>>
  PROVE  LET d == Data(snapshot)
             c == Chunks(snapshot)
         IN  /\ snapshot \in LocalTables /\ pruning \in BOOLEAN /\ d \in Nat /\ c \in Nat
             /\ Len(statements) = IF pruning THEN d + c + 4 ELSE d
             /\ \A n \in 1 .. d : \E r \in ExportedRows(snapshot) : statements[n] = Upsert(r, snapshot)
             /\ \A r \in ExportedRows(snapshot) : \E n \in 1 .. d : statements[n] = Upsert(r, snapshot)
             /\ begins \subseteq 1 .. d + 1 /\ begins \subseteq 1 .. Len(statements)
             /\ pruning =>
                  /\ statements[d + 1].op = "create" /\ statements[d + 2].op = "clear"
                  /\ \A i \in 1 .. c : /\ statements[d + i + 2].op = "stage"
                                       /\ statements[d + i + 2].ids \subseteq KeysOf("competitions")
                  /\ statements[d + c + 3].op = "delete" /\ statements[d + c + 4].op = "drop"
                  /\ UNION {statements[d + i + 2].ids : i \in 1 .. c} = Present(snapshot["competitions"])
<1> DEFINE d == Data(snapshot)
           c == Chunks(snapshot)
           last == BuildPruneStatements(snapshot)
<1>1. /\ snapshot \in LocalTables /\ pruning \in BOOLEAN
      /\ statements = PlanFiles(snapshot, pruning) /\ begins = FileBegins(snapshot, pruning)
  BY DEF FilesOfSnapshot
<1>2. d \in Nat /\ c \in Nat
  BY <1>1, RowsFinite, PrunePlan
<1>3. /\ Len(statements) = IF pruning THEN d + c + 4 ELSE d
      /\ \A n \in 1 .. d : \E r \in ExportedRows(snapshot) : statements[n] = Upsert(r, snapshot)
      /\ \A r \in ExportedRows(snapshot) : \E n \in 1 .. d : statements[n] = Upsert(r, snapshot)
      /\ begins \subseteq 1 .. d + 1 /\ begins \subseteq 1 .. Len(statements)
      /\ pruning => \A n \in 1 .. c + 4 : statements[d + n] = last[n]
  BY <1>1, PlanIs
<1>4. /\ last[1] = [op |-> "create"] /\ last[2] = [op |-> "clear"]
      /\ \A i \in 1 .. c : last[i + 2].op = "stage" /\ last[i + 2].ids \subseteq KeysOf("competitions")
      /\ last[c + 3] = [op |-> "delete"] /\ last[c + 4] = [op |-> "drop"]
      /\ UNION {last[i + 2].ids : i \in 1 .. c} = Present(snapshot["competitions"])
  BY <1>1, PrunePlan
<1> HIDE DEF d, c, last
<1>5. ASSUME pruning
      PROVE  /\ statements[d + 1] = last[1] /\ statements[d + 2] = last[2]
             /\ \A i \in 1 .. c : statements[d + i + 2] = last[i + 2]
             /\ statements[d + c + 3] = last[c + 3] /\ statements[d + c + 4] = last[c + 4]
  <2>1. 1 \in 1 .. c + 4 /\ 2 \in 1 .. c + 4 /\ c + 3 \in 1 .. c + 4 /\ c + 4 \in 1 .. c + 4
        /\ d + (c + 3) = d + c + 3 /\ d + (c + 4) = d + c + 4
    BY <1>2
  <2>2. ASSUME NEW i \in 1 .. c PROVE statements[d + i + 2] = last[i + 2]
    <3>1. i + 2 \in 1 .. c + 4 /\ d + (i + 2) = d + i + 2
      BY <1>2
    <3> QED
      BY <1>3, <1>5, <3>1
  <2> QED
    BY <1>3, <1>5, <2>1, <2>2
<1>6. ASSUME pruning
      PROVE  UNION {statements[d + i + 2].ids : i \in 1 .. c} = Present(snapshot["competitions"])
  BY <1>4, <1>5, <1>6
<1>7. pruning =>
        /\ statements[d + 1].op = "create" /\ statements[d + 2].op = "clear"
        /\ statements[d + c + 3].op = "delete" /\ statements[d + c + 4].op = "drop"
  BY <1>4, <1>5
<1>8. pruning => \A i \in 1 .. c : /\ statements[d + i + 2].op = "stage"
                                  /\ statements[d + i + 2].ids \subseteq KeysOf("competitions")
  BY <1>4, <1>5
<1> QED
  BY <1>1, <1>2, <1>3, <1>6, <1>7, <1>8 DEF d, c

\* A statement before the prune upserts a row of the snapshot.
LEMMA UpsertsAre ==
  ASSUME FilesOfSnapshot, statements # <<>>, NEW n \in 1 .. Data(snapshot)
  PROVE  /\ statements[n].op = "upsert"
         /\ statements[n].table \in Tables /\ statements[n].key \in KeysOf(statements[n].table)
         /\ statements[n].row = snapshot[statements[n].table][statements[n].key]
         /\ statements[n].row \in SyncRow /\ Exported(statements[n].table, statements[n].row)
<1>1. snapshot \in LocalTables
  BY StatementsAre
<1>2. PICK r \in ExportedRows(snapshot) : statements[n] = Upsert(r, snapshot)
  BY StatementsAre
<1>3. /\ statements[n].op = "upsert" /\ statements[n].table = SyncTables[r[1]] /\ statements[n].key = r[2]
      /\ statements[n].row = snapshot[SyncTables[r[1]]][r[2]]
  BY <1>2 DEF Upsert
<1> QED
  BY <1>1, <1>3, RowOfTable

\* A statement after the data is one of the prune's, in their order.
LEMMA PlaceInPrune ==
  ASSUME FilesOfSnapshot, statements # <<>>, NEW n \in 1 .. Len(statements), n > Data(snapshot)
  PROVE  /\ pruning
         /\ \/ n = Data(snapshot) + 1 /\ statements[n].op = "create"
            \/ n = Data(snapshot) + 2 /\ statements[n].op = "clear"
            \/ /\ n \in Data(snapshot) + 3 .. Data(snapshot) + Chunks(snapshot) + 2
               /\ statements[n].op = "stage" /\ statements[n].ids \subseteq KeysOf("competitions")
            \/ n = Data(snapshot) + Chunks(snapshot) + 3 /\ statements[n].op = "delete"
            \/ n = Data(snapshot) + Chunks(snapshot) + 4 /\ statements[n].op = "drop"
<1> DEFINE d == Data(snapshot)
           c == Chunks(snapshot)
<1>1. d \in Nat /\ c \in Nat /\ Len(statements) = (IF pruning THEN d + c + 4 ELSE d) /\ n > d
  BY StatementsAre
<1> HIDE DEF d, c
<1>2. pruning /\ n \in d + 1 .. d + c + 4
  BY <1>1
<1>3. \/ n = d + 1
      \/ n = d + 2
      \/ n \in d + 3 .. d + c + 2 /\ (n - d - 2) \in 1 .. c /\ n = d + (n - d - 2) + 2
      \/ n = d + c + 3
      \/ n = d + c + 4
  BY <1>1, <1>2
<1>4. /\ statements[d + 1].op = "create" /\ statements[d + 2].op = "clear"
      /\ \A i \in 1 .. c : /\ statements[d + i + 2].op = "stage"
                           /\ statements[d + i + 2].ids \subseteq KeysOf("competitions")
      /\ statements[d + c + 3].op = "delete" /\ statements[d + c + 4].op = "drop"
  BY <1>2, StatementsAre DEF d, c
<1> QED
  BY <1>2, <1>3, <1>4 DEF d, c

-----------------------------------------------------------------------------
(* Running them *)

\* What an upsert makes of a row: the exported one, but of a queue row only the worker's columns.
LEMMA UpsertedIs ==
  ASSUME NEW t \in Tables, NEW old \in SyncRow \cup {NoRow}, NEW row \in SyncRow, Exported(t, row),
         t = Queue /\ old # NoRow => old.origin \in {"worker_diagnostic", "submission"}
  PROVE  LET new == Upserted(t, old, row)
         IN  /\ new \in SyncRow /\ new # NoRow
             /\ t # Queue => new = row
             /\ t = Queue => /\ new.origin \in {"worker_diagnostic", "submission"}
                             /\ new.origin = "submission" \/ new.facts = row.facts
                             /\ old # NoRow => new.origin = old.origin /\ new.status = old.status
<1>1. NoRow \notin SyncRow
  BY SyncAssumption
<1>2. row # NoRow /\ (t = Queue => row.origin = "worker_diagnostic")
  BY DEF Exported
<1>3. CASE old = NoRow \/ t # Queue
  <2>1. Upserted(t, old, row) = row
    BY <1>3 DEF Upserted
  <2> QED
    BY <1>1, <1>2, <1>3, <2>1
<1>4. CASE old # NoRow /\ t = Queue /\ old.origin = "worker_diagnostic"
  <2>1. Upserted(t, old, row) = [old EXCEPT !.facts = row.facts]
    BY <1>4 DEF Upserted
  <2>2. old \in SyncRow
    BY <1>4
  <2> DEFINE new == [old EXCEPT !.facts = row.facts]
  <2>3. new \in SyncRow /\ new.origin = old.origin /\ new.status = old.status /\ new.facts = row.facts
    BY <2>2 DEF SyncRow
  <2> HIDE DEF new
  <2> QED
    BY <1>1, <1>4, <2>1, <2>3 DEF new
<1>5. CASE old # NoRow /\ t = Queue /\ old.origin # "worker_diagnostic"
  <2>1. Upserted(t, old, row) = old
    BY <1>5 DEF Upserted
  <2> QED
    BY <1>1, <1>5, <2>1
<1> QED
  BY <1>3, <1>4, <1>5

\* The sync starts with nothing on D1.
LEMMA MirrorInit ==
  ASSUME SyncInit
  PROVE  MirrorInv
<1>1. NoRows = [t \in Tables |-> [k \in KeysOf(t) |-> NoRow]] /\ Queue \in Tables /\ "competitions" \in Tables
  BY DEF NoRows, Tables, SyncTables, Queue
<1>2. SyncShape
  BY <1>1 DEF SyncInit, SyncShape
<1>3. FilesOfSnapshot
  BY DEF SyncInit, FilesOfSnapshot
<1>4. UpsertsInForce /\ StagedSoFar /\ Pruned
  BY DEF SyncInit, UpsertsInForce, StagedSoFar, Pruned
<1>5. VisitorsStand
  BY <1>1 DEF SyncInit, VisitorsStand
<1>6. PinnedStand
  BY DEF SyncInit, PinnedStand
<1> QED
  BY <1>2, <1>3, <1>4, <1>5, <1>6 DEF MirrorInv

\* An export begins anew: none of its statements has run.
LEMMA RunExportKeeps ==
  ASSUME MirrorInv, NEW prune \in BOOLEAN, RunExport(prune)
  PROVE  MirrorInv'
<1> USE DEF MirrorInv
<1>1. UNCHANGED <<local, drifted, remote, staging, pinned, spared, theirs, visits, reruns>> /\ exports' \in Nat
  BY DEF RunExport, SyncShape
<1>2. VisitorsStand' /\ PinnedStand'
  BY <1>1 DEF VisitorsStand, PinnedStand
<1>3. CASE UNCHANGED <<exported, at>>
  <2>1. UNCHANGED <<statements, begins, snapshot, pruning, at>>
    BY <1>3 DEF exported
  <2>2. SyncShape' /\ FilesOfSnapshot' /\ UpsertsInForce' /\ StagedSoFar' /\ Pruned'
    BY <1>1, <2>1 DEF SyncShape, FilesOfSnapshot, UpsertsInForce, Holds, StagedSoFar, Pruned
  <2> QED
    BY <1>2, <2>2
<1>4. CASE /\ statements' = PlanFiles(local, prune) /\ begins' = FileBegins(local, prune)
           /\ snapshot' = local /\ pruning' = prune /\ at' = 1
  <2>1. local \in LocalTables
    BY DEF SyncShape
  <2>2. FilesOfSnapshot'
    BY <1>4, <2>1 DEF FilesOfSnapshot
  <2>3. Data(local) \in Nat /\ Chunks(local) \in Nat /\ Len(PlanFiles(local, prune)) \in Nat
    BY <2>1, RowsFinite, PrunePlan, PlanIs
  <2>4. SyncShape'
    BY <1>1, <1>4, <2>3 DEF SyncShape
  <2>5. StagedSoFar' /\ Pruned'
    <3>1. 1 \notin Data(local) + 3 .. DeleteAt(local) /\ ~(1 > DeleteAt(local))
      BY <2>3 DEF DeleteAt
    <3> QED
      BY <1>4, <3>1 DEF StagedSoFar, Pruned
  <2>6. UpsertsInForce'
    BY <1>4, <2>3 DEF UpsertsInForce
  <2> QED
    BY <1>2, <2>2, <2>4, <2>5, <2>6
<1> QED
  BY <1>3, <1>4 DEF RunExport

\* What happens to the local database changes nothing on D1.
LEMMA LocalKeeps ==
  ASSUME MirrorInv, WriteLocal \/ MigrateLocal
  PROVE  MirrorInv'
<1>1. /\ UNCHANGED <<remote, staging, pinned, statements, begins, snapshot, pruning, at, spared, theirs,
                      exports, visits, reruns>>
      /\ local' \in LocalTables /\ drifted' \in BOOLEAN
  BY DEF MirrorInv, SyncShape, WriteLocal, MigrateLocal, exported, syncCounters
<1>2. SyncShape'
  BY <1>1 DEF MirrorInv, SyncShape
<1>3. FilesOfSnapshot' /\ UpsertsInForce' /\ StagedSoFar' /\ Pruned' /\ VisitorsStand' /\ PinnedStand'
  BY <1>1 DEF MirrorInv, FilesOfSnapshot, UpsertsInForce, Holds, StagedSoFar, Pruned, VisitorsStand, PinnedStand
<1> QED
  BY <1>2, <1>3 DEF MirrorInv

\* Running files again starts before anything that matters to what is staged.
LEMMA RerunKeeps ==
  ASSUME MirrorInv, Rerun
  PROVE  MirrorInv'
<1> USE DEF MirrorInv
<1>1. /\ UNCHANGED <<local, drifted, remote, staging, pinned, statements, begins, snapshot, pruning, spared,
                     theirs, exports, visits>>
      /\ at' \in begins /\ at' < at /\ reruns' \in Nat
  BY DEF Rerun, exported, SyncShape
<1>2. statements # <<>>
  <2>1. begins # {}
    BY <1>1
  <2>2. ASSUME statements = <<>> PROVE FALSE
    <3>1. Len(statements) = 0 /\ at \in 1 .. Len(statements) + 1
      BY <2>2 DEF SyncShape
    <3>2. at = 1
      BY <3>1
    <3>3. at' \in Nat \ {0}
      <4>1. begins = {} \/ begins \subseteq 1 .. Len(statements)
        BY PlanIs DEF FilesOfSnapshot
      <4> QED
        BY <1>1, <3>1, <4>1
    <3> QED
      BY <1>1, <3>2, <3>3
  <2> QED
    BY <2>2
<1>3. at' \in 1 .. Data(snapshot) + 1 /\ at' \in 1 .. Len(statements) /\ Data(snapshot) \in Nat
  BY <1>1, <1>2, StatementsAre
<1>4. FilesOfSnapshot' /\ VisitorsStand' /\ PinnedStand'
  BY <1>1 DEF FilesOfSnapshot, VisitorsStand, PinnedStand
<1>5. SyncShape'
  BY <1>1, <1>2, <1>3, StatementsAre DEF SyncShape
<1>6. StagedSoFar' /\ Pruned'
  <2>1. Chunks(snapshot) \in Nat
    BY <1>2, StatementsAre
  <2>2. at' \notin Data(snapshot) + 3 .. DeleteAt(snapshot) /\ ~(at' > DeleteAt(snapshot))
    BY <1>3, <2>1 DEF DeleteAt
  <2> QED
    BY <1>1, <2>2 DEF StagedSoFar, Pruned
<1>7. UpsertsInForce'
  <2>1. at \in Nat
    BY DEF SyncShape
  <2>2. \A n \in 1 .. Data(snapshot) : n < at' => n < at
    BY <1>1, <1>3, <2>1
  <2> QED
    BY <1>1, <1>2, <2>2 DEF UpsertsInForce, Holds
<1> QED
  BY <1>4, <1>5, <1>6, <1>7

\* What a running statement leaves alone.
LEMMA RunFrame ==
  ASSUME MirrorInv, RunStatement
  PROVE  /\ UNCHANGED <<local, drifted, pinned, statements, begins, snapshot, pruning, theirs, exports, visits,
                        reruns>>
         /\ at' = at + 1 /\ statements # <<>> /\ at \in 1 .. Len(statements) /\ FilesOfSnapshot /\ FilesOfSnapshot'
         /\ at + 1 \in 1 .. Len(statements) + 1 /\ Len(statements) \in Nat
<1>1. /\ UNCHANGED <<local, drifted, pinned, statements, begins, snapshot, pruning, theirs, exports, visits,
                     reruns>>
      /\ at' = at + 1 /\ statements # <<>> /\ ~Done
  BY DEF RunStatement, exported, syncCounters
<1>2. FilesOfSnapshot /\ FilesOfSnapshot'
  BY <1>1 DEF MirrorInv, FilesOfSnapshot
<1>3. Len(statements) \in Nat
  BY <1>1, <1>2, StatementsAre
<1>4. at \in 1 .. Len(statements)
  BY <1>1, <1>3 DEF MirrorInv, SyncShape, Done
<1> QED
  BY <1>1, <1>2, <1>3, <1>4

\* Upserting, in the course of the files.
LEMMA RunUpsertKeeps ==
  ASSUME MirrorInv, RunStatement, RunUpsert
  PROVE  MirrorInv'
<1> DEFINE d == Data(snapshot)
           c == Chunks(snapshot)
           t == Current.table
           k == Current.key
           row == Current.row
           old == remote[t][k]
           new == Upserted(t, old, row)
<1> USE RunFrame
<1>1. d \in Nat /\ c \in Nat /\ Len(statements) = (IF pruning THEN d + c + 4 ELSE d) /\ pruning \in BOOLEAN
  BY StatementsAre
<1>2. at \in 1 .. d
  <2> SUFFICES ASSUME at \notin 1 .. d PROVE FALSE
    OBVIOUS
  <2>1. at > Data(snapshot)
    BY <1>1 DEF d
  <2>2. Current.op \in {"create", "clear", "stage", "delete", "drop"}
    BY <2>1, PlaceInPrune DEF Current
  <2> QED
    BY <2>2 DEF RunUpsert
<1>3. /\ t \in Tables /\ k \in KeysOf(t) /\ row = snapshot[t][k] /\ row \in SyncRow /\ Exported(t, row)
  BY <1>2, UpsertsAre DEF Current
<1>4. /\ remote' = [remote EXCEPT ![t][k] = new] /\ UNCHANGED <<staging, spared>>
  BY DEF RunUpsert
<1>5. /\ DOMAIN remote = Tables /\ \A s \in Tables : remote[s] \in [KeysOf(s) -> SyncRow \cup {NoRow}]
      /\ old \in SyncRow \cup {NoRow}
  BY <1>3 DEF MirrorInv, SyncShape
<1>6. t = Queue /\ old # NoRow => old.origin \in {"worker_diagnostic", "submission"}
  BY <1>3 DEF MirrorInv, VisitorsStand
<1>7. /\ new \in SyncRow /\ new # NoRow
      /\ t # Queue => new = row
      /\ t = Queue => /\ new.origin \in {"worker_diagnostic", "submission"}
                      /\ new.origin = "submission" \/ new.facts = row.facts
                      /\ old # NoRow => new.origin = old.origin /\ new.status = old.status
  BY <1>3, <1>5, <1>6, UpsertedIs
<1> HIDE DEF t, k, row, new, d, c
<1>8. /\ DOMAIN remote' = Tables
      /\ \A s \in Tables : remote'[s] \in [KeysOf(s) -> SyncRow \cup {NoRow}]
      /\ remote'[t][k] = new
      /\ \A s \in Tables : \A j \in KeysOf(s) : (s # t \/ j # k) => remote'[s][j] = remote[s][j]
  BY <1>3, <1>4, <1>5, <1>7
<1>9. SyncShape'
  BY <1>4, <1>8 DEF MirrorInv, SyncShape
<1>10. UpsertsInForce'
  <2> SUFFICES ASSUME NEW n \in 1 .. d, n < at + 1
               PROVE  Holds(statements[n].table, statements[n].key, statements[n].row)'
    BY DEF UpsertsInForce, d
  <2>1. /\ statements[n].table \in Tables /\ statements[n].key \in KeysOf(statements[n].table)
        /\ statements[n].row = snapshot[statements[n].table][statements[n].key]
    BY UpsertsAre DEF d
  <2>2. CASE statements[n].table = t /\ statements[n].key = k
    <3>1. statements[n].row = row
      BY <1>3, <2>1, <2>2
    <3> QED
      BY <1>7, <1>8, <2>2, <3>1 DEF Holds
  <2>3. CASE statements[n].table # t \/ statements[n].key # k
    <3>1. n # at
      BY <2>3 DEF t, k, Current
    <3>2. n < at
      BY <1>1, <3>1
    <3>3. Holds(statements[n].table, statements[n].key, statements[n].row)
      BY <3>2 DEF MirrorInv, UpsertsInForce, d
    <3>4. remote'[statements[n].table][statements[n].key] = remote[statements[n].table][statements[n].key]
      BY <1>8, <2>1, <2>3
    <3> QED
      BY <3>3, <3>4 DEF Holds
  <2> QED
    BY <2>2, <2>3
<1>11. StagedSoFar' /\ Pruned'
  <2>1. at' \notin d + 3 .. DeleteAt(snapshot) /\ ~(at' > DeleteAt(snapshot))
    BY <1>1, <1>2 DEF DeleteAt, d, c
  <2> QED
    BY <2>1 DEF StagedSoFar, Pruned, d
<1>12. VisitorsStand'
  <2> SUFFICES ASSUME NEW q \in KeysOf(Queue)
               PROVE  /\ remote'[Queue][q] # NoRow => remote'[Queue][q].origin \in {"worker_diagnostic", "submission"}
                      /\ theirs[q] # NoRow =>
                           remote'[Queue][q] # NoRow /\ remote'[Queue][q].origin = theirs[q].origin
                             /\ remote'[Queue][q].status = theirs[q].status
    BY DEF VisitorsStand
  <2>1. /\ remote[Queue][q] # NoRow => remote[Queue][q].origin \in {"worker_diagnostic", "submission"}
        /\ theirs[q] # NoRow =>
             remote[Queue][q] # NoRow /\ remote[Queue][q].origin = theirs[q].origin
               /\ remote[Queue][q].status = theirs[q].status
    BY DEF MirrorInv, VisitorsStand
  <2>2. Queue \in Tables
    BY DEF Queue, Tables, SyncTables
  <2>3. CASE t = Queue /\ k = q
    BY <1>7, <1>8, <2>1, <2>3
  <2>4. CASE t # Queue \/ k # q
    BY <1>8, <2>1, <2>2, <2>4
  <2> QED
    BY <2>3, <2>4
<1>13. PinnedStand'
  <2>1. "competitions" \in Tables
    BY DEF Tables, SyncTables
  <2>2. \A j \in KeysOf("competitions") :
          remote["competitions"][j] # NoRow => remote'["competitions"][j] # NoRow
    BY <1>7, <1>8, <2>1
  <2> QED
    BY <1>5, <1>8, <2>1, <2>2 DEF MirrorInv, PinnedStand, Present
<1> QED
  BY <1>9, <1>10, <1>11, <1>12, <1>13 DEF MirrorInv

\* Filling and emptying the scratch table.
LEMMA RunStageKeeps ==
  ASSUME MirrorInv, RunStatement, RunStage
  PROVE  MirrorInv'
<1> DEFINE d == Data(snapshot)
           c == Chunks(snapshot)
<1> USE RunFrame
<1>1. d \in Nat /\ c \in Nat /\ pruning \in BOOLEAN /\ at \in Nat
  BY StatementsAre
<1>2. UNCHANGED <<remote, spared>> /\ Current.op # "upsert" /\ Current.op # "delete"
  BY DEF RunStage
<1>3. at > d
  <2>1. at \notin 1 .. Data(snapshot)
    BY <1>2, UpsertsAre DEF Current
  <2> QED
    BY <1>1, <2>1
<1>4. /\ pruning
      /\ \/ at = d + 1 /\ Current.op = "create"
         \/ at = d + 2 /\ Current.op = "clear"
         \/ at \in d + 3 .. d + c + 2 /\ Current.op = "stage" /\ Current.ids \subseteq KeysOf("competitions")
         \/ at = d + c + 4 /\ Current.op = "drop"
  BY <1>2, <1>3, PlaceInPrune DEF Current
<1>5. staging' \subseteq KeysOf("competitions")
  BY <1>2, <1>4 DEF RunStage, MirrorInv, SyncShape
<1> HIDE DEF d, c
<1>6. StagedSoFar'
  <2> SUFFICES ASSUME at + 1 \in d + 3 .. d + c + 3
               PROVE  staging' = UNION {statements[n].ids : n \in d + 3 .. at}
    <3>1. at + 1 - 1 = at
      BY <1>1
    <3> QED
      BY <1>4, <3>1 DEF StagedSoFar, DeleteAt, d, c
  <2>1. CASE at = d + 2 /\ Current.op = "clear"
    <3>1. d + 3 .. at = {} /\ staging' = {}
      BY <1>1, <2>1 DEF RunStage
    <3> QED
      BY <3>1
  <2>2. CASE at \in d + 3 .. d + c + 2 /\ Current.op = "stage"
    <3>1. staging = UNION {statements[n].ids : n \in d + 3 .. at - 1}
      <4>1. at \in d + 3 .. DeleteAt(snapshot)
        BY <1>1, <2>2 DEF DeleteAt, d, c
      <4> QED
        BY <1>4, <4>1 DEF MirrorInv, StagedSoFar, d
    <3>2. staging' = staging \cup statements[at].ids
      BY <2>2 DEF RunStage, Current
    <3>3. d + 3 .. at = (d + 3 .. at - 1) \cup {at}
      BY <1>1, <2>2
    <3> QED
      BY <3>1, <3>2, <3>3
  <2> QED
    BY <1>1, <1>4, <2>1, <2>2
<1>7. Pruned'
  <2>1. at + 1 > d + c + 3 => at > d + c + 3
    BY <1>1, <1>4
  <2> QED
    BY <1>2, <1>4, <2>1 DEF Pruned, MirrorInv, DeleteAt, d, c
<1>8. UpsertsInForce'
  <2>1. \A n \in 1 .. d : n < at
    BY <1>1, <1>3
  <2> QED
    BY <1>2, <2>1 DEF MirrorInv, UpsertsInForce, Holds, d
<1>9. SyncShape' /\ VisitorsStand' /\ PinnedStand'
  BY <1>2, <1>5 DEF MirrorInv, SyncShape, VisitorsStand, PinnedStand
<1> QED
  BY <1>6, <1>7, <1>8, <1>9 DEF MirrorInv

\* The prune takes what neither the snapshot nor a visitor needs.
LEMMA RunDeleteKeeps ==
  ASSUME MirrorInv, RunStatement, RunDelete
  PROVE  MirrorInv'
<1> DEFINE d == Data(snapshot)
           c == Chunks(snapshot)
           mine == Present(snapshot["competitions"])
           gone == Present(remote["competitions"]) \ (staging \cup pinned)
           without(rows) == [k \in DOMAIN rows |-> IF k \in gone THEN NoRow ELSE rows[k]]
<1> USE RunFrame
<1>1. d \in Nat /\ c \in Nat /\ pruning \in BOOLEAN /\ at \in Nat /\ snapshot \in LocalTables
  BY StatementsAre
<1>2. /\ remote' = [remote EXCEPT !["competitions"] = without(@), !["ai_screening_results"] = without(@)]
      /\ spared' = pinned \ staging /\ staging' = staging /\ Current.op = "delete"
  BY DEF RunDelete
<1>3. pruning /\ at = d + c + 3
  <2>1. at \notin 1 .. Data(snapshot)
    BY <1>2, UpsertsAre DEF Current
  <2>2. at > Data(snapshot)
    BY <1>1, <2>1
  <2> QED
    BY <1>2, <2>2, PlaceInPrune DEF Current
<1>4. staging = mine
  <2>1. UNION {statements[d + i + 2].ids : i \in 1 .. c} = mine
    BY <1>3, StatementsAre
  <2>2. at \in d + 3 .. DeleteAt(snapshot)
    BY <1>1, <1>3 DEF DeleteAt
  <2>3. staging = UNION {statements[n].ids : n \in d + 3 .. at - 1}
    BY <1>3, <2>2 DEF MirrorInv, StagedSoFar
  <2> HIDE DEF d, c, mine
  <2>4. \A i \in 1 .. c : d + i + 2 \in d + 3 .. at - 1
    BY <1>1, <1>3
  <2>5. \A n \in d + 3 .. at - 1 : (n - d - 2) \in 1 .. c /\ n = d + (n - d - 2) + 2
    BY <1>1, <1>3
  <2> QED
    BY <2>1, <2>3, <2>4, <2>5
<1>5. /\ DOMAIN remote = Tables /\ \A t \in Tables : remote[t] \in [KeysOf(t) -> SyncRow \cup {NoRow}]
      /\ "competitions" \in Tables /\ "ai_screening_results" \in Tables /\ Queue \in Tables
      /\ Queue # "competitions" /\ Queue # "ai_screening_results"
  BY DEF MirrorInv, SyncShape, Tables, SyncTables, Queue
<1>6. /\ DOMAIN remote' = Tables
      /\ remote'["competitions"] = without(remote["competitions"])
      /\ remote'["ai_screening_results"] = without(remote["ai_screening_results"])
      /\ \A t \in Tables : t \notin {"competitions", "ai_screening_results"} => remote'[t] = remote[t]
  BY <1>2, <1>5
<1> HIDE DEF gone
<1>7. \A t \in Tables : /\ DOMAIN remote'[t] = KeysOf(t)
                        /\ \A k \in KeysOf(t) : k \notin gone => remote'[t][k] = remote[t][k]
                        /\ \A k \in KeysOf(t) : remote'[t][k] \in SyncRow \cup {NoRow}
  <2> SUFFICES ASSUME NEW t \in Tables
               PROVE  /\ DOMAIN remote'[t] = KeysOf(t)
                      /\ \A k \in KeysOf(t) : k \notin gone => remote'[t][k] = remote[t][k]
                      /\ \A k \in KeysOf(t) : remote'[t][k] \in SyncRow \cup {NoRow}
    OBVIOUS
  <2>1. remote'[t] = remote[t] \/ remote'[t] = without(remote[t])
    BY <1>6
  <2>2. remote[t] \in [KeysOf(t) -> SyncRow \cup {NoRow}]
    BY <1>5
  <2> QED
    BY <2>1, <2>2
<1>8. \A t \in Tables : remote'[t] \in [KeysOf(t) -> SyncRow \cup {NoRow}]
  <2> SUFFICES ASSUME NEW t \in Tables PROVE remote'[t] \in [KeysOf(t) -> SyncRow \cup {NoRow}]
    OBVIOUS
  <2>1. remote'[t] = remote[t] \/ remote'[t] = without(remote[t])
    BY <1>6
  <2>2. remote[t] \in [KeysOf(t) -> SyncRow \cup {NoRow}]
    BY <1>5
  <2> QED
    BY <2>1, <2>2
<1>9. SyncShape'
  <2>1. staging' \cup pinned' \cup spared' \subseteq KeysOf("competitions")
    BY <1>2 DEF MirrorInv, SyncShape
  <2> QED
    BY <1>6, <1>8, <2>1 DEF MirrorInv, SyncShape
<1>10. mine \cap gone = {} /\ Present(snapshot["ai_screening_results"]) \subseteq mine
  BY <1>1, <1>4, SyncAssumption DEF gone
<1>11. UpsertsInForce'
  <2> SUFFICES ASSUME NEW n \in 1 .. d
               PROVE  Holds(statements[n].table, statements[n].key, statements[n].row)'
    BY DEF UpsertsInForce
  <2> DEFINE t == statements[n].table
             k == statements[n].key
             row == statements[n].row
  <2>1. t \in Tables /\ k \in KeysOf(t) /\ row = snapshot[t][k] /\ row # NoRow
    BY UpsertsAre DEF Exported
  <2>2. Holds(t, k, row)
    <3>1. n < at
      BY <1>1, <1>3
    <3> QED
      BY <3>1 DEF MirrorInv, UpsertsInForce
  <2>3. remote'[t][k] = remote[t][k]
    <3>1. DOMAIN snapshot[t] = KeysOf(t)
      BY <1>1, <2>1, SyncAssumption
    <3>2. k \in Present(snapshot[t])
      BY <2>1, <3>1 DEF Present
    <3>3. CASE t \in {"competitions", "ai_screening_results"}
      <4>1. k \in mine
        BY <1>10, <3>2, <3>3
      <4> QED
        BY <1>7, <1>10, <2>1, <4>1
    <3>4. CASE t \notin {"competitions", "ai_screening_results"}
      BY <1>6, <2>1, <3>4
    <3> QED
      BY <3>3, <3>4
  <2> QED
    BY <2>2, <2>3 DEF Holds
<1>12. StagedSoFar'
  <2>1. at + 1 \notin d + 3 .. DeleteAt(snapshot)
    BY <1>1, <1>3 DEF DeleteAt
  <2> QED
    BY <2>1 DEF StagedSoFar
<1>13. Pruned'
  <2>1. ASSUME NEW k \in Present(remote'["competitions"]) PROVE k \in mine \cup spared'
    <3>1. k \in KeysOf("competitions") /\ remote'["competitions"][k] # NoRow
      BY <1>5, <1>7, <2>1 DEF Present
    <3>2. k \notin gone
      <4>1. DOMAIN remote["competitions"] = KeysOf("competitions")
        BY <1>5
      <4> QED
        BY <1>6, <3>1, <4>1
    <3>3. remote["competitions"][k] # NoRow
      BY <1>5, <1>7, <3>1, <3>2
    <3>4. k \in staging \cup pinned
      BY <1>5, <3>1, <3>2, <3>3 DEF gone, Present
    <3> QED
      BY <1>2, <1>4, <3>4
  <2> QED
    BY <2>1 DEF Pruned
<1>14. VisitorsStand'
  BY <1>5, <1>6 DEF MirrorInv, VisitorsStand
<1>15. PinnedStand'
  <2> SUFFICES ASSUME NEW k \in pinned PROVE k \in Present(remote'["competitions"])
    BY DEF PinnedStand
  <2>1. k \in KeysOf("competitions") /\ remote["competitions"][k] # NoRow
    BY <1>5 DEF MirrorInv, PinnedStand, Present
  <2>2. k \notin gone
    BY DEF gone
  <2> QED
    BY <1>5, <1>7, <2>1, <2>2 DEF Present
<1> QED
  BY <1>9, <1>11, <1>12, <1>13, <1>14, <1>15 DEF MirrorInv

-----------------------------------------------------------------------------
(* The remote side meanwhile *)

\* Visitors watch and unwatch.
LEMMA WatchKeeps ==
  ASSUME MirrorInv, NEW k \in KeysOf("competitions"), AddRemoteWatch(k) \/ RemoveRemoteWatch(k)
  PROVE  MirrorInv'
<1>1. /\ UNCHANGED <<local, drifted, remote, staging, statements, begins, snapshot, pruning, at, spared, theirs,
                     exports, reruns>>
      /\ visits' \in Nat
  BY DEF AddRemoteWatch, RemoveRemoteWatch, Visit, exported, MirrorInv, SyncShape
<1>2. \/ pinned' = pinned \cup {k} /\ remote["competitions"][k] # NoRow
      \/ pinned' = pinned \ {k}
  BY DEF AddRemoteWatch, RemoveRemoteWatch
<1>3. DOMAIN remote["competitions"] = KeysOf("competitions")
  <2>1. "competitions" \in Tables
    BY DEF Tables, SyncTables
  <2> QED
    BY <2>1 DEF MirrorInv, SyncShape
<1>4. PinnedStand'
  BY <1>1, <1>2, <1>3 DEF MirrorInv, PinnedStand, Present
<1>5. SyncShape'
  BY <1>1, <1>2 DEF MirrorInv, SyncShape
<1>6. FilesOfSnapshot' /\ UpsertsInForce' /\ StagedSoFar' /\ Pruned' /\ VisitorsStand'
  BY <1>1 DEF MirrorInv, FilesOfSnapshot, UpsertsInForce, Holds, StagedSoFar, Pruned, VisitorsStand
<1> QED
  BY <1>4, <1>5, <1>6 DEF MirrorInv

\* A visitor's write to the queue: a new row, or the status of one.
LEMMA QueueKeeps ==
  ASSUME MirrorInv, NEW q \in KeysOf(Queue), NEW new \in SyncRow,
         UNCHANGED <<local, drifted, staging, pinned, statements, begins, snapshot, pruning, at, spared,
                     exports, reruns>>,
         visits' \in Nat,
         remote' = [remote EXCEPT ![Queue][q] = new],
         theirs' = [theirs EXCEPT ![q] = [origin |-> new.origin, status |-> new.status]],
         new.origin \in {"worker_diagnostic", "submission"},
         remote[Queue][q] # NoRow => new.origin = remote[Queue][q].origin /\ new.facts = remote[Queue][q].facts
  PROVE  MirrorInv'
<1>1. NoRow \notin SyncRow /\ Queue \in Tables /\ Queue # "competitions" /\ "competitions" \in Tables
  BY SyncAssumption DEF Queue, Tables, SyncTables
<1>2. /\ DOMAIN remote = Tables /\ \A s \in Tables : remote[s] \in [KeysOf(s) -> SyncRow \cup {NoRow}]
      /\ DOMAIN theirs = KeysOf(Queue)
  BY DEF MirrorInv, SyncShape
<1>3. /\ DOMAIN remote' = Tables
      /\ \A s \in Tables : remote'[s] \in [KeysOf(s) -> SyncRow \cup {NoRow}]
      /\ remote'[Queue][q] = new /\ new # NoRow
      /\ \A s \in Tables : s # Queue => remote'[s] = remote[s]
      /\ \A j \in KeysOf(Queue) : j # q => remote'[Queue][j] = remote[Queue][j]
  BY <1>1, <1>2
<1>4. /\ DOMAIN theirs' = KeysOf(Queue) /\ theirs'[q] = [origin |-> new.origin, status |-> new.status]
      /\ \A j \in KeysOf(Queue) : j # q => theirs'[j] = theirs[j]
  BY <1>2
<1>5. SyncShape'
  BY <1>3, <1>4 DEF MirrorInv, SyncShape
<1>6. FilesOfSnapshot' /\ StagedSoFar'
  BY DEF MirrorInv, FilesOfSnapshot, StagedSoFar
<1>7. Pruned' /\ PinnedStand'
  BY <1>1, <1>3 DEF MirrorInv, Pruned, PinnedStand
<1>8. VisitorsStand'
  <2> SUFFICES ASSUME NEW j \in KeysOf(Queue)
               PROVE  /\ remote'[Queue][j] # NoRow => remote'[Queue][j].origin \in {"worker_diagnostic", "submission"}
                      /\ theirs'[j] # NoRow =>
                           remote'[Queue][j] # NoRow /\ remote'[Queue][j].origin = theirs'[j].origin
                             /\ remote'[Queue][j].status = theirs'[j].status
    BY DEF VisitorsStand
  <2>1. CASE j = q
    BY <1>3, <1>4, <2>1
  <2>2. CASE j # q
    BY <1>3, <1>4, <2>2 DEF MirrorInv, VisitorsStand
  <2> QED
    BY <2>1, <2>2
<1>9. UpsertsInForce'
  <2> SUFFICES ASSUME statements # <<>>, NEW n \in 1 .. Data(snapshot), n < at
               PROVE  Holds(statements[n].table, statements[n].key, statements[n].row)'
    BY DEF UpsertsInForce
  <2> DEFINE t == statements[n].table
             k == statements[n].key
             row == statements[n].row
  <2>1. t \in Tables /\ k \in KeysOf(t)
    BY UpsertsAre DEF MirrorInv
  <2>2. Holds(t, k, row)
    BY DEF MirrorInv, UpsertsInForce
  <2> HIDE DEF t, k, row
  <2>3. CASE t = Queue /\ k = q
    BY <1>3, <2>2, <2>3 DEF Holds, t, k, row
  <2>4. CASE ~(t = Queue /\ k = q)
    <3>1. remote'[t][k] = remote[t][k]
      BY <1>3, <2>1, <2>4
    <3> QED
      BY <2>2, <3>1 DEF Holds, t, k, row
  <2> QED
    BY <2>3, <2>4
<1> QED
  BY <1>5, <1>6, <1>7, <1>8, <1>9 DEF MirrorInv

\* An administrator decides, a visitor submits.
LEMMA VisitorsKeep ==
  ASSUME MirrorInv, NEW q \in KeysOf(Queue),
         Submit(q) \/ \E status \in QueueStatuses : DecideRemote(q, status)
  PROVE  MirrorInv'
<1>1. /\ UNCHANGED <<local, drifted, staging, pinned, statements, begins, snapshot, pruning, at, spared,
                     exports, reruns>>
      /\ visits' \in Nat
  BY DEF Submit, DecideRemote, Visit, exported, MirrorInv, SyncShape
<1>2. Queue \in Tables
  BY DEF Queue, Tables, SyncTables
<1>3. DOMAIN remote = Tables /\ remote[Queue] \in [KeysOf(Queue) -> SyncRow \cup {NoRow}]
  BY <1>2 DEF MirrorInv, SyncShape
<1>4. CASE Submit(q)
  <2> DEFINE new == [facts |-> 0, status |-> "pending", origin |-> "submission"]
  <2>1. new \in SyncRow /\ new.origin = "submission" /\ new.status = "pending"
    BY SyncAssumption DEF SyncRow
  <2>2. /\ remote' = [remote EXCEPT ![Queue][q] = new] /\ remote[Queue][q] = NoRow
        /\ theirs' = [theirs EXCEPT ![q] = [origin |-> "submission", status |-> "pending"]]
    BY <1>4 DEF Submit
  <2> HIDE DEF new
  <2>3. theirs' = [theirs EXCEPT ![q] = [origin |-> new.origin, status |-> new.status]]
    BY <2>1, <2>2
  <2> QED
    BY <1>1, <2>1, <2>2, <2>3, QueueKeeps
<1>5. CASE \E status \in QueueStatuses : DecideRemote(q, status)
  <2> PICK status \in QueueStatuses : DecideRemote(q, status)
    BY <1>5
  <2> DEFINE old == remote[Queue][q]
             new == [old EXCEPT !.status = status]
  <2>1. /\ remote' = [remote EXCEPT ![Queue][q].status = status] /\ old # NoRow
        /\ theirs' = [theirs EXCEPT ![q] = [origin |-> old.origin, status |-> status]]
    BY DEF DecideRemote
  <2>2. old \in SyncRow
    BY <1>3, <2>1
  <2>3. remote' = [remote EXCEPT ![Queue][q] = new]
    BY <2>1
  <2> HIDE DEF old
  <2>4. new \in SyncRow /\ new.origin = old.origin /\ new.status = status /\ new.facts = old.facts
    BY <2>2 DEF SyncRow
  <2> HIDE DEF new
  <2>5. theirs' = [theirs EXCEPT ![q] = [origin |-> new.origin, status |-> new.status]]
    BY <2>1, <2>4
  <2>6. old.origin \in {"worker_diagnostic", "submission"}
    BY <2>1 DEF MirrorInv, VisitorsStand, old
  <2> QED
    BY <1>1, <2>3, <2>4, <2>5, <2>6, QueueKeeps DEF old
<1> QED
  BY <1>4, <1>5

\* Every step of the sync keeps the invariant.
LEMMA MirrorStep ==
  ASSUME MirrorInv, [SyncNext]_syncVars
  PROVE  MirrorInv'
<1>1. ASSUME NEW prune \in BOOLEAN, RunExport(prune) PROVE MirrorInv'
  BY <1>1, RunExportKeeps
<1>2. CASE WriteLocal \/ MigrateLocal
  BY <1>2, LocalKeeps
<1>3. CASE RunStatement
  BY <1>3, RunUpsertKeeps, RunStageKeeps, RunDeleteKeeps DEF RunStatement
<1>4. CASE Rerun
  BY <1>4, RerunKeeps
<1>5. ASSUME NEW k \in KeysOf("competitions"), AddRemoteWatch(k) \/ RemoveRemoteWatch(k) PROVE MirrorInv'
  BY <1>5, WatchKeeps
<1>6. ASSUME NEW q \in KeysOf(Queue), Submit(q) \/ \E status \in QueueStatuses : DecideRemote(q, status)
      PROVE  MirrorInv'
  BY <1>6, VisitorsKeep
<1>7. CASE UNCHANGED syncVars
  BY <1>7 DEF syncVars, MirrorInv, SyncShape, FilesOfSnapshot, UpsertsInForce, Holds, StagedSoFar, Pruned,
              VisitorsStand, PinnedStand
<1> QED
  BY <1>1, <1>2, <1>3, <1>4, <1>5, <1>6, <1>7 DEF SyncNext

\* When the last file has run, D1 has every exported row and, with --prune, no competition beyond those
\* of the snapshot and the pinned ones; decisions, submissions and watched competitions stand at all
\* times: for any tables, sizes and limits, wherever files are cut, whatever is run again and whatever
\* visitors do meanwhile (planFiles, buildUpsertStatement, buildPruneStatements).
THEOREM RemoteMirrors == SyncSpec => []D1Mirror
<1>1. MirrorInv => D1Mirror
  <2> SUFFICES ASSUME MirrorInv PROVE D1Mirror
    OBVIOUS
  <2> USE DEF MirrorInv
  <2>1. ASSUME Done
        PROVE  /\ \A t \in Tables : \A k \in KeysOf(t) : Exported(t, snapshot[t][k]) => Holds(t, k, snapshot[t][k])
               /\ pruning => Present(remote["competitions"]) \subseteq Present(snapshot["competitions"]) \cup spared
    <3>1. /\ statements # <<>> /\ snapshot \in LocalTables /\ Data(snapshot) \in Nat /\ Chunks(snapshot) \in Nat
          /\ Len(statements) = (IF pruning THEN Data(snapshot) + Chunks(snapshot) + 4 ELSE Data(snapshot))
          /\ pruning \in BOOLEAN /\ at \in Nat /\ at > Len(statements)
      BY <2>1, StatementsAre DEF Done, SyncShape
    <3>2. at > Data(snapshot) /\ (pruning => at > DeleteAt(snapshot))
      BY <3>1 DEF DeleteAt
    <3>3. ASSUME NEW t \in Tables, NEW k \in KeysOf(t), Exported(t, snapshot[t][k])
          PROVE  Holds(t, k, snapshot[t][k])
      <4>1. PICK r \in ExportedRows(snapshot) : SyncTables[r[1]] = t /\ r[2] = k
        BY <3>1, <3>3, TableOfRow
      <4>2. PICK n \in 1 .. Data(snapshot) : statements[n] = Upsert(r, snapshot)
        BY <3>1, StatementsAre
      <4>3. statements[n].table = t /\ statements[n].key = k /\ statements[n].row = snapshot[t][k]
        BY <4>1, <4>2 DEF Upsert
      <4>4. n < at
        BY <3>1, <3>2
      <4> QED
        BY <3>1, <4>3, <4>4 DEF UpsertsInForce
    <3> QED
      BY <3>1, <3>2, <3>3 DEF Pruned
  <2>2. \A q \in KeysOf(Queue) : theirs[q] # NoRow =>
          remote[Queue][q] # NoRow /\ remote[Queue][q].origin = theirs[q].origin
            /\ remote[Queue][q].status = theirs[q].status
    BY DEF VisitorsStand
  <2>3. pinned \subseteq Present(remote["competitions"])
    BY DEF PinnedStand
  <2> QED
    BY <2>1, <2>2, <2>3 DEF D1Mirror, Holds
<1> QED
  BY <1>1, MirrorInit, MirrorStep, PTL DEF SyncSpec

\* The invariant of the export gives its types.
LEMMA SyncTyped == MirrorInv => SyncTypeOK
<1> SUFFICES ASSUME MirrorInv PROVE SyncTypeOK
  OBVIOUS
<1>1. begins \subseteq 1 .. Len(statements)
  BY PlanIs DEF MirrorInv, FilesOfSnapshot
<1>2. snapshot \in LocalTables \cup {NoRows} /\ pruning \in BOOLEAN
  BY DEF MirrorInv, FilesOfSnapshot
<1> QED
  BY <1>1, <1>2 DEF MirrorInv, SyncShape, SyncTypeOK

\* The tables on D1, the scratch table and the place in the files keep their types.
THEOREM SyncTypes == SyncSpec => []SyncTypeOK
<1>1. MirrorInv => SyncTypeOK
  BY SyncTyped
<1> QED
  BY <1>1, MirrorInit, MirrorStep, PTL DEF SyncSpec

-----------------------------------------------------------------------------
(* THE LIST OF THE DISCOVER PAGE: members in an order *)

\* A relation orders a set strictly: no member is ahead of itself, and of two one is ahead.
StrictOrder(R, S) ==
  /\ \A x \in S : <<x, x>> \notin R
  /\ \A x, y, z \in S : <<x, y>> \in R /\ <<y, z>> \in R => <<x, z>> \in R
  /\ \A x, y \in S : x # y => <<x, y>> \in R \/ <<y, x>> \in R
AheadOf(x, S, R) == {y \in S : <<y, x>> \in R}

\* Of a finite set in a strict order, exactly one member has n - 1 others ahead of it.
LEMMA PlacesAreTaken ==
  ASSUME NEW S, IsFiniteSet(S), NEW R, StrictOrder(R, S)
  PROVE  /\ \A n \in 1 .. Cardinality(S) : \E x \in S : Cardinality(AheadOf(x, S, R)) = n - 1
         /\ \A x \in S : \E n \in 1 .. Cardinality(S) : Cardinality(AheadOf(x, S, R)) = n - 1
         /\ \A x, y \in S : Cardinality(AheadOf(x, S, R)) = Cardinality(AheadOf(y, S, R)) => x = y
<1> DEFINE rank(x) == Cardinality(AheadOf(x, S, R))
           total == Cardinality(S)
<1>0. total \in Nat
  BY FS_CardinalityType
<1>1. ASSUME NEW x \in S PROVE AheadOf(x, S, R) \subseteq S \ {x}
  BY DEF AheadOf, StrictOrder
<1>2. ASSUME NEW x \in S
      PROVE  IsFiniteSet(AheadOf(x, S, R)) /\ rank(x) \in Nat /\ rank(x) + 1 \in 1 .. total
  <2>1. IsFiniteSet(S \ {x}) /\ Cardinality(S \ {x}) = total - 1
    BY FS_RemoveElement
  <2>2. IsFiniteSet(AheadOf(x, S, R)) /\ rank(x) <= total - 1
    BY <1>1, <2>1, FS_Subset
  <2>3. rank(x) \in Nat
    BY <2>2, FS_CardinalityType
  <2> QED
    BY <1>0, <2>2, <2>3
<1>3. ASSUME NEW x \in S, NEW y \in S, x \in AheadOf(y, S, R) PROVE rank(x) # rank(y)
  <2>1. AheadOf(x, S, R) \subseteq AheadOf(y, S, R)
    BY <1>3 DEF AheadOf, StrictOrder
  <2>2. x \notin AheadOf(x, S, R)
    BY <1>1
  <2> QED
    BY <1>2, <1>3, <2>1, <2>2, FS_Subset
<1>4. ASSUME NEW x \in S, NEW y \in S, x # y PROVE rank(x) # rank(y)
  <2>1. x \in AheadOf(y, S, R) \/ y \in AheadOf(x, S, R)
    BY <1>4 DEF AheadOf, StrictOrder
  <2> QED
    BY <1>3, <2>1
<1> DEFINE place == [x \in S |-> rank(x) + 1]
<1> HIDE DEF rank, total
<1>5. place \in [S -> 1 .. total]
  BY <1>2
<1>6. \A x, y \in S : place[x] = place[y] => x = y
  BY <1>2, <1>4
<1>7. place \in Injection(S, 1 .. total)
  BY <1>5, <1>6 DEF Injection, IsInjective
<1>8. IsFiniteSet(1 .. total) /\ Cardinality(1 .. total) = total
  BY <1>0, FS_Interval
<1>9. place \in Surjection(S, 1 .. total)
  BY <1>7, <1>8, FS_Injection DEF total
<1>10. ASSUME NEW n \in 1 .. total PROVE \E x \in S : rank(x) = n - 1
  <2>1. \E x \in S : place[x] = n
    BY <1>9 DEF Surjection
  <2> QED
    BY <1>0, <1>2, <2>1
<1>11. ASSUME NEW x \in S PROVE \E n \in 1 .. total : rank(x) = n - 1
  <2>1. rank(x) + 1 \in 1 .. total /\ rank(x) = (rank(x) + 1) - 1
    BY <1>0, <1>2
  <2> QED
    BY <2>1
<1> QED
  BY <1>4, <1>10, <1>11 DEF rank, total

\* A function on 1 .. n is a sequence of that length.
LEMMA FunctionIsList ==
  ASSUME NEW S, NEW n \in Nat, NEW f \in [1 .. n -> S]
  PROVE  f \in Seq(S) /\ Len(f) = n
OBVIOUS

\* At the n-th place there is a member with n - 1 ahead of it, if there is one.
Arrangement(list, S, R) ==
  /\ list = [n \in 1 .. Cardinality(S) |-> list[n]]
  /\ \A n \in 1 .. Cardinality(S) :
       (\E x \in S : Cardinality(AheadOf(x, S, R)) = n - 1) =>
          list[n] \in S /\ Cardinality(AheadOf(list[n], S, R)) = n - 1

\* A list that has at its n-th place a member with n - 1 ahead of it has each member once.
LEMMA ArrangedOnce ==
  ASSUME NEW S, IsFiniteSet(S), NEW R, StrictOrder(R, S),
         NEW list, Arrangement(list, S, R)
  PROVE  /\ Cardinality(S) \in Nat /\ list \in Seq(S) /\ Len(list) = Cardinality(S)
         /\ \A n \in 1 .. Len(list) : list[n] \in S /\ Cardinality(AheadOf(list[n], S, R)) = n - 1
         /\ \A m, n \in 1 .. Len(list) : list[m] = list[n] => m = n
         /\ \A x \in S : \E n \in 1 .. Len(list) : list[n] = x
<1>1. Cardinality(S) \in Nat
  BY FS_CardinalityType
<1>2. ASSUME NEW n \in 1 .. Cardinality(S)
      PROVE  list[n] \in S /\ Cardinality(AheadOf(list[n], S, R)) = n - 1
  BY PlacesAreTaken DEF Arrangement
<1>3. list \in [1 .. Cardinality(S) -> S]
  BY <1>2 DEF Arrangement
<1>4. list \in Seq(S) /\ Len(list) = Cardinality(S)
  BY <1>1, <1>3, FunctionIsList
<1>5. \A m, n \in 1 .. Len(list) : list[m] = list[n] => m = n
  <2>1. ASSUME NEW m \in 1 .. Len(list), NEW n \in 1 .. Len(list), list[m] = list[n] PROVE m = n
    <3>1. m - 1 = n - 1 /\ m \in Int /\ n \in Int
      BY <1>1, <1>2, <1>4, <2>1
    <3> QED
      BY <3>1
  <2> QED
    BY <2>1
<1>6. ASSUME NEW x \in S PROVE \E n \in 1 .. Len(list) : list[n] = x
  <2>1. PICK n \in 1 .. Cardinality(S) : Cardinality(AheadOf(x, S, R)) = n - 1
    BY PlacesAreTaken
  <2>2. list[n] = x
    BY <1>2, <2>1, PlacesAreTaken
  <2> QED
    BY <1>4, <2>2
<1> QED
  BY <1>1, <1>2, <1>4, <1>5, <1>6

\* Min and Max of two numbers.
LEMMA LeastOfTwo == \A m, n \in Int : Min({m, n}) = IF m < n THEN m ELSE n
<1> SUFFICES ASSUME NEW m \in Int, NEW n \in Int PROVE Min({m, n}) = IF m < n THEN m ELSE n
  OBVIOUS
<1>1. \E x \in {m, n} : \A y \in {m, n} : x =< y
  OBVIOUS
<1>2. Min({m, n}) \in {m, n} /\ \A y \in {m, n} : Min({m, n}) =< y
  BY <1>1 DEF Min
<1> QED
  BY <1>2

\* The greatest of two numbers.
LEMMA GreatestOfTwo == \A m, n \in Int : Max({m, n}) = IF m < n THEN n ELSE m
<1> SUFFICES ASSUME NEW m \in Int, NEW n \in Int PROVE Max({m, n}) = IF m < n THEN n ELSE m
  OBVIOUS
<1>1. \E x \in {m, n} : \A y \in {m, n} : x >= y
  OBVIOUS
<1>2. Max({m, n}) \in {m, n} /\ \A y \in {m, n} : Max({m, n}) >= y
  BY <1>1 DEF Max
<1> QED
  BY <1>2

\* Columns compared from the first on: a strict order, and of two that differ one is ahead.
LEMMA AheadIsOrder ==
  ASSUME NEW k \in Nat
  PROVE  /\ \A x \in [1 .. k -> Int] : ~Ahead(x, x)
         /\ \A x, y, z \in [1 .. k -> Int] : Ahead(x, y) /\ Ahead(y, z) => Ahead(x, z)
         /\ \A x, y \in [1 .. k -> Int] : x # y => Ahead(x, y) \/ Ahead(y, x)
<1>1. \A x \in [1 .. k -> Int] : ~Ahead(x, x)
  BY DEF Ahead
<1>2. ASSUME NEW x \in [1 .. k -> Int], NEW y \in [1 .. k -> Int], NEW z \in [1 .. k -> Int], Ahead(x, y), Ahead(y, z)
      PROVE  Ahead(x, z)
  <2>1. PICK i \in 1 .. k : x[i] < y[i] /\ \A h \in 1 .. i - 1 : x[h] = y[h]
    BY <1>2 DEF Ahead
  <2>2. PICK j \in 1 .. k : y[j] < z[j] /\ \A h \in 1 .. j - 1 : y[h] = z[h]
    BY <1>2 DEF Ahead
  <2>3. ASSUME NEW h \in 1 .. k PROVE x[h] \in Int /\ y[h] \in Int /\ z[h] \in Int
    OBVIOUS
  <2>4. CASE i <= j
    <3>1. x[i] < z[i]
      <4>1. CASE i = j
        BY <2>1, <2>2, <2>3, <4>1
      <4>2. CASE i < j
        <5>1. y[i] = z[i]
          BY <2>2, <4>2
        <5> QED
          BY <2>1, <5>1
      <4> QED
        BY <2>4, <4>1, <4>2
    <3>2. \A h \in 1 .. i - 1 : x[h] = z[h]
      BY <2>1, <2>2, <2>4
    <3> QED
      BY <3>1, <3>2 DEF Ahead
  <2>5. CASE j < i
    <3>1. x[j] = y[j] /\ x[j] < z[j]
      BY <2>1, <2>2, <2>5
    <3>2. \A h \in 1 .. j - 1 : x[h] = z[h]
      BY <2>1, <2>2, <2>5
    <3> QED
      BY <3>1, <3>2 DEF Ahead
  <2> QED
    BY <2>4, <2>5
<1>3. ASSUME NEW x \in [1 .. k -> Int], NEW y \in [1 .. k -> Int], x # y PROVE Ahead(x, y) \/ Ahead(y, x)
  <2> DEFINE differ == {i \in 1 .. k : x[i] # y[i]}
  <2>1. differ # {} /\ differ \subseteq Nat
    BY <1>3
  <2> HIDE DEF differ
  <2>2. PICK i \in differ : \A j \in differ : i <= j
    BY <2>1, LeastExists
  <2>3. i \in 1 .. k /\ x[i] # y[i] /\ x[i] \in Int /\ y[i] \in Int
    BY DEF differ
  <2>4. \A j \in 1 .. i - 1 : x[j] = y[j]
    BY <2>2, <2>3 DEF differ
  <2>5. x[i] < y[i] \/ y[i] < x[i]
    BY <2>3
  <2> QED
    BY <2>3, <2>4, <2>5 DEF Ahead
<1> QED
  BY <1>1, <1>2, <1>3

-----------------------------------------------------------------------------
(* Rows in the order of a page *)

\* A table: rows of the stated columns, each with an id of its own.
KnownTable(db) == IsFiniteSet(db.rows) /\ (\A r \in db.rows : IsRow(r)) /\ (\A r, q \in db.rows : r.id = q.id => r = q)

\* The columns of an order are numbers, as many for every row, and the id tells two rows apart.
LEMMA OrderColumns ==
  ASSUME NEW db, KnownTable(db), NEW sort \in Sorts
  PROVE  \E k \in Nat : /\ \A r \in db.rows : OrderBy(r, sort) \in [1 .. k -> Int]
                        /\ \A r, q \in db.rows : OrderBy(r, sort) = OrderBy(q, sort) => r = q
<1> DEFINE due(r) == IF r.deadline = Unknown THEN LastDate ELSE r.deadline
           worth(r) == IF r.value = Unknown THEN 0 ELSE r.value
<1>1. ASSUME NEW r \in db.rows
      PROVE  /\ due(r) \in Int /\ worth(r) \in Int /\ ScoreOf(r) \in Int
             /\ r.updated \in Int /\ r.id \in Int
  <2>1. IsRow(r)
    BY DEF KnownTable
  <2> QED
    BY <2>1 DEF IsRow, ScoreOf, Unknown, LastDate
<1> HIDE DEF due, worth
<1>2. CASE sort = "deadline"
  <2>1. \A r \in db.rows : OrderBy(r, sort) = <<due(r), -ScoreOf(r), -r.updated, r.id>>
    BY <1>2 DEF OrderBy, due
  <2>2. \A r \in db.rows : OrderBy(r, sort) \in [1 .. 4 -> Int] /\ OrderBy(r, sort)[4] = r.id
    BY <1>1, <2>1
  <2> QED
    BY <2>2 DEF KnownTable
<1>3. CASE sort = "highest_value"
  <2>1. \A r \in db.rows : OrderBy(r, sort) = <<-worth(r), -ScoreOf(r), -r.updated, r.id>>
    BY <1>3 DEF OrderBy, worth
  <2>2. \A r \in db.rows : OrderBy(r, sort) \in [1 .. 4 -> Int] /\ OrderBy(r, sort)[4] = r.id
    BY <1>1, <2>1
  <2> QED
    BY <2>2 DEF KnownTable
<1>4. CASE sort = "latest"
  <2>1. \A r \in db.rows : OrderBy(r, sort) = <<-r.updated, -ScoreOf(r), r.id>>
    BY <1>4 DEF OrderBy
  <2>2. \A r \in db.rows : OrderBy(r, sort) \in [1 .. 3 -> Int] /\ OrderBy(r, sort)[3] = r.id
    BY <1>1, <2>1
  <2> QED
    BY <2>2 DEF KnownTable
<1> QED
  BY <1>2, <1>3, <1>4 DEF Sorts

\* What a query selects is listed once each, as many ids as it counts.
LEMMA OrderedOnce ==
  ASSUME NEW db, KnownTable(db), NEW f, NormalizeQuery(f).sort \in Sorts
  PROVE  LET all == IdsOf(Ordered(db, f))
         IN  /\ all \in Seq(Nat) /\ Len(all) = BuildCountStatement(db, f)
             /\ \A i, j \in 1 .. Len(all) : all[i] = all[j] => i = j
             /\ Ordered(db, f) \in Seq(db.rows) /\ Len(Ordered(db, f)) = Len(all)
<1> DEFINE sort == NormalizeQuery(f).sort
           S == Selected(db, f)
           R == {p \in S \X S : Ahead(OrderBy(p[1], sort), OrderBy(p[2], sort))}
           list == Ordered(db, f)
           all == IdsOf(list)
<1>1. S \subseteq db.rows /\ IsFiniteSet(S)
  <2>1. S \subseteq db.rows
    BY DEF Selected
  <2> QED
    BY <2>1, FS_Subset DEF KnownTable
<1>2. PICK k \in Nat : /\ \A r \in db.rows : OrderBy(r, sort) \in [1 .. k -> Int]
                       /\ \A r, q \in db.rows : OrderBy(r, sort) = OrderBy(q, sort) => r = q
  BY OrderColumns
<1>3. list = [n \in 1 .. Cardinality(S) |->
                CHOOSE x \in S : Cardinality({y \in S : Ahead(OrderBy(y, sort), OrderBy(x, sort))}) = n - 1]
  BY DEF Ordered, Arranged
<1> HIDE DEF sort, S, list
<1>4. \A x \in S : AheadOf(x, S, R) = {y \in S : Ahead(OrderBy(y, sort), OrderBy(x, sort))}
  BY DEF AheadOf
<1>5. StrictOrder(R, S)
  <2>1. \A x \in S : OrderBy(x, sort) \in [1 .. k -> Int]
    BY <1>1, <1>2
  <2>2. \A x \in S : ~Ahead(OrderBy(x, sort), OrderBy(x, sort))
    BY <2>1, AheadIsOrder
  <2>3. \A x, y, z \in S : Ahead(OrderBy(x, sort), OrderBy(y, sort)) /\ Ahead(OrderBy(y, sort), OrderBy(z, sort))
                           => Ahead(OrderBy(x, sort), OrderBy(z, sort))
    BY <2>1, AheadIsOrder
  <2>4. \A x, y \in S : x # y => Ahead(OrderBy(x, sort), OrderBy(y, sort)) \/ Ahead(OrderBy(y, sort), OrderBy(x, sort))
    <3>1. \A x, y \in S : x # y => OrderBy(x, sort) # OrderBy(y, sort)
      BY <1>1, <1>2
    <3> QED
      BY <2>1, <3>1, AheadIsOrder
  <2>5. \A x, y \in S : <<x, y>> \in R <=> Ahead(OrderBy(x, sort), OrderBy(y, sort))
    OBVIOUS
  <2> HIDE DEF R
  <2> QED
    BY <2>2, <2>3, <2>4, <2>5 DEF StrictOrder
<1> HIDE DEF R
<1>6. ASSUME NEW n \in 1 .. Cardinality(S), \E x \in S : Cardinality(AheadOf(x, S, R)) = n - 1
      PROVE  list[n] \in S /\ Cardinality(AheadOf(list[n], S, R)) = n - 1
  <2> DEFINE ahead(x) == {y \in S : Ahead(OrderBy(y, sort), OrderBy(x, sort))}
  <2>1. \E x \in S : Cardinality(ahead(x)) = n - 1
    BY <1>4, <1>6
  <2>2. list[n] = CHOOSE x \in S : Cardinality(ahead(x)) = n - 1
    BY <1>3
  <2> HIDE DEF ahead
  <2>3. list[n] \in S /\ Cardinality(ahead(list[n])) = n - 1
    BY <2>1, <2>2
  <2> QED
    BY <1>4, <2>3 DEF ahead
<1>61. list = [n \in 1 .. Cardinality(S) |-> list[n]]
  <2> DEFINE member(n) == CHOOSE x \in S : Cardinality({y \in S : Ahead(OrderBy(y, sort), OrderBy(x, sort))}) = n - 1
  <2>1. list = [n \in 1 .. Cardinality(S) |-> member(n)]
    BY <1>3
  <2> HIDE DEF member
  <2> QED
    BY <2>1
<1>62. \A n \in 1 .. Cardinality(S) : (\E x \in S : Cardinality(AheadOf(x, S, R)) = n - 1)
         => list[n] \in S /\ Cardinality(AheadOf(list[n], S, R)) = n - 1
  BY <1>6
<1>7. /\ list \in Seq(S) /\ Len(list) = Cardinality(S)
      /\ \A m, n \in 1 .. Len(list) : list[m] = list[n] => m = n
  <2>1. Arrangement(list, S, R)
    BY <1>61, <1>62 DEF Arrangement
  <2> QED
    BY <1>1, <1>5, <2>1, ArrangedOnce
<1>8. list \in Seq(db.rows)
  BY <1>1, <1>7
<1>9. ASSUME NEW i \in 1 .. Len(list) PROVE list[i] \in db.rows /\ list[i].id \in Nat
  <2>1. list[i] \in db.rows
    BY <1>8
  <2> QED
    BY <2>1 DEF KnownTable, IsRow
<1>10. all = [i \in 1 .. Len(list) |-> list[i].id]
  BY <1>8 DEF IdsOf
<1>11. all \in Seq(Nat) /\ Len(all) = Len(list)
  <2>1. all \in [1 .. Len(list) -> Nat] /\ Len(list) \in Nat
    BY <1>8, <1>9, <1>10
  <2> QED
    BY <2>1
<1>12. \A i, j \in 1 .. Len(all) : all[i] = all[j] => i = j
  <2>1. ASSUME NEW i \in 1 .. Len(all), NEW j \in 1 .. Len(all), all[i] = all[j] PROVE i = j
    <3>1. list[i].id = list[j].id /\ i \in 1 .. Len(list) /\ j \in 1 .. Len(list)
      BY <1>10, <1>11, <2>1
    <3>2. list[i] = list[j]
      BY <1>9, <3>1 DEF KnownTable
    <3> QED
      BY <1>7, <3>1, <3>2
  <2> QED
    BY <2>1
<1> HIDE DEF all
<1> QED
  BY <1>7, <1>8, <1>11, <1>12 DEF all, list, S, BuildCountStatement

\* A page of at most l ids after the first o.
Lesser(m, n) == IF m < n THEN m ELSE n
PageAt(all, o, l) == SubSeq(all, o + 1, Lesser(o + l, Len(all)))

\* Storage caps the offset and the length of a page, and answers with that page of the list.
LEMMA PageOfList ==
  ASSUME NEW db, KnownTable(db), NEW f, NormalizeQuery(f).sort \in Sorts,
         NormalizeQuery(f).limit \in Nat, NormalizeQuery(f).offset \in Nat
  PROVE  LET q == NormalizeQuery(f)
         IN  /\ QueryOpportunityFeed(db, f) = PageAt(IdsOf(Ordered(db, f)), q.offset, q.limit)
             /\ QueryOpportunityFeed(db, f) \in Seq(Nat)
             /\ Discover(db, f).opportunities = QueryOpportunityFeed(db, f)
             /\ Discover(db, f).total = Len(IdsOf(Ordered(db, f)))
<1> DEFINE o == NormalizeQuery(f).offset
           l == NormalizeQuery(f).limit
           list == Ordered(db, f)
           all == IdsOf(list)
           e == Lesser(o + l, Len(list))
<1>1. /\ list \in Seq(db.rows) /\ all \in Seq(Nat) /\ Len(all) = Len(list)
      /\ Len(all) = BuildCountStatement(db, f)
  BY OrderedOnce
<1>2. BuildPageStatement(db, f) = SubSeq(list, o + 1, e)
  <2>1. BuildPageStatement(db, f) = SubSeq(list, o + 1, Min({o + l, Len(list)}))
    BY DEF BuildPageStatement
  <2>2. Min({o + l, Len(list)}) = e
    BY <1>1, LeastOfTwo DEF Lesser
  <2> QED
    BY <2>1, <2>2
<1>3. e \in Nat /\ e <= Len(list) /\ o \in Nat
  BY <1>1 DEF Lesser
<1> HIDE DEF list, e, o
<1>4. DOMAIN list = 1 .. Len(list) /\ \A i \in 1 .. Len(list) : all[i] = list[i].id
  BY <1>1 DEF IdsOf
<1>5. IdsOf(SubSeq(list, o + 1, e)) = SubSeq(all, o + 1, e)
  <2>1. SubSeq(list, o + 1, e) = [i \in 1 .. e - o |-> list[o + i]]
    BY <1>1, <1>3
  <2>2. SubSeq(all, o + 1, e) = [i \in 1 .. e - o |-> all[o + i]]
    BY <1>1, <1>3
  <2>3. \A i \in 1 .. e - o : all[o + i] = list[o + i].id
    BY <1>3, <1>4
  <2>4. IdsOf(SubSeq(list, o + 1, e)) = [i \in 1 .. e - o |-> list[o + i].id]
    BY <2>1 DEF IdsOf
  <2> HIDE DEF all
  <2> QED
    BY <2>2, <2>3, <2>4
<1>6. SubSeq(all, o + 1, e) \in Seq(Nat)
  BY <1>1, <1>3, SubSeqProperties
<1>7. QueryOpportunityFeed(db, f) = SubSeq(all, o + 1, e)
  BY <1>2, <1>5 DEF QueryOpportunityFeed
<1>8. SubSeq(all, o + 1, e) = PageAt(all, o, l)
  BY <1>1 DEF PageAt, e
<1> QED
  BY <1>1, <1>6, <1>7, <1>8 DEF Discover, QueryOpportunityFeed, list, o

-----------------------------------------------------------------------------
(* What of a page is new *)

\* Numbers in their order.
Ascending(S) == Arranged(S, <)
Smaller(x, S) == {y \in S : y < x}

\* Each number stands where it has all that are smaller before it.
LEMMA NumbersArranged ==
  ASSUME NEW S, IsFiniteSet(S), S \subseteq Nat
  PROVE  LET kept == Ascending(S)
         IN  /\ Cardinality(S) \in Nat /\ kept \in Seq(S) /\ Len(kept) = Cardinality(S)
             /\ \A n \in 1 .. Len(kept) : kept[n] \in S /\ Cardinality(Smaller(kept[n], S)) = n - 1
             /\ \A m, n \in 1 .. Len(kept) : kept[m] = kept[n] => m = n
<1> DEFINE R == {p \in S \X S : p[1] < p[2]}
           kept == Ascending(S)
           below(x) == Smaller(x, S)
<1>1. \A x \in S : AheadOf(x, S, R) = below(x)
  BY DEF AheadOf, Smaller
<1>2. StrictOrder(R, S)
  <2>1. \A x, y \in S : <<x, y>> \in R <=> x < y
    OBVIOUS
  <2>2. \A x \in S : x \in Int
    OBVIOUS
  <2> HIDE DEF R
  <2> QED
    BY <2>1, <2>2 DEF StrictOrder
<1> HIDE DEF R
<1> DEFINE member(n) == CHOOSE x \in S : Cardinality(below(x)) = n - 1
<1>3. kept = [n \in 1 .. Cardinality(S) |-> member(n)]
  BY DEF Ascending, Arranged, Smaller
<1> HIDE DEF kept, below
<1>4. ASSUME NEW n \in 1 .. Cardinality(S), \E x \in S : Cardinality(AheadOf(x, S, R)) = n - 1
      PROVE  member(n) \in S /\ Cardinality(AheadOf(member(n), S, R)) = n - 1
  <2>1. \E x \in S : Cardinality(below(x)) = n - 1
    BY <1>1, <1>4
  <2>2. member(n) \in S /\ Cardinality(below(member(n))) = n - 1
    BY <2>1
  <2> HIDE DEF member
  <2> QED
    BY <1>1, <2>2
<1> HIDE DEF member
<1>5. Arrangement(kept, S, R)
  BY <1>3, <1>4 DEF Arrangement
<1>6. /\ Cardinality(S) \in Nat /\ kept \in Seq(S) /\ Len(kept) = Cardinality(S)
      /\ \A n \in 1 .. Len(kept) : kept[n] \in S /\ Cardinality(AheadOf(kept[n], S, R)) = n - 1
      /\ \A m, n \in 1 .. Len(kept) : kept[m] = kept[n] => m = n
  BY <1>2, <1>5, ArrangedOnce
<1>7. \A n \in 1 .. Len(kept) : Cardinality(below(kept[n])) = n - 1
  BY <1>1, <1>6
<1> QED
  BY <1>6, <1>7 DEF kept, below

\* Of the numbers after a, the n-th is a + n.
LEMMA IntervalArranged ==
  ASSUME NEW a \in Nat, NEW b \in Nat, a <= b
  PROVE  LET kept == Ascending(a + 1 .. b)
         IN  DOMAIN kept = 1 .. b - a /\ \A n \in 1 .. b - a : kept[n] = a + n
<1> DEFINE S == a + 1 .. b
           kept == Ascending(S)
<1>1. IsFiniteSet(S) /\ Cardinality(S) = b - a /\ S \subseteq Nat
  <2>1. a + 1 \in Int /\ b \in Int
    OBVIOUS
  <2>2. IsFiniteSet(S) /\ Cardinality(S) = IF a + 1 > b THEN 0 ELSE b - (a + 1) + 1
    BY <2>1, FS_Interval
  <2> QED
    BY <2>2
<1>2. /\ kept \in Seq(S) /\ Len(kept) = b - a
      /\ \A n \in 1 .. Len(kept) : kept[n] \in S /\ Cardinality(Smaller(kept[n], S)) = n - 1
  <2> HIDE DEF S
  <2> QED
    BY <1>1, NumbersArranged
<1>3. ASSUME NEW n \in 1 .. b - a PROVE kept[n] = a + n
  <2>1. kept[n] \in a + 1 .. b /\ Cardinality(Smaller(kept[n], S)) = n - 1
    <3> HIDE DEF kept
    <3>1. n \in 1 .. Len(kept)
      BY <1>2
    <3> QED
      BY <1>2, <3>1
  <2> HIDE DEF kept
  <2>2. Smaller(kept[n], S) = a + 1 .. kept[n] - 1
    BY <2>1 DEF Smaller
  <2>3. Cardinality(a + 1 .. kept[n] - 1) = kept[n] - 1 - a
    <3>1. a + 1 \in Int /\ kept[n] - 1 \in Int /\ a + 1 <= kept[n] /\ kept[n] \in Int
      BY <2>1
    <3>2. Cardinality(a + 1 .. kept[n] - 1) = IF a + 1 > kept[n] - 1 THEN 0 ELSE (kept[n] - 1) - (a + 1) + 1
      BY <3>1, FS_Interval
    <3> QED
      BY <3>1, <3>2
  <2> QED
    BY <2>1, <2>2, <2>3
<1>4. DOMAIN kept = 1 .. b - a
  <2> HIDE DEF kept, S
  <2> QED
    BY <1>2
<1> QED
  BY <1>3, <1>4

\* What a page adds is new, and each once.
LEMMA FreshOnce ==
  ASSUME NEW state, state.items \in Seq(Nat), NEW page, page.opportunities \in Seq(Nat)
  PROVE  LET fresh == FreshIds(state, page)
         IN  /\ fresh \in Seq(Nat)
             /\ \A n \in 1 .. Len(fresh) : \A i \in 1 .. Len(state.items) : fresh[n] # state.items[i]
             /\ \A m, n \in 1 .. Len(fresh) : fresh[m] = fresh[n] => m = n
<1> DEFINE ids == page.opportunities
           places == {i \in DOMAIN ids : ids[i] \notin ToSet(state.items) /\ \A j \in 1 .. i - 1 : ids[j] # ids[i]}
           kept == Ascending(places)
           fresh == FreshIds(state, page)
<1>1. fresh = [n \in DOMAIN kept |-> ids[kept[n]]]
  BY DEF FreshIds, Ascending
<1>2. DOMAIN ids = 1 .. Len(ids) /\ Len(ids) \in Nat /\ \A i \in 1 .. Len(ids) : ids[i] \in Nat
  OBVIOUS
<1>3. IsFiniteSet(places) /\ places \subseteq Nat /\ places \subseteq 1 .. Len(ids)
  <2>1. IsFiniteSet(1 .. Len(ids)) /\ places \subseteq 1 .. Len(ids)
    BY <1>2, FS_Interval
  <2> QED
    BY <2>1, FS_Subset
<1>4. \A i \in places : ids[i] \notin ToSet(state.items) /\ \A j \in 1 .. i - 1 : ids[j] # ids[i]
  OBVIOUS
<1> HIDE DEF places, fresh, ids
<1>5. /\ kept \in Seq(places) /\ Len(kept) \in Nat /\ DOMAIN kept = 1 .. Len(kept)
      /\ \A n \in 1 .. Len(kept) : kept[n] \in places
      /\ \A m, n \in 1 .. Len(kept) : kept[m] = kept[n] => m = n
  <2> HIDE DEF kept
  <2>1. /\ kept \in Seq(places)
        /\ \A n \in 1 .. Len(kept) : kept[n] \in places
        /\ \A m, n \in 1 .. Len(kept) : kept[m] = kept[n] => m = n
    BY <1>3, NumbersArranged DEF kept
  <2>2. Len(kept) \in Nat /\ DOMAIN kept = 1 .. Len(kept)
    BY <2>1, LenProperties
  <2> QED
    BY <2>1, <2>2
<1> HIDE DEF kept
<1>6. \A n \in 1 .. Len(kept) : fresh[n] = ids[kept[n]] /\ kept[n] \in 1 .. Len(ids) /\ fresh[n] \in Nat
  BY <1>1, <1>2, <1>3, <1>5
<1>7. fresh \in Seq(Nat) /\ Len(fresh) = Len(kept)
  <2>1. fresh \in [1 .. Len(kept) -> Nat]
    BY <1>1, <1>5, <1>6
  <2> QED
    BY <1>5, <2>1, FunctionIsList
<1>8. ASSUME NEW n \in 1 .. Len(fresh), NEW i \in 1 .. Len(state.items) PROVE fresh[n] # state.items[i]
  <2>1. ids[kept[n]] \notin ToSet(state.items) /\ fresh[n] = ids[kept[n]]
    BY <1>4, <1>5, <1>6, <1>7
  <2>2. state.items[i] \in ToSet(state.items)
    BY DEF ToSet
  <2> QED
    BY <2>1, <2>2
<1>9. ASSUME NEW m \in 1 .. Len(fresh), NEW n \in 1 .. Len(fresh), fresh[m] = fresh[n] PROVE m = n
  <2>1. kept[m] \in places /\ kept[n] \in places /\ ids[kept[m]] = ids[kept[n]]
    BY <1>5, <1>6, <1>7, <1>9
  <2>2. kept[m] \in Nat /\ kept[n] \in Nat /\ kept[m] >= 1 /\ kept[n] >= 1
    <3>1. kept[m] \in 1 .. Len(ids) /\ kept[n] \in 1 .. Len(ids)
      BY <1>3, <2>1
    <3> QED
      BY <1>2, <3>1
  <2>3. ~(kept[m] < kept[n]) /\ ~(kept[n] < kept[m])
    <3>1. kept[m] < kept[n] => kept[m] \in 1 .. kept[n] - 1
      BY <2>2
    <3>2. kept[n] < kept[m] => kept[n] \in 1 .. kept[m] - 1
      BY <2>2
    <3> QED
      BY <1>4, <2>1, <3>1, <3>2
  <2>4. kept[m] = kept[n]
    BY <2>2, <2>3
  <2> QED
    BY <1>5, <1>7, <2>4
<1> QED
  BY <1>7, <1>8, <1>9 DEF fresh

Once(list) == \A i, j \in DOMAIN list : list[i] = list[j] => i = j

\* Whatever page comes, the list stays without duplicates.
LEMMA AppendStaysOnce ==
  ASSUME NEW state, state.items \in Seq(Nat), Once(state.items), NEW page, page.opportunities \in Seq(Nat)
  PROVE  LET items == state.items \o FreshIds(state, page)
         IN  items \in Seq(Nat) /\ Once(items)
<1> DEFINE old == state.items
           fresh == FreshIds(state, page)
           items == old \o fresh
<1>1. /\ fresh \in Seq(Nat)
      /\ \A n \in 1 .. Len(fresh) : \A i \in 1 .. Len(old) : fresh[n] # old[i]
      /\ \A m, n \in 1 .. Len(fresh) : fresh[m] = fresh[n] => m = n
  BY FreshOnce
<1> HIDE DEF fresh
<1>2. /\ items \in Seq(Nat) /\ Len(items) = Len(old) + Len(fresh) /\ Len(old) \in Nat /\ Len(fresh) \in Nat
      /\ \A i \in 1 .. Len(items) : items[i] = IF i <= Len(old) THEN old[i] ELSE fresh[i - Len(old)]
  BY <1>1, ConcatProperties
<1>3. \A i, j \in 1 .. Len(old) : old[i] = old[j] => i = j
  BY DEF Once
<1>4. DOMAIN items = 1 .. Len(items)
  BY <1>2
<1> HIDE DEF items
<1> HIDE DEF old
<1>21. \A i \in 1 .. Len(items) : i \in Int /\ i >= 1 /\ (i > Len(old) => i - Len(old) \in 1 .. Len(fresh))
  <2>1. Len(items) = Len(old) + Len(fresh) /\ Len(old) \in Nat /\ Len(fresh) \in Nat
    BY <1>2
  <2> QED
    BY <2>1
<1>5. ASSUME NEW i \in 1 .. Len(items), NEW j \in 1 .. Len(items), items[i] = items[j], i <= j PROVE i = j
  <2>1. CASE j <= Len(old)
    <3>1. i \in 1 .. Len(old) /\ j \in 1 .. Len(old) /\ items[i] = old[i] /\ items[j] = old[j]
      BY <1>2, <1>5, <2>1
    <3> QED
      BY <1>3, <1>5, <3>1
  <2>2. CASE i <= Len(old) /\ j > Len(old)
    <3>1. i \in 1 .. Len(old) /\ j - Len(old) \in 1 .. Len(fresh) /\ j \in Int /\ ~(j <= Len(old))
      BY <1>2, <1>21, <2>2
    <3>2. items[i] = old[i] /\ items[j] = fresh[j - Len(old)]
      BY <1>2, <2>2, <3>1
    <3> QED
      BY <1>1, <1>5, <3>1, <3>2
  <2>3. CASE i > Len(old)
    <3>1. /\ i - Len(old) \in 1 .. Len(fresh) /\ j - Len(old) \in 1 .. Len(fresh)
          /\ ~(i <= Len(old)) /\ ~(j <= Len(old)) /\ i \in Int /\ j \in Int
      BY <1>2, <1>21, <1>5, <2>3
    <3>2. items[i] = fresh[i - Len(old)] /\ items[j] = fresh[j - Len(old)]
      BY <1>2, <3>1
    <3>3. i - Len(old) = j - Len(old)
      BY <1>1, <1>5, <3>1, <3>2
    <3> QED
      BY <1>2, <3>1, <3>3
  <2> QED
    BY <1>2, <2>1, <2>2, <2>3
<1>6. \A i, j \in 1 .. Len(items) : items[i] = items[j] => i = j
  <2>1. ASSUME NEW i \in 1 .. Len(items), NEW j \in 1 .. Len(items), items[i] = items[j] PROVE i = j
    <3>1. i <= j \/ j <= i
      BY <1>2
    <3> QED
      BY <1>5, <2>1, <3>1
  <2> QED
    BY <2>1
<1>7. Once(items)
  BY <1>4, <1>6 DEF Once
<1> QED
  BY <1>2, <1>7 DEF items, fresh, old

-----------------------------------------------------------------------------
(* Pages appended one after the other *)

\* A fold exists when every step leads from what may be reached to what may be reached.
FoldRule(n, S, step, base, f, k) ==
  /\ f = [i \in 0 .. n |-> f[i]] /\ f[0] = base
  /\ \A i \in 1 .. k : f[i - 1] \in S[i - 1] /\ f[i] \in S[i] /\ f[i] = step[<<i, f[i - 1]>>]

\* The recursive function of a fold exists and stays in S, or a least number of entries would fail.
LEMMA FoldExists ==
  ASSUME NEW n \in Nat, NEW S, NEW step, NEW base, base \in S[0],
         \A k \in 1 .. n : \A s \in S[k - 1] : step[<<k, s>>] \in S[k]
  PROVE  \E f : FoldRule(n, S, step, base, f, n)
<1> DEFINE missing == {k \in 0 .. n : ~\E f : FoldRule(n, S, step, base, f, k)}
<1>1. SUFFICES ASSUME missing # {} PROVE FALSE
  <2>1. n \in 0 .. n
    OBVIOUS
  <2> QED
    BY <1>1, <2>1
<1>2. PICK k \in missing : \A m \in missing : k <= m
  <2>1. missing \subseteq Nat
    OBVIOUS
  <2> HIDE DEF missing
  <2> QED
    BY <1>1, <2>1, LeastExists
<1>3. CASE k = 0
  <2> DEFINE f == [i \in 0 .. n |-> base]
  <2>1. FoldRule(n, S, step, base, f, 0)
    BY DEF FoldRule
  <2> QED
    BY <1>2, <1>3, <2>1
<1>4. CASE k # 0
  <2>1. k \in 1 .. n /\ k - 1 \in 0 .. n /\ k - 1 \notin missing
    <3>1. k \in 1 .. n /\ k - 1 \in 0 .. n /\ ~(k <= k - 1)
      BY <1>2, <1>4
    <3> HIDE DEF missing
    <3> QED
      BY <1>2, <3>1
  <2>2. PICK f : FoldRule(n, S, step, base, f, k - 1)
    BY <2>1
  <2>3. f[k - 1] \in S[k - 1]
    <3>1. CASE k = 1
      BY <2>2, <3>1 DEF FoldRule
    <3>2. CASE k # 1
      <4>1. k - 1 \in 1 .. k - 1
        BY <2>1, <3>2
      <4> QED
        BY <2>2, <4>1 DEF FoldRule
    <3> QED
      BY <3>1, <3>2
  <2> DEFINE next == [i \in 0 .. n |-> IF i = k THEN step[<<k, f[k - 1]>>] ELSE f[i]]
  <2>4. next = [i \in 0 .. n |-> next[i]]
    OBVIOUS
  <2>5. next[k] = step[<<k, f[k - 1]>>] /\ next[k] \in S[k]
    BY <2>1, <2>3
  <2>6. next[0] = base
    BY <2>1, <2>2 DEF FoldRule
  <2>7. \A i \in 0 .. n : i # k => next[i] = f[i]
    OBVIOUS
  <2> HIDE DEF next
  <2>8. ASSUME NEW i \in 1 .. k
        PROVE  next[i - 1] \in S[i - 1] /\ next[i] \in S[i] /\ next[i] = step[<<i, next[i - 1]>>]
    <3>1. i - 1 \in 0 .. n /\ i - 1 # k /\ i \in 0 .. n
      BY <2>1
    <3>2. next[i - 1] = f[i - 1]
      BY <2>7, <3>1
    <3>3. CASE i = k
      BY <2>3, <2>5, <3>2, <3>3
    <3>4. CASE i # k
      <4>1. i \in 1 .. k - 1 /\ next[i] = f[i]
        BY <2>1, <2>7, <3>1, <3>4
      <4> QED
        BY <2>2, <3>2, <4>1 DEF FoldRule
    <3> QED
      BY <3>3, <3>4
  <2>9. FoldRule(n, S, step, base, next, k)
    BY <2>4, <2>6, <2>8 DEF FoldRule
  <2> QED
    BY <1>2, <2>9
<1> QED
  BY <1>3, <1>4

\* A fold stays in a set its base is in and its steps do not leave.
LEMMA FoldIn ==
  ASSUME NEW n \in Nat, NEW S, NEW f, f[0] \in S[0],
         \A k \in 1 .. n : f[k - 1] \in S[k - 1] => f[k] \in S[k]
  PROVE  f[n] \in S[n]
<1> DEFINE outside == {k \in 0 .. n : f[k] \notin S[k]}
<1>1. SUFFICES ASSUME outside # {} PROVE FALSE
  <2>1. n \in 0 .. n
    OBVIOUS
  <2> QED
    BY <1>1, <2>1
<1>2. PICK k \in outside : \A m \in outside : k <= m
  <2>1. outside \subseteq Nat
    OBVIOUS
  <2> HIDE DEF outside
  <2> QED
    BY <1>1, <2>1, LeastExists
<1>3. k \in 1 .. n /\ k - 1 \in 0 .. n /\ ~(k <= k - 1)
  BY <1>2
<1>4. f[k - 1] \in S[k - 1]
  BY <1>2, <1>3
<1> QED
  BY <1>2, <1>3, <1>4

\* What any number of pages, appended one after the other, leads to.
LEMMA PagesAppended ==
  ASSUME NEW v, NEW batch, Len(batch) \in Nat, NEW S, v \in S[0],
         \A k \in 1 .. Len(batch) : \A s \in S[k - 1] : AppendFeedPage(s, batch[k]) \in S[k]
  PROVE  AppendFeedPages(v, batch) \in S[Len(batch)]
<1> DEFINE n == Len(batch)
           Reached == UNION {S[k] : k \in 0 .. n}
           step == [p \in (1 .. n) \X Reached |-> AppendFeedPage(p[2], batch[p[1]])]
           solves(f) == f = [k \in 0 .. n |-> IF k = 0 THEN v ELSE AppendFeedPage(f[k - 1], batch[k])]
           it == CHOOSE f : solves(f)
<1>1. AppendFeedPages(v, batch) = it[n]
  BY DEF AppendFeedPages
<1>2. ASSUME NEW k \in 1 .. n, NEW s \in S[k - 1]
      PROVE  step[<<k, s>>] = AppendFeedPage(s, batch[k]) /\ step[<<k, s>>] \in S[k]
  <2>1. k - 1 \in 0 .. n
    OBVIOUS
  <2>2. s \in Reached
    BY <2>1
  <2> HIDE DEF Reached
  <2>3. step[<<k, s>>] = AppendFeedPage(s, batch[k])
    BY <2>2
  <2> QED
    BY <2>3
<1> HIDE DEF step, n
<1>3. n \in Nat
  BY DEF n
<1>4. PICK f : FoldRule(n, S, step, v, f, n)
  BY <1>2, <1>3, FoldExists
<1>5. solves(f)
  <2>1. ASSUME NEW k \in 0 .. n PROVE f[k] = IF k = 0 THEN v ELSE AppendFeedPage(f[k - 1], batch[k])
    <3>1. CASE k = 0
      BY <1>4, <3>1 DEF FoldRule
    <3>2. CASE k # 0
      <4>1. k \in 1 .. n
        BY <1>3, <3>2
      <4>2. f[k - 1] \in S[k - 1] /\ f[k] = step[<<k, f[k - 1]>>]
        BY <1>4, <4>1 DEF FoldRule
      <4> QED
        BY <1>2, <3>2, <4>1, <4>2
    <3> QED
      BY <3>1, <3>2
  <2> QED
    BY <1>4, <2>1 DEF FoldRule
<1>6. solves(it)
  BY <1>5
<1> HIDE DEF it
<1>7. it[0] = v /\ \A k \in 1 .. n : it[k] = AppendFeedPage(it[k - 1], batch[k])
  BY <1>3, <1>6
<1>8. it[n] \in S[n]
  <2>1. \A k \in 1 .. n : it[k - 1] \in S[k - 1] => it[k] \in S[k]
    BY <1>2, <1>7
  <2>2. it[0] \in S[0]
    BY <1>7
  <2> QED
    BY <1>3, <2>1, <2>2, FoldIn
<1> QED
  BY <1>1, <1>8 DEF n

\* The lists a list may become by appending.
Feeds(v) ==
  [filters : {v.filters}, items : Seq(Nat), nextOffset : Nat, total : Nat,
   extra : {v.extra}, options : {v.options}, failed : {v.failed}]
FeedsOnce(v) == {s \in Feeds(v) : Once(s.items)}

\* A page is appended, or an empty one ends the list.
LEMMA AppendKeeps ==
  ASSUME NEW v, NEW state \in FeedsOnce(v), NEW page, page.opportunities \in Seq(Nat), page.total \in Nat
  PROVE  /\ AppendFeedPage(state, page) \in FeedsOnce(v)
         /\ page.opportunities = <<>> =>
              /\ AppendFeedPage(state, page).items = state.items
              /\ AppendFeedPage(state, page).nextOffset = state.nextOffset
              /\ AppendFeedPage(state, page).total = state.nextOffset
         /\ page.opportunities # <<>> =>
              /\ AppendFeedPage(state, page).items = state.items \o FreshIds(state, page)
              /\ AppendFeedPage(state, page).nextOffset = state.nextOffset + Len(page.opportunities)
              /\ AppendFeedPage(state, page).total = page.total
<1>1. state \in Feeds(v) /\ Once(state.items) /\ state.items \in Seq(Nat) /\ state.nextOffset \in Nat
  BY DEF FeedsOnce, Feeds
<1>2. CASE page.opportunities = <<>>
  <2>1. AppendFeedPage(state, page) = [state EXCEPT !.total = state.nextOffset]
    BY <1>2 DEF AppendFeedPage
  <2> QED
    BY <1>1, <1>2, <2>1 DEF FeedsOnce, Feeds
<1>3. CASE page.opportunities # <<>>
  <2> DEFINE items == state.items \o FreshIds(state, page)
  <2>1. AppendFeedPage(state, page) =
          [state EXCEPT !.items = items, !.nextOffset = state.nextOffset + Len(page.opportunities), !.total = page.total]
    BY <1>3 DEF AppendFeedPage
  <2>2. items \in Seq(Nat) /\ Once(items)
    BY <1>1, AppendStaysOnce
  <2>3. state.nextOffset + Len(page.opportunities) \in Nat
    BY <1>1
  <2> HIDE DEF items
  <2>4. AppendFeedPage(state, page).items = items /\ AppendFeedPage(state, page) \in Feeds(v)
    BY <1>1, <2>1, <2>2, <2>3 DEF Feeds
  <2>5. /\ AppendFeedPage(state, page).nextOffset = state.nextOffset + Len(page.opportunities)
        /\ AppendFeedPage(state, page).total = page.total
    BY <1>1, <2>1 DEF Feeds
  <2> QED
    BY <1>3, <2>2, <2>4, <2>5 DEF FeedsOnce, items
<1> QED
  BY <1>2, <1>3

\* Where the list ends when a page that ends at e is appended to one that ends at c.
Further(c, e) == IF e > c THEN e ELSE c

\* Of a page that starts within a beginning of the list, what is beyond it is new.
FollowsOn(all, c, o, l, state, page) ==
  /\ all \in Seq(Nat) /\ Once(all) /\ c \in 0 .. Len(all) /\ o \in 0 .. c /\ l \in Nat
  /\ state.items = SubSeq(all, 1, c) /\ page.opportunities = PageAt(all, o, l)
Extends(all, c, o, l, items) ==
  LET d == Further(c, Lesser(o + l, Len(all))) IN items = SubSeq(all, 1, d) /\ d \in c .. Len(all)

\* What is new of it is what comes next.
LEMMA FreshIsNext ==
  ASSUME NEW all, NEW c, NEW o, NEW l, NEW state, NEW page, FollowsOn(all, c, o, l, state, page)
  PROVE  Extends(all, c, o, l, state.items \o FreshIds(state, page))
<1> DEFINE n == Len(all)
           e == Lesser(o + l, n)
           d == Further(c, e)
           m == e - o
           a == Lesser(c - o, m)
           ids == page.opportunities
           places == {i \in DOMAIN ids : ids[i] \notin ToSet(state.items) /\ \A j \in 1 .. i - 1 : ids[j] # ids[i]}
           kept == Ascending(places)
<1>0. /\ all \in Seq(Nat) /\ Once(all) /\ c \in 0 .. Len(all) /\ o \in 0 .. c /\ l \in Nat
      /\ state.items = SubSeq(all, 1, c) /\ page.opportunities = PageAt(all, o, l)
  BY DEF FollowsOn
<1>1. n \in Nat /\ DOMAIN all = 1 .. n /\ \A i \in 1 .. n : all[i] \in Nat
  BY <1>0
<1>2. /\ e \in Nat /\ e <= n /\ m \in Nat /\ a \in Nat /\ a <= m /\ d \in c .. n /\ o \in Nat /\ c \in Nat /\ c <= n
      /\ o + m = e /\ m - a = d - c /\ (a # m => o + a = c)
      /\ \A i \in 1 .. m : i > a <=> o + i > c
  <2>1. n \in Nat /\ c \in Nat /\ o \in Nat /\ o <= c /\ c <= n /\ l \in Nat
    BY <1>0, <1>1
  <2>2. e \in Nat /\ e <= n /\ o <= e
    BY <1>0, <2>1 DEF Lesser
  <2> HIDE DEF e, n
  <2>3. m \in Nat /\ o + m = e /\ d \in c .. n
    BY <2>1, <2>2 DEF Further
  <2> HIDE DEF m
  <2>4. a \in Nat /\ a <= m /\ (a # m => o + a = c)
    BY <2>1, <2>3 DEF Lesser
  <2>5. m - a = d - c
    BY <2>1, <2>2, <2>3 DEF Lesser, Further
  <2>6. \A i \in 1 .. m : i > a <=> o + i > c
    BY <2>1, <2>2, <2>3 DEF Lesser
  <2> HIDE DEF a, d
  <2> QED
    BY <2>1, <2>2, <2>3, <2>4, <2>5, <2>6
<1>3. \A i, j \in 1 .. n : all[i] = all[j] => i = j
  BY <1>0, <1>1 DEF Once
<1> HIDE DEF n, e, d, m, a
<1>4. ids = [i \in 1 .. m |-> all[o + i]]
  <2>1. ids = SubSeq(all, o + 1, e)
    BY <1>0 DEF PageAt, e, n
  <2> QED
    BY <1>0, <1>2, <2>1
<1>5. state.items = [i \in 1 .. c |-> all[i]]
  BY <1>0, <1>2
<1>6. ToSet(state.items) = {all[i] : i \in 1 .. c}
  BY <1>5 DEF ToSet
<1> HIDE DEF ids
<1>7. places = a + 1 .. m
  <2>1. DOMAIN ids = 1 .. m /\ \A i \in 1 .. m : ids[i] = all[o + i] /\ o + i \in 1 .. n
    BY <1>1, <1>2, <1>4
  <2>2. ASSUME NEW i \in 1 .. m PROVE \A j \in 1 .. i - 1 : ids[j] # ids[i]
    <3>1. ASSUME NEW j \in 1 .. i - 1 PROVE ids[j] # ids[i]
      <4>1. j \in 1 .. m /\ o + j # o + i
        BY <1>2
      <4> QED
        BY <1>3, <2>1, <4>1
    <3> QED
      BY <3>1
  <2>3. ASSUME NEW i \in 1 .. m PROVE ids[i] \notin ToSet(state.items) <=> i > a
    <3>1. ids[i] \in ToSet(state.items) <=> \E j \in 1 .. c : all[o + i] = all[j]
      BY <1>6, <2>1
    <3>2. \A j \in 1 .. c : j \in 1 .. n
      BY <1>1, <1>2
    <3>3. (\E j \in 1 .. c : all[o + i] = all[j]) <=> o + i \in 1 .. c
      BY <1>3, <2>1, <3>2
    <3>4. o + i \in 1 .. c <=> ~(o + i > c)
      BY <1>2
    <3> QED
      BY <1>2, <3>1, <3>3, <3>4
  <2>4. \A i \in 1 .. m : i \in places <=> i > a
    BY <2>1, <2>2, <2>3
  <2>5. places \subseteq 1 .. m
    BY <2>1
  <2> HIDE DEF places
  <2>6. \A i : i \in places <=> i \in a + 1 .. m
    <3>1. \A i : i \in a + 1 .. m <=> i \in 1 .. m /\ i > a
      BY <1>2
    <3> QED
      BY <2>4, <2>5, <3>1
  <2> QED
    BY <2>6
<1>8. FreshIds(state, page) = [k \in DOMAIN kept |-> ids[kept[k]]]
  BY DEF FreshIds, Ascending, ids
<1> HIDE DEF places
<1>9. DOMAIN kept = 1 .. m - a /\ \A k \in 1 .. m - a : kept[k] = a + k
  BY <1>2, <1>7, IntervalArranged
<1> HIDE DEF kept
<1>10. \A k \in 1 .. d - c : ids[kept[k]] = all[c + k]
  <2>1. ASSUME NEW k \in 1 .. d - c PROVE ids[kept[k]] = all[c + k]
    <3>1. k \in 1 .. m - a /\ a # m /\ o + a = c /\ a + k \in 1 .. m /\ o + (a + k) = c + k
      BY <1>2
    <3>2. ids[a + k] = all[o + (a + k)]
      BY <1>4, <3>1
    <3> QED
      BY <1>9, <3>1, <3>2
  <2> QED
    BY <2>1
<1>11. FreshIds(state, page) = [k \in 1 .. d - c |-> all[c + k]]
  BY <1>2, <1>8, <1>9, <1>10
<1>12. SubSeq(all, c + 1, d) = [k \in 1 .. d - c |-> all[c + k]]
  BY <1>0, <1>2
<1>13. SubSeq(all, 1, c) \o SubSeq(all, c + 1, d) = SubSeq(all, 1, d)
  <2>1. 1 \in 1 .. Len(all) + 1 /\ c \in 1 - 1 .. Len(all) /\ d \in c .. Len(all)
    BY <1>0, <1>2 DEF n
  <2> QED
    BY <1>0, <2>1, ConcatAdjacentSubSeq
<1> QED
  BY <1>0, <1>2, <1>11, <1>12, <1>13 DEF Extends, d, e, n

-----------------------------------------------------------------------------
(* Filters as they are parsed *)

\* Filters as a page reads them from an address.
FiltersRead(f) ==
  /\ DOMAIN f \subseteq FilterNames \ {"limit", "offset"}
  /\ Has(f, "sort") /\ f["sort"] \in Sorts
  /\ \A name \in DOMAIN f \cap DOMAIN Ranges : f[name] \in Ranges[name][1] .. Ranges[name][2]
  /\ \A name \in DOMAIN f \cap Flags : f[name] \in BOOLEAN
  /\ \A name \in DOMAIN f \cap Facets : f[name] \subseteq ToSet(Vocabulary[name])

\* Each parameter is of one kind.
LEMMA KindsOfNames ==
  /\ Facets \cap (Texts \cup Flags \cup Dates \cup DOMAIN Ranges \cup {"sort", "loaded"}) = {}
  /\ Texts \cap (Flags \cup Dates \cup DOMAIN Ranges \cup {"sort", "loaded"}) = {}
  /\ Flags \cap (Dates \cup DOMAIN Ranges \cup {"sort", "loaded"}) = {}
  /\ Dates \cap (DOMAIN Ranges \cup {"sort", "loaded"}) = {}
  /\ DOMAIN Ranges \cap {"sort", "loaded"} = {}
  /\ DOMAIN NoQuery = FilterNames \cup {"loaded"}
  /\ \A name \in FilterNames : name \in Texts \cup Flags \cup Dates \cup DOMAIN Ranges \cup Facets \cup {"sort"}
  /\ {"limit", "offset"} \subseteq DOMAIN Ranges /\ "sort" \in FilterNames
<1>1. Facets \cap (Texts \cup Flags \cup Dates \cup DOMAIN Ranges \cup {"sort", "loaded"}) = {}
  BY DiscoverAssumption
<1>2. /\ Texts \cap (Flags \cup Dates \cup DOMAIN Ranges \cup {"sort", "loaded"}) = {}
      /\ Flags \cap (Dates \cup DOMAIN Ranges \cup {"sort", "loaded"}) = {}
      /\ Dates \cap (DOMAIN Ranges \cup {"sort", "loaded"}) = {}
      /\ DOMAIN Ranges \cap {"sort", "loaded"} = {}
      /\ {"limit", "offset"} \subseteq DOMAIN Ranges
  BY DEF Texts, Flags, Dates, Ranges
<1>3. DOMAIN NoQuery = FilterNames \cup {"loaded"}
  BY DEF NoQuery
<1>4. /\ \A name \in FilterNames : name \in Texts \cup Flags \cup Dates \cup DOMAIN Ranges \cup Facets \cup {"sort"}
      /\ "sort" \in FilterNames
  BY DEF FilterNames
<1> QED
  BY <1>1, <1>2, <1>3, <1>4

\* Every bound of a number is a range with something in it.
LEMMA RangesAre ==
  \A name \in DOMAIN Ranges :
    Ranges[name][1] \in Nat /\ Ranges[name][2] \in Nat /\ Ranges[name][1] <= Ranges[name][2]
<1>1. /\ MaxLimit \in Nat /\ MaxLimit >= 1 /\ MaxWithin \in Nat /\ MaxWithin >= 1
      /\ MaxOffset \in Nat /\ MaxScore \in Nat /\ MaxValue \in Nat
  BY DiscoverAssumption
<1> QED
  BY <1>1 DEF Ranges

\* A parameter is read by its kind.
LEMMA SchemaOf ==
  ASSUME NEW name, NEW raw, NEW strict
  PROVE  /\ name \in Texts => BuildSchema(name, raw, strict) = Scalar(raw, "text")
         /\ name \in Flags => BuildSchema(name, raw, strict) = Scalar(raw, "flag")
         /\ name \in Dates => BuildSchema(name, raw, strict) = Scalar(raw, "date")
         /\ name \in DOMAIN Ranges =>
              BuildSchema(name, raw, strict) = ClampedNumber(raw, Ranges[name][1], Ranges[name][2])
         /\ name \in Facets => BuildSchema(name, raw, strict) = EnumList(raw, Vocabulary[name], strict)
         /\ name = "sort" => BuildSchema(name, raw, strict) = EnumSort(raw)
<1> USE DEF BuildSchema, BoundedText, BooleanFlag, IsoDate
<1>1. CASE name \in Texts
  BY <1>1, KindsOfNames
<1>2. CASE name \in Flags
  BY <1>2, KindsOfNames
<1>3. CASE name \in Dates
  BY <1>3, KindsOfNames
<1>4. CASE name \in DOMAIN Ranges
  BY <1>4, KindsOfNames
<1>5. CASE name \in Facets
  BY <1>5, KindsOfNames
<1>6. CASE name = "sort"
  BY <1>6, KindsOfNames
<1> QED
  BY <1>1, <1>2, <1>3, <1>4, <1>5, <1>6

\* The first value of a parameter is what it says, nothing, or no value of that kind.
LEMMA ScalarIs ==
  ASSUME NEW raw, NEW kind
  PROVE  /\ Blank(raw) => Scalar(raw, kind).given = <<>> /\ Scalar(raw, kind).ok
         /\ ~Blank(raw) /\ raw[1].as = kind =>
              /\ Scalar(raw, kind).ok
              /\ Scalar(raw, kind).given # <<>> /\ Scalar(raw, kind).given[1] = raw[1].is
         /\ Scalar(raw, kind).given # <<>> => ~Blank(raw) /\ raw[1].as = kind
<1>1. /\ Unset.given = <<>> /\ Unset.ok /\ Bad.given = <<>>
      /\ \A v : Given(v).given # <<>> /\ Given(v).given[1] = v /\ Given(v).ok
  BY DEF Unset, Bad, Given
<1>2. CASE Blank(raw)
  BY <1>1, <1>2 DEF Scalar
<1>3. CASE ~Blank(raw) /\ raw[1].as = kind
  BY <1>1, <1>3 DEF Scalar
<1>4. CASE ~Blank(raw) /\ raw[1].as # kind
  BY <1>1, <1>4 DEF Scalar
<1> QED
  BY <1>2, <1>3, <1>4

\* A number is brought within its bounds, and within them it stays.
LEMMA ClampedIs ==
  ASSUME NEW raw, NEW lo \in Int, NEW hi \in Int, lo <= hi, ReadsAsStated(raw)
  PROVE  LET read == ClampedNumber(raw, lo, hi)
         IN  /\ read.given # <<>> => read.given[1] \in lo .. hi
             /\ raw = <<>> => read.given = <<>>
             /\ raw # <<>> /\ raw[1].as = "number" =>
                  /\ read.given # <<>> /\ read.ok
                  /\ raw[1].is \in lo .. hi => read.given[1] = raw[1].is
                  /\ raw[1].is > hi => read.given[1] = hi
<1> DEFINE v == raw[1].is
           clamped == Min({Max({v, lo}), hi})
           read == ClampedNumber(raw, lo, hi)
<1>1. \A x : Given(x).given # <<>> /\ Given(x).given[1] = x /\ Given(x).ok
  BY DEF Given
<1>2. ASSUME raw # <<>>, raw[1].as = "number"
      PROVE  /\ read = Given(clamped) /\ v \in Int /\ clamped \in lo .. hi
             /\ v \in lo .. hi => clamped = v
             /\ v > hi => clamped = hi
  <2>1. v \in Int
    BY <1>2 DEF ReadsAsStated
  <2>2. ~Blank(raw)
    BY <1>2 DEF Blank
  <2>3. Scalar(raw, "number").given # <<>> /\ Scalar(raw, "number").given[1] = v
    BY <1>2, <2>2, ScalarIs
  <2>4. read = Given(clamped)
    BY <2>3 DEF ClampedNumber
  <2> DEFINE high == Max({v, lo})
  <2>5. high = IF v < lo THEN lo ELSE v
    BY <2>1, GreatestOfTwo
  <2> HIDE DEF high
  <2>6. high \in Int
    BY <2>1, <2>5
  <2>7. Min({high, hi}) = IF high < hi THEN high ELSE hi
    BY <2>6, LeastOfTwo
  <2>8. clamped = IF high < hi THEN high ELSE hi
    BY <2>7 DEF high
  <2> HIDE DEF v, clamped, read
  <2> QED
    BY <2>1, <2>4, <2>5, <2>6, <2>8
<1>3. ASSUME read.given # <<>> PROVE raw # <<>> /\ raw[1].as = "number"
  <2>1. Scalar(raw, "number").given # <<>>
    BY <1>3 DEF ClampedNumber
  <2> QED
    BY <2>1, ScalarIs DEF Blank
<1> HIDE DEF read, v, clamped
<1> QED
  BY <1>1, <1>2, <1>3 DEF read, v

\* What a list of values reads as.
LEMMA ListIs ==
  ASSUME NEW raw, NEW values, NEW strict
  PROVE  LET read == EnumList(raw, values, strict)
         IN  /\ read.given # <<>> => read.given[1] \subseteq ToSet(values)
             /\ raw = <<>> => read.given = <<>>
<1>1. Unset.given = <<>> /\ Bad.given = <<>> /\ \A v : Given(v).given[1] = v
  BY DEF Unset, Bad, Given
<1> QED
  BY <1>1 DEF EnumList

\* An order is one of those there are.
LEMMA SortIs ==
  ASSUME NEW raw
  PROVE  /\ EnumSort(raw).given # <<>> => EnumSort(raw).given[1] \in Sorts
         /\ raw = <<>> => EnumSort(raw).given = <<>>
         /\ raw # <<>> /\ raw[1].as = "text" /\ raw[1].is \in Sorts =>
              EnumSort(raw).given # <<>> /\ EnumSort(raw).given[1] = raw[1].is
<1>1. Bad.given = <<>>
  BY DEF Bad
<1>2. raw = <<>> => Blank(raw)
  BY DEF Blank
<1>3. raw # <<>> /\ raw[1].as = "text" => ~Blank(raw)
  BY DEF Blank
<1> QED
  BY <1>1, <1>2, <1>3, ScalarIs DEF EnumSort

\* Filters that were parsed.
FiltersParsed(f) ==
  /\ DOMAIN f \subseteq FilterNames
  /\ Has(f, "sort") => f["sort"] \in Sorts
  /\ \A name \in DOMAIN f \cap DOMAIN Ranges : f[name] \in Ranges[name][1] .. Ranges[name][2]
  /\ \A name \in DOMAIN f \cap Flags : f[name] \in BOOLEAN
  /\ \A name \in DOMAIN f \cap Facets : f[name] \subseteq ToSet(Vocabulary[name])

\* Whatever a query states, what is parsed from it is in bounds.
LEMMA ParsedFilters ==
  ASSUME NEW query, IsQuery(query), NEW strict
  PROVE  FiltersParsed(ParseDiscoverFilters(query, strict).filters)
<1> DEFINE read(name) == BuildSchema(name, query[name], strict)
           f == ParseDiscoverFilters(query, strict).filters
<1>1. f = [name \in {n \in FilterNames : read(n).given # <<>>} |-> read(name).given[1]]
  BY DEF ParseDiscoverFilters
<1>2. \A name \in DOMAIN f : name \in FilterNames /\ read(name).given # <<>> /\ f[name] = read(name).given[1]
  BY <1>1
<1>3. \A name \in DOMAIN f : name \notin Facets => ReadsAsStated(query[name])
  BY <1>2, KindsOfNames DEF IsQuery
<1> HIDE DEF f
<1>4. ASSUME Has(f, "sort") PROVE f["sort"] \in Sorts
  BY <1>2, <1>4, SchemaOf, SortIs DEF Has
<1>5. ASSUME NEW name \in DOMAIN f \cap DOMAIN Ranges PROVE f[name] \in Ranges[name][1] .. Ranges[name][2]
  <2>1. ReadsAsStated(query[name])
    BY <1>3, KindsOfNames
  <2>2. read(name) = ClampedNumber(query[name], Ranges[name][1], Ranges[name][2])
    BY SchemaOf
  <2>3. Ranges[name][1] \in Int /\ Ranges[name][2] \in Int /\ Ranges[name][1] <= Ranges[name][2]
    BY RangesAre
  <2> HIDE DEF read
  <2> QED
    BY <1>2, <2>1, <2>2, <2>3, ClampedIs
<1>6. ASSUME NEW name \in DOMAIN f \cap Flags PROVE f[name] \in BOOLEAN
  <2>1. ReadsAsStated(query[name])
    BY <1>3, KindsOfNames
  <2>2. read(name) = Scalar(query[name], "flag") /\ read(name).given # <<>> /\ f[name] = read(name).given[1]
    BY <1>2, SchemaOf
  <2>3. ~Blank(query[name]) /\ query[name][1].as = "flag"
    BY <2>2, ScalarIs
  <2>4. f[name] = query[name][1].is
    BY <2>2, <2>3, ScalarIs
  <2> QED
    BY <2>1, <2>3, <2>4 DEF ReadsAsStated, Blank
<1>7. ASSUME NEW name \in DOMAIN f \cap Facets PROVE f[name] \subseteq ToSet(Vocabulary[name])
  <2>1. read(name) = EnumList(query[name], Vocabulary[name], strict)
    BY SchemaOf
  <2> HIDE DEF read
  <2> QED
    BY <1>2, <2>1, ListIs
<1>8. DOMAIN f \subseteq FilterNames
  BY <1>2
<1> QED
  BY <1>4, <1>5, <1>6, <1>7, <1>8 DEF FiltersParsed, f

-----------------------------------------------------------------------------
(* Filters as they are written *)

\* The constants of paging.
LEMMA PagingBounds ==
  /\ PageSize \in Nat \ {0} /\ MaxLimit \in Nat \ {0} /\ DefaultLimit \in Nat \ {0} /\ MaxOffset \in Nat
  /\ MaxLoaded \in Nat \ {0} /\ PageSize <= MaxLoaded /\ MaxLoaded <= MaxOffset
BY DiscoverAssumption

\* What a page reads from its address: filters without paging, and how many items it shows.
LEMMA PageStateIsRead ==
  ASSUME NEW query, IsQuery(query)
  PROVE  LET state == ReadDiscoverPageState(query)
         IN  FiltersRead(state.filters) /\ state.loaded \in 1 .. MaxOffset
<1> DEFINE p == ParseDiscoverFilters(query, FALSE).filters
           r == ReadDiscoverFilters(query)
           f == WithoutPaging(r)
           state == ReadDiscoverPageState(query)
           raw == query["loaded"]
<1>1. FiltersParsed(p)
  BY ParsedFilters
<1>2. /\ DOMAIN r = DOMAIN p \cup {"sort"} /\ r["sort"] \in Sorts
      /\ \A name \in DOMAIN p : r[name] = p[name]
  <2>1. CASE Has(p, "sort")
    <3>1. r = p /\ "sort" \in DOMAIN p /\ p["sort"] \in Sorts
      BY <1>1, <2>1 DEF ReadDiscoverFilters, FiltersParsed, Has
    <3> HIDE DEF r, p
    <3> QED
      BY <3>1
  <2>2. CASE ~Has(p, "sort")
    <3>1. r = With(p, [sort |-> "deadline"]) /\ "sort" \notin DOMAIN p
      BY <2>2 DEF ReadDiscoverFilters, Has
    <3> HIDE DEF r, p
    <3> QED
      BY <3>1 DEF With, Sorts
  <2> QED
    BY <2>1, <2>2
<1> HIDE DEF p, r
<1>3. /\ DOMAIN f = DOMAIN r \ {"limit", "offset"}
      /\ \A name \in DOMAIN f : f[name] = r[name]
  BY DEF WithoutPaging, Without
<1> HIDE DEF f
<1>4. "sort" \in FilterNames \ {"limit", "offset"} /\ "sort" \notin DOMAIN Ranges \cup Flags \cup Facets
  BY KindsOfNames
<1>5. FiltersRead(f)
  <2>1. DOMAIN f \subseteq FilterNames \ {"limit", "offset"} /\ Has(f, "sort") /\ f["sort"] \in Sorts
    BY <1>1, <1>2, <1>3, <1>4 DEF FiltersParsed, Has
  <2>2. \A name \in DOMAIN f : name # "sort" => name \in DOMAIN p /\ f[name] = p[name]
    BY <1>2, <1>3
  <2>3. \A name \in DOMAIN f \cap DOMAIN Ranges : f[name] \in Ranges[name][1] .. Ranges[name][2]
    <3> SUFFICES ASSUME NEW name \in DOMAIN f \cap DOMAIN Ranges PROVE f[name] \in Ranges[name][1] .. Ranges[name][2]
      OBVIOUS
    <3>1. name \in DOMAIN p \cap DOMAIN Ranges /\ f[name] = p[name]
      BY <1>4, <2>2
    <3>2. p[name] \in Ranges[name][1] .. Ranges[name][2]
      BY <1>1, <3>1 DEF FiltersParsed
    <3> QED
      BY <3>1, <3>2
  <2>4. \A name \in DOMAIN f \cap Flags : f[name] \in BOOLEAN
    BY <1>1, <1>4, <2>2 DEF FiltersParsed
  <2>5. \A name \in DOMAIN f \cap Facets : f[name] \subseteq ToSet(Vocabulary[name])
    BY <1>1, <1>4, <2>2 DEF FiltersParsed
  <2> QED
    BY <2>1, <2>3, <2>4, <2>5 DEF FiltersRead
<1>6. state.filters = f
  BY DEF ReadDiscoverPageState, f, r
<1>7. state.loaded \in 1 .. MaxOffset
  <2>1. CASE raw = <<>> \/ raw[1].as # "number"
    <3>1. state.loaded = PageSize
      BY <2>1 DEF ReadDiscoverPageState
    <3> QED
      BY <3>1, PagingBounds
  <2>2. CASE ~(raw = <<>> \/ raw[1].as # "number")
    <3> DEFINE v == raw[1].is
               high == Max({v, PageSize})
    <3>1. state.loaded = Min({high, MaxLoaded})
      BY <2>2 DEF ReadDiscoverPageState
    <3>2. v \in Int
      <4>1. ReadsAsStated(raw)
        BY KindsOfNames DEF IsQuery
      <4> QED
        BY <2>2, <4>1 DEF ReadsAsStated
    <3>3. high = IF v < PageSize THEN PageSize ELSE v
      BY <3>2, PagingBounds, GreatestOfTwo
    <3> HIDE DEF high, v
    <3>4. high \in Int
      BY <3>2, <3>3, PagingBounds
    <3>5. Min({high, MaxLoaded}) = IF high < MaxLoaded THEN high ELSE MaxLoaded
      BY <3>4, PagingBounds, LeastOfTwo
    <3> HIDE DEF state
    <3> QED
      BY <3>1, <3>2, <3>3, <3>5, PagingBounds
  <2> QED
    BY <2>1, <2>2
<1> QED
  BY <1>5, <1>6, <1>7

\* Numbers of filters are numbers.
Numeric(f) == \A name \in DOMAIN f \cap DOMAIN Ranges : f[name] \in Int

\* A number within bounds is a number.
LEMMA BoundedIsNumeric ==
  ASSUME NEW f, \A name \in DOMAIN f \cap DOMAIN Ranges : f[name] \in Ranges[name][1] .. Ranges[name][2]
  PROVE  Numeric(f)
<1> SUFFICES ASSUME NEW name \in DOMAIN f \cap DOMAIN Ranges PROVE f[name] \in Int
  BY DEF Numeric
<1>1. f[name] \in Ranges[name][1] .. Ranges[name][2]
  OBVIOUS
<1> QED
  BY <1>1, RangesAre

\* A value written by its kind reads as it.
LEMMA RawIs ==
  \A kind, v : Raw(kind, v) # <<>> /\ Raw(kind, v)[1].as = kind /\ Raw(kind, v)[1].is = v
BY DEF Raw

\* The values of a facet, as they are written.
ValuesWritten(chosen) == [i \in 1 .. Cardinality(chosen) |-> [as |-> "text", is |-> SetToSeq(chosen)[i]]]

\* A parameter is written by its kind.
LEMMA WrittenByKind ==
  ASSUME NEW f, NEW name \in DOMAIN NoQuery
  PROVE  LET raw == BuildDiscoverSearchParams(f)[name]
         IN  /\ ~Written(f, name) => raw = <<>>
             /\ Written(f, name) =>
                  /\ name \in DOMAIN Ranges => raw = Raw("number", f[name])
                  /\ name \in Flags => raw = Raw("flag", TRUE)
                  /\ name \in Dates => raw = Raw("date", f[name])
                  /\ name \in Facets => raw = ValuesWritten(f[name])
                  /\ name \notin DOMAIN Ranges \cup Flags \cup Dates \cup Facets => raw = Raw("text", f[name])
<1> USE DEF BuildDiscoverSearchParams, ValuesWritten
<1>1. CASE ~Written(f, name)
  BY <1>1
<1>2. CASE Written(f, name) /\ name \in DOMAIN Ranges
  BY <1>2, KindsOfNames
<1>3. CASE Written(f, name) /\ name \in Flags
  BY <1>3, KindsOfNames
<1>4. CASE Written(f, name) /\ name \in Dates
  BY <1>4, KindsOfNames
<1>5. CASE Written(f, name) /\ name \in Facets
  BY <1>5, KindsOfNames
<1>6. CASE Written(f, name) /\ name \notin DOMAIN Ranges \cup Flags \cup Dates \cup Facets
  BY <1>6
<1> QED
  BY <1>1, <1>2, <1>3, <1>4, <1>5, <1>6

\* An address that is written states what it states.
LEMMA WrittenIsQuery ==
  ASSUME NEW f, Numeric(f)
  PROVE  /\ IsQuery(BuildDiscoverSearchParams(f))
         /\ \A loaded \in Int : IsQuery(BuildDiscoverPageSearchParams(f, loaded))
<1>1. ASSUME NEW g, Numeric(g) PROVE IsQuery(BuildDiscoverSearchParams(g))
  <2> DEFINE query == BuildDiscoverSearchParams(g)
  <2>1. DOMAIN query = DOMAIN NoQuery
    BY DEF BuildDiscoverSearchParams
  <2> HIDE DEF query
  <2>2. ASSUME NEW name \in DOMAIN NoQuery \ Facets PROVE ReadsAsStated(query[name])
    <3>1. CASE ~Written(g, name)
      BY <3>1, WrittenByKind DEF ReadsAsStated, query
    <3>2. CASE Written(g, name) /\ name \in DOMAIN Ranges
      <4>1. g[name] \in Int /\ query[name] = Raw("number", g[name])
        BY <1>1, <3>2, WrittenByKind DEF Numeric, Written, Has, query
      <4> QED
        BY <4>1, RawIs DEF ReadsAsStated
    <3>3. CASE Written(g, name) /\ name \in Flags
      <4>1. query[name] = Raw("flag", TRUE)
        BY <3>3, WrittenByKind DEF query
      <4>2. query[name][1] = [as |-> "flag", is |-> TRUE]
        BY <4>1 DEF Raw
      <4>3. query[name][1].as = "flag" /\ query[name][1].is \in BOOLEAN
        BY <4>2
      <4> QED
        BY <4>3 DEF ReadsAsStated
    <3>4. CASE Written(g, name) /\ name \in Dates
      <4>1. query[name] = Raw("date", g[name])
        BY <3>4, WrittenByKind DEF query
      <4> QED
        BY <4>1, RawIs DEF ReadsAsStated
    <3>5. CASE Written(g, name) /\ name \notin DOMAIN Ranges \cup Flags \cup Dates \cup Facets
      <4>1. query[name] = Raw("text", g[name])
        BY <3>5, WrittenByKind DEF query
      <4> QED
        BY <4>1, RawIs DEF ReadsAsStated
    <3> QED
      BY <3>1, <3>2, <3>3, <3>4, <3>5
  <2> QED
    BY <2>1, <2>2 DEF IsQuery, query
<1>2. ASSUME NEW loaded \in Int PROVE IsQuery(BuildDiscoverPageSearchParams(f, loaded))
  <2> DEFINE base == BuildDiscoverSearchParams(WithoutPaging(f))
             depth == IF loaded > PageSize THEN Raw("number", Min({loaded, MaxLoaded})) ELSE <<>>
  <2>1. Numeric(WithoutPaging(f))
    BY DEF Numeric, WithoutPaging, Without
  <2>2. IsQuery(base)
    BY <1>1, <2>1
  <2>3. ReadsAsStated(depth)
    <3>1. Min({loaded, MaxLoaded}) \in Int
      BY LeastOfTwo, PagingBounds
    <3>2. CASE loaded > PageSize
      BY <3>1, <3>2, RawIs DEF ReadsAsStated
    <3>3. CASE ~(loaded > PageSize)
      BY <3>3 DEF ReadsAsStated
    <3> QED
      BY <3>2, <3>3
  <2>4. BuildDiscoverPageSearchParams(f, loaded) = [base EXCEPT !["loaded"] = depth]
    BY DEF BuildDiscoverPageSearchParams
  <2> HIDE DEF base, depth
  <2> QED
    BY <2>2, <2>3, <2>4 DEF IsQuery
<1> QED
  BY <1>1, <1>2

\* Without any parameter there is nothing to misread.
LEMMA NoQueryIsQuery == IsQuery(NoQuery)
BY DEF NoQuery, IsQuery, ReadsAsStated

\* Saved filters are numbers where numbers are asked for.
LEMMA SavedIsQuery ==
  ASSUME NEW saved \in SavedQueries
  PROVE  IsQuery(BuildDiscoverPageSearchParams(CanonicalizeFilters(ParseDiscoverFilters(saved, FALSE).filters), PageSize))
<1> DEFINE p == ParseDiscoverFilters(saved, FALSE).filters
           f == CanonicalizeFilters(p)
<1>1. FiltersParsed(p)
  BY ParsedFilters, DiscoverAssumption
<1> HIDE DEF p
<1>2. Numeric(p)
  BY <1>1, BoundedIsNumeric DEF FiltersParsed
<1>3. Numeric(f)
  BY <1>2 DEF Numeric, CanonicalizeFilters, Without
<1>4. PageSize \in Int
  BY PagingBounds
<1> HIDE DEF f
<1>5. IsQuery(BuildDiscoverPageSearchParams(f, PageSize))
  BY <1>3, <1>4, WrittenIsQuery
<1> QED
  BY <1>5 DEF f, p

\* The form of the dock, with whatever a visitor changes in it, states what it states.
LEMMA DockFormIsQuery ==
  ASSUME FiltersRead(view.filters), NEW edit \in DockEdits
  PROVE  IsQuery([DockForm EXCEPT ![edit.name] = edit.raw])
<1> DEFINE f == WithoutPaging(view.filters)
           form == DockForm
<1>1. Numeric(f)
  <2>1. Numeric(view.filters)
    BY BoundedIsNumeric DEF FiltersRead
  <2> QED
    BY <2>1 DEF Numeric, WithoutPaging, Without
<1> HIDE DEF f
<1>2. DOMAIN form = DOMAIN NoQuery
  BY DEF DockForm
<1>3. \A name \in DOMAIN NoQuery \ Facets : ReadsAsStated(BuildDiscoverSearchParams(f)[name])
  BY <1>1, WrittenIsQuery DEF IsQuery
<1>4. \A name, kind, options : (kind = "number" => name \in DOMAIN Ranges) /\ kind # "flag" => ReadsAsStated(Among(f, name, kind, options))
  BY <1>1, RawIs DEF Among, ReadsAsStated, Numeric, Has
<1>5. ASSUME NEW name \in DOMAIN NoQuery \ Facets PROVE ReadsAsStated(form[name])
  <2>1. CASE name = "jurisdiction"
    <3>1. form[name] = Among(f, name, "text", view.options[name])
      BY <2>1 DEF DockForm, f
    <3> QED
      BY <1>4, <3>1
  <2>2. CASE name \in {"search", "sort"}
    <3>1. form[name] = BuildDiscoverSearchParams(f)[name]
      BY <2>2 DEF DockForm, f
    <3> QED
      BY <1>3, <3>1
  <2>3. CASE name \notin {"jurisdiction", "search", "sort"}
    <3>1. form[name] = DockPanel(f, view.options, name)
      BY <2>3 DEF DockForm, f
    <3>2. CASE name \in {"procedureType", "implementationPath"}
      <4>1. form[name] = Among(f, name, "text", view.options[name])
        BY <3>1, <3>2, KindsOfNames DEF DockPanel
      <4> QED
        BY <1>4, <4>1
    <3>3. CASE name = "publishedWithinDays"
      <4>1. form[name] = Among(f, name, "number", RecencyOptions) /\ name \in DOMAIN Ranges
        BY <3>1, <3>3, KindsOfNames DEF DockPanel, Ranges
      <4> QED
        BY <1>4, <4>1
    <3>4. CASE name \notin {"procedureType", "implementationPath", "publishedWithinDays"}
      <4>1. form[name] = BuildDiscoverSearchParams(f)[name]
        BY <3>1, <3>4 DEF DockPanel
      <4> QED
        BY <1>3, <4>1
    <3> QED
      BY <3>2, <3>3, <3>4
  <2> QED
    BY <2>1, <2>2, <2>3
<1>6. edit.name \in DOMAIN NoQuery \ Facets => ReadsAsStated(edit.raw)
  BY DiscoverAssumption
<1> HIDE DEF form
<1>7. IsQuery([form EXCEPT ![edit.name] = edit.raw])
  BY <1>2, <1>5, <1>6 DEF IsQuery
<1> QED
  BY <1>7 DEF form

-----------------------------------------------------------------------------
(* Filters that select the same *)

\* A finite set written as a sequence has all its members, and no others.
LEMMA SetWritten ==
  ASSUME NEW S, IsFiniteSet(S)
  PROVE  /\ Cardinality(S) \in Nat
         /\ \A i \in 1 .. Cardinality(S) : SetToSeq(S)[i] \in S
         /\ \A x \in S : \E i \in 1 .. Cardinality(S) : SetToSeq(S)[i] = x
<1> DEFINE n == Cardinality(S)
           list == SetToSeq(S)
<1>1. n \in Nat /\ ExistsBijection(1 .. n, S)
  BY FS_CardinalityType
<1>2. \E f \in [1 .. n -> S] : IsInjective(f)
  BY <1>1 DEF ExistsBijection, Bijection, Injection
<1>3. list = CHOOSE f \in [1 .. n -> S] : IsInjective(f)
  BY DEF SetToSeq
<1> HIDE DEF list
<1>4. list \in [1 .. n -> S] /\ IsInjective(list)
  BY <1>2, <1>3
<1>5. list \in Injection(1 .. n, S)
  BY <1>4 DEF Injection
<1>6. Cardinality(1 .. n) = Cardinality(S)
  BY <1>1, FS_Interval
<1> HIDE DEF n
<1>7. list \in Surjection(1 .. n, S)
  BY <1>5, <1>6, FS_Injection
<1>8. \A x \in S : \E i \in 1 .. n : list[i] = x
  BY <1>7 DEF Surjection
<1> QED
  BY <1>1, <1>4, <1>8 DEF n, list

\* The values a facet has are finitely many.
LEMMA VocabularyFinite == \A facet \in Facets : IsFiniteSet(ToSet(Vocabulary[facet]))
<1> SUFFICES ASSUME NEW facet \in Facets PROVE IsFiniteSet(ToSet(Vocabulary[facet]))
  OBVIOUS
<1> DEFINE list == Vocabulary[facet]
           T == ToSet(list)
<1>1. list \in Seq(T)
  BY DiscoverAssumption
<1>2. DOMAIN list = 1 .. Len(list) /\ Len(list) \in Nat
  BY <1>1
<1>3. T = {list[i] : i \in 1 .. Len(list)}
  BY <1>2 DEF ToSet
<1>4. IsFiniteSet(1 .. Len(list))
  BY <1>2, FS_Interval
<1> HIDE DEF T, list
<1>5. list \in [1 .. Len(list) -> T]
  BY <1>1, <1>2
<1>6. list \in Surjection(1 .. Len(list), T)
  BY <1>3, <1>5 DEF Surjection
<1>7. IsFiniteSet(T)
  BY <1>4, <1>6, FS_Surjection
<1> QED
  BY <1>7 DEF T, list

\* The values of a facet that are written are read again, or the request is refused for their number.
LEMMA FacetReadsBack ==
  ASSUME NEW values, NEW chosen, chosen # {}, chosen \subseteq ToSet(values), IsFiniteSet(ToSet(values))
  PROVE  LET read == EnumList(ValuesWritten(chosen), values, TRUE)
         IN  read.ok => read.given # <<>> /\ read.given[1] = chosen
<1> DEFINE n == Cardinality(chosen)
           list == SetToSeq(chosen)
           raw == ValuesWritten(chosen)
           read == EnumList(raw, values, TRUE)
           named == {raw[i].is : i \in {j \in DOMAIN raw : raw[j].as = "text"}} \cap ToSet(values)
<1>1. IsFiniteSet(chosen)
  BY FS_Subset
<1>2. /\ n \in Nat /\ \A i \in 1 .. n : list[i] \in chosen
      /\ \A x \in chosen : \E i \in 1 .. n : list[i] = x
  BY <1>1, SetWritten
<1> HIDE DEF n, list, raw
<1>3. raw = [i \in 1 .. n |-> [as |-> "text", is |-> list[i]]]
  BY DEF n, list, raw, ValuesWritten
<1>4. DOMAIN raw = 1 .. n /\ \A i \in 1 .. n : raw[i].as = "text" /\ raw[i].is = list[i]
  <2>1. DOMAIN raw = 1 .. n
    BY <1>3
  <2>2. \A i \in 1 .. n : raw[i] = [as |-> "text", is |-> list[i]]
    BY <1>3
  <2>3. ASSUME NEW i \in 1 .. n PROVE raw[i].as = "text" /\ raw[i].is = list[i]
    <3>1. raw[i] = [as |-> "text", is |-> list[i]]
      BY <2>2
    <3> HIDE <2>2
    <3> QED
      BY <3>1
  <2> QED
    BY <2>1, <2>3
<1>5. n >= 1 /\ raw # <<>> /\ ~Blank(raw)
  <2>1. n >= 1
    <3>1. PICK x \in chosen : TRUE
      OBVIOUS
    <3>2. PICK i \in 1 .. n : list[i] = x
      BY <1>2
    <3> QED
      BY <1>2, <3>2
  <2>2. 1 \in DOMAIN raw /\ raw[1].as = "text"
    <3>1. 1 \in 1 .. n
      BY <1>2, <2>1
    <3> QED
      BY <1>4, <3>1
  <2> QED
    BY <2>1, <2>2 DEF Blank
<1>6. named = chosen
  <2>1. {j \in DOMAIN raw : raw[j].as = "text"} = 1 .. n
    BY <1>4
  <2>2. {raw[i].is : i \in 1 .. n} = chosen
    <3>1. \A x : x \in {raw[i].is : i \in 1 .. n} <=> \E i \in 1 .. n : list[i] = x
      BY <1>4
    <3> QED
      BY <1>2, <3>1
  <2> QED
    BY <2>1, <2>2
<1>7. Given(chosen).given # <<>> /\ Given(chosen).given[1] = chosen /\ ~Bad.ok
  BY DEF Given, Bad
<1>8. read = Bad \/ read = Given(named)
  BY <1>5 DEF EnumList
<1> HIDE DEF read, named
<1>9. read.ok => read.given # <<>> /\ read.given[1] = chosen
  BY <1>6, <1>7, <1>8
<1> QED
  BY <1>9 DEF read, raw

\* The request of "load more" for some filters, from some place in the list.
MorePages(f, place) == Paged(f, [limit |-> PageSize, offset |-> place])

\* Filters with a page: the filters as they were, and the page.
LEMMA PagedIs ==
  ASSUME NEW f, FiltersRead(f), NEW page
  PROVE  /\ DOMAIN Paged(f, page) = DOMAIN f \cup {"limit", "offset"}
         /\ \A name \in DOMAIN f : name \notin {"limit", "offset"} /\ Paged(f, page)[name] = f[name]
         /\ Paged(f, page)["limit"] = page.limit /\ Paged(f, page)["offset"] = page.offset
<1>1. \A name \in DOMAIN f : name \notin {"limit", "offset"}
  BY DEF FiltersRead
<1> QED
  BY <1>1 DEF Paged, With, WithoutPaging, Without

\* Two sets of filters that select the same: what one leaves out the other has off or empty.
SameFilters(f, g) ==
  /\ \A name \in FilterNames \ (Facets \cup {"limit", "offset", "sort", "includeExpired"}) :
       (Has(f, name) <=> Has(g, name)) /\ (Has(f, name) => f[name] = g[name])
  /\ FieldOr(f, "includeExpired", FALSE) = FieldOr(g, "includeExpired", FALSE)
  /\ \A facet \in Facets : FieldOr(f, facet, {}) = FieldOr(g, facet, {})

\* They ask the same of every row.
LEMMA SameRows ==
  ASSUME NEW f, NEW g, SameFilters(f, g), NEW row, NEW now
  PROVE  BuildWhere(row, f, now) <=> BuildWhere(row, g, now)
<1>1. \A name \in {"search", "jurisdiction", "procedureType", "implementationPath", "licensedArchitectRequired",
                   "minQualificationScore", "publishedWithinDays", "deadlineAfter", "deadlineBefore",
                   "minEstimatedValueEur", "maxEstimatedValueEur"} :
        (Has(f, name) <=> Has(g, name)) /\ (Has(f, name) => f[name] = g[name])
  <2>1. \A name \in {"search", "jurisdiction", "procedureType", "implementationPath", "licensedArchitectRequired",
                     "minQualificationScore", "publishedWithinDays", "deadlineAfter", "deadlineBefore",
                     "minEstimatedValueEur", "maxEstimatedValueEur"} :
          name \in (Texts \cup Flags \cup Dates \cup DOMAIN Ranges) \ {"limit", "offset", "sort", "includeExpired"}
    BY DEF Texts, Flags, Dates, Ranges
  <2>2. (Texts \cup Flags \cup Dates \cup DOMAIN Ranges) \subseteq FilterNames \ Facets
    BY KindsOfNames DEF FilterNames
  <2> QED
    BY <2>1, <2>2 DEF SameFilters
<1>2. Visible(row, f, now) <=> Visible(row, g, now)
  BY <1>1 DEF Visible, SameFilters
<1>3. (\A facet \in Facets : FieldOr(f, facet, {}) # {} => f[facet] \cap row.kinds[facet] # {})
      <=> (\A facet \in Facets : FieldOr(g, facet, {}) # {} => g[facet] \cap row.kinds[facet] # {})
  <2>1. \A facet \in Facets : FieldOr(f, facet, {}) # {} => FieldOr(g, facet, {}) # {} /\ f[facet] = g[facet]
    BY DEF SameFilters, FieldOr
  <2>2. \A facet \in Facets : FieldOr(g, facet, {}) # {} => FieldOr(f, facet, {}) # {} /\ f[facet] = g[facet]
    BY DEF SameFilters, FieldOr
  <2> QED
    BY <2>1, <2>2
<1> QED
  BY <1>1, <1>2, <1>3 DEF BuildWhere

\* Without drops the names it is given and leaves the other fields as they are.
LEMMA WithoutKeeps ==
  ASSUME NEW h, NEW names, NEW name
  PROVE  /\ Has(Without(h, names), name) <=> Has(h, name) /\ name \notin names
         /\ Has(Without(h, names), name) => Without(h, names)[name] = h[name]
<1>1. DOMAIN Without(h, names) = DOMAIN h \ names
  BY DEF Without
<1>2. name \in DOMAIN h \ names => Without(h, names)[name] = h[name]
  BY DEF Without
<1> QED
  BY <1>1, <1>2 DEF Has

\* They select the same rows.
LEMMA SameSelection ==
  ASSUME NEW f, NEW g, SameFilters(f, g), NEW db
  PROVE  Selected(db, f) = Selected(db, g)
<1> DEFINE q(h) == NormalizeQuery(h).filters
<1>1. \A h : q(h) = Without(h, {"limit", "offset", "sort"})
  BY DEF NormalizeQuery
<1> HIDE DEF q
<1>2. \A h, name : Has(q(h), name) <=> Has(h, name) /\ name \notin {"limit", "offset", "sort"}
  BY <1>1, WithoutKeeps
<1>3. \A h, name : Has(q(h), name) => q(h)[name] = h[name]
  BY <1>1, WithoutKeeps
<1>4. \A name \in Facets : name \notin {"limit", "offset", "sort"}
  BY KindsOfNames
<1>5. \A name \in Facets : FieldOr(q(f), name, {}) = FieldOr(f, name, {}) /\ FieldOr(q(g), name, {}) = FieldOr(g, name, {})
  BY <1>2, <1>3, <1>4 DEF FieldOr
<1>6. /\ FieldOr(q(f), "includeExpired", FALSE) = FieldOr(f, "includeExpired", FALSE)
      /\ FieldOr(q(g), "includeExpired", FALSE) = FieldOr(g, "includeExpired", FALSE)
  BY <1>2, <1>3 DEF FieldOr
<1>7. SameFilters(q(f), q(g))
  BY <1>2, <1>3, <1>5, <1>6 DEF SameFilters
<1>8. \A row : BuildWhere(row, q(f), db.now) <=> BuildWhere(row, q(g), db.now)
  BY <1>7, SameRows
<1> QED
  BY <1>8 DEF Selected, q

\* The order of a selection depends on the selection and on what it is ordered by.
OrderedBy(S, sort) == Arranged(S, LAMBDA x, y : Ahead(OrderBy(x, sort), OrderBy(y, sort)))

\* A list is the selection in its order.
LEMMA OrderedIs == \A db, f : Ordered(db, f) = OrderedBy(Selected(db, f), NormalizeQuery(f).sort)
BY DEF Ordered, OrderedBy

\* They show the same rows in the same order.
LEMMA SameOrdered ==
  ASSUME NEW f, NEW g, SameFilters(f, g), NormalizeQuery(f).sort = NormalizeQuery(g).sort, NEW db
  PROVE  Ordered(db, f) = Ordered(db, g)
BY SameSelection, OrderedIs

-----------------------------------------------------------------------------
(* A page of the list, and the request for it *)

\* Storage reads an order, a length and a place in bounds from whatever was parsed.
LEMMA NormalizedBounds ==
  ASSUME NEW f, FiltersParsed(f)
  PROVE  LET q == NormalizeQuery(f)
         IN  /\ q.sort \in Sorts /\ q.sort = FieldOr(f, "sort", "deadline")
             /\ q.limit \in 1 .. MaxLimit /\ q.offset \in 0 .. MaxOffset
             /\ (Has(f, "limit") => q.limit = f["limit"])
             /\ q.offset = FieldOr(f, "offset", 0)
<1> DEFINE q == NormalizeQuery(f)
           l == FieldOr(f, "limit", DefaultLimit)
           o == FieldOr(f, "offset", 0)
<1>1. q.sort = FieldOr(f, "sort", "deadline") /\ q.sort \in Sorts
  BY DEF NormalizeQuery, FieldOr, FiltersParsed, Has, Sorts
<1>2. q.limit = Max({1, Min({l, MaxLimit})}) /\ q.offset = Max({0, Min({o, MaxOffset})})
  BY DEF NormalizeQuery
<1>3. /\ Ranges["limit"] = <<1, MaxLimit>> /\ Ranges["offset"] = <<0, MaxOffset>>
      /\ {"limit", "offset"} \subseteq DOMAIN Ranges
  BY DEF Ranges
<1>4. Has(f, "limit") => f["limit"] \in 1 .. MaxLimit
  <2>1. \A name \in DOMAIN f \cap DOMAIN Ranges : f[name] \in Ranges[name][1] .. Ranges[name][2]
    BY DEF FiltersParsed
  <2>2. Has(f, "limit") => f["limit"] \in Ranges["limit"][1] .. Ranges["limit"][2]
    BY <1>3, <2>1 DEF Has
  <2> QED
    BY <1>3, <2>2
<1>5. Has(f, "offset") => f["offset"] \in 0 .. MaxOffset
  <2>1. \A name \in DOMAIN f \cap DOMAIN Ranges : f[name] \in Ranges[name][1] .. Ranges[name][2]
    BY DEF FiltersParsed
  <2>2. Has(f, "offset") => f["offset"] \in Ranges["offset"][1] .. Ranges["offset"][2]
    BY <1>3, <2>1 DEF Has
  <2> QED
    BY <1>3, <2>2
<1>6. l \in Nat \ {0} /\ (Has(f, "limit") => l = f["limit"])
  BY <1>4, PagingBounds DEF FieldOr
<1>7. o \in 0 .. MaxOffset
  BY <1>5, PagingBounds DEF FieldOr
<1> HIDE DEF l, o
<1>8. q.limit \in 1 .. MaxLimit /\ (l <= MaxLimit => q.limit = l)
  <2> DEFINE low == Min({l, MaxLimit})
  <2>1. low = IF l < MaxLimit THEN l ELSE MaxLimit
    BY <1>6, PagingBounds, LeastOfTwo
  <2>2. q.limit = Max({1, low})
    BY <1>2
  <2> HIDE DEF low, q
  <2>3. Max({1, low}) = IF 1 < low THEN low ELSE 1
    BY <1>6, <2>1, PagingBounds, GreatestOfTwo
  <2> QED
    BY <1>6, <2>1, <2>2, <2>3, PagingBounds
<1>9. q.offset = o
  <2> DEFINE low == Min({o, MaxOffset})
  <2>1. low = IF o < MaxOffset THEN o ELSE MaxOffset
    BY <1>7, PagingBounds, LeastOfTwo
  <2>2. q.offset = Max({0, low})
    BY <1>2
  <2> HIDE DEF low, q
  <2>3. Max({0, low}) = IF 0 < low THEN low ELSE 0
    BY <1>7, <2>1, PagingBounds, GreatestOfTwo
  <2> QED
    BY <1>7, <2>1, <2>2, <2>3, PagingBounds
<1>10. Has(f, "limit") => q.limit = f["limit"]
  BY <1>4, <1>6, <1>8
<1> HIDE DEF q
<1>11. q.offset \in 0 .. MaxOffset /\ q.offset = FieldOr(f, "offset", 0)
  BY <1>7, <1>9 DEF o
<1> QED
  BY <1>1, <1>8, <1>10, <1>11 DEF q

\* Filters with a page that is in bounds are filters that might have been parsed.
LEMMA PagedIsParsed ==
  ASSUME NEW f, FiltersRead(f), NEW page, page.limit \in 1 .. MaxLimit, page.offset \in 0 .. MaxOffset
  PROVE  /\ FiltersParsed(Paged(f, page)) /\ SameFilters(f, Paged(f, page))
         /\ LET q == NormalizeQuery(Paged(f, page))
            IN  q.sort = f["sort"] /\ q.limit = page.limit /\ q.offset = page.offset
<1> DEFINE p == Paged(f, page)
<1>1. /\ DOMAIN p = DOMAIN f \cup {"limit", "offset"}
      /\ \A name \in DOMAIN f : name \notin {"limit", "offset"} /\ p[name] = f[name]
      /\ p["limit"] = page.limit /\ p["offset"] = page.offset
  BY PagedIs
<1> HIDE DEF p
<1>2. /\ Ranges["limit"] = <<1, MaxLimit>> /\ Ranges["offset"] = <<0, MaxOffset>>
      /\ {"limit", "offset"} \cap (Flags \cup Facets \cup {"sort"}) = {} /\ {"limit", "offset"} \subseteq FilterNames
  <2>1. Ranges["limit"] = <<1, MaxLimit>> /\ Ranges["offset"] = <<0, MaxOffset>>
    BY DEF Ranges
  <2> QED
    BY <2>1, KindsOfNames DEF FilterNames
<1>3. FiltersParsed(p)
  <2>1. \A name \in DOMAIN p \cap DOMAIN Ranges : p[name] \in Ranges[name][1] .. Ranges[name][2]
    <3> SUFFICES ASSUME NEW name \in DOMAIN p \cap DOMAIN Ranges PROVE p[name] \in Ranges[name][1] .. Ranges[name][2]
      OBVIOUS
    <3>1. CASE name = "limit"
      BY <1>1, <1>2, <3>1
    <3>2. CASE name = "offset"
      BY <1>1, <1>2, <3>2
    <3>3. CASE name \notin {"limit", "offset"}
      <4>1. name \in DOMAIN f \cap DOMAIN Ranges /\ p[name] = f[name]
        BY <1>1, <3>3
      <4>2. f[name] \in Ranges[name][1] .. Ranges[name][2]
        BY <4>1 DEF FiltersRead
      <4> QED
        BY <4>1, <4>2
    <3> QED
      BY <3>1, <3>2, <3>3
  <2>2. DOMAIN p \subseteq FilterNames /\ p["sort"] \in Sorts /\ Has(p, "sort")
    BY <1>1, <1>2 DEF FiltersRead, Has
  <2>3. \A name \in DOMAIN p \cap Flags : p[name] \in BOOLEAN
    BY <1>1, <1>2 DEF FiltersRead
  <2>4. \A name \in DOMAIN p \cap Facets : p[name] \subseteq ToSet(Vocabulary[name])
    BY <1>1, <1>2 DEF FiltersRead
  <2> QED
    BY <2>1, <2>2, <2>3, <2>4 DEF FiltersParsed
<1>4. SameFilters(f, p)
  <2>1. \A name : name \notin {"limit", "offset"} => (Has(f, name) <=> Has(p, name)) /\ (Has(f, name) => f[name] = p[name])
    BY <1>1 DEF Has
  <2>2. \A facet \in Facets : facet \notin {"limit", "offset"}
    BY <1>2
  <2> QED
    BY <2>1, <2>2 DEF SameFilters, FieldOr
<1>5. FieldOr(p, "sort", "deadline") = f["sort"] /\ Has(p, "limit") /\ FieldOr(p, "offset", 0) = p["offset"]
  BY <1>1, <1>2 DEF FiltersRead, FieldOr, Has
<1>6. LET q == NormalizeQuery(p) IN q.sort = f["sort"] /\ q.limit = page.limit /\ q.offset = page.offset
  BY <1>1, <1>3, <1>5, NormalizedBounds
<1> QED
  BY <1>3, <1>4, <1>6 DEF p

\* The order of what a page read has selected.
LEMMA ReadSort ==
  ASSUME NEW f, FiltersRead(f)
  PROVE  NormalizeQuery(f).sort = f["sort"] /\ f["sort"] \in Sorts
BY DEF FiltersRead, NormalizeQuery, FieldOr

\* Any page of filters is a page of their list.
LEMMA PagedIsPage ==
  ASSUME NEW db, KnownTable(db), NEW f, FiltersRead(f),
         NEW page, page.limit \in 1 .. MaxLimit, page.offset \in 0 .. MaxOffset
  PROVE  LET all == IdsOf(Ordered(db, f))
         IN  /\ QueryOpportunityFeed(db, Paged(f, page)) = PageAt(all, page.offset, page.limit)
             /\ QueryOpportunityFeed(db, Paged(f, page)) \in Seq(Nat)
             /\ Discover(db, Paged(f, page)).opportunities = QueryOpportunityFeed(db, Paged(f, page))
             /\ Discover(db, Paged(f, page)).total = Len(all)
<1> DEFINE p == Paged(f, page)
<1>1. /\ FiltersParsed(p) /\ SameFilters(f, p) /\ NormalizeQuery(p).sort = f["sort"]
      /\ NormalizeQuery(p).limit = page.limit /\ NormalizeQuery(p).offset = page.offset
  BY PagedIsParsed
<1>2. NormalizeQuery(p).sort \in Sorts /\ NormalizeQuery(f).sort = NormalizeQuery(p).sort
  BY <1>1, ReadSort
<1> HIDE DEF p
<1>3. Ordered(db, p) = Ordered(db, f)
  BY <1>1, <1>2, SameOrdered
<1>4. NormalizeQuery(p).limit \in Nat /\ NormalizeQuery(p).offset \in Nat
  BY <1>1, PagingBounds
<1>5. /\ QueryOpportunityFeed(db, p) = PageAt(IdsOf(Ordered(db, p)), NormalizeQuery(p).offset, NormalizeQuery(p).limit)
      /\ QueryOpportunityFeed(db, p) \in Seq(Nat)
      /\ Discover(db, p).opportunities = QueryOpportunityFeed(db, p)
      /\ Discover(db, p).total = Len(IdsOf(Ordered(db, p)))
  BY <1>2, <1>4, PageOfList
<1> QED
  BY <1>1, <1>3, <1>5 DEF p

\* The request for more, written to an address and read strictly, asks for the next page of the same
\* list; only a filter for no licensed architect is lost on the way.
LEMMA RequestReadsBack ==
  ASSUME NEW f, FiltersRead(f), NEW place \in Nat,
         ParseDiscoverFilters(BuildDiscoverSearchParams(MorePages(f, place)), TRUE).ok
  PROVE  LET g == ParseDiscoverFilters(BuildDiscoverSearchParams(MorePages(f, place)), TRUE).filters
         IN  /\ FiltersParsed(g)
             /\ FieldOr(f, "licensedArchitectRequired", TRUE) =>
                  /\ SameFilters(f, g) /\ NormalizeQuery(g).sort = f["sort"]
                  /\ NormalizeQuery(g).offset = Lesser(place, MaxOffset)
<1> DEFINE p == MorePages(f, place)
           query == BuildDiscoverSearchParams(p)
           parsed == ParseDiscoverFilters(query, TRUE)
           g == parsed.filters
           read(name) == BuildSchema(name, query[name], TRUE)
<1>1. /\ DOMAIN p = DOMAIN f \cup {"limit", "offset"}
      /\ \A name \in DOMAIN f : name \notin {"limit", "offset"} /\ p[name] = f[name]
      /\ p["limit"] = PageSize /\ p["offset"] = place
  BY PagedIs DEF MorePages
<1> HIDE DEF p
<1>2. Numeric(p)
  <2>1. Numeric(f)
    BY BoundedIsNumeric DEF FiltersRead
  <2> QED
    BY <1>1, <2>1, PagingBounds DEF Numeric
<1>3. IsQuery(query) /\ FiltersParsed(g)
  BY <1>2, WrittenIsQuery, ParsedFilters
<1>4. /\ g = [name \in {n \in FilterNames : read(n).given # <<>>} |-> read(name).given[1]]
      /\ parsed.ok = (~TRUE \/ \A name \in FilterNames : read(name).ok)
  BY DEF ParseDiscoverFilters
<1>5. \A name \in FilterNames : read(name).ok
  BY <1>4 DEF p
<1>6. /\ \A name \in FilterNames : Has(g, name) <=> read(name).given # <<>>
      /\ \A name \in FilterNames : Has(g, name) => g[name] = read(name).given[1]
  BY <1>4 DEF Has
<1>7. \A name \in FilterNames : name \in DOMAIN NoQuery
  BY KindsOfNames
<1>8. /\ \A name \in Texts : name \in FilterNames /\ read(name) = Scalar(query[name], "text")
      /\ \A name \in Dates : name \in FilterNames /\ read(name) = Scalar(query[name], "date")
      /\ \A name \in Flags : name \in FilterNames /\ read(name) = Scalar(query[name], "flag")
      /\ \A name \in DOMAIN Ranges :
           name \in FilterNames /\ read(name) = ClampedNumber(query[name], Ranges[name][1], Ranges[name][2])
      /\ \A name \in Facets : name \in FilterNames /\ read(name) = EnumList(query[name], Vocabulary[name], TRUE)
      /\ "sort" \in FilterNames /\ read("sort") = EnumSort(query["sort"])
  <2>1. \A name \in Texts \cup Dates \cup Flags \cup DOMAIN Ranges \cup Facets \cup {"sort"} : name \in FilterNames
    BY DEF FilterNames
  <2> QED
    BY <2>1, SchemaOf
<1>9. /\ \A name \in FilterNames : ~Written(p, name) => query[name] = <<>>
      /\ \A name \in Texts \cup {"sort"} : Written(p, name) => query[name] = Raw("text", p[name])
      /\ \A name \in Dates : Written(p, name) => query[name] = Raw("date", p[name])
      /\ \A name \in Flags : Written(p, name) => query[name] = Raw("flag", TRUE)
      /\ \A name \in DOMAIN Ranges : Written(p, name) => query[name] = Raw("number", p[name])
  <2>1. \A name \in Texts \cup {"sort"} : name \in FilterNames /\ name \notin DOMAIN Ranges \cup Flags \cup Dates \cup Facets
    BY <1>8, KindsOfNames
  <2>2. ASSUME NEW name \in FilterNames
        PROVE  /\ ~Written(p, name) => query[name] = <<>>
               /\ Written(p, name) =>
                    /\ name \in DOMAIN Ranges => query[name] = Raw("number", p[name])
                    /\ name \in Flags => query[name] = Raw("flag", TRUE)
                    /\ name \in Dates => query[name] = Raw("date", p[name])
                    /\ name \notin DOMAIN Ranges \cup Flags \cup Dates \cup Facets => query[name] = Raw("text", p[name])
    BY <1>7, WrittenByKind
  <2> HIDE DEF query
  <2> QED
    BY <1>8, <2>1, <2>2
<1> HIDE DEF g, parsed, read, query
<1>10. ASSUME NEW name \in FilterNames, NEW kind, kind # "blank", read(name) = Scalar(query[name], kind)
       PROVE  /\ query[name] = <<>> => ~Has(g, name)
              /\ \A v : query[name] = Raw(kind, v) => Has(g, name) /\ g[name] = v
  <2>1. CASE query[name] = <<>>
    <3>1. Blank(query[name])
      BY <2>1 DEF Blank
    <3>2. read(name).given = <<>>
      BY <1>10, <3>1, ScalarIs
    <3> QED
      BY <1>6, <2>1, <3>2 DEF Raw
  <2>2. ASSUME NEW v, query[name] = Raw(kind, v) PROVE Has(g, name) /\ g[name] = v
    <3>1. query[name] # <<>> /\ query[name][1] = [as |-> kind, is |-> v]
      BY <2>2 DEF Raw
    <3>2. query[name][1].as = kind /\ query[name][1].is = v
      BY <3>1
    <3>3. ~Blank(query[name])
      BY <1>10, <3>1, <3>2 DEF Blank
    <3>4. read(name).given # <<>> /\ read(name).given[1] = query[name][1].is
      BY <1>10, <3>2, <3>3, ScalarIs
    <3>5. g[name] = read(name).given[1]
      BY <1>6, <3>4
    <3> QED
      BY <1>6, <3>2, <3>4, <3>5
  <2> QED
    BY <1>10, <2>1, <2>2
<1>11. ASSUME NEW name \in DOMAIN Ranges
       PROVE  /\ name \in FilterNames
              /\ name # "offset" => (Has(g, name) <=> Has(p, name))
              /\ name = "offset" => (Has(g, name) <=> place > 0)
              /\ Has(g, name) /\ p[name] \in Ranges[name][1] .. Ranges[name][2] => g[name] = p[name]
              /\ Has(g, name) /\ p[name] > Ranges[name][2] => g[name] = Ranges[name][2]
  <2> DEFINE lo == Ranges[name][1]
             hi == Ranges[name][2]
  <2>1. /\ name \in FilterNames /\ read(name) = ClampedNumber(query[name], lo, hi)
        /\ lo \in Int /\ hi \in Int /\ lo <= hi
    BY <1>8, RangesAre
  <2>2. /\ name # "offset" => (Written(p, name) <=> Has(p, name))
        /\ name = "offset" => (Written(p, name) <=> place > 0)
    BY <1>1, KindsOfNames DEF Written, Has
  <2>3. ReadsAsStated(query[name])
    BY <1>3, <1>7, <2>1, KindsOfNames DEF IsQuery
  <2>4. CASE ~Written(p, name)
    <3>1. query[name] = <<>>
      BY <1>9, <2>1, <2>4
    <3>2. ClampedNumber(query[name], lo, hi).given = <<>>
      BY <2>1, <2>3, <3>1, ClampedIs
    <3>3. ~Has(g, name)
      BY <1>6, <2>1, <3>2
    <3> QED
      BY <2>1, <2>2, <2>4, <3>3
  <2>5. CASE Written(p, name)
    <3>1. query[name] = Raw("number", p[name])
      BY <1>9, <2>5
    <3>2. query[name] # <<>> /\ query[name][1].as = "number" /\ query[name][1].is = p[name]
      BY <3>1, RawIs
    <3>3. LET clamped == ClampedNumber(query[name], lo, hi)
          IN  /\ clamped.given # <<>>
              /\ p[name] \in lo .. hi => clamped.given[1] = p[name]
              /\ p[name] > hi => clamped.given[1] = hi
      BY <2>1, <2>3, <3>2, ClampedIs
    <3>4. Has(g, name) /\ g[name] = ClampedNumber(query[name], lo, hi).given[1]
      BY <1>6, <2>1, <3>3
    <3> QED
      BY <2>1, <2>2, <2>5, <3>3, <3>4
  <2> QED
    BY <2>4, <2>5
<1>12. FieldOr(g, "sort", "deadline") = f["sort"]
  <2>1. /\ "sort" \in FilterNames /\ read("sort") = EnumSort(query["sort"])
        /\ Has(p, "sort") /\ p["sort"] = f["sort"] /\ f["sort"] \in Sorts
        /\ (Written(p, "sort") <=> p["sort"] # "deadline")
    BY <1>1, <1>8, KindsOfNames DEF FiltersRead, Has, Written
  <2>2. CASE p["sort"] = "deadline"
    <3>1. query["sort"] = <<>>
      BY <1>9, <2>1, <2>2
    <3>2. read("sort").given = <<>>
      BY <2>1, <3>1, SortIs
    <3>3. ~Has(g, "sort")
      BY <1>6, <2>1, <3>2
    <3> QED
      BY <2>1, <2>2, <3>3 DEF FieldOr
  <2>3. CASE p["sort"] # "deadline"
    <3>1. query["sort"] = Raw("text", p["sort"])
      BY <1>9, <2>1, <2>3
    <3>2. query["sort"] # <<>> /\ query["sort"][1].as = "text" /\ query["sort"][1].is = p["sort"]
      BY <3>1, RawIs
    <3>3. read("sort").given # <<>> /\ read("sort").given[1] = p["sort"]
      BY <2>1, <3>2, SortIs
    <3>4. Has(g, "sort") /\ g["sort"] = read("sort").given[1]
      BY <1>6, <2>1, <3>3
    <3> QED
      BY <2>1, <3>3, <3>4 DEF FieldOr
  <2> QED
    BY <2>2, <2>3
<1>13. ASSUME NEW facet \in Facets PROVE FieldOr(f, facet, {}) = FieldOr(g, facet, {})
  <2>1. /\ facet \in FilterNames /\ read(facet) = EnumList(query[facet], Vocabulary[facet], TRUE)
        /\ facet \notin {"limit", "offset", "sort"} /\ facet \notin Flags
    BY <1>8, KindsOfNames
  <2>2. Written(p, facet) <=> Has(p, facet) /\ p[facet] # {}
    BY <2>1 DEF Written
  <2>3. (Has(p, facet) <=> Has(f, facet)) /\ (Has(f, facet) => p[facet] = f[facet])
    BY <1>1, <2>1 DEF Has
  <2>4. CASE ~Written(p, facet)
    <3>1. query[facet] = <<>>
      BY <1>9, <2>1, <2>4
    <3>2. read(facet).given = <<>>
      BY <2>1, <3>1 DEF EnumList, Unset
    <3>3. ~Has(g, facet)
      BY <1>6, <2>1, <3>2
    <3> QED
      BY <2>2, <2>3, <2>4, <3>3 DEF FieldOr
  <2>5. CASE Written(p, facet)
    <3>1. query[facet] = ValuesWritten(p[facet])
      BY <1>7, <2>1, <2>5, WrittenByKind DEF query
    <3>2. Has(f, facet) /\ p[facet] = f[facet] /\ p[facet] # {}
      BY <2>2, <2>3, <2>5
    <3>3. f[facet] \subseteq ToSet(Vocabulary[facet]) /\ IsFiniteSet(ToSet(Vocabulary[facet]))
      BY <3>2, VocabularyFinite DEF FiltersRead, Has
    <3>4. EnumList(query[facet], Vocabulary[facet], TRUE).ok
      BY <1>5, <2>1
    <3>5. read(facet).given # <<>> /\ read(facet).given[1] = p[facet]
      <4>1. LET e == EnumList(ValuesWritten(p[facet]), Vocabulary[facet], TRUE)
            IN  e.ok => e.given # <<>> /\ e.given[1] = p[facet]
        BY <3>2, <3>3, FacetReadsBack
      <4> QED
        BY <2>1, <3>1, <3>4, <4>1
    <3>6. Has(g, facet) /\ g[facet] = p[facet]
      BY <1>6, <2>1, <3>5
    <3> QED
      BY <3>2, <3>6 DEF FieldOr
  <2> QED
    BY <2>4, <2>5
<1>14. ASSUME FieldOr(f, "licensedArchitectRequired", TRUE)
       PROVE  \A name \in FilterNames \ (Facets \cup {"limit", "offset", "sort", "includeExpired"}) :
                (Has(f, name) <=> Has(g, name)) /\ (Has(f, name) => f[name] = g[name])
  <2> SUFFICES ASSUME NEW name \in FilterNames \ (Facets \cup {"limit", "offset", "sort", "includeExpired"})
               PROVE  (Has(f, name) <=> Has(g, name)) /\ (Has(f, name) => f[name] = g[name])
    OBVIOUS
  <2>1. (Has(p, name) <=> Has(f, name)) /\ (Has(f, name) => p[name] = f[name])
    BY <1>1 DEF Has
  <2>2. CASE name \in Texts
    <3>1. Written(p, name) <=> Has(p, name)
      BY <2>2, KindsOfNames DEF Written
    <3>2. read(name) = Scalar(query[name], "text") /\ name \in Texts \cup {"sort"}
      BY <1>8, <2>2
    <3>3. (Written(p, name) => query[name] = Raw("text", p[name])) /\ (~Written(p, name) => query[name] = <<>>)
      BY <1>9, <3>2
    <3> QED
      BY <1>10, <2>1, <3>1, <3>2, <3>3
  <2>3. CASE name \in Dates
    <3>1. Written(p, name) <=> Has(p, name)
      BY <2>3, KindsOfNames DEF Written
    <3>2. read(name) = Scalar(query[name], "date")
      BY <1>8, <2>3
    <3> QED
      BY <1>9, <1>10, <2>1, <2>3, <3>1, <3>2
  <2>4. CASE name \in DOMAIN Ranges
    <3>1. Has(f, name) => f[name] \in Ranges[name][1] .. Ranges[name][2]
      BY <2>4 DEF FiltersRead, Has
    <3> QED
      BY <1>11, <2>1, <2>4, <3>1
  <2>5. CASE name \in Flags
    <3>1. name = "licensedArchitectRequired" /\ (Has(f, name) => f[name] \in BOOLEAN)
      BY <2>5 DEF Flags, FiltersRead, Has
    <3>2. Has(f, name) => f[name] = TRUE
      BY <1>14, <3>1 DEF FieldOr
    <3>3. Written(p, name) <=> Has(p, name)
      BY <2>1, <2>5, <3>2, KindsOfNames DEF Written
    <3>4. read(name) = Scalar(query[name], "flag")
      BY <1>8, <2>5
    <3>5. (~Has(f, name) => ~Has(g, name)) /\ (Has(f, name) => Has(g, name) /\ g[name] = TRUE)
      BY <1>9, <1>10, <2>1, <2>5, <3>3, <3>4
    <3> QED
      BY <3>2, <3>5
  <2> QED
    BY <2>2, <2>3, <2>4, <2>5, KindsOfNames
<1>15. FieldOr(f, "includeExpired", FALSE) = FieldOr(g, "includeExpired", FALSE)
  <2> DEFINE name == "includeExpired"
  <2>1. name \in Flags /\ (Has(p, name) <=> Has(f, name)) /\ (Has(f, name) => p[name] = f[name])
    BY <1>1 DEF Flags, Has
  <2>2. Has(f, name) => f[name] \in BOOLEAN
    BY <2>1 DEF FiltersRead, Has
  <2> HIDE DEF name
  <2>3. Written(p, name) <=> Has(f, name) /\ f[name] = TRUE
    BY <2>1, <2>2, KindsOfNames DEF Written
  <2>4. read(name) = Scalar(query[name], "flag") /\ name \in FilterNames
    BY <1>8, <2>1
  <2>5. (~Written(p, name) => ~Has(g, name)) /\ (Written(p, name) => Has(g, name) /\ g[name] = TRUE)
    BY <1>9, <1>10, <2>1, <2>4
  <2>6. FieldOr(f, name, FALSE) = FieldOr(g, name, FALSE)
    BY <2>2, <2>3, <2>5 DEF FieldOr
  <2> QED
    BY <2>6 DEF name
<1>16. NormalizeQuery(g).sort = f["sort"] /\ NormalizeQuery(g).offset = FieldOr(g, "offset", 0)
  BY <1>3, <1>12, NormalizedBounds
<1>17. FieldOr(g, "offset", 0) = Lesser(place, MaxOffset)
  <2>1. "offset" \in DOMAIN Ranges /\ Ranges["offset"][1] = 0 /\ Ranges["offset"][2] = MaxOffset
    BY DEF Ranges
  <2>2. /\ Has(g, "offset") <=> place > 0
        /\ Has(g, "offset") /\ place \in 0 .. MaxOffset => g["offset"] = place
        /\ Has(g, "offset") /\ place > MaxOffset => g["offset"] = MaxOffset
    BY <1>1, <1>11, <2>1
  <2> QED
    BY <2>2, PagingBounds DEF FieldOr, Lesser
<1>18. FieldOr(f, "licensedArchitectRequired", TRUE) => SameFilters(f, g)
  BY <1>13, <1>14, <1>15 DEF SameFilters
<1> QED
  BY <1>3, <1>16, <1>17, <1>18 DEF g, parsed, query, p

-----------------------------------------------------------------------------
(* Where pages start and end *)

\* Multiples of a number keep the order of what they are multiples of.
LEMMA Multiples == \A a, b, c \in Nat : a <= b => a * c \in Nat /\ a * c <= b * c
OBVIOUS

\* How many pages of a length are needed for a remainder: all but the last are full.
LEMMA PagesNeeded ==
  ASSUME NEW rest \in Nat, NEW length \in Nat \ {0}
  PROVE  LET count == (rest + length - 1) \div length
         IN  /\ count \in Nat
             /\ \A k \in 1 .. count : (k - 1) * length \in Nat /\ (k - 1) * length < rest
             /\ \A k \in 1 .. count : k < count => rest - (k - 1) * length > length
<1> DEFINE x == rest + length - 1
           count == x \div length
<1>1. x \in Nat /\ length \in Nat /\ length > 0
  OBVIOUS
<1>2. count \in Nat /\ count * length <= x
  <2> HIDE DEF x
  <2> QED
    BY <1>1
<1> HIDE DEF count
<1>3. ASSUME NEW k \in 1 .. count PROVE (k - 1) * length \in Nat /\ (k - 1) * length < rest
  <2>1. k \in Nat /\ k - 1 \in Nat /\ k * length = (k - 1) * length + length /\ (k - 1) * length \in Nat
    BY <1>1
  <2>2. k * length <= count * length
    BY <1>1, <1>2, <2>1, Multiples
  <2>3. k * length \in Nat /\ count * length \in Nat
    BY <1>1, <1>2, <2>1
  <2> QED
    BY <1>2, <2>1, <2>2, <2>3
<1>4. ASSUME NEW k \in 1 .. count, k < count PROVE rest - (k - 1) * length > length
  <2>1. k + 1 \in 1 .. count /\ (k + 1) - 1 = k
    BY <1>2, <1>4
  <2>2. k * length \in Nat /\ k * length < rest
    BY <1>3, <2>1
  <2>3. k * length = (k - 1) * length + length
    BY <1>1
  <2> QED
    BY <1>1, <1>3, <2>2, <2>3
<1> QED
  BY <1>2, <1>3, <1>4 DEF count, x

\* Where the n-th page of a deep list ends.
Depth(loaded, n) == Lesser(loaded, MaxLimit) + n * MaxLimit

\* Each further page starts where the one before it ends, and its length and place are in bounds.
LEMMA ExtraPagesAre ==
  ASSUME NEW loaded \in 1 .. MaxOffset
  PROVE  LET pgs == ExtraPages(loaded)
         IN  /\ Min({loaded, MaxLimit}) = Lesser(loaded, MaxLimit) /\ Lesser(loaded, MaxLimit) \in 1 .. MaxLimit
             /\ Len(pgs) \in Nat /\ DOMAIN pgs = 1 .. Len(pgs)
             /\ \A k \in 1 .. Len(pgs) :
                  /\ pgs[k].limit \in 1 .. MaxLimit /\ pgs[k].offset \in 0 .. MaxOffset
                  /\ pgs[k].offset = Depth(loaded, k - 1)
                  /\ k < Len(pgs) => pgs[k].offset + pgs[k].limit = Depth(loaded, k)
<1> DEFINE first == Min({loaded, MaxLimit})
           rest == loaded - first
           count == (rest + MaxLimit - 1) \div MaxLimit
           pgs == ExtraPages(loaded)
<1>1. first = Lesser(loaded, MaxLimit) /\ first \in 1 .. MaxLimit /\ first <= loaded
  BY PagingBounds, LeastOfTwo DEF Lesser
<1>2. pgs = [i \in 1 .. count |-> [limit |-> Min({MaxLimit, rest - (i - 1) * MaxLimit}),
                                   offset |-> first + (i - 1) * MaxLimit]]
  BY DEF ExtraPages
<1> HIDE DEF first, pgs
<1>3. rest \in Nat /\ MaxLimit \in Nat \ {0} /\ loaded \in Nat /\ MaxOffset \in Nat
  BY <1>1, PagingBounds
<1>4. /\ count \in Nat
      /\ \A k \in 1 .. count : (k - 1) * MaxLimit \in Nat /\ (k - 1) * MaxLimit < rest
      /\ \A k \in 1 .. count : k < count => rest - (k - 1) * MaxLimit > MaxLimit
  BY <1>3, PagesNeeded
<1> HIDE DEF count
<1>5. Len(pgs) = count /\ DOMAIN pgs = 1 .. count
  BY <1>2, <1>4
<1>6. ASSUME NEW k \in 1 .. count
      PROVE  /\ pgs[k].limit \in 1 .. MaxLimit /\ pgs[k].offset \in 0 .. MaxOffset
             /\ pgs[k].offset = Depth(loaded, k - 1)
             /\ k < count => pgs[k].offset + pgs[k].limit = Depth(loaded, k)
  <2> DEFINE before == (k - 1) * MaxLimit
             left == rest - before
  <2>1. pgs[k] = [limit |-> Min({MaxLimit, left}), offset |-> first + before]
    BY <1>2
  <2>2. before \in Nat /\ before < rest /\ (k < count => left > MaxLimit) /\ k * MaxLimit = before + MaxLimit
    BY <1>3, <1>4
  <2>3. Depth(loaded, k - 1) = first + before /\ Depth(loaded, k) = first + k * MaxLimit
    BY <1>1 DEF Depth
  <2> HIDE DEF before
  <2>4. left \in Nat /\ left >= 1
    BY <1>3, <2>2
  <2>5. Min({MaxLimit, left}) = IF MaxLimit < left THEN MaxLimit ELSE left
    BY <1>3, <2>4, LeastOfTwo
  <2>6. pgs[k].limit = Min({MaxLimit, left}) /\ pgs[k].offset = first + before
    BY <2>1
  <2>7. pgs[k].limit \in 1 .. MaxLimit /\ (k < count => pgs[k].limit = MaxLimit)
    BY <1>3, <2>2, <2>4, <2>5, <2>6
  <2>8. first + before <= loaded
    BY <1>1, <1>3, <2>2
  <2> QED
    BY <1>1, <1>3, <2>2, <2>3, <2>6, <2>7, <2>8
<1> QED
  BY <1>1, <1>4, <1>5, <1>6 DEF first, pgs

\* A page of the list that starts within what is shown, or beyond the end of a list shown to its end,
\* makes more of the list shown.
LEMMA AppendNext ==
  ASSUME NEW all \in Seq(Nat), Once(all), NEW v, NEW state \in FeedsOnce(v),
         NEW c \in 0 .. Len(all), state.items = SubSeq(all, 1, c),
         NEW o \in Nat, NEW l \in Nat, o <= c \/ c = Len(all),
         NEW page, page.opportunities = PageAt(all, o, l), page.total = Len(all)
  PROVE  LET e == Lesser(o + l, Len(all))
             d == Further(c, e)
             next == AppendFeedPage(state, page)
         IN  /\ next \in FeedsOnce(v) /\ d \in c .. Len(all)
             /\ next.items = SubSeq(all, 1, d)
             /\ e > o => next.nextOffset = state.nextOffset + (e - o) /\ next.total = Len(all)
             /\ e <= o => next.nextOffset = state.nextOffset /\ next.total = state.nextOffset
<1> DEFINE n == Len(all)
           e == Lesser(o + l, n)
           d == Further(c, e)
           next == AppendFeedPage(state, page)
           ids == page.opportunities
<1>1. n \in Nat /\ e \in Nat /\ e <= n /\ c \in Nat /\ c <= n
  BY DEF Lesser
<1>2. ids \in Seq(Nat) /\ Len(ids) = IF e > o THEN e - o ELSE 0
  <2>1. ids = SubSeq(all, o + 1, e)
    BY DEF PageAt
  <2> HIDE DEF e, ids
  <2> QED
    BY <1>1, <2>1
<1>3. page.total \in Nat
  OBVIOUS
<1>4. next \in FeedsOnce(v)
  BY <1>2, <1>3, AppendKeeps
<1>5. state.nextOffset \in Nat /\ state.items \in Seq(Nat)
  BY DEF FeedsOnce, Feeds
<1>6. e > o => /\ next.items = state.items \o FreshIds(state, page) /\ o \in 0 .. c
               /\ next.nextOffset = state.nextOffset + (e - o) /\ next.total = n
  <2> SUFFICES ASSUME e > o PROVE next.items = state.items \o FreshIds(state, page) /\ o \in 0 .. c
                                   /\ next.nextOffset = state.nextOffset + (e - o) /\ next.total = n
    OBVIOUS
  <2>1. ids # <<>> /\ Len(ids) = e - o /\ o \in 0 .. c
    BY <1>1, <1>2
  <2>2. ids # <<>> =>
          /\ next.items = state.items \o FreshIds(state, page)
          /\ next.nextOffset = state.nextOffset + Len(ids) /\ next.total = page.total
    BY <1>2, <1>3, AppendKeeps
  <2> HIDE DEF e, next, ids
  <2> QED
    BY <2>1, <2>2
<1>7. e <= o => next.items = state.items /\ next.nextOffset = state.nextOffset /\ next.total = state.nextOffset
  <2>1. e <= o => ids = <<>>
    BY <1>1, <1>2
  <2>2. ids = <<>> => next.items = state.items /\ next.nextOffset = state.nextOffset /\ next.total = state.nextOffset
    BY <1>2, <1>3, AppendKeeps
  <2> QED
    BY <2>1, <2>2
<1>8. e > o => state.items \o FreshIds(state, page) = SubSeq(all, 1, d)
  <2> SUFFICES ASSUME e > o PROVE state.items \o FreshIds(state, page) = SubSeq(all, 1, d)
    OBVIOUS
  <2>1. o \in 0 .. c
    BY <1>6
  <2>2. FollowsOn(all, c, o, l, state, page)
    BY <2>1 DEF FollowsOn
  <2>3. Extends(all, c, o, l, state.items \o FreshIds(state, page))
    BY <2>2, FreshIsNext
  <2> QED
    BY <2>3 DEF Extends
<1>9. (e <= o => d = c) /\ d \in c .. n
  <2>1. e <= o => e <= c
    BY <1>1 DEF Lesser
  <2> HIDE DEF e
  <2> QED
    BY <1>1, <2>1 DEF Further
<1> HIDE DEF e, next, d, ids
<1>10. next.items = SubSeq(all, 1, d)
  <2>1. CASE e > o
    BY <1>6, <1>8, <2>1
  <2>2. CASE e <= o
    BY <1>7, <1>9, <2>2
  <2> QED
    BY <1>1, <2>1, <2>2
<1> QED
  BY <1>4, <1>6, <1>7, <1>9, <1>10 DEF e, next, d

-----------------------------------------------------------------------------
(* What a list shows *)

\* What some filters select, in their order.
AllOf(db, f) == IdsOf(Ordered(db, f))

\* Filters an address can hold.
Writable(f) == FieldOr(f, "licensedArchitectRequired", TRUE)

\* A list on screen: filters that were read, and no opportunity twice.
ViewOK(v) == FiltersRead(v.filters) /\ v \in FeedsOnce(v)

\* The further pages of a list that is being opened.
Deepens(v) == \E loaded \in 1 .. MaxOffset : v.extra = ExtraPages(loaded)

\* A list that is being opened has its first page.
Begun(db, v) ==
  LET all == AllOf(db, v.filters)
  IN  \E loaded \in 1 .. MaxOffset :
        /\ v.extra = ExtraPages(loaded) /\ v.items = PageAt(all, 0, Lesser(loaded, MaxLimit))
        /\ v.nextOffset = Len(v.items) /\ v.total = Len(all)

\* A list shows the beginning of what there is, as far as its offset says or storage lets it read.
ShownTo(db, v, c) ==
  LET all == AllOf(db, v.filters)
  IN  /\ c \in 0 .. Len(all) /\ v.items = SubSeq(all, 1, c) /\ v.total = Len(all)
      /\ Lesser(v.nextOffset, MaxOffset) <= c /\ (Len(all) <= MaxOffset => v.nextOffset = c)
Shown(db, v) == Writable(v.filters) => \E c : ShownTo(db, v, c)

\* An answer to the request for more, and one that holds what comes next.
IsAnswer(page) == page.opportunities \in Seq(Nat) /\ page.total \in Nat
NextOf(db, v, page) ==
  LET all == AllOf(db, v.filters)
  IN  Writable(v.filters) =>
        /\ \E l \in 1 .. MaxLimit : page.opportunities = PageAt(all, Lesser(v.nextOffset, MaxOffset), l)
        /\ page.total = Len(all)

\* What filters select is a list without duplicates.
LEMMA AllListed ==
  ASSUME NEW db, KnownTable(db), NEW f, FiltersRead(f)
  PROVE  AllOf(db, f) \in Seq(Nat) /\ Once(AllOf(db, f)) /\ Len(AllOf(db, f)) \in Nat
<1>1. NormalizeQuery(f).sort \in Sorts
  BY ReadSort
<1>2. /\ AllOf(db, f) \in Seq(Nat)
      /\ \A i, j \in 1 .. Len(AllOf(db, f)) : AllOf(db, f)[i] = AllOf(db, f)[j] => i = j
  BY <1>1, OrderedOnce DEF AllOf
<1> QED
  BY <1>2 DEF Once

\* What a list that has just begun shows.
LEMMA BegunIsShown ==
  ASSUME NEW db, KnownTable(db), NEW v, ViewOK(v), Begun(db, v)
  PROVE  Shown(db, v)
<1> DEFINE all == AllOf(db, v.filters)
<1>1. PICK loaded \in 1 .. MaxOffset :
        /\ v.items = PageAt(all, 0, Lesser(loaded, MaxLimit)) /\ v.nextOffset = Len(v.items) /\ v.total = Len(all)
  BY DEF Begun
<1>2. all \in Seq(Nat) /\ Len(all) \in Nat
  BY AllListed DEF ViewOK
<1> DEFINE first == Lesser(loaded, MaxLimit)
           c == Lesser(0 + first, Len(all))
<1>3. first \in Nat
  BY PagingBounds DEF Lesser
<1> HIDE DEF all, first
<1>4. c \in 0 .. Len(all)
  BY <1>2, <1>3 DEF Lesser
<1>5. v.items = SubSeq(all, 1, c)
  BY <1>1 DEF PageAt, first
<1> HIDE DEF c
<1>6. v.nextOffset = c
  BY <1>1, <1>2, <1>4, <1>5
<1>7. Lesser(c, MaxOffset) <= c
  BY <1>2, <1>4, PagingBounds DEF Lesser
<1>8. ShownTo(db, v, c)
  BY <1>1, <1>4, <1>5, <1>6, <1>7 DEF ShownTo, all
<1> QED
  BY <1>8 DEF Shown

\* A page is opened on the first rows of what its address asks for.
LEMMA PageOpens ==
  ASSUME KnownTable(Live), NEW query, IsQuery(query), OpenDiscover(query)
  PROVE  ViewOK(view') /\ view' # NoView /\ Deepens(view') /\ Begun(Live, view')
<1> DEFINE state == ReadDiscoverPageState(query)
           f == state.filters
           page == [limit |-> Min({state.loaded, MaxLimit}), offset |-> 0]
           first == Discover(Live, Paged(f, page))
           all == AllOf(Live, f)
           l == Lesser(state.loaded, MaxLimit)
<1>1. view' = [filters |-> f, items |-> first.opportunities, nextOffset |-> Len(first.opportunities),
               total |-> first.total, extra |-> ExtraPages(state.loaded), options |-> first.options, failed |-> FALSE]
  BY DEF OpenDiscover
<1>2. FiltersRead(f) /\ state.loaded \in 1 .. MaxOffset
  BY PageStateIsRead
<1> HIDE DEF state
<1>3. Min({state.loaded, MaxLimit}) = l /\ l \in 1 .. MaxLimit
  BY <1>2, ExtraPagesAre
<1>4. page.limit = l /\ page.offset = 0
  BY <1>3
<1> HIDE DEF page, l
<1>5. page.limit \in 1 .. MaxLimit /\ page.offset \in 0 .. MaxOffset
  BY <1>3, <1>4, PagingBounds
<1>6. /\ first.opportunities = PageAt(all, page.offset, page.limit) /\ first.opportunities \in Seq(Nat)
      /\ first.total = Len(all)
  BY <1>2, <1>5, PagedIsPage DEF AllOf
<1>7. all \in Seq(Nat) /\ Once(all) /\ Len(all) \in Nat
  BY <1>2, AllListed
<1> HIDE DEF first, all, f
<1>8. first.opportunities = PageAt(all, 0, l)
  BY <1>4, <1>6
<1>9. Once(first.opportunities)
  <2>1. PageAt(all, 0, l) = SubSeq(all, 1, Lesser(0 + l, Len(all)))
    BY DEF PageAt
  <2>2. Lesser(0 + l, Len(all)) \in 0 .. Len(all)
    BY <1>3, <1>7 DEF Lesser
  <2> DEFINE c == Lesser(0 + l, Len(all))
  <2> HIDE DEF c
  <2>3. first.opportunities = SubSeq(all, 1, c) /\ c \in 0 .. Len(all)
    BY <1>8, <2>1, <2>2 DEF c
  <2> QED
    BY <1>7, <2>3 DEF Once
<1>10. /\ view'.filters = f /\ view'.items = first.opportunities /\ view'.nextOffset = Len(first.opportunities)
       /\ view'.total = first.total /\ view'.extra = ExtraPages(state.loaded)
       /\ view' \in Feeds(view')
  BY <1>1, <1>6, <1>7 DEF Feeds
<1>11. ViewOK(view')
  BY <1>2, <1>9, <1>10 DEF ViewOK, FeedsOnce
<1>12. view' # NoView
  <2>1. DOMAIN f # {} /\ NoView.filters = <<>>
    BY <1>2 DEF FiltersRead, Has, NoView
  <2> QED
    BY <1>10, <2>1
<1>13. Deepens(view') /\ Begun(Live, view')
  BY <1>2, <1>6, <1>8, <1>10 DEF Deepens, Begun, all, l
<1> QED
  BY <1>11, <1>12, <1>13

\* The further pages of a list that is being opened, as they are read.
FurtherPages(db, v) ==
  [i \in DOMAIN v.extra |->
     [opportunities |-> QueryOpportunityFeed(db, Paged(v.filters, v.extra[i])), total |-> v.total]]

\* The k-th of them holds the rows from where the one before it ends.
LEMMA FurtherPage ==
  ASSUME NEW db, KnownTable(db), NEW v, ViewOK(v), NEW loaded \in 1 .. MaxOffset, v.extra = ExtraPages(loaded)
  PROVE  LET batch == FurtherPages(db, v)
             all == AllOf(db, v.filters)
         IN  /\ Len(batch) = Len(v.extra) /\ Len(batch) \in Nat
             /\ \A k \in 1 .. Len(batch) :
                  /\ IsAnswer(batch[k]) /\ batch[k].total = v.total
                  /\ v.extra[k].limit \in 1 .. MaxLimit /\ v.extra[k].offset = Depth(loaded, k - 1)
                  /\ v.extra[k].offset \in Nat
                  /\ k < Len(batch) => v.extra[k].offset + v.extra[k].limit = Depth(loaded, k)
                  /\ batch[k].opportunities = PageAt(all, v.extra[k].offset, v.extra[k].limit)
<1> DEFINE batch == FurtherPages(db, v)
           all == AllOf(db, v.filters)
           n == Len(v.extra)
<1>1. /\ n \in Nat /\ DOMAIN v.extra = 1 .. n
      /\ \A k \in 1 .. n :
           /\ v.extra[k].limit \in 1 .. MaxLimit /\ v.extra[k].offset \in 0 .. MaxOffset
           /\ v.extra[k].offset = Depth(loaded, k - 1)
           /\ k < n => v.extra[k].offset + v.extra[k].limit = Depth(loaded, k)
  BY ExtraPagesAre
<1>2. batch = [i \in 1 .. n |->
        [opportunities |-> QueryOpportunityFeed(db, Paged(v.filters, v.extra[i])), total |-> v.total]]
  BY <1>1 DEF FurtherPages
<1>3. FiltersRead(v.filters) /\ v.total \in Nat
  BY DEF ViewOK, FeedsOnce, Feeds
<1> HIDE DEF batch, n
<1>4. Len(batch) = n
  BY <1>1, <1>2
<1>5. ASSUME NEW k \in 1 .. n
      PROVE  IsAnswer(batch[k]) /\ batch[k].total = v.total
             /\ batch[k].opportunities = PageAt(all, v.extra[k].offset, v.extra[k].limit)
  <2> DEFINE page == v.extra[k]
             read == QueryOpportunityFeed(db, Paged(v.filters, page))
  <2>1. batch[k] = [opportunities |-> read, total |-> v.total]
    BY <1>2
  <2>2. page.limit \in 1 .. MaxLimit /\ page.offset \in 0 .. MaxOffset
    BY <1>1
  <2> HIDE DEF page
  <2>3. read = PageAt(all, page.offset, page.limit) /\ read \in Seq(Nat)
    BY <1>3, <2>2, PagedIsPage DEF AllOf
  <2>4. batch[k].opportunities = read /\ batch[k].total = v.total
    BY <2>1
  <2> QED
    BY <1>3, <2>3, <2>4 DEF IsAnswer, page
<1>6. \A k \in 1 .. n : v.extra[k].offset \in Nat
  BY <1>1, PagingBounds
<1> QED
  BY <1>1, <1>4, <1>5, <1>6 DEF batch, n

-----------------------------------------------------------------------------
(* A list that grows *)

\* A page that is a page of the list, appended to a list that shows all before it.
Appended(all, state, next, c, o, l, e, d) ==
  /\ e = Lesser(o + l, Len(all)) /\ d = Further(c, e) /\ e \in 0 .. Len(all)
  /\ d \in c .. Len(all) /\ next.items = SubSeq(all, 1, d)
  /\ e > o => next.nextOffset = state.nextOffset + (e - o) /\ next.total = Len(all)
  /\ e <= o => next.nextOffset = state.nextOffset /\ next.total = state.nextOffset
Continues(all, v, state, page, c, o, l) ==
  /\ all \in Seq(Nat) /\ Once(all) /\ state \in FeedsOnce(v)
  /\ c \in 0 .. Len(all) /\ state.items = SubSeq(all, 1, c)
  /\ o \in Nat /\ l \in Nat /\ (o <= c \/ c = Len(all))
  /\ page.opportunities = PageAt(all, o, l) /\ page.total = Len(all)

\* Where the list ends then, and what its offset and total say.
LEMMA AppendContinues ==
  ASSUME NEW all, NEW v, NEW state, NEW page, NEW c, NEW o, NEW l, Continues(all, v, state, page, c, o, l)
  PROVE  \E e, d : Appended(all, state, AppendFeedPage(state, page), c, o, l, e, d)
<1> DEFINE e == Lesser(o + l, Len(all))
           d == Further(c, e)
<1>1. /\ all \in Seq(Nat) /\ Once(all) /\ state \in FeedsOnce(v)
      /\ c \in 0 .. Len(all) /\ state.items = SubSeq(all, 1, c)
      /\ o \in Nat /\ l \in Nat /\ (o <= c \/ c = Len(all))
      /\ page.opportunities = PageAt(all, o, l) /\ page.total = Len(all)
  BY DEF Continues
<1>2. e \in 0 .. Len(all)
  BY <1>1 DEF Lesser
<1>3. Appended(all, state, AppendFeedPage(state, page), c, o, l, e, d)
  BY <1>1, <1>2, AppendNext DEF Appended
<1> QED
  BY <1>3

\* The pages of a list that is being opened are appended to it: no opportunity twice, whatever they hold.
LEMMA FurtherPagesKeep ==
  ASSUME NEW db, KnownTable(db), NEW v, ViewOK(v), Deepens(v)
  PROVE  AppendFeedPages(v, FurtherPages(db, v)) \in FeedsOnce(v)
<1> DEFINE batch == FurtherPages(db, v)
           S == [k \in 0 .. Len(batch) |-> FeedsOnce(v)]
<1>1. PICK loaded \in 1 .. MaxOffset : v.extra = ExtraPages(loaded)
  BY DEF Deepens
<1>2. Len(batch) \in Nat /\ \A k \in 1 .. Len(batch) : IsAnswer(batch[k])
  BY <1>1, FurtherPage
<1> HIDE DEF batch
<1>3. v \in S[0]
  BY <1>2 DEF ViewOK
<1>4. ASSUME NEW k \in 1 .. Len(batch), NEW s \in S[k - 1] PROVE AppendFeedPage(s, batch[k]) \in S[k]
  <2>1. s \in FeedsOnce(v) /\ k \in 0 .. Len(batch)
    BY <1>2
  <2>2. batch[k].opportunities \in Seq(Nat) /\ batch[k].total \in Nat
    BY <1>2 DEF IsAnswer
  <2>3. AppendFeedPage(s, batch[k]) \in FeedsOnce(v)
    BY <2>1, <2>2, AppendKeeps
  <2> QED
    BY <2>1, <2>3
<1>5. Len(batch) \in 0 .. Len(batch)
  BY <1>2
<1>6. S[Len(batch)] = FeedsOnce(v)
  BY <1>5
<1> HIDE DEF S
<1>7. AppendFeedPages(v, batch) \in S[Len(batch)]
  BY <1>2, <1>3, <1>4, PagesAppended
<1> QED
  BY <1>6, <1>7 DEF batch

\* The list after k of its further pages: it shows the rows as far as they have been read.
Read(v, all, loaded, k, count) ==
  {s \in FeedsOnce(v) :
     /\ s.nextOffset \in 0 .. Len(all) /\ s.items = SubSeq(all, 1, s.nextOffset) /\ s.total = Len(all)
     /\ k < count => s.nextOffset = Lesser(Depth(loaded, k), Len(all))}

\* While the selection stays as it is, they make the list deeper.
LEMMA FurtherPagesShow ==
  ASSUME NEW db, KnownTable(db), NEW v, ViewOK(v), Begun(db, v)
  PROVE  LET all == AllOf(db, v.filters)
             next == AppendFeedPages(v, FurtherPages(db, v))
         IN  /\ next.nextOffset \in 0 .. Len(all) /\ next.items = SubSeq(all, 1, next.nextOffset)
             /\ next.total = Len(all) /\ next.filters = v.filters
<1> DEFINE all == AllOf(db, v.filters)
           n == Len(all)
           batch == FurtherPages(db, v)
           count == Len(batch)
<1>1. PICK loaded \in 1 .. MaxOffset :
        /\ v.extra = ExtraPages(loaded) /\ v.items = PageAt(all, 0, Lesser(loaded, MaxLimit))
        /\ v.nextOffset = Len(v.items) /\ v.total = Len(all)
  BY DEF Begun
<1>2. /\ Len(batch) \in Nat
      /\ \A k \in 1 .. Len(batch) :
           /\ batch[k].total = v.total
           /\ v.extra[k].limit \in 1 .. MaxLimit /\ v.extra[k].offset = Depth(loaded, k - 1)
           /\ v.extra[k].offset \in Nat
           /\ k < Len(batch) => v.extra[k].offset + v.extra[k].limit = Depth(loaded, k)
           /\ batch[k].opportunities = PageAt(all, v.extra[k].offset, v.extra[k].limit)
  BY <1>1, FurtherPage
<1>3. all \in Seq(Nat) /\ Once(all) /\ n \in Nat
  BY AllListed DEF ViewOK
<1> HIDE DEF batch, all
<1> DEFINE S == [k \in 0 .. count |-> Read(v, all, loaded, k, count)]
<1>4. v \in S[0]
  <2> DEFINE first == Lesser(loaded, MaxLimit)
             c == Lesser(0 + first, n)
  <2>1. first \in Nat /\ 0 + first = first
    BY PagingBounds DEF Lesser
  <2>2. Depth(loaded, 0) = first
    BY <2>1, PagingBounds DEF Depth
  <2>0. v.items = PageAt(all, 0, first)
    BY <1>1
  <2> HIDE DEF first
  <2>3. v.items = SubSeq(all, 1, c)
    BY <2>0 DEF PageAt
  <2>4. c \in 0 .. n
    BY <1>3, <2>1 DEF Lesser
  <2>7. c = Lesser(first, n)
    BY <2>1
  <2> HIDE DEF c
  <2>5. v.nextOffset = c
    BY <1>1, <1>3, <2>3, <2>4
  <2>6. v \in Read(v, all, loaded, 0, count)
    BY <1>1, <2>2, <2>3, <2>4, <2>5, <2>7 DEF Read, ViewOK, first
  <2> QED
    BY <1>2, <2>6
<1>5. ASSUME NEW k \in 1 .. count, NEW s \in S[k - 1] PROVE AppendFeedPage(s, batch[k]) \in S[k]
  <2> DEFINE c == s.nextOffset
             o == v.extra[k].offset
             l == v.extra[k].limit
             next == AppendFeedPage(s, batch[k])
  <2>1. k \in 0 .. count /\ k - 1 \in 0 .. count /\ k - 1 < count
    BY <1>2
  <2>2. s \in Read(v, all, loaded, k - 1, count)
    BY <2>1
  <2>3. /\ s \in FeedsOnce(v) /\ c \in 0 .. n /\ s.items = SubSeq(all, 1, c) /\ s.total = n
        /\ c = Lesser(Depth(loaded, k - 1), n)
    BY <2>1, <2>2 DEF Read
  <2>4. /\ l \in 1 .. MaxLimit /\ o = Depth(loaded, k - 1) /\ o \in Nat
        /\ (k < count => o + l = Depth(loaded, k))
        /\ batch[k].opportunities = PageAt(all, o, l) /\ batch[k].total = n
    BY <1>1, <1>2
  <2> HIDE DEF o, l, next, n
  <2>5. c = Lesser(o, n)
    BY <2>3, <2>4
  <2>6. l \in Nat /\ l >= 1 /\ n \in Nat /\ c \in Nat
    BY <1>3, <2>3, <2>4, PagingBounds DEF n
  <2> HIDE DEF c
  <2>7. o <= c \/ c = n
    BY <2>4, <2>5, <2>6 DEF Lesser
  <2>8. Continues(all, v, s, batch[k], c, o, l)
    BY <1>3, <2>3, <2>4, <2>6, <2>7 DEF Continues, n
  <2>9. PICK e, d : Appended(all, s, next, c, o, l, e, d)
    BY <2>8, AppendContinues DEF next
  <2>10. /\ e = Lesser(o + l, n) /\ d = Further(c, e) /\ e \in 0 .. n /\ d \in c .. n
         /\ next.items = SubSeq(all, 1, d)
         /\ e > o => next.nextOffset = c + (e - o) /\ next.total = n
         /\ e <= o => next.nextOffset = c /\ next.total = c
    BY <2>9 DEF Appended, n, c
  <2>11. next.nextOffset = d /\ next.total = n /\ d = e
    <3>1. CASE o < n
      <4>1. c = o /\ e > o /\ e > c
        BY <2>4, <2>5, <2>6, <2>10, <3>1 DEF Lesser
      <4> QED
        BY <2>4, <2>6, <2>10, <4>1 DEF Further
    <3>2. CASE ~(o < n)
      <4>1. c = n /\ e = n /\ e <= o /\ d = n
        BY <2>4, <2>5, <2>6, <2>10, <3>2 DEF Lesser, Further
      <4> QED
        BY <2>10, <4>1
    <3> QED
      BY <3>1, <3>2
  <2>12. k < count => d = Lesser(Depth(loaded, k), n)
    BY <2>4, <2>10, <2>11
  <2>13. next \in FeedsOnce(v)
    <3>1. IsAnswer(batch[k])
      BY <1>1, FurtherPage DEF batch
    <3> QED
      BY <2>3, <3>1, AppendKeeps DEF IsAnswer, next
  <2>14. d \in 0 .. n
    BY <2>6, <2>10
  <2>15. next \in Read(v, all, loaded, k, count)
    BY <2>10, <2>11, <2>12, <2>13, <2>14 DEF Read, n
  <2> QED
    BY <2>1, <2>15 DEF next
<1>6. count \in 0 .. count
  BY <1>2
<1>7. S[count] = Read(v, all, loaded, count, count)
  BY <1>6
<1> HIDE DEF S
<1>8. AppendFeedPages(v, batch) \in S[count]
  BY <1>2, <1>4, <1>5, PagesAppended
<1>9. AppendFeedPages(v, batch) \in Read(v, all, loaded, count, count)
  BY <1>7, <1>8
<1>10. AppendFeedPages(v, batch).filters = v.filters
  BY <1>9 DEF Read, FeedsOnce, Feeds
<1> QED
  BY <1>9, <1>10 DEF Read, all, batch

\* More is loaded: what comes next is appended, and nothing is left out.
LEMMA MoreIsShown ==
  ASSUME NEW db, KnownTable(db), NEW v, ViewOK(v), Shown(db, v),
         NEW page, IsAnswer(page), NextOf(db, v, page)
  PROVE  LET next == AppendFeedPage(v, page)
         IN  next \in FeedsOnce(v) /\ Shown(db, next)
<1> DEFINE all == AllOf(db, v.filters)
           n == Len(all)
           next == AppendFeedPage(v, page)
           o == Lesser(v.nextOffset, MaxOffset)
<1>1. next \in FeedsOnce(v) /\ next.filters = v.filters
  <2>1. next \in FeedsOnce(v)
    BY AppendKeeps DEF ViewOK, IsAnswer
  <2> QED
    BY <2>1 DEF FeedsOnce, Feeds
<1>2. all \in Seq(Nat) /\ Once(all) /\ n \in Nat
  BY AllListed DEF ViewOK
<1>3. v.nextOffset \in Nat /\ v \in FeedsOnce(v)
  BY DEF ViewOK, FeedsOnce, Feeds
<1>4. ASSUME Writable(v.filters) PROVE \E c : ShownTo(db, next, c)
  <2>1. PICK c : ShownTo(db, v, c)
    BY <1>4 DEF Shown
  <2>2. PICK l \in 1 .. MaxLimit : page.opportunities = PageAt(all, o, l) /\ page.total = n
    BY <1>4 DEF NextOf
  <2>3. /\ c \in 0 .. n /\ v.items = SubSeq(all, 1, c) /\ v.total = n
        /\ o <= c /\ (n <= MaxOffset => v.nextOffset = c)
    BY <2>1 DEF ShownTo
  <2> DEFINE w == v.nextOffset
  <2> HIDE DEF all, n, next, o, w
  <2>4. o = Lesser(w, MaxOffset) /\ w \in Nat /\ n \in Nat /\ c \in Nat /\ l \in Nat /\ l >= 1 /\ MaxOffset \in Nat
        /\ w = v.nextOffset
    BY <1>2, <1>3, <2>3, PagingBounds DEF o, w, n
  <2>5. o \in Nat
    BY <2>4 DEF Lesser
  <2>6. Continues(all, v, v, page, c, o, l)
    BY <1>2, <1>3, <2>2, <2>3, <2>4, <2>5 DEF Continues, n
  <2>7. PICK e, d : Appended(all, v, next, c, o, l, e, d)
    BY <2>6, AppendContinues DEF next
  <2>8. /\ e = Lesser(o + l, n) /\ d = Further(c, e) /\ e \in 0 .. n /\ d \in c .. n
        /\ next.items = SubSeq(all, 1, d)
        /\ e > o => next.nextOffset = w + (e - o) /\ next.total = n
        /\ e <= o => next.nextOffset = w /\ next.total = w
    BY <2>7 DEF Appended, n, w
  <2>9. d >= e /\ d >= c /\ d \in 0 .. n
    BY <2>4, <2>8 DEF Further
  <2>10. n <= MaxOffset => w = c
    BY <2>3, <2>4
  <2>11. /\ next.total = n /\ Lesser(next.nextOffset, MaxOffset) <= d /\ (n <= MaxOffset => next.nextOffset = d)
    <3>1. CASE e > o
      <4>1. next.nextOffset = w + (e - o) /\ next.total = n
        BY <2>8, <3>1
      <4>2. Lesser(w + (e - o), MaxOffset) <= d
        <5>1. CASE w < MaxOffset
          BY <2>4, <2>5, <2>8, <2>9, <3>1, <5>1 DEF Lesser
        <5>2. CASE ~(w < MaxOffset)
          BY <2>3, <2>4, <2>5, <2>8, <2>9, <3>1, <5>2 DEF Lesser
        <5> QED
          BY <5>1, <5>2
      <4>3. n <= MaxOffset => w + (e - o) = d
        <5>1. n <= MaxOffset => w = c /\ c <= MaxOffset
          BY <2>3, <2>4, <2>10
        <5>2. n <= MaxOffset => o = c
          BY <2>4, <5>1 DEF Lesser
        <5> QED
          BY <2>4, <2>5, <2>8, <2>10, <3>1, <5>2 DEF Further
      <4> QED
        BY <4>1, <4>2, <4>3
    <3>2. CASE e <= o
      <4>1. next.nextOffset = w /\ next.total = w
        BY <2>8, <3>2
      <4>2. n <= o /\ c = n /\ d = n /\ o = n
        <5>1. e = n
          BY <2>4, <2>5, <2>8, <3>2 DEF Lesser
        <5> QED
          BY <2>3, <2>4, <2>5, <2>8, <2>9, <3>2, <5>1
      <4>3. n <= MaxOffset
        BY <2>4, <4>2 DEF Lesser
      <4>4. w = n
        BY <2>10, <4>2, <4>3
      <4> QED
        BY <2>4, <4>1, <4>2, <4>4 DEF Lesser
    <3> QED
      BY <2>4, <2>5, <2>8, <3>1, <3>2
  <2>12. ShownTo(db, next, d)
    BY <1>1, <2>8, <2>9, <2>11 DEF ShownTo, n, all
  <2> QED
    BY <2>12
<1>5. Shown(db, next)
  BY <1>1, <1>4 DEF Shown
<1> QED
  BY <1>1, <1>5

-----------------------------------------------------------------------------
(* Every step of the page *)

\* A request for more of a list, on its way or answered.
IsRequest(v, request) ==
  /\ request.at \in {"none", "sent", "answered", "refused"}
  /\ request.at = "sent" => request.query = BuildDiscoverSearchParams(MorePages(v.filters, v.nextOffset))
  /\ request.at = "answered" => IsAnswer(request.page)

\* What is on screen, under way and left behind, whatever becomes of the table.
ListShape ==
  /\ (\A db \in Answerable : KnownTable(db)) /\ IsQuery(address) /\ IsRequest(view, loadMore)
  /\ loadMore.at # "none" => view # NoView /\ view.extra = <<>>
  /\ view # NoView => ViewOK(view) /\ (view.extra # <<>> => Deepens(view))
  /\ \A o \in orphans : ViewOK(o.view) /\ IsRequest(o.view, o.request)

\* While its filters select what they did: the list is the beginning of that, and an answer continues it.
FeedInv ==
  /\ ListShape
  /\ steady /\ view # NoView =>
       /\ Shown(Live, view) /\ (view.extra # <<>> => Begun(Live, view))
       /\ loadMore.at = "answered" => NextOf(Live, view, loadMore.page)

\* A request for more is answered with what comes next in the rows it is answered from, or refused.
LEMMA RequestAnswered ==
  ASSUME NEW v, ViewOK(v), NEW request, IsRequest(v, request), request.at = "sent", NEW db, KnownTable(db)
  PROVE  LET answer == GetOpportunities(request, db)
         IN  /\ IsRequest(v, answer) /\ answer.at \in {"answered", "refused"}
             /\ answer.at = "answered" => IsAnswer(answer.page) /\ NextOf(db, v, answer.page)
<1> DEFINE f == v.filters
           place == v.nextOffset
           query == BuildDiscoverSearchParams(MorePages(f, place))
           parsed == ParseDiscoverFilters(query, TRUE)
           g == parsed.filters
           found == Discover(db, g)
           page == [opportunities |-> found.opportunities, total |-> found.total]
           answer == GetOpportunities(request, db)
           all == AllOf(db, f)
<1>1. answer = IF parsed.ok THEN [at |-> "answered", page |-> page] ELSE [at |-> "refused"]
  BY DEF GetOpportunities, IsRequest
<1>2. FiltersRead(f) /\ place \in Nat
  BY DEF ViewOK, FeedsOnce, Feeds
<1>3. CASE ~parsed.ok
  <2>1. answer.at = "refused"
    BY <1>1, <1>3
  <2> HIDE DEF answer
  <2> QED
    BY <2>1 DEF IsRequest, answer
<1>4. CASE parsed.ok
  <2>1. /\ FiltersParsed(g)
        /\ Writable(f) =>
             /\ SameFilters(f, g) /\ NormalizeQuery(g).sort = f["sort"]
             /\ NormalizeQuery(g).offset = Lesser(place, MaxOffset)
    BY <1>2, <1>4, RequestReadsBack DEF Writable
  <2>2. answer.at = "answered" /\ answer.page = page
    BY <1>1, <1>4
  <2>3. page.opportunities = found.opportunities /\ page.total = found.total
    OBVIOUS
  <2> HIDE DEF answer, page, g
  <2> DEFINE o == NormalizeQuery(g).offset
             l == NormalizeQuery(g).limit
             listed == AllOf(db, g)
  <2>4. NormalizeQuery(g).sort \in Sorts /\ l \in 1 .. MaxLimit /\ o \in 0 .. MaxOffset
    BY <2>1, NormalizedBounds
  <2>5. l \in Nat /\ o \in Nat
    BY <2>4, PagingBounds
  <2>6. /\ QueryOpportunityFeed(db, g) = PageAt(listed, o, l) /\ QueryOpportunityFeed(db, g) \in Seq(Nat)
        /\ found.opportunities = QueryOpportunityFeed(db, g) /\ found.total = Len(listed)
    BY <2>4, <2>5, PageOfList DEF AllOf
  <2>7. listed \in Seq(Nat)
    BY <2>4, OrderedOnce DEF AllOf
  <2> HIDE DEF o, l, listed, found
  <2>8. IsAnswer(page)
    BY <2>3, <2>6, <2>7 DEF IsAnswer
  <2>9. ASSUME Writable(f) PROVE listed = all /\ o = Lesser(place, MaxOffset)
    <3>1. NormalizeQuery(f).sort = NormalizeQuery(g).sort
      BY <1>2, <2>1, <2>9, ReadSort
    <3>2. Ordered(db, f) = Ordered(db, g)
      BY <2>1, <2>9, <3>1, SameOrdered
    <3> QED
      BY <2>1, <2>9, <3>2 DEF AllOf, listed, o
  <2>10. NextOf(db, v, page)
    BY <2>3, <2>4, <2>6, <2>9 DEF NextOf
  <2> QED
    BY <2>2, <2>8, <2>10 DEF IsRequest, answer
<1> QED
  BY <1>3, <1>4

\* The length a late answer writes to the address is a number.
LEMMA LateLength ==
  ASSUME NEW v, ViewOK(v), NEW page, IsAnswer(page)
  PROVE  Len(AppendFeedPage(v, page).items) \in Nat
<1>1. AppendFeedPage(v, page) \in FeedsOnce(v)
  BY AppendKeeps DEF ViewOK, IsAnswer
<1> QED
  BY <1>1 DEF FeedsOnce, Feeds

\* Filters that were read are written to an address that can be read.
LEMMA ReadIsWritten ==
  ASSUME NEW f, FiltersRead(f), NEW loaded \in Int
  PROVE  IsQuery(BuildDiscoverPageSearchParams(f, loaded))
BY BoundedIsNumeric, WrittenIsQuery DEF FiltersRead

\* The empty list holds the invariant before any page is opened.
LEMMA FeedStarts == DiscoverInit => FeedInv
<1> SUFFICES ASSUME DiscoverInit PROVE FeedInv
  OBVIOUS
<1>1. KnownTable(Live) /\ IsQuery(address)
  BY DiscoverAssumption, NoQueryIsQuery DEF DiscoverInit, KnownTable, Live
<1>3. Answerable = {Live}
  BY DEF DiscoverInit, Answerable
<1>2. view = NoView /\ loadMore.at = "none" /\ orphans = {}
  BY DEF DiscoverInit, NoLoadMore
<1> QED
  BY <1>1, <1>2, <1>3 DEF FeedInv, ListShape, IsRequest

\* The list that is left goes with its request to those that are gone.
LEMMA LeftBehind ==
  ASSUME ListShape, Leave
  PROVE  \A o \in orphans' : ViewOK(o.view) /\ IsRequest(o.view, o.request)
<1>1. CASE loadMore.at = "none"
  BY <1>1 DEF ListShape, Leave
<1>2. CASE loadMore.at # "none"
  <2> DEFINE left == [view |-> view, request |-> loadMore]
  <2>1. orphans' = orphans \cup {left}
    BY <1>2 DEF Leave
  <2>2. left.view = view /\ left.request = loadMore
    OBVIOUS
  <2> HIDE DEF left
  <2>3. ViewOK(left.view) /\ IsRequest(left.view, left.request)
    BY <1>2, <2>2 DEF ListShape
  <2> QED
    BY <2>1, <2>3 DEF ListShape
<1> QED
  BY <1>1, <1>2

\* A page that is opened holds the invariant, whether another is left for it or not.
LEMMA OpeningKeepsList ==
  ASSUME FeedInv, NEW query, IsQuery(query), address' = query, OpenDiscover(query), loadMore' = NoLoadMore,
         Live' = Live /\ Answerable' = Answerable, \A o \in orphans' : ViewOK(o.view) /\ IsRequest(o.view, o.request)
  PROVE  FeedInv'
<1>1. KnownTable(Live) /\ ListShape
  BY DEF FeedInv, ListShape, Answerable
<1>2. ViewOK(view') /\ view' # NoView /\ Deepens(view') /\ Begun(Live, view')
  BY <1>1, PageOpens
<1>3. Shown(Live, view')
  BY <1>1, <1>2, BegunIsShown
<1>4. loadMore'.at = "none"
  BY DEF NoLoadMore
<1>5. IsRequest(view', loadMore')
  BY <1>4 DEF IsRequest
<1>6. ListShape'
  BY <1>1, <1>2, <1>4, <1>5 DEF ListShape
<1> QED
  BY <1>2, <1>3, <1>4, <1>6 DEF FeedInv

\* Another address is followed within the document.
LEMMA NavigateKeepsList ==
  ASSUME FeedInv, NEW query, IsQuery(query), Navigate(query)
  PROVE  FeedInv'
<1>1. \A o \in orphans' : ViewOK(o.view) /\ IsRequest(o.view, o.request)
  BY LeftBehind DEF FeedInv, Navigate
<1>2. address' = query /\ OpenDiscover(query) /\ loadMore' = NoLoadMore /\ Live' = Live /\ Answerable' = Answerable
  BY DEF Navigate, Live, Answerable
<1> QED
  BY <1>1, <1>2, OpeningKeepsList

\* A new document is loaded.
LEMMA ArriveKeepsList ==
  ASSUME FeedInv, NEW query, IsQuery(query), Arrive(query)
  PROVE  FeedInv'
<1>1. \A o \in orphans' : ViewOK(o.view) /\ IsRequest(o.view, o.request)
  BY DEF Arrive
<1>2. address' = query /\ OpenDiscover(query) /\ loadMore' = NoLoadMore /\ Live' = Live /\ Answerable' = Answerable
  BY DEF Arrive, Live, Answerable
<1> QED
  BY <1>1, <1>2, OpeningKeepsList

\* The further pages of a deep list are read.
LEMMA ReadExtraKeepsList ==
  ASSUME FeedInv, ReadExtraPages
  PROVE  FeedInv'
<1> DEFINE next == AppendFeedPages(view, FurtherPages(Live, view))
<1>1. /\ view.extra # <<>> /\ view' = [next EXCEPT !.extra = <<>>]
      /\ Live' = Live /\ Answerable' = Answerable /\ address' = address /\ loadMore' = loadMore /\ orphans' = orphans /\ steady' = steady
  BY DEF ReadExtraPages, FurtherPages, Live, Answerable
<1>2. view # NoView
  BY <1>1 DEF NoView
<1>3. ListShape /\ KnownTable(Live) /\ ViewOK(view) /\ Deepens(view) /\ loadMore.at = "none"
  BY <1>1, <1>2 DEF FeedInv, ListShape, Answerable
<1>4. next \in FeedsOnce(view)
  BY <1>3, FurtherPagesKeep
<1>5. steady => Begun(Live, view)
  BY <1>1, <1>2 DEF FeedInv
<1>6. steady => LET all == AllOf(Live, view.filters)
                IN  /\ next.nextOffset \in 0 .. Len(all) /\ next.items = SubSeq(all, 1, next.nextOffset)
                    /\ next.total = Len(all)
  BY <1>3, <1>5, FurtherPagesShow
<1> HIDE DEF next
<1>7. /\ view'.filters = view.filters /\ view'.items = next.items /\ view'.nextOffset = next.nextOffset
      /\ view'.total = next.total /\ view'.extra = <<>> /\ view' \in FeedsOnce(view')
  BY <1>1, <1>4 DEF FeedsOnce, Feeds
<1>8. ViewOK(view') /\ view' # NoView
  <2>1. FiltersRead(view.filters)
    BY <1>3 DEF ViewOK
  <2>2. view.filters # <<>>
    BY <2>1 DEF FiltersRead, Has
  <2> QED
    BY <1>7, <2>1, <2>2 DEF ViewOK, NoView
<1>9. steady => Shown(Live, view')
  <2> SUFFICES ASSUME steady PROVE Shown(Live, view')
    OBVIOUS
  <2> DEFINE all == AllOf(Live, view.filters)
             c == next.nextOffset
  <2>1. c \in 0 .. Len(all) /\ next.items = SubSeq(all, 1, c) /\ next.total = Len(all) /\ Len(all) \in Nat
    BY <1>3, <1>6, AllListed DEF ViewOK
  <2>2. Lesser(c, MaxOffset) <= c
    BY <2>1, PagingBounds DEF Lesser
  <2>3. ShownTo(Live, view', c)
    BY <1>7, <2>1, <2>2 DEF ShownTo
  <2> QED
    BY <2>3 DEF Shown
<1>10. IsRequest(view', loadMore')
  BY <1>1, <1>3 DEF IsRequest
<1>11. ListShape'
  BY <1>1, <1>3, <1>7, <1>8, <1>10 DEF ListShape
<1> QED
  BY <1>1, <1>3, <1>7, <1>9, <1>11 DEF FeedInv

\* More is asked for.
LEMMA LoadMoreKeepsList ==
  ASSUME FeedInv, view # NoView, LoadMore
  PROVE  FeedInv'
<1>1. /\ view.extra = <<>> /\ view' = [view EXCEPT !.failed = FALSE]
      /\ loadMore' = [at |-> "sent", query |-> BuildDiscoverSearchParams(MorePages(view.filters, view.nextOffset))]
      /\ Live' = Live /\ Answerable' = Answerable /\ address' = address /\ orphans' = orphans /\ steady' = steady
  BY DEF LoadMore, Rendered, MorePages, Live, Answerable
<1>2. ViewOK(view) /\ ListShape
  BY DEF FeedInv, ListShape
<1>3. /\ view'.filters = view.filters /\ view'.items = view.items /\ view'.nextOffset = view.nextOffset
      /\ view'.total = view.total /\ view'.extra = view.extra /\ view' \in FeedsOnce(view')
  BY <1>1, <1>2 DEF ViewOK, FeedsOnce, Feeds
<1>4. ViewOK(view') /\ view' # NoView
  <2>1. FiltersRead(view.filters)
    BY <1>2 DEF ViewOK
  <2>2. view.filters # <<>>
    BY <2>1 DEF FiltersRead, Has
  <2> QED
    BY <1>3, <2>1, <2>2 DEF ViewOK, NoView
<1>5. loadMore'.at = "sent" /\ loadMore'.query = BuildDiscoverSearchParams(MorePages(view.filters, view.nextOffset))
  BY <1>1
<1>6. IsRequest(view', loadMore')
  BY <1>3, <1>5 DEF IsRequest
<1>7. Shown(Live, view) => Shown(Live, view')
  BY <1>3 DEF Shown, ShownTo
<1>8. ListShape'
  BY <1>1, <1>2, <1>3, <1>4, <1>6 DEF ListShape
<1> QED
  BY <1>1, <1>3, <1>5, <1>7, <1>8 DEF FeedInv

\* The interface answers the request under way.
LEMMA ServeKeepsList ==
  ASSUME FeedInv, ServeLoadMore
  PROVE  FeedInv'
<1>1. PICK db \in Answerable :
        loadMore' = GetOpportunities(loadMore, db) /\ steady' = (steady /\ SameList(db, Live))
  BY DEF ServeLoadMore
<1>2. /\ loadMore.at = "sent" /\ Live' = Live /\ Answerable' = Answerable
      /\ address' = address /\ view' = view /\ orphans' = orphans
  BY DEF ServeLoadMore, Live, Answerable
<1>3. ListShape /\ view # NoView /\ view.extra = <<>> /\ ViewOK(view) /\ IsRequest(view, loadMore) /\ KnownTable(db)
  BY <1>1, <1>2 DEF FeedInv, ListShape
<1>4. /\ IsRequest(view, loadMore') /\ loadMore'.at \in {"answered", "refused"}
      /\ loadMore'.at = "answered" => NextOf(db, view, loadMore'.page)
  BY <1>1, <1>2, <1>3, RequestAnswered
<1>5. steady' => AllOf(db, view.filters) = AllOf(Live, view.filters)
  BY <1>1 DEF SameList, AllOf
<1>6. steady' /\ loadMore'.at = "answered" => NextOf(Live, view, loadMore'.page)
  BY <1>4, <1>5 DEF NextOf
<1>7. ListShape'
  BY <1>2, <1>3, <1>4 DEF ListShape
<1>8. steady' => steady
  BY <1>1
<1> QED
  BY <1>2, <1>3, <1>6, <1>7, <1>8 DEF FeedInv

\* The answer is appended, and the depth of the list is written to the address; or it has failed.
LEMMA EndLoadKeepsList ==
  ASSUME FeedInv, EndLoadMore
  PROVE  FeedInv'
<1> DEFINE next == AppendFeedPage(view, loadMore.page)
<1>1. /\ loadMore.at # "none" /\ loadMore' = NoLoadMore
      /\ Live' = Live /\ Answerable' = Answerable /\ orphans' = orphans /\ steady' = steady
  BY DEF EndLoadMore, Live, Answerable
<1>2. ListShape /\ KnownTable(Live) /\ IsQuery(address) /\ view # NoView /\ view.extra = <<>> /\ ViewOK(view)
      /\ IsRequest(view, loadMore)
  BY <1>1 DEF FeedInv, ListShape, Answerable
<1>3. loadMore'.at = "none"
  BY <1>1 DEF NoLoadMore
<1>4. IsRequest(view', loadMore')
  BY <1>3 DEF IsRequest
<1>5. FiltersRead(view.filters) /\ view.filters # <<>>
  BY <1>2 DEF ViewOK, FiltersRead, Has
<1>6. CASE /\ loadMore.at = "answered" /\ view' = next
           /\ address' = BuildDiscoverPageSearchParams(view.filters, Len(view'.items))
  <2>1. IsAnswer(loadMore.page)
    BY <1>2, <1>6 DEF IsRequest
  <2>2. next \in FeedsOnce(view)
    BY <1>2, <2>1, AppendKeeps DEF ViewOK, IsAnswer
  <2>3. steady => Shown(Live, next)
    BY <1>2, <1>6, <2>1, MoreIsShown DEF FeedInv
  <2> HIDE DEF next
  <2>4. /\ next.filters = view.filters /\ next.extra = <<>> /\ next \in FeedsOnce(next)
        /\ Len(next.items) \in Nat
    BY <1>2, <2>2 DEF FeedsOnce, Feeds
  <2>5. ViewOK(next) /\ next # NoView
    BY <1>5, <2>4 DEF ViewOK, NoView
  <2>6. IsQuery(address')
    BY <1>5, <1>6, <2>4, ReadIsWritten
  <2>7. ListShape'
    BY <1>1, <1>2, <1>3, <1>4, <1>6, <2>4, <2>5, <2>6 DEF ListShape
  <2> QED
    BY <1>1, <1>3, <1>6, <2>3, <2>4, <2>7 DEF FeedInv
<1>7. CASE view' = [view EXCEPT !.failed = TRUE] /\ address' = address
  <2>1. /\ view'.filters = view.filters /\ view'.items = view.items /\ view'.nextOffset = view.nextOffset
        /\ view'.total = view.total /\ view'.extra = view.extra /\ view' \in FeedsOnce(view')
    BY <1>2, <1>7 DEF ViewOK, FeedsOnce, Feeds
  <2>2. ViewOK(view') /\ view' # NoView
    BY <1>5, <2>1 DEF ViewOK, NoView
  <2>3. Shown(Live, view) => Shown(Live, view')
    BY <2>1 DEF Shown, ShownTo
  <2>4. ListShape'
    BY <1>1, <1>2, <1>3, <1>4, <1>7, <2>1, <2>2 DEF ListShape
  <2> QED
    BY <1>1, <1>2, <1>3, <2>1, <2>3, <2>4 DEF FeedInv
<1> QED
  BY <1>6, <1>7 DEF EndLoadMore

\* A late answer changes the address only.
LEMMA LateKeepsList ==
  ASSUME FeedInv, LateAnswer
  PROVE  FeedInv'
<1>1. PICK o \in orphans :
        /\ orphans' = orphans \ {o}
        /\ \/ \E db \in Answerable :
                LET answer == IF o.request.at = "sent" THEN GetOpportunities(o.request, db) ELSE o.request
                IN
                /\ answer.at = "answered"
                /\ address' = BuildDiscoverPageSearchParams(o.view.filters, Len(AppendFeedPage(o.view, answer.page).items))
           \/ address' = address
  BY DEF LateAnswer
<1>11. /\ Live' = Live /\ Answerable' = Answerable
       /\ view' = view /\ loadMore' = loadMore /\ steady' = steady
  BY DEF LateAnswer, Live, Answerable
<1>2. ListShape /\ IsQuery(address) /\ ViewOK(o.view) /\ IsRequest(o.view, o.request)
      /\ \A db \in Answerable : KnownTable(db)
  BY DEF FeedInv, ListShape
<1> DEFINE answer(db) == IF o.request.at = "sent" THEN GetOpportunities(o.request, db) ELSE o.request
<1>3. ASSUME NEW db \in Answerable, answer(db).at = "answered" PROVE IsAnswer(answer(db).page)
  <2>1. CASE o.request.at = "sent"
    BY <1>2, <1>3, <2>1, RequestAnswered
  <2>2. CASE o.request.at # "sent"
    BY <1>2, <1>3, <2>2 DEF IsRequest
  <2> QED
    BY <2>1, <2>2
<1> HIDE DEF answer
<1>4. IsQuery(address')
  <2>1. ASSUME NEW db \in Answerable, answer(db).at = "answered",
               address' = BuildDiscoverPageSearchParams(o.view.filters, Len(AppendFeedPage(o.view, answer(db).page).items))
        PROVE  IsQuery(address')
    <3>1. Len(AppendFeedPage(o.view, answer(db).page).items) \in Int
      BY <1>2, <1>3, <2>1, LateLength
    <3> QED
      BY <1>2, <2>1, <3>1, ReadIsWritten DEF ViewOK
  <2>2. CASE address' = address
    BY <1>2, <2>2
  <2> QED
    BY <1>1, <2>1, <2>2 DEF answer
<1>5. ListShape'
  BY <1>1, <1>11, <1>2, <1>4 DEF ListShape
<1> QED
  BY <1>11, <1>5 DEF FeedInv

\* A tile is followed: the list stays, its request is left behind.
LEMMA DetailKeepsList ==
  ASSUME FeedInv, OpenDetail
  PROVE  FeedInv'
<1>1. /\ Leave /\ loadMore' = NoLoadMore
      /\ Live' = Live /\ Answerable' = Answerable /\ address' = address /\ view' = view /\ steady' = steady
  BY DEF OpenDetail, Live, Answerable
<1>2. ListShape /\ \A o \in orphans' : ViewOK(o.view) /\ IsRequest(o.view, o.request)
  BY <1>1, LeftBehind DEF FeedInv
<1>3. loadMore'.at = "none"
  BY <1>1 DEF NoLoadMore
<1>4. IsRequest(view', loadMore')
  BY <1>3 DEF IsRequest
<1>5. ListShape'
  BY <1>1, <1>2, <1>3, <1>4 DEF ListShape
<1> QED
  BY <1>1, <1>3, <1>5 DEF FeedInv

\* The dock is submitted: the same filters keep the list, others open another.
LEMMA SubmitKeepsList ==
  ASSUME FeedInv, view # NoView, SubmitDock
  PROVE  FeedInv'
<1>1. PICK edit \in DockEdits : HandleSubmit([DockForm EXCEPT ![edit.name] = edit.raw])
  BY DEF SubmitDock
<1> DEFINE form == [DockForm EXCEPT ![edit.name] = edit.raw]
           f == ReadDiscoverPageState(form).filters
           href == BuildDiscoverPageSearchParams(f, PageSize)
<1>2. FiltersRead(view.filters) /\ ListShape
  BY DEF FeedInv, ListShape, ViewOK
<1>3. IsQuery(form)
  BY <1>2, DockFormIsQuery
<1> HIDE DEF form
<1>4. FiltersRead(f)
  BY <1>3, PageStateIsRead
<1>5. IsQuery(href)
  BY <1>4, ReadIsWritten, PagingBounds
<1>6. CASE /\ address' = href /\ Live' = Live /\ Answerable' = Answerable /\ view' = view /\ loadMore' = loadMore
           /\ orphans' = orphans /\ steady' = steady
  <2>1. ListShape'
    BY <1>2, <1>5, <1>6 DEF ListShape
  <2> QED
    BY <1>6, <2>1 DEF FeedInv
<1>7. CASE Navigate(href)
  BY <1>5, <1>7, NavigateKeepsList
<1> QED
  BY <1>1, <1>6, <1>7 DEF HandleSubmit, form, Live, Answerable

\* What was before may answer still, and the list is held to what is now as long as it selects the same.
LEMMA ChangeKeepsList ==
  ASSUME FeedInv, KnownTable(Live'), past' = past \cup {Live}, steady' = (steady /\ SameList(Live, Live')),
         address' = address, view' = view, loadMore' = loadMore, orphans' = orphans
  PROVE  FeedInv'
<1>1. ListShape /\ \A db \in Answerable : KnownTable(db)
  BY DEF FeedInv, ListShape
<1>2. Answerable' = {Live'} \cup Answerable
  BY DEF Answerable
<1>3. ListShape'
  BY <1>1, <1>2 DEF ListShape
<1>4. steady' => AllOf(Live', view.filters) = AllOf(Live, view.filters)
  BY DEF SameList, AllOf
<1>5. /\ steady' /\ Shown(Live, view) => Shown(Live', view)
      /\ steady' /\ Begun(Live, view) => Begun(Live', view)
      /\ steady' /\ NextOf(Live, view, loadMore.page) => NextOf(Live', view, loadMore.page)
  BY <1>4 DEF Shown, ShownTo, Begun, NextOf
<1>6. steady' => steady
  OBVIOUS
<1> QED
  BY <1>3, <1>5, <1>6 DEF FeedInv

\* The table changes.
LEMMA TableKeepsList ==
  ASSUME FeedInv, TableChanges
  PROVE  FeedInv'
<1>1. PICK row \in EditedRows : table' = {r \in table : r.id # row.id} \cup {row}
  BY DEF TableChanges
<1>2. /\ past' = past \cup {Live} /\ steady' = (steady /\ SameList(Live, Live'))
      /\ address' = address /\ view' = view /\ loadMore' = loadMore /\ orphans' = orphans
  BY DEF TableChanges
<1>3. KnownTable(Live)
  BY DEF FeedInv, ListShape, Answerable
<1>4. IsFiniteSet(table) /\ (\A r \in table : IsRow(r)) /\ \A r, q \in table : r.id = q.id => r = q
  BY <1>3 DEF KnownTable, Live
<1>5. KnownTable(Live')
  <2> DEFINE others == {r \in table : r.id # row.id}
  <2>1. IsFiniteSet(others)
    BY <1>4, FS_Subset
  <2>2. IsFiniteSet(others \cup {row})
    BY <2>1, FS_AddElement
  <2>3. \A r \in table' : IsRow(r)
    BY <1>1, <1>4, DiscoverAssumption
  <2>4. \A r, q \in table' : r.id = q.id => r = q
    BY <1>1, <1>4
  <2>5. Live'.rows = table'
    BY DEF Live
  <2> QED
    BY <1>1, <2>2, <2>3, <2>4, <2>5 DEF KnownTable
<1> QED
  BY <1>2, <1>5, ChangeKeepsList

\* Time passes.
LEMMA ClockKeepsList ==
  ASSUME FeedInv, ClockTicks
  PROVE  FeedInv'
<1>1. /\ past' = past \cup {Live} /\ steady' = (steady /\ SameList(Live, Live'))
      /\ address' = address /\ view' = view /\ loadMore' = loadMore /\ orphans' = orphans
  BY DEF ClockTicks
<1>2. Live'.rows = Live.rows
  BY DEF ClockTicks, Live
<1>3. KnownTable(Live)
  BY DEF FeedInv, ListShape, Answerable
<1>4. KnownTable(Live')
  BY <1>2, <1>3 DEF KnownTable
<1> QED
  BY <1>1, <1>4, ChangeKeepsList

\* No step of the discover page breaks the invariant.
LEMMA FeedStep == FeedInv /\ [DiscoverNext]_discoverVars => FeedInv'
<1> SUFFICES ASSUME FeedInv, [DiscoverNext]_discoverVars PROVE FeedInv'
  OBVIOUS
<1>1. IsQuery(address) /\ IsQuery(NoQuery)
  BY NoQueryIsQuery DEF FeedInv, ListShape
<1>2. ASSUME EnterAddress PROVE FeedInv'
  <2>1. PICK query \in Addresses : Arrive(query)
    BY <1>2 DEF EnterAddress
  <2>2. IsQuery(query)
    BY DiscoverAssumption
  <2> QED
    BY <2>1, <2>2, ArriveKeepsList
<1>3. ASSUME Reload PROVE FeedInv'
  BY <1>1, <1>3, ArriveKeepsList DEF Reload
<1>4. ASSUME ResetFilters PROVE FeedInv'
  BY <1>1, <1>4, NavigateKeepsList DEF ResetFilters
<1>5. ASSUME FollowSaved PROVE FeedInv'
  <2>1. PICK saved \in SavedQueries :
          Navigate(BuildDiscoverPageSearchParams(CanonicalizeFilters(ParseDiscoverFilters(saved, FALSE).filters), PageSize))
    BY <1>5 DEF FollowSaved
  <2> QED
    BY <2>1, SavedIsQuery, NavigateKeepsList
<1>6. CASE UNCHANGED discoverVars
  <2>1. /\ Live' = Live /\ Answerable' = Answerable /\ address' = address /\ view' = view
        /\ loadMore' = loadMore /\ orphans' = orphans /\ steady' = steady
    BY <1>6 DEF discoverVars, Live, Answerable
  <2> QED
    BY <2>1 DEF FeedInv, ListShape
<1>7. CASE DiscoverNext
  BY <1>2, <1>3, <1>4, <1>5, <1>7, SubmitKeepsList, LoadMoreKeepsList, DetailKeepsList, ReadExtraKeepsList, ServeKeepsList, EndLoadKeepsList,
     LateKeepsList, TableKeepsList, ClockKeepsList DEF DiscoverNext
<1> QED
  BY <1>6, <1>7

\* The invariant says what the list on screen is worth.
LEMMA FeedIsComplete == FeedInv => FeedComplete
<1> SUFFICES ASSUME FeedInv PROVE FeedComplete
  OBVIOUS
<1>1. \A i, j \in DOMAIN view.items : view.items[i] = view.items[j] => i = j
  <2>1. CASE view = NoView
    BY <2>1 DEF NoView
  <2>2. CASE view # NoView
    BY <2>2 DEF FeedInv, ListShape, ViewOK, FeedsOnce, Once
  <2> QED
    BY <2>1, <2>2
<1>2. ASSUME view # NoView, steady, Rendered, FieldOr(view.filters, "licensedArchitectRequired", TRUE)
      PROVE  LET all == IdsOf(Ordered(Live, view.filters))
             IN  /\ IsPrefix(view.items, all)
                 /\ ~HasMoreItems(view) /\ Len(all) <= MaxOffset => Len(view.items) = Len(all)
  <2> DEFINE all == AllOf(Live, view.filters)
             items == view.items
  <2>1. PICK c : ShownTo(Live, view, c)
    BY <1>2 DEF FeedInv, Shown, Writable
  <2>2. /\ c \in 0 .. Len(all) /\ items = SubSeq(all, 1, c) /\ view.total = Len(all)
        /\ Len(all) <= MaxOffset => view.nextOffset = c
    BY <2>1 DEF ShownTo
  <2>3. all \in Seq(Nat) /\ Len(all) \in Nat
    BY <1>2, AllListed DEF FeedInv, ListShape, ViewOK, Answerable
  <2>4. Len(all) <= MaxOffset /\ ~HasMoreItems(view) => c = Len(all)
    BY <2>2, <2>3, PagingBounds DEF HasMoreItems
  <2>5. all = IdsOf(Ordered(Live, view.filters))
    BY DEF AllOf
  <2> HIDE DEF all, items
  <2>6. items \in Seq(Nat) /\ Len(items) = c
    BY <2>2, <2>3
  <2>7. IsPrefix(items, all)
    <3>1. SubSeq(items, 1, Len(items)) = items
      BY <2>6
    <3> QED
      BY <2>2, <2>3, <2>6, <3>1 DEF IsPrefix
  <2> QED
    BY <2>4, <2>5, <2>6, <2>7 DEF items
<1> QED
  BY <1>1, <1>2 DEF FeedComplete

\* The list never shows an opportunity twice.  If its filters select now what they selected at each read
\* since it was opened - whatever rows were edited, however much time passed and whichever earlier answer
\* a cache gave - it is the beginning of that selection, in their order, and all of it once no more is
\* offered: however deep it was restored, however often more was loaded and whatever else was asked for
\* meanwhile (buildSearchParams, parseDiscoverFilters, ORDER BY, LIMIT and OFFSET, appendFeedPage), for
\* any rows, filters and page lengths.
THEOREM ListsAreComplete == DiscoverSpec => []FeedComplete
<1> QED
  BY FeedStarts, FeedStep, FeedIsComplete, PTL DEF DiscoverSpec

-----------------------------------------------------------------------------
(* THE PARTS TOGETHER *)

\* Every address written holds a value, or none, for each parameter there is.
LEMMA AddressesAreWhole ==
  /\ \A f, n : DOMAIN BuildDiscoverPageSearchParams(f, n) = DOMAIN NoQuery
  /\ \A query \in Addresses : DOMAIN query = DOMAIN NoQuery
BY DiscoverAssumption DEF BuildDiscoverPageSearchParams, BuildDiscoverSearchParams, IsQuery

\* The server answers a request or refuses it.
LEMMA AnswersAreKnown == \A request, db : GetOpportunities(request, db).at \in {"answered", "refused"}
<1> TAKE request, db
<1>1. \A p : [at |-> "answered", page |-> p].at = "answered"
  OBVIOUS
<1>2. [at |-> "refused"].at = "refused"
  OBVIOUS
<1>3. \/ GetOpportunities(request, db) = [at |-> "refused"]
      \/ \E p : GetOpportunities(request, db) = [at |-> "answered", page |-> p]
  BY Zenon DEF GetOpportunities
<1> QED
  BY <1>1, <1>2, <1>3

\* The discover page starts with its types.
LEMMA DiscoverStarts == DiscoverInit => DiscoverTypeOK
BY DiscoverAssumption DEF DiscoverInit, DiscoverTypeOK, NoLoadMore, IsRow

\* Whatever the address, the feed keeps its types.
LEMMA NavigateKeeps ==
  ASSUME DiscoverTypeOK, NEW query, DOMAIN query = DOMAIN NoQuery, Navigate(query) \/ Arrive(query)
  PROVE  DiscoverTypeOK'
BY DEF DiscoverTypeOK, Navigate, Arrive, NoLoadMore

\* Every step of the discover page.
LEMMA DiscoverStep == DiscoverTypeOK /\ [DiscoverNext]_discoverVars => DiscoverTypeOK'
<1> SUFFICES ASSUME DiscoverTypeOK, [DiscoverNext]_discoverVars PROVE DiscoverTypeOK'
  OBVIOUS
<1>1. CASE EnterAddress
  BY <1>1, AddressesAreWhole, NavigateKeeps DEF EnterAddress
<1>2. CASE Reload
  BY <1>2, NavigateKeeps DEF Reload, DiscoverTypeOK
<1>3. CASE ResetFilters
  BY <1>3, NavigateKeeps DEF ResetFilters
<1>4. CASE FollowSaved
  BY <1>4, AddressesAreWhole, NavigateKeeps DEF FollowSaved
<1>5. CASE SubmitDock
  <2>1. PICK form : HandleSubmit(form)
    BY <1>5 DEF SubmitDock
  <2> DEFINE f == ReadDiscoverPageState(form).filters
             href == BuildDiscoverPageSearchParams(f, PageSize)
  <2>2. DOMAIN href = DOMAIN NoQuery
    BY AddressesAreWhole
  <2>3. \/ Navigate(href)
        \/ address' = href /\ UNCHANGED <<table, clock, changes, past, view, loadMore, orphans, loads, steady, detail>>
    BY <2>1 DEF HandleSubmit
  <2> HIDE DEF f, href
  <2>4. UNCHANGED loads \/ Navigate(href)
    BY <1>5, <2>3 DEF SubmitDock, HandleSubmit, Navigate
  <2> QED
    BY <2>2, <2>3, <2>4, NavigateKeeps DEF DiscoverTypeOK
<1>6. CASE LoadMore
  <2>1. loads' \in 0 .. MaxLoads
    BY <1>6, DiscoverAssumption DEF LoadMore, DiscoverTypeOK
  <2>2. loadMore'.at = "sent"
    BY <1>6 DEF LoadMore
  <2> QED
    BY <1>6, <2>1, <2>2 DEF LoadMore, DiscoverTypeOK
<1>7. CASE OpenDetail
  BY <1>7 DEF OpenDetail, DiscoverTypeOK, NoLoadMore
<1>8. CASE ReadExtraPages
  BY <1>8 DEF ReadExtraPages, DiscoverTypeOK
<1>9. CASE ServeLoadMore
  BY <1>9, AnswersAreKnown DEF ServeLoadMore, DiscoverTypeOK
<1>10. CASE EndLoadMore
  BY <1>10, AddressesAreWhole DEF EndLoadMore, DiscoverTypeOK, NoLoadMore
<1>11. CASE LateAnswer
  <2>1. DOMAIN address' = DOMAIN NoQuery
    BY <1>11, AddressesAreWhole DEF LateAnswer, DiscoverTypeOK
  <2> QED
    BY <1>11, <2>1 DEF LateAnswer, DiscoverTypeOK
<1>12. CASE TableChanges
  <2>1. PICK row \in EditedRows : table' = {r \in table : r.id # row.id} \cup {row}
    BY <1>12 DEF TableChanges
  <2>2. \A r \in table' : r.id \in Nat /\ r.status \in Statuses
    BY <2>1, DiscoverAssumption DEF DiscoverTypeOK, IsRow
  <2>3. changes' \in 0 .. MaxChanges /\ clock' \in ClockStart .. ClockStart + changes'
    BY <1>12, DiscoverAssumption DEF TableChanges, DiscoverTypeOK
  <2> QED
    BY <1>12, <2>2, <2>3 DEF TableChanges, DiscoverTypeOK
<1>14. CASE ClockTicks
  <2>1. changes' \in 0 .. MaxChanges /\ clock' \in ClockStart .. ClockStart + changes'
    BY <1>14, DiscoverAssumption DEF ClockTicks, DiscoverTypeOK
  <2> QED
    BY <1>14, <2>1 DEF ClockTicks, DiscoverTypeOK
<1>13. CASE UNCHANGED discoverVars
  BY <1>13 DEF discoverVars, DiscoverTypeOK
<1> QED
  BY <1>1, <1>2, <1>3, <1>4, <1>5, <1>6, <1>7, <1>8, <1>9, <1>10, <1>11, <1>12, <1>13, <1>14 DEF DiscoverNext

\* A step of the application is a step, or none, of each of its parts.
LEMMA PartsMove ==
  ASSUME [WebNext]_webVars
  PROVE  /\ [WorkspaceNext]_workspaceVars /\ [AuthNext]_authVars /\ [GateNext]_gateVars
         /\ [DiscoverNext]_discoverVars /\ [SyncNext]_syncVars
<1>1. CASE UNCHANGED webVars
  BY <1>1 DEF webVars
<1>2. CASE WebNext
  BY <1>2 DEF WebNext, WorkspaceNext, workspaceVars
<1> QED
  BY <1>1, <1>2

\* All variables of the web application keep their types, whichever of its parts move.
THEOREM WebTypes == WebSpec => []WebTypeOK
<1> DEFINE Inv == /\ DeskInv /\ WatchInv /\ SearchInv
                  /\ SessionInv /\ ThrottleInv /\ GateInv /\ DiscoverTypeOK /\ MirrorInv
<1>1. WebInit => Inv
  BY DeskStarts, WatchStarts, SearchStarts, AuthInitially, ThrottleStarts, GateStarts, DiscoverStarts, MirrorInit
     DEF WebInit, WorkspaceInit
<1>2. Inv /\ [WebNext]_webVars => Inv'
  <2> SUFFICES ASSUME Inv, [WebNext]_webVars PROVE Inv'
    OBVIOUS
  <2>1. /\ [WorkspaceNext]_workspaceVars /\ [AuthNext]_authVars /\ [GateNext]_gateVars
        /\ [DiscoverNext]_discoverVars /\ [SyncNext]_syncVars
    BY PartsMove
  <2>2. SessionInv'
    BY <2>1, AuthStep
  <2>3. ThrottleInv'
    BY <2>1, <2>2, ThrottleStep DEF SessionInv
  <2> QED
    BY <2>1, <2>2, <2>3, DeskHolds, WatchHolds, SearchesHold, GateHolds, DiscoverStep, MirrorStep
<1>3. Inv => WebTypeOK
  BY WorkspaceTyped, AuthTyped, GateTyped, SyncTyped DEF WebTypeOK
<1> QED
  BY <1>1, <1>2, <1>3, PTL DEF WebSpec
=============================================================================
