--------------------------- MODULE RecordIdentity ---------------------------
(***************************************************************************)
(* Which stored competition a collected document refers to.                *)
(*                                                                         *)
(* The worker re-collects the same notices again and again, while their    *)
(* titles and deadlines are corrected upstream, adapters show or omit the  *)
(* official notice number, maintenance rewrites URLs, expired rows are     *)
(* deleted, and rows written by a retired id scheme are still in the       *)
(* table.  storage/competitions.py:_find_existing decides the identity.    *)
(*                                                                         *)
(* The table is a set of rows, as SQL sees it.  Two things are auxiliary:  *)
(* the column "seen", the real notices whose documents were merged into    *)
(* the row, and "overlooked", the notices of which a document was stored   *)
(* while an old row of theirs was not attributed yet and was not found.    *)
(***************************************************************************)
EXTENDS Naturals, FiniteSets

CONSTANTS
  Notices,        \* the notices buyers really published
  Sources,        \* configured sources (platforms)
  Titles,         \* title slugs
  Deadlines,
  Urls,           \* source_url values
  None,           \* SQL NULL
  SourceOf,       \* [Notices -> Sources]
  UrlOf,          \* [Notices -> Urls], the URL the collector reports
  UrlSources,     \* sources of collector generic_notice_pages: one notice per URL
  Editions,       \* [Notices -> SUBSET (Titles \X Deadlines)], original and corrected
  LegacyEdition,  \* edition under which a row of the old id scheme is stored, or None
  LegacyNumber    \* the official_notice_id column of that row, or None

ASSUME IdentityAssumption ==
  /\ SourceOf \in [Notices -> Sources]
  /\ UrlOf \in [Notices -> Urls]
  /\ UrlSources \subseteq Sources
  /\ Editions \in [Notices -> SUBSET (Titles \X Deadlines)]
  /\ LegacyEdition \in [Notices -> (Titles \X Deadlines) \cup {None}]
  /\ None \notin Titles \X Deadlines
  /\ None \notin Notices \cup Sources
  /\ Notices \cap Urls = {}
  /\ \A n \in Notices : LegacyNumber[n] \in {n, None}
  /\ \A n, m \in Notices :
       n # m /\ SourceOf[n] = SourceOf[m] /\ SourceOf[n] \in UrlSources => UrlOf[n] # UrlOf[m]
  /\ \A n, m \in Notices :
       /\ n # m
       /\ SourceOf[n] = SourceOf[m]
       /\ LegacyEdition[n] # None
       => LegacyEdition[n] # LegacyEdition[m]

VARIABLES rows, overlooked
vars == <<rows, overlooked>>

Schemes == {"current", "legacy"}

\* {title slug}__{source_id}__{token}, and the retired title__source-name__deadline.
RowIds == [scheme : Schemes, title : Titles, source : Sources,
           token : Notices \cup Urls \cup Deadlines]

Row == [id : RowIds, source : Sources \cup {None}, notice : Notices \cup {None},
        url : Urls, seen : SUBSET Notices]

LegacyId(title, source, deadline) ==
  [scheme |-> "legacy", title |-> title, source |-> source, token |-> deadline]

-----------------------------------------------------------------------------
(* Documents the collectors deliver. *)

\* The number comes and goes for every source: the AI extraction of a notice may find
\* it in one run and miss it in the next, and the adapter's own parse, which would
\* supply it, may fail beside an extraction that succeeded.
OfficialNumbers(n) == {n, None}

Documents(n) ==
  {[subject |-> n, source |-> SourceOf[n], official |-> number,
    title |-> edition[1], deadline |-> edition[2], url |-> UrlOf[n]]
     : number \in OfficialNumbers(n), edition \in Editions[n]}

IdentityToken(d) == IF d.official = None THEN d.url ELSE d.official

CompetitionId(d) ==
  [scheme |-> "current", title |-> d.title, source |-> d.source, token |-> IdentityToken(d)]

-----------------------------------------------------------------------------
(* The lookups of _find_existing, in the order in which they are tried. *)

ById(d) == {r \in rows : r.id = CompetitionId(d)}

ByNotice(d) ==
  {r \in rows : d.official # None /\ r.source = d.source /\ r.notice = d.official}

ByLegacyId(d) ==
  {r \in rows : /\ r.id = LegacyId(d.title, d.source, d.deadline)
                /\ r.source \in {None, d.source}}

SameUrl(d) == {r \in rows : r.source = d.source /\ r.url = d.url}

\* Slip: the URL identifies a notice whatever the adapter guarantees.
ByUrlOfAnySource(d) == {r \in SameUrl(d) : SameUrl(d) = {r}}

ByUrl(d) ==
  {r \in SameUrl(d) : d.source \in UrlSources /\ SameUrl(d) = {r}}

\* Slip: a stored number is not looked up, only the id that contains it.
FindExistingWithoutNumber(d) ==
  IF ById(d) # {} THEN ById(d)
  ELSE IF ByLegacyId(d) # {} THEN ByLegacyId(d)
  ELSE ByUrl(d)

FindExisting(d) ==
  IF ById(d) # {} THEN ById(d)
  ELSE IF ByNotice(d) # {} THEN ByNotice(d)
  ELSE IF ByLegacyId(d) # {} THEN ByLegacyId(d)
  ELSE ByUrl(d)

\* merge_rows on the identity columns: the id stays, an empty number erases nothing.
Merged(r, d) ==
  [r EXCEPT !.source = d.source,
            !.notice = IF d.official = None THEN @ ELSE d.official,
            !.url = d.url,
            !.seen = @ \cup {d.subject}]

NewRow(d) ==
  [id |-> CompetitionId(d), source |-> d.source, notice |-> d.official,
   url |-> d.url, seen |-> {d.subject}]

-----------------------------------------------------------------------------
(* The actions: each one is a write transaction. *)

\* Rows of the document's notice that are not attributed yet and that no lookup found.
Unattributed(d) ==
  {r \in rows : r.source = None /\ d.subject \in r.seen /\ r \notin FindExisting(d)}

\* upsert_in_connection.  ByNotice takes the most recently updated match: any of them, here.
Ingest(n) ==
  \E d \in Documents(n) :
    /\ \/ \E r \in FindExisting(d) : rows' = (rows \ {r}) \cup {Merged(r, d)}
       \/ FindExisting(d) = {} /\ rows' = rows \cup {NewRow(d)}
    /\ overlooked' = IF Unattributed(d) = {} THEN overlooked ELSE overlooked \cup {n}

\* initialize_database: rows older than the source columns are attributed.  It runs
\* before every ingest, but leaves them alone when the catalogue cannot be read.
MigrateLegacySourceIdentity ==
  /\ \E r \in rows : r.source = None
  /\ rows' = {[r EXCEPT !.source = IF @ = None THEN r.id.source ELSE @] : r \in rows}
  /\ UNCHANGED overlooked

\* Slip: a notice for which no public page is known has its URL erased.
RewriteUrlUnchecked(r, url) ==
  /\ r.source \notin UrlSources \cup {None}
  /\ r.notice # None
  /\ rows' = (rows \ {r}) \cup {[r EXCEPT !.url = None]}
  /\ UNCHANGED overlooked

\* postprocess/anac.py puts the public page of a numbered notice in place of the API URL.
RewriteUrl(r, url) ==
  /\ r.source \notin UrlSources \cup {None}
  /\ r.notice # None
  /\ r.url # url
  /\ rows' = (rows \ {r}) \cup {[r EXCEPT !.url = url]}
  /\ UNCHANGED overlooked

\* cleanup of expired rows; the notice may be collected again later.
Delete(r) == rows' = rows \ {r} /\ UNCHANGED overlooked

LegacyRow(n) ==
  [id |-> LegacyId(LegacyEdition[n][1], SourceOf[n], LegacyEdition[n][2]),
   source |-> None, notice |-> LegacyNumber[n], url |-> UrlOf[n], seen |-> {n}]

Init ==
  /\ rows = {LegacyRow(n) : n \in {m \in Notices : LegacyEdition[m] # None}}
  /\ overlooked = {}

Next ==
  \/ \E n \in Notices : Ingest(n)
  \/ MigrateLegacySourceIdentity
  \/ \E r \in rows, url \in Urls : RewriteUrl(r, url)
  \/ \E r \in rows : Delete(r)

Spec == Init /\ [][Next]_vars

-----------------------------------------------------------------------------
(* Properties. *)

\* The table holds well-formed rows and the id is its primary key
\* (competitions.id, storage/schema.py).
TypeOK ==
  /\ rows \subseteq Row
  /\ overlooked \subseteq Notices
  /\ \A r, q \in rows : r.id = q.id => r = q

\* Notices of a listing that nothing but their number tells apart: one URL, one title.
Namesakes(n, m) ==
  /\ SourceOf[n] = SourceOf[m] /\ SourceOf[n] \notin UrlSources
  /\ UrlOf[n] = UrlOf[m]
  /\ {e[1] : e \in Editions[n]} \cap {e[1] : e \in Editions[m]} # {}

\* Whatever is corrected, rewritten, deleted or collected again in between, with or
\* without its number, two real notices share a row only when they are namesakes of
\* one listing and neither has given the row a number ("different notice ids, hence
\* different rows", normalizers/keys.py; "must never be merged on URL alone",
\* models/competition.py).
OneNoticePerRow ==
  \A r \in rows : \A n, m \in r.seen :
    n # m => r.notice = None /\ Namesakes(n, m)

\* A row says which notice it is of by a number, or by the URL of a notice page.
Identified(r, n) == r.notice # None \/ SourceOf[n] \in UrlSources

\* A corrected title or deadline, and a number found once and missed the next time, never
\* give a notice a second row that says which notice it is of, so bookmarks and
\* decisions stay attached to the first (_find_existing).  The exceptions are the
\* notices with an old row that was not attributed when it was needed.
OneRowPerNotice ==
  \A n \in Notices \ overlooked : \A r, q \in rows :
    /\ n \in r.seen /\ Identified(r, n)
    /\ n \in q.seen /\ Identified(q, n)
    => r = q

\* What the two properties need of the old rows: the title and deadline of one are
\* never those of another notice of the same source.
LegacyUnambiguous ==
  \A n, m \in Notices :
    /\ n # m
    /\ SourceOf[n] = SourceOf[m]
    /\ LegacyEdition[n] # None
    => LegacyEdition[n] \notin Editions[m]
=============================================================================
