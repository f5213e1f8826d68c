------------------------ MODULE RecordIdentityProofs ------------------------
(* No stored row mixes two notices that anything but a missing number tells       *)
(* apart, and no notice gets a second identified row, for any notices, sources,   *)
(* editions and legacy rows.                                                      *)
EXTENDS RecordIdentity, TLAPS

TitlesOf(n) == {e[1] : e \in Editions[n]}

\* The id of a row names the notices in it: the token of a current id is the number or
\* the URL, a legacy id carries the edition under which it was stored.
IdNames(r, n) ==
  \/ /\ r.id.scheme = "current"
     /\ r.id.source = SourceOf[n]
     /\ r.source = SourceOf[n]
     /\ \/ r.id.token = n /\ r.notice = n
        \/ /\ r.id.token = UrlOf[n]
           /\ SourceOf[n] \notin UrlSources => r.notice = None /\ r.id.title \in TitlesOf(n)
  \/ /\ LegacyEdition[n] # None
     /\ r.id = LegacyId(LegacyEdition[n][1], SourceOf[n], LegacyEdition[n][2])

\* r is a row of notice n, recognisable by every lookup that may find it.
BelongsTo(r, n) ==
  /\ IdNames(r, n)
  /\ r.source \in {SourceOf[n], None}
  /\ r.notice \in {n, None}
  /\ SourceOf[n] \in UrlSources => r.url = UrlOf[n]

EveryRowBelongs ==
  \A r \in rows : r.seen # {} /\ \A n \in r.seen : BelongsTo(r, n)

IInv == TypeOK /\ EveryRowBelongs /\ OneRowPerNotice

\* What is known of a document of n.
IsDocumentOf(d, n) ==
  /\ d.subject = n
  /\ d.source = SourceOf[n] /\ d.source \in Sources /\ d.source # None
  /\ d.url = UrlOf[n] /\ d.url \in Urls
  /\ d.official \in {n, None} /\ n # None
  /\ <<d.title, d.deadline>> \in Editions[n]
  /\ d.title \in Titles /\ d.deadline \in Deadlines /\ d.title \in TitlesOf(n)

\* Every document the collectors deliver is such a document.
LEMMA DocumentFacts ==
  ASSUME NEW n \in Notices, NEW d \in Documents(n)
  PROVE  IsDocumentOf(d, n)
<1>1. PICK number \in OfficialNumbers(n), edition \in Editions[n] :
        d = [subject |-> n, source |-> SourceOf[n], official |-> number,
             title |-> edition[1], deadline |-> edition[2], url |-> UrlOf[n]]
  BY DEF Documents
<1>2. edition \in Titles \X Deadlines
  BY IdentityAssumption
<1>3. edition = <<edition[1], edition[2]>> /\ edition[1] \in Titles /\ edition[2] \in Deadlines
  BY <1>2
<1>4. n # None /\ SourceOf[n] # None /\ SourceOf[n] \in Sources /\ UrlOf[n] \in Urls
  BY IdentityAssumption
<1>5. edition[1] \in TitlesOf(n)
  BY <1>1 DEF TitlesOf
<1> QED
  BY <1>1, <1>3, <1>4, <1>5 DEF OfficialNumbers, IsDocumentOf

\* The lookups only return stored rows.
LEMMA FoundIsStored ==
  ASSUME NEW d, NEW r \in FindExisting(d)
  PROVE  r \in rows
BY DEF FindExisting, ById, ByNotice, ByLegacyId, ByUrl, SameUrl

\* The URL of a notice page is of one notice of its source.
LEMMA UrlTokenNames ==
  ASSUME NEW n \in Notices, NEW m \in Notices,
         SourceOf[n] = SourceOf[m], UrlOf[n] = UrlOf[m], SourceOf[n] \in UrlSources
  PROVE  n = m
BY IdentityAssumption

\* A document whose number is missing has the id of a row only listings share.
SharesId(r, d) ==
  /\ r.id = CompetitionId(d) /\ d.official = None
  /\ d.source \notin UrlSources /\ r.notice = None

\* The id of a row names the source of its notices.
LEMMA IdNamesSource ==
  ASSUME NEW r, NEW m, BelongsTo(r, m)
  PROVE  r.id.source = SourceOf[m]
BY DEF BelongsTo, IdNames, LegacyId

\* The lookups find only rows of the document's own notice, except a row of its
\* listing, URL and title that has no number.
LEMMA FoundRowIsOwn ==
  ASSUME LegacyUnambiguous, TypeOK,
         NEW n \in Notices, NEW d \in Documents(n),
         NEW r \in FindExisting(d), NEW m \in Notices, BelongsTo(r, m)
  PROVE  m = n \/ SharesId(r, d)
<1> USE DEF IsDocumentOf
<1>d. IsDocumentOf(d, n)
  BY DocumentFacts
<1>0. r \in rows /\ r \in Row /\ UrlOf[m] \in Urls /\ Notices \cap Urls = {}
  BY FoundIsStored, IdentityAssumption DEF TypeOK
<1>1. CASE r \in ById(d)
  <2>1. r.id = CompetitionId(d)
    BY <1>1 DEF ById
  <2>2. r.id.scheme = "current" /\ r.id.source = SourceOf[n] /\ r.id.token = IdentityToken(d)
    BY <1>d, <2>1 DEF CompetitionId
  <2>3. /\ SourceOf[n] = SourceOf[m]
        /\ \/ r.id.token = m
           \/ r.id.token = UrlOf[m] /\ (SourceOf[m] \notin UrlSources => r.notice = None)
    BY <2>2 DEF BelongsTo, IdNames, LegacyId
  <2>4. CASE d.official = None
    <3>1. UrlOf[m] = UrlOf[n] /\ (SourceOf[m] \notin UrlSources => r.notice = None)
      BY <1>d, <1>0, <2>2, <2>3, <2>4 DEF IdentityToken
    <3> QED
      BY <1>d, <2>1, <2>3, <2>4, <3>1, UrlTokenNames DEF SharesId
  <2>5. CASE d.official # None
    BY <1>d, <1>0, <2>2, <2>3, <2>5 DEF IdentityToken
  <2> QED
    BY <2>4, <2>5
<1>2. CASE r \in ByNotice(d)
  BY <1>d, <1>2 DEF ByNotice, BelongsTo
<1>3. CASE r \in ByLegacyId(d)
  <2>1. r.id = LegacyId(d.title, d.source, d.deadline)
    BY <1>3 DEF ByLegacyId
  <2>2. LegacyEdition[m] # None /\ r.id = LegacyId(LegacyEdition[m][1], SourceOf[m], LegacyEdition[m][2])
    BY <2>1 DEF BelongsTo, IdNames, LegacyId
  <2>3. LegacyEdition[m][1] = d.title /\ LegacyEdition[m][2] = d.deadline /\ SourceOf[m] = SourceOf[n]
    BY <1>d, <2>1, <2>2 DEF LegacyId
  <2>4. LegacyEdition[m] \in Titles \X Deadlines
    BY <2>2, IdentityAssumption
  <2>5. LegacyEdition[m] = <<d.title, d.deadline>>
    BY <2>3, <2>4
  <2> QED
    BY <1>d, <2>2, <2>3, <2>5 DEF LegacyUnambiguous
<1>4. CASE r \in ByUrl(d)
  <2>1. SourceOf[n] \in UrlSources /\ r.source = SourceOf[n] /\ r.url = UrlOf[n]
    BY <1>d, <1>4 DEF ByUrl, SameUrl
  <2> QED
    BY <1>d, <2>1, UrlTokenNames DEF BelongsTo
<1> QED
  BY <1>1, <1>2, <1>3, <1>4 DEF FindExisting

\* When no lookup succeeds and no old row is overlooked, the notice has no identified
\* row of the kind the new one would be.
LEMMA NothingFound ==
  ASSUME IInv, NEW n \in Notices, NEW d \in Documents(n), n \notin overlooked,
         FindExisting(d) = {}, Unattributed(d) = {}, Identified(NewRow(d), n),
         NEW r \in rows, n \in r.seen, Identified(r, n)
  PROVE  FALSE
<1> USE DEF IsDocumentOf
<1>d. IsDocumentOf(d, n)
  BY DocumentFacts
<1>0. r.source # None
  BY <1>d DEF Unattributed
<1>1. BelongsTo(r, n) /\ r.source = SourceOf[n]
  BY <1>0 DEF IInv, EveryRowBelongs, BelongsTo
<1>2. ByNotice(d) = {} /\ ByUrl(d) = {}
  BY DEF FindExisting
<1>3. CASE SourceOf[n] \in UrlSources
  <2>1. r \in SameUrl(d)
    BY <1>d, <1>1, <1>3 DEF SameUrl, BelongsTo
  <2>2. ASSUME NEW q \in SameUrl(d) PROVE q = r
    <3>1. q \in rows /\ q.source = SourceOf[n] /\ q.url = UrlOf[n]
      BY <1>d, <2>2 DEF SameUrl
    <3>2. PICK m \in q.seen : BelongsTo(q, m)
      BY <3>1 DEF IInv, EveryRowBelongs
    <3>3. m \in Notices /\ SourceOf[n] # None
      BY <3>1, <3>2, IdentityAssumption DEF IInv, TypeOK, Row
    <3>4. m = n
      BY <1>3, <3>1, <3>2, <3>3, <1>0, <1>1, UrlTokenNames DEF BelongsTo
    <3> QED
      BY <1>3, <3>1, <3>2, <3>4 DEF IInv, OneRowPerNotice, Identified
  <2>3. SameUrl(d) = {r}
    BY <2>1, <2>2
  <2> QED
    BY <1>d, <1>2, <1>3, <2>3 DEF ByUrl
<1>4. CASE SourceOf[n] \notin UrlSources
  <2>1. r.notice = n /\ d.official = n
    BY <1>d, <1>1, <1>4 DEF BelongsTo, Identified, NewRow
  <2> QED
    BY <1>d, <1>1, <1>2, <2>1 DEF ByNotice
<1> QED
  BY <1>3, <1>4

\* The table the worker starts from satisfies the invariant.
LEMMA InitHolds == Init => IInv
<1> SUFFICES ASSUME Init PROVE IInv
  OBVIOUS
<1>1. ASSUME NEW r \in rows
      PROVE  \E n \in Notices : LegacyEdition[n] # None /\ r = LegacyRow(n)
  BY DEF Init
<1>2. ASSUME NEW n \in Notices, LegacyEdition[n] # None
      PROVE  LegacyRow(n) \in Row /\ BelongsTo(LegacyRow(n), n)
  <2>1. LegacyEdition[n] \in Titles \X Deadlines
    BY <1>2, IdentityAssumption
  <2>2. LegacyEdition[n][1] \in Titles /\ LegacyEdition[n][2] \in Deadlines
    BY <2>1
  <2>3. SourceOf[n] \in Sources /\ UrlOf[n] \in Urls /\ LegacyNumber[n] \in {n, None}
    BY IdentityAssumption
  <2>4. LegacyId(LegacyEdition[n][1], SourceOf[n], LegacyEdition[n][2]) \in RowIds
    BY <2>2, <2>3 DEF LegacyId, RowIds, Schemes
  <2> QED
    BY <1>2, <2>3, <2>4 DEF LegacyRow, Row, BelongsTo, IdNames
<1>3. ASSUME NEW n \in Notices, NEW m \in Notices,
             LegacyEdition[n] # None, LegacyEdition[m] # None,
             LegacyRow(n).id = LegacyRow(m).id
      PROVE  n = m
  <2>1. LegacyEdition[n] \in Titles \X Deadlines /\ LegacyEdition[m] \in Titles \X Deadlines
    BY <1>3, IdentityAssumption
  <2>2. /\ LegacyEdition[n][1] = LegacyEdition[m][1]
        /\ LegacyEdition[n][2] = LegacyEdition[m][2]
        /\ SourceOf[n] = SourceOf[m]
    BY <1>3 DEF LegacyRow, LegacyId
  <2>3. LegacyEdition[n] = LegacyEdition[m]
    BY <2>1, <2>2
  <2> QED
    BY <1>3, <2>2, <2>3, IdentityAssumption
<1>4. TypeOK
  BY <1>1, <1>2, <1>3 DEF TypeOK, Init
<1>5. EveryRowBelongs
  BY <1>1, <1>2 DEF EveryRowBelongs, LegacyRow
<1>6. OneRowPerNotice
  BY <1>1 DEF OneRowPerNotice, LegacyRow
<1> QED
  BY <1>4, <1>5, <1>6 DEF IInv

\* Replacing a row by another of the same id and notices, no more identified than it
\* was, keeps the invariant.
LEMMA ReplacementHolds ==
  ASSUME IInv, NEW r \in rows, NEW q \in Row,
         q.id = r.id, q.seen = r.seen,
         \A m \in q.seen : BelongsTo(q, m) /\ (Identified(q, m) => Identified(r, m)),
         rows' = (rows \ {r}) \cup {q}, overlooked \subseteq overlooked', overlooked' \subseteq Notices
  PROVE  IInv'
<1>1. TypeOK'
  BY DEF IInv, TypeOK
<1>2. EveryRowBelongs'
  BY DEF IInv, EveryRowBelongs, BelongsTo, IdNames, LegacyId, TitlesOf
<1>3. OneRowPerNotice'
  BY DEF IInv, OneRowPerNotice, Identified
<1> QED
  BY <1>1, <1>2, <1>3 DEF IInv

\* A row found becomes identified by the merge only when it was the notice's own and no
\* other row is.
LEMMA MergeIdentifies ==
  ASSUME LegacyUnambiguous, IInv, NEW n \in Notices, NEW d \in Documents(n),
         n \notin overlooked, Unattributed(d) = {},
         NEW r \in FindExisting(d), Identified(Merged(r, d), n),
         NEW q \in rows, n \in q.seen, Identified(q, n)
  PROVE  q = r
<1> USE DEF IsDocumentOf
<1>d. IsDocumentOf(d, n)
  BY DocumentFacts
<1>1. r \in rows /\ r \in Row
  BY FoundIsStored DEF IInv, TypeOK
<1>2. PICK m \in r.seen : BelongsTo(r, m)
  BY <1>1 DEF IInv, EveryRowBelongs
<1>3. m \in Notices
  BY <1>1, <1>2 DEF Row
<1>4. ~SharesId(r, d)
  BY <1>d, <1>1 DEF SharesId, Identified, Merged, Row
<1>5. m = n
  BY <1>2, <1>3, <1>4, FoundRowIsOwn DEF IInv
<1>6. CASE Identified(r, n)
  BY <1>1, <1>2, <1>5, <1>6 DEF IInv, OneRowPerNotice
<1>7. CASE ~Identified(r, n)
  <2>1. SourceOf[n] \notin UrlSources /\ r.notice = None /\ d.official = n
    BY <1>d, <1>1, <1>7 DEF Identified, Merged, Row
  <2>2. q.notice = n /\ q.source \in {SourceOf[n], None}
    BY <2>1 DEF Identified, IInv, EveryRowBelongs, BelongsTo
  <2>3. r \notin ByNotice(d)
    BY <1>d, <2>1 DEF ByNotice
  <2>4. r \notin ById(d)
    <3>1. SUFFICES ASSUME r.id = CompetitionId(d) PROVE FALSE
      BY DEF ById
    <3>2. r.id.scheme = "current" /\ r.id.token = n
      BY <1>d, <2>1, <3>1 DEF CompetitionId, IdentityToken
    <3>3. UrlOf[n] \in Urls /\ Notices \cap Urls = {}
      BY IdentityAssumption
    <3> QED
      BY <1>d, <1>2, <1>5, <2>1, <3>2, <3>3 DEF BelongsTo, IdNames, LegacyId
  <2>5. r \notin ByUrl(d)
    BY <1>d, <2>1 DEF ByUrl
  <2>6. ByNotice(d) = {} /\ FindExisting(d) = ByLegacyId(d)
    BY <2>3, <2>4, <2>5 DEF FindExisting
  <2>7. q.source = None
    BY <1>d, <2>1, <2>2, <2>6 DEF ByNotice
  <2>8. q \in FindExisting(d)
    BY <1>d, <2>7 DEF Unattributed
  <2>9. q.id = r.id
    BY <2>6, <2>8 DEF ByLegacyId
  <2> QED
    BY <1>1, <2>9 DEF IInv, TypeOK
<1> QED
  BY <1>6, <1>7

\* An ingest merges into a row of its own notice, or inserts the first one.
LEMMA IngestHolds ==
  ASSUME LegacyUnambiguous, IInv, NEW n \in Notices, Ingest(n)
  PROVE  IInv'
<1>1. PICK d \in Documents(n) :
        /\ \/ \E r \in FindExisting(d) : rows' = (rows \ {r}) \cup {Merged(r, d)}
           \/ FindExisting(d) = {} /\ rows' = rows \cup {NewRow(d)}
        /\ overlooked' = IF Unattributed(d) = {} THEN overlooked ELSE overlooked \cup {n}
  BY DEF Ingest
<1> USE DEF IsDocumentOf
<1>d. IsDocumentOf(d, n)
  BY DocumentFacts
<1>2. /\ overlooked \subseteq overlooked' /\ overlooked' \subseteq Notices
      /\ n \notin overlooked' => Unattributed(d) = {}
  BY <1>1 DEF IInv, TypeOK
<1>3. CASE \E r \in FindExisting(d) : rows' = (rows \ {r}) \cup {Merged(r, d)}
  <2>1. PICK r \in FindExisting(d) : rows' = (rows \ {r}) \cup {Merged(r, d)}
    BY <1>3
  <2> DEFINE q == Merged(r, d)
  <2>2. r \in rows /\ r \in Row
    BY FoundIsStored DEF IInv, TypeOK
  <2>3. /\ q \in Row /\ q.id = r.id /\ q.seen = r.seen \cup {n}
        /\ q.source = SourceOf[n] /\ q.url = UrlOf[n]
        /\ q.notice = IF d.official = None THEN r.notice ELSE n
    BY <1>d, <2>2 DEF Merged, Row
  <2>4. ASSUME NEW m \in r.seen PROVE m \in Notices /\ BelongsTo(r, m) /\ (m = n \/ SharesId(r, d))
    BY <2>2, FoundRowIsOwn DEF IInv, EveryRowBelongs, TypeOK, Row
  <2>5. r.seen # {}
    BY <2>2 DEF IInv, EveryRowBelongs
  <2> HIDE DEF q
  <2>6. CASE SharesId(r, d)
    <3>1. /\ r.id.scheme = "current" /\ r.id.token = UrlOf[n] /\ r.id.title = d.title
          /\ r.id.source = SourceOf[n] /\ SourceOf[n] \notin UrlSources
          /\ q.notice = None /\ r.notice = None
      BY <1>d, <2>3, <2>6 DEF SharesId, CompetitionId, IdentityToken
    <3>2. BelongsTo(q, n)
      BY <1>d, <2>3, <3>1 DEF BelongsTo, IdNames
    <3>3. ASSUME NEW m \in r.seen PROVE BelongsTo(q, m)
      <4>1. SourceOf[m] = SourceOf[n]
        BY <2>4, <3>1, IdNamesSource
      <4> QED
        BY <2>3, <2>4, <3>1, <4>1 DEF BelongsTo, IdNames
    <3>4. EveryRowBelongs'
      <4>1. \A m \in q.seen : BelongsTo(q, m)
        BY <2>3, <3>2, <3>3
      <4> QED
        BY <2>1, <2>3, <4>1 DEF q, IInv, EveryRowBelongs, BelongsTo, IdNames, LegacyId, TitlesOf
    <3>5. TypeOK'
      BY <1>2, <2>1, <2>2, <2>3 DEF q, IInv, TypeOK
    <3>6. \A m \in q.seen : ~Identified(q, m)
      <4>1. ASSUME NEW m \in r.seen PROVE SourceOf[m] \notin UrlSources
        BY <2>4, <3>1, IdNamesSource
      <4> QED
        BY <2>3, <3>1, <4>1 DEF Identified
    <3>7. OneRowPerNotice'
      BY <1>2, <2>1, <2>2, <3>6 DEF q, IInv, OneRowPerNotice, Identified
    <3> QED
      BY <3>4, <3>5, <3>7 DEF IInv
  <2>7. CASE ~SharesId(r, d)
    <3>1. r.seen = {n} /\ q.seen = {n} /\ BelongsTo(r, n)
      BY <2>3, <2>4, <2>5, <2>7
    <3>2. BelongsTo(q, n)
      <4>1. r.notice \in {n, None} /\ q.notice \in {n, None}
        BY <1>d, <2>3, <3>1 DEF BelongsTo
      <4>2. ASSUME r.id.scheme = "current", r.id.token = UrlOf[n], SourceOf[n] \notin UrlSources
            PROVE  d.official = None \/ r.notice = n
        <5>1. SUFFICES ASSUME d.official = n, r.notice = None PROVE FALSE
          BY <1>d, <4>1
        <5>2. r \notin ByNotice(d) /\ r \notin ByUrl(d) /\ r \notin ByLegacyId(d)
          BY <1>d, <4>2, <5>1 DEF ByNotice, ByUrl, ByLegacyId, LegacyId
        <5>3. r.id.token = n
          BY <1>d, <5>1, <5>2 DEF FindExisting, ById, CompetitionId, IdentityToken
        <5> QED
          BY <1>d, <4>2, <5>3, IdentityAssumption
      <4>3. IdNames(r, n)
        BY <3>1 DEF BelongsTo
      <4>4. CASE r.id.scheme = "current" /\ r.id.token = n /\ r.notice = n
        BY <1>d, <2>3, <4>1, <4>3, <4>4 DEF BelongsTo, IdNames, LegacyId
      <4>5. CASE /\ r.id.scheme = "current" /\ r.id.token = UrlOf[n]
                 /\ SourceOf[n] \notin UrlSources => r.notice = None /\ r.id.title \in TitlesOf(n)
        BY <1>d, <2>3, <4>1, <4>2, <4>3, <4>5 DEF BelongsTo, IdNames, LegacyId
      <4>6. CASE LegacyEdition[n] # None /\ r.id = LegacyId(LegacyEdition[n][1], SourceOf[n], LegacyEdition[n][2])
        BY <1>d, <2>3, <4>1, <4>6 DEF BelongsTo, IdNames
      <4> QED
        BY <4>3, <4>4, <4>5, <4>6 DEF IdNames
    <3>3. EveryRowBelongs'
      BY <2>1, <3>1, <3>2 DEF q, IInv, EveryRowBelongs, BelongsTo, IdNames, LegacyId, TitlesOf
    <3>4. TypeOK'
      BY <1>2, <2>1, <2>2, <2>3 DEF q, IInv, TypeOK
    <3>5. OneRowPerNotice'
      <4>1. ASSUME n \notin overlooked', Identified(q, n), NEW p \in rows, n \in p.seen, Identified(p, n)
            PROVE  p = r
        BY <1>2, <4>1, MergeIdentifies DEF q
      <4> QED
        BY <1>2, <2>1, <3>1, <4>1 DEF q, IInv, OneRowPerNotice, Identified
    <3> QED
      BY <3>3, <3>4, <3>5 DEF IInv
  <2> QED
    BY <2>6, <2>7
<1>4. CASE FindExisting(d) = {} /\ rows' = rows \cup {NewRow(d)}
  <2>1. NewRow(d) \in Row
    BY <1>d DEF NewRow, Row, CompetitionId, IdentityToken, RowIds, Schemes
  <2>2. BelongsTo(NewRow(d), n)
    BY <1>d DEF BelongsTo, IdNames, NewRow, CompetitionId, IdentityToken
  <2>3. ById(d) = {}
    BY <1>4 DEF FindExisting
  <2>4. TypeOK'
    <3>1. \A r \in rows : r.id # NewRow(d).id
      BY <2>3 DEF ById, NewRow
    <3> QED
      BY <1>2, <1>4, <2>1, <3>1 DEF IInv, TypeOK
  <2>5. NewRow(d).seen = {n}
    BY <1>d DEF NewRow
  <2>6. EveryRowBelongs'
    BY <1>4, <2>2, <2>5 DEF IInv, EveryRowBelongs, BelongsTo, IdNames, LegacyId, TitlesOf
  <2>7. ASSUME n \notin overlooked', Identified(NewRow(d), n), NEW r \in rows, n \in r.seen
        PROVE  ~Identified(r, n)
    BY <1>2, <1>4, <2>7, NothingFound
  <2>8. OneRowPerNotice'
    BY <1>2, <1>4, <2>5, <2>7 DEF IInv, OneRowPerNotice, Identified
  <2> QED
    BY <2>4, <2>6, <2>8 DEF IInv
<1> QED
  BY <1>1, <1>3, <1>4

\* Attribution fills in the source the legacy id names and changes nothing else.
LEMMA MigrationHolds ==
  ASSUME IInv, MigrateLegacySourceIdentity
  PROVE  IInv'
<1> DEFINE Attribute(r) == [r EXCEPT !.source = IF @ = None THEN r.id.source ELSE @]
<1>1. rows' = {Attribute(r) : r \in rows}
  BY DEF MigrateLegacySourceIdentity
<1>2. ASSUME NEW r \in rows, NEW n \in r.seen
      PROVE  BelongsTo(Attribute(r), n) /\ Attribute(r) \in Row
  <2>1. r \in Row /\ BelongsTo(r, n) /\ n \in Notices
    BY DEF IInv, TypeOK, EveryRowBelongs, Row
  <2>2. r.id.source = SourceOf[n] /\ SourceOf[n] \in Sources
    BY <2>1, IdentityAssumption DEF BelongsTo, IdNames, LegacyId
  <2> QED
    BY <2>1, <2>2 DEF Row, BelongsTo, IdNames
<1>3. ASSUME NEW r \in rows
      PROVE  /\ Attribute(r) \in Row /\ Attribute(r).id = r.id
             /\ Attribute(r).seen = r.seen /\ Attribute(r).notice = r.notice
  BY <1>2 DEF IInv, EveryRowBelongs, TypeOK, Row
<1>4. UNCHANGED overlooked
  BY DEF MigrateLegacySourceIdentity
<1> HIDE DEF Attribute
<1>5. TypeOK'
  BY <1>1, <1>3, <1>4 DEF IInv, TypeOK
<1>6. EveryRowBelongs'
  BY <1>1, <1>2, <1>3 DEF IInv, EveryRowBelongs, BelongsTo, IdNames, LegacyId, TitlesOf
<1>7. OneRowPerNotice'
  BY <1>1, <1>3, <1>4 DEF IInv, OneRowPerNotice, Identified
<1> QED
  BY <1>5, <1>6, <1>7 DEF IInv

\* Every step of the worker keeps the invariant.
LEMMA StepHolds == LegacyUnambiguous /\ IInv /\ [Next]_vars => IInv'
<1> SUFFICES ASSUME LegacyUnambiguous, IInv, [Next]_vars PROVE IInv'
  OBVIOUS
<1>1. ASSUME NEW n \in Notices, Ingest(n) PROVE IInv'
  BY <1>1, IngestHolds
<1>2. CASE MigrateLegacySourceIdentity
  BY <1>2, MigrationHolds
<1>3. ASSUME NEW r \in rows, NEW url \in Urls, RewriteUrl(r, url) PROVE IInv'
  <2> DEFINE q == [r EXCEPT !.url = url]
  <2>1. r \in Row /\ r.source \notin UrlSources \cup {None}
    BY <1>3 DEF RewriteUrl, IInv, TypeOK
  <2>2. q \in Row /\ q.id = r.id /\ q.seen = r.seen /\ q.source = r.source /\ q.notice = r.notice
    BY <2>1 DEF Row
  <2>3. ASSUME NEW m \in r.seen PROVE BelongsTo(r, m) /\ SourceOf[m] \notin UrlSources
    BY <2>1 DEF IInv, EveryRowBelongs, BelongsTo
  <2>4. rows' = (rows \ {r}) \cup {q} /\ UNCHANGED overlooked
    BY <1>3 DEF RewriteUrl
  <2> HIDE DEF q
  <2>5. \A m \in q.seen : BelongsTo(q, m) /\ (Identified(q, m) => Identified(r, m))
    BY <2>2, <2>3 DEF BelongsTo, IdNames, Identified
  <2>6. overlooked' \subseteq Notices
    BY <2>4 DEF IInv, TypeOK
  <2> QED
    BY <2>2, <2>4, <2>5, <2>6, ReplacementHolds
<1>4. ASSUME NEW r \in rows, Delete(r) PROVE IInv'
  <2>1. rows' \subseteq rows /\ UNCHANGED overlooked
    BY <1>4 DEF Delete
  <2> QED
    BY <2>1 DEF IInv, TypeOK, EveryRowBelongs, OneRowPerNotice, BelongsTo, IdNames, Identified,
                LegacyId, TitlesOf
<1>5. CASE UNCHANGED vars
  BY <1>5 DEF vars, IInv, TypeOK, EveryRowBelongs, OneRowPerNotice, BelongsTo, IdNames, Identified,
              LegacyId, TitlesOf
<1> QED
  BY <1>1, <1>2, <1>3, <1>4, <1>5 DEF Next

\* The worker never leaves the invariant: the base of the three results below.
THEOREM InvariantHolds == ASSUME LegacyUnambiguous PROVE Spec => []IInv
<1>1. LegacyUnambiguous
  OBVIOUS
<1> QED
  BY <1>1, InitHolds, StepHolds, PTL DEF Spec

\* The table is well formed and its ids are unique (primary key of competitions).
THEOREM TableIsWellFormed == ASSUME LegacyUnambiguous PROVE Spec => []TypeOK
<1>1. IInv => TypeOK
  BY DEF IInv
<1> QED
  BY <1>1, InvariantHolds, PTL

\* Two notices in a row are namesakes of one listing, and the row has no number.
LEMMA RowsAreNotMixed == IInv => OneNoticePerRow
<1> SUFFICES ASSUME IInv, NEW r \in rows, NEW n \in r.seen, NEW m \in r.seen, n # m
             PROVE  r.notice = None /\ Namesakes(n, m)
  BY DEF OneNoticePerRow
<1>1. n \in Notices /\ m \in Notices /\ BelongsTo(r, n) /\ BelongsTo(r, m)
  BY DEF IInv, EveryRowBelongs, TypeOK, Row
<1>2. UrlOf[n] \in Urls /\ UrlOf[m] \in Urls /\ Notices \cap Urls = {}
  BY <1>1, IdentityAssumption
<1>3. CASE r.id.scheme = "current"
  <2>1. /\ SourceOf[n] = SourceOf[m]
        /\ r.id.token = n \/ r.id.token = UrlOf[n]
        /\ r.id.token = m \/ r.id.token = UrlOf[m]
    BY <1>1, <1>3 DEF BelongsTo, IdNames, LegacyId
  <2>2. r.id.token = UrlOf[n] /\ r.id.token = UrlOf[m]
    BY <1>1, <1>2, <2>1
  <2>3. SourceOf[n] \notin UrlSources
    BY <1>1, <2>1, <2>2, UrlTokenNames
  <2>4. r.notice = None /\ r.id.title \in TitlesOf(n) /\ r.id.title \in TitlesOf(m)
    BY <1>1, <1>2, <1>3, <2>1, <2>2, <2>3 DEF BelongsTo, IdNames, LegacyId
  <2> QED
    BY <2>1, <2>2, <2>3, <2>4 DEF Namesakes, TitlesOf
<1>4. CASE r.id.scheme # "current"
  <2>1. /\ LegacyEdition[n] # None /\ LegacyEdition[m] # None
        /\ LegacyId(LegacyEdition[n][1], SourceOf[n], LegacyEdition[n][2])
             = LegacyId(LegacyEdition[m][1], SourceOf[m], LegacyEdition[m][2])
    BY <1>1, <1>4 DEF BelongsTo, IdNames
  <2>2. /\ LegacyEdition[n][1] = LegacyEdition[m][1]
        /\ LegacyEdition[n][2] = LegacyEdition[m][2]
        /\ SourceOf[n] = SourceOf[m]
    BY <2>1 DEF LegacyId
  <2>3. LegacyEdition[n] \in Titles \X Deadlines /\ LegacyEdition[m] \in Titles \X Deadlines
    BY <1>1, <2>1, IdentityAssumption
  <2>4. LegacyEdition[n] = LegacyEdition[m]
    BY <2>2, <2>3
  <2> QED
    BY <1>1, <2>1, <2>2, <2>4, IdentityAssumption
<1> QED
  BY <1>3, <1>4

\* Notices share a stored row only as namesakes of one listing whose number the row does
\* not have (normalizers/keys.py, _find_existing).
THEOREM NoticesAreNeverMixed == ASSUME LegacyUnambiguous PROVE Spec => []OneNoticePerRow
<1> QED
  BY RowsAreNotMixed, InvariantHolds, PTL

\* A correction, or a number that comes and goes, never gives a notice a second
\* identified row, unless an old row of it was not attributed in time (_find_existing).
THEOREM CorrectionsKeepTheRow == ASSUME LegacyUnambiguous PROVE Spec => []OneRowPerNotice
<1>1. IInv => OneRowPerNotice
  BY DEF IInv
<1> QED
  BY <1>1, InvariantHolds, PTL
=============================================================================
