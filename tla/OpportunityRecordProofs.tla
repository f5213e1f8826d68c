---------------------- MODULE OpportunityRecordProofs ----------------------
(* The invariants of OpportunityRecord for any ids, documents and bounds.          *)
EXTENDS OpportunityRecord, TLAPS

\* Revisions are given out once: no row, advice or screening job is ahead of the
\* counter, and a job that still names the row's revision has read its facts.
RevisionsAgree ==
  /\ \A i \in Stored : rows[i].rev <= revision
  /\ \A job \in screening :
       /\ job.rev <= revision
       /\ job.id \in Stored /\ rows[job.id].rev = job.rev => rows[job.id].facts = job.basis

\* A deleted row leaves no ruling and no report behind for its successor.
NothingLeftBehind == \A i \in Ids : i \notin Stored => ruling[i] = None /\ report[i] = None

\* "discovered" is the state before any decision.
RulingIsFinal == \A i \in Ids : ruling[i] # "discovered"

IInv ==
  /\ TypeOK /\ WatchedExist /\ AdviceIsCurrent /\ RulingStands /\ LatestReportKept
  /\ RevisionsAgree /\ NothingLeftBehind /\ RulingIsFinal

-----------------------------------------------------------------------------
\* The conflict note is a sequence of links that contains the one added last.
LEMMA NoteKeepsLatest ==
  ASSUME NEW s \in Seq(Urls), NEW url \in Urls
  PROVE  Note(s, url) \in Seq(Urls) /\ url \in Lines(Note(s, url))
<1>1. CASE url \in Lines(s)
  BY <1>1 DEF Note
<1>2. CASE url \notin Lines(s) /\ Len(s) < MaxLines
  <2>1. Append(s, url) \in Seq(Urls) /\ Len(s) + 1 \in DOMAIN Append(s, url)
        /\ Append(s, url)[Len(s) + 1] = url
    OBVIOUS
  <2> QED
    BY <1>2, <2>1 DEF Note, Lines
<1>3. CASE url \notin Lines(s) /\ ~(Len(s) < MaxLines)
  <2>1. Len(s) \in Nat /\ Len(s) >= 1
    BY <1>3, RecordAssumption
  <2>2. Tail(s) \in Seq(Urls)
    BY <2>1
  <2> DEFINE t == Tail(s)
  <2>3. Append(t, url) \in Seq(Urls) /\ Len(t) + 1 \in DOMAIN Append(t, url)
        /\ Append(t, url)[Len(t) + 1] = url
    BY <2>2
  <2> QED
    BY <1>3, <2>3 DEF Note, Lines
<1> QED
  BY <1>1, <1>2, <1>3

\* A merge keeps operator statuses and the link reported last.
LEMMA MergeFacts ==
  ASSUME NEW r \in Row, NEW d \in Document, revision \in Nat
  PROVE  /\ Merge(r, d) \in Row
         /\ Merge(r, d).facts = d.facts /\ Merge(r, d).rev = revision + 1
         /\ r.status # "discovered" => Merge(r, d).status = r.status
         /\ d.url # None => d.url \in {Merge(r, d).url} \cup Lines(Merge(r, d).conflicts)
         /\ d.url = None => Merge(r, d).url = r.url /\ Merge(r, d).conflicts = r.conflicts
<1> DEFINE noted == IF r.url = None \/ d.url \in {None, r.url} THEN r.conflicts
                    ELSE Note(r.conflicts, d.url)
<1>1. noted \in Seq(Urls)
  BY NoteKeepsLatest DEF Row, Document
<1>2. d.url # None => d.url \in {Keep(r.url, d.url)} \cup Lines(noted)
  BY NoteKeepsLatest DEF Row, Document, Keep
<1>3. d.url = None => Keep(r.url, d.url) = r.url /\ noted = r.conflicts
  BY DEF Keep
<1>4. /\ Keep(r.url, d.url) \in Urls \cup {None}
      /\ Keep(d.deadline, r.deadline) \in Nat \cup {None}
      /\ Keep(d.addr, r.addr) \in Addresses \cup {None}
      /\ MergeStatus(r.status, d.status) \in Statuses
      /\ (IF r.level > d.level THEN r.level ELSE d.level) \in Levels
      /\ (r.located \/ d.located) \in BOOLEAN
  BY DEF Row, Document, Keep, MergeStatus, Statuses
<1> HIDE DEF noted
<1>5. Merge(r, d) = [facts |-> d.facts, url |-> Keep(r.url, d.url), conflicts |-> noted,
                     level |-> IF r.level > d.level THEN r.level ELSE d.level,
                     status |-> MergeStatus(r.status, d.status),
                     deadline |-> Keep(d.deadline, r.deadline), addr |-> Keep(d.addr, r.addr),
                     located |-> r.located \/ d.located, rev |-> revision + 1]
  BY DEF Merge, noted
<1>6. d.facts \in Facts /\ revision + 1 \in Nat
  BY DEF Document
<1> QED
  BY <1>1, <1>2, <1>3, <1>4, <1>5, <1>6 DEF Row, MergeStatus

-----------------------------------------------------------------------------
\* A row that changes gets a revision nobody has seen, so every screening job stays
\* consistent and nothing is ahead of the counter.
LEMMA NewRevision ==
  ASSUME IInv, NEW i \in Ids, NEW q \in Row, q.rev = revision + 1,
         revision' = revision + 1, rows' = [rows EXCEPT ![i] = q],
         watched' = watched, screening' = screening
  PROVE  /\ Stored' = Stored \cup {i}
         /\ rows' \in [Ids -> Row \cup {NoRow}] /\ revision' \in Nat
         /\ WatchedExist' /\ RevisionsAgree'
<1>1. /\ rows \in [Ids -> Row \cup {NoRow}] /\ revision \in Nat
      /\ screening \subseteq [id : Ids, basis : Facts, rev : Nat]
  BY DEF IInv, TypeOK
<1>2. q # NoRow
  BY NullsAreDistinct
<1>3. Stored' = Stored \cup {i}
  BY <1>1, <1>2 DEF Stored
<1>4. WatchedExist'
  BY <1>3 DEF IInv, WatchedExist
<1>5. ASSUME NEW j \in Stored' PROVE rows'[j].rev <= revision'
  <2>1. CASE j = i
    BY <1>1, <2>1
  <2>2. CASE j # i
    <3>1. j \in Stored /\ rows'[j] = rows[j] /\ rows[j] \in Row
      BY <1>1, <1>3, <2>2 DEF Stored
    <3>2. rows[j].rev <= revision /\ rows[j].rev \in Nat
      BY <3>1 DEF IInv, RevisionsAgree, Row
    <3> QED
      BY <1>1, <3>1, <3>2
  <2> QED
    BY <2>1, <2>2
<1>6. ASSUME NEW job \in screening'
      PROVE  /\ job.rev <= revision'
             /\ job.id \in Stored' /\ rows'[job.id].rev = job.rev => rows'[job.id].facts = job.basis
  <2>1. job \in screening /\ job.rev <= revision /\ job.rev \in Nat /\ job.id \in Ids
    BY <1>1, <1>6 DEF IInv, RevisionsAgree
  <2>2. CASE job.id = i
    BY <1>1, <2>1, <2>2
  <2>3. CASE job.id # i
    BY <1>1, <1>3, <2>1, <2>3 DEF IInv, RevisionsAgree
  <2> QED
    BY <2>2, <2>3
<1>7. rows' \in [Ids -> Row \cup {NoRow}] /\ revision' \in Nat
  BY <1>1
<1> QED
  BY <1>3, <1>4, <1>5, <1>6, <1>7 DEF RevisionsAgree

\* A new revision that keeps the facts, and keeps the advice or moves it along with
\* the revision it was given for, puts no outdated advice in force.
LEMMA RevisedInPlace ==
  ASSUME IInv, NEW i \in Stored, NEW q \in Row,
         q.rev = revision + 1, q.facts = rows[i].facts, q.url = rows[i].url,
         q.conflicts = rows[i].conflicts,
         revision' = revision + 1, rows' = [rows EXCEPT ![i] = q],
         advice' \in {advice, [advice EXCEPT ![i] = RebasedIfCurrent(i)]},
         watched' = watched, screening' = screening, report' = report
  PROVE  /\ Stored' = Stored
         /\ rows' \in [Ids -> Row \cup {NoRow}] /\ revision' \in Nat
         /\ advice' \in [Ids -> Advice \cup {NoAdvice}]
         /\ \A j \in Ids : advice'[j] # NoAdvice => j \in Stored' /\ advice'[j].rev <= revision'
         /\ WatchedExist' /\ RevisionsAgree' /\ AdviceIsCurrent' /\ LatestReportKept'
<1>1. /\ rows \in [Ids -> Row \cup {NoRow}] /\ revision \in Nat
      /\ advice \in [Ids -> Advice \cup {NoAdvice}]
      /\ \A j \in Ids : advice[j] # NoAdvice => j \in Stored /\ advice[j].rev <= revision
  BY DEF IInv, TypeOK
<1>2. i \in Ids
  BY DEF Stored
<1>3. /\ Stored' = Stored /\ rows' \in [Ids -> Row \cup {NoRow}] /\ revision' \in Nat
      /\ WatchedExist' /\ RevisionsAgree'
  <2>1. /\ Stored' = Stored \cup {i}
        /\ rows' \in [Ids -> Row \cup {NoRow}] /\ revision' \in Nat
        /\ WatchedExist' /\ RevisionsAgree'
    BY <1>2, NewRevision
  <2> QED
    BY <2>1
<1>4. ASSUME NEW j \in Ids, j # i PROVE rows'[j] = rows[j] /\ advice'[j] = advice[j]
  BY <1>1, <1>4
<1>5. rows'[i] = q
  BY <1>1, <1>2
<1>6. \/ advice'[i] = advice[i]
      \/ /\ advice[i] # NoAdvice /\ advice[i].rev = rows[i].rev
         /\ advice'[i] = [advice[i] EXCEPT !.rev = revision + 1]
  BY <1>1, <1>2 DEF RebasedIfCurrent, Rebased
<1>7. advice'[i] \in Advice \cup {NoAdvice}
  BY <1>1, <1>2, <1>6 DEF Advice
<1>8. advice' \in [Ids -> Advice \cup {NoAdvice}]
  BY <1>1, <1>2, <1>7
<1>9. \A j \in Ids : advice'[j] # NoAdvice => j \in Stored' /\ advice'[j].rev <= revision'
  <2>1. TAKE j \in Ids
  <2>2. HAVE advice'[j] # NoAdvice
  <2>3. CASE j # i
    <3>1. advice[j] \in Advice /\ j \in Stored /\ advice[j].rev <= revision
      BY <1>1, <1>4, <2>2, <2>3
    <3> QED
      BY <1>1, <1>3, <1>4, <2>3, <3>1 DEF Advice
  <2>4. CASE j = i
    <3>1. advice[i] # NoAdvice => advice[i] \in Advice /\ advice[i].rev <= revision
      BY <1>1, <1>2
    <3> QED
      BY <1>1, <1>3, <1>6, <2>2, <2>4, <3>1 DEF Advice
  <2> QED
    BY <2>3, <2>4
<1>10. AdviceIsCurrent'
  <2>1. SUFFICES ASSUME NEW j \in Ids, InForce(j)' PROVE advice'[j].basis = rows'[j].facts
    BY DEF AdviceIsCurrent
  <2>2. CASE j # i
    BY <1>3, <1>4, <2>1, <2>2 DEF InForce, IInv, AdviceIsCurrent
  <2>3. CASE j = i
    <3>1. advice'[i] # NoAdvice /\ advice'[i].rev = revision + 1
      BY <1>5, <2>1, <2>3 DEF InForce
    <3>2. advice'[i] # advice[i]
      BY <1>1, <1>2, <3>1 DEF Advice
    <3>3. advice[i] # NoAdvice /\ advice[i].rev = rows[i].rev /\ advice[i] \in Advice
          /\ advice'[i] = [advice[i] EXCEPT !.rev = revision + 1]
      BY <1>1, <1>2, <1>6, <3>2
    <3>4. advice[i].basis = rows[i].facts
      BY <1>2, <3>3 DEF IInv, AdviceIsCurrent, InForce
    <3> QED
      BY <1>5, <2>3, <3>3, <3>4 DEF Advice
  <2> QED
    BY <2>2, <2>3
<1>11. LatestReportKept'
  <2>1. SUFFICES ASSUME NEW j \in Stored, report[j] # None
                 PROVE  report[j] \in {rows'[j].url} \cup Lines(rows'[j].conflicts)
    BY <1>3 DEF LatestReportKept, Lines
  <2>2. report[j] \in {rows[j].url} \cup Lines(rows[j].conflicts) /\ j \in Ids
    BY <2>1 DEF IInv, LatestReportKept, Stored
  <2> QED
    BY <1>4, <1>5, <2>2
<1> QED
  BY <1>3, <1>8, <1>9, <1>10, <1>11

-----------------------------------------------------------------------------
\* Ingest, alone or with the assessment of the same document.
LEMMA UpsertHolds ==
  ASSUME IInv, NEW i \in Ids, NEW d \in Documents, Upsert(i, d),
         \/ advice' = advice
         \/ advice' = [advice EXCEPT ![i] = [rev |-> revision + 1, basis |-> d.facts]]
  PROVE  IInv'
<1> DEFINE q == IF rows[i] = NoRow THEN NewRow(d) ELSE Merge(rows[i], d)
<1>1. /\ rows \in [Ids -> Row \cup {NoRow}] /\ revision \in Nat
      /\ advice \in [Ids -> Advice \cup {NoAdvice}]
      /\ ruling \in [Ids -> Statuses \cup {None}]
      /\ report \in [Ids -> Urls \cup {None}]
      /\ stated \in [Ids -> Addresses \cup {None}]
      /\ \A j \in Ids : advice[j] # NoAdvice => j \in Stored /\ advice[j].rev <= revision
  BY DEF IInv, TypeOK
<1>2. d \in Document
  BY RecordAssumption
<1>3. /\ rows' = [rows EXCEPT ![i] = q]
      /\ revision' = revision + 1
      /\ report' = [report EXCEPT ![i] = Keep(d.url, @)]
      /\ stated' = [stated EXCEPT ![i] = Keep(d.addr, @)]
      /\ UNCHANGED <<watched, jobs, today, ruling>>
  BY DEF Upsert, Stamp
<1>4. q \in Row /\ q.rev = revision + 1 /\ q.facts = d.facts
  <2>1. NewRow(d) \in Row /\ NewRow(d).rev = revision + 1 /\ NewRow(d).facts = d.facts
    <3>1. <<>> \in Seq(Urls) /\ d.status \in Statuses /\ revision + 1 \in Nat
      BY <1>1, <1>2 DEF Document, Statuses
    <3> QED
      BY <1>2, <3>1 DEF NewRow, Row, Document
  <2>2. rows[i] # NoRow => rows[i] \in Row
    BY <1>1
  <2> QED
    BY <1>1, <1>2, <2>1, <2>2, MergeFacts
<1>5. i \in Stored => /\ rows[i] \in Row
                      /\ q = Merge(rows[i], d)
  BY <1>1 DEF Stored
<1>6. i \notin Stored => q = NewRow(d) /\ ruling[i] = None /\ report[i] = None /\ advice[i] = NoAdvice
  BY <1>1 DEF Stored, IInv, NothingLeftBehind
<1> HIDE DEF q
<1>7. /\ Stored' = Stored \cup {i}
      /\ rows' \in [Ids -> Row \cup {NoRow}] /\ revision' \in Nat
      /\ WatchedExist' /\ RevisionsAgree'
  BY <1>3, <1>4, NewRevision DEF jobs
<1>8. rows'[i] = q /\ \A j \in Ids \ {i} : rows'[j] = rows[j]
  BY <1>1, <1>3
<1>9. /\ advice' \in [Ids -> Advice \cup {NoAdvice}]
      /\ \A j \in Ids \ {i} : advice'[j] = advice[j]
      /\ advice'[i] \in {advice[i], [rev |-> revision + 1, basis |-> d.facts]}
  <2>1. [rev |-> revision + 1, basis |-> d.facts] \in Advice
    BY <1>1, <1>2 DEF Advice, Document
  <2>2. CASE advice' = advice
    BY <1>1, <2>2
  <2>3. CASE advice' = [advice EXCEPT ![i] = [rev |-> revision + 1, basis |-> d.facts]]
    BY <1>1, <2>1, <2>3
  <2> QED
    BY <2>2, <2>3
<1>10. \A j \in Ids : advice'[j] # NoAdvice => j \in Stored' /\ advice'[j].rev <= revision'
  <2>1. TAKE j \in Ids
  <2>2. HAVE advice'[j] # NoAdvice
  <2>3. CASE advice'[j] = advice[j]
    <3>1. advice[j] \in Advice /\ j \in Stored /\ advice[j].rev <= revision
      BY <1>1, <2>2, <2>3
    <3> QED
      BY <1>1, <1>3, <1>7, <2>3, <3>1 DEF Advice
  <2>4. CASE j = i /\ advice'[i] = [rev |-> revision + 1, basis |-> d.facts]
    BY <1>1, <1>3, <1>7, <2>4
  <2> QED
    BY <1>9, <2>3, <2>4
<1>11. TypeOK'
  <2>1. report' \in [Ids -> Urls \cup {None}]
    BY <1>1, <1>2, <1>3 DEF Keep, Document
  <2>2. stated' \in [Ids -> Addresses \cup {None}]
    BY <1>1, <1>2, <1>3 DEF Keep, Document
  <2> QED
    BY <1>3, <1>7, <1>9, <1>10, <2>1, <2>2 DEF IInv, TypeOK, jobs
<1>12. AdviceIsCurrent'
  <2>1. SUFFICES ASSUME NEW j \in Ids, InForce(j)' PROVE advice'[j].basis = rows'[j].facts
    BY DEF AdviceIsCurrent
  <2>2. CASE j # i
    BY <1>7, <1>8, <1>9, <2>1, <2>2 DEF InForce, IInv, AdviceIsCurrent
  <2>3. CASE j = i
    <3>1. advice'[i] # NoAdvice /\ advice'[i].rev = revision + 1
      BY <1>4, <1>8, <2>1, <2>3 DEF InForce
    <3>2. advice'[i] # advice[i]
      BY <1>1, <3>1 DEF Advice
    <3> QED
      BY <1>4, <1>8, <1>9, <2>3, <3>2
  <2> QED
    BY <2>2, <2>3
<1>13. RulingStands'
  <2>1. SUFFICES ASSUME NEW j \in Stored', ruling[j] # None PROVE rows'[j].status = ruling[j]
    BY <1>3 DEF RulingStands
  <2>2. CASE j # i
    BY <1>7, <1>8, <2>1, <2>2 DEF IInv, RulingStands, Stored
  <2>3. CASE j = i
    <3>1. i \in Stored /\ rows[i].status = ruling[i]
      BY <1>6, <2>1, <2>3 DEF IInv, RulingStands
    <3>2. ruling[i] # "discovered"
      BY <3>1, <2>1, <2>3 DEF IInv, RulingIsFinal
    <3> QED
      BY <1>1, <1>2, <1>5, <1>8, <2>3, <3>1, <3>2, MergeFacts
  <2> QED
    BY <2>2, <2>3
<1>14. LatestReportKept'
  <2>1. SUFFICES ASSUME NEW j \in Stored', report'[j] # None
                 PROVE  report'[j] \in {rows'[j].url} \cup Lines(rows'[j].conflicts)
    BY DEF LatestReportKept, Lines
  <2>2. j \in Ids
    BY DEF Stored
  <2>3. CASE j # i
    <3>1. j \in Stored /\ report'[j] = report[j] /\ rows'[j] = rows[j]
      BY <1>1, <1>3, <1>7, <1>8, <2>2, <2>3
    <3> QED
      BY <2>1, <3>1 DEF IInv, LatestReportKept
  <2>4. CASE j = i
    <3>1. report'[i] = Keep(d.url, report[i])
      BY <1>1, <1>3
    <3>2. CASE d.url # None /\ i \in Stored
      BY <1>1, <1>2, <1>5, <1>8, <2>4, <3>1, <3>2, MergeFacts DEF Keep
    <3>3. CASE d.url = None /\ i \in Stored
      <4>1. q.url = rows[i].url /\ q.conflicts = rows[i].conflicts
        BY <1>1, <1>2, <1>5, <3>3, MergeFacts
      <4> QED
        BY <1>8, <2>1, <2>4, <3>1, <3>3, <4>1 DEF Keep, IInv, LatestReportKept
    <3>4. CASE i \notin Stored
      BY <1>6, <1>8, <2>1, <2>4, <3>1, <3>4 DEF Keep, NewRow
    <3> QED
      BY <3>2, <3>3, <3>4
  <2> QED
    BY <2>3, <2>4
<1>15. NothingLeftBehind' /\ RulingIsFinal'
  BY <1>1, <1>3, <1>7 DEF IInv, NothingLeftBehind, RulingIsFinal
<1> QED
  BY <1>7, <1>11, <1>12, <1>13, <1>14, <1>15 DEF IInv

\* A status, URL or geocode update of a stored row.
LEMMA UpdateHolds ==
  ASSUME IInv, NEW i \in Stored, NEW q \in Row,
         q.rev = revision + 1, q.facts = rows[i].facts, q.url = rows[i].url,
         q.conflicts = rows[i].conflicts,
         revision' = revision + 1, rows' = [rows EXCEPT ![i] = q],
         advice' \in {advice, [advice EXCEPT ![i] = RebasedIfCurrent(i)]},
         \/ ruling' = ruling /\ (ruling[i] # None => q.status = rows[i].status)
         \/ ruling' = [ruling EXCEPT ![i] = q.status] /\ q.status # "discovered",
         normalizing' \subseteq normalizing, geocoding' \subseteq geocoding,
         UNCHANGED <<watched, screening, expired, today, report, stated>>
  PROVE  IInv'
<1>1. /\ Stored' = Stored
      /\ rows' \in [Ids -> Row \cup {NoRow}] /\ revision' \in Nat
      /\ advice' \in [Ids -> Advice \cup {NoAdvice}]
      /\ \A j \in Ids : advice'[j] # NoAdvice => j \in Stored' /\ advice'[j].rev <= revision'
      /\ WatchedExist' /\ RevisionsAgree' /\ AdviceIsCurrent' /\ LatestReportKept'
  BY RevisedInPlace
<1>2. /\ rows \in [Ids -> Row \cup {NoRow}] /\ i \in Ids /\ q.status \in Statuses
      /\ ruling \in [Ids -> Statuses \cup {None}]
  BY DEF IInv, TypeOK, Stored, Row
<1>3. TypeOK'
  <2>1. ruling' \in [Ids -> Statuses \cup {None}]
    BY <1>2
  <2> QED
    BY <1>1, <2>1 DEF IInv, TypeOK
<1>4. RulingStands'
  <2>1. SUFFICES ASSUME NEW j \in Stored, ruling'[j] # None PROVE rows'[j].status = ruling'[j]
    BY <1>1 DEF RulingStands
  <2>2. CASE j # i
    BY <1>2, <2>1, <2>2 DEF IInv, RulingStands, Stored
  <2>3. CASE j = i
    BY <1>2, <2>1, <2>3 DEF IInv, RulingStands
  <2> QED
    BY <2>2, <2>3
<1>5. NothingLeftBehind' /\ RulingIsFinal'
  BY <1>1, <1>2 DEF IInv, NothingLeftBehind, RulingIsFinal
<1> QED
  BY <1>1, <1>3, <1>4, <1>5 DEF IInv

\* A step that only starts or ends work, watches or unwatches, or lets time pass.
LEMMA QuietStepHolds ==
  ASSUME IInv, UNCHANGED <<rows, advice, revision, ghosts>>,
         watched' \subseteq Stored, screening' \subseteq screening \/
           \A job \in screening' : /\ job \in [id : Ids, basis : Facts, rev : Nat]
                                   /\ job.id \in Stored
                                   /\ job.rev = rows[job.id].rev /\ job.basis = rows[job.id].facts,
         geocoding' \subseteq [id : Ids, addr : Addresses \cup {None}],
         normalizing' \subseteq Ids \X {"archived", "discarded"},
         expired' \subseteq Ids, today' \in Nat
  PROVE  IInv'
<1>1. Stored' = Stored
  BY DEF Stored
<1>2. TypeOK'
  BY <1>1 DEF IInv, TypeOK, ghosts, Stored
<1>3. RevisionsAgree'
  BY <1>1 DEF IInv, RevisionsAgree
<1>4. AdviceIsCurrent' /\ LatestReportKept' /\ RulingStands' /\ NothingLeftBehind' /\ RulingIsFinal'
  BY <1>1 DEF IInv, AdviceIsCurrent, InForce, LatestReportKept, Lines, RulingStands,
              NothingLeftBehind, RulingIsFinal, ghosts
<1> QED
  BY <1>1, <1>2, <1>3, <1>4 DEF IInv, WatchedExist

\* The cleanup deletes advice and auxiliary state with the rows, and no watched row.
LEMMA DeletionHolds ==
  ASSUME IInv, DeleteExpired
  PROVE  IInv'
<1> DEFINE gone == expired \ watched
<1>1. /\ rows' = [j \in Ids |-> IF j \in gone THEN NoRow ELSE rows[j]]
      /\ advice' = [j \in Ids |-> IF j \in gone THEN NoAdvice ELSE advice[j]]
      /\ ruling' = [j \in Ids |-> IF j \in gone THEN None ELSE ruling[j]]
      /\ report' = [j \in Ids |-> IF j \in gone THEN None ELSE report[j]]
      /\ stated' = [j \in Ids |-> IF j \in gone THEN None ELSE stated[j]]
      /\ expired' = {}
      /\ UNCHANGED <<watched, geocoding, normalizing, screening, revision, today>>
  BY DEF DeleteExpired, Deleting, Forget
<1> HIDE DEF gone
<1>2. Stored' = Stored \ gone
  BY <1>1 DEF Stored
<1>3. TypeOK'
  BY <1>1, <1>2 DEF IInv, TypeOK
<1>4. WatchedExist'
  BY <1>1, <1>2 DEF IInv, WatchedExist, gone
<1>5. RevisionsAgree'
  BY <1>1, <1>2 DEF IInv, RevisionsAgree, Stored
<1>6. AdviceIsCurrent'
  BY <1>1, <1>2 DEF IInv, AdviceIsCurrent, InForce
<1>7. RulingStands' /\ NothingLeftBehind' /\ RulingIsFinal'
  <2>1. RulingStands'
    BY <1>1, <1>2 DEF IInv, RulingStands, Stored
  <2>2. NothingLeftBehind'
    BY <1>1, <1>2 DEF IInv, NothingLeftBehind
  <2>3. RulingIsFinal'
    BY <1>1, RecordAssumption DEF IInv, RulingIsFinal, Statuses, HumanStatuses
  <2> QED
    BY <2>1, <2>2, <2>3
<1>8. LatestReportKept'
  BY <1>1, <1>2 DEF IInv, LatestReportKept, Lines, Stored
<1> QED
  BY <1>3, <1>4, <1>5, <1>6, <1>7, <1>8 DEF IInv

\* The empty database satisfies the invariant.
LEMMA InitHolds == Init => IInv
<1> SUFFICES ASSUME Init PROVE IInv
  OBVIOUS
<1>1. Stored = {} /\ \A i \in Ids : rows[i] = NoRow /\ advice[i] = NoAdvice /\ ruling[i] = None
  BY DEF Init, Stored
<1>2. TypeOK
  BY <1>1 DEF Init, TypeOK
<1>3. WatchedExist /\ AdviceIsCurrent /\ RulingStands /\ LatestReportKept
  BY <1>1 DEF Init, WatchedExist, AdviceIsCurrent, InForce, RulingStands, LatestReportKept
<1>4. RevisionsAgree /\ NothingLeftBehind
  BY <1>1 DEF Init, RevisionsAgree, NothingLeftBehind
<1>5. RulingIsFinal
  BY <1>1, RecordAssumption DEF RulingIsFinal, Statuses, HumanStatuses
<1> QED
  BY <1>2, <1>3, <1>4, <1>5 DEF IInv

\* Every step of every writer keeps the invariant.
LEMMA StepHolds == IInv /\ [Next]_vars => IInv'
<1> SUFFICES ASSUME IInv, [Next]_vars PROVE IInv'
  OBVIOUS
<1> USE DEF jobs, ghosts
<1>0. /\ rows \in [Ids -> Row \cup {NoRow}] /\ advice \in [Ids -> Advice \cup {NoAdvice}]
      /\ watched \subseteq Stored /\ Stored \subseteq Ids
      /\ geocoding \subseteq [id : Ids, addr : Addresses \cup {None}]
      /\ normalizing \subseteq Ids \X {"archived", "discarded"}
      /\ screening \subseteq [id : Ids, basis : Facts, rev : Nat]
      /\ expired \subseteq Ids /\ revision \in Nat /\ revision + 1 \in Nat /\ today \in Nat
      /\ ruling \in [Ids -> Statuses \cup {None}]
      /\ \A i \in Stored : rows[i] \in Row
  BY DEF IInv, TypeOK, WatchedExist, Stored
<1>1. ASSUME NEW i \in Ids, NEW d \in Documents, Ingest(i, d) PROVE IInv'
  BY <1>1, UpsertHolds DEF Ingest
<1>2. ASSUME NEW i \in Ids, NEW d \in Documents, IngestScreened(i, d) PROVE IInv'
  BY <1>2, UpsertHolds DEF IngestScreened
<1>3. ASSUME NEW i \in Ids, NEW s \in Rulings, SetStatus(i, s) PROVE IInv'
  <2> DEFINE q == [rows[i] EXCEPT !.status = s, !.rev = revision + 1]
  <2>1. s \in Statuses \ {"discovered"} /\ i \in Stored
    BY <1>3, RecordAssumption DEF SetStatus
  <2>2. /\ q \in Row /\ q.rev = revision + 1 /\ q.facts = rows[i].facts /\ q.url = rows[i].url
        /\ q.conflicts = rows[i].conflicts /\ q.status = s
    BY <1>0, <2>1 DEF Row
  <2>3. rows' = [rows EXCEPT ![i] = q] /\ revision' = revision + 1 /\ advice' = advice
        /\ ruling' = [ruling EXCEPT ![i] = s]
        /\ UNCHANGED <<watched, jobs, today, report, stated>>
    BY <1>0, <1>3 DEF SetStatus, Stamp
  <2> HIDE DEF q
  <2> QED
    BY <2>1, <2>2, <2>3, UpdateHolds
<1>4. ASSUME NEW i \in Ids, Watch(i) PROVE IInv'
  BY <1>0, <1>4, QuietStepHolds DEF Watch
<1>5. ASSUME NEW i \in Ids, Unwatch(i) PROVE IInv'
  BY <1>0, <1>5, QuietStepHolds DEF Unwatch
<1>6. ASSUME NEW ids \in SUBSET Stored, NEW s \in {"archived", "discarded"},
             ListForNormalizing(ids, s)
      PROVE IInv'
  <2>1. normalizing' \subseteq Ids \X {"archived", "discarded"}
    BY <1>0, <1>6 DEF ListForNormalizing
  <2> QED
    BY <1>0, <1>6, <2>1, QuietStepHolds DEF ListForNormalizing
<1>7. ASSUME NEW job \in normalizing, Normalize(job) PROVE IInv'
  <2>0. PICK i \in Ids, s \in {"archived", "discarded"} : job = <<i, s>>
    BY <1>0
  <2> DEFINE q == [rows[i] EXCEPT !.status = s, !.rev = revision + 1]
  <2>1. CASE i \in Stored /\ rows[i].status = "discovered"
    <3>1. s \in Statuses
      BY DEF Statuses, HumanStatuses
    <3>2. /\ q \in Row /\ q.rev = revision + 1 /\ q.facts = rows[i].facts /\ q.url = rows[i].url
          /\ q.conflicts = rows[i].conflicts
      BY <1>0, <2>1, <3>1 DEF Row
    <3>3. rows' = [rows EXCEPT ![i] = q] /\ revision' = revision + 1
          /\ normalizing' \subseteq normalizing
          /\ UNCHANGED <<advice, watched, geocoding, screening, expired, today, ghosts>>
      BY <1>0, <1>7, <2>0, <2>1 DEF Normalize, Stamp
    <3>4. ruling[i] = None
      BY <1>0, <2>1 DEF IInv, RulingStands, RulingIsFinal
    <3> HIDE DEF q
    <3> QED
      BY <2>1, <3>2, <3>3, <3>4, UpdateHolds
  <2>2. CASE ~(i \in Stored /\ rows[i].status = "discovered")
    <3>1. /\ normalizing' \subseteq Ids \X {"archived", "discarded"}
          /\ UNCHANGED <<rows, revision, advice, watched, geocoding, screening, expired, today, ghosts>>
      BY <1>0, <1>7, <2>0, <2>2 DEF Normalize
    <3> QED
      BY <1>0, <3>1, QuietStepHolds
  <2> QED
    BY <2>1, <2>2
<1>8. ASSUME NEW i \in Ids, RewriteSourceUrl(i) PROVE IInv'
  <2> DEFINE q == [rows[i] EXCEPT !.rev = revision + 1]
  <2>1. i \in Stored
    BY <1>8 DEF RewriteSourceUrl
  <2>2. /\ q \in Row /\ q.rev = revision + 1 /\ q.facts = rows[i].facts /\ q.url = rows[i].url
        /\ q.conflicts = rows[i].conflicts /\ q.status = rows[i].status
    BY <1>0, <2>1 DEF Row
  <2>3. rows' = [rows EXCEPT ![i] = q] /\ revision' = revision + 1
        /\ UNCHANGED <<advice, watched, jobs, today, ghosts>>
    BY <1>0, <1>8 DEF RewriteSourceUrl, Stamp
  <2> HIDE DEF q
  <2> QED
    BY <2>1, <2>2, <2>3, UpdateHolds
<1>9. ASSUME ListMissingGeocodes PROVE IInv'
  <2>1. geocoding' \subseteq [id : Ids, addr : Addresses \cup {None}]
    BY <1>0, <1>9 DEF ListMissingGeocodes, Row
  <2> QED
    BY <1>0, <1>9, <2>1, QuietStepHolds DEF ListMissingGeocodes
<1>10. ASSUME NEW job \in geocoding, NEW label \in Addresses \cup {None}, WriteGeocode(job, label)
       PROVE IInv'
  <2> DEFINE i == job.id
  <2> DEFINE q == [rows[i] EXCEPT !.addr = label, !.located = TRUE, !.rev = revision + 1]
  <2>0. geocoding' \subseteq geocoding /\ i \in Ids
    BY <1>0, <1>10 DEF WriteGeocode
  <2>1. CASE i \in Stored
    <3>1. /\ q \in Row /\ q.rev = revision + 1 /\ q.facts = rows[i].facts /\ q.url = rows[i].url
          /\ q.conflicts = rows[i].conflicts /\ q.status = rows[i].status
      BY <1>0, <2>1 DEF Row
    <3>2. rows' = [rows EXCEPT ![i] = q] /\ revision' = revision + 1
          /\ advice' = [advice EXCEPT ![i] = RebasedIfCurrent(i)]
          /\ UNCHANGED <<watched, normalizing, screening, expired, today, ghosts>>
      BY <1>0, <1>10, <2>1 DEF WriteGeocode, Stamp
    <3> HIDE DEF q
    <3> QED
      BY <2>0, <2>1, <3>1, <3>2, UpdateHolds
  <2>2. CASE i \notin Stored
    <3>1. UNCHANGED <<rows, revision, advice, watched, normalizing, screening, expired, today, ghosts>>
      BY <1>10, <2>2 DEF WriteGeocode
    <3> QED
      BY <1>0, <2>0, <3>1, QuietStepHolds
  <2> QED
    BY <2>1, <2>2
<1>11. ASSUME NEW job \in geocoding, GeocodeUnchanged(job) PROVE IInv'
  BY <1>0, <1>11, QuietStepHolds DEF GeocodeUnchanged
<1>12. ASSUME LoadCandidates PROVE IInv'
  <2>1. \A job \in screening' : /\ job \in [id : Ids, basis : Facts, rev : Nat]
                                /\ job.id \in Stored
                                /\ job.rev = rows[job.id].rev /\ job.basis = rows[job.id].facts
    BY <1>0, <1>12 DEF LoadCandidates, Row
  <2> QED
    BY <1>0, <1>12, <2>1, QuietStepHolds DEF LoadCandidates
<1>13. ASSUME NEW job \in screening, Publish(job) PROVE IInv'
  <2>1. /\ job.id \in Stored /\ job.rev \in Nat /\ job.rev <= revision /\ job.basis \in Facts
        /\ rows[job.id].rev = job.rev => rows[job.id].facts = job.basis
    BY <1>0, <1>13 DEF Publish, IInv, RevisionsAgree
  <2>2. /\ advice' = [advice EXCEPT ![job.id] = [rev |-> job.rev, basis |-> job.basis]]
        /\ screening' \subseteq screening
        /\ UNCHANGED <<rows, watched, geocoding, normalizing, expired, revision, today, ghosts>>
    BY <1>13 DEF Publish
  <2>3. Stored' = Stored
    BY <2>2 DEF Stored
  <2>4. TypeOK'
    BY <2>1, <2>2, <2>3 DEF IInv, TypeOK, Advice
  <2>5. AdviceIsCurrent'
    BY <1>0, <2>1, <2>2, <2>3 DEF IInv, AdviceIsCurrent, InForce
  <2>6. RevisionsAgree'
    BY <2>2, <2>3 DEF IInv, RevisionsAgree
  <2>7. WatchedExist' /\ RulingStands' /\ LatestReportKept' /\ NothingLeftBehind' /\ RulingIsFinal'
    BY <2>2, <2>3 DEF IInv, WatchedExist, RulingStands, LatestReportKept, Lines,
                      NothingLeftBehind, RulingIsFinal
  <2> QED
    BY <2>4, <2>5, <2>6, <2>7 DEF IInv
<1>14. ASSUME AbortScreening PROVE IInv'
  BY <1>0, <1>14, QuietStepHolds DEF AbortScreening
<1>15. ASSUME ListExpired PROVE IInv'
  BY <1>0, <1>15, QuietStepHolds DEF ListExpired
<1>16. ASSUME DeleteExpired PROVE IInv'
  BY <1>16, DeletionHolds
<1>17. ASSUME NextDay PROVE IInv'
  BY <1>0, <1>17, QuietStepHolds DEF NextDay
<1>18. CASE UNCHANGED vars
  BY <1>0, <1>18, QuietStepHolds DEF vars
<1> QED
  BY <1>1, <1>2, <1>3, <1>4, <1>5, <1>6, <1>7, <1>8, <1>9, <1>10, <1>11, <1>12, <1>13,
     <1>14, <1>15, <1>16, <1>17, <1>18 DEF Next

\* No interleaving of the writers leaves the invariant.
THEOREM InvariantHolds == Spec => []IInv
BY InitHolds, StepHolds, PTL DEF Spec

\* The tables stay well formed and advice never outlives its row.
THEOREM TablesAreWellFormed == Spec => []TypeOK
<1>1. IInv => TypeOK
  BY DEF IInv
<1> QED
  BY <1>1, InvariantHolds, PTL

\* The cleanup never deletes what a user watches (delete_competitions).
THEOREM WatchedRowsExist == Spec => []WatchedExist
<1>1. IInv => WatchedExist
  BY DEF IInv
<1> QED
  BY <1>1, InvariantHolds, PTL

\* Advice in force was given for the facts now stored (query.ts buildWhere, publish_screening).
THEOREM AdviceInForceIsCurrent == Spec => []AdviceIsCurrent
<1>1. IInv => AdviceIsCurrent
  BY DEF IInv
<1> QED
  BY <1>1, InvariantHolds, PTL

\* An operator's ruling survives ingest and normalisers (merge_status, only_from).
THEOREM OperatorRulingsStand == Spec => []RulingStands
<1>1. IInv => RulingStands
  BY DEF IInv
<1> QED
  BY <1>1, InvariantHolds, PTL

\* The official link reported last stays on record (merge_rows, merge_evidence_note).
THEOREM LatestReportsAreKept == Spec => []LatestReportKept
<1>1. IInv => LatestReportKept
  BY DEF IInv
<1> QED
  BY <1>1, InvariantHolds, PTL

-----------------------------------------------------------------------------
(* What no step may do. *)

\* Merging adds to the evidence of a row.
LEMMA MergeIsNoWeaker ==
  ASSUME NEW r \in Row, NEW d \in Document
  PROVE  NoWeaker(Merge(r, d), r)
<1>1. MaxLines \in Nat \ {0}
  BY RecordAssumption
<1>2. r.level \in Nat /\ d.level \in Nat
  BY RecordAssumption DEF Row, Document, Levels
<1>3. ASSUME NEW url \in Urls, r.conflicts # <<>>
      PROVE  Note(r.conflicts, url) # <<>>
  <2>1. r.conflicts \in Seq(Urls)
    BY DEF Row
  <2>2. Append(r.conflicts, url) # <<>> /\ Append(Tail(r.conflicts), url) # <<>>
    <3>1. Tail(r.conflicts) \in Seq(Urls)
      BY <1>3, <2>1
    <3>2. Len(Append(r.conflicts, url)) # 0 /\ Len(Append(Tail(r.conflicts), url)) # 0
      BY <2>1, <3>1
    <3>3. Len(<<>>) = 0
      OBVIOUS
    <3>4. \A t : Len(t) # 0 => t # <<>>
      BY <3>3, Zenon
    <3> QED
      BY <3>2, <3>4, Zenon
  <2> QED
    BY <1>3, <2>2 DEF Note
<1>4. Merge(r, d).level >= r.level
  BY <1>2 DEF Merge
<1>5. r.conflicts # <<>> => Merge(r, d).conflicts # <<>>
  <2>1. d.url \in Urls \cup {None}
    BY DEF Document
  <2> QED
    BY <1>3, <2>1 DEF Merge
<1>6. r.url # None => Merge(r, d).url = r.url
  BY DEF Merge, Keep
<1>7. r.deadline # None => Merge(r, d).deadline # None
  BY DEF Merge, Keep
<1>8. r.located => Merge(r, d).located
  BY DEF Merge
<1> QED
  BY <1>4, <1>5, <1>6, <1>7, <1>8 DEF NoWeaker

\* A row that keeps its evidence, up to its address and its location, is no weaker.
LEMMA SameEvidence ==
  ASSUME NEW q, NEW r \in Row, q.url = r.url, q.level = r.level, q.conflicts = r.conflicts,
         q.deadline = r.deadline, r.located => q.located
  PROVE  NoWeaker(q, r)
<1>1. r.level \in Nat
  BY RecordAssumption DEF Row, Levels
<1> QED
  BY <1>1 DEF NoWeaker

\* A step that rewrites one row, or none, keeps the evidence if that row keeps it.
LEMMA OneRowRewritten ==
  ASSUME TypeOK, NEW i \in Ids, NEW q, rows' = [rows EXCEPT ![i] = q],
         rows[i] # NoRow => NoWeaker(q, rows[i])
  PROVE  EvidenceKept
<1>1. ASSUME NEW k \in Ids, rows[k] # NoRow
      PROVE  NoWeaker(rows'[k], rows[k])
  <2>1. CASE k = i
    BY <1>1, <2>1 DEF TypeOK
  <2>2. CASE k # i
    <3>1. rows'[k] = rows[k] /\ rows[k] \in Row
      BY <1>1, <2>2 DEF TypeOK
    <3> QED
      BY <3>1, SameEvidence
  <2> QED
    BY <2>1, <2>2
<1> QED
  BY <1>1 DEF EvidenceKept

\* Rows that stay or go are not weakened.
LEMMA UnchangedRowsKeep ==
  ASSUME TypeOK, \A i \in Ids : rows'[i] \in {rows[i], NoRow}
  PROVE  EvidenceKept
BY SameEvidence DEF TypeOK, EvidenceKept

\* Every writer, one after the other.
LEMMA StepKeepsEvidence ==
  ASSUME TypeOK, Next
  PROVE  EvidenceKept
<1>1. ASSUME NEW i \in Ids, NEW d \in Documents, Upsert(i, d) PROVE EvidenceKept
  <2>1. d \in Document /\ rows[i] \in Row \cup {NoRow}
    BY RecordAssumption DEF TypeOK
  <2> DEFINE q == IF rows[i] = NoRow THEN NewRow(d) ELSE Merge(rows[i], d)
  <2>2. rows[i] # NoRow => NoWeaker(q, rows[i])
    BY <2>1, MergeIsNoWeaker
  <2>3. rows' = [rows EXCEPT ![i] = q]
    BY <1>1 DEF Upsert
  <2> HIDE DEF q
  <2> QED
    BY <2>2, <2>3, OneRowRewritten
<1>2. ASSUME NEW i \in Ids, NEW s, SetStatus(i, s) PROVE EvidenceKept
  <2> DEFINE q == [rows[i] EXCEPT !.status = s, !.rev = revision + 1]
  <2>1. rows' = [rows EXCEPT ![i] = q] /\ rows[i] \in Row
    BY <1>2 DEF SetStatus, Stored, TypeOK
  <2>2. NoWeaker(q, rows[i])
    BY <2>1, SameEvidence DEF Row
  <2> HIDE DEF q
  <2> QED
    BY <2>1, <2>2, OneRowRewritten
<1>3. ASSUME NEW job \in normalizing, Normalize(job) PROVE EvidenceKept
  <2> DEFINE i == job[1]
             q == [rows[i] EXCEPT !.status = job[2], !.rev = revision + 1]
  <2>1. CASE rows' = rows
    BY <2>1, UnchangedRowsKeep
  <2>2. CASE i \in Stored /\ rows' = [rows EXCEPT ![i] = q]
    <3>1. rows[i] \in Row /\ i \in Ids
      BY <2>2 DEF Stored, TypeOK
    <3>2. NoWeaker(q, rows[i])
      BY <3>1, SameEvidence DEF Row
    <3> HIDE DEF q
    <3> QED
      BY <2>2, <3>1, <3>2, OneRowRewritten
  <2> QED
    BY <1>3, <2>1, <2>2 DEF Normalize
<1>4. ASSUME NEW i \in Ids, RewriteSourceUrl(i) PROVE EvidenceKept
  <2> DEFINE q == [rows[i] EXCEPT !.rev = revision + 1]
  <2>1. rows' = [rows EXCEPT ![i] = q] /\ rows[i] \in Row
    BY <1>4 DEF RewriteSourceUrl, Stored, TypeOK
  <2>2. NoWeaker(q, rows[i])
    BY <2>1, SameEvidence DEF Row
  <2> HIDE DEF q
  <2> QED
    BY <2>1, <2>2, OneRowRewritten
<1>5. ASSUME NEW job \in geocoding, NEW label, WriteGeocode(job, label) PROVE EvidenceKept
  <2> DEFINE i == job.id
             q == [rows[i] EXCEPT !.addr = label, !.located = TRUE, !.rev = revision + 1]
  <2>1. CASE rows' = rows
    BY <2>1, UnchangedRowsKeep
  <2>2. CASE i \in Stored /\ rows' = [rows EXCEPT ![i] = q]
    <3>1. rows[i] \in Row /\ i \in Ids
      BY <2>2 DEF Stored, TypeOK
    <3>2. NoWeaker(q, rows[i])
      BY <3>1, SameEvidence DEF Row
    <3> HIDE DEF q
    <3> QED
      BY <2>2, <3>1, <3>2, OneRowRewritten
  <2> QED
    BY <1>5, <2>1, <2>2 DEF WriteGeocode
<1>6. ASSUME DeleteExpired PROVE EvidenceKept
  <2>1. \A i \in Ids : rows'[i] \in {rows[i], NoRow}
    BY <1>6 DEF DeleteExpired, Deleting, Forget
  <2> QED
    BY <2>1, UnchangedRowsKeep
<1>7. ASSUME rows' = rows PROVE EvidenceKept
  BY <1>7, UnchangedRowsKeep
<1> QED
  BY <1>1, <1>2, <1>3, <1>4, <1>5, <1>6, <1>7
     DEF Next, Ingest, IngestScreened, Watch, Unwatch, ListForNormalizing, ListMissingGeocodes,
         GeocodeUnchanged, LoadCandidates, Publish, AbortScreening, ListExpired, NextDay

\* No writer, on whatever reading, weakens what is on record (merge_rows, storage writers).
THEOREM EvidenceIsNeverWeakened == Spec => EvidenceNeverWeakens
<1>1. TypeOK /\ [Next]_vars => [EvidenceKept]_vars
  BY StepKeepsEvidence
<1> QED
  BY <1>1, TablesAreWellFormed, PTL DEF Spec, EvidenceNeverWeakens
=============================================================================
