-------------------------- MODULE OpportunityQuery --------------------------
(***************************************************************************)
(* How filters are read from a query, what rows they select and in which    *)
(* order, which further values they offer, and what a row is shown as.      *)
(* A parameter of a query is the sequence of its values, each with what it  *)
(* reads as; filters are a function on the names that are set.  Days stand  *)
(* for dates, instants for the time of capture, ranks for ids and update    *)
(* stamps.  What a query reads is a snapshot: the rows and the instant.     *)
(***************************************************************************)
EXTENDS Integers, Sequences, FiniteSets, SequencesExt, FiniteSetsExt

CONSTANTS
  DayLength,         \* instants in a day
  Vocabulary,        \* the values of each multi-select facet, in their order
  AliasGroups,       \* canonical procedure -> the raw values that mean it
  Suppressed,        \* raw procedures that are none
  MarkupValues,      \* raw procedures with markup in them
  TermVariants(_),   \* a term as typed, lower-cased and capitalised
  MaxLimit, MaxOffset, DefaultLimit, MaxWithin, MaxValue, MaxScore, MaxMulti

Unknown == -1
NotStated == "unstated"
Statuses == {"discovered", "shortlisted", "verified", "archived", "discarded"}

-----------------------------------------------------------------------------
(* core/discover-filters.ts *)

Unset == [ok |-> TRUE, given |-> <<>>]
Bad == [ok |-> FALSE, given |-> <<>>]
Given(v) == [ok |-> TRUE, given |-> <<v>>]

Blank(raw) == raw = <<>> \/ raw[1].as = "blank"
Scalar(raw, kind) == IF Blank(raw) THEN Unset ELSE IF raw[1].as = kind THEN Given(raw[1].is) ELSE Bad

\* Out of range is clamped, what is no number is an error.
ClampedNumber(raw, lo, hi) ==
  LET read == Scalar(raw, "number")
  IN  IF read.given = <<>> THEN read
      ELSE Given(Min({Max({read.given[1], lo}), hi}))

BooleanFlag(raw) == Scalar(raw, "flag")
BoundedText(raw) == Scalar(raw, "text")   \* a text beyond the limit reads as "long"
IsoDate(raw) == Scalar(raw, "date")       \* a calendar date, no other string

\* Strict: unknown values and too many are errors.  Lenient: unknown ones are dropped.
EnumList(raw, values, strict) ==
  LET named == {raw[i].is : i \in {j \in DOMAIN raw : raw[j].as = "text"}} \cap ToSet(values)
      known == \A i \in DOMAIN raw : raw[i].as = "text" /\ raw[i].is \in ToSet(values)
  IN  IF raw = <<>> \/ (Len(raw) = 1 /\ Blank(raw)) THEN Unset
      ELSE IF strict /\ ~(known /\ Len(raw) <= MaxMulti) THEN Bad
      ELSE Given(named)

Sorts == {"deadline", "highest_value", "latest"}
EnumSort(raw) == LET read == Scalar(raw, "text") IN IF read.ok /\ read.given # <<>> /\ read.given[1] \notin Sorts THEN Bad ELSE read

Texts == {"search", "jurisdiction", "procedureType", "implementationPath"}
Flags == {"licensedArchitectRequired", "includeExpired"}
Dates == {"deadlineAfter", "deadlineBefore"}
Ranges ==
  [limit |-> <<1, MaxLimit>>, offset |-> <<0, MaxOffset>>, publishedWithinDays |-> <<1, MaxWithin>>,
   minQualificationScore |-> <<0, MaxScore>>,
   minEstimatedValueEur |-> <<0, MaxValue>>, maxEstimatedValueEur |-> <<0, MaxValue>>]
Facets == DOMAIN Vocabulary
FilterNames == Texts \cup Flags \cup Dates \cup DOMAIN Ranges \cup Facets \cup {"sort"}
NoQuery == [name \in FilterNames \cup {"loaded"} |-> <<>>]

BuildSchema(name, raw, strict) ==
  CASE name \in Texts -> BoundedText(raw)
    [] name \in Flags -> BooleanFlag(raw)
    [] name \in Dates -> IsoDate(raw)
    [] name \in DOMAIN Ranges -> ClampedNumber(raw, Ranges[name][1], Ranges[name][2])
    [] name \in Facets -> EnumList(raw, Vocabulary[name], strict)
    [] name = "sort" -> EnumSort(raw)

\* Lenient: a field that does not read is dropped.
ParseDiscoverFilters(query, strict) ==
  LET read(name) == BuildSchema(name, query[name], strict)
  IN  [ok |-> ~strict \/ \A name \in FilterNames : read(name).ok,
       filters |-> [name \in {n \in FilterNames : read(n).given # <<>>} |-> read(name).given[1]]]

Has(f, name) == name \in DOMAIN f
Without(f, names) == [name \in DOMAIN f \ names |-> f[name]]
With(f, set) == [name \in DOMAIN f \cup DOMAIN set |-> IF name \in DOMAIN set THEN set[name] ELSE f[name]]
FieldOr(f, name, default) == IF Has(f, name) THEN f[name] ELSE default

\* The canonical form of saved filters.
CanonicalizeFilters(f) ==
  Without(f, {"limit", "offset"} \cup {n \in DOMAIN f \cap Facets : f[n] = {}} \cup {n \in DOMAIN f \cap Flags : ~f[n]})

-----------------------------------------------------------------------------
(* storage/procedure-types.ts *)

CanonicalOf(raw) == {c \in DOMAIN AliasGroups : raw \in AliasGroups[c]}

ResolveProcedureFilterValues(value) ==
  CASE value \in Suppressed -> {}
    [] value \notin Suppressed /\ CanonicalOf(value) = {} -> {value}
    [] OTHER -> UNION {AliasGroups[c] : c \in CanonicalOf(value)}

ResolveProcedureType(raw) ==
  IF raw = NotStated \/ raw \in MarkupValues \cup Suppressed THEN NotStated
  ELSE IF CanonicalOf(raw) # {} THEN CHOOSE c \in CanonicalOf(raw) : TRUE
  ELSE raw

-----------------------------------------------------------------------------
(* storage/opportunities/query.ts: an unknown value satisfies no bound *)

TodayIso(now) == now \div DayLength
LastDate == 9999   \* 9999-12-31 stands for no deadline

AtLeast(value, bound) == value # Unknown /\ value >= bound
AtMost(value, bound) == value # Unknown /\ value <= bound
ScoreOf(row) == IF row.score = Unknown THEN 0 ELSE row.score

ExcludedByScreening(row) ==
  row.verdict = "exclude" /\ row.judged = row.updated /\ row.status \notin {"shortlisted", "verified"}

\* Expired, archived and discarded rows; `includeExpired` brings back the first two.
Visible(row, f, now) ==
  IF FieldOr(f, "includeExpired", FALSE)
  THEN /\ row.status # "discarded"
       /\ Has(f, "deadlineAfter") => AtLeast(row.deadline, f["deadlineAfter"])
  ELSE /\ row.status \notin {"archived", "discarded"}
       /\ IF Has(f, "deadlineAfter") THEN AtLeast(row.deadline, Max({f["deadlineAfter"], TodayIso(now)}))
          ELSE row.deadline = Unknown \/ row.deadline >= TodayIso(now)

BuildWhere(row, f, now) ==
  /\ ~ExcludedByScreening(row) /\ Visible(row, f, now)
  /\ Has(f, "search") => TermVariants(f["search"]) \cap row.words # {}
  /\ Has(f, "jurisdiction") => row.jurisdiction = f["jurisdiction"]
  /\ Has(f, "procedureType") => row.procedure \in ResolveProcedureFilterValues(f["procedureType"])
  /\ Has(f, "implementationPath") => row.path = f["implementationPath"]
  /\ Has(f, "licensedArchitectRequired") =>
       row.licensed = IF f["licensedArchitectRequired"] THEN "yes" ELSE "no"
  /\ Has(f, "minQualificationScore") => ScoreOf(row) >= f["minQualificationScore"]
  /\ Has(f, "publishedWithinDays") => row.discovered >= now - f["publishedWithinDays"] * DayLength
  /\ Has(f, "deadlineBefore") => AtMost(row.deadline, f["deadlineBefore"])
  /\ Has(f, "minEstimatedValueEur") => AtLeast(row.value, f["minEstimatedValueEur"])
  /\ Has(f, "maxEstimatedValueEur") => AtMost(row.value, f["maxEstimatedValueEur"])
  /\ \A facet \in Facets : FieldOr(f, facet, {}) # {} => f[facet] \cap row.kinds[facet] # {}

\* The id ends every order.
OrderBy(row, sort) ==
  LET due == IF row.deadline = Unknown THEN LastDate ELSE row.deadline
      worth == IF row.value = Unknown THEN 0 ELSE row.value
  IN  CASE sort = "deadline" -> <<due, -ScoreOf(row), -row.updated, row.id>>
        [] sort = "highest_value" -> <<-worth, -ScoreOf(row), -row.updated, row.id>>
        [] sort = "latest" -> <<-row.updated, -ScoreOf(row), row.id>>
Ahead(x, y) == \E i \in DOMAIN x : x[i] < y[i] /\ \A j \in 1 .. i - 1 : x[j] = y[j]

\* The members of a set in an order: each stands where it has all that are earlier before it.
Arranged(S, Earlier(_, _)) ==
  [n \in 1 .. Cardinality(S) |-> CHOOSE x \in S : Cardinality({y \in S : Earlier(y, x)}) = n - 1]

\* normalizeQuery: storage applies the bounds again, then the defaults.
NormalizeQuery(f) ==
  [filters |-> Without(f, {"limit", "offset", "sort"}), sort |-> FieldOr(f, "sort", "deadline"),
   limit |-> Max({1, Min({FieldOr(f, "limit", DefaultLimit), MaxLimit})}),
   offset |-> Max({0, Min({FieldOr(f, "offset", 0), MaxOffset})})]

Selected(db, f) == LET q == NormalizeQuery(f).filters IN {row \in db.rows : BuildWhere(row, q, db.now)}
Ordered(db, f) ==
  LET sort == NormalizeQuery(f).sort
  IN  Arranged(Selected(db, f), LAMBDA x, y : Ahead(OrderBy(x, sort), OrderBy(y, sort)))
IdsOf(list) == [i \in DOMAIN list |-> list[i].id]

BuildCountStatement(db, f) == Cardinality(Selected(db, f))
BuildPageStatement(db, f) ==
  LET q == NormalizeQuery(f)
      all == Ordered(db, f)
  IN  SubSeq(all, q.offset + 1, Min({q.offset + q.limit, Len(all)}))

\* The values that occur in the selection, and those selected already; of a procedure its key,
\* when it has one.
BuildFilterOptions(db, f) ==
  LET found == Selected(db, f)
      Chosen(name) == IF Has(f, name) THEN {f[name]} ELSE {}
      Stated(values) == values \ {NotStated}
  IN  [jurisdiction |-> Stated({r.jurisdiction : r \in found}) \cup Chosen("jurisdiction"),
       implementationPath |-> Stated({r.path : r \in found}) \cup Chosen("implementationPath"),
       procedureType |->
         Stated({ResolveProcedureType(p) : p \in {r.procedure : r \in found} \cup Chosen("procedureType")}),
       facets |-> [facet \in Facets |->
         SelectSeq(Vocabulary[facet], LAMBDA v :
           v \in FieldOr(f, facet, {}) \cup UNION {r.kinds[facet] : r \in found})]]

\* Count, page and options of one batch.
Discover(db, f) ==
  [opportunities |-> IdsOf(BuildPageStatement(db, f)), total |-> BuildCountStatement(db, f),
   options |-> BuildFilterOptions(db, f)]
QueryOpportunityFeed(db, f) == IdsOf(BuildPageStatement(db, f))

-----------------------------------------------------------------------------
(* mapper.ts, repository.ts, opportunity-display.ts: what a row is shown as *)

FirstStated(list) ==
  LET stated == SelectSeq(list, LAMBDA v : v # NotStated) IN IF stated = <<>> THEN NotStated ELSE stated[1]

DescribeParticipationFee(registration, submission) ==
  CASE registration = Unknown /\ submission = Unknown -> [fee |-> "pending", parts |-> <<>>]
    [] registration = 0 /\ submission = 0 -> [fee |-> "free", parts |-> <<>>]
    [] OTHER -> [fee |-> "amounts",
                 parts |-> SelectSeq(<<registration, submission>>, LAMBDA amount : amount # Unknown)]

\* The platform that published the notice is never its buyer.
ToOpportunityFeedItem(row) ==
  [id |-> row.id, updated |-> row.updated, status |-> row.status, title |-> row.title,
   authority |-> FirstStated(<<row.authority, row.organizer>>),
   procedure |-> ResolveProcedureType(row.procedure), jurisdiction |-> row.jurisdiction,
   kinds |-> [facet \in Facets |-> SelectSeq(Vocabulary[facet], LAMBDA v : v \in row.kinds[facet])],
   licensed |-> row.licensed, score |-> row.score, deadline |-> row.deadline,
   value |-> row.value, valueText |-> row.valueText, prize |-> row.prize,
   fee |-> DescribeParticipationFee(row.registrationFee, row.submissionFee),
   place |-> row.place, urls |-> row.urls]

\* Excerpts of the notice, if they were made from the row as it stands and quote it.
GetOpportunityBySlug(rows, ids) ==
  LET hits == SelectSeq(ids, LAMBDA id : \E r \in rows : r.id = id)
      row == CHOOSE r \in rows : r.id = hits[1]
  IN  IF hits = <<>> THEN <<>>
      ELSE <<[item |-> ToOpportunityFeedItem(row),
              excerpts |-> IF row.judged = row.updated THEN {e \in row.excerpts : e.quoted} ELSE {}]>>

\* In the order asked for; rows that are gone are left out.
GetOpportunitiesByIds(rows, ids) == SelectSeq(ids, LAMBDA id : \E r \in rows : r.id = id)

JoinValues(values) == IF values = <<>> THEN <<NotStated>> ELSE values
TruthFlag(value) == CASE value = "yes" -> "required" [] value = "no" -> "not required" [] OTHER -> NotStated

FormatProjectCategoryLabel(item) ==
  LET kinds == SelectSeq(<<FirstStated(item.kinds["projectTypes"]), FirstStated(item.kinds["buildingCategories"])>>,
                         LAMBDA v : v # NotStated)
  IN  IF kinds = <<>> THEN <<item.procedure>> ELSE kinds

\* A link is left out when it says what another says, or leads to an interface instead of a page.
GetOpportunityDisplayMeta(item) ==
  LET u == item.urls
      official == IF u.official \in u.machine THEN NotStated ELSE u.official
      portal == IF u.portal \in {u.official, u.brief} THEN NotStated ELSE u.portal
  IN  [authority |-> item.authority,
       value |-> IF item.value # Unknown THEN <<"amount">>
                 ELSE SelectSeq(<<item.valueText, item.prize>>, LAMBDA v : v # NotStated),
       category |-> FormatProjectCategoryLabel(item),
       location |-> IF item.place \in {NotStated, item.jurisdiction} THEN <<item.jurisdiction>>
                    ELSE <<item.jurisdiction, item.place>>,
       officialPage |-> official, portal |-> portal,
       source |-> IF u.source \in {official, portal, u.brief} THEN NotStated ELSE u.source]

\* The detail page lists what is stated, and names at the end what is not.
OpportunityDetailSurface(found) ==
  LET item == found[1].item
      meta == GetOpportunityDisplayMeta(item)
      facts == [licensed |-> TruthFlag(item.licensed),
                score |-> IF item.score = Unknown THEN NotStated ELSE "score",
                scopes |-> FirstStated(JoinValues(item.kinds["designScopes"])),
                modes |-> FirstStated(JoinValues(item.kinds["projectModes"]))]
  IN  [id |-> item.id, updated |-> item.updated, summary |-> meta, fee |-> item.fee, excerpts |-> found[1].excerpts,
       stated |-> {f \in DOMAIN facts : facts[f] # NotStated},
       missing |-> {f \in DOMAIN facts : facts[f] = NotStated}]

\* A tile of the feed: value, category, place and deadline.
OpportunityStreamItem(item) ==
  LET meta == GetOpportunityDisplayMeta(item)
  IN  [id |-> item.id, value |-> meta.value, category |-> meta.category, location |-> meta.location, deadline |-> item.deadline]
=============================================================================
