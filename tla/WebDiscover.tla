----------------------------- MODULE WebDiscover -----------------------------
(***************************************************************************)
(* The discover page: an address holds the filters and how many items were  *)
(* on screen, the server renders that list in pages, "load more" appends to *)
(* it and writes the new depth to the address, the dock submits other       *)
(* filters.  Rows change and time passes meanwhile, a page is fetched in    *)
(* several reads, "load more" may be answered by an HTTP cache with what    *)
(* there was before, and an answer may arrive after its list is gone.       *)
(***************************************************************************)
EXTENDS OpportunityQuery

CONSTANTS
  Rows,               \* bound: the table at the start
  EditedRows,         \* bound: what a row may become meanwhile, or a new one
  ClockStart,         \* the instant at which the page is first looked at
  MaxChanges,         \* bound: edits of the table and steps of the clock
  Addresses,          \* bound: queries a visitor comes with
  SavedQueries,       \* bound: what a saved search may hold
  DockEdits,          \* bound: controls of the dock a visitor changes: [name, raw]
  RecencyOptions,     \* days offered by the dock for the time of capture
  PageSize, MaxLoaded,
  MaxLoads            \* bound: clicks on "load more"

\* What a query states: numbers are numbers, and flags are on or off.
ReadsAsStated(raw) ==
  raw # <<>> => /\ raw[1].as = "number" => raw[1].is \in Int
                /\ raw[1].as = "flag" => raw[1].is \in BOOLEAN
IsQuery(query) ==
  DOMAIN query = DOMAIN NoQuery /\ \A name \in DOMAIN query \ Facets : ReadsAsStated(query[name])

\* Columns of a row; its id is the primary key.
IsRow(r) ==
  /\ r.id \in Nat /\ r.status \in Statuses
  /\ r.deadline \in Int /\ r.score \in Int /\ r.updated \in Int /\ r.value \in Int

ASSUME DiscoverAssumption ==
  /\ IsFiniteSet(Rows) /\ \A r, q \in Rows : r.id = q.id => r = q
  /\ \A r \in Rows \cup EditedRows : IsRow(r)
  /\ \A query \in Addresses \cup SavedQueries : IsQuery(query)
  /\ \A edit \in DockEdits : edit.name \in DOMAIN NoQuery \ Facets => ReadsAsStated(edit.raw)
  /\ Facets \cap (Texts \cup Flags \cup Dates \cup DOMAIN Ranges \cup {"sort", "loaded"}) = {}
  /\ \A facet \in Facets : Vocabulary[facet] \in Seq(ToSet(Vocabulary[facet]))
  /\ MaxChanges \in Nat /\ MaxLoads \in Nat /\ ClockStart \in Nat
  /\ {MaxLimit, DefaultLimit, MaxWithin, PageSize, MaxLoaded} \subseteq Nat \ {0}
  /\ {MaxOffset, MaxScore, MaxValue} \subseteq Nat
  /\ PageSize <= MaxLoaded /\ MaxLoaded <= MaxOffset

NoView == [filters |-> <<>>, items |-> <<>>, nextOffset |-> 0, total |-> 0, extra |-> <<>>,
           options |-> <<>>, failed |-> FALSE]
NoLoadMore == [at |-> "none"]
NoDetail == <<>>

VARIABLES
  table,         \* competitions, with their screening results
  clock,
  changes,
  past,          \* what the table and the clock were: HTTP caches may still answer with it
  address,       \* the query in the address bar
  view,          \* the list on screen: filters, FeedState, and the pages still being read
  loadMore,      \* its request under way
  orphans,       \* requests of lists that are gone: their answers still write the address
  loads,
  steady,        \* history: its filters select now what they did at each read of the list
  detail         \* the detail page, NoDetail on the list

discoverVars == <<table, clock, changes, past, address, view, loadMore, orphans, loads, steady, detail>>

Live == [rows |-> table, now |-> clock]
SameList(a, b) == IdsOf(Ordered(a, view.filters)) = IdsOf(Ordered(b, view.filters))

-----------------------------------------------------------------------------
(* lib/discover.ts: filters to and from an address *)

Raw(kind, v) == <<[as |-> kind, is |-> v]>>

\* What is the default anyway is not written: no flag that is off, no empty facet, no offset 0.
Written(f, name) ==
  /\ Has(f, name)
  /\ name \in Flags => f[name]
  /\ name \in Facets => f[name] # {}
  /\ name = "offset" => f[name] > 0
  /\ name = "sort" => f[name] # "deadline"

BuildDiscoverSearchParams(f) ==
  [name \in DOMAIN NoQuery |->
     CASE ~Written(f, name) -> <<>>
       [] Written(f, name) /\ name \in DOMAIN Ranges -> Raw("number", f[name])
       [] Written(f, name) /\ name \in Flags -> Raw("flag", TRUE)
       [] Written(f, name) /\ name \in Dates -> Raw("date", f[name])
       [] Written(f, name) /\ name \in Facets ->
            [i \in 1 .. Cardinality(f[name]) |-> [as |-> "text", is |-> SetToSeq(f[name])[i]]]
       [] OTHER -> Raw("text", f[name])]

WithoutPaging(f) == Without(f, {"limit", "offset"})
ReadDiscoverFilters(query) ==
  LET f == ParseDiscoverFilters(query, FALSE).filters IN IF Has(f, "sort") THEN f ELSE With(f, [sort |-> "deadline"])

ReadDiscoverPageState(query) ==
  [filters |-> WithoutPaging(ReadDiscoverFilters(query)),
   loaded |-> IF query["loaded"] = <<>> \/ query["loaded"][1].as # "number" THEN PageSize
              ELSE Min({Max({query["loaded"][1].is, PageSize}), MaxLoaded})]

BuildDiscoverPageSearchParams(f, loaded) ==
  [BuildDiscoverSearchParams(WithoutPaging(f)) EXCEPT
     !["loaded"] = IF loaded > PageSize THEN Raw("number", Min({loaded, MaxLoaded})) ELSE <<>>]

CountActiveDiscoverFilters(f) ==
  Cardinality({name \in DOMAIN f : name \notin Facets /\ Written(f, name)})
  + MapThenSumSet(LAMBDA facet : Cardinality(FieldOr(f, facet, {})), Facets)
CountAdvancedDiscoverFilters(f) == CountActiveDiscoverFilters(Without(f, {"search", "jurisdiction", "sort"}))

-----------------------------------------------------------------------------
(* lib/feed-pagination.ts *)

HasMoreItems(state) == state.nextOffset < state.total

\* Ids already present, or met before on the page, are dropped.
FreshIds(state, page) ==
  LET ids == page.opportunities
      places == {i \in DOMAIN ids : ids[i] \notin ToSet(state.items) /\ \A j \in 1 .. i - 1 : ids[j] # ids[i]}
      kept == Arranged(places, <)
  IN  [n \in DOMAIN kept |-> ids[kept[n]]]

\* The offset advances by all that came; an empty page is the end.
AppendFeedPage(state, page) ==
  IF page.opportunities = <<>> THEN [state EXCEPT !.total = state.nextOffset]
  ELSE [state EXCEPT !.items = @ \o FreshIds(state, page),
                     !.nextOffset = @ + Len(page.opportunities), !.total = page.total]

\* Pages are appended one after the other.
AppendFeedPages(state, pages) ==
  LET after[n \in 0 .. Len(pages)] == IF n = 0 THEN state ELSE AppendFeedPage(after[n - 1], pages[n])
  IN  after[Len(pages)]

-----------------------------------------------------------------------------
(* the page: DiscoverSurface *)

\* Slip: the further pages are counted from the start of the list.
ExtraPagesFromStart(loaded) ==
  LET first == Min({loaded, MaxLimit})
      count == (loaded - first + MaxLimit - 1) \div MaxLimit
  IN  [i \in 1 .. count |-> [limit |-> Min({MaxLimit, loaded - first - (i - 1) * MaxLimit}), offset |-> (i - 1) * MaxLimit]]

\* A page holds MaxLimit at most: a deep list is read in several.
ExtraPages(loaded) ==
  LET first == Min({loaded, MaxLimit})
      count == (loaded - first + MaxLimit - 1) \div MaxLimit
  IN  [i \in 1 .. count |-> [limit |-> Min({MaxLimit, loaded - first - (i - 1) * MaxLimit}),
                             offset |-> first + (i - 1) * MaxLimit]]

Paged(f, page) == With(WithoutPaging(f), [limit |-> page.limit, offset |-> page.offset])

\* The first page comes with the total and the options, in one batch.
OpenDiscover(query) ==
  LET state == ReadDiscoverPageState(query)
      first == Discover(Live, Paged(state.filters, [limit |-> Min({state.loaded, MaxLimit}), offset |-> 0]))
  IN  view' = [filters |-> state.filters, items |-> first.opportunities, nextOffset |-> Len(first.opportunities),
               total |-> first.total, extra |-> ExtraPages(state.loaded), options |-> first.options, failed |-> FALSE]

\* A list that is left while it loads still gets its answer.
Leave == orphans' = IF loadMore.at = "none" THEN orphans ELSE orphans \cup {[view |-> view, request |-> loadMore]}

Navigate(query) ==
  /\ address' = query /\ OpenDiscover(query) /\ steady' = TRUE
  /\ Leave /\ loadMore' = NoLoadMore /\ detail' = NoDetail
  /\ UNCHANGED <<table, clock, changes, past, loads>>

Rendered == view.extra = <<>>   \* the page has been rendered

\* A new document: nothing of the old one is left.
Arrive(query) ==
  /\ address' = query /\ OpenDiscover(query) /\ steady' = TRUE
  /\ orphans' = {} /\ loadMore' = NoLoadMore /\ detail' = NoDetail
  /\ UNCHANGED <<table, clock, changes, past, loads>>

EnterAddress == Rendered /\ \E query \in Addresses : Arrive(query)
Reload == Rendered /\ Arrive(address)

ReadExtraPages ==
  /\ view.extra # <<>>
  /\ LET pages == [i \in DOMAIN view.extra |->
           [opportunities |-> QueryOpportunityFeed(Live, Paged(view.filters, view.extra[i])), total |-> view.total]]
     IN  view' = [AppendFeedPages(view, pages) EXCEPT !.extra = <<>>]
  /\ UNCHANGED <<table, clock, changes, past, address, loadMore, orphans, loads, steady, detail>>

-----------------------------------------------------------------------------
(* the dock *)

\* A select shows the value it was given only if it is among its options.
Among(f, name, kind, options) == IF Has(f, name) /\ f[name] \in options THEN Raw(kind, f[name]) ELSE <<>>

\* Under the fold: chips for the values offered, selects, dates, amounts and flags.
DockPanel(f, options, name) ==
  CASE name \in {"procedureType", "implementationPath"} -> Among(f, name, "text", options[name])
    [] name = "publishedWithinDays" -> Among(f, name, "number", RecencyOptions)
    [] name \in Facets ->
         LET ticked == SelectSeq(options.facets[name], LAMBDA v : v \in FieldOr(f, name, {}))
         IN  [i \in DOMAIN ticked |-> [as |-> "text", is |-> ticked[i]]]
    [] OTHER -> BuildDiscoverSearchParams(f)[name]

\* The bar has the search, the country and the order; the rest of the form is the panel.
DockForm ==
  LET f == WithoutPaging(view.filters)
  IN  [name \in DOMAIN NoQuery |->
         CASE name = "jurisdiction" -> Among(f, name, "text", view.options[name])
           [] name \in {"search", "sort"} -> BuildDiscoverSearchParams(f)[name]
           [] OTHER -> DockPanel(f, view.options, name)]

DockOffers ==
  [reset |-> CountActiveDiscoverFilters(view.filters) > 0,
   unfolded |-> CountAdvancedDiscoverFilters(view.filters) > 0]

\* The form goes through the parser of the server; the same filters keep the list as it is.
HandleSubmit(form) ==
  LET f == ReadDiscoverPageState(form).filters
      href == BuildDiscoverPageSearchParams(f, PageSize)
  IN  IF f = view.filters /\ view.items # <<>>
      THEN address' = href /\ UNCHANGED <<table, clock, changes, past, view, loadMore, orphans, loads, steady, detail>>
      ELSE Navigate(href)

SubmitDock ==
  /\ Rendered /\ detail = NoDetail
  /\ \E edit \in DockEdits : HandleSubmit([DockForm EXCEPT ![edit.name] = edit.raw])

ResetFilters == Rendered /\ detail = NoDetail /\ DockOffers.reset /\ Navigate(NoQuery)

\* A search saved earlier is opened from the dashboard.
FollowSaved ==
  /\ Rendered
  /\ \E saved \in SavedQueries :
       Navigate(BuildDiscoverPageSearchParams(CanonicalizeFilters(ParseDiscoverFilters(saved, FALSE).filters), PageSize))

-----------------------------------------------------------------------------
(* the feed: DiscoverFeed and GET /api/opportunities *)

LoadMore ==
  /\ Rendered /\ detail = NoDetail /\ view.items # <<>> /\ loadMore = NoLoadMore /\ HasMoreItems(view)
  /\ loads < MaxLoads /\ loads' = loads + 1
  /\ view' = [view EXCEPT !.failed = FALSE]
  /\ loadMore' = [at |-> "sent", query |-> BuildDiscoverSearchParams(Paged(view.filters, [limit |-> PageSize, offset |-> view.nextOffset]))]
  /\ UNCHANGED <<table, clock, changes, past, address, orphans, steady, detail>>

\* The interface reads strictly: one bad parameter refuses the request.
GetOpportunities(request, db) ==
  LET parsed == ParseDiscoverFilters(request.query, TRUE)
      found == Discover(db, parsed.filters)
  IN  IF parsed.ok THEN [at |-> "answered", page |-> [opportunities |-> found.opportunities, total |-> found.total]]
      ELSE [at |-> "refused"]

\* PUBLIC_LIST_CACHE_CONTROL: for some minutes a cache may answer in place of the interface.  How
\* long it does is left open.
Answerable == {Live} \cup past

ServeLoadMore ==
  /\ loadMore.at = "sent"
  /\ \E db \in Answerable : loadMore' = GetOpportunities(loadMore, db) /\ steady' = (steady /\ SameList(db, Live))
  /\ UNCHANGED <<table, clock, changes, past, address, view, orphans, loads, detail>>

EndLoadMore ==
  /\ loadMore.at # "none" /\ loadMore' = NoLoadMore
  /\ \/ /\ loadMore.at = "answered"
        /\ view' = AppendFeedPage(view, loadMore.page)
        /\ address' = BuildDiscoverPageSearchParams(view.filters, Len(view'.items))
     \/ view' = [view EXCEPT !.failed = TRUE] /\ UNCHANGED address
  /\ UNCHANGED <<table, clock, changes, past, orphans, loads, steady, detail>>

\* The list is gone, its address is written all the same; or the request has failed.
LateAnswer ==
  \E o \in orphans :
    /\ orphans' = orphans \ {o}
    /\ \/ \E db \in Answerable :
            LET answer == IF o.request.at = "sent" THEN GetOpportunities(o.request, db) ELSE o.request
            IN
            /\ answer.at = "answered"
            /\ address' = BuildDiscoverPageSearchParams(o.view.filters, Len(AppendFeedPage(o.view, answer.page).items))
       \/ UNCHANGED address
    /\ UNCHANGED <<table, clock, changes, past, view, loadMore, loads, steady, detail>>

-----------------------------------------------------------------------------
(* a tile, and its detail page *)

Tiles ==
  LET ids == GetOpportunitiesByIds(table, view.items)
  IN  [i \in DOMAIN ids |-> OpportunityStreamItem(GetOpportunityBySlug(table, <<ids[i]>>)[1].item)]

\* A row that is gone is not found, and the list stays.
OpenDetail ==
  /\ Rendered /\ detail = NoDetail
  /\ \E i \in DOMAIN Tiles : detail' = OpportunityDetailSurface(GetOpportunityBySlug(table, <<Tiles[i].id>>))
  /\ Leave /\ loadMore' = NoLoadMore
  /\ UNCHANGED <<table, clock, changes, past, address, view, loads, steady>>

\* The worker, an administrator or the screening changes the table.
TableChanges ==
  /\ changes < MaxChanges /\ changes' = changes + 1
  /\ \E row \in EditedRows : table' = {r \in table : r.id # row.id} \cup {row}
  /\ UNCHANGED <<clock, address, view, loadMore, orphans, loads, detail>>
  /\ past' = past \cup {Live} /\ steady' = (steady /\ SameList(Live, Live'))

\* Time passes: deadlines expire, and what was captured lately is no longer recent.
ClockTicks ==
  /\ changes < MaxChanges /\ changes' = changes + 1 /\ clock' = clock + 1
  /\ UNCHANGED <<table, address, view, loadMore, orphans, loads, detail>>
  /\ past' = past \cup {Live} /\ steady' = (steady /\ SameList(Live, Live'))

-----------------------------------------------------------------------------

DiscoverInit ==
  /\ table = Rows /\ clock = ClockStart /\ changes = 0 /\ past = {} /\ address = NoQuery /\ view = NoView
  /\ loadMore = NoLoadMore /\ orphans = {} /\ loads = 0 /\ steady = TRUE
  /\ detail = NoDetail

DiscoverNext ==
  \/ EnterAddress
  \/ /\ view # NoView
     /\ \/ Reload \/ SubmitDock \/ ResetFilters \/ FollowSaved
        \/ LoadMore \/ OpenDetail
  \/ ReadExtraPages \/ ServeLoadMore \/ EndLoadMore \/ LateAnswer \/ TableChanges \/ ClockTicks

DiscoverSpec == DiscoverInit /\ [][DiscoverNext]_discoverVars

-----------------------------------------------------------------------------

DiscoverTypeOK ==
  /\ \A r \in table : r.id \in Nat /\ r.status \in Statuses
  /\ changes \in 0 .. MaxChanges /\ clock \in ClockStart .. ClockStart + changes /\ loads \in 0 .. MaxLoads
  /\ DOMAIN address = DOMAIN NoQuery
  /\ loadMore.at \in {"none", "sent", "answered", "refused"}

\* The list never shows an opportunity twice.  If its filters select now what they selected at each
\* read since it was opened - no row edited, no time passed and no answer of a cache made a
\* difference to them - it is the beginning of that selection, in their order, however deep it was
\* restored and however often more was loaded, and all of it once no more is offered and no offset
\* was capped; a filter for opportunities that ask for no licensed architect cannot be written to an address and
\* is left aside.
FeedComplete ==
  /\ \A i, j \in DOMAIN view.items : view.items[i] = view.items[j] => i = j
  /\ view # NoView /\ steady /\ Rendered /\ FieldOr(view.filters, "licensedArchitectRequired", TRUE) =>
       LET all == IdsOf(Ordered(Live, view.filters))
       IN  /\ IsPrefix(view.items, all)
           /\ ~HasMoreItems(view) /\ Len(all) <= MaxOffset => Len(view.items) = Len(all)
=============================================================================
