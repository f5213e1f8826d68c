---------------------------- MODULE PreviewRecord ----------------------------
(***************************************************************************)
(* generatePreview for one opportunity: the official image first, then the  *)
(* address candidates of the title, of the pages and of the PDFs, each      *)
(* geocoded by a chain of providers and rendered from map tiles, until one  *)
(* gives a usable image, nothing is left or the record's budget of requests *)
(* and time is spent.                                                       *)
(***************************************************************************)
EXTENDS PreviewDocuments

CONSTANTS
  Opportunities,       \* records [title, cities, label, country, china, urls, brief]
  Traffic,             \* chains of redirects, each hop with what its server answers
  Answers,             \* what the providers may answer
  CachedPlaces,        \* what the cache may hold: <<>> (nothing found) or one place
  ProviderKeys,        \* the Chinese providers a key is configured for
  RecordRequests,      \* budget: requests of one record
  ImageSize, TileSize, MinTiles, TileConcurrency,
  PageBytes, PdfBytes, ImageBytes

IsPage(page) ==
  /\ IsMeta(page.meta) /\ IsText(page.text)
  /\ IsList(page.pdftext) /\ \A i \in DOMAIN page.pdftext : IsText(page.pdftext[i])

ASSUME RecordAssumption ==
  /\ \A o \in Opportunities : IsText(o.title)
  /\ \A hops \in Traffic : IsList(hops) /\ \A i \in DOMAIN hops : IsPage(hops[i].page)
  /\ \A a \in Answers : a.at \in Int \X Int
  /\ \A p \in CachedPlaces : p # <<>> => p[1].at \in Int \X Int
  /\ {ImageSize, TileSize} \subseteq Nat \ {0}
  /\ RecordRequests \in Nat

\* What the network may answer for a URL, <<>> if nothing; what a provider may answer.
HopsOf(u) == {<<>>} \cup {hops \in Traffic : hops # <<>> /\ hops[1].url = u}
GeocoderAnswers(provider) == {a \in Answers : a.from = provider}

NoCandidate == [kind |-> "none"]
NoPlace == [label |-> None, at |-> <<>>, precision |-> "none"]
NoTiles == [planned |-> 0, next |-> 0, busy |-> 0, got |-> 0]
NoImage == [kind |-> "none", of |-> NoPlace]

VARIABLES
  record,    \* where generatePreview is
  spent,     \* requests made
  expired,   \* the record's time is over
  attempts   \* history: candidates tried, with the place found

recordVars == <<record, spent, expired, attempts>>

HasRoom == spent < RecordRequests /\ ~expired
Spend == HasRoom /\ spent' = spent + 1

-----------------------------------------------------------------------------
(* the official image: resolveOpportunityCardImageUrl, fetchOfficialCardImage *)

Urls(o) == SelectSeq(<<o.portal, o.official, o.source, o.brief>>, LAMBDA u : u # NoUrl)

TitleCandidates(o) == ExtractFromText(o.title, "title")
OwnCandidates(o) ==
  TitleCandidates(o) \o LocalityCandidates(o) \o HintCandidates(TitleCandidates(o))
KeysOf(list) == {ComparisonKey(list[i]) : i \in DOMAIN list}

\* The candidates of the title and of the location, merged; all of them count as seen.
BeginTitle(r) ==
  [r EXCEPT !.stage = "title", !.pages = <<>>, !.todo = DedupeCandidates(OwnCandidates(r.of)),
            !.seen = KeysOf(OwnCandidates(r.of))]

Visitable(u) == u \notin record.visited /\ HasRoom

\* Pages are visited depth first: what a simap notice names comes before the next page.
VisitPage ==
  LET u == Head(record.pages)
  IN
  /\ record.stage = "official" /\ record.pages # <<>> /\ Visitable(u) /\ Spend
  /\ \E hops \in HopsOf(u) :
       LET response == SafeFetch(hops, PageBytes)
           image == ImageOnPage(response)
       IN  record' = [record EXCEPT
             !.visited = @ \cup {u},
             !.stage = IF image = NoUrl THEN @ ELSE "download",
             !.pages = IF image = NoUrl THEN FollowedPages(response) \o Tail(@) ELSE <<image>>]
  /\ UNCHANGED <<expired, attempts>>

PassPage ==
  /\ record.stage = "official" /\ record.pages # <<>> /\ ~Visitable(Head(record.pages))
  /\ record' = [record EXCEPT !.pages = Tail(@)]
  /\ UNCHANGED <<spent, expired, attempts>>

NoOfficialImage ==
  /\ \/ record.stage = "official" /\ record.pages = <<>>
     \/ record.stage = "download" /\ ~HasRoom
  /\ record' = BeginTitle(record)
  /\ UNCHANGED <<spent, expired, attempts>>

Download ==
  /\ record.stage = "download" /\ Spend
  /\ \E hops \in HopsOf(Head(record.pages)) :
       record' = IF UsableImage(SafeFetch(hops, ImageBytes))
                 THEN [record EXCEPT !.stage = "done", !.pages = <<>>,
                                     !.image = [NoImage EXCEPT !.kind = "official-image"]]
                 ELSE BeginTitle(record)
  /\ UNCHANGED <<expired, attempts>>

-----------------------------------------------------------------------------
(* tryCandidates and geocodePreciseAddress *)

Trying == record.stage \in {"title", "page", "pdf"}
Rendering == record.tiles.planned > 0
Idle == Trying /\ record.candidate = NoCandidate

\* What the chain of providers will be asked for a candidate, in its order.
ChineseAsks(queries) ==
  FlattenSeq([i \in DOMAIN queries |->
    SelectSeq(<<<<"baidu", queries[i]>>, <<"amap", queries[i]>>>>, LAMBDA a : a[1] \in ProviderKeys)])
PhotonQueries(o, c) ==
  LET variants == IF c.kind = "locality" THEN LocalityVariants(c.address) ELSE AddressVariants(c.address)
  IN  [i \in DOMAIN variants |->
        Present(<<Wrapped(variants[i]), Wrapped(c.hint), DisplayLocality(o), SanitizeLabel(o.label), o.country>>)]
Asks(o, c) ==
  LET queries == AllQueries(o, c)  last == PhotonQueries(o, c)
  IN  (IF o.china THEN ChineseAsks(queries) ELSE <<>>)
      \o [i \in DOMAIN queries |-> <<"nominatim", queries[i]>>]
      \o [i \in DOMAIN last |-> <<"photon", last[i]>>]

Accepted(provider, answer, c, o) ==
  CASE provider = "nominatim" -> AcceptableNominatim(answer, c.kind)
    [] provider = "photon" -> PhotonMatches(answer, c, o)
    [] provider = "baidu" -> answer.success /\ AcceptableBaidu(answer, c.kind)
    [] provider = "amap" -> answer.success /\ AcceptableAmap(answer, c)
PrecisionOf(provider, answer, c) ==
  CASE provider = "nominatim" -> NominatimPrecision(answer, c.kind)
    [] provider = "photon" -> DefaultPrecision(c)
    [] OTHER -> ChinesePrecision(c, answer.level)

NextCandidate ==
  /\ Idle /\ record.todo # <<>> /\ HasRoom
  /\ record' = [record EXCEPT !.candidate = Head(record.todo), !.todo = Tail(@),
                              !.asks = Asks(record.of, Head(record.todo))]
  /\ attempts' = Append(attempts, [key |-> ComparisonKey(Head(record.todo)), place |-> NoPlace])
  /\ UNCHANGED <<spent, expired>>

Tried(r) == [r EXCEPT !.candidate = NoCandidate, !.asks = <<>>, !.place = NoPlace, !.tiles = NoTiles]

\* The first place found is the locator until an image says otherwise.
LocatedAt(r, place) ==
  [r EXCEPT !.place = place, !.locator = IF @ = NoPlace THEN place ELSE @]

\* A place of the candidate: it becomes the locator if it is the first, and its tiles are planned.
Found(at, precision) ==
  LET c == record.candidate
      place == [label |-> IF c.hint # None THEN c.hint ELSE c.address, at |-> at, precision |-> precision]
      tiles == PlanTiles(at[1], at[2], PrecisionZoom(c, precision), ImageSize, TileSize)
  IN
  /\ record' = [LocatedAt(record, place) EXCEPT
       !.asks = <<>>, !.tiles = [NoTiles EXCEPT !.planned = Cardinality(tiles)]]
  /\ attempts' = [attempts EXCEPT ![Len(attempts)].place = place]

NotFound ==
  /\ record' = [record EXCEPT !.asks = Tail(@)]
  /\ UNCHANGED attempts

Asking == record.asks # <<>>

\* The cache is keyed by provider and query: an entry may stem from a candidate of another kind.
AskCache(p) ==
  /\ Asking
  /\ IF p = <<>> THEN NotFound
     ELSE Found(p[1].at, IF p[1].precision = "none" THEN DefaultPrecision(record.candidate) ELSE p[1].precision)
  /\ UNCHANGED <<spent, expired>>

AskProvider ==
  LET provider == Head(record.asks)[1]
  IN
  /\ Asking /\ Spend
  /\ \E a \in GeocoderAnswers(provider) :
       IF Accepted(provider, a, record.candidate, record.of)
       THEN Found(a.at, PrecisionOf(provider, a, record.candidate)) ELSE NotFound
  /\ UNCHANGED expired

\* Refused by the budget, timed out, or an answer that is none.
AskFails ==
  /\ Asking /\ (HasRoom => spent' = spent + 1) /\ (~HasRoom => UNCHANGED spent)
  /\ NotFound
  /\ UNCHANGED expired

Unlocated ==
  /\ Trying /\ record.candidate # NoCandidate /\ ~Asking /\ record.place = NoPlace
  /\ record' = Tried(record)
  /\ UNCHANGED <<spent, expired, attempts>>

-----------------------------------------------------------------------------
(* renderSatellitePreview: workers fetch the tiles, absent ones are left out *)

TakeTile ==
  /\ Rendering /\ record.tiles.busy < TileConcurrency /\ record.tiles.next < record.tiles.planned
  /\ IF HasRoom
     THEN spent' = spent + 1 /\ record' = [record EXCEPT !.tiles.next = @ + 1, !.tiles.busy = @ + 1]
     ELSE UNCHANGED spent /\ record' = [record EXCEPT !.tiles.next = @ + 1]
  /\ UNCHANGED <<expired, attempts>>

TileEnds(ok) ==
  /\ record.tiles.busy > 0
  /\ record' = [record EXCEPT !.tiles.busy = @ - 1, !.tiles.got = IF ok THEN @ + 1 ELSE @]
  /\ UNCHANGED <<spent, expired, attempts>>

\* Slip: the first place found stays the locator, whatever is rendered later.
ImagedElsewhere(r) ==
  [Tried(r) EXCEPT !.stage = "done", !.image = [kind |-> "satellite", of |-> r.place]]

\* The image is of this place, and so is the locator.
Imaged(r) ==
  [Tried(r) EXCEPT !.stage = "done", !.locator = r.place, !.image = [kind |-> "satellite", of |-> r.place]]

\* Enough tiles and a picture that is not flat or blank.
EndRender(good) ==
  /\ Rendering /\ record.tiles.next = record.tiles.planned /\ record.tiles.busy = 0
  /\ record' = IF good /\ record.tiles.got >= MinTiles THEN Imaged(record) ELSE Tried(record)
  /\ UNCHANGED <<spent, expired, attempts>>

-----------------------------------------------------------------------------
(* pages, then PDFs *)

\* Slip: a candidate is only compared with those of the title.
UnseenForgetful(r, list) ==
  [r EXCEPT !.todo = @ \o PickFrom(list, {i \in DOMAIN list : ComparisonKey(list[i]) \notin KeysOf(OwnCandidates(r.of))})]

\* The candidates not met before go to the list, and are met from now on.
Unseen(r, list) ==
  [r EXCEPT !.todo = @ \o PickFrom(list, {i \in DOMAIN list : ComparisonKey(list[i]) \notin r.seen}),
            !.seen = @ \cup KeysOf(list)]

StageOver == Idle /\ (record.todo = <<>> \/ ~HasRoom)

AfterTitle ==
  /\ StageOver /\ record.stage = "title"
  /\ LET o == record.of
     IN  record' = [record EXCEPT
           !.stage = "pages", !.todo = <<>>,
           !.pages = SelectSeq(Distinct(SelectSeq(<<o.official, o.source, o.portal>>, LAMBDA u : u # NoUrl)),
                               HtmlLike),
           !.pdfs = IF o.brief = NoUrl THEN <<>> ELSE <<[url |-> o.brief, score |-> MaxPdfs]>>]
  /\ UNCHANGED <<spent, expired, attempts>>

\* The meta tags of an error page still count; its text does not.
FetchPage ==
  /\ record.stage = "pages" /\ record.pages # <<>> /\ Spend
  /\ \E hops \in HopsOf(Head(record.pages)) :
       LET document == HtmlDocument(SafeFetch(hops, PageBytes))
           read == [record EXCEPT !.pages = Tail(@)]
       IN  record' = IF document = <<>> THEN read
                     ELSE [read EXCEPT
                       !.structured = @ \o ExtractStructured(document[1].page.meta),
                       !.text = IF document[1].ok THEN @ \o ExtractFromText(document[1].page.text, "page") ELSE @,
                       !.pdfs = @ \o RankedPdfs(PdfUrls(document[1].page))]
  /\ UNCHANGED <<expired, attempts>>

AfterPages ==
  /\ record.stage = "pages" /\ (record.pages = <<>> \/ ~HasRoom)
  /\ LET found == DedupeCandidates(DedupeCandidates(record.structured) \o DedupeCandidates(record.text))
         told == [record EXCEPT !.stage = "page", !.pages = <<>>, !.structured = <<>>, !.text = <<>>]
     IN  record' = Unseen(Unseen(told, found), HintCandidates(found))
  /\ UNCHANGED <<spent, expired, attempts>>

AfterPage ==
  /\ StageOver /\ record.stage = "page"
  /\ record' = [record EXCEPT !.stage = "pdfs", !.todo = <<>>, !.pages = PdfCandidates(record.pdfs), !.pdfs = <<>>]
  /\ UNCHANGED <<spent, expired, attempts>>

FetchPdf ==
  /\ record.stage = "pdfs" /\ record.pages # <<>> /\ Spend
  /\ \E hops \in HopsOf(Head(record.pages)) :
       LET text == PdfText(SafeFetch(hops, PdfBytes))
       IN  record' = [record EXCEPT !.pages = Tail(@),
                        !.text = IF text = <<>> THEN @ ELSE @ \o ExtractFromText(text[1], "page")]
  /\ UNCHANGED <<expired, attempts>>

AfterPdfs ==
  /\ record.stage = "pdfs" /\ (record.pages = <<>> \/ ~HasRoom)
  /\ record' = Unseen([record EXCEPT !.stage = "pdf", !.pages = <<>>, !.text = <<>>],
                      DedupeCandidates(record.text))
  /\ UNCHANGED <<spent, expired, attempts>>

AfterPdf ==
  /\ StageOver /\ record.stage = "pdf"
  /\ record' = [record EXCEPT !.stage = "done", !.todo = <<>>]
  /\ UNCHANGED <<spent, expired, attempts>>

TimeRunsOut ==
  /\ ~expired /\ record.stage # "done" /\ expired' = TRUE
  /\ UNCHANGED <<record, spent, attempts>>

-----------------------------------------------------------------------------

Untouched(o) ==
  [of |-> o, stage |-> "official", pages |-> Distinct(Urls(o)), visited |-> {}, todo |-> <<>>,
   candidate |-> NoCandidate, asks |-> <<>>, place |-> NoPlace, tiles |-> NoTiles, seen |-> {},
   structured |-> <<>>, text |-> <<>>, pdfs |-> <<>>, locator |-> NoPlace, image |-> NoImage]

RecordInit ==
  /\ \E o \in Opportunities :
       record = IF OfficialSource({Urls(o)[i] : i \in DOMAIN Urls(o)}) THEN Untouched(o) ELSE BeginTitle(Untouched(o))
  /\ spent = 0 /\ expired = FALSE /\ attempts = <<>>

RecordNext ==
  \/ VisitPage \/ PassPage \/ NoOfficialImage \/ Download
  \/ NextCandidate \/ AskProvider \/ AskFails \/ Unlocated
  \/ \E p \in CachedPlaces : AskCache(p)
  \/ TakeTile
  \/ \E b \in BOOLEAN : TileEnds(b) \/ EndRender(b)
  \/ AfterTitle \/ FetchPage \/ AfterPages \/ AfterPage \/ FetchPdf \/ AfterPdfs \/ AfterPdf
  \/ TimeRunsOut

RecordSpec == RecordInit /\ [][RecordNext]_recordVars

-----------------------------------------------------------------------------

RecordTypeOK ==
  /\ record.of \in Opportunities
  /\ record.stage \in {"official", "download", "title", "pages", "page", "pdfs", "pdf", "done"}
  /\ record.image.kind \in {"none", "official-image", "satellite"}
  /\ record.tiles.got + record.tiles.busy <= record.tiles.next
  /\ record.tiles.next <= record.tiles.planned
  /\ spent \in 0 .. RecordRequests /\ expired \in BOOLEAN

\* The first place found, if any candidate was located.
FirstPlace ==
  LET first == FirstSuch(attempts, LAMBDA a : a.place # NoPlace)
  IN  IF first = 0 THEN NoPlace ELSE attempts[first].place
\* The locator stored with a preview is the place its image shows; without an image it is the
\* first place found, and there is none only when no candidate was located at all.
LocatorExplained ==
  record.locator = IF record.image.kind = "satellite" THEN record.image.of ELSE FirstPlace

\* No candidate is geocoded twice for one record, wherever else it turns up: in the title, as the
\* hint of another, on two pages or in a PDF.
NothingTwice ==
  \A i, j \in DOMAIN attempts : attempts[i].key = attempts[j].key => i = j
=============================================================================
