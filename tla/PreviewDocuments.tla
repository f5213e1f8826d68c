-------------------------- MODULE PreviewDocuments --------------------------
(***************************************************************************)
(* What the generator takes from third-party documents: which URLs it may   *)
(* fetch, which images of a page it prefers, which pages and PDFs it follows.*)
(* A URL is a record [scheme, credentials, port, host, order, marks]: order  *)
(* is its place in the order of the strings, marks the names of the patterns *)
(* that match it.  A host is a domain name or the literal of an address.     *)
(***************************************************************************)
EXTENDS GeocodeRules

CONSTANTS
  MaxRedirects, MaxPdfs, MaxRelated,
  JsonValues    \* the JSON values of the documents, with every value inside them

NoUrl == [order |-> 0]
SumOver(S, weight) == MapThenSumSet(LAMBDA x : weight[x], S \cap DOMAIN weight)
Score(marks, weights) == SumOver(marks, weights)

-----------------------------------------------------------------------------
(* net/ssrf.ts: which addresses and URLs are public *)

PrivateIpv4(o) ==
  \/ o[1] \in {0, 10, 127} \/ o[1] >= 224
  \/ o[1] = 100 /\ o[2] \in 64..127
  \/ o[1] = 172 /\ o[2] \in 16..31
  \/ o[1] = 198 /\ o[2] \in {18, 19}
  \/ <<o[1], o[2]>> \in {<<169, 254>>, <<192, 168>>}
  \/ <<o[1], o[2], o[3]>> \in {<<192, 0, 0>>, <<192, 0, 2>>, <<198, 51, 100>>, <<203, 0, 113>>}

EmbeddedIpv4(high, low) == <<high \div 256, high % 256, low \div 256, low % 256>>

\* Four octets or eight groups of 16 bits; anything else is refused.
PrivateAddress(a) ==
  CASE Len(a) = 4 -> PrivateIpv4(a)
    [] Len(a) \notin {4, 8} -> TRUE
    [] OTHER ->
      \/ SubSeq(a, 1, 7) = [i \in 1..7 |-> 0] /\ a[8] \in {0, 1}
      \/ IF \/ SubSeq(a, 1, 5) = [i \in 1..5 |-> 0] /\ a[6] \in {0, 65535}
            \/ a[1] = 100 /\ a[2] = 65435
         THEN PrivateIpv4(EmbeddedIpv4(a[7], a[8]))
         ELSE \/ a[1] = 8194 /\ PrivateIpv4(EmbeddedIpv4(a[2], a[3]))
              \/ a[1] # 8194 /\ \/ a[1] \div 512 = 126
                                \/ a[1] \div 64 = 1018
                                \/ a[1] \div 256 = 255
                                \/ a[1] = 8193 /\ a[2] = 3512

PublicUrl(u) ==
  /\ u.scheme \in {"http", "https"}
  /\ ~u.credentials
  /\ u.port \in {"", "80", "443", "8080", "8443"}
  /\ IF u.host.address # None THEN ~PrivateAddress(u.host.address)
     ELSE u.host.name \notin {"", "localhost"} /\ "single label" \notin u.host.marks
          /\ "reserved suffix" \notin u.host.marks

-----------------------------------------------------------------------------
(* net/safe-fetch.ts and documents/fetch.ts *)

NoResponse == [status |-> 0]

\* hops: what the servers answer, one after the other.  The addresses a host name resolves to are
\* vetted when the connection is made; a body above the cap is abandoned, never cut.
SafeFetch(hops, maxBytes) ==
  LET last == FirstSuch(hops, LAMBDA h : ~h.redirect)
      bad(h) == ~PublicUrl(h.url) \/ (\E a \in h.resolved : PrivateAddress(a)) \/ ~h.answered
  IN  IF \/ last = 0 \/ last > MaxRedirects + 1
         \/ \E i \in 1..last : bad(hops[i])
         \/ hops[last].size > maxBytes
      THEN NoResponse ELSE hops[last]

Succeeded(response) == response.status \in 200..299
HtmlLike(u) == "document or image file" \notin u.marks
PdfLike(u) == "pdf" \in u.marks

HtmlDocument(response) ==
  IF response # NoResponse /\ response.type = "html"
  THEN <<[url |-> response.url, page |-> response.page, ok |-> Succeeded(response)]>> ELSE <<>>

\* pdftotext reads the first pages; an empty or unreadable text is null.
PdfText(response) ==
  IF Succeeded(response) /\ response.size > 0 /\ (response.type = "pdf" \/ PdfLike(response.url))
  THEN response.page.pdftext ELSE <<>>

-----------------------------------------------------------------------------
(* documents/pdf-links.ts and documents/signals.ts *)

\* The distinct URLs of a list of scored links, best score first, then in the order of the strings.
ByScore(scored) ==
  LET urls == {scored[i].url : i \in DOMAIN scored}
      best(u) == Max({scored[i].score : i \in {j \in DOMAIN scored : scored[j].url = u}})
  IN  SortSeq(SetToSeq(urls), LAMBDA u, v : best(u) > best(v) \/ (best(u) = best(v) /\ u.order < v.order))

\* Links of tags, then links found in the text, whose words around them count more than their URL.
PdfTagLinks(links) ==
  LET kept == SelectSeq(links, LAMBDA l : PdfLike(l.url) /\ "rejected" \notin l.url.marks)
  IN  [i \in DOMAIN kept |-> [url |-> kept[i].url,
                              score |-> Score(kept[i].url.marks, [strong |-> 3, preferred |-> 1])]]

PdfTextLinks(links) ==
  LET kept == SelectSeq(links, LAMBDA l : (PdfLike(l.url) \/ "pdf" \in l.context)
                                          /\ "rejected" \notin l.url.marks \cup l.context)
  IN  [i \in DOMAIN kept |-> [url |-> kept[i].url,
                              score |-> Score(kept[i].context, [strong |-> 4, preferred |-> 2])
                                        + Score(kept[i].url.marks, [strong |-> 2, preferred |-> 1])]]

PdfUrls(page) == ByScore(PdfTagLinks(page.tags) \o PdfTextLinks(page.texts))

\* Every page scores its links by their rank; the PDF of the notice scores as a first link.
RankedPdfs(urls) ==
  [i \in DOMAIN urls |-> [url |-> urls[i], score |-> IF i <= MaxPdfs THEN MaxPdfs - i + 1 ELSE 0]]
PdfCandidates(scored) == FirstOf(MaxPdfs, ByScore(scored))

-----------------------------------------------------------------------------
(* official-image/scoring.ts *)

BaseScores == [img |-> 58, jsonld |-> 84, link |-> 76, meta |-> 92, source |-> 70, style |-> 62]
MinimumCandidateScore == 58

HostBonus(marks, portal) ==
  CASE portal = "documents" -> Score(marks, [thumbs |-> 56, storage |-> -18, logo |-> -32])
    [] portal = "authority" -> Score(marks, [teaser |-> 18, corporate |-> -36])
    [] OTHER -> 0

\* Sizes are -1 when the page gives none.
SizeScore(width, height) ==
  (CASE width >= 1200 -> 12
     [] width \in 800..1199 -> 10
     [] width \in 400..799 -> 6
     [] width \in 0..160 -> -30
     [] width \in 161..240 -> -14
     [] OTHER -> 0)
  + (CASE height >= 400 -> 6 [] height \in 0..160 -> -18 [] OTHER -> 0)

ImageScore(c, portal) ==
  LET marks == c.url.marks \cup c.descriptor
  IN  BaseScores[c.source]
      + Min({24, 8 * c.hits})
      + Score(marks, [svg |-> -20, gif |-> -28, small |-> -18, landscape |-> 8, media |-> 4])
      + HostBonus(c.url.marks, portal)
      + SizeScore(c.width, c.height)

Registered(c, portal) ==
  /\ c.url # NoUrl /\ c.url.scheme \in {"http", "https"}
  /\ "blocked" \notin c.url.marks \cup c.descriptor
  /\ ImageScore(c, portal) >= MinimumCandidateScore

\* The best score of each URL counts; of two equal URLs the one registered first wins.
PickTopImage(candidates, portal) ==
  LET kept == SelectSeq(candidates, LAMBDA c : Registered(c, portal))
      top == Max({ImageScore(kept[i], portal) : i \in DOMAIN kept})
      best(u) == \E j \in DOMAIN kept : kept[j].url = u /\ ImageScore(kept[j], portal) = top
  IN  IF kept = <<>> THEN NoUrl ELSE kept[FirstSuch(kept, LAMBDA c : best(c.url))].url

\* The images of a JSON value, depth first; a value is tagged "text", "list", "object" or "none".
JsonImages(json) ==
  LET keys == <<"contentUrl", "image", "primaryImageOfPage", "thumbnail", "thumbnailUrl", "url">>
      leaf(text, of) == <<[url |-> text.url, descriptor |-> of.descriptor, hits |-> text.hits,
                           source |-> "jsonld", width |-> of.width, height |-> of.height]>>
      images[value \in JsonValues] ==
        LET field(key) == IF key \notin DOMAIN value.fields THEN <<>>
                          ELSE IF value.fields[key].tag = "text" THEN leaf(value.fields[key], value)
                          ELSE images[value.fields[key]]
        IN  CASE value.tag = "none" -> <<>>
              [] value.tag = "text" -> leaf(value, [descriptor |-> {}, width |-> -1, height |-> -1])
              [] value.tag = "list" -> FlattenSeq([i \in DOMAIN value.items |-> images[value.items[i]]])
              [] value.tag = "object" -> FlattenSeq([i \in DOMAIN keys |-> field(keys[i])])
  IN  images[json]

\* srcset: the widest entry; else the first of the lazy-loading attributes that is present.
SrcsetUrl(entries) ==
  IF entries = <<>> THEN <<>>
  ELSE LET widest == Max({entries[i].width : i \in DOMAIN entries})
       IN  <<entries[FirstSuch(entries, LAMBDA e : e.width = widest)]>>

\* A tag is an image candidate of its own, its URL and width those of its srcset when it has one.
TagImage(tag) ==
  LET widest == SrcsetUrl(tag.srcset)
      lazy == FirstSuch(tag.attributes, LAMBDA u : u # NoUrl)
      url == IF widest # <<>> THEN widest[1].url
             ELSE IF tag.source = "source" \/ lazy = 0 THEN NoUrl ELSE tag.attributes[lazy]
      width == IF widest # <<>> /\ widest[1].width > 0 THEN widest[1].width ELSE tag.width
  IN  [url |-> url, descriptor |-> tag.descriptor, hits |-> tag.hits, source |-> tag.source,
       width |-> IF tag.source \in {"img", "source"} THEN width ELSE -1, height |-> tag.height]

\* Meta tags count by their name, links by their relation; then sources, images, styles and JSON-LD.
HtmlImages(page) ==
  LET of(sort) == SelectSeq(page.images, LAMBDA t : t.source = sort /\ t.relevant)
      tags == FlattenSeq([i \in 1..5 |-> of(<<"meta", "link", "source", "img", "style">>[i])])
  IN  [i \in DOMAIN tags |-> TagImage(tags[i])]
      \o FlattenSeq([i \in DOMAIN page.jsonld |-> JsonImages(page.jsonld[i])])

-----------------------------------------------------------------------------
(* official-image/related-pages.ts and official-image/resolve.ts *)

\* Every URL below a key that names a portal: whole strings, or the bare URLs inside a note.
LeafUrls(json, bare) ==
  LET urls[value \in JsonValues] ==
        CASE value.tag = "text" -> IF bare THEN value.bare ELSE <<value.url>>
          [] value.tag = "list" -> FlattenSeq([i \in DOMAIN value.items |-> urls[value.items[i]]])
          [] value.tag = "object" ->
               FlattenSeq([i \in DOMAIN value.order |-> urls[value.fields[value.order[i]]]])
          [] OTHER -> <<>>
  IN  urls[json]

RelatedUrls(json) ==
  LET urls[value \in JsonValues] ==
        LET field(key) ==
              CASE key \in {"documentsSourceUrl", "offerDigitalExternalPlatformUrl"} -> LeafUrls(value.fields[key], FALSE)
                [] key = "documentsSourceNote" -> LeafUrls(value.fields[key], TRUE)
                [] OTHER -> urls[value.fields[key]]
        IN  CASE value.tag = "list" -> FlattenSeq([i \in DOMAIN value.items |-> urls[value.items[i]]])
              [] value.tag = "object" -> FlattenSeq([i \in DOMAIN value.order |-> field(value.order[i])])
              [] OTHER -> <<>>
  IN  urls[json]

\* The page itself is never among its related pages.
RelatedPages(value, self) == SelectSeq(Distinct(RelatedUrls(value)), LAMBDA u : u \notin {NoUrl, self})

OfficialSource(urls) == \E u \in urls : u # NoUrl /\ u.host.portal = "authority"

\* What one visited page gives: an image, and for a simap notice without one the pages to visit instead.
ImageOnPage(response) ==
  CASE ~Succeeded(response) -> NoUrl
    [] Succeeded(response) /\ response.type = "json" -> PickTopImage(JsonImages(response.page.json), response.url.host.portal)
    [] Succeeded(response) /\ response.type = "html" ->
         PickTopImage(HtmlImages(response.page), response.url.host.portal)
    [] OTHER -> NoUrl
FollowedPages(response) ==
  IF /\ Succeeded(response) /\ response.type = "json" /\ ImageOnPage(response) = NoUrl
     /\ response.url.host.portal = "simap"
  THEN FirstOf(MaxRelated, RelatedPages(response.page.json, response.url)) ELSE <<>>

UsableImage(response) == Succeeded(response) /\ response.type = "image" /\ response.readable
=============================================================================
