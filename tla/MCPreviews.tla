----------------------------- MODULE MCPreviews -----------------------------
(***************************************************************************)
(* The three parts of the preview generator for TLC, the shared directory,  *)
(* the client of a geocoding provider, and the way of one record through    *)
(* its stages, and the worker's client of public sites.  They share no      *)
(* state, so the instance is their sum and not their product: a behaviour   *)
(* moves one of them and the others stay as they start.                      *)
(***************************************************************************)
EXTENDS PreviewStore, GeocodeClient, PreviewRecord, SiteClient

VARIABLE focus  \* the part that moves

previewVars == <<storeVars, clientVars, recordVars, siteVars, focus>>

MCWrapped(t) == IF t # <<>> /\ t[1] = "Gemeinde" THEN Tail(t) ELSE t
MCVariants(t) == IF Len(t) = 3 /\ t[2] = "am" THEN <<<<t[3]>>>> ELSE <<>>
MCStripped(t) == IF t # <<>> /\ t[1] = "Via" THEN Tail(t) ELSE t
MCHouseNumber(t) == IF t # <<>> /\ t[Len(t)] \in {"5"} THEN <<t[Len(t)]>> ELSE <<>>

\* A title, a page and a plan with the texts the address patterns match in them.
Words(t) == Capture(t, {})
Quiet == [contact |-> 0, chrome |-> 0, project |-> 0, plan |-> 0, email |-> FALSE, phone |-> FALSE]
Around == [own |-> FALSE, near |-> Quiet, wide |-> Quiet,
           before |-> [contact |-> -1, project |-> -1], after |-> [contact |-> -1, project |-> -1]]
ContactBlock == [Around EXCEPT !.near.contact = 3, !.wide.contact = 3]
Match(kind, text, hint, around) ==
  [kind |-> kind, raw |-> Words(text), around |-> around,
   tail |-> IF hint = <<>> THEN <<>> ELSE <<Words(hint)>>, inline |-> <<>>,
   context |-> [explicit |-> NoCapture, others |-> <<>>]]
Blank == [matches |-> <<>>, chinese |-> <<>>, global |-> <<>>, leads |-> <<>>, titled |-> <<>>, dash |-> <<>>]
Text(matches) == [Blank EXCEPT !.matches = matches]

Host(portal) == [name |-> "host", marks |-> {}, address |-> <<>>, portal |-> portal]
Url(order, portal, marks) ==
  [scheme |-> "https", credentials |-> FALSE, port |-> "", host |-> Host(portal), order |-> order, marks |-> marks]
Portal == Url(1, "simap", {})
Official == Url(2, "authority", {})
Plan == Url(3, "other", {"pdf", "document or image file", "strong"})
Photo == Url(4, "authority", {"teaser"})
Inside == [Url(5, "other", {}) EXCEPT !.host.name = "localhost"]
NoMeta == [streets |-> <<>>, locality |-> NoCapture, segments |-> <<>>, named |-> FALSE,
           placename |-> Blank, placestreet |-> NoCapture, jsonld |-> <<>>]
EmptyPage == [images |-> <<>>, jsonld |-> <<>>, json |-> [tag |-> "none"], tags |-> <<>>, texts |-> <<>>,
              meta |-> NoMeta, text |-> Blank, pdftext |-> <<>>]
Hop(url, status, type, page) ==
  [url |-> url, redirect |-> FALSE, answered |-> TRUE, resolved |-> {<<93, 184, 1, 1>>}, status |-> status,
   type |-> type, size |-> 1, page |-> page, readable |-> TRUE]
\* The notice as JSON names the page of the authority; that page shows the photo and an address.
Notice == [EmptyPage EXCEPT !.json = [tag |-> "object", order |-> <<"documentsSourceUrl">>,
             descriptor |-> {}, width |-> -1, height |-> -1,
             fields |-> [documentsSourceUrl |-> [tag |-> "text", url |-> Official, bare |-> <<>>, hits |-> 0]]]]
HomePage == [EmptyPage EXCEPT
  !.images = <<[source |-> "img", relevant |-> TRUE, srcset |-> <<>>, attributes |-> <<Photo>>, descriptor |-> {},
                hits |-> 0, width |-> 400, height |-> -1]>>,
  !.tags = <<[url |-> Plan]>>,
  !.meta.streets = <<Capture(<<"See", "5">>, {"number"})>>, !.meta.locality = Words(<<"Zug">>),
  !.text = Text(<<Match("site", <<"Areal">>, <<"Zug">>, Around),
                  Match("street", <<"Amt">>, <<>>, ContactBlock)>>)]
PlanText == [EmptyPage EXCEPT !.pdftext =
  <<Text(<<Match("site", <<"Areal">>, <<"Zug">>, Around), Match("street", <<"Via", "Nord">>, <<>>, Around)>>)>>]
MCTraffic ==
  {<<Hop(Portal, 200, "json", Notice)>>,
   <<Hop(Official, 200, "html", HomePage)>>, <<Hop(Official, 403, "html", HomePage)>>,
   <<Hop(Photo, 200, "image", EmptyPage)>>,
   <<[Hop(Photo, 302, "", EmptyPage) EXCEPT !.redirect = TRUE], Hop(Inside, 200, "image", EmptyPage)>>,
   <<Hop(Plan, 200, "pdf", PlanText)>>}
MCJsonValues == {Notice.json, Notice.json.fields.documentsSourceUrl}

Zug == [title |-> Text(<<Match("street_address", <<"See", "5">>, <<"Zug">>, Around)>>),
        cities |-> [tail |-> Words(<<"Zug">>)], label |-> Words(<<"Zug">>), country |-> <<"CH">>, china |-> FALSE,
        portal |-> Portal, official |-> Official, source |-> NoUrl, brief |-> Plan]
Wuhan == [title |-> [Blank EXCEPT !.chinese = <<[family |-> "field", kind |-> "site", raw |-> Words(<<"park">>),
            whole |-> <<"park">>, lead |-> NoCapture, context |-> [explicit |-> NoCapture, others |-> <<>>]]>>],
          cities |-> <<>>, label |-> NoCapture, country |-> <<"CN">>, china |-> TRUE,
          portal |-> NoUrl, official |-> NoUrl, source |-> NoUrl, brief |-> NoUrl]
MCOpportunities == {Zug, Wuhan}
Middle == <<3, 3>>
MCAnswers ==
  {[from |-> "nominatim", addresstype |-> "road", type |-> "road", category |-> "highway", house |-> FALSE, km |-> 1, at |-> Middle],
   [from |-> "nominatim", addresstype |-> "city", type |-> "city", category |-> "place", house |-> FALSE, km |-> 9, at |-> Middle],
   [from |-> "photon", country |-> <<"CH">>, street |-> <<"See">>, number |-> <<>>, name |-> <<"See">>, locality |-> <<"Zug">>, at |-> <<3, 0>>],
   [from |-> "baidu", success |-> FALSE, precise |-> FALSE, confidence |-> 0, level |-> "", at |-> Middle],
   [from |-> "baidu", success |-> TRUE, precise |-> FALSE, confidence |-> 40, level |-> "poi", at |-> Middle],
   [from |-> "amap", success |-> TRUE, level |-> "province", at |-> Middle]}
MCCached == {<<>>, <<[at |-> Middle, precision |-> "none"]>>}

\* One host with a published policy and one without.
MCIntervalOf == [h \in Sites |-> IF h = CHOOSE x \in Sites : TRUE THEN 1 ELSE 0]

-----------------------------------------------------------------------------

\* The cache file starts with one expired "not found"; the record that does not move is the one
\* in Wuhan.
PreviewsInit ==
  /\ focus \in {"store", "client", "record", "sites"}
  /\ StoreInit
  /\ ClientInit
  /\ \A k \in Keys : (saved[k] # NotCached) <=> (k = CHOOSE x \in Keys : TRUE)
  /\ RecordInit
  /\ focus # "record" => record.of = Wuhan
  /\ SiteInit

PreviewsNext ==
  \/ focus = "store" /\ StoreNext /\ UNCHANGED <<clientVars, recordVars, siteVars, focus>>
  \/ focus = "client" /\ ClientNext /\ UNCHANGED <<storeVars, recordVars, siteVars, focus>>
  \/ focus = "record" /\ RecordNext /\ UNCHANGED <<storeVars, clientVars, siteVars, focus>>
  \/ focus = "sites" /\ SiteNext /\ UNCHANGED <<storeVars, clientVars, recordVars, focus>>

PreviewsSpec == PreviewsInit /\ [][PreviewsNext]_previewVars

\* Records of the shared directory are interchangeable, and all properties are safety.
SlugSymmetry == Permutations(Slugs)

\* Every variable of the parts keeps its type.
PreviewTypeOK == StoreTypeOK /\ ClientTypeOK /\ RecordTypeOK /\ SiteTypeOK
=============================================================================
