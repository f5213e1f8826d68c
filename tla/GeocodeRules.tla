---------------------------- MODULE GeocodeRules ----------------------------
(***************************************************************************)
(* Where an opportunity is: its display locality, the queries asked of the  *)
(* geocoders for one candidate, which answers are accepted, how precise     *)
(* they are taken to be and how closely the map is zoomed.                  *)
(***************************************************************************)
EXTENDS AddressCandidates

CONSTANTS
  Wrapped(_),     \* a locality without its "comune di ..." wrapper
  Variants(_),    \* the captures of the geocoder's address patterns, in order
  Stripped(_),    \* an address without its street prefix
  HouseNumber(_), \* the house number of an address, or <<>>
  NoiseWords,     \* street-type words and numbers
  HanWords        \* words in Chinese script

-----------------------------------------------------------------------------
(* location.ts *)

UselessMarks == {"lower case", "this locality", "district", "noise", "url", "address", "institution",
                 "province", "authority"}

\* A label as it is after normalisation; five words at most.
UsefulLabel(raw) ==
  /\ raw.text # None /\ Len(raw.text) <= 5
  /\ raw.marks \cap UselessMarks = {}
  /\ "number" \in raw.marks => "postcode" \in raw.marks

SanitizeLabel(raw) == IF UsefulLabel(raw) THEN raw.text ELSE None

\* The patterns over the authority's name and the title, in their order; two have a condition.
CityPatterns == <<"chinese title lead", "authority", "province", "authority prefix", "authority suffix",
                  "town suffix", "before address", "before description", "tail", "dash",
                  "preposition", "municipality">>
ExplicitCity(opportunity) ==
  LET capture(p) == opportunity.cities[p]
      accepted(p) ==
        /\ p \in DOMAIN opportunity.cities /\ UsefulLabel(capture(p))
        /\ p = "chinese title lead" => "town" \in capture(p).marks /\ "project scale" \notin capture(p).marks
        /\ p \in {"before address", "dash"} => "address follows" \in capture(p).marks
      i == FirstSuch(CityPatterns, accepted)
  IN  IF i = 0 THEN None ELSE capture(CityPatterns[i]).text

Compatible(left, right) == WordsOf(left) \subseteq WordsOf(right) \/ WordsOf(right) \subseteq WordsOf(left)

\* The town of the title or the authority wins over the label, unless they agree and the label says more.
DisplayLocality(opportunity) ==
  LET city == ExplicitCity(opportunity)  label == SanitizeLabel(opportunity.label)
  IN  IF city = None \/ (label # None /\ Compatible(city, label) /\ Len(label) >= Len(city))
      THEN label ELSE city

-----------------------------------------------------------------------------
(* geocode/queries.ts and geocode/normalize.ts *)

Distinct(list) == DistinctBy(list, LAMBDA x : x)
Present(list) == SelectSeq(list, LAMBDA x : x # None)

LocalityCandidate(raw, source) ==
  LET label == SanitizeLabel(raw)
  IN  IF label = None \/ raw.marks \cap {"several", "broad"} # {} THEN <<>>
      ELSE <<Candidate("locality", label, None, source)>>

\* A hint that only repeats the address adds nothing.
HintCandidates(candidates) ==
  DedupeCandidates(FlattenSeq([i \in DOMAIN candidates |->
    LET c == candidates[i]
    IN  IF c.hint = c.address THEN <<>> ELSE LocalityCandidate(Capture(c.hint, {}), c.source)]))

LocalityCandidates(opportunity) ==
  DedupeCandidates(
    LocalityCandidate(Capture(DisplayLocality(opportunity), {}), "title")
    \o (IF "normalised" \in opportunity.label.marks THEN LocalityCandidate(opportunity.label, "page") ELSE <<>>)
    \o LocalityCandidate(Capture(ExplicitCity(opportunity), {}), "title"))

LocalityVariants(text) == Distinct(Present(<<Wrapped(text), text>>))
AddressVariants(text) == Distinct(Present(<<text>> \o Variants(text)))

\* One query per variant of the address and of the hint, its parts and the queries without repeats.
GeocodeQueries(opportunity, c, parts) ==
  LET hints == IF c.hint = None THEN <<None>> ELSE LocalityVariants(c.hint)
      addresses == AddressVariants(c.address)
      query(a, h) == Distinct(Present(
        <<a, Wrapped(h)>>
        \o (IF "city" \in parts THEN <<DisplayLocality(opportunity)>> ELSE <<>>)
        \o (IF "label" \in parts THEN <<SanitizeLabel(opportunity.label)>> ELSE <<>>)
        \o (IF "country" \in parts THEN <<opportunity.country>> ELSE <<>>)))
  IN  Distinct(FlattenSeq([i \in DOMAIN addresses |->
                [j \in DOMAIN hints |-> query(addresses[i], hints[j])]]))

\* For streets, again without the street prefix and with fewer and fewer qualifiers; a hint that
\* disagrees with the town is left out of the stripped address.
FallbackQueries(opportunity, c) ==
  LET stripped == Stripped(c.address)  city == DisplayLocality(opportunity)
      fallback == IF stripped = c.address THEN c
                  ELSE Candidate("street", stripped,
                         IF city # None /\ c.hint # None /\ city # Wrapped(c.hint) THEN None ELSE c.hint,
                         c.source)
      ask(parts) == GeocodeQueries(opportunity, fallback, parts)
  IN  ask({"city", "label", "country"}) \o ask({"city", "label"}) \o ask({"city"}) \o ask({})

AllQueries(opportunity, c) ==
  GeocodeQueries(opportunity, c, {"city", "label", "country"})
  \o (IF c.kind \in {"street_address", "street"} THEN FallbackQueries(opportunity, c) ELSE <<>>)

-----------------------------------------------------------------------------
(* geocode/accept.ts: answers of Nominatim, Baidu and Amap *)

TownTypes == {"city", "town", "municipality"}
RejectedTypes == TownTypes \cup {"county", "country", "postcode", "province", "region", "state"}
\* The types of data/geocode-acceptance.json that the runs use.
ExactTypes == {"building", "house", "road", "square", "village", "suburb", "locality"}
BroadTypes == {"road", "square", "village", "suburb", "locality", "city", "town", "municipality", "place"}
Categories == {"building", "highway", "landuse", "place"}
CategoriesFor(kind) ==
  Categories \cup (CASE kind = "locality" -> {"boundary", "place"}
                     [] kind = "site" -> {"amenity", "building", "landuse"}
                     [] OTHER -> {})

\* Kilometres across the bounding box; -1 when it is not known.
BoxLimit(kind, types) ==
  CASE kind = "locality" -> IF types \cap {"city", "town"} # {} THEN 14
                            ELSE IF "municipality" \in types THEN 10 ELSE 18
    [] kind = "site" -> 8
    [] kind = "street_address" -> 4
    [] kind = "street" -> 18

AcceptableNominatim(r, kind) ==
  LET types == {r.addresstype, r.type}
  IN  /\ kind # "locality" => types \cap RejectedTypes = {}
      /\ r.category \in CategoriesFor(kind) \cup {""}
      /\ \/ kind = "locality" \/ r.addresstype \in ExactTypes \cup {""}
         \/ r.addresstype = "place" /\ r.house
         \/ kind = "street" /\ types \cap BroadTypes # {}
      /\ r.km <= BoxLimit(kind, types)

NominatimPrecision(r, kind) ==
  LET type == IF r.addresstype # "" THEN r.addresstype ELSE r.type
  IN  IF kind = "locality" THEN "locality"
      ELSE IF type = "square" THEN "square"
      ELSE IF kind = "site" THEN "site"
      ELSE IF type \in TownTypes THEN "city"
      ELSE IF kind = "street_address" THEN "address" ELSE "street"

DefaultPrecision(c) ==
  IF c.kind \in {"locality", "site"} THEN c.kind
  ELSE IF c.kind = "street_address" \/ HouseNumber(c.address) # None THEN "address"
  ELSE "street"

\* The level words of the Chinese providers, by what they stand for.
ChinesePrecision(c, level) ==
  LET coarse == [road |-> "street", poi |-> "site", city |-> "city"]
  IN  CASE level = "number" -> "address"
        [] level \in DOMAIN coarse -> IF c.kind = "locality" THEN "locality" ELSE coarse[level]
        [] OTHER -> DefaultPrecision(c)

AcceptableBaidu(r, kind) ==
  CASE kind = "locality" -> TRUE
    [] kind = "street_address" -> r.precise \/ r.confidence >= 45
    [] kind = "site" -> r.level = "poi" \/ r.confidence >= 30
    [] kind = "street" -> r.level = "road" \/ r.confidence >= 30

AcceptableAmap(r, c) ==
  CASE c.kind = "locality" -> TRUE
    [] c.kind = "street_address" -> r.level \in {"number", "road"} \/ HouseNumber(c.address) # None
    [] c.kind = "street" -> r.level \notin {"province", "city"}
    [] c.kind = "site" -> r.level # "province"

-----------------------------------------------------------------------------
(* geocode/photon-match.ts *)

\* Photon searches freely: the feature has to name the country, the street and the locality.
PhotonMatches(f, c, opportunity) ==
  LET chinese == WordsOf(c.address \o c.hint) \cap HanWords # {}
      number == HouseNumber(c.address)
      loose(a, b) == chinese /\ a # None /\ b # None /\ (Includes(a, b) \/ Includes(b, a))
      hint == IF c.hint # None THEN Wrapped(c.hint) ELSE DisplayLocality(opportunity)
      here == opportunity.country = None \/ WordsOf(opportunity.country) \cap WordsOf(f.country) # {}
      named == LocalityMatch(c.address, f.name) \/ loose(c.address, f.name)
  IN  IF c.kind = "locality"
      THEN here /\ (named \/ hint = None \/ LocalityMatch(hint, f.locality))
      ELSE /\ ~(number # None /\ f.number # None /\ number # f.number)
           /\ here
           /\ \/ StreetMatch(c.address, f.street, NoiseWords)
              \/ chinese /\ (StreetMatch(c.address, f.name, NoiseWords) \/ named)
           /\ hint = None \/ LocalityMatch(hint, f.locality) \/ loose(hint, f.locality)

-----------------------------------------------------------------------------
(* render/projection.ts, render/tiles.ts *)

PrecisionZoom(c, precision) ==
  CASE precision = "city" -> 13
    [] precision \in {"locality", "square", "site", "street"} -> 16
    [] OTHER -> IF HouseNumber(c.address) # None THEN 18 ELSE 17

\* World pixels of the centre; the tiles that cover the image around it, none beyond the poles.
PlanTiles(x, y, zoom, size, tile) ==
  LET span(at) == (at - size \div 2) \div tile .. (at + size \div 2) \div tile
      perAxis == 2 ^ zoom
  IN  {<<tx % perAxis, ty>> : tx \in span(x), ty \in {t \in span(y) : 0 <= t /\ t < perAxis}}
=============================================================================
