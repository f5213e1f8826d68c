------------------------- MODULE AddressCandidates -------------------------
(***************************************************************************)
(* Address candidates of a title, a page or a PDF: how the captures of the  *)
(* patterns are cleaned, refused, given a locality hint and de-duplicated.  *)
(* A text is a tuple of words, <<>> being null and the empty string.  What  *)
(* the regular expressions do is data: a capture carries the words left by  *)
(* the replacements and the names of the rejecting patterns that match them. *)
(***************************************************************************)
EXTENDS Integers, Sequences, FiniteSets, SequencesExt

CONSTANTS MaxAddress, MaxHint, MaxSite, MaxRoad   \* longest accepted texts

None == <<>>
CandidateKinds == {"street_address", "street", "locality", "site"}
Capture(text, marks) == [text |-> text, marks |-> marks]
NoCapture == Capture(None, {})
IsList(list) == list \in Seq({list[i] : i \in DOMAIN list})
\* What is left when op has taken the entries of the list, one after the other.
Folded(op(_, _), base, list) ==
  LET after[n \in 0 .. Len(list)] == IF n = 0 THEN base ELSE op(after[n - 1], list[n])
  IN  after[Len(list)]
\* The entries at some places, in their order.
PickFrom(list, places) ==
  Folded(LAMBDA kept, i : IF i \in places THEN Append(kept, list[i]) ELSE kept,
         <<>>, [i \in 1 .. Len(list) |-> i])
\* Cap a list at its first n entries.
FirstOf(n, list) == SubSeq(list, 1, IF n < Len(list) THEN n ELSE Len(list))
FirstSuch(list, Test(_)) ==
  LET good == {i \in DOMAIN list : Test(list[i])}
  IN  IF good = {} THEN 0 ELSE CHOOSE i \in good : \A j \in good : i <= j

-----------------------------------------------------------------------------
(* address/compare.ts and the hint preference of address/clean.ts *)

WordsOf(text) == {text[i] : i \in DOMAIN text}
Includes(text, part) ==
  \E i \in 0 .. Len(text) - Len(part) : SubSeq(text, i + 1, i + Len(part)) = part

MoreSpecificHint(left, right) ==
  IF left = None THEN right
  ELSE IF right = None \/ left = right THEN left
  ELSE IF Includes(right, left) THEN right
  ELSE IF Includes(left, right) \/ Len(left) >= Len(right) THEN left ELSE right

\* Words without the house number and the street-type words.
CoreWords(text, noise) == WordsOf(text) \ noise
StreetMatch(left, right, noise) ==
  LET l == CoreWords(left, noise)  r == CoreWords(right, noise)
  IN  l # {} /\ r # {} /\ (l \subseteq r \/ r \subseteq l)
LocalityMatch(left, right) ==
  left # None /\ right # None /\ WordsOf(left) \subseteq WordsOf(right)

ComparisonKey(c) == <<c.kind, c.address, c.hint>>
SameAddress(c, d) == c.kind = d.kind /\ c.address = d.address

DistinctBy(list, Key(_)) ==
  PickFrom(list, {i \in DOMAIN list : \A j \in 1 .. i - 1 : Key(list[j]) # Key(list[i])})

DedupeRaw(candidates) == DistinctBy(candidates, ComparisonKey)

Candidate(kind, address, hint, source) ==
  [kind |-> kind, address |-> address, hint |-> hint, source |-> source]

\* One entry per kind and address, with the more specific of the hints met.
Merged(kept, c) ==
  IF \E i \in DOMAIN kept : SameAddress(kept[i], c)
  THEN [i \in DOMAIN kept |->
          IF SameAddress(kept[i], c)
          THEN Candidate(kept[i].kind, kept[i].address, MoreSpecificHint(kept[i].hint, c.hint), kept[i].source)
          ELSE kept[i]]
  ELSE Append(kept, c)
DedupeCandidates(candidates) == Folded(Merged, <<>>, candidates)

-----------------------------------------------------------------------------
(* address/clean.ts *)

CleanAddress(raw) ==
  IF \/ Len(raw.text) > MaxAddress
     \/ raw.marks \cap {"address marker", "rejected", "bare type"} # {}
     \/ "procedural" \in raw.marks /\ raw.marks \cap {"number", "street type", "place", "road"} = {}
  THEN None ELSE raw.text

\* An administrative site keeps the lead that an address loses.
CleanSite(raw) ==
  IF "preserved" \in raw.marks
  THEN IF Len(raw.text) > MaxAddress \/ raw.marks \cap {"address marker", "rejected"} # {}
       THEN None ELSE raw.text
  ELSE CleanAddress(raw)

CleanHint(raw) ==
  IF \/ Len(raw.text) > MaxHint
     \/ raw.marks \cap {"locality marker", "address marker", "tail noise", "broad", "several"} # {}
  THEN None ELSE raw.text

\* Captures are tried in the order of their patterns; the first that survives is the hint.
FirstHint(captures) ==
  LET i == FirstSuch(captures, LAMBDA raw : CleanHint(raw) # None)
  IN  IF i = 0 THEN None ELSE CleanHint(captures[i])

CleanFor(kind, raw) == IF kind = "site" THEN CleanSite(raw) ELSE CleanAddress(raw)

-----------------------------------------------------------------------------
(* address/noise.ts: is the match a contact block, page chrome or plan boilerplate? *)

\* near, wide: marker counts; before, after: where the closest marker stands, -1 if none does.
LikelyNoise(a) ==
  LET near == a.near  wide == a.wide
      contactLeads == a.before.contact > a.before.project
      projectLeads == a.before.project > a.before.contact
      contactFollows == a.after.contact >= 0 /\ (a.after.project = -1 \/ a.after.contact < a.after.project)
      marked == contactFollows /\ (near.contact >= 1 \/ near.chrome >= 1)
      close == \/ near.email /\ near.contact >= 2 /\ near.project <= 2
               \/ near.phone /\ near.contact >= 2 /\ near.project = 0
               \/ near.chrome >= 1 /\ near.project = 0
      mailed == wide.email /\ wide.contact >= 2 /\ wide.project <= 1
      far == \/ wide.project = 0 /\ \/ wide.phone /\ wide.contact >= 2
                                    \/ wide.contact >= 3
                                    \/ wide.chrome >= 1
                                    \/ wide.plan >= 2 /\ wide.contact >= 1
             \/ near.plan >= 2 /\ near.contact >= 1 /\ near.project = 0
  IN  \/ a.own
      \/ contactLeads /\ (contactFollows \/ near.email \/ near.phone)
      \/ marked /\ near.project = 0
      \/ ~(marked /\ projectLeads) /\ (close \/ (IF mailed THEN near.project = 0 ELSE far))

-----------------------------------------------------------------------------
(* address/extract.ts *)

\* <<>> when the match is refused.
ContextHint(context) ==
  IF context.explicit # NoCapture THEN CleanHint(context.explicit) ELSE FirstHint(context.others)

BuildCandidate(m, source) ==
  LET address == CleanFor(m.kind, m.raw)
      tail == FirstHint(m.tail)  inline == FirstHint(m.inline)
  IN  IF address = None \/ (source = "page" /\ LikelyNoise(m.around)) THEN <<>>
      ELSE <<Candidate(m.kind, address,
               IF tail # None THEN tail ELSE IF inline # None THEN inline ELSE ContextHint(m.context),
               source)>>

BuildAll(matches, source) == FlattenSeq([i \in DOMAIN matches |-> BuildCandidate(matches[i], source)])

\* "Town - Street": a title candidate without a hint takes the locality before the dash.
EnrichWithDash(candidates, dash) ==
  [i \in DOMAIN candidates |->
     IF candidates[i].hint = None /\ candidates[i].source = "title" /\ candidates[i].address \in DOMAIN dash
     THEN [candidates[i] EXCEPT !.hint = dash[@.address]]
     ELSE candidates[i]]

\* A title street is dropped when the same words already make a street address.
AddTitleMatch(kept, c) ==
  IF c.kind = "street" /\ \E i \in DOMAIN kept : kept[i].kind = "street_address" /\ kept[i].address = c.address
  THEN kept ELSE Append(kept, c)

LeadCandidate(lead) ==
  LET address == CleanSite(lead.raw)
  IN  IF address = None THEN <<>>
      ELSE <<Candidate(IF "street lead" \in lead.raw.marks THEN "street" ELSE "site",
                       address, FirstHint(Reverse(lead.hints)), "title")>>

-----------------------------------------------------------------------------
(* address/chinese.ts and address/chinese-extract.ts *)

GlobalChineseHint(captures) == IF captures = <<>> THEN None ELSE CleanHint(captures[1])

TooBroad(address, kind, marks) ==
  \/ "weak" \in marks \/ "location word" \in marks
  \/ kind # "site" /\ "block" \in marks
  \/ Len(address) > (IF kind = "site" THEN MaxSite ELSE MaxRoad)

\* What each family of patterns lets through, in the order the families are tried.
AddChinese(kept, m, global, source) ==
  LET address == IF m.family \in {"locality", "plot"} THEN m.whole ELSE CleanFor(m.kind, m.raw)
      lead == CleanHint(m.lead)
      context == ContextHint(m.context)
      near == MoreSpecificHint(context, IF m.family = "field" /\ lead # None THEN lead ELSE global)
      hint == CASE m.family = "compound" -> MoreSpecificHint(MoreSpecificHint(lead, context), near)
                [] m.family = "administrative" -> MoreSpecificHint(lead, near)
                [] m.family = "campus" /\ near = None -> m.whole
                [] OTHER -> near
      pushed == m.family \in {"field", "boundary", "anchor", "embedded"}
      refused == \/ address = None
                 \/ pushed /\ m.kind = "street" /\ "quarter" \in m.raw.marks
                 \/ (pushed \/ m.family = "compound") /\ TooBroad(address, m.kind, m.raw.marks)
                 \/ m.family \in {"administrative", "anchor"} /\ "regeneration" \in m.raw.marks
                 \/ m.family = "anchor" /\ \E i \in DOMAIN kept :
                      kept[i].kind = "site" /\ kept[i].address # m.whole /\ Includes(kept[i].address, m.whole)
  IN  IF refused THEN kept ELSE Append(kept, Candidate(m.kind, address, hint, source))

ChineseCandidates(t, source) ==
  LET global == GlobalChineseHint(t.global)
  IN  DedupeCandidates(DedupeRaw(
        Folded(LAMBDA kept, m : AddChinese(kept, m, global, source), <<>>, t.chinese)))

-----------------------------------------------------------------------------

\* A text as far as the proofs look into it.
IsText(t) == IsList(t.matches) /\ IsList(t.chinese) /\ IsList(t.leads) /\ IsList(t.titled)

ExtractFromText(t, source) ==
  LET plain == BuildAll(t.matches, source) \o ChineseCandidates(t, source)
      leads == FlattenSeq([i \in DOMAIN t.leads |-> LeadCandidate(t.leads[i])])
      all == IF source = "page" THEN plain
             ELSE Folded(AddTitleMatch, DedupeRaw(plain \o leads), BuildAll(t.titled, source))
  IN  DedupeCandidates(DedupeRaw(EnrichWithDash(DedupeRaw(all), t.dash)))

-----------------------------------------------------------------------------
(* address/structured.ts *)

StructuredCandidates(record) ==
  LET hint == IF CleanHint(record.locality) # None THEN CleanHint(record.locality)
              ELSE FirstHint(Reverse(record.segments))
      street == record.street
      kind == IF "campus" \in street.marks THEN "site"
              ELSE IF "number" \in street.marks THEN "street_address" ELSE "street"
      address == CleanFor(kind, street)
      named == ExtractFromText(record.placename, "page")
  IN  IF street # NoCapture
      THEN IF address = None THEN <<>> ELSE <<Candidate(kind, address, hint, "page")>>
      ELSE [i \in DOMAIN named |->
              IF named[i].hint = None THEN [named[i] EXCEPT !.hint = hint] ELSE named[i]]

IsMeta(meta) ==
  /\ IsList(meta.streets) /\ IsList(meta.jsonld) /\ IsText(meta.placename)
  /\ \A i \in DOMAIN meta.jsonld : IsText(meta.jsonld[i].placename)

\* One record per street address and per place name of the meta tags, then those of the JSON-LD.
StructuredRecords(meta) ==
  [i \in DOMAIN meta.streets |-> [street |-> meta.streets[i], locality |-> meta.locality,
                                  segments |-> meta.segments, placename |-> meta.placename]]
  \o (IF meta.named
      THEN <<[street |-> meta.placestreet, locality |-> meta.locality,
              segments |-> meta.segments, placename |-> meta.placename]>>
      ELSE <<>>)
  \o meta.jsonld

ExtractStructured(meta) ==
  LET records == StructuredRecords(meta)
  IN  DedupeCandidates(FlattenSeq([i \in DOMAIN records |-> StructuredCandidates(records[i])]))
=============================================================================
