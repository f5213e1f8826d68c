------------------------------- MODULE MCWeb -------------------------------
(***************************************************************************)
(* The parts of the web application for TLC: the pages of the workspace,    *)
(* sessions, the gate in front of pages and API, the discover feed, and the *)
(* sync of its database.  They share no state here, so the instance is      *)
(* their sum and not their product: a behaviour moves one of them and the   *)
(* others stay as they start.                                               *)
(***************************************************************************)
EXTENDS WebWorkspace, WebSessions, WebGate, WebDiscover, D1Export

VARIABLE focus  \* the part that moves

webVars == <<workspaceVars, authVars, gateVars, discoverVars, syncVars, focus>>

MCReasonOf == [q \in QueueIds |-> IF q = "q1" THEN "invalid" ELSE "conflict"]
MCQueueRank == [q \in QueueIds |-> CASE q = "q1" -> 2 [] q = "q2" -> 1 [] OTHER -> 3]
MCStatusRank == [s \in DeskStatuses |-> IF s = "pending" THEN 0 ELSE 2]

MCStoredHashes == {[format |-> "legacy", cost |-> 1, whole |-> TRUE, readings |-> {"right"}]}
MCAgenda == <<{"login", "register"}, {"login", "current", "all"}, {"login"}>>

MCRegionOf(tag) == CASE tag = "en-GB" -> "en" [] OTHER -> tag
MCSegments == {"zh", "en", "en-GB", "fr", "competitions", "dashboard", "ops", "api", "logo.png"}
MCEntered == [segments : UNION {[1 .. n -> MCSegments] : n \in 0 .. 2}, doubled : BOOLEAN]
MCAccept == {<<>>, <<[tag |-> "fr", quality |-> 10], [tag |-> "zh", quality |-> 3], [tag |-> "en-GB", quality |-> 8]>>,
             <<[tag |-> "en", quality |-> 0], [tag |-> "*", quality |-> 5]>>}
MCReturn == {[kind |-> "path", segments |-> <<"en", "competitions">>, doubled |-> FALSE],
             [kind |-> "path", segments |-> <<"fr", "ops">>, doubled |-> FALSE],
             [kind |-> "other", segments |-> <<"en">>, doubled |-> TRUE]}
MCApi ==
  [method : {"GET"}, origin : {"absent"}, site : {"absent"}, referer : {"absent"}, media : {"none"}, valid : {TRUE},
   ops : BOOLEAN, outcome : {"done", "busy", "crash"}]
  \cup [method : {"POST"}, origin : {"own", "other", "absent"}, site : {"absent", "none"}, referer : {"own", "absent"},
       media : {"json"}, valid : {TRUE}, ops : {FALSE}, outcome : {"unknown row"}]
  \cup [method : {"POST"}, origin : {"own"}, site : {"absent"}, referer : {"absent"},
       media : {"json", "form"}, valid : BOOLEAN, ops : {FALSE}, outcome : {"rejected value"}]

MCVocabulary == [projectTypes |-> <<"housing", "school">>, buildingCategories |-> <<"public">>,
                 designScopes |-> <<"building">>, projectModes |-> <<"new", "rebuild">>]
MCAliasGroups == [open |-> {"open", "offen"}, selective |-> {"restricted"}]
MCTermVariants(term) == {term}
MCRow(id) ==
  [id |-> id, updated |-> id, status |-> "discovered", title |-> "title", words |-> {"haus"}, authority |-> "unstated",
   organizer |-> "city", jurisdiction |-> "ch", procedure |-> "open", path |-> "unstated", licensed |-> "unknown",
   score |-> Unknown, discovered |-> 8, deadline |-> 9, value |-> Unknown, valueText |-> "unstated", prize |-> "unstated",
   registrationFee |-> Unknown, submissionFee |-> 0, place |-> "Zug", verdict |-> "include", judged |-> id,
   excerpts |-> {[text |-> 1, quoted |-> TRUE], [text |-> 2, quoted |-> FALSE]},
   kinds |-> [facet \in DOMAIN MCVocabulary |-> {"housing", "public", "new"} \cap ToSet(MCVocabulary[facet])],
   urls |-> [official |-> "o", machine |-> {"o"}, portal |-> "o", brief |-> "b", source |-> "s"]]
MCRows == {
  [MCRow(3) EXCEPT !.deadline = 3, !.score = 1],
  [MCRow(4) EXCEPT !.status = "shortlisted", !.discovered = 5, !.verdict = "exclude", !.deadline = Unknown, !.kinds["projectTypes"] = {"school"}],
  [MCRow(5) EXCEPT !.deadline = 2, !.words = {"park"}, !.value = 3, !.procedure = "n/a"],
  [MCRow(7) EXCEPT !.verdict = "exclude"],
  [MCRow(8) EXCEPT !.deadline = 4, !.procedure = "offen", !.licensed = "no", !.registrationFee = 0]}
MCEditedRows == {[MCRow(7) EXCEPT !.verdict = "exclude", !.deadline = 3, !.updated = 9]}
MCText(t) == <<[as |-> "text", is |-> t]>>
MCNumber(n) == <<[as |-> "number", is |-> n]>>
MCAddresses ==
  {[NoQuery EXCEPT !["includeExpired"] = <<[as |-> "flag", is |-> TRUE]>>, !["loaded"] = MCNumber(9)],
   [NoQuery EXCEPT !["procedureType"] = MCText("open"), !["sort"] = MCText("latest"), !["deadlineBefore"] = <<[as |-> "date", is |-> 9]>>,
                   !["minQualificationScore"] = <<[as |-> "text", is |-> "high"]>>, !["publishedWithinDays"] = MCNumber(99),
                   !["projectTypes"] = MCText("housing") \o MCText("castle")]}
MCSaved == {[NoQuery EXCEPT !["search"] = MCText("haus"), !["includeExpired"] = <<[as |-> "flag", is |-> TRUE]>>, !["limit"] = MCNumber(9)]}
MCDockEdits ==
  {[name |-> "includeExpired", raw |-> <<[as |-> "flag", is |-> TRUE]>>]}

MCKeys(t) ==
  CASE t = "competitions" -> {1, 2, 3, 4}
    [] t = "ai_screening_results" -> {1}
    [] t = Queue -> {11, 12}
    [] OTHER -> {}
Row(facts, status, origin) == [facts |-> facts, status |-> status, origin |-> origin]
Fill(c, s, q) == [t \in Tables |->
  CASE t = "competitions" -> c
    [] t = "ai_screening_results" -> <<s>>
    [] t = Queue -> (11 :> q[1] @@ 12 :> q[2])
    [] OTHER -> <<>>]
WorkerRow(f) == Row(f, "pending", "worker_diagnostic")
PlainRow(f) == Row(f, "none", "none")
MCLocal == { Fill(<<PlainRow(1), PlainRow(1), NoRow, NoRow>>, PlainRow(1), <<WorkerRow(1), NoRow>>),
             Fill(<<PlainRow(2), NoRow, PlainRow(1), NoRow>>, PlainRow(2), <<WorkerRow(2), WorkerRow(1)>>),
             Fill(<<PlainRow(3), NoRow, NoRow, NoRow>>, NoRow, <<WorkerRow(2), NoRow>>),
             Fill(<<NoRow, NoRow, NoRow, PlainRow(1)>>, NoRow, <<NoRow, NoRow>>) }
MCSize(r) == r.facts
\* The fourth competition has an id too long to stage.
MCIdSize(k) == IF k = 4 THEN 7 ELSE 1
\* A value of the third state of a row holds a NUL character.
MCPrintable(r) == r.facts # 3

\* Browsers are interchangeable.
MCSymmetry == Permutations(Browsers)

-----------------------------------------------------------------------------

\* The queue starts with every item pending; a part that does not move has one initial state.
WebInit ==
  /\ focus \in {"desk", "watch", "searches", "sessions", "gate", "discover", "sync"}
  /\ WorkspaceInit
  /\ \A q \in QueueIds : queueRows[q].status = "pending"
  /\ focus # "watch" => ~watchRow
  /\ AuthInit
  /\ focus # "sessions" => account = NoUser
  /\ GateInit /\ DiscoverInit
  /\ SyncInit
  /\ focus # "sync" => ~drifted /\ local = CHOOSE l \in LocalTables : TRUE

WebNext ==
  \/ /\ focus = "desk" /\ DeskNext
     /\ UNCHANGED <<watchVars, searchVars, authVars, gateVars, discoverVars, syncVars, focus>>
  \/ /\ focus = "watch" /\ WatchNext
     /\ UNCHANGED <<deskVars, searchVars, authVars, gateVars, discoverVars, syncVars, focus>>
  \/ /\ focus = "searches" /\ SearchNext
     /\ UNCHANGED <<deskVars, watchVars, authVars, gateVars, discoverVars, syncVars, focus>>
  \/ /\ focus = "sessions" /\ AuthNext
     /\ UNCHANGED <<workspaceVars, gateVars, discoverVars, syncVars, focus>>
  \/ /\ focus = "gate" /\ GateNext
     /\ UNCHANGED <<workspaceVars, authVars, discoverVars, syncVars, focus>>
  \/ /\ focus = "discover" /\ DiscoverNext
     /\ UNCHANGED <<workspaceVars, authVars, gateVars, syncVars, focus>>
  \/ /\ focus = "sync" /\ SyncNext
     /\ UNCHANGED <<workspaceVars, authVars, gateVars, discoverVars, focus>>

WebSpec == WebInit /\ [][WebNext]_webVars

\* Every variable of the parts keeps its type.
WebTypeOK == WorkspaceTypeOK /\ AuthTypeOK /\ GateTypeOK /\ DiscoverTypeOK /\ SyncTypeOK
=============================================================================
