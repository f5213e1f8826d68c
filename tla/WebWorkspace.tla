---------------------------- MODULE WebWorkspace ----------------------------
(***************************************************************************)
(* What signed-in users change from the browser: decisions at the review    *)
(* desk, the watch button, saved searches.  Each control is a React         *)
(* component with a request under way.  When the browser gives a request up *)
(* without an answer, the server may have served it, may serve it later, at *)
(* any time, or never; other tabs and administrators write to the same      *)
(* rows meanwhile.                                                          *)
(***************************************************************************)
EXTENDS Integers, FiniteSets

CONSTANTS
  QueueIds,          \* ops_review_queue_items
  ReasonOf,          \* [QueueIds -> reason codes]
  DeskStatuses,      \* OPS_REVIEW_STATUSES
  StatusRank,        \* [DeskStatuses -> Nat], the order of the list, and within a status
  QueueRank,         \* [QueueIds -> Nat], that by priority, last detection and id
  DeskLimit,         \* items in a list
  SearchNames, SearchFilters,   \* names and canonical filters of saved searches
  DeskBound, OthersBound, SaveBound  \* bounds: requests from the desk, steps of others, searches saved

ASSUME WorkspaceAssumption ==
  /\ DeskBound \in Nat /\ OthersBound \in Nat /\ SaveBound \in Nat
  /\ DeskLimit \in Nat \ {0} /\ "pending" \in DeskStatuses

All == "all"

VARIABLES
  queueRows,     \* [QueueIds -> [status, active]]
  desk,          \* OpsReviewQueue
  deskRequest,   \* its request under way
  deskLost,      \* decisions it has given up that were not served yet
  deskSent,      \* requests it has sent
  deskOthers,    \* steps others have taken
  watchRow,      \* is the opportunity in the user's watchlist
  watched,       \* WatchToggleButton and the dashboard row it sits in
  savedRows,     \* workspace_saved_searches of the user
  searches,      \* SaveSearchForm and SavedSearchesPanel
  savedSoFar     \* AUTOINCREMENT of the table

deskVars == <<queueRows, desk, deskRequest, deskLost, deskSent, deskOthers>>
watchVars == <<watchRow, watched>>
searchVars == <<savedRows, searches, savedSoFar>>
workspaceVars == <<deskVars, watchVars, searchVars>>

-----------------------------------------------------------------------------
(* the review desk: the server's side *)

DeskItem(q) == [id |-> q, reason |-> ReasonOf[q], status |-> queueRows[q].status]
Matches(item, status, reason) ==
  (status = All \/ item.status = status) /\ (reason = All \/ item.reason = reason)

\* The desk always asks for active items.
Matching(status, reason) ==
  {i \in {DeskItem(q) : q \in {r \in QueueIds : queueRows[r].active}} : Matches(i, status, reason)}

Earlier(i, j) ==
  \/ StatusRank[i.status] < StatusRank[j.status]
  \/ StatusRank[i.status] = StatusRank[j.status] /\ QueueRank[i.id] < QueueRank[j.id]

FirstOf(items) == {i \in items : Cardinality({j \in items : Earlier(j, i)}) < DeskLimit}
ReviewQueue(status, reason) == FirstOf(Matching(status, reason))

\* The audit row and the status change of a decision are one batch.
WriteDecision(q, decision) == queueRows' = [queueRows EXCEPT ![q].status = decision]

ReviewSummary ==
  [s \in DeskStatuses |-> Cardinality({q \in QueueIds : queueRows[q].active /\ queueRows[q].status = s})]

-----------------------------------------------------------------------------
(* the review desk: the browser's side *)

NoRequest == [kind |-> "none"]
DeskBusy == deskRequest # NoRequest /\ deskRequest.kind = "decide"
DeskControls == ~desk.loading /\ ~DeskBusy

\* What the page offers: the toolbar, a refresh beside an error, and the decisions of each row.
DeskOffers ==
  [toolbar |-> DeskControls,
   refresh |-> DeskControls \/ (desk.error /\ ~DeskBusy),
   decisions |-> [i \in desk.items |-> IF DeskControls THEN DeskStatuses \ {i.status} ELSE {}]]

LoadQueue(status, reason) ==
  /\ deskSent < DeskBound /\ deskSent' = deskSent + 1
  /\ desk' = [desk EXCEPT !.status = status, !.reason = reason, !.loading = TRUE, !.error = FALSE]
  /\ deskRequest' = [kind |-> "load", status |-> status, reason |-> reason, at |-> "sent", items |-> {},
                     summary |-> desk.summary, cut |-> FALSE, late |-> FALSE]
  /\ UNCHANGED <<queueRows, deskLost, deskOthers>>

ChangeFilter ==
  /\ DeskOffers.toolbar
  /\ \/ \E s \in (DeskStatuses \cup {All}) \ {desk.status} : LoadQueue(s, desk.reason)
     \/ \E r \in ({ReasonOf[q] : q \in QueueIds} \cup {All}) \ {desk.reason} : LoadQueue(desk.status, r)

RefreshDesk == DeskOffers.refresh /\ LoadQueue(desk.status, desk.reason)

\* "cut": the list had no room for all that match.
ServeLoad ==
  /\ deskRequest.kind = "load" /\ deskRequest.at = "sent"
  /\ LET list == ReviewQueue(deskRequest.status, deskRequest.reason)
     IN  deskRequest' = [deskRequest EXCEPT !.at = "read", !.items = list,
                           !.cut = list # Matching(deskRequest.status, deskRequest.reason)]
  /\ UNCHANGED <<queueRows, desk, deskLost, deskSent, deskOthers>>

\* The counts are a read of their own, after the list or the row.
ServeSummary ==
  /\ deskRequest # NoRequest /\ deskRequest.at = "read"
  /\ deskRequest' = [deskRequest EXCEPT !.at = "served", !.summary = ReviewSummary]
  /\ UNCHANGED <<queueRows, desk, deskLost, deskSent, deskOthers>>

\* A failed load leaves the items of the previous filters on the page, under an error.
EndLoad ==
  /\ deskRequest.kind = "load" /\ deskRequest' = NoRequest
  /\ \/ /\ deskRequest.at = "served"
        /\ desk' = [desk EXCEPT !.loading = FALSE, !.outdated = FALSE, !.unsure = deskRequest.late,
                           !.items = deskRequest.items, !.summary = deskRequest.summary, !.cut = deskRequest.cut]
     \/ desk' = [desk EXCEPT !.loading = FALSE, !.error = TRUE, !.outdated = TRUE]
  /\ UNCHANGED <<queueRows, deskLost, deskSent, deskOthers>>

ApplyDecision ==
  /\ deskRequest = NoRequest /\ deskSent < DeskBound /\ deskSent' = deskSent + 1
  /\ \E i \in desk.items : \E decision \in DeskOffers.decisions[i] :
       deskRequest' = [kind |-> "decide", id |-> i.id, decision |-> decision, at |-> "sent", item |-> i,
                        summary |-> desk.summary]
  /\ desk' = [desk EXCEPT !.error = FALSE]
  /\ UNCHANGED <<queueRows, deskLost, deskOthers>>

ServeDecision ==
  /\ deskRequest.kind = "decide" /\ deskRequest.at = "sent"
  /\ WriteDecision(deskRequest.id, deskRequest.decision)
  /\ deskRequest' = [deskRequest EXCEPT !.at = "written"]
  /\ UNCHANGED <<desk, deskLost, deskSent, deskOthers>>

\* The row is read back after the batch: another decision may have come in between.
RereadDecision ==
  /\ deskRequest.kind = "decide" /\ deskRequest.at = "written"
  /\ deskRequest' = [deskRequest EXCEPT !.at = "read", !.item = DeskItem(deskRequest.id)]
  /\ UNCHANGED <<queueRows, desk, deskLost, deskSent, deskOthers>>

\* Slip: the answer replaces the row, whether or not it still matches the filters.
SettledInPlace(items, item) == {IF i.id = item.id THEN item ELSE i : i \in items}

Settled(items, item) ==
  IF Matches(item, desk.status, desk.reason) THEN {IF i.id = item.id THEN item ELSE i : i \in items}
  ELSE {i \in items : i.id # item.id}

\* A decision without an answer may have been written all the same, or may yet be.
EndDecision ==
  /\ deskRequest.kind = "decide" /\ deskRequest' = NoRequest
  /\ \/ /\ deskRequest.at = "served"
        /\ desk' = [desk EXCEPT !.items = Settled(@, deskRequest.item), !.summary = deskRequest.summary]
        /\ UNCHANGED deskLost
     \/ /\ desk' = [desk EXCEPT !.error = TRUE, !.unsure = TRUE]
        /\ deskLost' = IF deskRequest.at = "sent"
                       THEN deskLost \cup {[id |-> deskRequest.id, decision |-> deskRequest.decision]} ELSE deskLost
  /\ UNCHANGED <<queueRows, deskSent, deskOthers>>

\* The server gets to a decision the page has given up: what the page shows, and a list it is
\* about to be given, are of before.
ServeLostDecision ==
  \E r \in deskLost :
    /\ WriteDecision(r.id, r.decision) /\ deskLost' = deskLost \ {r}
    /\ desk' = [desk EXCEPT !.unsure = TRUE]
    /\ deskRequest' = IF deskRequest.kind = "load" /\ deskRequest.at # "sent"
                      THEN [deskRequest EXCEPT !.late = TRUE] ELSE deskRequest
    /\ UNCHANGED <<deskSent, deskOthers>>

\* Another administrator decides; the worker raises or clears an item.
OthersAtDesk ==
  /\ deskOthers < OthersBound /\ deskOthers' = deskOthers + 1
  /\ \E q \in QueueIds :
       \/ \E s \in DeskStatuses \ {queueRows[q].status} : WriteDecision(q, s)
       \/ queueRows' = [queueRows EXCEPT ![q].active = ~@]
  /\ UNCHANGED <<desk, deskRequest, deskLost, deskSent>>

-----------------------------------------------------------------------------
(* the watch button *)

AddWatch == watchRow' = TRUE
RemoveWatch == watchRow' = FALSE

\* Slip: neither the ref nor the disabled button holds back a second click.
Eager == TRUE
Clickable == ~watched.saving

\* The list of the dashboard drops the row as soon as it is unwatched, and never puts it back.
OnToggle(next) == watched.listed /\ next

ClickWatch ==
  /\ Clickable
  /\ watched' = [watched EXCEPT !.saving = TRUE, !.failed = FALSE, !.shown = ~@, !.listed = OnToggle(~watched.shown),
                   !.requests = @ \cup {[watch |-> ~watched.shown, served |-> FALSE]}]
  /\ UNCHANGED watchRow

ServeWatch ==
  \E r \in watched.requests :
    /\ ~r.served
    /\ IF r.watch THEN AddWatch ELSE RemoveWatch
    /\ watched' = [watched EXCEPT !.requests = (@ \ {r}) \cup {[r EXCEPT !.served = TRUE]}, !.alone = TRUE]

\* Without an answer the click is undone on the page; on the server it may be done, or yet to be done.
EndWatch ==
  \E r \in watched.requests :
    LET over == [watched EXCEPT !.saving = FALSE, !.requests = @ \ {r}]
    IN
    /\ \/ r.served /\ watched' = over
       \/ watched' = [over EXCEPT !.shown = ~r.watch, !.failed = TRUE,
                                  !.lost = IF r.served THEN @ ELSE @ \cup {r.watch}]
    /\ UNCHANGED watchRow

\* The server gets to a click the button has given up; another one like it may be on its way.
ServeLostWatch ==
  \E w \in watched.lost : \E left \in {watched.lost, watched.lost \ {w}} :
    /\ IF w THEN AddWatch ELSE RemoveWatch
    /\ watched' = [watched EXCEPT !.lost = left, !.alone = FALSE]

\* The same user in another tab.
OtherTab ==
  /\ AddWatch \/ RemoveWatch
  /\ watched' = [watched EXCEPT !.alone = FALSE]

-----------------------------------------------------------------------------
(* saved searches *)

\* Identical filters are one row: saving them again renames it.
CreateSavedSearch(name, filters) ==
  LET same == {r \in savedRows : r.filters = filters}
  IN  IF same = {}
      THEN savedRows' = savedRows \cup {[id |-> savedSoFar + 1, name |-> name, filters |-> filters]}
      ELSE savedRows' = {IF r \in same THEN [r EXCEPT !.name = name] ELSE r : r \in savedRows}

DeleteSavedSearch(id) == savedRows' = {r \in savedRows : r.id # id}

SubmitSearch ==
  /\ searches.saving = NoRequest /\ savedSoFar < SaveBound
  /\ \E n \in SearchNames, f \in SearchFilters :
       searches' = [searches EXCEPT !.saving = [kind |-> "save", name |-> n, filters |-> f, served |-> FALSE],
                                    !.message = "none"]
  /\ UNCHANGED <<savedRows, savedSoFar>>

ServeSave ==
  /\ searches.saving # NoRequest /\ ~searches.saving.served /\ savedSoFar < SaveBound
  /\ CreateSavedSearch(searches.saving.name, searches.saving.filters)
  /\ searches' = [searches EXCEPT !.saving.served = TRUE]
  /\ savedSoFar' = savedSoFar + 1

GivenUp(request) == IF request.served THEN {} ELSE {request}

EndSave ==
  /\ searches.saving # NoRequest
  /\ \E ok \in BOOLEAN :
       /\ ok => searches.saving.served
       /\ searches' = [searches EXCEPT !.saving = NoRequest, !.message = IF ok THEN "saved" ELSE "error",
                                       !.lost = @ \cup GivenUp(searches.saving)]
  /\ UNCHANGED <<savedRows, savedSoFar>>

\* The page is loaded: the panel lists what is saved.
OpenPanel ==
  /\ searches.removing = NoRequest
  /\ searches' = [searches EXCEPT !.items = savedRows, !.message = "none"]
  /\ UNCHANGED <<savedRows, savedSoFar>>

RemoveSearch ==
  /\ searches.removing = NoRequest
  /\ \E i \in searches.items :
       searches' = [searches EXCEPT !.removing = [kind |-> "remove", id |-> i.id, served |-> FALSE]]
  /\ UNCHANGED <<savedRows, savedSoFar>>

ServeRemove ==
  /\ searches.removing # NoRequest /\ ~searches.removing.served
  /\ DeleteSavedSearch(searches.removing.id)
  /\ searches' = [searches EXCEPT !.removing.served = TRUE]
  /\ UNCHANGED savedSoFar

EndRemove ==
  /\ searches.removing # NoRequest
  /\ \/ /\ searches.removing.served
        /\ searches' = [searches EXCEPT !.removing = NoRequest,
                          !.items = {i \in @ : i.id # searches.removing.id}]
     \/ searches' = [searches EXCEPT !.removing = NoRequest, !.message = "error",
                                     !.lost = @ \cup GivenUp(searches.removing)]
  /\ UNCHANGED <<savedRows, savedSoFar>>

\* The server gets to a request the page has given up.
ServeLostSearch ==
  \E r \in searches.lost :
    /\ searches' = [searches EXCEPT !.lost = @ \ {r}]
    /\ \/ /\ r.kind = "save" /\ savedSoFar < SaveBound
          /\ CreateSavedSearch(r.name, r.filters) /\ savedSoFar' = savedSoFar + 1
       \/ /\ r.kind = "remove"
          /\ DeleteSavedSearch(r.id) /\ UNCHANGED savedSoFar

-----------------------------------------------------------------------------

DeskInit ==
  /\ queueRows \in [QueueIds -> [status : DeskStatuses, active : {TRUE}]]
  /\ desk = [items |-> ReviewQueue("pending", All), summary |-> ReviewSummary,
             status |-> "pending", reason |-> All, loading |-> FALSE, error |-> FALSE, outdated |-> FALSE,
             unsure |-> FALSE, cut |-> ReviewQueue("pending", All) # Matching("pending", All)]
  /\ deskRequest = NoRequest /\ deskLost = {} /\ deskSent = 0 /\ deskOthers = 0

WatchInit ==
  /\ watchRow \in BOOLEAN
  /\ watched = [shown |-> watchRow, listed |-> watchRow, saving |-> FALSE, failed |-> FALSE,
                requests |-> {}, lost |-> {}, alone |-> TRUE]

SearchInit ==
  /\ savedRows = {} /\ savedSoFar = 0
  /\ searches = [items |-> {}, saving |-> NoRequest, removing |-> NoRequest, lost |-> {}, message |-> "none"]

DeskNext ==
  \/ ChangeFilter \/ RefreshDesk \/ ServeLoad \/ EndLoad
  \/ ApplyDecision \/ ServeDecision \/ RereadDecision \/ EndDecision
  \/ ServeSummary \/ ServeLostDecision \/ OthersAtDesk
WatchNext == ClickWatch \/ ServeWatch \/ EndWatch \/ ServeLostWatch \/ OtherTab
SearchNext ==
  \/ SubmitSearch \/ ServeSave \/ EndSave \/ ServeLostSearch
  \/ OpenPanel \/ RemoveSearch \/ ServeRemove \/ EndRemove

WorkspaceInit == DeskInit /\ WatchInit /\ SearchInit
WorkspaceNext ==
  \/ DeskNext /\ UNCHANGED <<watchVars, searchVars>>
  \/ WatchNext /\ UNCHANGED <<deskVars, searchVars>>
  \/ SearchNext /\ UNCHANGED <<deskVars, watchVars>>
WorkspaceSpec == WorkspaceInit /\ [][WorkspaceNext]_workspaceVars

-----------------------------------------------------------------------------

WorkspaceTypeOK ==
  /\ queueRows \in [QueueIds -> [status : DeskStatuses, active : BOOLEAN]]
  /\ desk.items \subseteq [id : QueueIds, reason : {ReasonOf[q] : q \in QueueIds}, status : DeskStatuses]
  /\ deskSent \in 0 .. DeskBound /\ deskOthers \in 0 .. OthersBound
  /\ watchRow \in BOOLEAN /\ watched.shown \in BOOLEAN
  /\ searches.message \in {"none", "saved", "error"} /\ savedSoFar \in 0 .. SaveBound
  /\ \A r \in savedRows : r.id \in 1 .. savedSoFar /\ r.filters \in SearchFilters

\* Once a load has been answered, the desk lists each item once and only items that match the
\* filters in its toolbar, whatever was decided since, here or by another administrator whose
\* decision the answer already reflects.  When nobody else has interfered, nothing is under way
\* and since that load no decision was left without an answer or written late, every item on the
\* page is as it is in the queue, the counts are those of the queue, and the page has all that
\* match, unless there was no room for all.
DeskShowsLatest ==
  /\ ~desk.loading /\ ~desk.outdated =>
       \A i \in desk.items :
         Matches(i, desk.status, desk.reason) /\ \A j \in desk.items : i.id = j.id => i = j
  /\ deskOthers = 0 /\ deskRequest = NoRequest /\ ~desk.unsure /\ ~desk.outdated =>
       /\ desk.items \subseteq Matching(desk.status, desk.reason)
       /\ ~desk.cut => desk.items = Matching(desk.status, desk.reason)
       /\ desk.summary = ReviewSummary

\* When nothing is under way, no failure is shown and nothing else has written since the button's
\* own last request was served, the button says what the watchlist holds, however many clicks,
\* failures, lost answers and late requests came before.
ToggleSettles ==
  watched.requests = {} /\ ~watched.failed /\ watched.alone => watched.shown = watchRow
=============================================================================
