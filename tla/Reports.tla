-------------------------------- MODULE Reports --------------------------------
(***************************************************************************)
(* Reported messages (create-report.composable.ts, ReportDialog.vue,       *)
(* manage-reports.composable.ts, ManageReports.vue and its sidebar with    *)
(* the preview of the message).  Users report messages of a room; admins   *)
(* and stewards page through the reports, newest first, and look at them;  *)
(* admins delete them.  Requests are handled by the server at one moment   *)
(* and answered at a later one.  The numbers of reports are their order.   *)
(***************************************************************************)
EXTENDS Integers, Sequences, FiniteSets

CONSTANTS Messages,   \* messages that can be reported
          Pictures,   \* those with a file, whose url is fetched as well
          Found,      \* those the text of a search finds
          Batch,      \* BATCH_SIZE
          PageSize,   \* fillPageSize
          FirstReports, MaxReports, MaxVisits, MaxLooks  \* bounds

VARIABLES
  admin,    \* isAdministrator
  filed,    \* history: the message of every report made
  kept,     \* the reports the server has
  forms,    \* messages whose report dialog is visible
  sends,    \* reports on their way
  visits,   \* visits of the page, odd while it is shown
  listed, total,  \* reports, totalReports
  loads,    \* requests for reports
  removing, \* requests to delete a report
  look,     \* what is selected, searched, shown and asked
  looks,
  preview,  \* the preview of the selected report
  fetches   \* its requests

serverVars == <<admin, filed, kept>>
listVars == <<listed, total, loads, removing>>
previewVars == <<preview, fetches>>
reportVars == <<serverVars, forms, sends, visits, listVars, look, looks, previewVars>>

Nothing == "nothing"
Unselected == [selected |-> 0, tab |-> FALSE, search |-> FALSE, page |-> 1, asking |-> FALSE]
Unshown == [of |-> Nothing, n |-> 0, shown |-> Nothing, media |-> Nothing, loading |-> FALSE]
Ids == 1..MaxReports

ReportsTypeOK ==
  /\ Len(filed) <= MaxReports /\ kept \subseteq 1..Len(filed) /\ forms \subseteq Messages /\ sends \subseteq Messages
  /\ \A i \in DOMAIN listed : listed[i] \in 1..Len(filed)
  /\ total \in Nat /\ Len(loads) <= 1
  /\ look.selected \in 0..MaxReports /\ look.page \in 1..MaxReports + 1
  /\ (look.tab <=> look.selected # 0) /\ (look.asking => admin)
  /\ preview.of = IF look.selected = 0 THEN Nothing ELSE filed[look.selected]
  /\ \A f \in fetches : f.n <= preview.n

ReportsInit ==
  /\ admin \in BOOLEAN /\ filed \in [1..FirstReports -> Messages] /\ kept = 1..FirstReports
  /\ forms = {} /\ sends = {} /\ visits = 0 /\ listed = <<>> /\ total = 0 /\ loads = <<>> /\ removing = {}
  /\ look = Unselected /\ looks = 0 /\ preview = Unshown /\ fetches = {}

Open == visits % 2 = 1

-----------------------------------------------------------------------------
(* Reporting a message: each message has a dialog of its own; its answer   *)
(* closes it a second time.                                                *)

OpenReportDialog(m) ==
  /\ ~Open /\ forms = {} /\ forms' = {m}
  /\ UNCHANGED <<serverVars, sends, visits, listVars, look, looks, previewVars>>

CloseReportDialog ==
  /\ forms # {} /\ forms' = {}
  /\ UNCHANGED <<serverVars, sends, visits, listVars, look, looks, previewVars>>

OnSubmit(m) ==
  /\ m \in forms /\ m \notin sends /\ Len(filed) + Cardinality(sends) < MaxReports
  /\ sends' = sends \cup {m} /\ forms' = {}
  /\ UNCHANGED <<serverVars, visits, listVars, look, looks, previewVars>>

\* A report that is refused is only logged.
ReportEvent(m, stored) ==
  /\ m \in sends /\ sends' = sends \ {m}
  /\ IF stored THEN /\ filed' = Append(filed, m) /\ kept' = kept \cup {Len(filed')} /\ forms' = forms \ {m}
               ELSE UNCHANGED <<filed, kept, forms>>
  /\ UNCHANGED <<admin, visits, listVars, look, looks, previewVars>>

-----------------------------------------------------------------------------
(* The list of reports.                                                    *)

Visit ==
  /\ ~Open /\ visits < 2 * MaxVisits /\ forms = {} /\ visits' = visits + 1
  /\ listed' = <<>> /\ total' = 0 /\ loads' = <<[from |-> 0, page |-> <<>>, total |-> -1]>>
  /\ look' = Unselected
  /\ UNCHANGED <<serverVars, forms, sends, removing, looks, previewVars>>

\* onBeforeRouteLeave and goToMessage
Leave ==
  /\ Open /\ ~look.asking /\ visits' = visits + 1
  /\ look' = Unselected /\ listed' = <<>> /\ total' = 0 /\ loads' = <<>> /\ preview' = Unshown /\ fetches' = {}
  /\ UNCHANGED <<serverVars, forms, sends, removing, looks>>

\* The reports the server has, each after those that are newer.
NewestFirst == [n \in 1..Cardinality(kept) |-> CHOOSE k \in kept : Cardinality({j \in kept : j > k}) = n - 1]

HandleList ==
  /\ loads # <<>> /\ loads[1].total = -1
  /\ LET q == loads[1] IN
     loads' = <<[q EXCEPT !.page = SubSeq(NewestFirst, q.from + 1, IF q.from + Batch <= Cardinality(kept) THEN q.from + Batch ELSE Cardinality(kept)),
                          !.total = Cardinality(kept)]>>
  /\ UNCHANGED <<serverVars, forms, sends, visits, listed, total, removing, look, looks, previewVars>>

\* fetchReports replaces what was listed, loadMoreReports adds to it.
ListArrives ==
  /\ loads # <<>> /\ loads[1].total # -1
  /\ listed' = IF loads[1].from = 0 THEN loads[1].page ELSE listed \o loads[1].page
  /\ total' = loads[1].total /\ loads' = <<>>
  /\ UNCHANGED <<serverVars, forms, sends, visits, removing, look, looks, previewVars>>

ListFails ==
  /\ loads # <<>> /\ loads' = <<>>
  /\ UNCHANGED <<serverVars, forms, sends, visits, listed, total, removing, look, looks, previewVars>>

LoadMoreReports ==
  /\ Open /\ ~look.asking /\ loads = <<>> /\ Len(listed) < total
  /\ loads' = <<[from |-> Len(listed), page |-> <<>>, total |-> -1]>>
  /\ UNCHANGED <<serverVars, forms, sends, visits, listed, total, removing, look, looks, previewVars>>

\* What is listed at the places S, in the order of the list.
ListedAt(S) == [n \in 1..Cardinality(S) |-> listed[CHOOSE i \in S : Cardinality({j \in S : j <= i}) = n]]

FilteredReports == ListedAt({i \in DOMAIN listed : look.search => filed[listed[i]] \in Found})
TotalPages == IF FilteredReports = <<>> THEN 1 ELSE (Len(FilteredReports) + PageSize - 1) \div PageSize
PaginatedReports == {FilteredReports[i] : i \in {k \in DOMAIN FilteredReports : (k - 1) \div PageSize = look.page - 1}}

\* A change of the search turns to the first page; a shorter list does not.
Search ==
  /\ Open /\ ~look.asking /\ looks < MaxLooks /\ looks' = looks + 1
  /\ look' = [look EXCEPT !.search = ~@, !.page = 1]
  /\ UNCHANGED <<serverVars, forms, sends, visits, listVars, previewVars>>

TurnPage(to) ==
  /\ Open /\ ~look.asking /\ TotalPages > 1 /\ to \in {look.page - 1, look.page + 1}
  /\ to >= 1 /\ (to > look.page => look.page < TotalPages) /\ looks < MaxLooks /\ looks' = looks + 1
  /\ look' = [look EXCEPT !.page = to]
  /\ UNCHANGED <<serverVars, forms, sends, visits, listVars, previewVars>>

-----------------------------------------------------------------------------
(* The selected report and the preview of its message.                     *)

\* The watch of the preview's props; closing the sidebar unmounts it.
Show(id) ==
  IF id = 0 THEN preview' = Unshown /\ fetches' = {}
  ELSE IF preview.of = filed[id] THEN UNCHANGED previewVars
  ELSE LET n == preview.n + 1 IN
       /\ preview' = [preview EXCEPT !.of = filed[id], !.n = n, !.loading = TRUE]
       /\ fetches' = fetches \cup {[n |-> n, of |-> filed[id], media |-> FALSE]}

Select(id) == /\ look' = [look EXCEPT !.selected = id, !.tab = id # 0] /\ Show(id)

HandleSelectReport(id) ==
  /\ Open /\ ~look.asking /\ id \in PaginatedReports /\ looks < MaxLooks /\ looks' = looks + 1
  /\ Select(IF look.selected = id THEN 0 ELSE id)
  /\ UNCHANGED <<serverVars, forms, sends, visits, listVars>>

CloseSidebar ==
  /\ look.tab /\ ~look.asking /\ Select(0)
  /\ UNCHANGED <<serverVars, forms, sends, visits, listVars, looks>>

UncheckedFetch(f) == TRUE
CurrentFetch(f) == f.n = preview.n

\* A picture takes a second request; until it is there the preview loads.
EventArrives(f) ==
  /\ f \in fetches /\ ~f.media
  /\ IF ~CurrentFetch(f) THEN fetches' = fetches \ {f} /\ UNCHANGED preview
     ELSE /\ fetches' = (fetches \ {f}) \cup (IF f.of \in Pictures THEN {[f EXCEPT !.media = TRUE]} ELSE {})
          /\ preview' = [preview EXCEPT !.shown = f.of, !.media = Nothing, !.loading = f.of \in Pictures]
  /\ UNCHANGED <<serverVars, forms, sends, visits, listVars, look, looks>>

MediaArrives(f) ==
  /\ f \in fetches /\ f.media /\ fetches' = fetches \ {f}
  /\ preview' = IF CurrentFetch(f) THEN [preview EXCEPT !.media = f.of, !.loading = FALSE] ELSE preview
  /\ UNCHANGED <<serverVars, forms, sends, visits, listVars, look, looks>>

FetchFails(f) ==
  /\ f \in fetches /\ fetches' = fetches \ {f}
  /\ preview' = IF CurrentFetch(f) THEN [preview EXCEPT !.shown = Nothing, !.media = Nothing, !.loading = FALSE] ELSE preview
  /\ UNCHANGED <<serverVars, forms, sends, visits, listVars, look, looks>>

-----------------------------------------------------------------------------
(* Deleting a report.                                                      *)

\* deleteSelectedReport, up to the question and from the answer on
AskDelete ==
  /\ admin /\ look.tab /\ ~look.asking /\ look' = [look EXCEPT !.asking = TRUE]
  /\ UNCHANGED <<serverVars, forms, sends, visits, listVars, looks, previewVars>>

AnswerDelete(ok) ==
  /\ look.asking /\ look' = [look EXCEPT !.asking = FALSE]
  /\ removing' = IF ok /\ look.selected # 0 THEN removing \cup {[id |-> look.selected, visit |-> visits, done |-> FALSE]} ELSE removing
  /\ UNCHANGED <<serverVars, forms, sends, visits, listed, total, loads, looks, previewVars>>

HandleDelete(r) ==
  /\ r \in removing /\ ~r.done /\ removing' = (removing \ {r}) \cup {[r EXCEPT !.done = TRUE]}
  /\ kept' = kept \ {r.id}
  /\ UNCHANGED <<admin, filed, forms, sends, visits, listed, total, loads, look, looks, previewVars>>

\* Failed or not, the sidebar is closed, whatever it shows by then.
DeleteReport(r) ==
  /\ r \in removing /\ removing' = removing \ {r}
  /\ IF r.done /\ r.visit = visits
     THEN /\ listed' = ListedAt({i \in DOMAIN listed : listed[i] # r.id})
          /\ total' = IF total = 0 THEN 0 ELSE total - 1
     ELSE UNCHANGED <<listed, total>>
  /\ IF Open THEN Select(0) ELSE UNCHANGED <<look, previewVars>>
  /\ UNCHANGED <<serverVars, forms, sends, visits, loads, looks>>

ReportsNext ==
  \/ CloseReportDialog \/ Visit \/ Leave \/ HandleList \/ ListArrives \/ ListFails \/ LoadMoreReports \/ Search \/ CloseSidebar \/ AskDelete
  \/ \E m \in Messages : OpenReportDialog(m) \/ OnSubmit(m) \/ \E stored \in BOOLEAN : ReportEvent(m, stored)
  \/ \E p \in 1..MaxReports + 1 : TurnPage(p)
  \/ \E id \in Ids : HandleSelectReport(id)
  \/ \E f \in fetches : EventArrives(f) \/ MediaArrives(f) \/ FetchFails(f)
  \/ \E ok \in BOOLEAN : AnswerDelete(ok)
  \/ \E r \in removing : HandleDelete(r) \/ DeleteReport(r)

ReportsSpec == ReportsInit /\ [][ReportsNext]_reportVars

-----------------------------------------------------------------------------
(* Properties.                                                             *)

\* What the preview shows once it is loaded, the message and its picture, is of
\* the report that is selected, however late the answers for reports selected
\* before come in; and while it says that it loads, the answer is still to come.
PreviewOfSelection ==
  /\ (~preview.loading => preview.shown \in {preview.of, Nothing} /\ preview.media \in {preview.shown, Nothing})
  /\ (preview.loading => \E f \in fetches : f.n = preview.n)

\* manage-reports.composable.ts:29 has it that the reports are listed newest
\* first.
SortedByTime == \A i, j \in DOMAIN listed : i < j => listed[i] > listed[j]
=============================================================================
