----------------------------- MODULE ListPages -----------------------------
(***************************************************************************)
(* The pages that list things: for Managers the cases, the deliveries, the *)
(* clients' messages, the reports, the SOS alerts and the declined cases;  *)
(* for a client its reports and its messages                               *)
(* (src/frontend/src/pages/manager, .../client).                           *)
(*                                                                         *)
(* A page loads a list once.  What is shown of it depends on the Client    *)
(* the Manager has chosen, on filters and an order, and is cut into        *)
(* sections, one of which is turned page by page.  From the reports page a *)
(* new report is made in a dialog.                                         *)
(***************************************************************************)
EXTENDS Integers, FiniteSets

CONSTANTS
    Clients,        \* the Clients RCS may serve
    CommunityHub,   \* the one that records without a Client belong to
    Ids,            \* what is listed: a greater number is newer
    Listed,         \* [ListPage -> the rows its list may hold]
    PageSizes,      \* the smallest is where a pager appears
    Presets,        \* the reporting periods
    MaxMoves        \* bound: changes of what is listed

VARIABLES
    list,           \* the page
    served,         \* the Clients the server knows
    records,        \* the server's rows
    rows,           \* as loaded
    asking,         \* whether a load is in flight
    clients,        \* the Clients as loaded
    clientId,       \* the Client chosen, kept for every page of the browser tab
    filter,
    pager,
    claim,          \* the switch "Auditors can claim" of one case
    notices,
    dialog,         \* the dialog that makes a report
    moves

listVars == <<list, served, records, rows, asking, clients, clientId, filter, pager, claim, notices, dialog, moves>>

ScopedPages == {"cases", "deliveries", "messages", "reports"}
UnscopedPages == {"sos", "declined"}
OwnPages == {"clientReports", "clientMessages"}
ListPage == ScopedPages \cup UnscopedPages \cup OwnPages

ALL == "ALL"
None == "none"
Absent == [org |-> None, status |-> None, flag |-> None, auditor |-> None, visibility |-> None, tier |-> 0]
Unloaded == [i \in Ids |-> Absent]

NoFilter == [view |-> None, search |-> 0, status |-> ALL, key |-> "first", reversed |-> FALSE]
SmallestSize == CHOOSE s \in PageSizes : \A t \in PageSizes : s <= t
FirstPage == [page |-> 1, size |-> SmallestSize]
NoClaim == [id |-> 0, step |-> None, allow |-> FALSE]
NewDialog == [open |-> FALSE, chosen |-> None, preset |-> "previous-month", range |-> FALSE, step |-> None]

\* The views a link may open a page with: a stage of the cases, a tab of the deliveries.
Stages == {"SUBMITTED", "AUDITOR_REVIEW", "MANAGER_ACTION"}
Linked(p) == {None} \cup IF p = "cases" THEN Stages ELSE IF p = "deliveries" THEN {"needs-attention", "all"} ELSE {}

\* One page at a time; the choice of a Client may come from an earlier one.
ListInit ==
    /\ list \in ListPage
    /\ served \in SUBSET Clients \ {{}}
    /\ records \in [Ids -> Listed[list] \cup {Absent}]
    /\ rows = Unloaded /\ asking = TRUE
    /\ clients = {} /\ clientId \in Clients \cup {ALL}
    /\ \E v \in Linked(list) : filter = [NoFilter EXCEPT !.view = v]
    /\ pager = FirstPage
    /\ claim = NoClaim /\ notices = {}
    /\ dialog = NewDialog
    /\ moves = 0

------------------------------------------------------------------------------
(* Whose rows are shown.                                                   *)

\* With one Client there is nothing to choose; a choice that is not known is none.
Scope == IF Cardinality(clients) = 1 THEN CHOOSE c \in clients : TRUE
         ELSE IF clientId \in clients THEN clientId ELSE ALL

Selected == IF Scope \in clients THEN Scope ELSE None

ClientOf(r) == IF r.org = None THEN CommunityHub ELSE r.org

\* Mutant: a record without a Client is everybody's.
InAnyScope(r) == Scope = ALL \/ r.org \in {None, Scope}

InScope(r) == Scope = ALL \/ ClientOf(r) = Scope

InList == {i \in Ids : rows[i] # Absent /\ (list \in ScopedPages => InScope(rows[i]))}

------------------------------------------------------------------------------
(* The sections of each page.                                              *)

\* Cases.
\* Mutant: a case that nobody has is waiting, whoever is to decide about it.
IsUnowned(r) == /\ r.auditor = None /\ r.status # "COMPLETE"
                /\ r.visibility \in {"SUPER_ADMIN_ONLY", "AVAILABLE_TO_AUDITORS"}

IsWaiting(r) == /\ r.auditor = None /\ r.flag = None /\ r.status # "COMPLETE"
                /\ r.visibility \in {"SUPER_ADMIN_ONLY", "AVAILABLE_TO_AUDITORS"}

AttentionOf(r) == IF r.status = "COMPLETE" \/ r.flag = None THEN None
                  ELSE IF r.flag = "SOS" THEN "blocked" ELSE "reassign"

\* What the status column and the status filter say.
StatusLabel(r) == IF list = "cases" /\ AttentionOf(r) # None THEN AttentionOf(r) ELSE r.status

\* A case that waits for a decision is in no other stage.
Stage(r) == IF r.status = "COMPLETE" THEN "COMPLETE" ELSE IF r.flag # None THEN "MANAGER_ACTION" ELSE r.status

DetailPage(r) == IF r.flag = "SOS" THEN "sos" ELSE IF r.flag # None THEN "reassign" ELSE "review"

\* Whether the views picked on the page and the filters let a row through.
Matching(i) ==
    /\ filter.search \in {0, i}
    /\ filter.status \in {ALL, StatusLabel(rows[i])}
    /\ list = "cases" => filter.view \in {None, Stage(rows[i])}

NeedsAttention == {i \in InList : rows[i].status = "NEEDS_ATTENTION"}
Unanswered == {i \in InList : rows[i].status # "ANSWERED"}

\* The view a tab shows: the one picked, or what is still open if anything is.
DeliveryView == IF filter.view = "needs-attention" \/ (filter.view = None /\ NeedsAttention # {})
                THEN "needs-attention" ELSE "all"
MessageView == IF filter.view # None THEN filter.view ELSE IF Unanswered # {} THEN "waiting" ELSE "all"

InView(i) ==
    CASE list = "deliveries" -> DeliveryView = "all" \/ i \in NeedsAttention
      [] list = "clientMessages" ->
           MessageView = "all" \/ (MessageView = "waiting") = (i \in Unanswered)
      [] OTHER -> TRUE

\* The three tables of the cases, of which each has its own condition; the two of the
\* messages.
CaseSections(r) ==
    {t \in {"needing", "waiting", "others"} :
       \/ t = "needing" /\ AttentionOf(r) # None
       \/ t = "waiting" /\ IsWaiting(r)
       \/ t = "others" /\ AttentionOf(r) = None /\ ~IsWaiting(r)}

MessageSections(r) == {IF r.status # "ANSWERED" THEN "waiting" ELSE "answered"}

\* The three tables of the alerts.  One of another status is in none.
AlertStatuses == {"UNACKNOWLEDGED", "IN_PROGRESS", "RESOLVED"}
AlertSections(r) == {s \in AlertStatuses : r.status = s}

Sections(i) ==
    CASE list = "cases" -> CaseSections(rows[i])
      [] list = "messages" -> MessageSections(rows[i])
      [] list = "sos" -> AlertSections(rows[i])
      [] OTHER -> {"all"}

\* The section that is turned page by page, if the page has one.
PagedSection ==
    CASE list = "cases" -> "others"
      [] list = "messages" -> "answered"
      [] list = "sos" -> "RESOLVED"
      [] list \in {"deliveries", "clientReports", "clientMessages"} -> "all"
      [] OTHER -> None

InSection(s) == {i \in InList : Matching(i) /\ InView(i) /\ s \in Sections(i)}

\* The order: by severity, or whatever column was picked; else the newest first.
Before(i, j) ==
    LET first == IF filter.key = "first" /\ list = "cases" /\ rows[i].tier # rows[j].tier
                 THEN rows[i].tier > rows[j].tier ELSE i > j
    IN IF filter.reversed THEN ~first ELSE first

\* The rows above a row in that order.
RowsAbove(i) == {j \in InSection(PagedSection) : j # i /\ Before(j, i)}

------------------------------------------------------------------------------
(* Paging.                                                                 *)

RowCount == Cardinality(InSection(PagedSection))

LastPage == IF RowCount = 0 THEN 1 ELSE (RowCount + pager.size - 1) \div pager.size

\* Mutant: the page is where it was left.
UncheckedPage == pager.page

\* usePagination never stays beyond the last page.  The deliveries page, which turns
\* its own pages, does.
CurrentPage == IF list # "deliveries" /\ pager.page > LastPage THEN LastPage ELSE pager.page

\* The slice of a page: all but the rows of the pages before it, up to its size.
PageRows(p) ==
    {i \in InSection(PagedSection) :
       LET above == Cardinality(RowsAbove(i)) IN (p - 1) * pager.size <= above /\ above < p * pager.size}

PagerShown == PagedSection # None /\ RowCount > SmallestSize

\* What sends the list back to its first page.
ResetKey ==
    CASE list \in {"messages", "sos"} -> <<RowCount>>
      [] list = "deliveries" -> <<>>
      [] list = "clientMessages" -> <<MessageView, filter>>
      [] OTHER -> <<filter>>

\* With every change the page is rendered again.
Rerender == pager' = IF ResetKey' = ResetKey THEN pager ELSE [pager EXCEPT !.page = 1]

TurnPage ==
    /\ PagerShown
    /\ \/ \E p \in 1..LastPage \ {CurrentPage} : pager' = [pager EXCEPT !.page = p]
       \/ \E s \in PageSizes \ {pager.size} : pager' = [page |-> 1, size |-> s]
    /\ UNCHANGED <<list, served, records, rows, asking, clients, clientId, filter, claim, notices, dialog, moves>>

------------------------------------------------------------------------------
(* Loading, choosing a Client, filtering.                                  *)

LoadRows ==
    /\ asking
    /\ rows' = records
    /\ asking' = FALSE
    /\ UNCHANGED <<list, served, records, clients, clientId, filter, claim, notices, dialog, moves>>
    /\ Rerender

RowsNotLoaded ==
    /\ asking
    /\ asking' = FALSE
    /\ UNCHANGED <<list, served, records, rows, clients, clientId, filter, pager, claim, notices, dialog, moves>>

\* By the selector and by the page, once each.
LoadClients ==
    /\ clients = {} /\ list \in ScopedPages
    /\ clients' = served
    /\ UNCHANGED <<list, served, records, rows, asking, clientId, filter, claim, notices, dialog, moves>>
    /\ Rerender

\* The selector, which is there with more than one Client; and "Show all Clients" of
\* the messages page.
ChooseClient ==
    /\ Cardinality(clients) > 1
    /\ \E c \in (clients \cup {ALL}) \ {clientId} : clientId' = c
    /\ UNCHANGED <<list, served, records, rows, asking, clients, filter, claim, notices, dialog, moves>>
    /\ Rerender

WaitingElsewhere ==
    IF Selected = None THEN {}
    ELSE {i \in Ids : rows[i] # Absent /\ rows[i].status # "ANSWERED" /\ ~InScope(rows[i])}

ShowAllClients ==
    /\ list = "messages" /\ WaitingElsewhere # {}
    /\ clientId' = ALL
    /\ UNCHANGED <<list, served, records, rows, asking, clients, filter, claim, notices, dialog, moves>>
    /\ Rerender

\* The views and filters each page has.
Views(p) ==
    CASE p = "cases" -> {None}
      [] p = "deliveries" -> {"needs-attention", "all"}
      [] p = "clientMessages" -> {"waiting", "answered", "all"}
      [] OTHER -> {}

Searched == {"cases", "deliveries"} \cup OwnPages
FilteredByStatus == {"cases"} \cup OwnPages
Sorted == {"cases"} \cup OwnPages

\* A tab or a search starts the deliveries page on its first page; where a key is
\* given, Rerender does.
FilterTo(f) ==
    /\ filter' = f
    /\ UNCHANGED <<list, served, records, rows, asking, clients, clientId, claim, notices, dialog, moves>>
    /\ IF list = "deliveries" THEN pager' = [pager EXCEPT !.page = 1] ELSE Rerender

PickView == \E v \in Views(list) \ {filter.view} : FilterTo([filter EXCEPT !.view = v])
Search == list \in Searched /\ \E i \in (Ids \cup {0}) \ {filter.search} : FilterTo([filter EXCEPT !.search = i])
FilterByStatus ==
    /\ list \in FilteredByStatus
    /\ \E s \in ({ALL} \cup {StatusLabel(rows[i]) : i \in InList}) \ {filter.status} : FilterTo([filter EXCEPT !.status = s])

\* A heading once more turns the order around.
SortBy ==
    /\ list \in Sorted
    /\ \E k \in {"first", "newest"} :
         FilterTo([filter EXCEPT !.key = k, !.reversed = IF k = filter.key THEN ~@ ELSE FALSE])

\* What is listed changes on the server.
RecordChanges ==
    /\ moves < MaxMoves
    /\ moves' = moves + 1
    /\ \E i \in Ids, r \in Listed[list] \cup {Absent} : r # records[i] /\ records' = [records EXCEPT ![i] = r]
    /\ UNCHANGED <<list, served, rows, asking, clients, clientId, filter, pager, claim, notices, dialog>>

------------------------------------------------------------------------------
(* "Auditors can claim", on a case that waits.                             *)

Waits(i) == list = "cases" /\ i \in InSection("waiting")

\* On is confirmed in a dialog first; off is not.
ToggleClaim ==
    /\ claim.step = None
    /\ \E i \in InList :
         /\ Waits(i)
         /\ LET on == rows[i].visibility # "AVAILABLE_TO_AUDITORS" IN
            claim' = [id |-> i, step |-> IF on THEN "asked" ELSE "sent", allow |-> on]
    /\ UNCHANGED <<list, served, records, rows, asking, clients, clientId, filter, pager, notices, dialog, moves>>

ConfirmClaim ==
    /\ claim.step = "asked"
    /\ \E s \in {"sent", None} : claim' = IF s = None THEN NoClaim ELSE [claim EXCEPT !.step = s]
    /\ UNCHANGED <<list, served, records, rows, asking, clients, clientId, filter, pager, notices, dialog, moves>>

\* The case may have gone to an Auditor since.  Either way the list is loaded again.
ClaimSettled ==
    /\ claim.step = "sent"
    /\ LET waits == records[claim.id] # Absent /\ IsWaiting(records[claim.id]) IN
       \/ /\ waits
          /\ records' = [records EXCEPT ![claim.id].visibility =
                           IF claim.allow THEN "AVAILABLE_TO_AUDITORS" ELSE "SUPER_ADMIN_ONLY"]
          /\ \E told \in {"done", "failed"} : notices' = {[id |-> claim.id, told |-> told, allow |-> claim.allow]}
       \/ records' = records /\ notices' = {[id |-> claim.id, told |-> "failed", allow |-> claim.allow]}
    /\ claim' = NoClaim
    /\ asking' = TRUE
    /\ UNCHANGED <<list, served, rows, clients, clientId, filter, pager, dialog, moves>>

------------------------------------------------------------------------------
(* A new report.                                                           *)

\* The Client chosen in the dialog before, or that of the selector, or the first.
ReportClient ==
    IF dialog.chosen # None THEN dialog.chosen
    ELSE IF Selected # None THEN Selected
    ELSE IF clients = {} THEN None ELSE CHOOSE c \in clients : TRUE

SetDialog(d) ==
    /\ dialog' = d
    /\ UNCHANGED <<list, served, records, rows, asking, clients, clientId, filter, pager, claim, notices, moves>>

OpenGenerate == list = "reports" /\ ~dialog.open /\ SetDialog([dialog EXCEPT !.open = TRUE])

\* What was chosen is kept for the next time.
CloseGenerate == dialog.open /\ dialog.step # "generating" /\ SetDialog([dialog EXCEPT !.open = FALSE])

FillGenerate ==
    /\ dialog.open
    /\ \/ \E c \in clients \ {dialog.chosen} : SetDialog([dialog EXCEPT !.chosen = c])
       \/ \E p \in Presets \ {dialog.preset} :
            SetDialog([dialog EXCEPT !.preset = p, !.step = IF @ = "failed" THEN None ELSE @])
       \/ /\ dialog.preset = "custom"
          /\ SetDialog([dialog EXCEPT !.range = ~@, !.step = IF @ = "failed" THEN None ELSE @])

Generate ==
    /\ dialog.open /\ dialog.step # "generating" /\ ReportClient # None
    /\ SetDialog([dialog EXCEPT !.step = IF dialog.preset = "custom" /\ ~dialog.range THEN "failed" ELSE "generating"])

\* The draft opens on a page of its own, and the list is anew when the Manager comes
\* back; or the dialog says what went wrong, though the draft may have been made.
Generated ==
    /\ dialog.step = "generating"
    /\ \E i \in Ids :
         /\ records[i] = Absent
         /\ records' = [records EXCEPT ![i] = [Absent EXCEPT !.org = ReportClient, !.status = "DRAFT"]]
         /\ \/ /\ dialog' = NewDialog /\ filter' = NoFilter /\ pager' = FirstPage
               /\ rows' = Unloaded /\ asking' = TRUE /\ clients' = {}
            \/ /\ dialog' = [dialog EXCEPT !.step = "failed"]
               /\ UNCHANGED <<filter, pager, rows, asking, clients>>
    /\ UNCHANGED <<list, served, clientId, claim, notices, moves>>

NotGenerated ==
    /\ dialog.step = "generating"
    /\ SetDialog([dialog EXCEPT !.step = "failed"])

ListNext ==
    \/ LoadRows \/ RowsNotLoaded \/ LoadClients \/ ChooseClient \/ ShowAllClients
    \/ PickView \/ Search \/ FilterByStatus \/ SortBy \/ TurnPage \/ RecordChanges
    \/ ToggleClaim \/ ConfirmClaim \/ ClaimSettled
    \/ OpenGenerate \/ CloseGenerate \/ FillGenerate \/ Generate \/ Generated \/ NotGenerated

------------------------------------------------------------------------------
(* What a list promises.                                                   *)

ListTypeOK ==
    /\ list \in ListPage /\ clients \subseteq served
    /\ pager.page \in 1..Cardinality(Ids) /\ pager.size \in PageSizes
    /\ claim.id \in Ids \cup {0} /\ dialog.chosen \in Clients \cup {None}

\* A list that has rows never shows an empty page, whatever was filtered, turned,
\* loaded again or chosen since (usePagination, TablePagination.tsx 11-29).
NoEmptyPage ==
    PagedSection # None /\ list # "deliveries" /\ RowCount > 0 => PageRows(CurrentPage) # {}

\* Every row of the list is in one section, and every row of the section that is
\* turned is on one of its pages: nothing that waits for a decision is between two
\* sections, or in two.
EveryRowIsListed ==
    /\ \A i \in InList : Cardinality(Sections(i)) = 1
    /\ PagedSection # None =>
         \A i \in InSection(PagedSection) : Cardinality({p \in 1..LastPage : i \in PageRows(p)}) = 1

\* Once the Clients are known, a Manager who has chosen one sees no other's rows.
OnlyTheChosen ==
    list \in ScopedPages /\ clients # {} /\ clientId \in served => \A i \in InList : ClientOf(rows[i]) = clientId

\* GenerateReportDialog.tsx 38-39: "With a Client selected in the header it is already
\* chosen": whenever the dialog opens.
HeaderClientIsChosen ==
    [][~dialog.open /\ dialog'.open /\ Selected # None => ReportClient = Selected]_listVars
=============================================================================
