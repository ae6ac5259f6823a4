------------------------------ MODULE MCOffice ------------------------------
(***************************************************************************)
(* The routes and sessions of a tab, the client's case results, and the    *)
(* Manager's pages, for TLC.  As in MCPages each is open in a tab of its   *)
(* own, and a behaviour is that of one tab.                                *)
(***************************************************************************)
EXTENDS AppRoutes

CONSTANTS
    Results, Nobody, MaxSent,                                           \* CaseResults
    NumAuditors, Limits, NoData, MaxOthers, MaxCalls,                   \* ManagerDesk
    Clients, CommunityHub, Ids, Listed, PageSizes, Presets, MaxMoves,   \* ListPages
    Entries, CaseOf, ActionOf, OrgOf, Limit, Window, NoAnswer,          \* HistoryPages
    r1, r2

\* Entries are numbered, a page holds some, and no answer is not an answer.
ASSUME HistoryAssumption ==
    /\ Entries \subseteq Nat \ {0} /\ IsFiniteSet(Entries)
    /\ Limit \in Nat \ {0} /\ Window \in Nat \ {0}
    /\ NoAnswer \notin [to : [case : {""} \cup {CaseOf[e] : e \in Entries},
                             action : {""} \cup {ActionOf[e] : e \in Entries},
                             before : {0} \cup Entries, offset : Nat],
                       events : SUBSET Entries, next : {0} \cup Entries,
                       compared : SUBSET Entries, nextOffset : Nat]

ASSUME DeskAssumption == NumAuditors \in Nat /\ MaxOthers \in Nat

\* A row of a list: its Client, and what the other columns say.
Words(column) == {r[column] : r \in UNION {Listed[p] : p \in DOMAIN Listed}}

ListRow == [org : Clients \cup {"none"}, status : {"none", "DRAFT"} \cup Words("status"),
            flag : {"none"} \cup Words("flag"), auditor : {"none"} \cup Words("auditor"),
            visibility : {"none", "AVAILABLE_TO_AUDITORS", "SUPER_ADMIN_ONLY"} \cup Words("visibility"), tier : Nat]

\* The rows and the Clients are some, a page has rows, ALL is no Client, and an alert
\* has a status.
ASSUME ListAssumption ==
    /\ Ids \subseteq Nat \ {0} /\ IsFiniteSet(Ids) /\ Ids # {}
    /\ PageSizes \subseteq Nat \ {0} /\ IsFiniteSet(PageSizes) /\ PageSizes # {}
    /\ IsFiniteSet(Clients) /\ "ALL" \notin Clients
    /\ DOMAIN Listed = {"cases", "deliveries", "messages", "reports", "sos", "declined", "clientReports",
                       "clientMessages"}
    /\ \A p \in DOMAIN Listed : Listed[p] \subseteq ListRow
    /\ \A r \in Listed["sos"] : r.status \in {"UNACKNOWLEDGED", "IN_PROGRESS", "RESOLVED"}

VARIABLES
    tab,
    tool, outcome, acted, needsAction, resultsQuery, acting, choice, remark, selected, followAll, saving, sent,
    notice,
    page, record, data, deskQuery, form, calls, told, troubles, live, expired, done, others,
    list, served, records, rows, asking, clients, clientId, filter, pager, claim, notices, dialog, moves,
    view, written, fields, historyQuery, org, phase, fetched, historyShown, failed, opened, seen

Portal == INSTANCE CaseResults WITH query <- resultsQuery
Desk == INSTANCE ManagerDesk WITH query <- deskQuery
Listing == INSTANCE ListPages
History == INSTANCE HistoryPages WITH query <- historyQuery, shown <- historyShown

resultsVars == <<tool, outcome, acted, needsAction, resultsQuery, acting, choice, remark, selected, followAll,
                 saving, sent, notice>>
deskVars == <<page, record, data, deskQuery, form, calls, told, troubles, live, expired, done, others>>
listVars == <<list, served, records, rows, asking, clients, clientId, filter, pager, claim, notices, dialog, moves>>
historyVars == <<view, written, fields, historyQuery, org, phase, fetched, historyShown, failed, opened, seen>>

officeVars == <<tab, appVars, resultsVars, deskVars, listVars, historyVars>>

------------------------------------------------------------------------------
(* The instance.                                                           *)

MCVisited ==
    [staff |-> {"/staff/login", "/auditor", "/manager", "/nowhere"},
     client |-> {"/client", "/client/cases", "/client/messages/new", "/communityhub/moderation"}]

\* Rows of every section, of both Clients, and without one.
Case(o, s, f, a, v, t) == [org |-> o, status |-> s, flag |-> f, auditor |-> a, visibility |-> v, tier |-> t]
Row(o, s) == Case(o, s, "none", "none", "none", 0)

Blocked == Case("CH", "AUDITOR_REVIEW", "SOS", "none", "none", 4)
Free == Case("C2", "SUBMITTED", "none", "none", "SUPER_ADMIN_ONLY", 3)
Declined == Case("C2", "AUDITOR_REVIEW", "DECLINED", "none", "SUPER_ADMIN_ONLY", 3)
Owned == Case("none", "AUDITOR_REVIEW", "none", "a1", "none", 2)
Finished == Case("C2", "COMPLETE", "SOS", "a1", "none", 1)

MCListed ==
    "cases" :> {Blocked, Free, Declined, Owned, Finished}
      @@ "deliveries" :> {Row("CH", "SUCCESS"), Row("C2", "NEEDS_ATTENTION")}
      @@ "messages" :> {Row("CH", "SENT"), Row("C2", "ANSWERED"), Row("none", "ANSWERED")}
      @@ "reports" :> {Row("CH", "DRAFT"), Row("C2", "RELEASED")}
      @@ "sos" :> {Row("none", s) : s \in {"UNACKNOWLEDGED", "IN_PROGRESS", "RESOLVED"}}
      @@ "declined" :> {Row("none", "DECLINED")}
      @@ "clientReports" :> {Row("CH", "2026"), Row("CH", "2025")}
      @@ "clientMessages" :> {Row("CH", "SENT"), Row("CH", "ANSWERED")}

Starts ==
    "cases" :> {<<Blocked, Free, Owned>>, <<Declined, Owned, Finished>>}
      @@ "deliveries" :> {<<Row("CH", "SUCCESS"), Row("CH", "SUCCESS"), Row("C2", "NEEDS_ATTENTION")>>}
      @@ "messages" :> {<<Row("C2", "ANSWERED"), Row("C2", "ANSWERED"), Row("none", "ANSWERED")>>}
      @@ "reports" :> {<<Row("CH", "DRAFT"), Row("C2", "RELEASED"), Listing!Absent>>}
      @@ "sos" :> {<<Row("none", "RESOLVED"), Row("none", "RESOLVED"), Row("none", "RESOLVED")>>}
      @@ "declined" :> {<<Row("none", "DECLINED"), Row("none", "DECLINED"), Listing!Absent>>}
      @@ "clientReports" :> {<<Row("CH", "2026"), Row("CH", "2026"), Row("CH", "2025")>>}
      @@ "clientMessages" :> {<<Row("CH", "SENT"), Row("CH", "ANSWERED"), Row("CH", "ANSWERED")>>}

\* Four entries, three of them decisions, one of another case and another Client.
MCCaseOf == <<"a", "b", "a", "a">>
MCActionOf == <<"CASE_RESOLVED", "CASE_RESOLVED", "CASE_ASSIGNED", "CASE_RESOLVED">>
MCOrgOf == <<"CH", "C2", "CH", "CH">>

------------------------------------------------------------------------------
(* Where each page starts; one that is not in the tab waits in one state.  *)

ResultsStart ==
    /\ Portal!ResultsInit
    /\ outcome[r1] = "POLICY_VIOLATION_FOUND" /\ outcome[r2] = "CLOSED_NO_REASSIGNMENT"
    /\ tab # "results" => tool = "results"

\* What a page does not look at is the same at every start of it.
DeskStart ==
    /\ Desk!DeskInit
    /\ record.free = IF page = "reassign" THEN {1, 2} ELSE {1}
    /\ page = "raw" \/ record.aiFailure = "none"
    /\ page = "alert" \/ record.alert = "UNACKNOWLEDGED"
    /\ page = "delivery" \/ (record.delivery = "NEEDS_ATTENTION" /\ ~record.escalated)
    /\ page = "message" \/ ~record.replied
    /\ page = "auditor" \/ (record.limit = 60 /\ record.owed /\ record.request = "OPEN")
    /\ tab # "desk" => page = "message" /\ ~record.replied

ListStart ==
    /\ Listing!ListInit
    /\ served = Clients /\ records \in Starts[list]
    /\ list \notin Listing!ScopedPages => clientId = Listing!ALL
    /\ tab # "lists" => list = "sos"

HistoryStart ==
    /\ History!HistoryInit
    /\ written \in {0, 3}
    /\ tab # "history" => view = "history" /\ written = 0 /\ fields = History!NoFields

Init ==
    /\ tab \in {"app", "results", "desk", "lists", "history"}
    /\ AppInit /\ (tab # "app" => surface = "staff")
    /\ ResultsStart /\ DeskStart /\ ListStart /\ HistoryStart

------------------------------------------------------------------------------
(* Bounds on what is tried together.                                       *)

Count(conditions) == Cardinality({i \in DOMAIN conditions : conditions[i]})

\* A dialog or what was typed in one, or the rows ticked; a notice, or either open.
OneWay ==
    /\ (acting = Nobody /\ remark = Nobody) \/ (selected = {} /\ ~followAll)
    /\ notice = {} \/ (acting = Nobody /\ selected = {} /\ ~followAll)

\* On two of the pages, one kind of call; what others change, or what is typed.
OneConcern ==
    /\ page \in {"reassign", "auditor"} => Cardinality({d.kind : d \in done} \cup {c.kind : c \in calls}) <= 1
    /\ page = "auditor" /\ form.open => form.draft = 0 /\ others = 0
    /\ page = "reassign" => (form.open => form.chosen = 0) /\ (form.note = "own" => others = 0)

\* One filter; a page turned, or the switch of a case.
OneFilter ==
    /\ Count(<<filter.search # 0, filter.status # Listing!ALL, filter.key # "first" \/ filter.reversed,
               filter.view # Listing!None>>) <= 1
    /\ pager.page = 1 \/ claim = Listing!NoClaim
    /\ moves = 0 \/ filter = Listing!NoFilter \/ claim = Listing!NoClaim

\* A timeline, a Client, a filter, or older comparisons.
OneQuestion ==
    /\ Count(<<opened # History!NoCaseOpen, org # History!AllOrgs, fields # History!NoFields,
               historyQuery.offset # 0>>) <= 1
    /\ fields.case = History!Any \/ fields.action = History!Any

Next ==
    /\ tab' = tab
    /\ \/ tab = "app" /\ AppNext
          /\ UNCHANGED <<resultsVars, deskVars, listVars, historyVars>>
       \/ tab = "results" /\ Portal!ResultsNext /\ OneWay'
          /\ UNCHANGED <<appVars, deskVars, listVars, historyVars>>
       \/ tab = "desk" /\ Desk!DeskNext /\ OneConcern'
          /\ UNCHANGED <<appVars, resultsVars, listVars, historyVars>>
       \/ tab = "lists" /\ Listing!ListNext /\ OneFilter'
          /\ UNCHANGED <<appVars, resultsVars, deskVars, historyVars>>
       \/ tab = "history" /\ History!HistoryNext /\ OneQuestion'
          /\ UNCHANGED <<appVars, resultsVars, deskVars, listVars>>

Spec == Init /\ [][Next]_officeVars

------------------------------------------------------------------------------

AppTruth ==
    AppTypeOK /\ RedirectsSettle /\ EndsItsOwnSession /\ NobodyIsTurnedAway /\ ShownWasServed
ResultsTruth == Portal!ResultsTypeOK /\ Portal!NotesStayWithTheirResult /\ Portal!FollowedAsDecided
                /\ Portal!ToldWasRecorded
DeskTruth == Desk!DeskTypeOK /\ Desk!SeenOnceRecorded /\ Desk!SaidIsDone
ListTruth == Listing!ListTypeOK /\ Listing!NoEmptyPage /\ Listing!EveryRowIsListed /\ Listing!OnlyTheChosen
HistoryTruth == History!HistoryTypeOK /\ History!ShownAsAsked /\ History!NothingIsSkipped

\* What a page shows, and says that it did, is so.  The guards come to an end and
\* turn nobody away from their own page; an answer never ends another's session;
\* a page shows what the server gave to the one signed in (AppRoutes).  A note goes
\* out with its result, RCS's decisions are followed as decided, and what is told as
\* recorded was (CaseResults).  Nothing of a case is seen before the access is on
\* record, and what is said was done (ManagerDesk).  No list has an empty page, a row
\* between two sections, or one of another Client (ListPages).  A history shows what
\* was asked for, and turning its pages skips nothing (HistoryPages).
ShownIsTrue ==
    CASE tab = "app" -> AppTruth
      [] tab = "results" -> ResultsTruth
      [] tab = "desk" -> DeskTruth
      [] tab = "lists" -> ListTruth
      [] tab = "history" -> HistoryTruth
=============================================================================
