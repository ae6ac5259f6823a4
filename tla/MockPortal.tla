----------------------------- MODULE MockPortal -----------------------------
(***************************************************************************)
(* The client half of the mock data source (services/mock/b2b.ts): the     *)
(* delivery of results, service reports a Manager releases, the client's   *)
(* access to them, and the messages between a client and RCS. The cases    *)
(* are MockCases', seen as far as deliveries and figures read them: what   *)
(* an Auditor or a Manager does to a case is one of six changes of its row.*)
(*                                                                         *)
(* Every handler is one synchronous updateDb, one action here. The demo's  *)
(* endpoints accept what they are sent ("READY", which no code changes):   *)
(* an attempt fails only when the demo switch has made it. Time passes in  *)
(* ticks for the attempts and in days for the periods.                     *)
(***************************************************************************)
EXTENDS Figures, Sequences, SequencesExt

CONSTANTS Cases,
          Clients, COMMUNITYHUB,
          ClientOf,             \* whose content a case is
          History,              \* the finished cases the demo starts with
          Users,                \* a client's users: [organisation_id, role]
          Periods,              \* of reports (a bound)
          Analyses, Ratings,    \* tiers found and rated here (a bound)
          DELIVERY_MAX_AUTO_ATTEMPTS,
          MaxDay, MaxManual, MaxReports, MaxMessages  \* bounds

Roles == {"REPORTS", "TRUST_SAFETY", "ADMIN"}

\* Cases of the history were decided before the demo began, with both tiers.
Past == {r \in CaseRecord : /\ ~r.live /\ r.status = "COMPLETE"
                            /\ r.created = 0 /\ r.completed = 0
                            /\ r.outcome \in FinalOutcome
                            /\ r.aiTier # NULL /\ r.finalTier # NULL}

ASSUME PortalAssumption ==
    /\ COMMUNITYHUB \in Clients
    /\ ClientOf \in [CaseIds -> Clients]
    /\ History \subseteq Past /\ IsFiniteSet(History)
    /\ Cases \subseteq CaseIds /\ IsFiniteSet(Cases)
    /\ Periods \subseteq Nat \X Nat
    /\ Analyses \subseteq {"S2", "S3"} /\ Ratings \subseteq SeverityTier
    /\ MaxDay \in Nat /\ MaxManual \in Nat /\ MaxReports \in Nat /\ MaxMessages \in Nat
    /\ NULL \notin Nat \cup SeverityTier \cup DeliveredOutcome \cup ManagerFlag
                  \cup {"REMOVED", "KEPT", "lately", "long ago"}
    /\ DOMAIN Users # {} /\ Users \in [DOMAIN Users -> [organisation_id : Clients, role : Roles]]
    /\ DELIVERY_MAX_AUTO_ATTEMPTS \in Nat \ {0}

VARIABLES cases,      \* live cases, NULL before the report
          deliveries, \* DEL-<case id>, NULL before the first decision
          failNext,   \* demo.failNextDelivery
          reports, access, messages,
          told,       \* public_delivery_confirmed, as last looked up
          today

vars == <<cases, deliveries, failNext, reports, access, messages, told, today>>

PlatformAction == {"REMOVED", "KEPT"}

\* due: ticks to next_attempt_at, 0 when it has passed.
Delivery == [case_id : Cases, organisation_id : Clients, status : DeliveryStatus,
             outcome : DeliveredOutcome, completed : Nat,
             automatic : 0..DELIVERY_MAX_AUTO_ATTEMPTS, manual : 0..MaxManual, due : {NULL, 0, 1}, simulate_failure : BOOLEAN,
             escalated : {NULL, "lately", "long ago"}, action : PlatformAction \cup {NULL}]

\* What is missing is not a row.
ASSUME NullIsNoRow == NULL \notin Delivery /\ NULL \notin CaseRecord

\* A report is named by its place in the sequence; version counts those of its
\* client and period.
Report == [organisation_id : Clients, period : Periods, version : 1..MaxReports,
           status : {"DRAFT", "RELEASED"}, note : BOOLEAN,
           metrics : ReportMetrics]

Access == [report : 0..MaxReports, user : DOMAIN Users, action : {"VIEW", "DOWNLOAD"},
           access_result : {"SUCCESS", "DENIED"}]

Message == [user : DOMAIN Users, report : 0..MaxReports,
            status : {"SENT", "SEEN", "ANSWERED"}, reply : BOOLEAN]

TypeOK ==
    /\ cases \in [Cases -> CaseRecord \cup {NULL}]
    /\ deliveries \in [Cases -> Delivery \cup {NULL}]
    /\ failNext \in BOOLEAN
    /\ reports \in Seq(Report) /\ Len(reports) <= MaxReports
    /\ access \subseteq Access
    /\ messages \in Seq(Message) /\ Len(messages) <= MaxMessages
    /\ told \in [Cases -> BOOLEAN]
    /\ today \in 0..MaxDay

Init ==
    /\ cases = [c \in Cases |-> NULL] /\ deliveries = [c \in Cases |-> NULL]
    /\ failNext = FALSE
    /\ reports = <<>> /\ access = {} /\ messages = <<>>
    /\ told = [c \in Cases |-> FALSE] /\ today = 0

-----------------------------------------------------------------------------
(***************************************************************************)
(* Deliveries.                                                             *)
(***************************************************************************)
\* createDeliveryForCase: one for each case, and always to CommunityHub.
CreateDeliveryForCase(sent, c, outcome) ==
    IF sent[c] # NULL THEN sent
    ELSE [sent EXCEPT ![c] =
            [case_id |-> c, organisation_id |-> COMMUNITYHUB, status |-> "PENDING", outcome |-> outcome,
             completed |-> today, automatic |-> 0, manual |-> 0, due |-> 1,
             simulate_failure |-> failNext, escalated |-> NULL, action |-> NULL]]

Sent(d) == [d EXCEPT !.status = "SUCCESS", !.due = NULL]

\* Mutant: a delivery that fails is tried again for ever.
AttemptForEver(d, turn, late) ==
    IF d.status \notin {"PENDING", "RETRYING"} \/ d.due # 0 THEN d
    ELSE LET e == [d EXCEPT !.automatic = @ + 1]
         IN  IF ~d.simulate_failure THEN Sent(e)
             ELSE [e EXCEPT !.status = "RETRYING", !.due = IF turn <= late THEN 0 ELSE 1]

\* One turn of the loop of advanceDeliveries. The next attempt is planned from
\* the date of this one, so it may have passed too: for the first "late" turns.
Attempt(d, turn, late) ==
    IF d.status \notin {"PENDING", "RETRYING"} \/ d.due # 0 THEN d
    ELSE LET e == [d EXCEPT !.automatic = @ + 1]
         IN  IF ~d.simulate_failure THEN Sent(e)
             ELSE IF e.automatic >= DELIVERY_MAX_AUTO_ATTEMPTS
                  THEN [e EXCEPT !.status = "NEEDS_ATTENTION", !.due = NULL]
                  ELSE [e EXCEPT !.status = "RETRYING", !.due = IF turn <= late THEN 0 ELSE 1]

\* The loop: after[n] is the delivery after n turns.
Attempts(d, late) ==
    LET after[n \in 0..DELIVERY_MAX_AUTO_ATTEMPTS] ==
            IF n = 0 THEN d ELSE Attempt(after[n-1], n, late)
    IN  after[DELIVERY_MAX_AUTO_ATTEMPTS]

\* What a read of the deliveries leaves of them.
Advances == {[c \in Cases |-> IF deliveries[c] = NULL THEN NULL
                              ELSE Attempts(deliveries[c], late[c])] :
             late \in [Cases -> 0..DELIVERY_MAX_AUTO_ATTEMPTS - 1]}

-----------------------------------------------------------------------------
(***************************************************************************)
(* The cases, as MockCases' handlers leave them.                           *)
(***************************************************************************)
Others == UNCHANGED <<reports, access, messages, told, today>>

\* The rows the change moves; the deliveries stay.
Changes(c, row) == /\ cases' = [cases EXCEPT ![c] = row]
                   /\ UNCHANGED <<deliveries, failNext>> /\ Others

CreateReport(c) ==
    /\ cases[c] = NULL
    /\ Changes(c, [case_id |-> c, live |-> TRUE, status |-> "AI_PROCESSING", flag |-> NULL, created |-> today,
                   completed |-> NULL, aiTier |-> NULL, finalTier |-> NULL, outcome |-> NULL])

\* advanceSimulatedAi
AnalysisEnds(c) ==
    /\ cases[c] # NULL /\ cases[c].status = "AI_PROCESSING"
    /\ \E t \in Analyses :
         Changes(c, [cases[c] EXCEPT !.status = "READY_FOR_REVIEW", !.aiTier = t, !.finalTier = t])

\* decline, SOS, the daily limit
RouteToManager(c) ==
    /\ cases[c] # NULL /\ cases[c].flag = NULL
    /\ \E f \in ManagerFlag : Changes(c, [cases[c] EXCEPT !.flag = f])

ReassignCase(c) ==
    /\ cases[c] # NULL
    /\ LET analysed == cases[c].aiTier # NULL
       IN  Changes(c, [cases[c] EXCEPT !.flag = NULL,
                         !.status    = IF analysed THEN "READY_FOR_REVIEW" ELSE @,
                         !.completed = IF analysed THEN NULL ELSE @])

Completes(c, outcome, tier) ==
    /\ cases' = [cases EXCEPT ![c].status = "COMPLETE", ![c].completed = today,
                              ![c].outcome = outcome, ![c].finalTier = tier]
    /\ deliveries' = CreateDeliveryForCase(deliveries, c, outcome)
    /\ failNext' = (failNext /\ deliveries[c] # NULL)
    /\ Others

\* With the Auditor's rating, or without one.
ResolveCase(c) ==
    /\ cases[c] # NULL /\ cases[c].flag = NULL
    /\ \E outcome \in FinalOutcome, tier \in {cases[c].aiTier} \cup Ratings : Completes(c, outcome, tier)

CloseWithoutReassignment(c) ==
    /\ cases[c] # NULL
    /\ Completes(c, "CLOSED_NO_REASSIGNMENT", cases[c].finalTier)

-----------------------------------------------------------------------------
(***************************************************************************)
(* Handlers of deliveries.                                                 *)
(***************************************************************************)
\* listDeliveries, getDelivery, getCustomerIntegration, the client's results and
\* their summary, the dashboard: all run what has fallen due.
ListDeliveries == /\ deliveries' \in Advances
                  /\ UNCHANGED <<cases, failNext, reports, access, messages, told, today>>

\* getStatus, the public lookup
GetStatus(c) ==
    /\ cases[c] # NULL
    /\ deliveries' \in Advances
    /\ told' = [told EXCEPT ![c] = /\ cases[c].status = "COMPLETE" /\ deliveries'[c] # NULL
                                   /\ deliveries'[c].status = "SUCCESS"]
    /\ UNCHANGED <<cases, failNext, reports, access, messages, today>>

\* Mutant: a delivery that succeeded meanwhile is sent again.
RetryDeliveryBlindly(c) ==
    /\ deliveries[c] # NULL /\ deliveries[c].manual < MaxManual
    /\ \E sent \in Advances :
         deliveries' = [sent EXCEPT ![c].manual = @ + 1, ![c].status = "NEEDS_ATTENTION"]
    /\ UNCHANGED <<cases, failNext, reports, access, messages, told, today>>

\* What is due runs first; what has succeeded is not sent again.
RetryDelivery(c) ==
    /\ deliveries[c] # NULL /\ deliveries[c].manual < MaxManual
    /\ \E sent \in Advances :
         LET again == [sent[c] EXCEPT !.manual = @ + 1, !.simulate_failure = FALSE]
         IN  deliveries' = IF sent[c].status = "SUCCESS" THEN sent
                           ELSE [sent EXCEPT ![c] = Sent(again)]
    /\ UNCHANGED <<cases, failNext, reports, access, messages, told, today>>

EscalateDelivery(c) ==
    /\ deliveries[c] # NULL
    /\ deliveries' = [deliveries EXCEPT ![c].escalated = "lately"]
    /\ UNCHANGED <<cases, failNext, reports, access, messages, told, today>>

Role(u, allowed) == Users[u].role \in allowed
OwnOf(u)         == Users[u].organisation_id

ClientRecordPlatformAction(u, c, action) ==
    /\ Role(u, {"TRUST_SAFETY", "ADMIN"})
    /\ deliveries[c] # NULL /\ deliveries[c].organisation_id = OwnOf(u)
    /\ deliveries[c].status = "SUCCESS"
    /\ deliveries' = [deliveries EXCEPT ![c].action = action]
    /\ UNCHANGED <<cases, failNext, reports, access, messages, told, today>>

-----------------------------------------------------------------------------
(***************************************************************************)
(* Reports. A Manager makes one for a client and a period, refreshes it    *)
(* while it is a draft, and releases it; a client sees released reports of *)
(* its own, and every answer it gets is logged.                            *)
(***************************************************************************)
Rows          == ({cases[c] : c \in Cases} \ {NULL}) \cup History
Results(sent) == {sent[c] : c \in Cases} \ {NULL}

\* inClient
RowsOf(org)       == {r \in Rows : ClientOf[r.case_id] = org}
SentTo(sent, org) == {d \in Results(sent) : d.organisation_id = org}

SamePeriod(org, p) ==
    {i \in DOMAIN reports : reports[i].organisation_id = org /\ reports[i].period = p}

Draft(i) == reports[i].status = "DRAFT"

\* Mutant: every generation is a new version.
GenerateReportAnew(org, p) ==
    /\ Len(reports) < MaxReports
    /\ deliveries' \in Advances
    /\ reports' = Append(reports, [organisation_id |-> org, period |-> p, status |-> "DRAFT",
                       version |-> 1 + Cardinality({i \in SamePeriod(org, p) : ~Draft(i)}),
                       note |-> FALSE,
                       metrics |-> ComputeMetrics(RowsOf(org), SentTo(deliveries', org), p)])
    /\ UNCHANGED <<cases, failNext, access, messages, told, today>>

GenerateReport(org, p) ==
    LET drafts == {i \in SamePeriod(org, p) : Draft(i)}
        newest == Max({0} \cup {reports[i].version : i \in SamePeriod(org, p)})
    IN  /\ deliveries' \in Advances
        /\ LET metrics == ComputeMetrics(RowsOf(org), SentTo(deliveries', org), p)
           IN  IF drafts # {}
               THEN reports' = [reports EXCEPT ![Min(drafts)].metrics = metrics]
               ELSE /\ Len(reports) < MaxReports
                    /\ reports' = Append(reports,
                          [organisation_id |-> org, period |-> p, version |-> newest + 1,
                           status |-> "DRAFT", note |-> FALSE, metrics |-> metrics])
        /\ UNCHANGED <<cases, failNext, access, messages, told, today>>

\* Mutant: a released report can still be annotated.
UpdateReportNoteAlways(i) ==
    /\ \E note \in BOOLEAN : reports' = [reports EXCEPT ![i].note = note]
    /\ UNCHANGED <<cases, deliveries, failNext, access, messages, told, today>>

UpdateReportNote(i) ==
    /\ Draft(i)
    /\ \E note \in BOOLEAN : reports' = [reports EXCEPT ![i].note = note]
    /\ UNCHANGED <<cases, deliveries, failNext, access, messages, told, today>>

ReleaseReport(i) ==
    /\ Draft(i)
    /\ reports' = [reports EXCEPT ![i].status = "RELEASED"]
    /\ UNCHANGED <<cases, deliveries, failNext, access, messages, told, today>>

\* Mutant: a report that is released is anybody's.
ReleasedToAnybody(u, i) == i \in DOMAIN reports /\ ~Draft(i)

\* A released report of the user's own organisation.
ReleasedTo(u, i) == /\ i \in DOMAIN reports /\ ~Draft(i)
                    /\ reports[i].organisation_id = OwnOf(u)

\* authoriseClientReport, for clientGetReport and clientRecordDownload. The id may
\* be any a client has seen or guessed, and the answer to a refusal says nothing.
AuthoriseClientReport(u, i, action) ==
    /\ Role(u, {"REPORTS", "ADMIN"})
    /\ access' = access \cup
         {[report |-> i, user |-> u, action |-> action,
           access_result |-> IF ReleasedTo(u, i) THEN "SUCCESS" ELSE "DENIED"]}
    /\ UNCHANGED <<cases, deliveries, failNext, reports, messages, told, today>>

-----------------------------------------------------------------------------
(***************************************************************************)
(* Messages, the demo switch, and time.                                    *)
(***************************************************************************)
\* About a report of theirs or, with 0, about none.
ClientSendMessage(u, i) ==
    /\ Len(messages) < MaxMessages
    /\ i = 0 \/ ReleasedTo(u, i)
    /\ messages' = Append(messages, [user |-> u, report |-> i, status |-> "SENT", reply |-> FALSE])
    /\ UNCHANGED <<cases, deliveries, failNext, reports, access, told, today>>

\* getClientMessage, by a Manager
GetClientMessage(m) ==
    /\ messages[m].status = "SENT"
    /\ messages' = [messages EXCEPT ![m].status = "SEEN"]
    /\ UNCHANGED <<cases, deliveries, failNext, reports, access, told, today>>

ReplyClientMessage(m) ==
    /\ messages' = [messages EXCEPT ![m].status = "ANSWERED", ![m].reply = TRUE]
    /\ UNCHANGED <<cases, deliveries, failNext, reports, access, told, today>>

FailNextDelivery == /\ failNext' = TRUE
                    /\ UNCHANGED <<cases, deliveries, reports, access, messages, told, today>>

Elapsed(d) == IF d = NULL THEN NULL ELSE [d EXCEPT !.due = IF @ = NULL THEN NULL ELSE 0]

Tick == /\ deliveries' = [c \in Cases |-> Elapsed(deliveries[c])]
        /\ UNCHANGED <<cases, failNext, reports, access, messages, told, today>>

NextDay ==
    /\ today < MaxDay /\ today' = today + 1
    /\ deliveries' = [c \in Cases |->
          IF deliveries[c] = NULL \/ deliveries[c].escalated = NULL THEN Elapsed(deliveries[c])
          ELSE [Elapsed(deliveries[c]) EXCEPT !.escalated = "long ago"]]
    /\ UNCHANGED <<cases, failNext, reports, access, messages, told>>

Next ==
    \/ \E c \in Cases : \/ CreateReport(c) \/ AnalysisEnds(c) \/ RouteToManager(c)
                        \/ ReassignCase(c) \/ ResolveCase(c) \/ CloseWithoutReassignment(c)
                        \/ GetStatus(c) \/ RetryDelivery(c) \/ EscalateDelivery(c)
    \/ \E u \in DOMAIN Users, c \in Cases, action \in PlatformAction :
          ClientRecordPlatformAction(u, c, action)
    \/ \E org \in Clients, p \in Periods : GenerateReport(org, p)
    \/ \E i \in DOMAIN reports : UpdateReportNote(i) \/ ReleaseReport(i)
    \/ \E u \in DOMAIN Users, i \in 0..MaxReports :
          \/ ClientSendMessage(u, i)
          \/ \E action \in {"VIEW", "DOWNLOAD"} : AuthoriseClientReport(u, i, action)
    \/ \E m \in DOMAIN messages : GetClientMessage(m) \/ ReplyClientMessage(m)
    \/ ListDeliveries \/ FailNextDelivery \/ Tick \/ NextDay

Spec == Init /\ [][Next]_vars

-----------------------------------------------------------------------------
(***************************************************************************)
(* Properties                                                              *)
(***************************************************************************)
\* A report is generated, refreshed and released in any order: a period of a
\* client has at most one draft, newer than all it has released, and no two
\* reports of it are the same version.
ReportsAreVersioned ==
    \A i, j \in DOMAIN reports :
        i # j /\ reports[i].organisation_id = reports[j].organisation_id
              /\ reports[i].period = reports[j].period
            => /\ reports[i].version # reports[j].version
               /\ Draft(i) => ~Draft(j) /\ reports[j].version < reports[i].version

\* What has left RCS is not taken back: a released report keeps its figures and its
\* note while the cases move on, the log of who asked for it only grows, and a
\* message never looks less answered than it was, whoever opens it again.
RecordIsKept ==
    [][/\ \A i \in DOMAIN reports : ~Draft(i) => reports'[i] = reports[i]
       /\ access \subseteq access'
       /\ \A m \in DOMAIN messages :
            /\ messages[m].status = "SEEN" => messages'[m].status # "SENT"
            /\ messages[m].status = "ANSWERED" => messages'[m] = messages[m]]_vars

TheirsToSee(u, i) == /\ i \in DOMAIN reports /\ reports[i].status = "RELEASED"
                     /\ reports[i].organisation_id = Users[u].organisation_id

\* "Deny by default": what a user was shown, or wrote about, is a released report of
\* their own organisation.
ClientsStayHome ==
    /\ \A e \in access : e.access_result = "SUCCESS" => TheirsToSee(e.user, e.report)
    /\ \A m \in DOMAIN messages :
          messages[m].report = 0 \/ TheirsToSee(messages[m].user, messages[m].report)

\* The figures of every period agree, for a client and for all of them, at any
\* moment of the cases' and the deliveries' lives.
PagesAgree ==
    \A p \in (0..MaxDay) \X (0..MaxDay) : p[1] <= p[2] =>
        /\ SameStory(Rows, Results(deliveries), p, today)
        /\ \A org \in Clients : SameStory(RowsOf(org), SentTo(deliveries, org), p, today)

\* The rows keep their types, and the figures of every page agree.
PortalIsSound == TypeOK /\ PagesAgree

StageOf(d) == IF d = NULL THEN "none"
              ELSE [PENDING |-> "on_its_way", RETRYING |-> "on_its_way",
                    NEEDS_ATTENTION |-> "with_manager", SUCCESS |-> "delivered"][d.status]

Promise(c) == INSTANCE ResultDelivery
                WITH Deliveries <- {c},
                     stage  <- [d \in {c} |-> StageOf(deliveries[d])],
                     action <- [d \in {c} |-> IF deliveries[d] = NULL THEN NULL
                                              ELSE deliveries[d].action],
                     told   <- [d \in {c} |-> told[d]]

\* The stand-in keeps the backend's promise for every result.
KeepsPromise ==
    /\ \A c \in Cases : Promise(c)!Init
    /\ [][\A c \in Cases : Promise(c)!Next \/ UNCHANGED Promise(c)!vars]_vars
=============================================================================
