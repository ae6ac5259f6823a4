------------------------------ MODULE MCPages ------------------------------
(***************************************************************************)
(* The pages of the frontend that have a machine of their own, for TLC.    *)
(* Each is open in a tab of its own and they share nothing, so a behaviour *)
(* is that of one page: the others wait in one of their initial states.    *)
(***************************************************************************)
EXTENDS QueuePage, ReportPage, BuddyChat, ReporterPages, Overview

CONSTANTS c1, n1

VARIABLE tab

pagesVars == <<tab, queueVars, reportVars, chatVars, reporterVars, overviewVars>>

\* What may need the Manager: an SOS alert, a request, a check-in that is owed, and
\* two deliveries, of which the figures list only the latest that failed.
MCItems == {"s1", "r1", "c1", "d1", "d2"}
MCKind == "s1" :> "SOS alert" @@ "r1" :> "Request" @@ "c1" :> "Check-in" @@ "d1" :> "Delivery failed"
          @@ "d2" :> "Delivery failed"
MCPerson == "s1" :> "x" @@ "r1" :> "a" @@ "c1" :> "b" @@ "d1" :> "z" @@ "d2" :> "z"

Init ==
    /\ tab \in {"queue", "report", "chat", "reporter", "overview"}
    /\ QueueInit /\ ReportInit /\ ChatInit /\ ReporterInit /\ OverviewInit
    /\ tab # "queue" => isSuperAdmin
    /\ isSuperAdmin => place = [c \in Cases |-> "parked"]
    /\ tab # "reporter" => storage
    /\ waiting = {} \/ (tab = "overview" /\ waiting = Items)
    /\ byAttempt["d1"] = 1

Next ==
    /\ tab' = tab
    /\ \/ tab = "queue" /\ QueueNext /\ UNCHANGED <<reportVars, chatVars, reporterVars, overviewVars>>
       \/ tab = "report" /\ ReportNext /\ UNCHANGED <<queueVars, chatVars, reporterVars, overviewVars>>
       \/ tab = "chat" /\ ChatNext /\ UNCHANGED <<queueVars, reportVars, reporterVars, overviewVars>>
       \/ tab = "reporter" /\ ReporterNext /\ UNCHANGED <<queueVars, reportVars, chatVars, overviewVars>>
       \/ tab = "overview" /\ OverviewNext /\ UNCHANGED <<queueVars, reportVars, chatVars, reporterVars>>

Spec == Init /\ [][Next]_pagesVars

\* The fallback queue polls while it is open, and the network does not lose every
\* answer.  On the Overview the timers run while the tab is visible, and what was
\* asked is answered or fails.
FairSpec ==
    /\ Spec
    /\ WF_queueVars(tab = "queue" /\ Polls) /\ SF_queueVars(tab = "queue" /\ RowsArrive)
    /\ WF_overviewVars(tab = "overview" /\ LoadFigures) /\ WF_overviewVars(tab = "overview" /\ LoadPeople)
    /\ SF_overviewVars(tab = "overview" /\ LoadBanner)
    /\ WF_overviewVars(tab = "overview" /\ ReadInbox) /\ WF_overviewVars(tab = "overview" /\ ServeList)
    /\ WF_overviewVars(tab = "overview" /\ ShowInbox)

\* The page in this tab catches up with the server: the fallback queue, or the inbox
\* and the banner of the Overview (QueuePage, Overview).
QueueConverges == tab = "queue" => QueueCatchesUp
InboxConverges == tab = "overview" => OverviewCatchesUp

\* NeedsYouInbox.tsx:97 "Reload when what the inbox depends on changes": an SOS alert
\* that comes up is in the inbox at last.  (Only the banner shows it.)
SosReachesTheInbox == tab = "overview" => NewSosIsShown

PagesTypeOK == QueueTypeOK /\ ReportTypeOK /\ ChatTypeOK /\ ReporterTypeOK /\ OverviewTypeOK

\* What a page says it is waiting for is under way.
NothingIsAwaitedInVain == NothingStaysBusy /\ ReleaseIsUnderWay /\ AnswerIsAwaited

\* What a page has on screen is the latest it was told and belongs to what its
\* user asked: a report is never replaced by an older state of it, an answer of
\* the AI Buddy follows its own question, and a confirmation shows the Case ID of
\* its own report; and no page waits for what is not under way.
PagesShowTheirOwn ==
    [][/\ NewerDataOnly
       /\ (AnswersFollowQuestions /\ ConfirmsItsOwnReport /\ NothingIsAwaitedInVain /\ PagesTypeOK)']_pagesVars
=============================================================================
