--------------------------- MODULE ReporterPages ---------------------------
(***************************************************************************)
(* A Reporter's tab: the report form (UploadPage), the confirmation with   *)
(* the Case ID (CaseIdConfirmationPage) and the status lookup              *)
(* (StatusLookupPage, AddCaseInformationModal).                            *)
(*                                                                         *)
(* There is no account: the Case ID reaches the Reporter in the answer of  *)
(* the submission, is kept in the browser's localStorage (which another    *)
(* tab may write, and which may be blocked) and in the state of the        *)
(* navigation. A request is carried out at one moment and answered at      *)
(* another; either can fail. The limit of invalid lookups is the server's. *)
(*                                                                         *)
(* A link or the Back button leaves a page without stopping handleSubmit:  *)
(* when the answer comes it saves the Case ID and opens the confirmation   *)
(* over whatever page is open by then. Only a new load of the tab stops    *)
(* it. Several submissions can so be under way.                            *)
(***************************************************************************)
EXTENDS Naturals

CONSTANTS
    Parts,          \* what a report needs: evidence, contact details if named, consent
    NoCase,
    MaxReports,     \* bound: reports made from this browser
    MaxLeft         \* bound: submissions unanswered whose form was left

ASSUME MaxReportsAssumption == MaxReports \in Nat /\ MaxLeft \in Nat

VARIABLES
    reports,        \* how many reports the server made a case of: cases 1..reports
    stored,         \* rcs_last_case in localStorage
    storage,        \* localStorage can be written
    view,           \* the page of this tab and what it holds
    visited,        \* the confirmations in the history of this tab
    submission,     \* the request of handleSubmit of the form that is open
    left,           \* those of forms that were left: how many are sent, and their cases
    lookup          \* the request of handleCheckStatus

reporterVars == <<reports, stored, storage, view, visited, submission, left, lookup>>

CaseIds == 1..MaxReports

ReporterTypeOK ==
    /\ reports \in 0..MaxReports
    /\ stored \in CaseIds \cup {NoCase}
    /\ storage \in BOOLEAN
    /\ view \in [page : {"form", "failed", "confirmation", "lookup", "result"},
                 missing : SUBSET Parts, errors : SUBSET Parts, refused : BOOLEAN,
                 navigated : CaseIds \cup {NoCase},    \* the ID in the navigation state
                 input : CaseIds \cup {NoCase},        \* NoCase: an ID that is nobody's
                 notice : {"none", "not-found", "locked-out", "other"},
                 more : {"none", "open", "sending", "added"},
                 submitted : CaseIds \cup {NoCase}]    \* what this page was opened for
    /\ visited \subseteq CaseIds
    /\ left \in [sent : 0..MaxLeft, made : SUBSET CaseIds]
    /\ submission \in [at : {"none", "sent", "refused", "failed"}, case : {NoCase}]
                      \cup [at : {"made"}, case : CaseIds]
    /\ lookup \in [at : {"none", "sent", "found", "not-found", "locked-out", "other"},
                   id : CaseIds \cup {NoCase}]

Idle == [at |-> "none", case |-> NoCase]
NoLookup == [at |-> "none", id |-> NoCase]
NoneLeft == [sent |-> 0, made |-> {}]

Page(page) == [page |-> page, missing |-> Parts, errors |-> {}, refused |-> FALSE, navigated |-> NoCase,
               input |-> IF page = "lookup" THEN stored ELSE NoCase, notice |-> "none", more |-> "none",
               submitted |-> NoCase]

ReporterInit ==
    /\ reports = 0
    /\ stored = NoCase
    /\ storage \in BOOLEAN
    /\ view = Page("form")
    /\ visited = {}
    /\ submission = Idle /\ left = NoneLeft
    /\ lookup = NoLookup

------------------------------------------------------------------------------
(* The report form.                                                        *)

\* A part is given, or taken back; giving one takes its error away. A file or a
\* link that does not fit is an error at once.
Give(part) ==
    /\ view.page = "form"
    /\ view' = [view EXCEPT !.missing = @ \ {part}, !.errors = @ \ {part}]
    /\ UNCHANGED <<reports, stored, storage, visited, submission, left, lookup>>

TakeBack(part) ==
    /\ view.page = "form"
    /\ part \notin view.missing
    /\ \E wrong \in {{}, {part}} :
         view' = [view EXCEPT !.missing = @ \cup {part}, !.errors = @ \cup wrong]
    /\ UNCHANGED <<reports, stored, storage, visited, submission, left, lookup>>

\* handleSubmit: everything missing is explained at once, and nothing is sent.
Submit ==
    /\ view.page = "form"
    /\ submission.at = "none"
    /\ IF view.missing # {}
       THEN /\ view' = [view EXCEPT !.errors = view.missing]
            /\ submission' = submission
       ELSE /\ left.sent < MaxLeft
            /\ view' = [view EXCEPT !.refused = FALSE]
            /\ submission' = [at |-> "sent", case |-> NoCase]
    /\ UNCHANGED <<reports, stored, storage, visited, left, lookup>>

\* The server makes a case, refuses the evidence, or fails.
ServeSubmission ==
    /\ submission.at = "sent"
    /\ \/ /\ reports < MaxReports
          /\ reports' = reports + 1
          /\ submission' = [at |-> "made", case |-> reports + 1]
       \/ /\ \E how \in {"refused", "failed"} : submission' = [at |-> how, case |-> NoCase]
          /\ reports' = reports
    /\ UNCHANGED <<stored, storage, view, visited, left, lookup>>

\* The same for a submission whose form was left: handleSubmit goes on.
ServeLeft ==
    /\ left.sent > 0
    /\ \/ /\ reports < MaxReports
          /\ reports' = reports + 1
          /\ left' = [sent |-> left.sent - 1, made |-> left.made \cup {reports + 1}]
       \/ /\ left' = [left EXCEPT !.sent = @ - 1]
          /\ reports' = reports
    /\ UNCHANGED <<stored, storage, view, visited, submission, lookup>>

Saved(case) == stored' = IF storage THEN case ELSE stored

\* The page of this report, with its Case ID in the state of the navigation.
Confirmation(case) == [Page("confirmation") EXCEPT !.navigated = case, !.submitted = case]

\* Another page of the app opens in the tab. A submission of the form is left, and
\* the answer of a lookup finds nothing to show itself on.
LeftBehind == [sent |-> left.sent + (IF submission.at = "sent" THEN 1 ELSE 0),
               made |-> left.made \cup (IF submission.at = "made" THEN {submission.case} ELSE {})]

LeavePage ==
    /\ left' = LeftBehind
    /\ submission' = Idle /\ lookup' = NoLookup

\* The Case ID is saved, and travels with the navigation.
Confirms(case) ==
    /\ Saved(case)
    /\ view' = Confirmation(case)
    /\ visited' = visited \cup {case}
    /\ UNCHANGED <<reports, storage>>

Submitted ==
    /\ submission.at = "made"
    /\ Confirms(submission.case)
    /\ submission' = Idle
    /\ UNCHANGED <<left, lookup>>

\* Over the page that is open by then: the lookup, another form, or the confirmation
\* of a later report.
LeftSubmitted(case) ==
    /\ case \in left.made
    /\ Confirms(case)
    /\ left' = [LeftBehind EXCEPT !.made = @ \ {case}]
    /\ submission' = Idle /\ lookup' = NoLookup

\* The answer is lost. What it would say is shown on the form, which is gone.
LeftNotSubmitted(case) ==
    /\ case \in left.made
    /\ left' = [left EXCEPT !.made = @ \ {case}]
    /\ UNCHANGED <<reports, stored, storage, view, visited, submission, lookup>>

\* The answer says the evidence is at fault; or there is none, whatever the server did.
NotSubmitted ==
    /\ submission.at # "none"
    /\ view' = IF submission.at = "refused"
               THEN [view EXCEPT !.refused = TRUE]
               ELSE [view EXCEPT !.page = "failed"]
    /\ submission' = Idle
    /\ UNCHANGED <<reports, stored, storage, visited, left, lookup>>

\* Back to the form, with everything still filled in.
TryAgain ==
    /\ view.page = "failed"
    /\ view' = [view EXCEPT !.page = "form"]
    /\ UNCHANGED <<reports, stored, storage, visited, submission, left, lookup>>

\* Another tab of the browser has its report made and saves its Case ID, or was
\* closed before the answer, like this one by a new load.
SubmittedElsewhere ==
    /\ reports < MaxReports
    /\ reports' = reports + 1
    /\ Saved(reports + 1) \/ stored' = stored
    /\ UNCHANGED <<storage, view, visited, submission, left, lookup>>

------------------------------------------------------------------------------
(* The confirmation.                                                       *)

\* The Case ID the page shows; with none it goes back to the form.
ShownId(v) == IF v.navigated # NoCase THEN v.navigated ELSE stored

\* A tab is on its page again: the navigation state survives, the rest starts anew.
ReloadPage ==
    /\ view' = IF view.page = "confirmation" /\ ShownId(view) # NoCase
               THEN [Page("confirmation") EXCEPT !.navigated = view.navigated, !.submitted = view.submitted]
               ELSE Page(IF view.page \in {"lookup", "result"} THEN "lookup" ELSE "form")
    /\ submission' = Idle /\ left' = NoneLeft /\ lookup' = NoLookup
    /\ UNCHANGED <<reports, stored, storage, visited>>

\* An address is typed: the tab loads the page anew.
Open(page) ==
    /\ view' = IF page = "confirmation" /\ stored = NoCase THEN Page("form") ELSE Page(page)
    /\ submission' = Idle /\ left' = NoneLeft /\ lookup' = NoLookup
    /\ UNCHANGED <<reports, stored, storage, visited>>

\* The tabs "Report content" and "Check case status" (PublicTabs). The one of the
\* page that is open changes nothing.
OnPageOf == [form |-> {"form", "failed"}, lookup |-> {"lookup", "result"}]

FollowTab(page) ==
    /\ view.page \notin OnPageOf[page]
    /\ view' = Page(page)
    /\ LeavePage
    /\ UNCHANGED <<reports, stored, storage, visited>>

\* The Back button opens a confirmation again, with the state it was opened with.
GoBack(case) ==
    /\ case \in visited
    /\ view' = Confirmation(case)
    /\ LeavePage
    /\ UNCHANGED <<reports, stored, storage, visited>>

------------------------------------------------------------------------------
(* The status lookup.                                                      *)

TypeId ==
    /\ view.page = "lookup"
    /\ \E id \in CaseIds \cup {NoCase} : view' = [view EXCEPT !.input = id]
    /\ UNCHANGED <<reports, stored, storage, visited, submission, left, lookup>>

CheckStatus ==
    /\ view.page = "lookup"
    /\ view.notice # "locked-out" /\ lookup.at = "none"
    /\ lookup' = [at |-> "sent", id |-> view.input]
    /\ view' = [view EXCEPT !.notice = "none"]
    /\ UNCHANGED <<reports, stored, storage, visited, submission, left>>

\* getStatus; the server may have locked this address out.
ServeLookup ==
    /\ lookup.at = "sent"
    /\ LET known == IF lookup.id # NoCase /\ lookup.id <= reports THEN "found" ELSE "not-found"
       IN  \E answer \in {known, "locked-out", "other"} : lookup' = [lookup EXCEPT !.at = answer]
    /\ UNCHANGED <<reports, stored, storage, view, visited, submission, left>>

LookupAnswered ==
    /\ lookup.at \notin {"none", "sent"}
    /\ view' = IF lookup.at = "found"
               THEN [view EXCEPT !.page = "result"]
               ELSE [view EXCEPT !.notice = lookup.at]
    /\ lookup' = NoLookup
    /\ UNCHANGED <<reports, stored, storage, visited, submission, left>>

CheckAnother ==
    /\ view.page = "result"
    /\ view' = [view EXCEPT !.page = "lookup", !.input = NoCase, !.more = "none"]
    /\ UNCHANGED <<reports, stored, storage, visited, submission, left, lookup>>

\* AddCaseInformationModal: opened, sent, added; a failure leaves it open.
AddInformation ==
    /\ view.page = "result"
    /\ \/ view.more \in {"none", "added"} /\ view' = [view EXCEPT !.more = "open"]
       \/ view.more = "open" /\ \E next \in {"sending", "none"} : view' = [view EXCEPT !.more = next]
       \/ view.more = "sending" /\ \E next \in {"added", "open"} : view' = [view EXCEPT !.more = next]
    /\ UNCHANGED <<reports, stored, storage, visited, submission, left, lookup>>

------------------------------------------------------------------------------

ReporterNext ==
    \/ \E part \in Parts : Give(part) \/ TakeBack(part)
    \/ Submit \/ ServeSubmission \/ Submitted \/ NotSubmitted \/ TryAgain \/ SubmittedElsewhere
    \/ ServeLeft \/ \E case \in CaseIds : LeftSubmitted(case) \/ LeftNotSubmitted(case) \/ GoBack(case)
    \/ ReloadPage \/ \E page \in {"form", "confirmation", "lookup"} : Open(page)
    \/ \E page \in {"form", "lookup"} : FollowTab(page)
    \/ TypeId \/ CheckStatus \/ ServeLookup \/ LookupAnswered \/ CheckAnother \/ AddInformation

\* A confirmation shows the Case ID of the report it was opened for: when an earlier
\* submission ends over it, when the Back button returns to it, after a reload, and
\* after another tab saved the ID of its own report.
ConfirmsItsOwnReport ==
    view.page = "confirmation" /\ view.submitted # NoCase => ShownId(view) = view.submitted

\* "Your case was not created -- no case ID has been issued for this attempt" (the
\* page of a failed submission). The answer of a report that was made can be lost.
FailedMeansNoCase ==
    [][view.page = "form" /\ view'.page = "failed" => submission.case = NoCase]_reporterVars
=============================================================================
