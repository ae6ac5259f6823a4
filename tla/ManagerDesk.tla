---------------------------- MODULE ManagerDesk ----------------------------
(***************************************************************************)
(* The Manager's pages on one subject (src/frontend/src/pages/manager):    *)
(* the reassignment of a case, exceptional access to its content, an SOS   *)
(* alert and its follow-up, a delivery, a client's message, an Auditor.    *)
(* They are built alike.  The page loads the server's record of its        *)
(* subject, the Manager fills in a form, and a button sends one call.      *)
(* Meanwhile others change the record.                                     *)
(*                                                                         *)
(* A call that finds the session ended asks for the password in place and  *)
(* keeps the form; a load that finds it ended leaves for the sign-in page. *)
(***************************************************************************)
EXTENDS Integers, FiniteSets

CONSTANTS
    NumAuditors,    \* the Auditors a case may go to; the first has the most headroom
    Limits,         \* exposure limits
    NoData,
    MaxOthers,      \* bound: changes by others
    MaxCalls        \* bound: calls in flight

VARIABLES
    page,
    record,         \* the server's record of the subject
    data,           \* the page's copy of it
    query,          \* the load in flight
    form,
    calls,          \* calls in flight, and answers on their way
    told,           \* what the page says was done
    troubles,       \* the calls the page says have failed
    live,           \* whether the server knows the session
    expired,        \* the password is asked for
    done,           \* what the server has carried out with success: every call of
                    \* the page, and the limits others have set
    others

deskVars == <<page, record, data, query, form, calls, told, troubles, live, expired, done, others>>

Desk == {"reassign", "raw", "alert", "followUp", "delivery", "message", "auditor"}
Away == {"elsewhere", "overview", "login"}
Candidates == 1..NumAuditors
NoAuditor == 0

Blank == [chosen |-> 0, note |-> "", outcome |-> "none", step |-> "gate", open |-> FALSE, draft |-> 0, video |-> FALSE]

NoLoad == [stage |-> "none", copy |-> NoData]
NotLoaded == [stage |-> "failed", copy |-> NoData]
Asked == [stage |-> "asked", copy |-> NoData]

NewRecord ==
    [free : SUBSET Candidates, custody : {"manager"}, accessed : {FALSE}, aiFailure : {"none", "vision", "other"},
     alert : {"UNACKNOWLEDGED", "IN_PROGRESS", "RESOLVED"}, delivery : {"NEEDS_ATTENTION", "RETRYING", "SUCCESS"},
     escalated : BOOLEAN, replied : BOOLEAN, limit : Limits, owed : BOOLEAN, request : {"OPEN", "APPROVED", "WITHDRAWN"}]

DeskInit ==
    /\ page \in Desk \ {"followUp"}
    /\ record \in NewRecord
    /\ data = NoData /\ query = Asked
    /\ form = Blank
    /\ calls = {} /\ told = {} /\ troubles = {}
    /\ live = TRUE /\ expired = FALSE
    /\ done = {} /\ others = 0

------------------------------------------------------------------------------
(* The server.                                                             *)

\* reassign_case refuses an Auditor who is not free; a withdrawn request cannot
\* be granted.  Nothing else looks at what it changes.
Refuses(c) == \/ c.kind = "reassign" /\ c.arg \notin record.free
              \/ c.kind = "grant" /\ record.request = "WITHDRAWN"

\* What the record is after a call.
Outcomes(c) ==
    CASE c.kind = "reassign" -> {[record EXCEPT !.custody = "an Auditor"]}
      [] c.kind = "close" -> {[record EXCEPT !.custody = "closed"]}
      [] c.kind = "access" -> {[record EXCEPT !.accessed = TRUE]}
      [] c.kind = "acknowledge" -> {[record EXCEPT !.alert = IF @ = "UNACKNOWLEDGED" THEN "IN_PROGRESS" ELSE @]}
      [] c.kind = "followUp" -> {[record EXCEPT !.alert = "RESOLVED", !.owed = FALSE]}
      [] c.kind = "retry" -> {[record EXCEPT !.delivery = s] :
                               s \in {"SUCCESS"} \cup IF record.delivery = "SUCCESS" THEN {} ELSE {"NEEDS_ATTENTION"}}
      [] c.kind = "escalate" -> {[record EXCEPT !.escalated = TRUE]}
      [] c.kind = "reply" -> {[record EXCEPT !.replied = TRUE]}
      [] c.kind = "limit" -> {[record EXCEPT !.limit = c.arg]}
      [] c.kind = "grant" -> {[record EXCEPT !.request = IF @ = "OPEN" THEN "APPROVED" ELSE @]}
      [] c.kind = "checkIn" -> {[record EXCEPT !.owed = FALSE]}

Answer(c, a) == calls' = (calls \ {c}) \cup {[c EXCEPT !.answer = a]}

\* The answer to a retry says whether the delivery arrived.
AnswerTo(c, r) == IF c.kind = "retry" /\ r.delivery # "SUCCESS" THEN "still failing" ELSE "done"

\* Carried out, though the answer may be lost.
ServeCall ==
    \E c \in calls :
      /\ c.answer = "none" /\ live /\ ~c.stale /\ ~Refuses(c)
      /\ \E r \in Outcomes(c) :
           /\ record' = r
           /\ \E a \in {AnswerTo(c, r), "lost"} : Answer(c, a)
           /\ done' = done \cup IF AnswerTo(c, r) = "done" THEN {[kind |-> c.kind, arg |-> c.arg]} ELSE {}
      /\ UNCHANGED <<page, data, query, form, told, troubles, live, expired, others>>

RefuseCall ==
    \E c \in calls :
      /\ c.answer = "none"
      /\ \/ (~live \/ c.stale) /\ Answer(c, "no session")
         \/ live /\ ~c.stale /\ Refuses(c) /\ Answer(c, "refused")
         \/ Answer(c, "lost")
      /\ UNCHANGED <<page, record, data, query, form, told, troubles, live, expired, done, others>>

\* What others do meanwhile: time, the Auditors, the delivery loop, and a second Manager.
Others ==
    /\ others < MaxOthers
    /\ others' = others + 1
    /\ \/ page = "reassign" /\ \E s \in SUBSET Candidates : record' = [record EXCEPT !.free = s]
       \/ page \in {"alert", "followUp"} /\ \E s \in {"IN_PROGRESS", "RESOLVED"} :
            record.alert # "RESOLVED" /\ record' = [record EXCEPT !.alert = s]
       \/ page = "delivery" /\ \E s \in {"NEEDS_ATTENTION", "SUCCESS"} :
            record.delivery # "SUCCESS" /\ record' = [record EXCEPT !.delivery = s]
       \/ page = "message" /\ record' = [record EXCEPT !.replied = TRUE]
       \/ page = "auditor" /\ \E l \in Limits, b \in BOOLEAN : record' = [record EXCEPT !.limit = l, !.owed = b]
       \/ page = "auditor" /\ record.request = "OPEN" /\ record' = [record EXCEPT !.request = "WITHDRAWN"]
    /\ done' = done \cup IF record'.limit = record.limit THEN {} ELSE {[kind |-> "limit", arg |-> record'.limit]}
    /\ UNCHANGED <<page, data, query, form, calls, told, troubles, live, expired>>

\* The server restarts and knows no session any more.
SessionLost ==
    /\ live
    /\ \A c \in calls : ~c.stale
    /\ live' = FALSE
    /\ calls' = {[c EXCEPT !.stale = c.answer = "none"] : c \in calls}
    /\ UNCHANGED <<page, record, data, query, form, told, troubles, expired, done, others>>

------------------------------------------------------------------------------
(* Loading, and leaving.                                                   *)

\* Another page, whose component starts anew.  Answers still come in.
Open(p) ==
    /\ page' = p
    /\ data' = NoData /\ query' = IF p \in Desk THEN Asked ELSE NoLoad
    /\ form' = Blank /\ troubles' = {} /\ expired' = FALSE

LoadServedHere ==
    /\ query.stage = "asked" /\ live
    /\ query' = [stage |-> "served", copy |-> record]
    /\ UNCHANGED <<page, record, data, form, calls, told, troubles, live, expired, done, others>>

ShowData ==
    /\ query.stage = "served"
    /\ data' = query.copy /\ query' = NoLoad
    /\ UNCHANGED <<page, record, form, calls, told, troubles, live, expired, done, others>>

\* The page says so and keeps what it has.
LoadFailed ==
    /\ query.stage \in {"asked", "served"}
    /\ query' = NotLoaded
    /\ UNCHANGED <<page, record, data, form, calls, told, troubles, live, expired, done, others>>

\* The load, or a count in the frame around every page, which is asked for every
\* 30 seconds: the session is over, and with it what was typed.
LeaveForSignIn ==
    /\ ~live /\ page \in Desk
    /\ Open("login") /\ told' = {}
    /\ UNCHANGED <<record, calls, live, done, others>>

\* A breadcrumb, or a button that leads back.
Leave ==
    /\ page \in Desk /\ ~expired
    /\ Open(IF page = "followUp" THEN "alert" ELSE "elsewhere") /\ told' = {}
    /\ UNCHANGED <<record, calls, live, done, others>>

\* SessionExpiredModal: the password is entered and everything is as it was, but the
\* new token loads the data again.  Closing it signs out.
Reauthenticate ==
    /\ expired
    /\ live' = TRUE /\ expired' = FALSE
    /\ query' = Asked
    /\ UNCHANGED <<page, record, data, form, calls, told, troubles, done, others>>

SignOutInstead ==
    /\ expired
    /\ Open("login") /\ told' = {}
    /\ UNCHANGED <<record, calls, live, done, others>>

------------------------------------------------------------------------------
(* The forms.                                                              *)

On(p) == page = p /\ data # NoData /\ ~expired

Busy(kinds) == \E c \in calls : c.kind \in kinds

Fill(f) ==
    /\ form' = f
    /\ UNCHANGED <<page, record, data, query, calls, told, troubles, live, expired, done, others>>

Call(kind, arg) ==
    /\ Cardinality(calls) < MaxCalls
    /\ calls' = calls \cup {[kind |-> kind, arg |-> arg, answer |-> "none", stale |-> ~live]}
    /\ troubles' = troubles \ {kind}
    /\ told' = IF kind \in {"retry", "limit"} THEN {t \in told : t.kind # kind} ELSE told
    /\ UNCHANGED <<page, record, data, query, form, live, expired, done, others>>

\* Where a note is written: the dialogs are opened first.
Writing ==
    \/ On("reassign") /\ form.open
    \/ On("followUp") /\ told = {}
    \/ page = "delivery" /\ ~expired /\ form.open
    \/ On("message") /\ ~data.replied
    \/ On("auditor") /\ form.open

\* A reply may start from a template, whose gaps are to be filled in.
TypeNote ==
    /\ Writing
    /\ \/ \E n \in {"", "own"} \ {form.note} : Fill([form EXCEPT !.note = n])
       \/ page = "message" /\ form.note = "" /\ Fill([form EXCEPT !.note = "template"])

\* ManagerReassignmentPage.
Offered == data.free

Suggestion == IF Offered = {} THEN NoAuditor ELSE CHOOSE a \in Offered : \A b \in Offered : a <= b

\* Nothing chosen means the suggestion; a choice that is not offered any more is none.
Target == IF form.chosen \in Offered THEN form.chosen
          ELSE IF form.chosen = 0 THEN Suggestion ELSE NoAuditor

ChooseTarget == On("reassign") /\ \E a \in Offered : Fill([form EXCEPT !.chosen = a])
ToggleClosing == On("reassign") /\ Fill([form EXCEPT !.open = ~@])

ConfirmReassignment ==
    /\ On("reassign") /\ Target # NoAuditor /\ ~Busy({"reassign", "close"})
    /\ Call("reassign", Target)

ConfirmNoReassignment ==
    /\ On("reassign") /\ form.open /\ form.note # "" /\ ~Busy({"reassign", "close"})
    /\ Call("close", 0)

\* ManagerExceptionalAccessPage.  The footage is fetched as soon as the page has its
\* data; it is shown in the workspace only.
FetchVideo == page = "raw" /\ data # NoData /\ live /\ ~form.video /\ Fill([form EXCEPT !.video = TRUE])

\* Mutant: the gate opens before the access is on record.
ProceedAtOnce ==
    /\ On("raw") /\ form.step = "gate" /\ "access" \notin troubles /\ ~Busy({"access"})
    /\ form' = [form EXCEPT !.step = "summary"]
    /\ calls' = calls \cup {[kind |-> "access", arg |-> 0, answer |-> "none", stale |-> ~live]}
    /\ UNCHANGED <<page, record, data, query, told, troubles, live, expired, done, others>>

Proceed ==
    /\ On("raw") /\ form.step = "gate" /\ "access" \notin troubles /\ ~Busy({"access"})
    /\ Call("access", 0)

ContinueToReview == On("raw") /\ form.step = "summary" /\ Fill([form EXCEPT !.step = "workspace"])
BackToSummary ==
    On("raw") /\ form.step = "workspace" /\ data.aiFailure # "vision" /\ Fill([form EXCEPT !.step = "summary"])

\* ManagerSosAlertPage and ManagerSosFollowUpPage.
Acknowledge == On("alert") /\ data.alert = "UNACKNOWLEDGED" /\ ~Busy({"acknowledge"}) /\ Call("acknowledge", 0)

OpenFollowUp ==
    /\ On("alert") /\ data.alert = "IN_PROGRESS"
    /\ Open("followUp") /\ told' = {}
    /\ UNCHANGED <<record, calls, live, done, others>>

ChooseOutcome ==
    /\ On("followUp") /\ told = {}
    /\ \E o \in {"NO_FURTHER_ACTION", "AUDITOR_STOPPED_SHIFT"} \ {form.outcome} : Fill([form EXCEPT !.outcome = o])

LogFollowUp ==
    /\ On("followUp") /\ told = {} /\ form.note # "" /\ form.outcome # "none" /\ ~Busy({"followUp"})
    /\ Call("followUp", 0)

\* ManagerDeliveryDetailPage.
Failed == data.delivery = "NEEDS_ATTENTION"

Retry == On("delivery") /\ Failed /\ ~Busy({"retry"}) /\ Call("retry", 0)
OpenEscalation == On("delivery") /\ Failed /\ ~data.escalated /\ Fill([form EXCEPT !.open = TRUE])
SubmitEscalation == On("delivery") /\ form.open /\ form.note # "" /\ Call("escalate", 0)

\* ManagerClientMessagePage: not while a gap of the template is open.
SendReply == On("message") /\ ~data.replied /\ form.note = "own" /\ ~Busy({"reply"}) /\ Call("reply", 0)

\* ManagerAuditorDetailPage.
TypeLimit ==
    /\ On("auditor")
    /\ \E l \in Limits : form' = [form EXCEPT !.draft = l]
    /\ told' = {t \in told : t.kind # "limit"}
    /\ UNCHANGED <<page, record, data, query, calls, troubles, live, expired, done, others>>

LimitShown == IF form.draft # 0 THEN form.draft ELSE data.limit

SaveLimit == On("auditor") /\ ~Busy({"limit"}) /\ Call("limit", LimitShown)
GrantRequest == On("auditor") /\ data.request = "OPEN" /\ ~Busy({"grant"}) /\ Call("grant", 0)
OpenCheckIn == On("auditor") /\ data.owed /\ ~form.open /\ Fill([form EXCEPT !.open = TRUE, !.note = ""])
LogCheckIn == On("auditor") /\ form.open /\ form.note # "" /\ ~Busy({"checkIn"}) /\ Call("checkIn", 0)

\* The note of an escalation is kept, that of a check-in is not.
CloseDialog ==
    /\ page \in {"delivery", "auditor"} /\ ~expired /\ form.open
    /\ Fill([form EXCEPT !.open = FALSE, !.note = IF page = "auditor" THEN "" ELSE @])

------------------------------------------------------------------------------
(* Answers.                                                                *)

PageOf(kind) ==
    CASE kind \in {"reassign", "close"} -> "reassign"
      [] kind = "access" -> "raw"
      [] kind = "acknowledge" -> "alert"
      [] kind = "followUp" -> "followUp"
      [] kind \in {"retry", "escalate"} -> "delivery"
      [] kind = "reply" -> "message"
      [] OTHER -> "auditor"

Told(c) == told' = told \cup {[kind |-> c.kind, arg |-> c.arg]}

\* Back to the Overview, with what was decided.
Finish(c) == Open("overview") /\ told' = {[kind |-> c.kind, arg |-> c.arg]}

Acknowledged(c) == c.kind = "acknowledge" /\ Open("followUp") /\ told' = {}

\* The page says that the limit was saved, and names the limit of its copy.
LimitNamed == data.limit

\* Mutant: what is on the page is what was saved.
SavedWithoutReload(c) == Told(c) /\ form' = [form EXCEPT !.draft = 0] /\ query' = query

LimitSaved(c) == Told(c) /\ form' = [form EXCEPT !.draft = 0] /\ query' = Asked

\* The gate opens when the access is on record.
Cleared(c) ==
    /\ form' = [form EXCEPT !.step = IF data.aiFailure = "none" THEN "summary" ELSE "workspace"]
    /\ told' = told /\ query' = query

\* What stays on the page after its call was carried out, and whether it loads again.
Stays(c) ==
    /\ CASE c.kind = "access" -> Cleared(c)
         [] c.kind = "followUp" -> Told(c) /\ UNCHANGED <<form, query>>
         [] c.kind = "grant" -> told' = told /\ form' = form /\ query' = Asked
         [] c.kind = "retry" ->
              /\ told' = told \cup IF c.answer = "done" THEN {[kind |-> "retry", arg |-> 0]} ELSE {}
              /\ form' = form /\ query' = Asked
         [] c.kind = "limit" -> LimitSaved(c)
         [] c.kind = "reply" -> told' = told /\ form' = [form EXCEPT !.note = ""] /\ query' = Asked
         [] OTHER -> Told(c) /\ form' = [form EXCEPT !.open = FALSE, !.note = ""] /\ query' = Asked
    /\ UNCHANGED <<page, data, troubles, expired>>

\* Leaving does not stop an answer: it takes the Manager from wherever they are.
CallDone ==
    \E c \in calls :
      /\ c.answer \in {"done", "still failing"}
      /\ calls' = calls \ {c}
      /\ \/ c.kind \in {"reassign", "close"} /\ page # "login" /\ Finish(c)
         \/ page # "login" /\ Acknowledged(c)
         \/ c.kind \notin {"reassign", "close", "acknowledge"} /\ page = PageOf(c.kind) /\ data # NoData /\ Stays(c)
         \/ /\ page = "login" \/ (c.kind \notin {"reassign", "close", "acknowledge"} /\ page # PageOf(c.kind))
            /\ UNCHANGED <<page, data, query, form, told, troubles, expired>>
      /\ UNCHANGED <<record, live, done, others>>

\* A target that was refused is dropped, and who is free is asked again.
CallRefused ==
    \E c \in calls :
      /\ c.answer \in {"refused", "lost"}
      /\ calls' = calls \ {c}
      /\ troubles' = IF page = PageOf(c.kind) THEN troubles \cup {c.kind} ELSE troubles
      /\ IF page = "reassign" /\ c.kind = "reassign" /\ c.answer = "refused"
         THEN form' = [form EXCEPT !.chosen = 0] /\ query' = Asked
         ELSE UNCHANGED <<form, query>>
      /\ UNCHANGED <<page, record, data, told, live, expired, done, others>>

\* The calls without a place for the password end the session.
CallExpired ==
    \E c \in calls :
      /\ c.answer = "no session"
      /\ calls' = calls \ {c}
      /\ IF c.kind \in {"retry", "escalate", "checkIn"}
         THEN Open("login") /\ told' = {}
         ELSE /\ expired' = (expired \/ page = PageOf(c.kind))
              /\ UNCHANGED <<page, data, query, form, told, troubles>>
      /\ UNCHANGED <<record, live, done, others>>

DeskNext ==
    \/ ServeCall \/ RefuseCall \/ Others \/ SessionLost
    \/ LoadServedHere \/ ShowData \/ LoadFailed \/ LeaveForSignIn \/ Leave \/ Reauthenticate \/ SignOutInstead
    \/ TypeNote \/ ChooseTarget \/ ToggleClosing \/ ConfirmReassignment \/ ConfirmNoReassignment
    \/ FetchVideo \/ Proceed \/ ContinueToReview \/ BackToSummary
    \/ Acknowledge \/ OpenFollowUp \/ ChooseOutcome \/ LogFollowUp
    \/ Retry \/ OpenEscalation \/ SubmitEscalation \/ SendReply
    \/ TypeLimit \/ SaveLimit \/ GrantRequest \/ OpenCheckIn \/ LogCheckIn \/ CloseDialog
    \/ CallDone \/ CallRefused \/ CallExpired

------------------------------------------------------------------------------
(* What the pages promise.                                                 *)

DeskTypeOK ==
    /\ page \in Desk \cup Away
    /\ data # NoData => page \in Desk
    /\ query.stage \in {"none", "asked", "served", "failed"}
    /\ form.chosen \in 0..NumAuditors /\ form.step \in {"gate", "summary", "workspace"}
    /\ others \in 0..MaxOthers

\* Nothing of a case is seen in an exceptional access before the access is on record.
SeenOnceRecorded == form.step # "gate" => page = "raw" /\ record.accessed

\* What a page says was done, the server has done: a case reassigned to the one
\* named or closed, an alert followed up, a delivery retried with success or
\* escalated, a limit saved, a check-in logged.  The limit it names as the new one
\* is one that was set, by this Manager or by another, unless the load after the
\* save is on its way or has failed: until it succeeds the page names its old copy.
SaidIsDone ==
    /\ told \subseteq done
    /\ (\E t \in told : t.kind = "limit") /\ query.stage = "none" => [kind |-> "limit", arg |-> LimitNamed] \in done

\* "Exposure limit updated to 90 min." (ManagerPages.test.tsx, after 90 was typed
\* and saved): the limit named is the one that was saved.  It is not.
SavedLimitIsNamed == \A t \in told : t.kind = "limit" => LimitNamed = t.arg
=============================================================================
