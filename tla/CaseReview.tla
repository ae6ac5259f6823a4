----------------------------- MODULE CaseReview -----------------------------
(***************************************************************************)
(* An Auditor's browser tab on the review of one case, and the requests it *)
(* has in flight. The page is a state machine over "step"; a request is    *)
(* sent with the token the page holds, served by the backend (or never     *)
(* reaches it), and its answer, which may be lost or come late, runs a     *)
(* continuation that does not look at where the page is by then. A page    *)
(* that was left keeps its requests: their answers still write the         *)
(* storage of the tab.                                                     *)
(*                                                                         *)
(* The tab keeps two things across pages: the session and the draft.       *)
(***************************************************************************)
EXTENDS ReviewPlayback, FiniteSets

CONSTANTS NULL,
          AiFailed,    \* the analysis of the case gave no score and no summary
          Slots,       \* requests in flight at a time (a bound)
          MaxTokens,   \* sign-ins (a bound)
          MaxWatched   \* units watched and not reported yet (a bound)

ASSUME ReviewAssumption == /\ MaxTokens \in Nat /\ MaxWatched \in Nat
                           /\ IsFiniteSet(Slots)
                           /\ AiFailed \in BOOLEAN

VARIABLES step,      \* what the tab shows
          dialogs,   \* what is open over the gate, and the session dialog
          busy,      \* what the page is waiting for, its controls disabled
          resume,    \* the step of the draft this visit started with
          sos,       \* the SOS the page reports, and whether to retry it
          player,    \* the workspace
          unsent,    \* exposure a failed report left behind
          draft,     \* sessionStorage: the review to resume
          stored,    \* sessionStorage: the token, 0 without one
          held,      \* tokenRef: the token the page sends
          net,       \* requests in flight
          server,    \* the case and the live sessions
          owed       \* units watched in this visit the backend has not counted

vars == <<step, dialogs, busy, resume, sos, player, unsent,
          draft, stored, held, net, server, owed>>

DraftSteps   == {"summary", "workspace", "severity"}
ReviewSteps  == DraftSteps \cup {"check-in"}
ContentSteps == {"summary", "workspace"}
PageSteps    == ReviewSteps \cup {"loading", "load-failed", "resolved", "gate",
                                  "confirmation", "declined", "sos", "daily-cap"}
Steps        == PageSteps \cup {"dashboard", "login"}
Waits        == {"proceed", "decline", "resolve", "reauth"}
Ops          == {"detail", "acknowledge", "decline", "resolve", "exposure",
                 "release", "reauth", "sos"}
Answers      == {"ok", "failed", "unauthorised"}

Mounted == step \in PageSteps

Request == [op : Ops, token : 0..MaxTokens, sample : Sample,
            here : BOOLEAN,                \* the page that sent it is still open
            at : {"sent"} \cup Answers,
            complete : BOOLEAN]            \* the case was, when it was served

ASSUME NullAssumption == NULL \notin Request

\* The row of the case as far as these requests write it, and the sessions.
Server == [complete : BOOLEAN, flagged : BOOLEAN,
           live : SUBSET (1..MaxTokens), issued : 0..MaxTokens]

TypeOK ==
    /\ step \in Steps
    /\ dialogs \subseteq {"decline", "error", "session"}
    /\ busy \subseteq Waits
    /\ resume \in DraftSteps \cup {NULL}
    /\ sos \in [state : {"sending", "sent", "failed"}, retry : BOOLEAN]
    /\ player \in Player /\ unsent \in Sample
    /\ draft \in DraftSteps \cup {NULL}
    /\ stored \in 0..MaxTokens /\ held \in 0..MaxTokens
    /\ net \in [Slots -> Request \cup {NULL}]
    /\ server \in Server
    /\ owed \in Nat

NoSos == [state |-> "sending", retry |-> FALSE]

Init ==
    /\ step = "login" /\ dialogs = {} /\ busy = {} /\ resume = NULL
    /\ sos = NoSos
    /\ player = Opened(FALSE) /\ unsent = Nothing
    /\ draft = NULL /\ stored = 0 /\ held = 0
    /\ net = [i \in Slots |-> NULL]
    /\ server = [complete |-> FALSE, flagged |-> FALSE, live |-> {}, issued |-> 0]
    /\ owed = 0

-----------------------------------------------------------------------------
(***************************************************************************)
(* Sending. A step may send several requests; each takes a free slot.      *)
(***************************************************************************)
Asked(op, sample) == [op |-> op, token |-> IF op = "reauth" THEN 0 ELSE held,
                      sample |-> sample, here |-> TRUE, at |-> "sent",
                      complete |-> FALSE]
Ask(op) == Asked(op, Nothing)

Free(n) == {i \in Slots : n[i] = NULL}

\* The requests S are put in free slots of n.
Send(n, S) ==
    \E slot \in [S -> Free(n)] :
        /\ \A r, q \in S : slot[r] = slot[q] => r = q
        /\ net' = [i \in Slots |-> IF \E r \in S : slot[r] = i
                                   THEN CHOOSE r \in S : slot[r] = i ELSE n[i]]

\* The requests of a page that is being left: those whose answer or effect
\* still matters.
EndsDraft == {"decline", "resolve", "sos"}
Matters   == EndsDraft \cup {"release", "reauth"}
Orphaned(n) == [i \in Slots |->
    IF n[i] = NULL \/ (n[i].here /\ n[i].op \notin Matters) THEN NULL
    ELSE [n[i] EXCEPT !.here = FALSE]]

\* What the workspace reports when it closes or its timer fires.
Report == IF player.pending = Nothing THEN {}
          ELSE {Asked("exposure", Plus(unsent, player.pending))}

-----------------------------------------------------------------------------
(***************************************************************************)
(* Moving to another step. Opening the workspace mounts a new player; when *)
(* the last wellbeing answer says the daily limit is reached (any may) an  *)
(* effect then goes on to the daily-cap screen and gives the case back.    *)
(* Closing the workspace reports what it measured. A draft is saved at     *)
(* each of its steps.                                                      *)
(***************************************************************************)
\* From the slots n, with the requests S the handler sends.
Land(n, to, S) ==
    \E there \in IF to = "workspace" THEN {to, "daily-cap"} ELSE {to} :
        LET report == IF there = "workspace" THEN {} ELSE Report
        IN  /\ step' = there
            /\ player' \in IF there # "workspace" THEN {Opened(FALSE)}
                           ELSE IF step = "workspace" THEN {player}
                           ELSE {Opened(off) : off \in BOOLEAN}
            /\ Send(n, S \cup report \cup IF there # to THEN {Ask("release")} ELSE {})
            /\ unsent' = IF report = {} THEN unsent ELSE Nothing

\* The effect that persists the review in progress.
Keep(to) == draft' = IF to \in DraftSteps THEN to ELSE draft

\* A move by a button of the page, nothing sent but what the move implies.
Walk(from, to) ==
    /\ step = from /\ "session" \notin dialogs
    /\ Land(net, to, {}) /\ Keep(to)
    /\ UNCHANGED <<dialogs, busy, resume, sos, stored, held, server, owed>>

ContinueToReview == Walk("summary", "workspace")
BackToSummary    == ~AiFailed /\ Walk("workspace", "summary")
RateSeverity     == Walk("workspace", "severity")
BackToReview     == \E from \in {"severity", "check-in"} : Walk(from, "workspace")
TalkToManager    == Walk("workspace", "check-in")

-----------------------------------------------------------------------------
(***************************************************************************)
(* The session: signing in and out, and the dashboard that meets a dead    *)
(* token with its own 401 handler. Signing out clears the storage; it      *)
(* cannot stop the requests in flight, nor does the backend forget the     *)
(* token.                                                                  *)
(***************************************************************************)
Issued == server.issued + 1

SignIn ==
    /\ step = "login" /\ stored = 0 /\ Issued <= MaxTokens
    /\ server' = [server EXCEPT !.issued = Issued, !.live = @ \cup {Issued}]
    /\ stored' = Issued /\ step' = "dashboard"
    /\ UNCHANGED <<dialogs, busy, resume, sos, player, unsent,
                   draft, held, net, owed>>

\* The login page sends whoever has a session on.
LoginRedirects ==
    /\ step = "login" /\ stored # 0
    /\ step' = "dashboard"
    /\ UNCHANGED <<dialogs, busy, resume, sos, player, unsent,
                   draft, stored, held, net, server, owed>>

\* The state of a page ends with it.
Closed == /\ dialogs' = {} /\ busy' = {} /\ resume' = NULL
          /\ sos' = NoSos /\ player' = Opened(FALSE)
          /\ unsent' = Nothing /\ owed' = 0 /\ held' = 0

\* Mutant: the drafts outlive the session.
SignOutKeepingDraft(n) ==
    /\ stored' = 0 /\ step' = "login" /\ UNCHANGED draft
    /\ net' = Orphaned(n) /\ Closed

\* logout, then the login page, from the slots n.
SignOutFrom(n) ==
    /\ stored' = 0 /\ draft' = NULL /\ step' = "login"
    /\ net' = Orphaned(n) /\ Closed

\* The slots after a workspace that closes has reported.
Closing == IF Report = {} THEN {net}
           ELSE {[net EXCEPT ![i] = CHOOSE r \in Report : TRUE] : i \in Free(net)}

\* From the header, or from the session dialog, which offers it even while a
\* password is being checked. The workspace reports if it closes before the
\* token is cleared.
SignOut ==
    /\ Mounted \/ step = "dashboard"
    /\ \E n \in {net} \cup Closing : SignOutFrom(n)
    /\ UNCHANGED server

DashboardSessionEnds ==
    /\ step = "dashboard" /\ stored \notin server.live
    /\ SignOutFrom(net)
    /\ UNCHANGED server

\* Any way back to the dashboard: a button, the breadcrumb, the browser.
Leave ==
    /\ Mounted
    /\ step' = "dashboard"
    /\ \E n \in Closing : net' = Orphaned(n)
    /\ Closed
    /\ UNCHANGED <<draft, stored, server>>

OpenCase ==
    /\ step = "dashboard" /\ stored # 0
    /\ step' = "loading" /\ held' = stored
    /\ Send(net, {[Ask("detail") EXCEPT !.token = stored]})
    /\ UNCHANGED <<dialogs, busy, resume, sos, player, unsent,
                   draft, stored, server, owed>>

\* The effect that copies the token of the session into the ref.
Rerender ==
    /\ Mounted /\ held # stored
    /\ held' = stored
    /\ UNCHANGED <<step, dialogs, busy, resume, sos, player,
                   unsent, draft, stored, net, server, owed>>

-----------------------------------------------------------------------------
(***************************************************************************)
(* The gate, the decision to decline, SOS and submission.                  *)
(***************************************************************************)
\* Waits for the answer of a request sent by one of the page's controls.
Await(wait, op) ==
    /\ wait \notin busy
    /\ busy' = busy \cup {wait}
    /\ Send(net, {Ask(op)})

Proceed ==
    /\ step = "gate" /\ dialogs = {}
    /\ Await("proceed", "acknowledge")
    /\ UNCHANGED <<step, dialogs, resume, sos, player, unsent,
                   draft, stored, held, server, owed>>

\* Decline is offered whatever Proceed is doing; Cancel, whatever the decline is.
OpenDecline ==
    /\ step = "gate" /\ dialogs = {}
    /\ dialogs' = {"decline"}
    /\ UNCHANGED <<step, busy, resume, sos, player, unsent,
                   draft, stored, held, net, server, owed>>

CancelDecline ==
    /\ step = "gate" /\ "decline" \in dialogs /\ "session" \notin dialogs
    /\ dialogs' = dialogs \ {"decline"}
    /\ UNCHANGED <<step, busy, resume, sos, player, unsent,
                   draft, stored, held, net, server, owed>>

SubmitDecline ==
    /\ step = "gate" /\ "decline" \in dialogs /\ "session" \notin dialogs
    /\ Await("decline", "decline")
    /\ UNCHANGED <<step, dialogs, resume, sos, player, unsent,
                   draft, stored, held, server, owed>>

Resolve ==
    /\ step = "severity" /\ "session" \notin dialogs
    /\ Await("resolve", "resolve")
    /\ UNCHANGED <<step, dialogs, resume, sos, player, unsent,
                   draft, stored, held, server, owed>>

\* The content is hidden first, then the Manager is told. An analysis that
\* fails during the review takes the same path.
Pause ==
    /\ Land(net, "sos", {Ask("sos")})
    /\ sos' = [sos EXCEPT !.state = "sending"]
    /\ UNCHANGED <<dialogs, busy, resume, draft, stored, held, server, owed>>

PressSos      == step = "workspace" /\ "session" \notin dialogs /\ Pause
AnalysisFails == step \in ReviewSteps /\ Pause

TryAgain ==
    /\ step = "sos" /\ sos.state = "failed" /\ "session" \notin dialogs
    /\ sos' = [sos EXCEPT !.state = "sending"]
    /\ Send(net, {Ask("sos")})
    /\ UNCHANGED <<step, dialogs, busy, resume, player, unsent,
                   draft, stored, held, server, owed>>

-----------------------------------------------------------------------------
(***************************************************************************)
(* The workspace: playback, the connection, the report timer, and the      *)
(* wellbeing answer that may say the daily limit is reached.               *)
(***************************************************************************)
Paused == "session" \in dialogs

\* Units in reports of this page that may yet fail.
Reporting == {i \in Slots : net[i] # NULL /\ net[i].here /\ net[i].at # "ok"}
InFlight  == Cardinality(UNION {{i} \X (1..Units(net[i].sample)) : i \in Reporting})

Plays(p) == /\ step = "workspace" /\ player' = p
            /\ UNCHANGED <<step, dialogs, busy, resume, sos, unsent, draft,
                           stored, held, net, server>>

TogglePlayback == CanPlay(player, Paused) /\ Plays(Toggled(player)) /\ UNCHANGED owed

Watch ==
    /\ player.playing /\ CanPlay(player, Paused)
    /\ \E to \in (player.position + 1)..Duration :
          /\ Plays(Played(player, to))
          /\ Units(Played(player, to).pending) + Units(unsent) + InFlight <= MaxWatched
          /\ owed' = owed + to - player.position

\* Mutant: seek does not clamp.
SeekBeyond == ~Paused /\ (\E to \in 0..(Duration + 1) : Plays(Sought(player, to))) /\ UNCHANGED owed

Seek == ~Paused /\ (\E to \in 0..Duration : Plays(Sought(player, to))) /\ UNCHANGED owed

ConnectionDrops   == ~player.offline /\ Plays(GoneOffline(player)) /\ UNCHANGED owed
ConnectionReturns == player.offline /\ Plays(GoneOnline(player)) /\ UNCHANGED owed

FlushTimer ==
    /\ step = "workspace" /\ Report # {}
    /\ player' = Reported(player) /\ unsent' = Nothing
    /\ Send(net, Report)
    /\ UNCHANGED <<step, dialogs, busy, resume, sos, draft,
                   stored, held, server, owed>>

\* A wellbeing answer says the limit is reached, or it is not (the step is
\* then unchanged). The limit may be the Manager's doing, so either may come.
LimitReached ==
    /\ step = "workspace"
    /\ Land(net, "workspace", {})
    /\ UNCHANGED <<dialogs, busy, resume, sos, draft, stored, held, server, owed>>

-----------------------------------------------------------------------------
(***************************************************************************)
(* The backend serves a request, or it never arrives, or its answer does   *)
(* not. It may refuse any request for reasons of its own (another owner, a *)
(* cooldown, a lockout).                                                   *)
(***************************************************************************)
Accepts(op) == CASE op = "resolve" -> ~server.complete /\ ~server.flagged
                 [] op = "acknowledge" -> ~server.flagged
                 [] op \in {"decline", "release"} -> ~server.complete
                 [] op = "reauth" -> Issued <= MaxTokens
                 [] OTHER -> TRUE

Effect(op) ==
    CASE op = "resolve" -> [server EXCEPT !.complete = TRUE]
      [] op \in {"decline", "release", "sos"} -> [server EXCEPT !.flagged = TRUE]
      [] op = "reauth" -> [server EXCEPT !.issued = Issued, !.live = @ \cup {Issued}]
      [] OTHER -> server

Page == <<step, dialogs, busy, resume, sos, player, unsent,
          draft, stored, held>>

\* What the answer no longer depends on is dropped from the request.
Settled(i, a) ==
    net' = [net EXCEPT ![i].at = a,
                       ![i].token = IF a = "ok" /\ net[i].op = "reauth" THEN Issued ELSE 0,
                       ![i].complete = (a = "ok" /\ net[i].op = "detail" /\ server.complete)]

\* Served; the answer may be lost on its way back.
Serve(i) ==
    /\ net[i] # NULL /\ net[i].at = "sent"
    /\ net[i].token \in server.live \/ net[i].op = "reauth"
    /\ Accepts(net[i].op)
    /\ server' = Effect(net[i].op)
    /\ \E a \in {"ok", "failed"} : Settled(i, a)
    /\ owed' = IF net[i].here THEN Greatest(0, owed - Units(net[i].sample)) ELSE owed
    /\ UNCHANGED Page

\* Refused, or never served: an error alike, but for a dead token.
Fails(i) ==
    /\ net[i] # NULL /\ net[i].at = "sent"
    /\ Settled(i, "failed")
    /\ UNCHANGED <<Page, server, owed>>

Unauthorised(i) ==
    /\ net[i] # NULL /\ net[i].at = "sent"
    /\ net[i].op # "reauth" /\ net[i].token \notin server.live
    /\ Settled(i, "unauthorised")
    /\ UNCHANGED <<Page, server, owed>>

\* The backend forgets every session (a redeployment).
SessionsLost ==
    /\ server.live # {} /\ server.issued < MaxTokens
    /\ server' = [server EXCEPT !.live = {}]
    /\ UNCHANGED <<Page, net, owed>>

\* The Manager gives a flagged case back to the same Auditor.
ManagerReassigns ==
    /\ server.flagged
    /\ server' = [server EXCEPT !.flagged = FALSE]
    /\ UNCHANGED <<Page, net, owed>>

-----------------------------------------------------------------------------
(***************************************************************************)
(* The answers. Each runs the continuation of its request, whatever the    *)
(* page shows by then. A refused or a lost request is an error alike; an   *)
(* unauthorised one opens the session dialog over the page.                *)
(***************************************************************************)
Freed(i) == [net EXCEPT ![i] = NULL]

Answered(i, ops, answers) ==
    /\ net[i] # NULL /\ net[i].here
    /\ net[i].op \in ops /\ net[i].at \in answers

WaitOf(op) == CASE op = "acknowledge" -> {"proceed"}
                [] op \in Waits -> {op}
                [] OTHER -> {}

\* Mutant: the page resumes the draft without the content warning.
OpensAtDraft(i) ==
    /\ Answered(i, {"detail"}, {"ok"})
    /\ step' = IF net[i].complete THEN "resolved" ELSE IF draft = NULL THEN "gate" ELSE draft
    /\ resume' = IF net[i].complete THEN NULL ELSE draft
    /\ net' = Freed(i)
    /\ UNCHANGED <<dialogs, busy, sos, player, unsent, draft, stored, held, server, owed>>

\* The warning comes first, whatever the draft to resume.
Opens(i) ==
    LET complete == net[i].complete
    IN  /\ Answered(i, {"detail"}, {"ok"})
        /\ step' = IF complete THEN "resolved" ELSE "gate"
        /\ resume' = IF complete THEN NULL ELSE draft
        /\ net' = Freed(i)
        /\ UNCHANGED <<dialogs, busy, sos, player, unsent, draft, stored,
                       held, server, owed>>

DoesNotOpen(i) ==
    /\ Answered(i, {"detail"}, {"failed"})
    /\ step' = "load-failed" /\ net' = Freed(i)
    /\ UNCHANGED <<dialogs, busy, resume, sos, player, unsent,
                   draft, stored, held, server, owed>>

OpensWithoutSession(i) ==
    /\ Answered(i, {"detail"}, {"unauthorised"})
    /\ SignOutFrom(Freed(i))
    /\ UNCHANGED server

\* The review starts where the draft left it, but never at a summary the
\* analysis did not give. (The page keeps the step it resumed and does not read
\* it again; here it is forgotten.)
FirstStep == IF resume = NULL \/ (AiFailed /\ resume = "summary")
             THEN IF AiFailed THEN "workspace" ELSE "summary"
             ELSE resume

Proceeds(i) ==
    /\ Answered(i, {"acknowledge"}, {"ok"})
    /\ busy' = busy \ {"proceed"}
    /\ Land(Freed(i), FirstStep, {}) /\ Keep(FirstStep)
    /\ resume' = NULL
    /\ UNCHANGED <<dialogs, sos, stored, held, server, owed>>

Ends(i, op, to) ==
    /\ Answered(i, {op}, {"ok"})
    /\ busy' = busy \ {op} /\ dialogs' = dialogs \ {op}
    /\ draft' = NULL
    /\ Land(Freed(i), to, {})
    /\ UNCHANGED <<resume, sos, stored, held, server, owed>>

Declines(i) == Ends(i, "decline", "declined")
Submits(i)  == Ends(i, "resolve", "confirmation")

SosSent(i) ==
    /\ Answered(i, {"sos"}, {"ok"})
    /\ draft' = NULL
    /\ sos' = [sos EXCEPT !.state = "sent"]
    /\ net' = Freed(i)
    /\ UNCHANGED <<step, dialogs, busy, resume, player, unsent,
                   stored, held, server, owed>>

\* Nothing on the page waits for these.
Noted(i) ==
    /\ Answered(i, {"exposure", "release"}, {"ok"})
    /\ net' = Freed(i)
    /\ UNCHANGED <<Page, server, owed>>

\* Mutant: a failed report is not kept for the next one.
Dropped(i) == unsent

\* The sample of a failed report is kept for the next one.
Kept(i) == Plus(unsent, net[i].sample)

\* Mutant: an SOS that meets a dead session is not kept for the next sign-in.
Forgotten(i) == IF net[i].op = "sos" /\ net[i].at = "failed"
                THEN [sos EXCEPT !.state = "failed"] ELSE sos

\* A dead session keeps the SOS to send again; any other error is shown.
Unsent(i) == IF net[i].op # "sos" THEN sos
             ELSE IF net[i].at = "unauthorised" THEN [sos EXCEPT !.retry = TRUE]
             ELSE [sos EXCEPT !.state = "failed"]

Failed(i) ==
    LET op == net[i].op  expired == net[i].at = "unauthorised"
    IN  /\ Answered(i, Ops \ {"detail"}, {"failed", "unauthorised"})
        /\ busy' = busy \ WaitOf(op)
        /\ dialogs' = dialogs \cup IF expired THEN {"session"}
                                   ELSE IF op = "acknowledge" THEN {"error"} ELSE {}
        /\ player' = IF expired THEN Interrupted(player) ELSE player
        /\ unsent' = Kept(i) /\ sos' = Unsent(i)
        /\ net' = Freed(i)
        /\ UNCHANGED <<step, resume, draft, stored, held, server, owed>>

\* A page that is gone: what its continuations write is the tab's storage.
Outlives(i) ==
    /\ net[i] # NULL /\ ~net[i].here /\ net[i].at # "sent"
    /\ draft' = IF net[i].at = "ok" /\ net[i].op \in EndsDraft THEN NULL ELSE draft
    /\ stored' = IF net[i].at = "ok" /\ net[i].op = "reauth" THEN net[i].token ELSE stored
    /\ net' = Freed(i)
    /\ UNCHANGED <<step, dialogs, busy, resume, sos, player,
                   unsent, held, server, owed>>

-----------------------------------------------------------------------------
(***************************************************************************)
(* Signing in again over the page. What was kept is sent at once, with the *)
(* token of the ref: the old one unless the page has rendered by then.     *)
(***************************************************************************)
\* The demo menu has the page check its session at once.
SessionProbe ==
    /\ Mounted /\ held \notin server.live
    /\ dialogs' = dialogs \cup {"session"} /\ player' = Interrupted(player)
    /\ UNCHANGED <<step, busy, resume, sos, unsent, draft, stored,
                   held, net, server, owed>>

SubmitPassword ==
    /\ Mounted /\ step \notin {"loading", "load-failed", "resolved"}
    /\ "session" \in dialogs
    /\ Await("reauth", "reauth")
    /\ UNCHANGED <<step, dialogs, resume, sos, player, unsent,
                   draft, stored, held, server, owed>>

SignedInAgain(i) ==
    /\ Answered(i, {"reauth"}, {"ok"})
    /\ stored' = net[i].token
    /\ held' \in {held, net[i].token}
    /\ busy' = busy \ {"reauth"} /\ dialogs' = dialogs \ {"session"}
    /\ sos' = IF sos.retry THEN NoSos ELSE sos
    /\ unsent' = Nothing
    /\ LET kept == (IF unsent = Nothing THEN {} ELSE {Asked("exposure", unsent)})
                     \cup IF sos.retry THEN {Ask("sos")} ELSE {}
       IN  Send(Freed(i), {[r EXCEPT !.token = held'] : r \in kept})
    /\ UNCHANGED <<step, resume, player, draft, server, owed>>

-----------------------------------------------------------------------------
Handled(i) ==
    \/ Opens(i) \/ DoesNotOpen(i) \/ OpensWithoutSession(i)
    \/ Proceeds(i) \/ Declines(i) \/ Submits(i) \/ SosSent(i) \/ Noted(i)
    \/ Failed(i) \/ Outlives(i) \/ SignedInAgain(i)

Arrives(i) == Serve(i) \/ Fails(i) \/ Unauthorised(i)

Next ==
    \/ SignIn \/ LoginRedirects \/ SignOut \/ DashboardSessionEnds \/ Leave
    \/ OpenCase \/ Rerender
    \/ ContinueToReview \/ BackToSummary \/ RateSeverity \/ BackToReview
    \/ TalkToManager
    \/ Proceed \/ OpenDecline \/ CancelDecline \/ SubmitDecline \/ Resolve
    \/ PressSos \/ AnalysisFails \/ TryAgain
    \/ TogglePlayback \/ Watch \/ Seek \/ ConnectionDrops \/ ConnectionReturns
    \/ FlushTimer \/ LimitReached
    \/ SessionProbe \/ SubmitPassword
    \/ SessionsLost \/ ManagerReassigns
    \/ \E i \in Slots : Arrives(i) \/ Handled(i)

Spec == Init /\ [][Next]_vars

-----------------------------------------------------------------------------
(***************************************************************************)
(* Properties                                                              *)
(***************************************************************************)
Over == \/ step \in {"confirmation", "declined"}
        \/ step = "sos" /\ sos.state = "sent"

\* A review that ended leaves no draft to resume (clearDraftResolution), in
\* whichever order the answers come; nor does a tab without a session
\* (clearAllDraftResolutions), whatever its old requests still write.
NothingLeftToResume == (Over \/ stored = 0) => draft = NULL

\* Every visit starts at the content warning: footage, summary and form are
\* reached from outside only by an acknowledgement this visit sent and the
\* backend accepted, whatever draft it resumes (AR-PV-08).
ContentNeedsAcknowledgement ==
    [][(step \notin ReviewSteps /\ step' \in ReviewSteps) =>
       \E i \in Slots : Answered(i, {"acknowledge"}, {"ok"}) /\ net'[i] # net[i]]_vars

\* "Never drop measured exposure": while the page is open, what was watched is
\* counted by the backend, or on its way, or kept for the next report.
ExposureIsKept ==
    Mounted => owed <= Units(player.pending) + Units(unsent) + InFlight

\* An SOS that says "notifying your Manager" is on its way, or waits for the
\* sign-in the page is asking for: no failure leaves it there unsent.
SosIsNotForgotten ==
    (step = "sos" /\ sos.state = "sending") =>
        \/ \E i \in Slots : net[i] # NULL /\ net[i].here /\ net[i].op = "sos"
        \/ sos.retry /\ "session" \in dialogs

\* Footage plays only where the Auditor sees it, and re-signing in or a returning
\* connection never starts it.
PlaysInSight ==
    player.playing => step = "workspace" /\ CanPlay(player, Paused)
=============================================================================
