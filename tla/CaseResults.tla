---------------------------- MODULE CaseResults ----------------------------
(***************************************************************************)
(* A client records what its team did with the posts RCS decided about: on *)
(* the Case results page (ClientCaseResultsPage), one at a time, many at   *)
(* once or all as RCS decided, and in CommunityHub's own moderation queue  *)
(* (CommunityHubModerationPage), one at a time.                            *)
(*                                                                         *)
(* The list is loaded with useClientQuery and loaded again after an action; *)
(* a colleague may act meanwhile.  An action is carried out at one moment  *)
(* and answered at another, and may fail before or after it was carried    *)
(* out.  Many actions are sent at once and awaited with Promise.all: the   *)
(* first that fails ends the wait for the others.                          *)
(*                                                                         *)
(* Of a note only the result it was typed for is kept, of the server's     *)
(* record whether there is one.                                            *)
(***************************************************************************)
EXTENDS Naturals, FiniteSets

CONSTANTS
    Results,
    Nobody,         \* no result: no dialog, no note, nothing loaded
    MaxSent         \* bound: actions in flight

VARIABLES
    tool,           \* "results" or "moderation"; fixed
    outcome,        \* what RCS decided about each; fixed
    acted,          \* the results the server has an action for
    needsAction,    \* those without one, as the page loaded them
    query,          \* its load in flight
    acting,         \* the result of the dialog that is open
    choice,         \* the action chosen in it, or "read": it was opened with an action
    remark,         \* the result its note was typed for
    selected,
    followAll,      \* the dialog "Apply RCS decisions?"
    saving,         \* what the page waits for
    sent,           \* the actions in flight
    notice          \* the results the page says were recorded

resultsVars == <<tool, outcome, acted, needsAction, query, acting, choice, remark, selected, followAll,
                 saving, sent, notice>>

Outcomes == {"POLICY_VIOLATION_FOUND", "NO_VIOLATION_FOUND", "CLOSED_NO_REASSIGNMENT"}
PlatformActions == {"REMOVED", "KEPT"}

QuerySent == [asked |-> TRUE, answer |-> Nobody]
NoQuery == [asked |-> FALSE, answer |-> Nobody]

ResultsTypeOK ==
    /\ acted \subseteq Results
    /\ needsAction \in (SUBSET Results) \cup {Nobody}
    /\ query.answer \in (SUBSET Results) \cup {Nobody}
    /\ {acting, remark} \subseteq Results \cup {Nobody}
    /\ choice \in PlatformActions \cup {"none", "read"}
    /\ selected \subseteq Results
    /\ saving \in {"nothing", "one", "selected", "suggested"}
    /\ notice \subseteq Results

ResultsInit ==
    /\ tool \in {"results", "moderation"}
    /\ outcome \in [Results -> Outcomes]
    /\ acted = {}
    /\ needsAction = Nobody
    /\ query = QuerySent
    /\ acting = Nobody
    /\ choice = "none"
    /\ remark = Nobody
    /\ selected = {}
    /\ followAll = FALSE
    /\ saving = "nothing"
    /\ sent = {}
    /\ notice = {}

------------------------------------------------------------------------------
(* The server.                                                             *)

Colleague ==
    /\ \E r \in Results \ acted : acted' = acted \cup {r}
    /\ UNCHANGED <<notice, tool, outcome, needsAction, query, acting, choice, remark, selected, followAll, saving, sent>>

\* What a reply leaves of an action in flight: nobody may be waiting for it.
WithReply(s, reply) == (sent \ {s}) \cup (IF s.awaited THEN {[s EXCEPT !.reply = reply]} ELSE {})

\* clientRecordPlatformAction, where a second action replaces the first.  It is
\* carried out, and its answer arrives or is lost.
ServeAction ==
    \E s \in sent, reply \in {"done", "failed"} :
      /\ s.reply = "none"
      /\ acted' = acted \cup {s.result}
      /\ sent' = WithReply(s, reply)
      /\ UNCHANGED <<notice, tool, outcome, needsAction, query, acting, choice, remark, selected, followAll, saving>>

LoseAction ==
    \E s \in sent :
      /\ s.reply = "none"
      /\ sent' = WithReply(s, "failed")
      /\ UNCHANGED <<notice, tool, outcome, acted, needsAction, query, acting, choice, remark, selected, followAll, saving>>

ServeQuery ==
    /\ query = QuerySent
    /\ query' = [QuerySent EXCEPT !.answer = Results \ acted]
    /\ UNCHANGED <<notice, tool, outcome, acted, needsAction, acting, choice, remark, selected, followAll, saving, sent>>

------------------------------------------------------------------------------
(* The list.                                                               *)

ListLoaded ==
    /\ query.answer # Nobody
    /\ needsAction' = query.answer
    /\ query' = NoQuery
    /\ UNCHANGED <<notice, tool, outcome, acted, acting, choice, remark, selected, followAll, saving, sent>>

\* The list stays as it was.
ListNotLoaded ==
    /\ query # NoQuery
    /\ query' = NoQuery
    /\ UNCHANGED <<notice, tool, outcome, acted, needsAction, acting, choice, remark, selected, followAll, saving, sent>>

NeedsAction == IF needsAction = Nobody THEN {} ELSE needsAction

\* Mutant: a report RCS closed without a decision counts as kept.
SuggestedForAll == NeedsAction

\* What RCS found points at the usual action; what it could not review does not.
Suggested == {r \in NeedsAction : outcome[r] # "CLOSED_NO_REASSIGNMENT"}

Usual(r) == IF outcome[r] = "POLICY_VIOLATION_FOUND" THEN "REMOVED" ELSE "KEPT"

\* Rows are selected one by one, by a run with Shift, or by dragging over them.
Tick ==
    /\ tool = "results" /\ acting = Nobody /\ ~followAll
    /\ \E rows \in SUBSET NeedsAction \ {{}} :
         selected' \in {selected \cup rows, selected \ rows}
    /\ UNCHANGED <<notice, tool, outcome, acted, needsAction, query, acting, choice, remark, followAll, saving, sent>>

SelectedRows == NeedsAction \cap selected

------------------------------------------------------------------------------
(* One at a time.                                                          *)

\* Mutant: the note of the dialog before is still there.
OpenResultAsItWas(r) ==
    /\ acting' = r
    /\ choice' = IF r \in NeedsAction THEN "none" ELSE "read"
    /\ remark' = remark

OpenResult(r) ==
    /\ acting' = r
    /\ choice' = IF r \in NeedsAction THEN "none" ELSE "read"
    /\ remark' = Nobody

\* The moderation queue has a button for either action, and keeps what was
\* typed in a dialog that was closed.
OpenModeration(r, action) ==
    /\ acting' = r
    /\ choice' = action
    /\ remark' = remark

\* A result with an action is opened too, to be read.
OpenDialog ==
    /\ needsAction # Nobody
    /\ acting = Nobody /\ ~followAll
    /\ \/ tool = "results" /\ \E r \in Results : OpenResult(r)
       \/ tool = "moderation" /\ \E r \in NeedsAction, a \in PlatformActions : OpenModeration(r, a)
    /\ UNCHANGED <<notice, tool, outcome, acted, needsAction, query, selected, followAll, saving, sent>>

\* As it was opened: the list may have been loaded again since.
Editable == acting # Nobody /\ choice # "read"

Choose ==
    /\ tool = "results" /\ Editable
    /\ \E a \in PlatformActions \ {choice} : choice' = a
    /\ UNCHANGED <<notice, tool, outcome, acted, needsAction, query, acting, remark, selected, followAll, saving, sent>>

TypeRemark ==
    /\ Editable
    /\ remark' = acting
    /\ UNCHANGED <<notice, tool, outcome, acted, needsAction, query, acting, choice, selected, followAll, saving, sent>>

\* Also while it is being saved.
CloseResult ==
    /\ acting # Nobody
    /\ acting' = Nobody
    /\ UNCHANGED <<notice, tool, outcome, acted, needsAction, query, choice, remark, selected, followAll, saving, sent>>

Sending(r, action, text, how) ==
    [result |-> r, action |-> action, note |-> text, how |-> how, reply |-> "none", awaited |-> TRUE]

Send(items) ==
    /\ Cardinality(sent \cup items) <= MaxSent
    /\ sent' = sent \cup items

RecordOne ==
    /\ Editable /\ choice # "none" /\ saving = "nothing"
    /\ saving' = "one"
    /\ Send({Sending(acting, choice, remark, "one")})
    /\ UNCHANGED <<notice, tool, outcome, acted, needsAction, query, acting, choice, remark, selected, followAll>>

Awaited == {s \in sent : s.awaited}

\* Whatever dialog is open by then is closed.
OneRecorded ==
    /\ saving = "one"
    /\ \E s \in Awaited : s.reply = "done" /\ sent' = sent \ {s} /\ notice' = {s.result}
    /\ saving' = "nothing"
    /\ acting' = Nobody
    /\ remark' = IF tool = "moderation" THEN Nobody ELSE remark
    /\ query' = QuerySent
    /\ UNCHANGED <<tool, outcome, acted, needsAction, choice, selected, followAll>>

OneFailed ==
    /\ saving = "one"
    /\ \E s \in Awaited : s.reply = "failed" /\ sent' = sent \ {s}
    /\ saving' = "nothing"
    /\ UNCHANGED <<notice, tool, outcome, acted, needsAction, query, acting, choice, remark, selected, followAll>>

------------------------------------------------------------------------------
(* Many at once.                                                           *)

ApplyMany(items, how) ==
    /\ tool = "results" /\ saving = "nothing" /\ items # {}
    /\ saving' = how
    /\ Send(items)
    /\ UNCHANGED <<notice, tool, outcome, acted, needsAction, query, acting, choice, remark, selected, followAll>>

RecordSelected ==
    /\ acting = Nobody /\ ~followAll
    /\ \E a \in PlatformActions :
         ApplyMany({Sending(r, a, Nobody, "selected") : r \in SelectedRows}, "selected")

OpenFollowAll ==
    /\ tool = "results" /\ acting = Nobody
    /\ Suggested # {} /\ saving = "nothing" /\ ~followAll
    /\ followAll' = TRUE
    /\ UNCHANGED <<notice, tool, outcome, acted, needsAction, query, acting, choice, remark, selected, saving, sent>>

CloseFollowAll ==
    /\ followAll
    /\ followAll' = FALSE
    /\ UNCHANGED <<notice, tool, outcome, acted, needsAction, query, acting, choice, remark, selected, saving, sent>>

FollowRcs ==
    /\ followAll
    /\ ApplyMany({Sending(r, Usual(r), Nobody, "suggested") : r \in Suggested}, "suggested")

\* What is still on its way when the page stops waiting.
OnTheirWay == {[s EXCEPT !.awaited = FALSE] : s \in {t \in sent : t.reply = "none"}}

\* Mutant: the page waits for the first answer only.
AnyDone(batch) == \E s \in batch : s.reply = "done"

\* Promise.all.
AllDone(batch) == \A s \in batch : s.reply = "done"

ManyRecorded ==
    /\ saving \in {"selected", "suggested"}
    /\ AllDone(Awaited)
    /\ notice' = {s.result : s \in Awaited}
    /\ sent' = OnTheirWay
    /\ saving' = "nothing"
    /\ selected' = {}
    /\ followAll' = FALSE
    /\ query' = QuerySent
    /\ UNCHANGED <<tool, outcome, acted, needsAction, acting, choice, remark>>

\* One has failed.  Nobody waits for the others, and the list is not loaded again.
ManyFailed ==
    /\ saving \in {"selected", "suggested"}
    /\ \E s \in Awaited : s.reply = "failed"
    /\ sent' = OnTheirWay
    /\ saving' = "nothing"
    /\ UNCHANGED <<notice, tool, outcome, acted, needsAction, query, acting, choice, remark, selected, followAll>>

DismissNotice ==
    /\ notice # {}
    /\ notice' = {}
    /\ UNCHANGED <<tool, outcome, acted, needsAction, query, acting, choice, remark, selected, followAll, saving, sent>>

ResultsNext ==
    \/ Colleague \/ ServeAction \/ LoseAction \/ ServeQuery \/ ListLoaded \/ ListNotLoaded \/ Tick
    \/ OpenDialog \/ Choose \/ TypeRemark \/ CloseResult \/ RecordOne \/ OneRecorded \/ OneFailed
    \/ RecordSelected \/ OpenFollowAll \/ CloseFollowAll \/ FollowRcs \/ ManyRecorded \/ ManyFailed
    \/ DismissNotice

------------------------------------------------------------------------------
(* What the pages promise.                                                 *)

\* On the Case results page a note goes out with the result it was typed for.
\* (The moderation queue keeps the note of a dialog that was closed and sends it
\* with the next.)
NotesStayWithTheirResult ==
    tool = "results" => \A s \in sent : s.note \in {Nobody, s.result}

\* "Apply RCS decisions" removes what RCS found in violation, keeps what it found
\* clear, and leaves what RCS did not review to the team.
FollowedAsDecided ==
    \A s \in sent :
      s.how = "suggested" =>
        <<outcome[s.result], s.action>>
          \in {<<"POLICY_VIOLATION_FOUND", "REMOVED">>, <<"NO_VIOLATION_FOUND", "KEPT">>}

\* What the page says was recorded, the server has recorded.
ToldWasRecorded == notice \subseteq acted
=============================================================================
