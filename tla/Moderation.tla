----------------------------- MODULE Moderation -----------------------------
(***************************************************************************)
(* The moderation workflow: the cases table, the Auditors table, the       *)
(* background analyses, the approved breaks, the SOS alerts (audit log     *)
(* entries the Manager works from) and the result handed to the customer.  *)
(*                                                                         *)
(* Each request handler is one action. A handler without an await runs to  *)
(* its end on the event loop, so it is atomic. What runs in a thread of    *)
(* its own is a sequence of actions with everybody else's in between: the  *)
(* background analysis, which commits three times, and the scheduler's two *)
(* jobs, which read Auditor rows without a lock and commit at their end.   *)
(***************************************************************************)
EXTENDS AuditorRules, Sequences

CONSTANTS Tiers,         \* severity tiers an analysis can return here
          DecidedHere,   \* outcomes an Auditor can choose here
          Limits,        \* exposure limits a Manager can set here
          MaxExposure,   \* bound: exposure units one row can accumulate
          MaxAlerts,     \* bound: SOS alerts raised in a behaviour
          MaxRequests    \* bound: break requests open at once per Auditor

ASSUME ModerationAssumption ==
    /\ Tiers \subseteq AllTiers
    /\ DecidedHere \subseteq Decided
    /\ Limits \subseteq Nat
    /\ MaxExposure \in Nat
    /\ MaxAlerts \in Nat
    /\ MaxRequests \in Nat

VARIABLES cases,       \* the cases table
          auditors,    \* the auditors table, role 'auditor'
          turn,        \* Auditors by latest CASE_ASSIGNED entry, oldest first
          queued,      \* rank of each case's fallback_queued_at, 0 = NULL
          analysis,    \* where the background analysis of a case stands
          breaks,      \* per Auditor: open break requests, ticks of break left
          alerts,      \* SOS_TRIGGERED audit log entries, in order
          handoff,     \* the deliveries table: the outcome each row carries
          pass,        \* the transaction of the release job
          daily        \* the transaction of the daily reset job

tables == <<cases, auditors, turn, queued, analysis, breaks, alerts, handoff>>
vars   == <<cases, auditors, turn, queued, analysis, breaks, alerts, handoff,
            pass, daily>>

AlertStatuses == {"UNACKNOWLEDGED", "IN_PROGRESS", "RESOLVED"}
Alert    == [actor : Auditors, status : AlertStatuses]
BreakRow == [requests : Nat, left : Nat]
Phases   == {"idle", "queued", "loaded", "running"}

(***************************************************************************)
(* The transactions of the two jobs. The session of the release job keeps  *)
(* the Auditor rows as it first read them ("rows"); "zeroed" and "stamped" *)
(* are the Auditors whose exposure and whose last reset it has written,    *)
(* for nobody else to see before the commit ("late": 09:00 has passed      *)
(* since). "missed" is history: the Auditors whose row, break or cases     *)
(* somebody changed since the job read.                                    *)
(***************************************************************************)
Pass == [phase   : {"idle", "locked", "placing", "chosen"},
         locked  : SUBSET Cases,
         rows    : [Standard -> AuditorRow],
         zeroed  : SUBSET Standard,
         stamped : SUBSET Standard,
         late    : SUBSET Standard,
         given   : [Cases -> Standard \cup {NULL}],
         missed  : SUBSET Standard]

NoPass == [phase   |-> "idle",
           locked  |-> {},
           rows    |-> [a \in Standard |-> NewAuditor],
           zeroed  |-> {},
           stamped |-> {},
           late    |-> {},
           given   |-> [c \in Cases |-> NULL],
           missed  |-> {}]

Daily   == [zeroed : SUBSET Auditors, stamped : SUBSET Auditors,
            late   : SUBSET Auditors, missed  : SUBSET Auditors]
NoDaily == [zeroed |-> {}, stamped |-> {}, late |-> {}, missed |-> {}]

TypeOK == /\ cases    \in [Cases -> CaseRow]
          /\ auditors \in [Auditors -> AuditorRow]
          /\ turn     \in [Auditors -> Nat]
          /\ queued   \in [Cases -> Nat]
          /\ analysis \in [Cases -> Phases]
          /\ breaks   \in [Auditors -> BreakRow]
          /\ alerts   \in Seq(Alert)
          /\ handoff  \in [Cases -> Outcomes \cup {NULL}]
          /\ pass     \in Pass
          /\ daily    \in Daily

\* Nobody has been assigned yet, so turn is the order of the Auditors' ids.
Init == /\ cases    = [c \in Cases |-> NoCase]
        /\ auditors = [a \in Auditors |-> NewAuditor]
        /\ turn     \in {t \in [Auditors -> 1..Cardinality(Auditors)] :
                            \A a, b \in Auditors : a # b => t[a] # t[b]}
        /\ queued   = [c \in Cases |-> 0]
        /\ analysis = [c \in Cases |-> "idle"]
        /\ breaks   = [a \in Auditors |-> [requests |-> 0, left |-> 0]]
        /\ alerts   = <<>>
        /\ handoff  = [c \in Cases |-> NULL]
        /\ pass     = NoPass
        /\ daily    = NoDaily

-----------------------------------------------------------------------------
OnBreak == {a \in Auditors : breaks[a].left > 0}

Owns(a, c) == cases[c].status # NULL /\ cases[c].auditor = a

\* Mutant: only an Auditor's decision is handed off.
HandOffDecided(c, outcome) ==
    handoff' = [handoff EXCEPT ![c] = IF @ = NULL /\ outcome \in Decided
                                      THEN outcome ELSE @]

\* Mutant: the delivery already made is looked up by nobody.
HandOffAgain(c, outcome) == handoff' = [handoff EXCEPT ![c] = outcome]

\* create_delivery_for_case: one delivery per case, an existing one is kept.
HandOff(c, outcome) ==
    handoff' = [handoff EXCEPT ![c] = IF @ = NULL THEN outcome ELSE @]

(***************************************************************************)
(* POST /api/reports, with the in-process selector: it reads and chooses   *)
(* in the request's own transaction. The daily resets the selector applies *)
(* are committed with the case, whether it found an Auditor or not.        *)
(***************************************************************************)
CreateReport(c) ==
    LET rows       == ResetFor(auditors, Standard \ OnBreak)
        candidates == AssignmentCandidates(rows, OnBreak)
    IN  /\ cases[c].status = NULL
        /\ auditors' = rows
        /\ analysis' = [analysis EXCEPT ![c] = "queued"]
        /\ \/ \E a \in PickBest(cases, rows, turn, candidates) :
                 /\ cases' = [cases EXCEPT ![c].status = "AI_PROCESSING",
                                           ![c].auditor = a]
                 /\ turn' = TurnOf(turn, a)
                 /\ UNCHANGED queued
           \/ /\ candidates = {}    \* mark_fallback
              /\ cases' = [cases EXCEPT ![c].status = "AI_PROCESSING",
                                        ![c].visibility = "SUPER_ADMIN_ONLY"]
              /\ queued' = QueuedNow(queued, c)
              /\ UNCHANGED turn
        /\ UNCHANGED <<breaks, alerts, handoff>>

-----------------------------------------------------------------------------
(***************************************************************************)
(* The background analysis of one case. It never locks the row, and its    *)
(* last commit writes the status it decided when it started.               *)
(***************************************************************************)
\* The thread loads the case and clears its AI columns.
AnalysisLoad(c) ==
    /\ analysis[c] = "queued"
    /\ cases[c].status # "COMPLETE"
    /\ analysis' = [analysis EXCEPT ![c] = "loaded"]
    /\ cases' = [cases EXCEPT ![c].status = "AI_PROCESSING",
                              ![c].tier = NULL, ![c].ai_failure = NULL]
    /\ UNCHANGED <<auditors, turn, queued, breaks, alerts, handoff>>

\* CaseAnalysisError: the case was completed before the thread got to it.
AnalysisRefused(c) ==
    /\ analysis[c] = "queued"
    /\ cases[c].status = "COMPLETE"
    /\ analysis' = [analysis EXCEPT ![c] = "idle"]
    /\ UNCHANGED <<cases, auditors, turn, queued, breaks, alerts, handoff>>

\* The governance run is recorded and its id committed on the case.
AnalysisStartRun(c) ==
    /\ analysis[c] = "loaded"
    /\ analysis' = [analysis EXCEPT ![c] = "running"]
    /\ cases' = [cases EXCEPT ![c].run = TRUE]
    /\ UNCHANGED <<auditors, turn, queued, breaks, alerts, handoff>>

\* The last commit. Only columns that differ from what the session loaded are
\* written: a failed run leaves the tier column alone (it set NULL over NULL).
AnalysisFinish(c) ==
    /\ analysis[c] = "running"
    /\ analysis' = [analysis EXCEPT ![c] = "idle"]
    /\ \/ \E t \in Tiers :
             cases' = [cases EXCEPT ![c].status = "READY_FOR_REVIEW", ![c].tier = t]
       \/ cases' = [cases EXCEPT ![c].status = "READY_FOR_REVIEW",
                                 ![c].ai_failure = "vision"]
    /\ UNCHANGED <<auditors, turn, queued, breaks, alerts, handoff>>

\* Any other exception is logged and the thread ends; nothing retries.
AnalysisRaises(c) ==
    /\ analysis[c] \in {"loaded", "running"}
    /\ analysis' = [analysis EXCEPT ![c] = "idle"]
    /\ UNCHANGED <<cases, auditors, turn, queued, breaks, alerts, handoff>>

\* The process stops and starts again: background tasks live in its memory,
\* and the transaction a job had open is rolled back.
Restart ==
    /\ \/ \E c \in Cases : analysis[c] # "idle"
       \/ pass # NoPass
       \/ daily # NoDaily
    /\ analysis' = [c \in Cases |-> "idle"]
    /\ pass' = NoPass
    /\ daily' = NoDaily
    /\ UNCHANGED <<cases, auditors, turn, queued, breaks, alerts, handoff>>

\* POST /api/internal/cases/{id}/mock-ai-result
InsertMockAiResult(c) ==
    /\ cases[c].status \notin {NULL, "COMPLETE"}
    /\ ~cases[c].run
    /\ \E t \in Tiers :
          cases' = [cases EXCEPT ![c].status = "READY_FOR_REVIEW", ![c].tier = t,
                                 ![c].ai_failure = NULL]
    /\ UNCHANGED <<auditors, turn, queued, analysis, breaks, alerts, handoff>>

-----------------------------------------------------------------------------
(***************************************************************************)
(* The Auditor's handlers on a case they own.                              *)
(***************************************************************************)
AcknowledgeContentWarning(a, c) ==
    /\ Owns(a, c)
    /\ cases[c].status = "READY_FOR_REVIEW"
    /\ cases' = [cases EXCEPT ![c].status = "AUDITOR_REVIEW"]
    /\ UNCHANGED <<auditors, turn, queued, analysis, breaks, alerts, handoff>>

\* The request carries the run id the case has now, or it is refused.
ResolveCase(a, c) ==
    /\ Owns(a, c)
    /\ cases[c].status \in {"READY_FOR_REVIEW", "AUDITOR_REVIEW"}
    /\ cases[c].flag = NULL
    /\ \E o \in DecidedHere :
          /\ cases' = [cases EXCEPT ![c].status = "COMPLETE", ![c].outcome = o]
          /\ HandOff(c, o)
    /\ auditors' = [auditors EXCEPT ![a] = CooldownAfter(@, cases[c].tier)]
    /\ UNCHANGED <<turn, queued, analysis, breaks, alerts>>

DeclineCase(a, c) ==
    /\ Owns(a, c)
    /\ cases[c].status # "COMPLETE"
    /\ cases' = [cases EXCEPT ![c].flag = "DECLINED"]
    /\ UNCHANGED <<auditors, turn, queued, analysis, breaks, alerts, handoff>>

\* The case under review and the Auditor's other unstarted cases go back.
ReleaseCaseAtLimit(a, c) ==
    /\ Owns(a, c)
    /\ cases[c].status # "COMPLETE"
    /\ cases' = [d \in Cases |->
                   IF d = c \/ (/\ cases[d].auditor = a
                                /\ cases[d].status = "READY_FOR_REVIEW"
                                /\ cases[d].flag = NULL)
                   THEN [cases[d] EXCEPT !.flag = "CAP_REACHED"]
                   ELSE cases[d]]
    /\ UNCHANGED <<auditors, turn, queued, analysis, breaks, alerts, handoff>>

ReleaseAllCasesAtLimit(a) ==
    LET pending == {c \in Cases : /\ cases[c].auditor = a
                                  /\ cases[c].status \in {"READY_FOR_REVIEW",
                                                          "AUDITOR_REVIEW"}
                                  /\ cases[c].flag = NULL}
    IN  /\ pending # {}
        /\ cases' = [c \in Cases |-> IF c \in pending
                                     THEN [cases[c] EXCEPT !.flag = "CAP_REACHED"]
                                     ELSE cases[c]]
        /\ UNCHANGED <<auditors, turn, queued, analysis, breaks, alerts, handoff>>

\* One UPDATE adds the sample; any status, and the limit stops nothing here.
RecordExposure(a, c) ==
    /\ Owns(a, c)
    /\ auditors[a].exposure < MaxExposure
    /\ auditors' = [auditors EXCEPT ![a].exposure = @ + 1]
    /\ UNCHANGED <<cases, turn, queued, analysis, breaks, alerts, handoff>>

TriggerSos(a, c) ==
    /\ Owns(a, c)
    /\ Len(alerts) < MaxAlerts
    /\ cases' = [cases EXCEPT ![c].flag = "SOS"]
    /\ auditors' = [auditors EXCEPT ![a] = SosCooldown(@)]
    /\ alerts' = Append(alerts, [actor |-> a, status |-> "UNACKNOWLEDGED"])
    /\ UNCHANGED <<turn, queued, analysis, breaks, handoff>>

\* Mutant: the cases the Manager has are returned with the others.
StopShiftUnflags(a) ==
    /\ auditors' = [auditors EXCEPT ![a].exposure = EffectiveLimit(auditors[a])]
    /\ cases' = [c \in Cases |->
                   IF /\ cases[c].auditor = a
                      /\ cases[c].status \in {"READY_FOR_REVIEW", "AUDITOR_REVIEW"}
                   THEN [cases[c] EXCEPT !.status = "READY_FOR_REVIEW",
                                         !.auditor = NULL, !.flag = NULL]
                   ELSE cases[c]]
    /\ UNCHANGED <<turn, queued, analysis, breaks, alerts, handoff>>

\* Exposure is pinned to the limit without the daily reset, and the cases
\* under review lose their owner but keep their flag and visibility.
StopShift(a) ==
    /\ auditors' = [auditors EXCEPT ![a].exposure = EffectiveLimit(auditors[a])]
    /\ cases' = [c \in Cases |->
                   IF /\ cases[c].auditor = a
                      /\ cases[c].status \in {"READY_FOR_REVIEW", "AUDITOR_REVIEW"}
                   THEN [cases[c] EXCEPT !.status = "READY_FOR_REVIEW",
                                         !.auditor = NULL]
                   ELSE cases[c]]
    /\ UNCHANGED <<turn, queued, analysis, breaks, alerts, handoff>>

-----------------------------------------------------------------------------
(***************************************************************************)
(* The fallback queue.                                                     *)
(***************************************************************************)
\* Mutant: the owner is not looked at again once the row is locked.
TakeOwnedCase(a, c) ==
    LET row == ResetDaily(auditors[a])
    IN  /\ a \in SuperAuditors
        /\ cases[c].status \notin {NULL, "COMPLETE"}
        /\ cases[c].flag = NULL
        /\ NoUnavailableReason(cases, row, a, OnBreak)
        /\ auditors' = [auditors EXCEPT ![a] = row]
        /\ cases' = [cases EXCEPT ![c] = Assigned(@, a)]
        /\ turn' = TurnOf(turn, a)
        /\ UNCHANGED <<queued, analysis, breaks, alerts, handoff>>

\* The request applies the daily reset to its own row before it decides; a
\* refusal is an exception, so nothing of it is committed.
TakeCase(a, c) ==
    LET row == ResetDaily(auditors[a])
    IN  /\ a \in SuperAuditors
        /\ cases[c].status \notin {NULL, "COMPLETE"}
        /\ cases[c].flag = NULL
        /\ cases[c].auditor = NULL
        /\ NoUnavailableReason(cases, row, a, OnBreak)
        /\ auditors' = [auditors EXCEPT ![a] = row]
        /\ cases' = [cases EXCEPT ![c] = Assigned(@, a)]
        /\ turn' = TurnOf(turn, a)
        /\ UNCHANGED <<queued, analysis, breaks, alerts, handoff>>

\* A claim does not look at the status: a released case closed since can
\* still be claimed.
ClaimCase(a, c) ==
    LET row == ResetDaily(auditors[a])
    IN  /\ cases[c].status # NULL
        /\ cases[c].visibility = "AVAILABLE_TO_AUDITORS"
        /\ cases[c].auditor = NULL
        /\ cases[c].flag = NULL
        /\ NoUnavailableReason(cases, row, a, OnBreak)
        /\ auditors' = [auditors EXCEPT ![a] = row]
        /\ cases' = [cases EXCEPT ![c] = Assigned(@, a)]
        /\ turn' = TurnOf(turn, a)
        /\ UNCHANGED <<queued, analysis, breaks, alerts, handoff>>

\* Mutant: releasing does not ask whether the case has an owner.
MakeAvailableOwned(c) ==
    /\ cases[c].status \notin {NULL, "COMPLETE"}
    /\ cases[c].flag = NULL
    /\ cases' = [cases EXCEPT ![c].visibility = "AVAILABLE_TO_AUDITORS"]
    /\ UNCHANGED <<auditors, turn, queued, analysis, breaks, alerts, handoff>>

MakeAvailable(c) ==
    /\ cases[c].status \notin {NULL, "COMPLETE"}
    /\ cases[c].flag = NULL
    /\ cases[c].auditor = NULL
    /\ cases[c].visibility # "AVAILABLE_TO_AUDITORS"
    /\ cases' = [cases EXCEPT ![c].visibility = "AVAILABLE_TO_AUDITORS"]
    /\ UNCHANGED <<auditors, turn, queued, analysis, breaks, alerts, handoff>>

\* The case is parked again, last in the queue, and a pass runs at once (after
\* the one the job has under way: both lock what waits).
WithdrawRelease(c) ==
    LET parked   == [cases EXCEPT ![c].visibility = "SUPER_ADMIN_ONLY"]
        requeued == QueuedNow(queued, c)
    IN  /\ pass.phase = "idle"
        /\ cases[c].status \notin {NULL, "COMPLETE"}
        /\ cases[c].flag = NULL
        /\ cases[c].auditor = NULL
        /\ cases[c].visibility = "AVAILABLE_TO_AUDITORS"
        /\ queued' = requeued
        /\ \E r \in ReleasedRows(parked, auditors, turn, requeued, OnBreak) :
              /\ cases' = r.cases
              /\ auditors' = r.auditors
              /\ turn' = r.turn
        /\ UNCHANGED <<analysis, breaks, alerts, handoff>>

\* The pass in a handler: GET /api/auditor/cases and GET /api/auditor/all-cases.
\* With nothing waiting it changes no row.
ReleaseWaitingCases ==
    /\ pass.phase = "idle"
    /\ Waiting(cases, queued) # {}
    /\ \E r \in ReleasedRows(cases, auditors, turn, queued, OnBreak) :
          /\ cases' = r.cases
          /\ auditors' = r.auditors
          /\ turn' = r.turn
    /\ UNCHANGED <<queued, analysis, breaks, alerts, handoff>>

\* GET /api/auditor/available-cases: a pass, then the reader's own reset.
ListAvailableCases(a) ==
    /\ pass.phase = "idle"
    /\ \E r \in ReleasedRows(cases, auditors, turn, queued, OnBreak) :
          /\ cases' = r.cases
          /\ auditors' = ResetFor(r.auditors, {a})
          /\ turn' = r.turn
    /\ UNCHANGED <<queued, analysis, breaks, alerts, handoff>>

-----------------------------------------------------------------------------
(***************************************************************************)
(* The Manager's handlers.                                                 *)
(***************************************************************************)
\* No look at the case itself: any status, owner or flag.
ReassignCase(c, a) ==
    /\ cases[c].status # NULL
    /\ MayBeReassignedTo(cases, auditors, a, OnBreak)
    /\ cases' = [cases EXCEPT ![c].auditor = a,
                              ![c].visibility = "ASSIGNED_ONLY",
                              ![c].status = "READY_FOR_REVIEW",
                              ![c].flag = NULL]
    /\ UNCHANGED <<auditors, turn, queued, analysis, breaks, alerts, handoff>>

CloseWithoutReassignment(c) ==
    /\ cases[c].status # NULL
    /\ cases' = [cases EXCEPT ![c].status = "COMPLETE",
                              ![c].outcome = "CLOSED_NO_REASSIGNMENT"]
    /\ HandOff(c, "CLOSED_NO_REASSIGNMENT")
    /\ UNCHANGED <<auditors, turn, queued, analysis, breaks, alerts>>

SetExposureLimit(a, minutes) ==
    /\ auditors' = [auditors EXCEPT ![a].limit = minutes]
    /\ UNCHANGED <<cases, turn, queued, analysis, breaks, alerts, handoff>>

\* The check-in after an S4 case; a pending SOS is refused here.
LogCheckIn(a) ==
    /\ auditors[a].trigger = "S4"
    /\ ~auditors[a].check_in_done
    /\ auditors' = [auditors EXCEPT ![a].check_in_done = TRUE]
    /\ UNCHANGED <<cases, turn, queued, analysis, breaks, alerts, handoff>>

AcknowledgeSosAlert(i) ==
    /\ alerts[i].status = "UNACKNOWLEDGED"
    /\ alerts' = [alerts EXCEPT ![i].status = "IN_PROGRESS"]
    /\ UNCHANGED <<cases, auditors, turn, queued, analysis, breaks, handoff>>

\* Mutant: the alert is resolved and the Auditor's row is forgotten.
LogSosFollowUpOnly(i) ==
    /\ alerts' = [alerts EXCEPT ![i].status = "RESOLVED"]
    /\ UNCHANGED <<cases, auditors, turn, queued, analysis, breaks, handoff>>

\* Any alert, resolved ones too; it discharges whatever check-in the Auditor's
\* row is waiting for now.
LogSosFollowUp(i) ==
    /\ alerts' = [alerts EXCEPT ![i].status = "RESOLVED"]
    /\ auditors' = [auditors EXCEPT ![alerts[i].actor].check_in_done = TRUE]
    /\ UNCHANGED <<cases, turn, queued, analysis, breaks, handoff>>

-----------------------------------------------------------------------------
(***************************************************************************)
(* Breaks, the reader's own reset and the clock.                           *)
(***************************************************************************)
RequestBreak(a) ==
    /\ breaks[a].requests < MaxRequests
    /\ breaks' = [breaks EXCEPT ![a].requests = @ + 1]
    /\ UNCHANGED <<cases, auditors, turn, queued, analysis, alerts, handoff>>

WithdrawBreakRequest(a) ==
    /\ breaks[a].requests > 0
    /\ breaks' = [breaks EXCEPT ![a].requests = @ - 1]
    /\ UNCHANGED <<cases, auditors, turn, queued, analysis, alerts, handoff>>

\* The break starts now; the latest of several approved ones decides its end.
ApproveBreakRequest(a) ==
    /\ breaks[a].requests > 0
    /\ breaks' = [breaks EXCEPT ![a] = [requests |-> @.requests - 1,
                                        left |-> BreakTicks]]
    /\ UNCHANGED <<cases, auditors, turn, queued, analysis, alerts, handoff>>

\* GET /api/auditor/wellbeing applies the reset to the reader's row.
GetMyWellbeing(a) ==
    /\ auditors[a].reset_due
    /\ auditors' = ResetFor(auditors, {a})
    /\ UNCHANGED <<cases, turn, queued, analysis, breaks, alerts, handoff>>

-----------------------------------------------------------------------------
(***************************************************************************)
(* The release job, every 30 seconds in a worker thread: release_waiting_  *)
(* cases in a transaction of its own. Only the case rows are locked, until *)
(* the commit; the statements made for one case are taken at one moment.   *)
(***************************************************************************)
\* SELECT ... FOR UPDATE of the waiting cases.
PassBegins ==
    /\ pass.phase = "idle"
    /\ Waiting(cases, queued) # {}
    /\ pass' = [NoPass EXCEPT !.phase = "locked", !.locked = Waiting(cases, queued)]
    /\ UNCHANGED <<tables, daily>>

Placed     == {c \in Cases : pass.given[c] # NULL}
GivenTo(a) == {c \in Cases : pass.given[c] = a}

\* Mutant: the loads leave out what the pass has placed so far.
LoadBefore(a) == ActiveCount(cases, a)

Load(a) == ActiveCount(cases, a) + Cardinality(GivenTo(a))

\* The Auditor rows as the session has them: read for the first case, kept for
\* the others (the identity map does not refresh a loaded row).
SessionRows == IF pass.phase = "locked" THEN [a \in Standard |-> auditors[a]]
               ELSE pass.rows

\* One turn of the loop: list_assignment_candidates resets the rows it finds
\* due, then the oldest case left goes to the best candidate, by the loads of
\* now and the pass's own placements. Without a candidate the loop ends.
PassPlaces(c) ==
    LET due   == {a \in Standard \ OnBreak : SessionRows[a].reset_due}
        rows  == [a \in Standard |-> IF a \in due THEN ResetDaily(SessionRows[a])
                                     ELSE SessionRows[a]]
        fit   == {a \in AssignmentCandidates(rows, OnBreak) : ~HasOpenSos(cases, a)}
        score == [a \in Standard |-> Score(rows[a], Load(a))]
        when  == [a \in Standard |-> LastGiven(pass.given, queued, Placed, a)]
        reset == [pass EXCEPT !.rows = rows,
                              !.stamped = @ \cup due,
                              !.late = @ \ due,
                              !.zeroed = @ \cup {a \in due : SessionRows[a].exposure > 0}]
    IN  /\ pass.phase \in {"locked", "placing"}
        /\ c \in pass.locked \ Placed
        /\ \A d \in pass.locked \ Placed : queued[c] <= queued[d]
        /\ \/ \E a \in fit :
                 /\ \A b \in fit \ {a} : ComesBefore(score, when, turn, a, b)
                 /\ pass' = [reset EXCEPT
                               !.given[c] = a,
                               !.phase = IF pass.locked \subseteq Placed \cup {c}
                                         THEN "chosen" ELSE "placing"]
           \/ /\ fit = {}
              /\ pass' = [reset EXCEPT !.phase = "chosen"]
        /\ UNCHANGED <<tables, daily>>

\* What a commit of "auditors" and "cases" changes under a job that has read.
Missed == {a \in Auditors :
             \/ auditors'[a] # auditors[a]
             \/ breaks'[a] # breaks[a]
             \/ \E c \in Cases : /\ cases'[c] # cases[c]
                                 /\ a \in {cases[c].auditor, cases'[c].auditor}}

PassMisses  == pass' = IF pass.phase \in {"placing", "chosen"}
                       THEN [pass EXCEPT !.missed = @ \cup (Missed \cap Standard)]
                       ELSE pass
DailyMisses == daily' = [daily EXCEPT !.missed = @ \cup (Missed \cap daily.zeroed)]

\* A job's UPDATE of the reset columns writes what it decided when it read; a
\* last reset before today's 09:00 makes the row due, again if need be.
ResetBy(job) == [a \in Auditors |->
                   [auditors[a] EXCEPT
                      !.exposure = IF a \in job.zeroed THEN 0 ELSE @,
                      !.reset_due = IF a \in job.stamped THEN FALSE
                                    ELSE a \in job.late \/ @]]

PassCommits ==
    /\ pass.phase = "chosen"
    /\ cases' = [c \in Cases |-> IF c \in Placed THEN Assigned(cases[c], pass.given[c])
                                 ELSE cases[c]]
    /\ auditors' = ResetBy(pass)
    /\ turn' = TurnAfter(turn, [a \in Auditors |->
                                  LastGiven(pass.given, queued, Placed, a)])
    /\ pass' = NoPass
    /\ UNCHANGED <<queued, analysis, breaks, alerts, handoff>>
    /\ DailyMisses

\* An exception rolls the pass back; the next one starts afresh.
PassFails == /\ pass.phase # "idle"
             /\ pass' = NoPass
             /\ UNCHANGED <<tables, daily>>

\* Mutant of DailyReads: every row is reset, whenever its last reset was.
DailyReadsAll ==
    /\ daily = NoDaily
    /\ daily' = [zeroed |-> {a \in Auditors : auditors[a].exposure > 0},
                 stamped |-> Auditors, late |-> {}, missed |-> {}]
    /\ UNCHANGED <<tables, pass>>

(***************************************************************************)
(* The 09:00 job, in a worker thread too: it reads every row and decides,  *)
(* and the UPDATEs reach the rows that others have written meanwhile.      *)
(***************************************************************************)
DailyReads ==
    LET due == {a \in Auditors : auditors[a].reset_due}
    IN  /\ daily = NoDaily
        /\ due # {}
        /\ daily' = [zeroed |-> {a \in due : auditors[a].exposure > 0},
                     stamped |-> due, late |-> {}, missed |-> {}]
        /\ UNCHANGED <<tables, pass>>

DailyCommits ==
    /\ daily # NoDaily
    /\ auditors' = ResetBy(daily)
    /\ daily' = NoDaily
    /\ UNCHANGED <<cases, turn, queued, analysis, breaks, alerts, handoff>>
    /\ PassMisses

DailyFails == /\ daily # NoDaily
              /\ daily' = NoDaily
              /\ UNCHANGED <<tables, pass>>

-----------------------------------------------------------------------------
\* 09:00 passes: every row's last reset is before today's boundary, the ones a
\* job has read or written without a commit included.
WorkdayStarts ==
    /\ \E a \in Auditors : ~auditors[a].reset_due
    /\ auditors' = [a \in Auditors |-> [auditors[a] EXCEPT !.reset_due = TRUE]]
    /\ pass' = IF pass.phase \in {"placing", "chosen"}
               THEN [pass EXCEPT
                       !.rows = [a \in Standard |-> [pass.rows[a] EXCEPT !.reset_due = TRUE]],
                       !.stamped = {}, !.late = @ \cup pass.stamped,
                       !.missed = Standard]
               ELSE pass
    /\ daily' = [daily EXCEPT !.stamped = {}, !.late = @ \cup daily.stamped,
                             !.missed = daily.zeroed]
    /\ UNCHANGED <<cases, turn, queued, analysis, breaks, alerts, handoff>>

\* Mutant: a timer that has ended keeps counting.
LessForever(n) == n - 1

Less(n) == IF n = 0 THEN 0 ELSE n - 1

\* Fifteen minutes pass, for the rows a job holds too.
Tick ==
    /\ \E a \in Auditors : auditors[a].cooldown > 0 \/ breaks[a].left > 0
    /\ auditors' = [a \in Auditors |-> [auditors[a] EXCEPT !.cooldown = Less(@)]]
    /\ breaks' = [a \in Auditors |-> [breaks[a] EXCEPT !.left = Less(@)]]
    /\ pass' = [pass EXCEPT
                  !.rows = [a \in Standard |-> [pass.rows[a] EXCEPT !.cooldown = Less(@)]],
                  !.missed = IF pass.phase \in {"placing", "chosen"}
                             THEN @ \cup (Missed \cap Standard) ELSE @]
    /\ UNCHANGED <<cases, turn, queued, analysis, alerts, handoff>>
    /\ DailyMisses

-----------------------------------------------------------------------------
AnalysisStep(c) == \/ AnalysisLoad(c) \/ AnalysisRefused(c)
                   \/ AnalysisStartRun(c) \/ AnalysisFinish(c)

CaseStep(c) == \/ CreateReport(c)
               \/ AnalysisStep(c)
               \/ AnalysisRaises(c)
               \/ InsertMockAiResult(c)
               \/ MakeAvailable(c)
               \/ WithdrawRelease(c)
               \/ CloseWithoutReassignment(c)

ReviewStep(a, c) == \/ AcknowledgeContentWarning(a, c)
                    \/ ResolveCase(a, c)
                    \/ DeclineCase(a, c)
                    \/ ReleaseCaseAtLimit(a, c)
                    \/ RecordExposure(a, c)
                    \/ TriggerSos(a, c)
                    \/ TakeCase(a, c)
                    \/ ClaimCase(a, c)
                    \/ ReassignCase(c, a)

AuditorStep(a) == \/ ReleaseAllCasesAtLimit(a)
                  \/ StopShift(a)
                  \/ ListAvailableCases(a)
                  \/ \E m \in Limits : SetExposureLimit(a, m)
                  \/ LogCheckIn(a)
                  \/ RequestBreak(a)
                  \/ WithdrawBreakRequest(a)
                  \/ ApproveBreakRequest(a)
                  \/ GetMyWellbeing(a)

AlertStep(i) == AcknowledgeSosAlert(i) \/ LogSosFollowUp(i)

Handler == \/ \E c \in Cases : CaseStep(c)
           \/ \E a \in Auditors, c \in Cases : ReviewStep(a, c)
           \/ \E a \in Auditors : AuditorStep(a)
           \/ \E i \in DOMAIN alerts : AlertStep(i)
           \/ ReleaseWaitingCases

\* What would change a case row that the release job has locked waits for the
\* end of its transaction; everything else goes on beside the jobs.
HandlerStep == /\ Handler
               /\ \A c \in pass.locked : cases'[c] = cases[c]
               /\ PassMisses
               /\ DailyMisses

PassStep  == PassBegins \/ (\E c \in Cases : PassPlaces(c)) \/ PassCommits \/ PassFails
DailyStep == DailyReads \/ DailyCommits \/ DailyFails

Next == HandlerStep \/ PassStep \/ DailyStep \/ WorkdayStarts \/ Tick \/ Restart

Spec == Init /\ [][Next]_vars

\* The scheduler begins a pass every 30 seconds, and not every pass fails.
FairSpec == /\ Spec
            /\ WF_vars(PassBegins)
            /\ \A c \in Cases : SF_vars(PassPlaces(c))
            /\ SF_vars(PassCommits)

-----------------------------------------------------------------------------
(***************************************************************************)
(* Safety.                                                                 *)
(***************************************************************************)
\* A case listed in a queue has no owner and is not waiting for a Manager: what
\* an Auditor may claim or take belongs to nobody, whoever declined, stopped,
\* released, withdrew or reassigned before.
QueuedCasesAreFree ==
    \A c \in Cases : cases[c].visibility # "ASSIGNED_ONLY"
                        => cases[c].auditor = NULL /\ cases[c].flag = NULL

\* No parked case is forgotten: every case parked for the automatic release
\* that it may place has its queued time, and no two the same, so a pass sees
\* them all and in one order.
ParkedCasesAreQueued ==
    \A c \in Cases :
        cases[c].visibility = "SUPER_ADMIN_ONLY"
            => /\ queued[c] # 0
               /\ \A d \in Cases \ {c} : queued[d] # queued[c]

\* The customer hears about every finished case: a completed case has a final
\* outcome, and a case has one exactly when it has a delivery, reopened cases
\* included (resolve_case and close_without_reassignment both create it).
CompletedIsHandedOff ==
    \A c \in Cases : /\ cases[c].status = "COMPLETE" => cases[c].outcome # NULL
                     /\ cases[c].outcome # NULL <=> handoff[c] # NULL

\* Nobody is stuck in an SOS: while an Auditor's SOS check-in is pending there
\* is an unresolved alert of theirs whose follow-up will log it (log_check_in
\* refuses an SOS, so the follow-up is the only way out).
PendingSosHasAlert ==
    \A a \in Auditors :
        auditors[a].trigger = "SOS" /\ ~auditors[a].check_in_done
            => \E i \in DOMAIN alerts : /\ alerts[i].actor = a
                                        /\ alerts[i].status # "RESOLVED"

(***************************************************************************)
(* What a step may never do.                                               *)
(***************************************************************************)
\* The outcome sent to the customer is sent once: closing, reopening and
\* resolving again never change an existing delivery.
HandoffIsFinal ==
    [][\A c \in Cases : handoff[c] # NULL => handoff'[c] = handoff[c]]_vars

\* Whoever gives a case (a new report, a claim, a take, a pass or the Manager),
\* its new owner has no cooldown running, is under the exposure limit as the same
\* transaction leaves it, and is not on a break. The job's pass may fail this
\* for somebody whose row or break has changed since it read, and then they were
\* fit in the row it read; where nothing has changed there is no such excuse.
NewOwnerIsFit ==
    [][\A c \in Cases, a \in Auditors :
         cases'[c].auditor = a /\ cases[c].auditor # a
            => \/ /\ auditors'[a].cooldown = 0
                  /\ auditors'[a].exposure
                       < (IF auditors[a].limit = 0 THEN DefaultLimit ELSE auditors[a].limit)
                  /\ breaks[a].left = 0
               \/ /\ PassCommits
                  /\ a \in pass.missed
                  /\ ~InCooldown(pass.rows[a])
                  /\ ~AtLimit(pass.rows[a])]_vars

\* A case stays with its owner: whoever lists, takes, claims, places or analyses
\* cases at the same time, an Auditor loses one only by ending their own shift or
\* by the Manager's reassignment.
CaseStaysWithOwner ==
    [][\A c \in Cases, a \in Auditors :
         cases[c].auditor = a /\ cases'[c].auditor # a
            => StopShift(a) \/ \E b \in Auditors : ReassignCase(c, b)]_vars

\* One allowance per workday: exposure falls back to 0 only for a reset that
\* was due, and that uses the reset up, whichever of the two jobs and the
\* handlers that apply it lazily comes first. Only a job that writes what it
\* decided before somebody else changed the row may do it a second time.
OneResetPerWorkday ==
    [][\A a \in Auditors :
         auditors[a].exposure > 0 /\ auditors'[a].exposure = 0
            => \/ auditors[a].reset_due /\ ~auditors'[a].reset_due
               \/ PassCommits /\ a \in pass.zeroed \cap pass.missed
               \/ DailyCommits /\ a \in daily.zeroed \cap daily.missed]_vars

\* An S4 or SOS hold outlives its timer, the night and the other handlers: it
\* ends by a Manager's log, or when the Auditor completes another case.
HoldEndsByManagerOrReview ==
    [][\A a \in Auditors :
         (auditors[a].trigger \in {"S4", "SOS"} /\ ~auditors[a].check_in_done)
         /\ (auditors'[a].trigger \notin {"S4", "SOS"} \/ auditors'[a].check_in_done)
            => \/ LogCheckIn(a)
               \/ \E i \in DOMAIN alerts : alerts[i].actor = a /\ LogSosFollowUp(i)
               \/ \E c \in Cases : ResolveCase(a, c)]_vars

\* Auditors the automatic release may choose, a due reset counted as applied.
FitForRelease(a) ==
    /\ a \in Standard
    /\ breaks[a].left = 0
    /\ auditors[a].cooldown = 0
    /\ auditors[a].trigger \in {"S4", "SOS"} => auditors[a].check_in_done
    /\ auditors[a].reset_due \/ auditors[a].exposure < EffectiveLimit(auditors[a])
    /\ \A c \in Cases : cases[c].auditor = a => cases[c].flag # "SOS"

\* A release pass leaves the load balanced, however many cases it placed: who
\* got one is, without the last of them, loaded no more than any other
\* Auditor who could have had it. For the job's pass this is said of Auditors
\* whose row, break and cases are as the pass read them.
ReleaseIsBalanced ==
    [][\A c \in Cases, a, b \in Auditors :
          /\ cases[c].auditor = NULL
          /\ cases'[c].auditor = a
          /\ FitForRelease(b)
          /\ ReleaseWaitingCases \/ (PassCommits /\ {a, b} \cap pass.missed = {})
          => Score(auditors'[a], ActiveCount(cases', a) - 1)
               <= Score(auditors'[b], ActiveCount(cases', b))]_vars

(***************************************************************************)
(* Liveness, under FairSpec.                                               *)
(***************************************************************************)
Parked(c) == /\ cases[c].visibility = "SUPER_ADMIN_ONLY"
             /\ cases[c].status \notin {NULL, "COMPLETE"}

\* No parked case waits for ever beside an Auditor who could have it: it leaves
\* the queue, or that Auditor is unfit at some time.
ParkedIsPlaced ==
    \A c \in Cases, a \in Standard :
        Parked(c) ~> (~Parked(c) \/ ~FitForRelease(a))
=============================================================================
