----------------------------- MODULE MockCases -----------------------------
(***************************************************************************)
(* The case half of the mock data source: the frontend's stand-in for the  *)
(* backend, one JSON document in sessionStorage and a handler per service  *)
(* call. It "follows the same business rules the real one must" with code  *)
(* of its own, so it is modelled from that code; that it keeps the same    *)
(* promise is checked against Custody, the abstract specification of the   *)
(* backend's workflow.                                                     *)
(*                                                                         *)
(* updateDb reads the document, runs a handler and writes it back in one   *)
(* synchronous step, so a handler is one action. A handler that rejects    *)
(* its input, and the demo flags that make the next call fail or the next  *)
(* target unavailable, change nothing modelled here: they are stutters.    *)
(* Timers are 15-minute ticks rounded up, exposure is in units, as in      *)
(* AuditorRules.                                                           *)
(***************************************************************************)
EXTENDS Integers, Sequences, FiniteSets

CONSTANTS Cases, Standard, SuperAuditors, NULL, DefaultLimit, UnitMinutes,
          Limits,       \* exposure limits a Manager may set, in units
          Decisions,    \* outcomes the Auditors decide on here (a bound)
          Analyses,     \* tiers the synthetic analysis finds here (a bound)
          Ratings,      \* tiers they may rate a case with (a bound)
          MaxExposure,  \* units watched in a day (a bound)
          MaxActive,    \* active_case_count at which reassigning stops (a bound)
          MaxSos        \* SOS alerts (a bound)

VARIABLES db,           \* the document
          handedBy      \* who handed over each case the Manager has: the later of
                        \* decline.declined_at and the events' triggered_at

vars == <<db, handedBy>>

Backend == INSTANCE AuditorRules

Auditors     == Backend!Auditors
Statuses     == {"AI_PROCESSING", "READY_FOR_REVIEW", "AUDITOR_REVIEW", "COMPLETE"}
Kinds        == {"BREAK_REQUEST", "TALK_TO_MANAGER"}

CaseRow == [status      : Statuses \cup {NULL},
            auditor     : Auditors \cup {NULL},
            flag        : Backend!Flags \cup {NULL},
            visibility  : Backend!Visibilities,
            tier        : Backend!AllTiers \cup {NULL},
            outcome     : Backend!Outcomes \cup {NULL}]

Cooldown == [left     : 0..2,
             trigger  : Backend!AllTiers \cup {"SOS"},
             requires : BOOLEAN,        \* requires_check_in
             done     : BOOLEAN]        \* check_in_completed_at is set

ASSUME MockAssumption ==
    /\ IsFiniteSet(Cases) /\ IsFiniteSet(Standard)
    /\ Standard \cap SuperAuditors = {}
    /\ DefaultLimit \in Nat \ {0} /\ Limits \subseteq Nat \ {0}
    /\ MaxExposure \in Nat /\ MaxActive \in Nat /\ MaxSos \in Nat
    /\ Decisions \subseteq Backend!Decided
    /\ Analyses \subseteq {"S2", "S3"}
    /\ Ratings \subseteq Backend!AllTiers
    /\ NULL \notin Auditors \cup Statuses \cup Backend!Flags \cup Backend!AllTiers
                   \cup Backend!Outcomes \cup Cooldown

StaffRow == [exposure : 0..MaxExposure,
             limit    : Limits \cup {DefaultLimit},
             active   : Nat,            \* active_case_count, as stored
             last     : Nat,            \* rank of last_assigned_at in the pool
             cooldown : Cooldown \cup {NULL},
             break    : 0..1]           \* ticks of an approved break to run

SosEvent == [auditor : Auditors, case : Cases, acknowledged : BOOLEAN, resolved : BOOLEAN]

\* "queued" is the rank of fallback_queued_at, 0 for null; "asked" are the requests
\* a Manager has not answered, and the page lets an Auditor have one of each kind.
Document == [cases     : [Cases -> CaseRow],
             queued    : [Cases -> Nat],
             staff     : [Auditors -> StaffRow],
             asked     : [Auditors -> SUBSET Kinds],
             sosEvents : Seq(SosEvent)]

TypeOK == /\ db \in Document /\ Len(db.sosEvents) <= MaxSos
          /\ handedBy \in [Cases -> Auditors \cup {NULL}]

NoCase == [status |-> NULL, auditor |-> NULL, flag |-> NULL,
           visibility |-> "ASSIGNED_ONLY", tier |-> NULL, outcome |-> NULL]

NewStaff == [exposure |-> 0, limit |-> DefaultLimit, active |-> 0, last |-> 0,
             cooldown |-> NULL, break |-> 0]

Empty == [cases     |-> [c \in Cases |-> NoCase],
          queued    |-> [c \in Cases |-> 0],
          staff     |-> [a \in Auditors |-> NewStaff],
          asked     |-> [a \in Auditors |-> {}],
          sosEvents |-> <<>>]

Init == db = Empty /\ handedBy = [c \in Cases |-> NULL]

-----------------------------------------------------------------------------
(***************************************************************************)
(* Who may be given a case.                                                *)
(***************************************************************************)
AwaitsCheckIn(s) == s.cooldown # NULL /\ s.cooldown.requires /\ ~s.cooldown.done

InCooldown(s) == s.cooldown # NULL /\ (s.cooldown.left > 0 \/ AwaitsCheckIn(s))

AtLimit(s) == s.exposure >= s.limit

Available(s) == ~AtLimit(s) /\ ~InCooldown(s) /\ s.break = 0

\* unavailableReason returned null.
NoUnavailableReason(d, a) ==
    /\ Available(d.staff[a])
    /\ \A c \in Cases : ~(d.cases[c].auditor = a /\ d.cases[c].flag = "SOS")

\* The place of an Auditor in the staff array, which breaks the last tie.
Seat == CHOOSE f \in [Standard -> 1..Cardinality(Standard)] :
            \A a, b \in Standard : f[a] = f[b] => a = b

Before(s, a, b) ==
    LET score(x) == Backend!Score(s[x], s[x].active)
    IN  \/ score(a) < score(b)
        \/ score(a) = score(b) /\ s[a].last < s[b].last
        \/ score(a) = score(b) /\ s[a].last = s[b].last /\ Seat[a] < Seat[b]

\* selectAuditor: nobody, or the first of those available.
Selected(s) ==
    LET eligible == {a \in Standard : Available(s[a])}
    IN  {a \in eligible : \A b \in eligible \ {a} : Before(s, a, b)}

-----------------------------------------------------------------------------
(***************************************************************************)
(* Changes to the document.                                                *)
(***************************************************************************)
\* c becomes a's, now. The latest last_assigned_at has the highest rank, and
\* whoever gets a case in the same pass shares it.
Handed(d, c, a) == [d EXCEPT !.cases[c].auditor = a,
                             !.staff[a].active = @ + 1,
                             !.staff[a].last = Cardinality(Standard) + 1]

Given(d, c, a) == [Handed(d, c, a) EXCEPT !.cases[c].visibility = "ASSIGNED_ONLY"]

\* The ranks of last_assigned_at in the pool, counted again from 1.
Ranked(s) == [a \in Auditors |-> [s[a] EXCEPT !.last =
                 IF a \in Standard
                 THEN Cardinality({s[b].last : b \in {b \in Standard :
                                        0 < s[b].last /\ s[b].last <= s[a].last}})
                 ELSE 0]]

AssignUnownedCase(d, c, a) ==
    LET given == Given(d, c, a) IN [given EXCEPT !.staff = Ranked(@)]

\* Mutant: a count or a timer is not kept from going below zero.
Below(n) == n - 1

Less(n) == IF n = 0 THEN 0 ELSE n - 1

\* Mutant: a declined case goes back to the queue and not to the Manager.
RoutedToQueue(d, c, flag) ==
    [d EXCEPT !.staff[d.cases[c].auditor].active = Less(@),
              !.cases[c].auditor = NULL, !.cases[c].visibility = "SUPER_ADMIN_ONLY"]

RouteToManager(d, c, flag) ==
    [d EXCEPT !.staff[d.cases[c].auditor].active = Less(@),
              !.cases[c].auditor = NULL, !.cases[c].flag = flag]

Longer(m, n) == IF m > n THEN m ELSE n

\* Mutant: a new cooldown replaces the one that is running.
StartCooldownAnew(s, trigger, ticks, checkIn) ==
    [s EXCEPT !.cooldown = [left |-> ticks, trigger |-> trigger,
                            requires |-> checkIn, done |-> FALSE]]

StartCooldown(s, trigger, ticks, checkIn) ==
    LET running == s.cooldown # NULL
    IN  [s EXCEPT !.cooldown =
            [left     |-> IF running THEN Longer(s.cooldown.left, ticks) ELSE ticks,
             trigger  |-> trigger,
             requires |-> checkIn \/ (running /\ s.cooldown.requires),
             done     |-> FALSE]]

\* Minutes 5, 15 and 30 (S4 and SOS), in ticks.
CooldownTicks == [S2 |-> 1, S3 |-> 1, S4 |-> 2, SOS |-> 2]

Rank == [S1 |-> 1, S2 |-> 2, S3 |-> 3, S4 |-> 4]

\* The worse of the tiers in S.
Worst(S) == CHOOSE t \in S : \A u \in S : Rank[u] <= Rank[t]

\* cooldownForResolvedCase. Whether an S2 was sustained or repeated is seconds
\* and minutes the model does not keep: "strained" is either.
CooldownForResolvedCase(s, tiers, strained) ==
    IF tiers = {} THEN s
    ELSE LET tier == Worst(tiers)
         IN  IF tier = "S1" \/ (tier = "S2" /\ ~strained) THEN s
             ELSE StartCooldown(s, tier, CooldownTicks[tier], tier = "S4")

\* The delivery it creates is MockPortal's.
Completed(d, c, outcome) ==
    [d EXCEPT !.cases[c].status = "COMPLETE", !.cases[c].outcome = outcome]

Queued(d, c) == [d EXCEPT !.queued = Backend!QueuedNow(@, c)]

\* autoReleaseFallback: parked cases, the longest queued first, each to the
\* Auditor selected after the placements before it.
Waiting(d) == {c \in Cases : /\ d.cases[c].visibility = "SUPER_ADMIN_ONLY"
                             /\ d.cases[c].auditor = NULL /\ d.cases[c].flag = NULL
                             /\ d.cases[c].status \notin {NULL, "COMPLETE"}
                             /\ d.queued[c] # 0}

\* The case queued n-th, if it is one of them, to the Auditor selected now.
PlaceNext(d, e, n) ==
    LET next == {c \in Waiting(d) : d.queued[c] = n}
    IN  IF next = {} \/ Selected(e.staff) = {} THEN e
        ELSE Given(e, CHOOSE c \in next : TRUE, CHOOSE a \in Selected(e.staff) : TRUE)

\* after[n] is the document when the first n of the line had their turn.
PlacedInTurn(d) ==
    LET after[n \in 0..Cardinality(Cases)] ==
            IF n = 0 THEN d ELSE PlaceNext(d, after[n-1], n)
    IN  after[Cardinality(Cases)]

AutoReleaseFallback(d) == [PlacedInTurn(d) EXCEPT !.staff = Ranked(@)]

-----------------------------------------------------------------------------
(***************************************************************************)
(* Handlers of the public pages and of an Auditor. a is the Auditor of the *)
(* session.                                                                *)
(***************************************************************************)
Update(d) ==
    /\ db' = d
    /\ handedBy' = [c \in Cases |-> IF d.cases[c].flag = NULL THEN NULL ELSE handedBy[c]]

\* The handlers that hand cases to the Manager.
HandOver(d, S, a) == /\ db' = d
                     /\ handedBy' = [c \in Cases |-> IF c \in S THEN a ELSE handedBy[c]]

Open(c) == db.cases[c].status # NULL

\* findOwnCase
OwnCase(c, a) == db.cases[c].auditor = a

\* createReport, createLinkReport and createScreenshotReport, through openCase.
CreateReport(c) ==
    /\ ~Open(c)
    /\ LET opened == [db EXCEPT !.cases[c].status = "AI_PROCESSING"]
       IN  IF Selected(db.staff) = {}
           THEN Update(Queued([opened EXCEPT !.cases[c].visibility = "SUPER_ADMIN_ONLY"], c))
           ELSE \E a \in Selected(db.staff) : Update(AssignUnownedCase(opened, c, a))

\* What every read does first: place what is parked, and finish the analyses
\* whose time has come, those in "ready".
AdvanceSimulatedAi ==
    \E ready \in SUBSET {c \in Cases : db.cases[c].status = "AI_PROCESSING"} :
    \E tier \in [ready -> Analyses] :
        LET d == AutoReleaseFallback(db)
        IN  Update([d EXCEPT !.cases = [c \in Cases |->
                IF c \in ready
                THEN [d.cases[c] EXCEPT !.status = "READY_FOR_REVIEW", !.tier = tier[c]]
                ELSE d.cases[c]]])

TakeCase(c, a) ==
    /\ a \in SuperAuditors
    /\ Open(c) /\ db.cases[c].flag = NULL /\ db.cases[c].auditor = NULL
    /\ db.cases[c].status # "COMPLETE"
    /\ NoUnavailableReason(db, a)
    /\ Update(AssignUnownedCase(db, c, a))

\* Mutant: whoever claims first has the case, fit or not.
ClaimCaseUnfit(c, a) ==
    /\ db.cases[c].visibility = "AVAILABLE_TO_AUDITORS"
    /\ db.cases[c].auditor = NULL /\ db.cases[c].flag = NULL
    /\ Update(AssignUnownedCase(db, c, a))

ClaimCase(c, a) ==
    /\ db.cases[c].visibility = "AVAILABLE_TO_AUDITORS"
    /\ db.cases[c].auditor = NULL /\ db.cases[c].flag = NULL
    /\ NoUnavailableReason(db, a)
    /\ Update(AssignUnownedCase(db, c, a))

\* By a Manager or the Super Auditor, like the withdrawal.
MakeCaseAvailable(c) ==
    /\ Open(c) /\ db.cases[c].flag = NULL /\ db.cases[c].auditor = NULL
    /\ db.cases[c].status # "COMPLETE"
    /\ Update([db EXCEPT !.cases[c].visibility = "AVAILABLE_TO_AUDITORS"])

WithdrawCaseRelease(c) ==
    /\ db.cases[c].flag = NULL /\ db.cases[c].auditor = NULL
    /\ db.cases[c].status # "COMPLETE"
    /\ db.cases[c].visibility = "AVAILABLE_TO_AUDITORS"
    /\ Update(AutoReleaseFallback(
            Queued([db EXCEPT !.cases[c].visibility = "SUPER_ADMIN_ONLY"], c)))

AcknowledgeContentWarning(c, a) ==
    /\ OwnCase(c, a) /\ ~InCooldown(db.staff[a])
    /\ db.cases[c].status = "READY_FOR_REVIEW"
    /\ Update([db EXCEPT !.cases[c].status = "AUDITOR_REVIEW"])

DeclineCase(c, a) ==
    /\ OwnCase(c, a)
    /\ HandOver(RouteToManager(db, c, "DECLINED"), {c}, a)

ReleaseCaseAtLimit(c, a) ==
    /\ OwnCase(c, a)
    /\ HandOver(RouteToManager(db, c, "CAP_REACHED"), {c}, a)

\* Each of them as RouteToManager does.
ReleaseAllCasesAtLimit(a) ==
    LET pending == {c \in Cases : /\ OwnCase(c, a) /\ db.cases[c].flag = NULL
                                  /\ db.cases[c].status \in {"READY_FOR_REVIEW", "AUDITOR_REVIEW"}}
    IN  HandOver([db EXCEPT
                    !.staff[a].active = Longer(@ - Cardinality(pending), 0),
                    !.cases = [c \in Cases |->
                        IF c \in pending
                        THEN [db.cases[c] EXCEPT !.auditor = NULL, !.flag = "CAP_REACHED"]
                        ELSE db.cases[c]]],
                 pending, a)

\* Whatever case is played, by whoever plays it: no owner is asked for.
RecordExposure(a) ==
    /\ db.staff[a].exposure < MaxExposure
    /\ Update([db EXCEPT !.staff[a].exposure = @ + 1])

\* raiseSos: triggerSos and reportUnexpectedExposure.
RaiseSos(c, a) ==
    /\ OwnCase(c, a) /\ Len(db.sosEvents) < MaxSos
    /\ LET routed == RouteToManager(db, c, "SOS")
       IN  HandOver([routed EXCEPT
                !.sosEvents = Append(@, [auditor |-> a, case |-> c,
                                         acknowledged |-> FALSE, resolved |-> FALSE]),
                !.staff[a] = StartCooldown(@, "SOS", CooldownTicks["SOS"], TRUE)], {c}, a)

RequestWellbeingSupport(a, k) ==
    /\ k \notin db.asked[a]
    /\ Update([db EXCEPT !.asked[a] = @ \cup {k}])

WithdrawWellbeingRequest(a, k) ==
    /\ k \in db.asked[a]
    /\ Update([db EXCEPT !.asked[a] = @ \ {k}])

\* The case's own tier and the Auditor's rating, when there are any.
Tiers(c, rating) == {db.cases[c].tier, rating} \ {NULL}

ResolveCase(c, a) ==
    /\ OwnCase(c, a)
    /\ \E outcome \in Decisions, rating \in Ratings \cup {NULL},
          strained \in BOOLEAN :
         LET rested == [db EXCEPT !.staff[a] = CooldownForResolvedCase(@, Tiers(c, rating), strained)]
         IN  Update(Completed([rested EXCEPT !.staff[a].active = Less(@)], c, outcome))

\* A cooldown that is over is forgotten when the Auditor's page asks.
GetMyWellbeing(a) ==
    /\ db.staff[a].cooldown # NULL /\ ~InCooldown(db.staff[a])
    /\ Update([db EXCEPT !.staff[a].cooldown = NULL])

-----------------------------------------------------------------------------
(***************************************************************************)
(* Handlers of a Manager.                                                  *)
(***************************************************************************)
SetExposureLimit(a) == \E limit \in Limits : Update([db EXCEPT !.staff[a].limit = limit])

ApproveBreakRequest(a) ==
    /\ "BREAK_REQUEST" \in db.asked[a]
    /\ Update([db EXCEPT !.asked[a] = @ \ {"BREAK_REQUEST"}, !.staff[a].break = 1])

MarkWellbeingFollowedUp(a) ==
    /\ "TALK_TO_MANAGER" \in db.asked[a]
    /\ Update([db EXCEPT !.asked[a] = @ \ {"TALK_TO_MANAGER"}])

AcknowledgeSosAlert(i) == Update([db EXCEPT !.sosEvents[i].acknowledged = TRUE])

\* Mutant: the follow-up closes the alert and forgets the check-in.
LogSosFollowUpOnly(i) ==
    Update([db EXCEPT !.sosEvents[i].acknowledged = TRUE, !.sosEvents[i].resolved = TRUE])

CheckedIn(s) == IF s.cooldown = NULL THEN s
                ELSE [s EXCEPT !.cooldown.done = @ \/ s.cooldown.requires]

LogSosFollowUp(i) ==
    Update([db EXCEPT !.sosEvents[i].acknowledged = TRUE, !.sosEvents[i].resolved = TRUE,
                      !.staff[db.sosEvents[i].auditor] = CheckedIn(@)])

LogCheckIn(a) ==
    /\ db.staff[a].cooldown # NULL
    /\ db.staff[a].cooldown.trigger = "S4" /\ ~db.staff[a].cooldown.done
    /\ Update([db EXCEPT !.staff[a].cooldown.done = TRUE])

\* Mutant: the flag outlives the reassignment.
ReassignCaseFlagged(c, a) ==
    /\ Open(c) /\ Available(db.staff[a])
    /\ db.staff[a].active < MaxActive
    /\ Update([Handed(db, c, a) EXCEPT !.staff = Ranked(@)])

ReassignCase(c, a) ==
    /\ Open(c) /\ Available(db.staff[a])
    /\ db.staff[a].active < MaxActive
    /\ LET row == [db.cases[c] EXCEPT !.auditor = a, !.flag = NULL,
                      !.status = IF db.cases[c].tier # NULL THEN "READY_FOR_REVIEW" ELSE @]
       IN  Update([Handed(db, c, a) EXCEPT !.staff = Ranked(@), !.cases[c] = row])

CloseWithoutReassignment(c) == Open(c) /\ Update(Completed(db, c, "CLOSED_NO_REASSIGNMENT"))

-----------------------------------------------------------------------------
(***************************************************************************)
(* The demo panel, and time.                                               *)
(***************************************************************************)
ReachExposureLimit(a) ==
    /\ db.staff[a].limit <= MaxExposure
    /\ Update([db EXCEPT !.staff[a].exposure = db.staff[a].limit])

DemoStartCooldown(a) ==
    \E trigger \in {"S3", "S4"} :
        Update([db EXCEPT !.staff[a].cooldown =
                  [left |-> CooldownTicks[trigger], trigger |-> trigger,
                   requires |-> trigger = "S4", done |-> FALSE]])

DemoFinishCooldown(a) ==
    /\ db.staff[a].cooldown # NULL
    /\ Update([db EXCEPT !.staff[a].cooldown = [@ EXCEPT !.left = 0, !.done = TRUE]])

Reset == db' = Empty /\ handedBy' = [c \in Cases |-> NULL]

Demo == \/ Reset
        \/ \E a \in Auditors : ReachExposureLimit(a) \/ DemoStartCooldown(a) \/ DemoFinishCooldown(a)

Tick ==
    /\ \E a \in Auditors : \/ db.staff[a].break > 0
                           \/ db.staff[a].cooldown # NULL /\ db.staff[a].cooldown.left > 0
    /\ Update([db EXCEPT !.staff = [a \in Auditors |->
                 LET s == [db.staff[a] EXCEPT !.break = Less(@)]
                 IN  IF s.cooldown = NULL THEN s ELSE [s EXCEPT !.cooldown.left = Less(@)]]])

Next ==
    \/ \E c \in Cases : \/ CreateReport(c) \/ MakeCaseAvailable(c) \/ WithdrawCaseRelease(c)
                        \/ CloseWithoutReassignment(c)
    \/ \E c \in Cases, a \in Auditors :
          \/ TakeCase(c, a) \/ ClaimCase(c, a) \/ AcknowledgeContentWarning(c, a)
          \/ DeclineCase(c, a) \/ ReleaseCaseAtLimit(c, a) \/ RaiseSos(c, a)
          \/ ResolveCase(c, a) \/ ReassignCase(c, a)
    \/ \E a \in Auditors :
          \/ ReleaseAllCasesAtLimit(a) \/ RecordExposure(a) \/ GetMyWellbeing(a)
          \/ SetExposureLimit(a) \/ ApproveBreakRequest(a) \/ MarkWellbeingFollowedUp(a)
          \/ LogCheckIn(a)
    \/ \E a \in Auditors, k \in Kinds :
          RequestWellbeingSupport(a, k) \/ WithdrawWellbeingRequest(a, k)
    \/ \E i \in DOMAIN db.sosEvents : AcknowledgeSosAlert(i) \/ LogSosFollowUp(i)
    \/ AdvanceSimulatedAi \/ Tick \/ Demo

Spec == Init /\ [][Next]_vars

-----------------------------------------------------------------------------
(***************************************************************************)
(* What the lists show.                                                    *)
(***************************************************************************)
\* getAllOpenCases
AllOpenCases == {c \in Cases : db.cases[c].status \notin {NULL, "COMPLETE"}}

\* getAuditorCases
AuditorCases(a) == {c \in Cases : OwnCase(c, a)}

\* The rows of the fallback queue that need a reviewer (needsReviewer), and those
\* every Auditor sees as available.
NeedsReviewer  == {c \in AllOpenCases : db.cases[c].auditor = NULL /\ db.cases[c].flag = NULL}
AvailableCases == {c \in NeedsReviewer : db.cases[c].visibility = "AVAILABLE_TO_AUDITORS"}

\* The Manager's lists: listDeclinedCases, and the rows of getCaseOversight that
\* lead to an alert.
DeclinedCases == {c \in AllOpenCases : db.cases[c].flag \in {"DECLINED", "CAP_REACHED"}}
SosCases      == {c \in AllOpenCases : /\ db.cases[c].flag = "SOS"
                                       /\ \E i \in DOMAIN db.sosEvents : db.sosEvents[i].case = c}

-----------------------------------------------------------------------------
(***************************************************************************)
(* Properties                                                              *)
(***************************************************************************)
\* Whichever of the five handlers gives a case to an Auditor, the Auditor was
\* under the limit, not on a break, and neither in a cooldown nor waiting for
\* the check-in that ends one (the backend forgets the last).
NoCaseToTheUnavailable ==
    [][\A c \in Cases, a \in Auditors :
         db'.cases[c].auditor = a /\ db.cases[c].auditor # a => Available(db.staff[a])]_vars

\* A cooldown is served in full: no later cooldown shortens the one that runs
\* ("A new cooldown never shortens one already running"), and the check-in it
\* waits for is dropped only by the Manager logging one. The demo panel may.
CooldownIsServed ==
    [][\A a \in Auditors :
         LET s == db.staff[a] t == db'.staff[a]
         IN  /\ (s.cooldown # NULL /\ s.cooldown.left > 0)
                => Demo \/ Tick \/ (t.cooldown # NULL /\ t.cooldown.left >= s.cooldown.left)
             /\ AwaitsCheckIn(s) => \/ AwaitsCheckIn(t) \/ Demo \/ LogCheckIn(a)
                                    \/ \E i \in DOMAIN db.sosEvents : LogSosFollowUp(i)]_vars

\* An SOS reaches the Manager: an Auditor held by an SOS has an alert nobody has
\* resolved, whatever the order of alerts, follow-ups and other cooldowns, and
\* a case flagged SOS has an alert that names it.
SosHasAlert ==
    /\ \A a \in Auditors :
         AwaitsCheckIn(db.staff[a]) /\ db.staff[a].cooldown.trigger = "SOS"
            => \E i \in DOMAIN db.sosEvents :
                  db.sosEvents[i].auditor = a /\ ~db.sosEvents[i].resolved
    /\ \A c \in Cases : db.cases[c].flag = "SOS"
            => \E i \in DOMAIN db.sosEvents : db.sosEvents[i].case = c

\* An open case is somebody's work, and nobody else's: after any interleaving of
\* claims, declines, alerts and reassignments it is on the list of one Auditor, or
\* in the queue, or on one of the Manager's two lists, and on no other.
ListedOnce ==
    \A c \in AllOpenCases :
        Cardinality({a \in Auditors : c \in AuditorCases(a)}
                    \cup {l \in {"queue", "declined", "sos"} :
                            c \in [queue |-> NeedsReviewer, declined |-> DeclinedCases,
                                   sos |-> SosCases][l]}) = 1

\* The columns keep their types, and a case is in one place: an Auditor's list, the
\* queue or the Manager's, never two of them.
CasesAreSound == TypeOK /\ ListedOnce

Place(row) == CASE row.status = NULL                       -> "unreported"
                [] row.status # NULL /\ row.flag # NULL    -> "manager"
                [] row.status # NULL /\ row.flag = NULL /\ row.auditor # NULL -> "held"
                [] row.status # NULL /\ row.flag = NULL /\ row.auditor = NULL ->
                     [ASSIGNED_ONLY         |-> "returned",
                      SUPER_ADMIN_ONLY      |-> "parked",
                      AVAILABLE_TO_AUDITORS |-> "offered"][row.visibility]

CustodyOf(c) == [place   |-> Place(db.cases[c]),
                 auditor |-> IF db.cases[c].flag # NULL THEN handedBy[c]
                             ELSE db.cases[c].auditor]

Hands    == [c \in Cases |-> CustodyOf(c)]
Workflow == INSTANCE Custody WITH custody <- Hands

\* The stand-in keeps the promise the backend keeps: between two resets of the
\* demo, every handler moves a case between hands only as Custody says. What an
\* Auditor or the Manager has never falls back into a queue, and a pass places
\* nothing but parked cases.
FollowsCustody == Workflow!Init /\ [][UNCHANGED <<db.cases, handedBy>> \/ Reset \/ Workflow!Next]_vars
=============================================================================
