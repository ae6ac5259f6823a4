---------------------------- MODULE AuditorRules ----------------------------
(***************************************************************************)
(* The wellbeing columns of an Auditor row, the columns of a case row that *)
(* the rules read, and the rules themselves: the daily exposure reset, the *)
(* cooldowns, the three different answers the backend gives to "may this   *)
(* Auditor be given a case now?" (weighted assignment, claiming or taking, *)
(* Manager reassignment) and the weighted choice with its placement loop.  *)
(*                                                                         *)
(* No variables here: every operator takes the rows it reads, because a    *)
(* handler reads some of them after it has already changed them.           *)
(*                                                                         *)
(* Time is relative. cooldown_ends_at and a break's end are kept as the    *)
(* number of 15-minute ticks still to run, rounded up: 0 is a timer that   *)
(* has ended, and "trigger = NULL" is cooldown_ends_at IS NULL.            *)
(***************************************************************************)
EXTENDS Integers, FiniteSets

CONSTANTS Cases,          \* case ids
          Standard,       \* Auditors of the weighted pool
          SuperAuditors,  \* Auditors with is_super_admin: the fallback reviewers
          NULL,           \* SQL NULL
          DefaultLimit,   \* the default limit of 120 minutes, in units
          UnitMinutes     \* minutes of content in one unit of exposure

Auditors == Standard \cup SuperAuditors

Statuses     == {"SUBMITTED", "AI_PROCESSING", "READY_FOR_REVIEW",
                 "AUDITOR_REVIEW", "COMPLETE"}
Flags        == {"DECLINED", "SOS", "CAP_REACHED"}
Visibilities == {"ASSIGNED_ONLY", "SUPER_ADMIN_ONLY", "AVAILABLE_TO_AUDITORS"}
AllTiers     == {"S1", "S2", "S3", "S4"}
Decided      == {"NO_VIOLATION_FOUND", "POLICY_VIOLATION_FOUND"}
Outcomes     == Decided \cup {"CLOSED_NO_REASSIGNMENT"}
Triggers     == {"S3", "S4", "SOS"}

ASSUME RulesAssumption ==
    /\ IsFiniteSet(Cases)
    /\ IsFiniteSet(Standard)
    /\ IsFiniteSet(SuperAuditors)
    /\ Standard \cap SuperAuditors = {}
    /\ DefaultLimit \in Nat \ {0}
    /\ UnitMinutes \in Nat \ {0}
    /\ DefaultLimit * UnitMinutes = 120
    /\ NULL \notin Auditors \cup Statuses \cup Flags \cup AllTiers
                   \cup Outcomes \cup {"vision", "SOS"}

(***************************************************************************)
(* Rows. A case with status NULL has no row yet. "run" is whether the case *)
(* carries an analysis_run_id. "ai_failure" is the failure that makes a    *)
(* review protected: the mark of a missing transcript ("speech_to_text") on *)
(* a case that was analysed is left out, no rule reads it.                 *)
(***************************************************************************)
CaseRow == [status     : Statuses \cup {NULL},
            auditor    : Auditors \cup {NULL},
            flag       : Flags \cup {NULL},
            visibility : Visibilities,
            tier       : AllTiers \cup {NULL},
            ai_failure : {"vision", NULL},
            run        : BOOLEAN,
            outcome    : Outcomes \cup {NULL}]

AuditorRow == [exposure     : Nat,
               limit        : Nat,
               reset_due    : BOOLEAN,   \* last reset is before today's 09:00
               cooldown     : Nat,       \* ticks until cooldown_ends_at
               trigger      : Triggers \cup {NULL},
               check_in_done: BOOLEAN]

NoCase == [status |-> NULL, auditor |-> NULL, flag |-> NULL,
           visibility |-> "ASSIGNED_ONLY", tier |-> NULL, ai_failure |-> NULL,
           run |-> FALSE, outcome |-> NULL]

NewAuditor == [exposure |-> 0, limit |-> DefaultLimit, reset_due |-> FALSE,
               cooldown |-> 0, trigger |-> NULL, check_in_done |-> FALSE]

-----------------------------------------------------------------------------
(***************************************************************************)
(* Durations, in ticks of 15 minutes: S3 15 min, S4 and SOS 30, break 15.  *)
(***************************************************************************)
CooldownTicks == [S3 |-> 1, S4 |-> 2, SOS |-> 2]
BreakTicks    == 1

\* "exposure_limit_minutes or 120": a limit of 0 reads as the default.
EffectiveLimit(row) == IF row.limit = 0 THEN DefaultLimit ELSE row.limit

AtLimit(row) == row.exposure >= EffectiveLimit(row)

InCooldown(row) == row.cooldown > 0

\* An S4 or SOS cooldown whose Manager check-in has not been logged.
CheckInPending(row) == row.trigger \in {"S4", "SOS"} /\ ~row.check_in_done

\* Mutant: the new day also lifts a check-in hold.
ResetDailyLiftsHold(row) ==
    IF row.reset_due
    THEN [row EXCEPT !.exposure = 0, !.reset_due = FALSE, !.check_in_done = TRUE]
    ELSE row

\* maybe_reset_daily_exposure
ResetDaily(row) ==
    IF row.reset_due THEN [row EXCEPT !.exposure = 0, !.reset_due = FALSE]
    ELSE row

\* maybe_reset_daily_exposure applied to every Auditor of S.
ResetFor(as, S) == [a \in Auditors |-> IF a \in S THEN ResetDaily(as[a]) ELSE as[a]]

\* The resolve handler's cooldown. Two requests never share an instant, so a
\* timer with as many (rounded up) ticks left as the new one ends earlier.
CooldownAfter(row, tier) ==
    IF tier \in {"S3", "S4"}
       /\ (row.trigger = NULL \/ row.cooldown <= CooldownTicks[tier])
    THEN [row EXCEPT !.cooldown = CooldownTicks[tier], !.trigger = tier,
                     !.check_in_done = FALSE]
    ELSE row

\* The SOS handler's cooldown: always overwritten.
SosCooldown(row) ==
    [row EXCEPT !.cooldown = CooldownTicks["SOS"], !.trigger = "SOS",
                !.check_in_done = FALSE]

\* Mutant: a case is given without leaving the queue it was listed in.
AssignedStillListed(row, a) == [row EXCEPT !.auditor = a]

\* _assign: an unowned case gets an owner and leaves every queue.
Assigned(row, a) == [row EXCEPT !.auditor = a, !.visibility = "ASSIGNED_ONLY"]

-----------------------------------------------------------------------------
(***************************************************************************)
(* The three eligibility rules. "onBreak" is the set of Auditors with an   *)
(* approved break still running.                                           *)
(***************************************************************************)
HasOpenSos(cs, a) == \E c \in Cases : cs[c].auditor = a /\ cs[c].flag = "SOS"

\* list_assignment_candidates, on rows whose daily reset has been applied.
AssignmentCandidates(as, onBreak) ==
    {a \in Standard \ onBreak : /\ ~InCooldown(as[a])
                                /\ ~CheckInPending(as[a])
                                /\ ~AtLimit(as[a])}

\* Mutant: claiming forgets the mandatory cooldown.
NoReasonButCooldown(cs, row, a, onBreak) ==
    ~AtLimit(row) /\ ~HasOpenSos(cs, a) /\ a \notin onBreak

\* unavailable_reason returned None (claim and take).
NoUnavailableReason(cs, row, a, onBreak) ==
    /\ ~AtLimit(row)
    /\ ~InCooldown(row)
    /\ ~HasOpenSos(cs, a)
    /\ a \notin onBreak

\* reassign_case raises none of its four 409s about the target. It reads the
\* row as it is: a reset that is due has not been applied.
MayBeReassignedTo(cs, as, a, onBreak) ==
    /\ ~AtLimit(as[a])
    /\ a \notin onBreak
    /\ ~InCooldown(as[a])
    /\ ~HasOpenSos(cs, a)

-----------------------------------------------------------------------------
(***************************************************************************)
(* The weighted choice. 0.6 * exposure / 120 + 0.4 * cases / 10, times 200,*)
(* is exposure + 8 * cases. pick_best breaks a tie by last assignment and, *)
(* among Auditors never assigned, by id: "turn" ranks the Auditors in that *)
(* order (never assigned first, then whoever was assigned longest ago).    *)
(***************************************************************************)
ActiveCount(cs, a) ==
    Cardinality({c \in Cases : cs[c].auditor = a /\ cs[c].status # "COMPLETE"})

Score(row, count) == UnitMinutes * row.exposure + 8 * count

\* The order after some assignments: "when" is 0 for an Auditor who got
\* nothing, and otherwise grows with the time of the last case they got.
TurnAfter(turn, when) ==
    [a \in Auditors |->
        Cardinality({b \in Auditors : \/ when[b] < when[a]
                                      \/ when[b] = when[a] /\ turn[b] <= turn[a]})]

\* One assignment, to a.
TurnOf(turn, a) == TurnAfter(turn, [b \in Auditors |-> IF b = a THEN 1 ELSE 0])

\* The keys of pick_best: a comes before b.
ComesBefore(score, when, turn, a, b) ==
    \/ score[a] < score[b]
    \/ score[a] = score[b] /\ when[a] < when[b]
    \/ score[a] = score[b] /\ when[a] = when[b] /\ turn[a] < turn[b]

\* select_auditor: the candidate that comes before every other one.
PickBest(cs, as, turn, candidates) ==
    {a \in candidates : \A b \in candidates \ {a} :
        ComesBefore([x \in Auditors |-> Score(as[x], ActiveCount(cs, x))],
                    [x \in Auditors |-> 0], turn, a, b)}

-----------------------------------------------------------------------------
(***************************************************************************)
(* release_waiting_cases: the parked cases, oldest first (queued is the    *)
(* rank of fallback_queued_at, 0 for NULL), each to the best candidate as  *)
(* the placements before it left things. A placement changes no Auditor    *)
(* row and no flag, so the candidates are the same for the whole pass: it  *)
(* places every waiting case or none.                                      *)
(***************************************************************************)
Waiting(cs, queued) ==
    {c \in Cases : /\ cs[c].visibility = "SUPER_ADMIN_ONLY"
                   /\ cs[c].auditor = NULL
                   /\ cs[c].flag = NULL
                   /\ cs[c].status \notin {NULL, "COMPLETE"}
                   /\ queued[c] # 0}

\* The rank of the last case the placement p gave to a, among those in S.
LastGiven(p, queued, S, a) ==
    LET ranks == {0} \cup {queued[d] : d \in {e \in S : p[e] = a}}
    IN  CHOOSE n \in ranks : \A m \in ranks : m <= n

\* Each case of p went to the best candidate at its turn.
PlacedInOrder(p, cs, as, turn, queued, candidates) ==
    \A c \in DOMAIN p :
        LET before == {d \in DOMAIN p : queued[d] < queued[c]}
            score  == [a \in Auditors |->
                         Score(as[a], ActiveCount(cs, a)
                                      + Cardinality({d \in before : p[d] = a}))]
            when   == [a \in Auditors |-> LastGiven(p, queued, before, a)]
        IN  \A b \in candidates \ {p[c]} : ComesBefore(score, when, turn, p[c], b)

\* The rows after one pass (one element: the pass is deterministic).
ReleasedRows(cs, as, turn, queued, onBreak) ==
    LET waiting    == Waiting(cs, queued)
        rows       == IF waiting = {} THEN as
                      ELSE ResetFor(as, Standard \ onBreak)
        candidates == {a \in AssignmentCandidates(rows, onBreak) : ~HasOpenSos(cs, a)}
        placed     == IF candidates = {} THEN {} ELSE waiting
    IN  {[cases    |-> [c \in Cases |->
                          IF c \in placed
                          THEN Assigned(cs[c], p[c]) ELSE cs[c]],
          auditors |-> rows,
          turn     |-> TurnAfter(turn, [a \in Auditors |->
                                           LastGiven(p, queued, placed, a)])]
         : p \in {f \in [placed -> candidates] :
                     PlacedInOrder(f, cs, rows, turn, queued, candidates)}}

\* Mutant: a case is parked without its queued time.
QueuedNever(queued, c) == queued

\* fallback_queued_at = now, as a rank among the queued cases.
QueuedNow(queued, c) ==
    [d \in Cases |->
        IF d = c THEN Cardinality({e \in Cases : queued[e] # 0} \cup {c})
        ELSE IF queued[c] # 0 /\ queued[d] > queued[c] THEN queued[d] - 1
        ELSE queued[d]]
=============================================================================
