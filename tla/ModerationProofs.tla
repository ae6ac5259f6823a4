-------------------------- MODULE ModerationProofs --------------------------
(***************************************************************************)
(* Theorems about Moderation, for any cases, Auditors and bounds: the      *)
(* types of its columns, that queued cases are free and completed ones     *)
(* handed off, the wellbeing of the Auditors, and who answers for a case   *)
(* from step to step: owners stay owners, every step is one that Custody   *)
(* allows, what is parked is queued, and a pass of the automatic release   *)
(* spreads the load.                                                       *)
(***************************************************************************)
EXTENDS ModerationCustody, FiniteInduction

(***************************************************************************)
(* The operators of AuditorRules keep the types of what they are given.    *)
(***************************************************************************)
LEMMA AuditorsFinite == IsFiniteSet(Auditors)
  BY RulesAssumption, FS_Union DEF Auditors

LEMMA NullIsNobody == NULL \notin Auditors
  BY RulesAssumption

\* A row keeps its type when a column gets a value of the column's type.
LEMMA CaseRowColumns ==
    ASSUME NEW row \in CaseRow
    PROVE  /\ \A x \in Statuses : [row EXCEPT !.status = x] \in CaseRow
           /\ \A x \in Auditors \cup {NULL} : [row EXCEPT !.auditor = x] \in CaseRow
           /\ \A x \in Flags \cup {NULL} : [row EXCEPT !.flag = x] \in CaseRow
           /\ \A x \in Visibilities : [row EXCEPT !.visibility = x] \in CaseRow
           /\ \A x \in AllTiers \cup {NULL} : [row EXCEPT !.tier = x] \in CaseRow
           /\ \A x \in {"vision", NULL} : [row EXCEPT !.ai_failure = x] \in CaseRow
           /\ [row EXCEPT !.run = TRUE] \in CaseRow
           /\ \A x \in Outcomes : [row EXCEPT !.outcome = x] \in CaseRow
  BY DEF CaseRow

LEMMA AuditorRowColumns ==
    ASSUME NEW row \in AuditorRow
    PROVE  /\ row.exposure \in Nat /\ row.exposure + 1 \in Nat /\ row.cooldown \in Nat
           /\ \A x \in Nat : [row EXCEPT !.exposure = x] \in AuditorRow
           /\ \A x \in Nat : [row EXCEPT !.limit = x] \in AuditorRow
           /\ [row EXCEPT !.reset_due = TRUE] \in AuditorRow
           /\ [row EXCEPT !.check_in_done = TRUE] \in AuditorRow
           /\ \A x \in Nat : [row EXCEPT !.cooldown = x] \in AuditorRow
<1>1. row.exposure \in Nat /\ row.cooldown \in Nat
    BY DEF AuditorRow
<1>2. row.exposure + 1 \in Nat
    BY <1>1
<1>3. /\ \A x \in Nat : [row EXCEPT !.exposure = x] \in AuditorRow
      /\ \A x \in Nat : [row EXCEPT !.limit = x] \in AuditorRow
      /\ \A x \in Nat : [row EXCEPT !.cooldown = x] \in AuditorRow
    BY DEF AuditorRow
<1>4. /\ [row EXCEPT !.reset_due = TRUE] \in AuditorRow
      /\ [row EXCEPT !.check_in_done = TRUE] \in AuditorRow
    BY DEF AuditorRow
<1> QED
    BY <1>1, <1>2, <1>3, <1>4

LEMMA BreakRowColumns ==
    ASSUME NEW row \in BreakRow
    PROVE  /\ row.requests \in Nat /\ row.left \in Nat
           /\ \A x \in Nat : [row EXCEPT !.requests = x] \in BreakRow
           /\ \A x \in Nat : [row EXCEPT !.left = x] \in BreakRow
  BY DEF BreakRow

LEMMA LessType == ASSUME NEW n \in Nat PROVE Less(n) \in Nat
  BY DEF Less

LEMMA ResetDailyType ==
    ASSUME NEW row \in AuditorRow PROVE ResetDaily(row) \in AuditorRow
  BY DEF ResetDaily, AuditorRow

LEMMA ResetForType ==
    ASSUME NEW as \in [Auditors -> AuditorRow], NEW S
    PROVE  ResetFor(as, S) \in [Auditors -> AuditorRow]
  BY ResetDailyType DEF ResetFor

LEMMA CooldownAfterType ==
    ASSUME NEW row \in AuditorRow, NEW tier \in AllTiers \cup {NULL}
    PROVE  CooldownAfter(row, tier) \in AuditorRow
<1>1. CASE tier = "S3"
    BY <1>1 DEF CooldownAfter, CooldownTicks, AuditorRow, Triggers
<1>2. CASE tier = "S4"
    BY <1>2 DEF CooldownAfter, CooldownTicks, AuditorRow, Triggers
<1>3. CASE tier \notin {"S3", "S4"}
    BY <1>3 DEF CooldownAfter
<1> QED
    BY <1>1, <1>2, <1>3

LEMMA SosCooldownType ==
    ASSUME NEW row \in AuditorRow PROVE SosCooldown(row) \in AuditorRow
  BY DEF SosCooldown, CooldownTicks, AuditorRow, Triggers

LEMMA EffectiveLimitType ==
    ASSUME NEW row \in AuditorRow PROVE EffectiveLimit(row) \in Nat
  BY RulesAssumption DEF EffectiveLimit, AuditorRow

LEMMA AssignedType ==
    ASSUME NEW row \in CaseRow, NEW a \in Auditors
    PROVE  Assigned(row, a) \in CaseRow
  BY DEF Assigned, CaseRow, Visibilities

LEMMA TurnAfterType ==
    ASSUME NEW turn0, NEW when
    PROVE  TurnAfter(turn0, when) \in [Auditors -> Nat]
<1> SUFFICES ASSUME NEW a \in Auditors
             PROVE  Cardinality({b \in Auditors :
                        \/ when[b] < when[a]
                        \/ when[b] = when[a] /\ turn0[b] <= turn0[a]}) \in Nat
    BY DEF TurnAfter
<1> DEFINE S == {b \in Auditors : \/ when[b] < when[a]
                                  \/ when[b] = when[a] /\ turn0[b] <= turn0[a]}
<1>1. S \subseteq Auditors
    OBVIOUS
<1>2. IsFiniteSet(S)
    BY <1>1, AuditorsFinite, FS_Subset
<1> QED
    BY <1>2, FS_CardinalityType

LEMMA TurnOfType ==
    ASSUME NEW turn0, NEW a PROVE TurnOf(turn0, a) \in [Auditors -> Nat]
  BY TurnAfterType DEF TurnOf

LEMMA QueuedNowType ==
    ASSUME NEW q \in [Cases -> Nat], NEW c \in Cases
    PROVE  QueuedNow(q, c) \in [Cases -> Nat]
<1> DEFINE S == {e \in Cases : q[e] # 0} \cup {c}
<1>1. S \subseteq Cases
    OBVIOUS
<1>2. Cardinality(S) \in Nat
    BY <1>1, RulesAssumption, FS_Subset, FS_CardinalityType
<1>3. \A d \in Cases : q[c] # 0 /\ q[d] > q[c] => q[d] - 1 \in Nat
    OBVIOUS
<1> HIDE DEF S
<1> SUFFICES ASSUME NEW d \in Cases
             PROVE  (IF d = c THEN Cardinality(S)
                     ELSE IF q[c] # 0 /\ q[d] > q[c] THEN q[d] - 1
                     ELSE q[d]) \in Nat
    BY DEF QueuedNow, S
<1> QED
    BY <1>2, <1>3

(***************************************************************************)
(* A pass of the automatic release, whatever it places: only rows of       *)
(* waiting cases change, each to the row _assign gives it.                 *)
(***************************************************************************)
LEMMA ReleasedRow ==
    ASSUME NEW cs \in [Cases -> CaseRow], NEW q,
           NEW r \in ReleasedRows(cs, auditors, turn, q, OnBreak)
    PROVE  /\ r.cases \in [Cases -> CaseRow]
           /\ \A c \in Cases :
                 \/ r.cases[c] = cs[c]
                 \/ /\ c \in Waiting(cs, q)
                    /\ r.cases[c].auditor \in Standard
                    /\ r.cases[c] = Assigned(cs[c], r.cases[c].auditor)
           /\ \/ r.auditors = auditors
              \/ r.auditors = ResetFor(auditors, Standard \ OnBreak)
           /\ r.turn \in [Auditors -> Nat]
<1> DEFINE waiting    == Waiting(cs, q)
           rows       == IF waiting = {} THEN auditors
                         ELSE ResetFor(auditors, Standard \ OnBreak)
           candidates == {a \in AssignmentCandidates(rows, OnBreak) : ~HasOpenSos(cs, a)}
           placed     == IF candidates = {} THEN {} ELSE waiting
           casesOf(p) == [c \in Cases |-> IF c \in placed
                                          THEN Assigned(cs[c], p[c]) ELSE cs[c]]
           turnOf(p)  == TurnAfter(turn, [a \in Auditors |-> LastGiven(p, q, placed, a)])
<1>1. PICK p \in [placed -> candidates] :
          r = [cases |-> casesOf(p), auditors |-> rows, turn |-> turnOf(p)]
    BY DEF ReleasedRows
<1>2. candidates \subseteq Standard /\ candidates \subseteq Auditors
    BY DEF AssignmentCandidates, Auditors
<1>3. placed \subseteq Waiting(cs, q)
    OBVIOUS
<1>4. rows = auditors \/ rows = ResetFor(auditors, Standard \ OnBreak)
    OBVIOUS
<1>5. turnOf(p) \in [Auditors -> Nat]
    BY TurnAfterType
<1> HIDE DEF rows, placed, candidates, turnOf
<1>6. ASSUME NEW c \in Cases
      PROVE  /\ casesOf(p)[c] \in CaseRow
             /\ \/ casesOf(p)[c] = cs[c]
                \/ /\ c \in Waiting(cs, q)
                   /\ casesOf(p)[c].auditor \in Standard
                   /\ casesOf(p)[c] = Assigned(cs[c], casesOf(p)[c].auditor)
  <2>1. CASE c \in placed
    <3>1. p[c] \in Standard /\ p[c] \in Auditors
        BY <1>1, <1>2, <2>1
    <3>2. casesOf(p)[c] = Assigned(cs[c], p[c])
        BY <2>1
    <3>3. Assigned(cs[c], p[c]).auditor = p[c]
        BY DEF Assigned, CaseRow
    <3>4. Assigned(cs[c], p[c]) \in CaseRow
        BY <3>1, AssignedType
    <3> QED
        BY <1>3, <2>1, <3>1, <3>2, <3>3, <3>4
  <2>2. CASE c \notin placed
      BY <2>2
  <2> QED
      BY <2>1, <2>2
<1>7. casesOf(p) = [c \in Cases |-> casesOf(p)[c]]
    OBVIOUS
<1> HIDE DEF casesOf
<1>8. r.cases = casesOf(p) /\ r.auditors = rows /\ r.turn = turnOf(p)
    BY <1>1
<1> QED
    BY <1>4, <1>5, <1>6, <1>7, <1>8

LEMMA ReleasedRowsType ==
    ASSUME TypeOK, NEW cs \in [Cases -> CaseRow], NEW q,
           NEW r \in ReleasedRows(cs, auditors, turn, q, OnBreak)
    PROVE  /\ r.cases \in [Cases -> CaseRow]
           /\ r.auditors \in [Auditors -> AuditorRow]
           /\ r.turn \in [Auditors -> Nat]
<1>1. auditors \in [Auditors -> AuditorRow]
    BY DEF TypeOK
<1>2. \/ r.auditors = auditors
      \/ r.auditors = ResetFor(auditors, Standard \ OnBreak)
    BY ReleasedRow
<1>3. r.cases \in [Cases -> CaseRow] /\ r.turn \in [Auditors -> Nat]
    BY ReleasedRow
<1> QED
    BY <1>1, <1>2, <1>3, ResetForType

LEMMA HandOffType ==
    ASSUME TypeOK, NEW c \in Cases, NEW o \in Outcomes, HandOff(c, o)
    PROVE  handoff' \in [Cases -> Outcomes \cup {NULL}]
  BY DEF HandOff, TypeOK

LEMMA DecidedAreOutcomes == DecidedHere \subseteq Outcomes
  BY ModerationAssumption DEF Outcomes

(***************************************************************************)
(* Type correctness, one step per action: of the tables first, then of the *)
(* jobs' transactions.                                                     *)
(***************************************************************************)
TablesOK == /\ cases    \in [Cases -> CaseRow]
            /\ auditors \in [Auditors -> AuditorRow]
            /\ turn     \in [Auditors -> Nat]
            /\ queued   \in [Cases -> Nat]
            /\ analysis \in [Cases -> Phases]
            /\ breaks   \in [Auditors -> BreakRow]
            /\ alerts   \in Seq(Alert)
            /\ handoff  \in [Cases -> Outcomes \cup {NULL}]

JobsOK == pass \in Pass /\ daily \in Daily

LEMMA CaseStepType ==
    ASSUME TypeOK, NEW c \in Cases, CaseStep(c) PROVE TablesOK'
<1> USE DEF TypeOK, TablesOK
<1>1. CASE CreateReport(c)
  <2> DEFINE rows == ResetFor(auditors, Standard \ OnBreak)
  <2>1. rows \in [Auditors -> AuditorRow]
      BY ResetForType
  <2> HIDE DEF rows
  <2>2. UNCHANGED <<breaks, alerts, handoff>> /\ auditors' = rows
        /\ analysis' = [analysis EXCEPT ![c] = "queued"]
      BY <1>1 DEF CreateReport, rows
  <2>3. CASE \E a \in PickBest(cases, rows, turn, AssignmentCandidates(rows, OnBreak)) :
               /\ cases' = [cases EXCEPT ![c].status = "AI_PROCESSING", ![c].auditor = a]
               /\ turn' = TurnOf(turn, a)
               /\ UNCHANGED queued
    <3>1. PICK a \in Auditors : /\ cases' = [cases EXCEPT ![c].status = "AI_PROCESSING",
                                                          ![c].auditor = a]
                                /\ turn' = TurnOf(turn, a)
        BY <2>3 DEF PickBest, AssignmentCandidates, Auditors
    <3>2. cases' \in [Cases -> CaseRow]
        BY <3>1, CaseRowColumns DEF Statuses
    <3> QED
        BY <2>1, <2>2, <2>3, <3>1, <3>2, TurnOfType DEF Phases
  <2>4. CASE /\ cases' = [cases EXCEPT ![c].status = "AI_PROCESSING",
                                       ![c].visibility = "SUPER_ADMIN_ONLY"]
             /\ queued' = QueuedNow(queued, c)
             /\ UNCHANGED turn
    <3>1. cases' \in [Cases -> CaseRow]
        BY <2>4, CaseRowColumns DEF Statuses, Visibilities
    <3> QED
        BY <2>1, <2>2, <2>4, <3>1, QueuedNowType DEF Phases
  <2> QED
      BY <1>1, <2>3, <2>4 DEF CreateReport, rows
<1>2. CASE AnalysisStep(c)
  <2>1. CASE AnalysisLoad(c)
      BY <2>1, CaseRowColumns DEF AnalysisLoad, Statuses, Phases
  <2>2. CASE AnalysisRefused(c)
      BY <2>2 DEF AnalysisRefused, Phases
  <2>3. CASE AnalysisStartRun(c)
      BY <2>3, CaseRowColumns DEF AnalysisStartRun, Phases
  <2>4. CASE AnalysisFinish(c)
    <3>1. cases' \in [Cases -> CaseRow]
      <4>1. CASE \E t \in Tiers :
                   cases' = [cases EXCEPT ![c].status = "READY_FOR_REVIEW", ![c].tier = t]
        <5>1. PICK t \in AllTiers :
                  cases' = [cases EXCEPT ![c].status = "READY_FOR_REVIEW", ![c].tier = t]
            BY <4>1, ModerationAssumption
        <5> QED
            BY <5>1, CaseRowColumns DEF Statuses
      <4>2. CASE cases' = [cases EXCEPT ![c].status = "READY_FOR_REVIEW",
                                        ![c].ai_failure = "vision"]
          BY <4>2, CaseRowColumns DEF Statuses
      <4> QED
          BY <2>4, <4>1, <4>2 DEF AnalysisFinish
    <3> QED
        BY <2>4, <3>1 DEF AnalysisFinish, Phases
  <2> QED
      BY <1>2, <2>1, <2>2, <2>3, <2>4 DEF AnalysisStep
<1>3. CASE AnalysisRaises(c)
    BY <1>3 DEF AnalysisRaises, Phases
<1>4. CASE InsertMockAiResult(c)
  <2>1. PICK t \in AllTiers :
            cases' = [cases EXCEPT ![c].status = "READY_FOR_REVIEW", ![c].tier = t,
                                   ![c].ai_failure = NULL]
      BY <1>4, ModerationAssumption DEF InsertMockAiResult
  <2> QED
      BY <1>4, <2>1, CaseRowColumns DEF InsertMockAiResult, Statuses
<1>5. CASE MakeAvailable(c)
    BY <1>5, CaseRowColumns DEF MakeAvailable, Visibilities
<1>6. CASE WithdrawRelease(c)
  <2> DEFINE parked == [cases EXCEPT ![c].visibility = "SUPER_ADMIN_ONLY"]
  <2>1. parked \in [Cases -> CaseRow]
      BY CaseRowColumns DEF Visibilities
  <2> HIDE DEF parked
  <2>2. PICK r \in ReleasedRows(parked, auditors, turn, QueuedNow(queued, c), OnBreak) :
            /\ cases' = r.cases /\ auditors' = r.auditors /\ turn' = r.turn
      BY <1>6 DEF WithdrawRelease, parked
  <2>3. /\ queued' = QueuedNow(queued, c)
        /\ UNCHANGED <<analysis, breaks, alerts, handoff>>
      BY <1>6 DEF WithdrawRelease
  <2> QED
      BY <2>1, <2>2, <2>3, ReleasedRowsType, QueuedNowType
<1>7. CASE CloseWithoutReassignment(c)
  <2>1. cases' \in [Cases -> CaseRow]
      BY <1>7, CaseRowColumns DEF CloseWithoutReassignment, Statuses, Outcomes
  <2>2. handoff' \in [Cases -> Outcomes \cup {NULL}]
      BY <1>7, HandOffType DEF CloseWithoutReassignment, Outcomes
  <2> QED
      BY <1>7, <2>1, <2>2 DEF CloseWithoutReassignment
<1> QED
    BY <1>1, <1>2, <1>3, <1>4, <1>5, <1>6, <1>7 DEF CaseStep

LEMMA ReviewStepType ==
    ASSUME TypeOK, NEW a \in Auditors, NEW c \in Cases, ReviewStep(a, c) PROVE TablesOK'
<1> USE DEF TypeOK, TablesOK
<1>1. CASE AcknowledgeContentWarning(a, c)
    BY <1>1, CaseRowColumns DEF AcknowledgeContentWarning, Statuses
<1>2. CASE ResolveCase(a, c)
  <2>1. PICK o \in DecidedHere :
            /\ cases' = [cases EXCEPT ![c].status = "COMPLETE", ![c].outcome = o]
            /\ HandOff(c, o)
      BY <1>2 DEF ResolveCase
  <2>2. cases' \in [Cases -> CaseRow]
      BY <2>1, DecidedAreOutcomes, CaseRowColumns DEF Statuses
  <2>3. handoff' \in [Cases -> Outcomes \cup {NULL}]
      BY <2>1, DecidedAreOutcomes, HandOffType
  <2>4. cases[c].tier \in AllTiers \cup {NULL}
      BY DEF CaseRow
  <2>5. CooldownAfter(auditors[a], cases[c].tier) \in AuditorRow
      BY <2>4, CooldownAfterType
  <2>6. auditors' \in [Auditors -> AuditorRow]
      BY <1>2, <2>5 DEF ResolveCase
  <2> QED
      BY <1>2, <2>2, <2>3, <2>6 DEF ResolveCase
<1>3. CASE DeclineCase(a, c)
    BY <1>3, CaseRowColumns DEF DeclineCase, Flags
<1>4. CASE ReleaseCaseAtLimit(a, c)
    BY <1>4, CaseRowColumns DEF ReleaseCaseAtLimit, Flags
<1>5. CASE RecordExposure(a, c)
    BY <1>5, AuditorRowColumns DEF RecordExposure
<1>6. CASE TriggerSos(a, c)
  <2>1. cases' \in [Cases -> CaseRow]
      BY <1>6, CaseRowColumns DEF TriggerSos, Flags
  <2>2. auditors' \in [Auditors -> AuditorRow]
      BY <1>6, SosCooldownType DEF TriggerSos
  <2>3. [actor |-> a, status |-> "UNACKNOWLEDGED"] \in Alert
      BY DEF Alert, AlertStatuses
  <2>4. alerts' \in Seq(Alert)
      BY <1>6, <2>3 DEF TriggerSos
  <2> QED
      BY <1>6, <2>1, <2>2, <2>4 DEF TriggerSos
<1>7. CASE TakeCase(a, c)
    BY <1>7, ResetDailyType, AssignedType, TurnOfType DEF TakeCase
<1>8. CASE ClaimCase(a, c)
    BY <1>8, ResetDailyType, AssignedType, TurnOfType DEF ClaimCase
<1>9. CASE ReassignCase(c, a)
    BY <1>9, CaseRowColumns DEF ReassignCase, Statuses, Visibilities
<1> QED
    BY <1>1, <1>2, <1>3, <1>4, <1>5, <1>6, <1>7, <1>8, <1>9 DEF ReviewStep

LEMMA AuditorStepType ==
    ASSUME TypeOK, NEW a \in Auditors, AuditorStep(a) PROVE TablesOK'
<1> USE DEF TypeOK, TablesOK
<1>1. CASE ReleaseAllCasesAtLimit(a)
    BY <1>1, CaseRowColumns DEF ReleaseAllCasesAtLimit, Flags
<1>2. CASE StopShift(a)
  <2>1. auditors' \in [Auditors -> AuditorRow]
      BY <1>2, EffectiveLimitType, AuditorRowColumns DEF StopShift
  <2>2. cases' \in [Cases -> CaseRow]
      BY <1>2, CaseRowColumns DEF StopShift, Statuses
  <2> QED
      BY <1>2, <2>1, <2>2 DEF StopShift
<1>3. CASE ListAvailableCases(a)
  <2>1. PICK r \in ReleasedRows(cases, auditors, turn, queued, OnBreak) :
            /\ cases' = r.cases
            /\ auditors' = ResetFor(r.auditors, {a})
            /\ turn' = r.turn
      BY <1>3 DEF ListAvailableCases
  <2>2. UNCHANGED <<queued, analysis, breaks, alerts, handoff>>
      BY <1>3 DEF ListAvailableCases
  <2> QED
      BY <2>1, <2>2, ReleasedRowsType, ResetForType
<1>4. CASE \E m \in Limits : SetExposureLimit(a, m)
  <2>1. PICK m \in Nat : SetExposureLimit(a, m)
      BY <1>4, ModerationAssumption
  <2> QED
      BY <2>1, AuditorRowColumns DEF SetExposureLimit
<1>5. CASE LogCheckIn(a)
    BY <1>5, AuditorRowColumns DEF LogCheckIn
<1>6. CASE RequestBreak(a)
  <2>1. breaks[a].requests + 1 \in Nat
      BY BreakRowColumns
  <2> QED
      BY <1>6, <2>1, BreakRowColumns DEF RequestBreak
<1>7. CASE WithdrawBreakRequest(a)
  <2>1. breaks[a].requests - 1 \in Nat
      BY <1>7, BreakRowColumns DEF WithdrawBreakRequest
  <2> QED
      BY <1>7, <2>1, BreakRowColumns DEF WithdrawBreakRequest
<1>8. CASE ApproveBreakRequest(a)
    BY <1>8 DEF ApproveBreakRequest, BreakRow, BreakTicks
<1>9. CASE GetMyWellbeing(a)
    BY <1>9, ResetForType DEF GetMyWellbeing
<1> QED
    BY <1>1, <1>2, <1>3, <1>4, <1>5, <1>6, <1>7, <1>8, <1>9 DEF AuditorStep

LEMMA AlertStepType ==
    ASSUME TypeOK, NEW i \in DOMAIN alerts, AlertStep(i) PROVE TablesOK'
<1> USE DEF TypeOK, TablesOK
<1>1. alerts[i] \in Alert
    OBVIOUS
<1>2. CASE AcknowledgeSosAlert(i)
  <2>1. [alerts[i] EXCEPT !.status = "IN_PROGRESS"] \in Alert
      BY <1>1 DEF Alert, AlertStatuses
  <2>2. alerts' \in Seq(Alert)
      BY <1>2, <2>1 DEF AcknowledgeSosAlert
  <2> QED
      BY <1>2, <2>2 DEF AcknowledgeSosAlert
<1>3. CASE LogSosFollowUp(i)
  <2>1. [alerts[i] EXCEPT !.status = "RESOLVED"] \in Alert
      BY <1>1 DEF Alert, AlertStatuses
  <2>2. alerts' \in Seq(Alert)
      BY <1>3, <2>1 DEF LogSosFollowUp
  <2>3. alerts[i].actor \in Auditors
      BY <1>1 DEF Alert
  <2>4. auditors' \in [Auditors -> AuditorRow]
      BY <1>3, <2>3, AuditorRowColumns DEF LogSosFollowUp
  <2> QED
      BY <1>3, <2>2, <2>4 DEF LogSosFollowUp
<1> QED
    BY <1>2, <1>3 DEF AlertStep

LEMMA SystemStepType ==
    ASSUME TypeOK,
           ReleaseWaitingCases \/ WorkdayStarts \/ Tick \/ Restart
    PROVE  TablesOK'
<1> USE DEF TypeOK, TablesOK
<1>1. CASE ReleaseWaitingCases
  <2>1. PICK r \in ReleasedRows(cases, auditors, turn, queued, OnBreak) :
            cases' = r.cases /\ auditors' = r.auditors /\ turn' = r.turn
      BY <1>1 DEF ReleaseWaitingCases
  <2> QED
      BY <1>1, <2>1, ReleasedRowsType DEF ReleaseWaitingCases
<1>3. CASE WorkdayStarts
    BY <1>3, AuditorRowColumns DEF WorkdayStarts
<1>4. CASE Tick
  <2>1. \A a \in Auditors : /\ Less(auditors[a].cooldown) \in Nat
                            /\ Less(breaks[a].left) \in Nat
      BY LessType DEF AuditorRow, BreakRow
  <2> QED
      BY <1>4, <2>1, AuditorRowColumns, BreakRowColumns DEF Tick
<1>5. CASE Restart
    BY <1>5 DEF Restart, Phases
<1> QED
    BY <1>1, <1>3, <1>4, <1>5

LEMMA StandardAreAuditors == Standard \subseteq Auditors
  BY DEF Auditors

LEMMA NoJobType == NoPass \in Pass /\ NoDaily \in Daily
<1>1. NewAuditor \in AuditorRow
    BY RulesAssumption DEF NewAuditor, AuditorRow
<1>2. NoPass \in Pass
    BY <1>1 DEF NoPass, Pass
<1> QED
    BY <1>2 DEF NoDaily, Daily

LEMMA MissesType ==
    ASSUME TypeOK
    PROVE  (PassMisses => pass' \in Pass) /\ (DailyMisses => daily' \in Daily)
<1>1. pass \in Pass /\ daily \in Daily
    BY DEF TypeOK
<1>2. PassMisses => pass' \in Pass
  <2> DEFINE more == pass.missed \cup (Missed \cap Standard)
  <2>1. more \in SUBSET Standard
      BY <1>1 DEF Pass
  <2> HIDE DEF more
  <2>2. [pass EXCEPT !.missed = more] \in Pass
      BY <1>1, <2>1 DEF Pass
  <2> QED
      BY <1>1, <2>2 DEF PassMisses, more
<1>3. DailyMisses => daily' \in Daily
  <2> DEFINE more == daily.missed \cup (Missed \cap daily.zeroed)
  <2>1. more \in SUBSET Auditors
      BY <1>1 DEF Daily
  <2> HIDE DEF more
  <2>2. [daily EXCEPT !.missed = more] \in Daily
      BY <1>1, <2>1 DEF Daily
  <2> QED
      BY <2>2 DEF DailyMisses, more
<1> QED
    BY <1>2, <1>3

LEMMA ResetByType ==
    ASSUME TypeOK, NEW job PROVE ResetBy(job) \in [Auditors -> AuditorRow]
<1> SUFFICES ASSUME NEW a \in Auditors
             PROVE  [auditors[a] EXCEPT
                       !.exposure = IF a \in job.zeroed THEN 0 ELSE @,
                       !.reset_due = IF a \in job.stamped THEN FALSE
                                     ELSE a \in job.late \/ @] \in AuditorRow
    BY DEF ResetBy
<1>1. auditors[a] \in AuditorRow
    BY DEF TypeOK
<1> DEFINE x == IF a \in job.zeroed THEN 0 ELSE auditors[a].exposure
           d == IF a \in job.stamped THEN FALSE ELSE a \in job.late \/ auditors[a].reset_due
<1>2. x \in Nat
    BY <1>1 DEF AuditorRow
<1>3. d \in BOOLEAN
    BY <1>1 DEF AuditorRow
<1> HIDE DEF x, d
<1>4. [auditors[a] EXCEPT !.exposure = x, !.reset_due = d] \in AuditorRow
    BY <1>1, <1>2, <1>3 DEF AuditorRow
<1> QED
    BY <1>4 DEF x, d

\* The rows that a pass holds are rows of the table, reset or not.
LEMMA SessionRowsType ==
    ASSUME TypeOK PROVE SessionRows \in [Standard -> AuditorRow]
  BY StandardAreAuditors DEF TypeOK, SessionRows, Pass

LEMMA PassStepType == ASSUME TypeOK, PassStep PROVE TypeOK'
<1>0. pass \in Pass /\ daily \in Daily
    BY DEF TypeOK
<1>1. CASE PassBegins
  <2>1. Waiting(cases, queued) \in SUBSET Cases
      BY DEF Waiting
  <2>2. [NoPass EXCEPT !.phase = "locked", !.locked = Waiting(cases, queued)] \in Pass
      BY <2>1, NoJobType DEF Pass
  <2> QED
      BY <1>1, <2>2 DEF PassBegins, TypeOK, tables
<1>2. CASE \E c \in Cases : PassPlaces(c)
  <2>1. PICK c \in Cases : PassPlaces(c)
      BY <1>2
  <2> DEFINE due   == {a \in Standard \ OnBreak : SessionRows[a].reset_due}
             rows  == [a \in Standard |-> IF a \in due THEN ResetDaily(SessionRows[a])
                                          ELSE SessionRows[a]]
             fit   == {a \in AssignmentCandidates(rows, OnBreak) : ~HasOpenSos(cases, a)}
             zero  == pass.zeroed \cup {a \in due : SessionRows[a].exposure > 0}
             reset == [pass EXCEPT !.rows = rows, !.stamped = @ \cup due,
                                   !.late = @ \ due, !.zeroed = zero]
  <2>2. rows \in [Standard -> AuditorRow]
      BY SessionRowsType, ResetDailyType
  <2>3. due \in SUBSET Standard /\ fit \subseteq Standard /\ zero \in SUBSET Standard
      BY <1>0 DEF AssignmentCandidates, Pass
  <2> HIDE DEF due, rows, fit, zero
  <2>4. reset \in Pass
      BY <1>0, <2>2, <2>3 DEF Pass
  <2>5. UNCHANGED <<tables, daily>>
      BY <2>1 DEF PassPlaces
  <2>6. \/ \E a \in fit : pass' = [reset EXCEPT
                               !.given[c] = a,
                               !.phase = IF pass.locked \subseteq Placed \cup {c}
                                         THEN "chosen" ELSE "placing"]
        \/ pass' = [reset EXCEPT !.phase = "chosen"]
      BY <2>1 DEF PassPlaces, due, rows, fit, zero
  <2> HIDE DEF reset
  <2>7. pass' \in Pass
    <3>1. CASE pass' = [reset EXCEPT !.phase = "chosen"]
        BY <2>4, <3>1 DEF Pass
    <3>2. CASE \E a \in fit : pass' = [reset EXCEPT
                               !.given[c] = a,
                               !.phase = IF pass.locked \subseteq Placed \cup {c}
                                         THEN "chosen" ELSE "placing"]
      <4>1. PICK a \in Standard, p \in {"chosen", "placing"} :
                pass' = [reset EXCEPT !.given[c] = a, !.phase = p]
          BY <2>3, <3>2
      <4>2. [reset.given EXCEPT ![c] = a] \in [Cases -> Standard \cup {NULL}]
          BY <2>4 DEF Pass
      <4> QED
          BY <2>4, <4>1, <4>2 DEF Pass
    <3> QED
        BY <2>6, <3>1, <3>2
  <2> QED
      BY <2>5, <2>7 DEF TypeOK, tables
<1>3. CASE PassCommits
  <2>1. cases' \in [Cases -> CaseRow]
    <3> SUFFICES ASSUME NEW c \in Cases, c \in Placed
                 PROVE  Assigned(cases[c], pass.given[c]) \in CaseRow
        BY <1>3 DEF PassCommits, TypeOK
    <3>1. pass.given[c] \in Auditors
        BY <1>0, StandardAreAuditors DEF Placed, Pass
    <3> QED
        BY <3>1, AssignedType DEF TypeOK
  <2>2. auditors' \in [Auditors -> AuditorRow]
      BY <1>3, ResetByType DEF PassCommits
  <2>3. turn' \in [Auditors -> Nat]
      BY <1>3, TurnAfterType DEF PassCommits
  <2>4. pass' \in Pass /\ daily' \in Daily
      BY <1>3, NoJobType, MissesType DEF PassCommits
  <2>5. UNCHANGED <<queued, analysis, breaks, alerts, handoff>>
      BY <1>3 DEF PassCommits
  <2> QED
      BY <2>1, <2>2, <2>3, <2>4, <2>5 DEF TypeOK
<1>4. CASE PassFails
    BY <1>4, NoJobType DEF PassFails, TypeOK, tables
<1> QED
    BY <1>1, <1>2, <1>3, <1>4 DEF PassStep

LEMMA DailyStepType == ASSUME TypeOK, DailyStep PROVE TypeOK'
<1>0. pass \in Pass /\ daily \in Daily
    BY DEF TypeOK
<1>1. CASE DailyReads
  <2>1. daily' \in Daily
      BY <1>1 DEF DailyReads, Daily
  <2> QED
      BY <1>1, <2>1 DEF DailyReads, TypeOK, tables
<1>2. CASE DailyCommits
  <2>1. auditors' \in [Auditors -> AuditorRow]
      BY <1>2, ResetByType DEF DailyCommits
  <2>2. pass' \in Pass /\ daily' \in Daily
      BY <1>2, NoJobType, MissesType DEF DailyCommits
  <2>3. UNCHANGED <<cases, turn, queued, analysis, breaks, alerts, handoff>>
      BY <1>2 DEF DailyCommits
  <2> QED
      BY <2>1, <2>2, <2>3 DEF TypeOK
<1>3. CASE DailyFails
    BY <1>3, NoJobType DEF DailyFails, TypeOK, tables
<1> QED
    BY <1>1, <1>2, <1>3 DEF DailyStep

LEMMA ClockJobType ==
    ASSUME TypeOK, WorkdayStarts \/ Tick \/ Restart PROVE JobsOK'
<1>0. pass \in Pass /\ daily \in Daily
    BY DEF TypeOK
<1>1. CASE WorkdayStarts
  <2> DEFINE rows == [a \in Standard |-> [pass.rows[a] EXCEPT !.reset_due = TRUE]]
             past == pass.late \cup pass.stamped
             old  == daily.late \cup daily.stamped
  <2>1. /\ rows \in [Standard -> AuditorRow]
        /\ past \in SUBSET Standard /\ old \in SUBSET Auditors
      BY <1>0, AuditorRowColumns DEF Pass, Daily
  <2>2. \/ pass' = pass
        \/ pass' = [pass EXCEPT !.rows = rows, !.stamped = {}, !.late = past,
                                !.missed = Standard]
      BY <1>0, <1>1 DEF WorkdayStarts
  <2>3. daily' = [daily EXCEPT !.stamped = {}, !.late = old, !.missed = daily.zeroed]
      BY <1>0, <1>1 DEF WorkdayStarts
  <2> HIDE DEF rows, past, old
  <2>4. pass' \in Pass
      BY <1>0, <2>1, <2>2 DEF Pass
  <2>5. daily' \in Daily
      BY <1>0, <2>1, <2>3 DEF Daily
  <2> QED
      BY <2>4, <2>5 DEF JobsOK
<1>2. CASE Tick
  <2> DEFINE rows == [a \in Standard |->
                        [pass.rows[a] EXCEPT !.cooldown = Less(pass.rows[a].cooldown)]]
             more == IF pass.phase \in {"placing", "chosen"}
                     THEN pass.missed \cup (Missed \cap Standard) ELSE pass.missed
  <2>1. rows \in [Standard -> AuditorRow]
      BY <1>0, AuditorRowColumns, LessType DEF Pass
  <2>2. more \in SUBSET Standard
      BY <1>0 DEF Pass
  <2>3. pass' = [pass EXCEPT !.rows = rows, !.missed = more]
      BY SMTT(30), <1>0, <1>2 DEF Tick
  <2> HIDE DEF rows, more
  <2>4. pass' \in Pass
      BY <1>0, <2>1, <2>2, <2>3 DEF Pass
  <2>5. daily' \in Daily
      BY <1>2, MissesType DEF Tick
  <2> QED
      BY <2>4, <2>5 DEF JobsOK
<1>3. CASE Restart
    BY <1>3, NoJobType DEF Restart, JobsOK
<1> QED
    BY <1>1, <1>2, <1>3

LEMMA InitType == Init => TypeOK
<1> SUFFICES ASSUME Init PROVE TypeOK
    OBVIOUS
<1>1. cases \in [Cases -> CaseRow]
    BY DEF Init, NoCase, CaseRow, Visibilities
<1>2. auditors \in [Auditors -> AuditorRow]
    BY RulesAssumption DEF Init, NewAuditor, AuditorRow
<1>3. turn \in [Auditors -> Nat]
    BY DEF Init
<1>4. breaks \in [Auditors -> BreakRow]
    BY DEF Init, BreakRow
<1>5. pass \in Pass /\ daily \in Daily
    BY NoJobType DEF Init
<1> QED
    BY <1>1, <1>2, <1>3, <1>4, <1>5 DEF Init, TypeOK, Phases

LEMMA HandlerTables == ASSUME TypeOK, Handler PROVE TablesOK'
<1>1. CASE \E c \in Cases : CaseStep(c)
    BY <1>1, CaseStepType
<1>2. CASE \E a \in Auditors, c \in Cases : ReviewStep(a, c)
    BY <1>2, ReviewStepType
<1>3. CASE \E a \in Auditors : AuditorStep(a)
    BY <1>3, AuditorStepType
<1>4. CASE \E i \in DOMAIN alerts : AlertStep(i)
    BY <1>4, AlertStepType
<1>5. CASE ReleaseWaitingCases
    BY <1>5, SystemStepType
<1> QED
    BY <1>1, <1>2, <1>3, <1>4, <1>5 DEF Handler

LEMMA TypeStep == TypeOK /\ [Next]_vars => TypeOK'
<1> SUFFICES ASSUME TypeOK, [Next]_vars PROVE TypeOK'
    OBVIOUS
<1>0. TablesOK' /\ JobsOK' => TypeOK'
    BY DEF TablesOK, JobsOK, TypeOK
<1>1. CASE UNCHANGED vars
    BY <1>1 DEF vars, TypeOK
<1>2. CASE HandlerStep
  <2>1. TablesOK'
      BY <1>2, HandlerTables DEF HandlerStep
  <2>2. JobsOK'
      BY <1>2, MissesType DEF HandlerStep, JobsOK
  <2> QED
      BY <1>0, <2>1, <2>2
<1>3. CASE PassStep
    BY <1>3, PassStepType
<1>4. CASE DailyStep
    BY <1>4, DailyStepType
<1>5. CASE WorkdayStarts \/ Tick \/ Restart
    BY <1>0, <1>5, SystemStepType, ClockJobType
<1> QED
    BY <1>1, <1>2, <1>3, <1>4, <1>5 DEF Next

\* Every column of every table keeps its type, whatever the handlers, the
\* analysis thread, the scheduler and the clock do, in any order.
THEOREM TypeCorrect == Spec => []TypeOK
  BY InitType, TypeStep, PTL DEF Spec

(***************************************************************************)
(* The transactions of the jobs. What a job holds of an Auditor nobody has *)
(* touched since it read is that Auditor's row, and a case it has locked   *)
(* waits as it waited then: this is what makes its late commit right.      *)
(***************************************************************************)
\* Every step is a handler, a job's commit, the clock, a restart, or one that
\* changes no table.
LEMMA StepKinds ==
    ASSUME Next
    PROVE  \/ HandlerStep
           \/ PassCommits \/ DailyCommits
           \/ WorkdayStarts \/ Tick \/ Restart
           \/ UNCHANGED tables
  BY DEF Next, PassStep, DailyStep, PassBegins, PassPlaces, PassFails, DailyReads, DailyFails

HasRead == pass.phase \in {"placing", "chosen"}

WaitingRow(row) == /\ row.visibility = "SUPER_ADMIN_ONLY"
                   /\ row.auditor = NULL
                   /\ row.flag = NULL
                   /\ row.status \notin {NULL, "COMPLETE"}

\* Nothing is decided before the rows are read.
NothingRead == /\ pass.zeroed = {} /\ pass.stamped = {} /\ pass.late = {}
               /\ pass.missed = {} /\ Placed = {}
               /\ pass.phase = "idle" => pass.locked = {}

\* The session's row of a is the one in the table, reset by the pass if due.
ReadRight(a) ==
    /\ a \notin pass.late
    /\ \/ /\ a \notin pass.stamped /\ a \notin pass.zeroed
          /\ pass.rows[a] = auditors[a]
       \/ /\ a \in pass.stamped /\ auditors[a].reset_due
          /\ a \in pass.zeroed <=> auditors[a].exposure > 0
          /\ pass.rows[a] = ResetDaily(auditors[a])
    /\ breaks[a].left = 0 => ~pass.rows[a].reset_due

\* Who is given a case could do the work, in the row the pass read.
GivenRight(c) == LET a == pass.given[c]
                 IN  /\ c \in pass.locked
                     /\ ~InCooldown(pass.rows[a])
                     /\ ~AtLimit(pass.rows[a])
                     /\ a \notin pass.missed => breaks[a].left = 0

PassInv == /\ \A c \in pass.locked : WaitingRow(cases[c])
           /\ ~HasRead => NothingRead
           /\ HasRead => /\ \A a \in Standard \ pass.missed : ReadRight(a)
                         /\ \A c \in Placed : GivenRight(c)

DailyInv == \A a \in daily.zeroed \ daily.missed : auditors[a].reset_due /\ a \in daily.stamped

\* Steps of others keep the invariant, by what counts as missed.
LEMMA BesidePass ==
    ASSUME TypeOK, PassInv, PassMisses, \A c \in pass.locked : cases'[c] = cases[c]
    PROVE  PassInv'
<1>0. pass \in Pass
    BY DEF TypeOK
<1>1. CASE ~HasRead
  <2>1. pass' = pass
      BY <1>1 DEF PassMisses, HasRead
  <2> QED
      BY <1>1, <2>1 DEF PassInv, HasRead, NothingRead, WaitingRow, Placed
<1>2. CASE HasRead
  <2>1. /\ pass'.phase = pass.phase /\ pass'.locked = pass.locked
        /\ pass'.rows = pass.rows /\ pass'.zeroed = pass.zeroed
        /\ pass'.stamped = pass.stamped /\ pass'.late = pass.late
        /\ pass'.given = pass.given
        /\ pass'.missed = pass.missed \cup (Missed \cap Standard)
      BY <1>0, <1>2 DEF PassMisses, HasRead, Pass
  <2>2. HasRead'
      BY <1>2, <2>1 DEF HasRead
  <2>3. \A c \in pass'.locked : WaitingRow(cases'[c])
      BY <2>1 DEF PassInv
  <2>4. ASSUME NEW a \in Standard, a \notin pass'.missed
        PROVE  auditors'[a] = auditors[a] /\ breaks'[a] = breaks[a] /\ a \notin pass.missed
      BY <2>1, <2>4, StandardAreAuditors DEF Missed
  <2>5. ASSUME NEW a \in Standard \ pass'.missed PROVE ReadRight(a)'
    <3>1. ReadRight(a)
        BY <1>2, <2>4, <2>5 DEF PassInv
    <3> QED
        BY <2>1, <2>4, <2>5, <3>1 DEF ReadRight
  <2>6. ASSUME NEW c \in Placed' PROVE GivenRight(c)'
    <3>1. c \in Placed /\ GivenRight(c) /\ pass.given[c] \in Standard
        BY <1>0, <1>2, <2>1 DEF Placed, PassInv, Pass
    <3> QED
        BY <2>1, <2>4, <3>1 DEF GivenRight
  <2> QED
      BY <2>2, <2>3, <2>5, <2>6 DEF PassInv
<1> QED
    BY <1>1, <1>2

LEMMA BesideDaily ==
    ASSUME TypeOK, DailyInv, DailyMisses PROVE DailyInv'
<1>1. /\ daily'.zeroed = daily.zeroed /\ daily'.stamped = daily.stamped
      /\ daily'.missed = daily.missed \cup (Missed \cap daily.zeroed)
    BY DEF DailyMisses, TypeOK, Daily
<1>2. daily.zeroed \subseteq Auditors
    BY DEF TypeOK, Daily
<1> QED
    BY <1>1, <1>2 DEF DailyInv, Missed

LEMMA NoPassInv ==
    ASSUME pass' = NoPass PROVE PassInv'
<1>1. /\ pass'.phase = "idle" /\ pass'.locked = {} /\ pass'.zeroed = {}
      /\ pass'.stamped = {} /\ pass'.late = {} /\ pass'.missed = {}
      /\ \A c \in Cases : pass'.given[c] = NULL
    BY DEF NoPass
<1> QED
    BY <1>1 DEF PassInv, HasRead, NothingRead, Placed

LEMMA SamePassInv ==
    ASSUME PassInv, UNCHANGED <<tables, pass>> PROVE PassInv'
  BY DEF PassInv, HasRead, NothingRead, Placed, ReadRight, GivenRight, WaitingRow, tables

LEMMA BegunInv ==
    ASSUME TypeOK, PassBegins PROVE PassInv'
<1>1. /\ pass'.phase = "locked" /\ pass'.locked = Waiting(cases, queued)
      /\ pass'.zeroed = {} /\ pass'.stamped = {} /\ pass'.late = {} /\ pass'.missed = {}
      /\ \A c \in Cases : pass'.given[c] = NULL
      /\ UNCHANGED cases
    BY DEF PassBegins, NoPass, tables
<1>2. \A c \in Waiting(cases, queued) : WaitingRow(cases'[c])
    BY <1>1 DEF Waiting, WaitingRow
<1> QED
    BY <1>1, <1>2 DEF PassInv, HasRead, NothingRead, Placed

\* The reset leaves alone what makes an Auditor fit.
LEMMA ResetStaysFit ==
    ASSUME NEW row \in AuditorRow, ~AtLimit(row), ~InCooldown(row)
    PROVE  ~AtLimit(ResetDaily(row)) /\ ~InCooldown(ResetDaily(row))
<1>1. EffectiveLimit(row) \in Nat \ {0}
    BY RulesAssumption DEF EffectiveLimit, AuditorRow
<1>2. CASE row.reset_due
  <2>1. /\ ResetDaily(row).exposure = 0 /\ ResetDaily(row).limit = row.limit
        /\ ResetDaily(row).cooldown = row.cooldown
      BY <1>2 DEF ResetDaily, AuditorRow
  <2>2. EffectiveLimit(ResetDaily(row)) = EffectiveLimit(row)
      BY <2>1 DEF EffectiveLimit
  <2> QED
      BY <1>1, <2>1, <2>2 DEF AtLimit, InCooldown
<1>3. CASE ~row.reset_due
    BY <1>3 DEF ResetDaily
<1> QED
    BY <1>2, <1>3

(***************************************************************************)
(* One turn of the pass, column by column.                                 *)
(***************************************************************************)
DueRows     == {a \in Standard \ OnBreak : SessionRows[a].reset_due}
RowsNow     == [a \in Standard |-> IF a \in DueRows THEN ResetDaily(SessionRows[a])
                                   ELSE SessionRows[a]]
FitNow      == {a \in AssignmentCandidates(RowsNow, OnBreak) : ~HasOpenSos(cases, a)}
ScoreNow    == [a \in Standard |-> Score(RowsNow[a], Load(a))]
GivenLast   == [a \in Standard |-> LastGiven(pass.given, queued, Placed, a)]

LEMMA PlacesColumns ==
    ASSUME TypeOK, NEW c \in Cases, PassPlaces(c)
    PROVE  /\ UNCHANGED <<tables, daily>>
           /\ c \in pass.locked /\ c \notin Placed
           /\ HasRead' /\ (HasRead \/ pass.phase = "locked")
           /\ pass'.locked = pass.locked /\ pass'.missed = pass.missed
           /\ pass'.rows = RowsNow
           /\ pass'.stamped = pass.stamped \cup DueRows
           /\ pass'.late = pass.late \ DueRows
           /\ pass'.zeroed = pass.zeroed \cup {a \in DueRows : SessionRows[a].exposure > 0}
           /\ \/ FitNow = {} /\ pass'.given = pass.given
              \/ \E a \in FitNow :
                    /\ \A b \in FitNow \ {a} : ComesBefore(ScoreNow, GivenLast, turn, a, b)
                    /\ pass'.given = [pass.given EXCEPT ![c] = a]
<1> DEFINE zero  == pass.zeroed \cup {a \in DueRows : SessionRows[a].exposure > 0}
           reset == [pass EXCEPT !.rows = RowsNow, !.stamped = @ \cup DueRows,
                                 !.late = @ \ DueRows, !.zeroed = zero]
<1>1. pass \in Pass
    BY DEF TypeOK
<1>2. /\ UNCHANGED <<tables, daily>>
      /\ pass.phase \in {"locked", "placing"}
      /\ c \in pass.locked \ Placed
    BY DEF PassPlaces
<1>3. \/ \E a \in FitNow :
            /\ \A b \in FitNow \ {a} : ComesBefore(ScoreNow, GivenLast, turn, a, b)
            /\ pass' = [reset EXCEPT !.given[c] = a,
                                     !.phase = IF pass.locked \subseteq Placed \cup {c}
                                               THEN "chosen" ELSE "placing"]
      \/ FitNow = {} /\ pass' = [reset EXCEPT !.phase = "chosen"]
    BY DEF PassPlaces, DueRows, RowsNow, FitNow, ScoreNow, GivenLast
<1> DEFINE stamps == pass.stamped \cup DueRows
           lates  == pass.late \ DueRows
<1>4. /\ reset.locked = pass.locked /\ reset.missed = pass.missed
      /\ reset.rows = RowsNow /\ reset.stamped = stamps /\ reset.late = lates
      /\ reset.zeroed = zero /\ reset.given = pass.given
      /\ reset = [phase |-> reset.phase, locked |-> reset.locked, rows |-> reset.rows,
                  zeroed |-> reset.zeroed, stamped |-> reset.stamped, late |-> reset.late,
                  given |-> reset.given, missed |-> reset.missed]
  <2> HIDE DEF zero
  <2>1. pass = [phase |-> pass.phase, locked |-> pass.locked, rows |-> pass.rows,
                zeroed |-> pass.zeroed, stamped |-> pass.stamped, late |-> pass.late,
                given |-> pass.given, missed |-> pass.missed]
      BY ONLY <1>1 DEF Pass
  <2>3. PICK p1, p2, p3, p4, p5, p6, p7, p8 :
          pass = [phase |-> p1, locked |-> p2, rows |-> p3, zeroed |-> p4, stamped |-> p5,
                  late |-> p6, given |-> p7, missed |-> p8]
      BY ONLY <2>1
  <2>4. reset = [phase |-> p1, locked |-> p2, rows |-> RowsNow, zeroed |-> zero,
                 stamped |-> stamps, late |-> lates, given |-> p7, missed |-> p8]
    <3>1. PICK q1 : q1 = [pass EXCEPT !.rows = RowsNow]
        OBVIOUS
    <3>2. PICK q2 : q2 = [q1 EXCEPT !.stamped = stamps]
        OBVIOUS
    <3>3. PICK q3 : q3 = [q2 EXCEPT !.late = lates]
        OBVIOUS
    <3>4. stamps = pass.stamped \cup DueRows /\ lates = pass.late \ DueRows
        OBVIOUS
    <3> HIDE DEF stamps, lates
    <3>5. reset = [q3 EXCEPT !.zeroed = zero]
        BY ONLY <3>1, <3>2, <3>3, <3>4
    <3> HIDE DEF reset
    <3>6. q1 = [phase |-> p1, locked |-> p2, rows |-> RowsNow, zeroed |-> p4, stamped |-> p5,
                late |-> p6, given |-> p7, missed |-> p8]
        BY ONLY <2>3, <3>1
    <3>7. q2 = [phase |-> p1, locked |-> p2, rows |-> RowsNow, zeroed |-> p4, stamped |-> stamps,
                late |-> p6, given |-> p7, missed |-> p8]
        BY ONLY <3>2, <3>6
    <3>8. q3 = [phase |-> p1, locked |-> p2, rows |-> RowsNow, zeroed |-> p4, stamped |-> stamps,
                late |-> lates, given |-> p7, missed |-> p8]
        BY ONLY <3>3, <3>7
    <3> QED
        BY ONLY <3>5, <3>8
  <2>2. reset = [phase |-> pass.phase, locked |-> pass.locked, rows |-> RowsNow,
                 zeroed |-> zero, stamped |-> stamps, late |-> lates,
                 given |-> pass.given, missed |-> pass.missed]
      BY ONLY <2>3, <2>4
  <2> QED
      BY ONLY <2>2
<1> HIDE DEF reset, zero, stamps, lates
<1>5. CASE FitNow = {} /\ pass' = [reset EXCEPT !.phase = "chosen"]
  <2>1. /\ pass'.phase = "chosen" /\ pass'.locked = pass.locked /\ pass'.missed = pass.missed
        /\ pass'.rows = RowsNow /\ pass'.stamped = stamps /\ pass'.late = lates
        /\ pass'.zeroed = zero /\ pass'.given = pass.given
      BY <1>4, <1>5
  <2> QED
      BY <1>2, <1>5, <2>1 DEF HasRead, zero, stamps, lates
<1>6. ASSUME NEW a \in FitNow, NEW p \in {"chosen", "placing"},
             \A b \in FitNow \ {a} : ComesBefore(ScoreNow, GivenLast, turn, a, b),
             pass' = [reset EXCEPT !.given[c] = a, !.phase = p]
      PROVE  /\ HasRead' /\ pass'.locked = pass.locked /\ pass'.missed = pass.missed
             /\ pass'.rows = RowsNow /\ pass'.stamped = stamps /\ pass'.late = lates
             /\ pass'.zeroed = zero /\ pass'.given = [pass.given EXCEPT ![c] = a]
    BY <1>4, <1>6 DEF HasRead
<1> QED
    BY <1>2, <1>3, <1>5, <1>6 DEF HasRead, zero, stamps, lates

\* The rows a turn goes on with: read now, or as the turns before left them.
LEMMA PlacesRows ==
    ASSUME TypeOK, PassInv, NEW c \in Cases, PassPlaces(c), NEW a \in Standard \ pass.missed
    PROVE  ReadRight(a)' /\ (HasRead /\ breaks[a].left = 0 => RowsNow[a] = pass.rows[a])
<1>0. auditors[a] \in AuditorRow /\ pass.rows[a] \in AuditorRow /\ breaks[a].left \in Nat
    BY StandardAreAuditors DEF TypeOK, Pass, BreakRow
<1>1. /\ pass'.rows[a] = RowsNow[a]
      /\ RowsNow[a] = IF a \in DueRows THEN ResetDaily(SessionRows[a]) ELSE SessionRows[a]
      /\ a \in DueRows <=> a \notin OnBreak /\ SessionRows[a].reset_due
      /\ a \in pass'.stamped <=> a \in pass.stamped \/ a \in DueRows
      /\ a \in pass'.late => a \in pass.late
      /\ a \in pass'.zeroed
            <=> a \in pass.zeroed \/ (a \in DueRows /\ SessionRows[a].exposure > 0)
      /\ UNCHANGED <<auditors, breaks>>
    BY PlacesColumns DEF RowsNow, DueRows, tables
<1>2. a \in OnBreak <=> breaks[a].left > 0
    BY StandardAreAuditors DEF OnBreak
<1>3. ~ResetDaily(SessionRows[a]).reset_due
    BY SessionRowsType DEF ResetDaily, AuditorRow
<1>4. CASE HasRead
  <2>1. ReadRight(a) /\ SessionRows[a] = pass.rows[a]
      BY <1>4 DEF PassInv, SessionRows, HasRead
  <2>2. breaks[a].left = 0 => a \notin DueRows
      BY <1>1, <1>2, <2>1 DEF ReadRight
  <2>3. breaks[a].left # 0 => a \notin DueRows
      BY <1>0, <1>1, <1>2
  <2>4. pass'.rows[a] = pass.rows[a]
      BY <1>1, <2>1, <2>2, <2>3
  <2> QED
      BY <1>1, <2>1, <2>2, <2>3, <2>4 DEF ReadRight
<1>5. CASE ~HasRead
  <2>1. NothingRead /\ SessionRows[a] = auditors[a]
      BY <1>5, PlacesColumns DEF PassInv, SessionRows, HasRead
  <2>2. CASE a \in DueRows
      BY <1>0, <1>1, <1>3, <1>5, <2>1, <2>2 DEF ReadRight, NothingRead
  <2>3. CASE a \notin DueRows
      BY <1>0, <1>1, <1>2, <1>5, <2>1, <2>3 DEF ReadRight, NothingRead
  <2> QED
      BY <2>2, <2>3
<1> QED
    BY <1>4, <1>5

LEMMA PlacesInv ==
    ASSUME TypeOK, PassInv, NEW c \in Cases, PassPlaces(c) PROVE PassInv'
<1>0. pass \in Pass /\ pass' \in Pass
  <2>1. PassStep
      BY DEF PassStep
  <2> QED
      BY <2>1, PassStepType DEF TypeOK
<1>1. /\ UNCHANGED <<cases, breaks>> /\ HasRead' /\ c \in pass.locked
      /\ pass'.locked = pass.locked /\ pass'.missed = pass.missed
    BY PlacesColumns DEF tables
<1>2. \A d \in pass'.locked : WaitingRow(cases'[d])
    BY <1>1 DEF PassInv
<1>3. \A a \in Standard \ pass'.missed : ReadRight(a)'
    BY <1>1, PlacesRows
<1>4. ASSUME NEW d \in Placed' PROVE GivenRight(d)'
  <2> DEFINE a == pass'.given[d]
  <2>1. a \in Standard /\ d \in Cases /\ RowsNow[a] = pass'.rows[a]
      BY <1>0, <1>4, PlacesColumns DEF Placed, Pass
  <2>2. CASE d \in Placed /\ a = pass.given[d]
    <3>1. GivenRight(d) /\ HasRead
        BY <2>2, PlacesColumns DEF PassInv, NothingRead
    <3>2. SessionRows[a] = pass.rows[a] /\ SessionRows[a] \in AuditorRow
        BY <2>1, <3>1, SessionRowsType DEF SessionRows, HasRead
    <3>3. RowsNow[a] \in {SessionRows[a], ResetDaily(SessionRows[a])}
        BY <2>1 DEF RowsNow
    <3>4. ~AtLimit(RowsNow[a]) /\ ~InCooldown(RowsNow[a])
        BY <2>2, <3>1, <3>2, <3>3, ResetStaysFit DEF GivenRight
    <3> QED
        BY <1>1, <2>1, <2>2, <3>1, <3>4 DEF GivenRight
  <2>3. CASE d = c /\ a \in FitNow
    <3>1. ~AtLimit(RowsNow[a]) /\ ~InCooldown(RowsNow[a]) /\ a \notin OnBreak
        BY <2>3 DEF FitNow, AssignmentCandidates
    <3>2. breaks[a].left \in Nat
        BY <2>1, StandardAreAuditors DEF TypeOK, BreakRow
    <3>3. breaks[a].left = 0
        BY <2>1, <3>1, <3>2, StandardAreAuditors DEF OnBreak
    <3> QED
        BY <1>1, <2>1, <2>3, <3>1, <3>3 DEF GivenRight
  <2>4. \/ d \in Placed /\ a = pass.given[d]
        \/ d = c /\ a \in FitNow
    <3>1. CASE pass'.given = pass.given
        BY <1>4, <3>1 DEF Placed
    <3>2. CASE \E b \in FitNow : pass'.given = [pass.given EXCEPT ![c] = b]
        BY <1>0, <1>4, <2>1, <3>2 DEF Placed, Pass
    <3> QED
        BY <3>1, <3>2, PlacesColumns
  <2> QED
      BY <2>2, <2>3, <2>4
<1> QED
    BY <1>1, <1>2, <1>3, <1>4 DEF PassInv

\* 09:00 and the quarter of an hour reach the rows a pass holds as well.
LEMMA ClockPassInv ==
    ASSUME TypeOK, PassInv, WorkdayStarts \/ Tick PROVE PassInv'
<1>0. pass \in Pass /\ TypeOK'
  <2>1. [Next]_vars
      BY DEF Next
  <2> QED
      BY <2>1, TypeStep DEF TypeOK
<1>1. CASE WorkdayStarts
  <2>0. UNCHANGED cases
      BY <1>1 DEF WorkdayStarts
  <2>1. CASE ~HasRead
    <3>1. pass' = pass
        BY <1>1, <2>1 DEF WorkdayStarts, HasRead
    <3> QED
        BY <2>0, <2>1, <3>1 DEF PassInv, HasRead, NothingRead, WaitingRow, Placed
  <2>2. CASE HasRead
    <3>1. /\ HasRead' /\ pass'.locked = pass.locked /\ pass'.given = pass.given
          /\ pass'.missed = Standard
          /\ \A a \in Standard : pass'.rows[a] = [pass.rows[a] EXCEPT !.reset_due = TRUE]
        BY <1>0, <1>1, <2>2 DEF WorkdayStarts, HasRead, Pass
    <3>2. ASSUME NEW c \in Placed' PROVE GivenRight(c)'
      <4> DEFINE a == pass.given[c]
      <4>1. c \in Placed /\ GivenRight(c) /\ a \in Standard
          BY <1>0, <2>2, <3>1 DEF Placed, PassInv, Pass
      <4>2. /\ pass'.rows[a].exposure = pass.rows[a].exposure
            /\ pass'.rows[a].limit = pass.rows[a].limit
            /\ pass'.rows[a].cooldown = pass.rows[a].cooldown
          BY <1>0, <3>1, <4>1 DEF Pass, AuditorRow
      <4> QED
          BY <3>1, <4>1, <4>2 DEF GivenRight, AtLimit, InCooldown, EffectiveLimit
    <3> QED
        BY <2>0, <3>1, <3>2 DEF PassInv, WaitingRow
  <2> QED
      BY <2>1, <2>2
<1>2. CASE Tick
  <2>0. /\ UNCHANGED cases
        /\ pass'.phase = pass.phase /\ pass'.locked = pass.locked
        /\ pass'.given = pass.given /\ pass'.zeroed = pass.zeroed
        /\ pass'.stamped = pass.stamped /\ pass'.late = pass.late
        /\ pass'.missed = IF HasRead THEN pass.missed \cup (Missed \cap Standard)
                          ELSE pass.missed
        /\ \A a \in Standard :
              pass'.rows[a] = [pass.rows[a] EXCEPT !.cooldown = Less(pass.rows[a].cooldown)]
      BY SMTT(30), <1>0, <1>2 DEF Tick, HasRead, Pass
  <2>1. CASE ~HasRead
      BY <2>0, <2>1 DEF PassInv, HasRead, NothingRead, WaitingRow, Placed
  <2>2. CASE HasRead
    <3>1. HasRead'
        BY <2>0, <2>2 DEF HasRead
    <3>2. ASSUME NEW a \in Standard \ pass'.missed PROVE ReadRight(a)'
      <4>1. auditors'[a] = auditors[a] /\ breaks'[a] = breaks[a] /\ ReadRight(a)
          BY <2>0, <2>2, <3>2, StandardAreAuditors DEF Missed, PassInv
      <4>2. auditors'[a] = [auditors[a] EXCEPT !.cooldown = Less(auditors[a].cooldown)]
          BY <1>2, StandardAreAuditors DEF Tick
      <4>3. auditors[a] \in AuditorRow /\ pass.rows[a] \in AuditorRow
          BY <1>0, StandardAreAuditors DEF TypeOK, Pass
      <4>4. pass.rows[a].cooldown = auditors[a].cooldown
          BY <4>1, <4>3 DEF ReadRight, ResetDaily, AuditorRow
      <4>5. Less(auditors[a].cooldown) = auditors[a].cooldown
          BY <4>1, <4>2, <4>3 DEF AuditorRow
      <4>6. pass'.rows[a] = pass.rows[a]
          BY <2>0, <4>3, <4>4, <4>5 DEF AuditorRow
      <4> QED
          BY <2>0, <4>1, <4>6 DEF ReadRight
    <3>3. ASSUME NEW c \in Placed' PROVE GivenRight(c)'
      <4> DEFINE a == pass.given[c]
      <4>1. c \in Placed /\ GivenRight(c) /\ a \in Standard
          BY <1>0, <2>0, <2>2 DEF Placed, PassInv, Pass
      <4>2. pass.rows[a] \in AuditorRow /\ pass.rows[a].cooldown \in Nat
          BY <1>0, <4>1 DEF Pass, AuditorRow
      <4>3. /\ pass'.rows[a].exposure = pass.rows[a].exposure
            /\ pass'.rows[a].limit = pass.rows[a].limit
            /\ pass'.rows[a].cooldown = Less(pass.rows[a].cooldown)
          BY <2>0, <4>1, <4>2 DEF AuditorRow
      <4>4. ~InCooldown(pass'.rows[a])
          BY <4>1, <4>2, <4>3 DEF GivenRight, InCooldown, Less
      <4>5. ~AtLimit(pass'.rows[a])
          BY <4>1, <4>3 DEF GivenRight, AtLimit, EffectiveLimit
      <4>6. a \notin pass'.missed => breaks'[a].left = 0
          BY <2>0, <2>2, <4>1, StandardAreAuditors DEF GivenRight, Missed
      <4> QED
          BY <2>0, <4>1, <4>4, <4>5, <4>6 DEF GivenRight
    <3> QED
        BY <2>0, <3>1, <3>2, <3>3 DEF PassInv
  <2> QED
      BY <2>1, <2>2
<1> QED
    BY <1>1, <1>2

LEMMA PassInvStep == TypeOK /\ PassInv /\ [Next]_vars => PassInv'
<1> SUFFICES ASSUME TypeOK, PassInv, [Next]_vars PROVE PassInv'
    OBVIOUS
<1>1. CASE UNCHANGED vars
    BY <1>1, SamePassInv DEF vars, tables
<1>2. CASE HandlerStep
    BY <1>2, BesidePass DEF HandlerStep
<1>3. CASE PassBegins
    BY <1>3, BegunInv
<1>4. CASE \E c \in Cases : PassPlaces(c)
    BY <1>4, PlacesInv
<1>5. CASE PassCommits \/ PassFails \/ Restart
    BY <1>5, NoPassInv DEF PassCommits, PassFails, Restart
<1>6. CASE DailyCommits
    BY <1>6, BesidePass DEF DailyCommits
<1>7. CASE DailyReads \/ DailyFails
    BY <1>7, SamePassInv DEF DailyReads, DailyFails
<1>8. CASE WorkdayStarts \/ Tick
    BY <1>8, ClockPassInv
<1> QED
    BY <1>1, <1>2, <1>3, <1>4, <1>5, <1>6, <1>7, <1>8 DEF Next, PassStep, DailyStep

LEMMA DailyInvStep == TypeOK /\ DailyInv /\ [Next]_vars => DailyInv'
<1> SUFFICES ASSUME TypeOK, DailyInv, [Next]_vars PROVE DailyInv'
    OBVIOUS
<1>1. CASE DailyMisses
    BY <1>1, BesideDaily
<1>2. CASE daily' = NoDaily
    BY <1>2 DEF DailyInv, NoDaily
<1>3. CASE UNCHANGED <<auditors, daily>>
    BY <1>3 DEF DailyInv
<1>4. CASE DailyReads
  <2>1. /\ daily'.stamped = {a \in Auditors : auditors[a].reset_due}
        /\ daily'.zeroed \subseteq daily'.stamped
        /\ UNCHANGED auditors
      BY <1>4 DEF DailyReads, tables
  <2> QED
      BY <2>1 DEF DailyInv
<1>5. CASE WorkdayStarts
  <2>1. daily'.missed = daily.zeroed /\ daily'.zeroed = daily.zeroed
      BY <1>5 DEF WorkdayStarts, TypeOK, Daily
  <2> QED
      BY <2>1 DEF DailyInv
<1>6. CASE PassBegins \/ (\E c \in Cases : PassPlaces(c)) \/ PassFails
    BY <1>3, <1>6 DEF PassBegins, PassPlaces, PassFails, tables
<1> QED
    BY <1>1, <1>2, <1>3, <1>4, <1>5, <1>6
    DEF Next, HandlerStep, PassStep, DailyStep, PassCommits, DailyCommits, DailyFails,
        Tick, Restart, vars

LEMMA InitJobs == Init => PassInv /\ DailyInv
<1> SUFFICES ASSUME Init PROVE PassInv /\ DailyInv
    OBVIOUS
<1>1. /\ pass.phase = "idle" /\ pass.locked = {} /\ pass.zeroed = {}
      /\ pass.stamped = {} /\ pass.late = {} /\ pass.missed = {}
      /\ \A c \in Cases : pass.given[c] = NULL
    BY DEF Init, NoPass
<1>2. PassInv
    BY <1>1 DEF PassInv, HasRead, NothingRead, Placed
<1>3. DailyInv
    BY DEF Init, DailyInv, NoDaily
<1> QED
    BY <1>2, <1>3

LEMMA JobsInvHolds == Spec => []PassInv /\ []DailyInv
<1>1. TypeOK /\ PassInv /\ DailyInv /\ [Next]_vars => (PassInv /\ DailyInv)'
    BY PassInvStep, DailyInvStep
<1> QED
    BY <1>1, InitJobs, TypeCorrect, PTL DEF Spec

\* The reset a job writes is, for somebody it has right, the row it has.
LEMMA CommittedRow ==
    ASSUME TypeOK, PassInv, HasRead, NEW a \in Standard \ pass.missed
    PROVE  ResetBy(pass)[a] = pass.rows[a]
<1>1. auditors[a] \in AuditorRow /\ a \in Auditors
    BY StandardAreAuditors DEF TypeOK
<1>2. ResetBy(pass)[a] = [auditors[a] EXCEPT
                            !.exposure = IF a \in pass.zeroed THEN 0 ELSE @,
                            !.reset_due = IF a \in pass.stamped THEN FALSE
                                          ELSE a \in pass.late \/ @]
    BY <1>1 DEF ResetBy
<1>3. ReadRight(a)
    BY DEF PassInv
<1>4. CASE a \notin pass.stamped
  <2>1. ResetBy(pass)[a] = auditors[a]
    <3>1. a \notin pass.late /\ a \notin pass.zeroed
        BY <1>3, <1>4 DEF ReadRight
    <3>2. (IF a \in pass.zeroed THEN 0 ELSE auditors[a].exposure) = auditors[a].exposure
        BY <3>1
    <3>3. auditors[a].reset_due \in BOOLEAN
        BY <1>1 DEF AuditorRow
    <3>4. (IF a \in pass.stamped THEN FALSE ELSE a \in pass.late \/ auditors[a].reset_due) = auditors[a].reset_due
        BY <1>4, <3>1, <3>3
    <3>5. ResetBy(pass)[a] = [auditors[a] EXCEPT !.exposure = auditors[a].exposure,
                                                !.reset_due = auditors[a].reset_due]
        BY ONLY <1>2, <3>2, <3>4
    <3> QED
        BY ONLY <1>1, <3>5 DEF AuditorRow
  <2> QED
      BY <1>3, <1>4, <2>1 DEF ReadRight
<1>5. CASE a \in pass.stamped
  <2>1. /\ auditors[a].reset_due /\ pass.rows[a] = ResetDaily(auditors[a])
        /\ a \in pass.zeroed <=> auditors[a].exposure > 0
      BY <1>3, <1>5 DEF ReadRight
  <2>2. ResetDaily(auditors[a]) = [auditors[a] EXCEPT !.exposure = 0, !.reset_due = FALSE]
      BY <2>1 DEF ResetDaily
  <2>3. (IF a \in pass.zeroed THEN 0 ELSE auditors[a].exposure) = 0
      BY <1>1, <2>1 DEF AuditorRow
  <2>4. ResetBy(pass)[a] = [auditors[a] EXCEPT !.exposure = 0, !.reset_due = FALSE]
      BY <1>2, <1>5, <2>3
  <2> QED
      BY <2>1, <2>2, <2>4
<1> QED
    BY <1>4, <1>5

\* What the commit of a pass does to the case rows.
LEMMA PassGives ==
    ASSUME TypeOK, PassInv, PassCommits, NEW c \in Cases
    PROVE  \/ c \notin Placed /\ cases'[c] = cases[c]
           \/ /\ c \in Placed /\ HasRead /\ GivenRight(c)
              /\ pass.given[c] \in Standard
              /\ WaitingRow(cases[c])
              /\ cases'[c] = Assigned(cases[c], pass.given[c])
<1>1. HasRead /\ pass \in Pass
    BY DEF PassCommits, HasRead, TypeOK
<1>2. cases'[c] = IF c \in Placed THEN Assigned(cases[c], pass.given[c]) ELSE cases[c]
    BY DEF PassCommits
<1>3. c \in Placed => /\ GivenRight(c) /\ pass.given[c] \in Standard
                      /\ WaitingRow(cases[c])
    BY <1>1 DEF PassInv, GivenRight, Placed, Pass
<1> QED
    BY <1>1, <1>2, <1>3

(***************************************************************************)
(* QueuedCasesAreFree and CompletedIsHandedOff, strengthened to an         *)
(* inductive invariant. What they do not say is that a report not made yet *)
(* has neither owner, flag, queue nor outcome: creating it writes some of  *)
(* these columns and looks at none.                                        *)
(***************************************************************************)
GoodRow(row) ==
    /\ row.visibility # "ASSIGNED_ONLY" => row.auditor = NULL /\ row.flag = NULL
    /\ row.status = "COMPLETE" => row.outcome # NULL
    /\ row.status = NULL => /\ row.auditor = NULL
                            /\ row.flag = NULL
                            /\ row.outcome = NULL
                            /\ row.visibility = "ASSIGNED_ONLY"

CaseInv == \A c \in Cases : /\ GoodRow(cases[c])
                            /\ cases[c].outcome # NULL <=> handoff[c] # NULL

\* What every update of a row but the two that finish a case does.
Keeps(row, new) == GoodRow(new) /\ new.outcome = row.outcome

LEMMA CreatedRow ==
    ASSUME NEW row \in CaseRow, GoodRow(row), row.status = NULL
    PROVE  /\ \A a \in Auditors :
                 Keeps(row, [row EXCEPT !.status = "AI_PROCESSING", !.auditor = a])
           /\ Keeps(row, [row EXCEPT !.status = "AI_PROCESSING",
                                     !.visibility = "SUPER_ADMIN_ONLY"])
<1>1. \A a \in Auditors :
          Keeps(row, [row EXCEPT !.status = "AI_PROCESSING", !.auditor = a])
    BY RulesAssumption DEF Keeps, GoodRow, CaseRow, Statuses
<1>2. Keeps(row, [row EXCEPT !.status = "AI_PROCESSING",
                             !.visibility = "SUPER_ADMIN_ONLY"])
    BY RulesAssumption DEF Keeps, GoodRow, CaseRow, Statuses
<1> QED
    BY <1>1, <1>2

LEMMA AnalysedRow ==
    ASSUME NEW row \in CaseRow, GoodRow(row), NEW t
    PROVE  /\ Keeps(row, [row EXCEPT !.status = "AI_PROCESSING", !.tier = NULL,
                                     !.ai_failure = NULL])
           /\ Keeps(row, [row EXCEPT !.run = TRUE])
           /\ Keeps(row, [row EXCEPT !.status = "READY_FOR_REVIEW", !.tier = t])
           /\ Keeps(row, [row EXCEPT !.status = "READY_FOR_REVIEW",
                                     !.ai_failure = "vision"])
           /\ Keeps(row, [row EXCEPT !.status = "READY_FOR_REVIEW", !.tier = t,
                                     !.ai_failure = NULL])
<1> USE RulesAssumption DEF Keeps, GoodRow, CaseRow, Statuses
<1>1. Keeps(row, [row EXCEPT !.status = "AI_PROCESSING", !.tier = NULL, !.ai_failure = NULL])
    OBVIOUS
<1>2. Keeps(row, [row EXCEPT !.run = TRUE])
    OBVIOUS
<1>3. Keeps(row, [row EXCEPT !.status = "READY_FOR_REVIEW", !.tier = t])
    OBVIOUS
<1>4. Keeps(row, [row EXCEPT !.status = "READY_FOR_REVIEW", !.ai_failure = "vision"])
    OBVIOUS
<1>5. Keeps(row, [row EXCEPT !.status = "READY_FOR_REVIEW", !.tier = t, !.ai_failure = NULL])
    OBVIOUS
<1> HIDE DEF Keeps
<1> QED
    BY <1>1, <1>2, <1>3, <1>4, <1>5

\* Only an owned case gets a flag, and an owned case is in no queue.
LEMMA FlaggedRow ==
    ASSUME NEW row \in CaseRow, GoodRow(row), row.auditor # NULL, NEW f
    PROVE  Keeps(row, [row EXCEPT !.flag = f])
  BY DEF Keeps, GoodRow, CaseRow

LEMMA ReviewedRow ==
    ASSUME NEW row \in CaseRow, GoodRow(row), row.status # NULL
    PROVE  /\ Keeps(row, [row EXCEPT !.status = "AUDITOR_REVIEW"])
           /\ Keeps(row, [row EXCEPT !.status = "READY_FOR_REVIEW", !.auditor = NULL])
<1>1. Keeps(row, [row EXCEPT !.status = "AUDITOR_REVIEW"])
    BY RulesAssumption DEF Keeps, GoodRow, CaseRow, Statuses
<1>2. Keeps(row, [row EXCEPT !.status = "READY_FOR_REVIEW", !.auditor = NULL])
    BY RulesAssumption DEF Keeps, GoodRow, CaseRow, Statuses
<1> QED
    BY <1>1, <1>2

LEMMA GivenRow ==
    ASSUME NEW row \in CaseRow, GoodRow(row), row.status # NULL, NEW a
    PROVE  /\ Keeps(row, Assigned(row, a))
           /\ Keeps(row, [row EXCEPT !.auditor = a, !.visibility = "ASSIGNED_ONLY",
                                     !.status = "READY_FOR_REVIEW", !.flag = NULL])
<1>1. Keeps(row, Assigned(row, a))
    BY DEF Keeps, GoodRow, CaseRow, Assigned
<1>2. Keeps(row, [row EXCEPT !.auditor = a, !.visibility = "ASSIGNED_ONLY",
                             !.status = "READY_FOR_REVIEW", !.flag = NULL])
    BY RulesAssumption DEF Keeps, GoodRow, CaseRow, Statuses
<1> QED
    BY <1>1, <1>2

LEMMA ListedRow ==
    ASSUME NEW row \in CaseRow, GoodRow(row), row.status # NULL,
           row.auditor = NULL, row.flag = NULL, NEW v
    PROVE  Keeps(row, [row EXCEPT !.visibility = v])
  BY DEF Keeps, GoodRow, CaseRow

LEMMA FinishedRow ==
    ASSUME NEW row \in CaseRow, GoodRow(row), row.status # NULL, NEW o \in Outcomes
    PROVE  /\ GoodRow([row EXCEPT !.status = "COMPLETE", !.outcome = o])
           /\ [row EXCEPT !.status = "COMPLETE", !.outcome = o].outcome = o
  BY RulesAssumption DEF GoodRow, CaseRow, Statuses

LEMMA KeptRow == ASSUME NEW row, GoodRow(row) PROVE Keeps(row, row)
  BY DEF Keeps

\* A step that keeps every row and leaves the deliveries alone keeps CaseInv.
LEMMA KeptInv ==
    ASSUME CaseInv, \A d \in Cases : Keeps(cases[d], cases'[d]), UNCHANGED handoff
    PROVE  CaseInv'
  BY DEF CaseInv, Keeps

\* The steps that finish a case: the outcome and the delivery come together.
LEMMA FinishedInv ==
    ASSUME TypeOK, CaseInv, NEW c \in Cases, NEW o \in Outcomes,
           cases[c].status # NULL,
           cases' = [cases EXCEPT ![c].status = "COMPLETE", ![c].outcome = o],
           HandOff(c, o)
    PROVE  CaseInv'
<1> SUFFICES ASSUME NEW d \in Cases
             PROVE  /\ GoodRow(cases'[d])
                    /\ cases'[d].outcome # NULL <=> handoff'[d] # NULL
    BY DEF CaseInv
<1>1. o # NULL
    BY RulesAssumption
<1>2. CASE d = c
  <2>1. cases[c] \in CaseRow /\ GoodRow(cases[c])
      BY DEF TypeOK, CaseInv
  <2>2. cases'[c] = [cases[c] EXCEPT !.status = "COMPLETE", !.outcome = o]
      BY DEF TypeOK
  <2>3. handoff'[c] # NULL
    <3>1. handoff \in [Cases -> Outcomes \cup {NULL}]
        BY DEF TypeOK
    <3> QED
        BY <1>1, <3>1 DEF HandOff
  <2>4. GoodRow(cases'[c]) /\ cases'[c].outcome = o
    <3> DEFINE row == cases[c]
    <3>1. row \in CaseRow /\ GoodRow(row) /\ row.status # NULL
        BY <2>1
    <3>2. cases'[c] = [row EXCEPT !.status = "COMPLETE", !.outcome = o]
        BY <2>2
    <3> HIDE DEF row
    <3> QED
        BY <3>1, <3>2, FinishedRow
  <2> QED
      BY <1>1, <1>2, <2>3, <2>4
<1>3. CASE d # c
  <2>1. cases'[d] = cases[d] /\ handoff'[d] = handoff[d]
      BY <1>3 DEF TypeOK, HandOff
  <2> QED
      BY <2>1 DEF CaseInv
<1> QED
    BY <1>2, <1>3

\* A pass of the automatic release keeps every row.
LEMMA ReleasedKeeps ==
    ASSUME NEW cs \in [Cases -> CaseRow], NEW q,
           NEW r \in ReleasedRows(cs, auditors, turn, q, OnBreak),
           \A d \in Cases : GoodRow(cs[d])
    PROVE  \A d \in Cases : Keeps(cs[d], r.cases[d])
<1> SUFFICES ASSUME NEW d \in Cases PROVE Keeps(cs[d], r.cases[d])
    OBVIOUS
<1>1. CASE r.cases[d] = cs[d]
    BY <1>1, KeptRow
<1>2. CASE /\ d \in Waiting(cs, q)
           /\ r.cases[d] = Assigned(cs[d], r.cases[d].auditor)
  <2>1. cs[d].status # NULL
      BY <1>2 DEF Waiting
  <2>2. cs[d] \in CaseRow /\ GoodRow(cs[d])
      OBVIOUS
  <2>3. Keeps(cs[d], Assigned(cs[d], r.cases[d].auditor))
      BY <2>1, <2>2, GivenRow
  <2> QED
      BY <1>2, <2>3
<1> QED
    BY <1>1, <1>2, ReleasedRow

\* A step that changes one row, keeping it.
LEMMA OneRowInv ==
    ASSUME TypeOK, CaseInv, NEW c \in Cases, NEW new, Keeps(cases[c], new),
           cases' = [cases EXCEPT ![c] = new], UNCHANGED handoff
    PROVE  CaseInv'
<1>1. \A d \in Cases : Keeps(cases[d], cases'[d])
    BY KeptRow DEF TypeOK, CaseInv
<1> QED
    BY <1>1, KeptInv

LEMMA SameRowsInv ==
    ASSUME CaseInv, UNCHANGED <<cases, handoff>> PROVE CaseInv'
  BY DEF CaseInv

LEMMA CaseStepInv ==
    ASSUME TypeOK, CaseInv, NEW c \in Cases, CaseStep(c) PROVE CaseInv'
<1> DEFINE row == cases[c]
<1>0. row \in CaseRow /\ GoodRow(row)
    BY DEF TypeOK, CaseInv
<1> DEFINE Becomes(new) == cases' = [cases EXCEPT ![c] = new]
<1>1. ASSUME NEW new, Keeps(row, new), Becomes(new), UNCHANGED handoff PROVE CaseInv'
    BY <1>1, OneRowInv
<1>2. CASE CreateReport(c)
  <2>1. UNCHANGED handoff /\ row.status = NULL
      BY <1>2 DEF CreateReport
  <2>2. CASE Becomes([row EXCEPT !.status = "AI_PROCESSING",
                                 !.visibility = "SUPER_ADMIN_ONLY"])
    <3> HIDE DEF row
    <3> QED
        BY <1>0, <1>1, <2>1, <2>2, CreatedRow
  <2>3. CASE \E a \in Auditors : Becomes([row EXCEPT !.status = "AI_PROCESSING",
                                                     !.auditor = a])
    <3>1. PICK a \in Auditors : Becomes([row EXCEPT !.status = "AI_PROCESSING",
                                                    !.auditor = a])
        BY <2>3
    <3> HIDE DEF row, Becomes
    <3> QED
        BY <1>0, <1>1, <2>1, <3>1, CreatedRow
  <2> QED
      BY <1>2, <2>2, <2>3 DEF CreateReport, PickBest, AssignmentCandidates, Auditors
<1>3. CASE AnalysisLoad(c)
  <2>1. /\ Becomes([row EXCEPT !.status = "AI_PROCESSING", !.tier = NULL,
                               !.ai_failure = NULL])
        /\ UNCHANGED handoff
      BY <1>3 DEF AnalysisLoad
  <2> HIDE DEF row, Becomes
  <2> QED
      BY <1>0, <1>1, <2>1, AnalysedRow
<1>4. CASE AnalysisRefused(c) \/ AnalysisRaises(c)
    BY <1>4, SameRowsInv DEF AnalysisRefused, AnalysisRaises
<1>5. CASE AnalysisStartRun(c)
  <2>1. Becomes([row EXCEPT !.run = TRUE]) /\ UNCHANGED handoff
      BY <1>5 DEF AnalysisStartRun
  <2> HIDE DEF row, Becomes
  <2> QED
      BY <1>0, <1>1, <2>1, AnalysedRow
<1>6. CASE AnalysisFinish(c)
  <2>1. UNCHANGED handoff
      BY <1>6 DEF AnalysisFinish
  <2>2. \/ \E t \in Tiers : Becomes([row EXCEPT !.status = "READY_FOR_REVIEW", !.tier = t])
        \/ Becomes([row EXCEPT !.status = "READY_FOR_REVIEW", !.ai_failure = "vision"])
      BY <1>6 DEF AnalysisFinish
  <2> HIDE DEF row, Becomes
  <2> QED
      BY <1>0, <1>1, <2>1, <2>2, AnalysedRow
<1>7. CASE InsertMockAiResult(c)
  <2>1. UNCHANGED handoff
      BY <1>7 DEF InsertMockAiResult
  <2>2. \E t \in Tiers : Becomes([row EXCEPT !.status = "READY_FOR_REVIEW", !.tier = t,
                                             !.ai_failure = NULL])
      BY <1>7 DEF InsertMockAiResult
  <2> HIDE DEF row, Becomes
  <2> QED
      BY <1>0, <1>1, <2>1, <2>2, AnalysedRow
<1>8. CASE MakeAvailable(c)
  <2>1. /\ Becomes([row EXCEPT !.visibility = "AVAILABLE_TO_AUDITORS"])
        /\ row.status # NULL /\ row.auditor = NULL /\ row.flag = NULL
        /\ UNCHANGED handoff
      BY <1>8 DEF MakeAvailable
  <2> HIDE DEF row, Becomes
  <2> QED
      BY <1>0, <1>1, <2>1, ListedRow
<1>9. CASE WithdrawRelease(c)
  <2> DEFINE parked == [cases EXCEPT ![c].visibility = "SUPER_ADMIN_ONLY"]
  <2>1. /\ UNCHANGED handoff
        /\ row.status # NULL /\ row.auditor = NULL /\ row.flag = NULL
      BY <1>9 DEF WithdrawRelease
  <2>2. Keeps(row, [row EXCEPT !.visibility = "SUPER_ADMIN_ONLY"])
    <3> HIDE DEF row
    <3> QED
        BY <1>0, <2>1, ListedRow
  <2>3. parked \in [Cases -> CaseRow]
      BY CaseRowColumns DEF Visibilities, TypeOK
  <2>4. \A d \in Cases : Keeps(cases[d], parked[d])
      BY <2>2, KeptRow DEF TypeOK, CaseInv
  <2>5. PICK r \in ReleasedRows(parked, auditors, turn, QueuedNow(queued, c), OnBreak) :
            cases' = r.cases
      BY <1>9 DEF WithdrawRelease
  <2> HIDE DEF parked
  <2>6. \A d \in Cases : Keeps(parked[d], r.cases[d])
      BY <2>3, <2>4, ReleasedKeeps DEF Keeps
  <2>7. \A d \in Cases : Keeps(cases[d], cases'[d])
      BY <2>4, <2>5, <2>6 DEF Keeps
  <2> QED
      BY <2>1, <2>7, KeptInv
<1>10. CASE CloseWithoutReassignment(c)
  <2>1. "CLOSED_NO_REASSIGNMENT" \in Outcomes
      BY DEF Outcomes
  <2> QED
      BY <1>10, <2>1, FinishedInv DEF CloseWithoutReassignment
<1> QED
    BY <1>2, <1>3, <1>4, <1>5, <1>6, <1>7, <1>8, <1>9, <1>10 DEF CaseStep, AnalysisStep
LEMMA ReviewStepInv ==
    ASSUME TypeOK, CaseInv, NEW a \in Auditors, NEW c \in Cases, ReviewStep(a, c)
    PROVE  CaseInv'
<1> DEFINE row == cases[c]
<1>0. row \in CaseRow /\ GoodRow(row)
    BY DEF TypeOK, CaseInv
<1> DEFINE Becomes(new) == cases' = [cases EXCEPT ![c] = new]
<1>1. ASSUME NEW new, Keeps(row, new), Becomes(new), UNCHANGED handoff PROVE CaseInv'
    BY <1>1, OneRowInv
<1>2. CASE AcknowledgeContentWarning(a, c)
  <2>1. /\ Becomes([row EXCEPT !.status = "AUDITOR_REVIEW"])
        /\ row.status # NULL
        /\ UNCHANGED handoff
      BY <1>2 DEF AcknowledgeContentWarning, Owns
  <2> HIDE DEF row, Becomes
  <2> QED
      BY <1>0, <1>1, <2>1, ReviewedRow
<1>3. CASE ResolveCase(a, c)
  <2>1. PICK o \in DecidedHere :
            /\ cases' = [cases EXCEPT ![c].status = "COMPLETE", ![c].outcome = o]
            /\ HandOff(c, o)
      BY <1>3 DEF ResolveCase
  <2>2. o \in Outcomes /\ cases[c].status # NULL
      BY <1>3, DecidedAreOutcomes DEF ResolveCase, Owns
  <2> QED
      BY <2>1, <2>2, FinishedInv
<1>4. CASE DeclineCase(a, c)
  <2>1. /\ Becomes([row EXCEPT !.flag = "DECLINED"])
        /\ row.auditor # NULL
        /\ UNCHANGED handoff
      BY <1>4, NullIsNobody DEF DeclineCase, Owns
  <2> HIDE DEF row, Becomes
  <2> QED
      BY <1>0, <1>1, <2>1, FlaggedRow
<1>5. CASE ReleaseCaseAtLimit(a, c)
  <2>1. ASSUME NEW d \in Cases PROVE Keeps(cases[d], cases'[d])
    <3> DEFINE other == cases[d]
    <3>1. other \in CaseRow /\ GoodRow(other)
        BY DEF TypeOK, CaseInv
    <3>2. \/ cases'[d] = other
          \/ other.auditor # NULL /\ cases'[d] = [other EXCEPT !.flag = "CAP_REACHED"]
        BY <1>5, NullIsNobody DEF ReleaseCaseAtLimit, Owns
    <3> HIDE DEF other
    <3>3. Keeps(other, cases'[d])
        BY <3>1, <3>2, FlaggedRow, KeptRow
    <3> QED
        BY <3>3 DEF other
  <2>2. UNCHANGED handoff
      BY <1>5 DEF ReleaseCaseAtLimit
  <2> QED
      BY <2>1, <2>2, KeptInv
<1>6. CASE RecordExposure(a, c)
    BY <1>6, SameRowsInv DEF RecordExposure
<1>7. CASE TriggerSos(a, c)
  <2>1. /\ Becomes([row EXCEPT !.flag = "SOS"])
        /\ row.auditor # NULL
        /\ UNCHANGED handoff
      BY <1>7, NullIsNobody DEF TriggerSos, Owns
  <2> HIDE DEF row, Becomes
  <2> QED
      BY <1>0, <1>1, <2>1, FlaggedRow
<1>8. CASE TakeCase(a, c) \/ ClaimCase(a, c)
  <2>1. Becomes(Assigned(row, a)) /\ row.status # NULL /\ UNCHANGED handoff
      BY <1>8 DEF TakeCase, ClaimCase
  <2> HIDE DEF row, Becomes
  <2> QED
      BY <1>0, <1>1, <2>1, GivenRow
<1>9. CASE ReassignCase(c, a)
  <2>1. /\ Becomes([row EXCEPT !.auditor = a, !.visibility = "ASSIGNED_ONLY",
                               !.status = "READY_FOR_REVIEW", !.flag = NULL])
        /\ row.status # NULL
        /\ UNCHANGED handoff
      BY <1>9 DEF ReassignCase
  <2> HIDE DEF row, Becomes
  <2> QED
      BY <1>0, <1>1, <2>1, GivenRow
<1> QED
    BY <1>2, <1>3, <1>4, <1>5, <1>6, <1>7, <1>8, <1>9 DEF ReviewStep

LEMMA AuditorStepInv ==
    ASSUME TypeOK, CaseInv, NEW a \in Auditors, AuditorStep(a) PROVE CaseInv'
<1>1. CASE ReleaseAllCasesAtLimit(a)
  <2>1. ASSUME NEW d \in Cases PROVE Keeps(cases[d], cases'[d])
    <3> DEFINE other == cases[d]
    <3>1. other \in CaseRow /\ GoodRow(other)
        BY DEF TypeOK, CaseInv
    <3>2. \/ cases'[d] = other
          \/ other.auditor # NULL /\ cases'[d] = [other EXCEPT !.flag = "CAP_REACHED"]
        BY <1>1, NullIsNobody DEF ReleaseAllCasesAtLimit
    <3> HIDE DEF other
    <3>3. Keeps(other, cases'[d])
        BY <3>1, <3>2, FlaggedRow, KeptRow
    <3> QED
        BY <3>3 DEF other
  <2>2. UNCHANGED handoff
      BY <1>1 DEF ReleaseAllCasesAtLimit
  <2> QED
      BY <2>1, <2>2, KeptInv
<1>2. CASE StopShift(a)
  <2>1. ASSUME NEW d \in Cases PROVE Keeps(cases[d], cases'[d])
    <3> DEFINE other == cases[d]
    <3>1. other \in CaseRow /\ GoodRow(other)
        BY DEF TypeOK, CaseInv
    <3>2. \/ cases'[d] = other
          \/ /\ other.status \in {"READY_FOR_REVIEW", "AUDITOR_REVIEW"}
             /\ cases'[d] = [other EXCEPT !.status = "READY_FOR_REVIEW", !.auditor = NULL]
        BY <1>2 DEF StopShift
    <3> HIDE DEF other
    <3>3. other.status \in {"READY_FOR_REVIEW", "AUDITOR_REVIEW"} => other.status # NULL
        BY RulesAssumption DEF Statuses
    <3>4. Keeps(other, cases'[d])
        BY <3>1, <3>2, <3>3, ReviewedRow, KeptRow
    <3> QED
        BY <3>4 DEF other
  <2>2. UNCHANGED handoff
      BY <1>2 DEF StopShift
  <2> QED
      BY <2>1, <2>2, KeptInv
<1>3. CASE ListAvailableCases(a)
  <2>1. PICK r \in ReleasedRows(cases, auditors, turn, queued, OnBreak) : cases' = r.cases
      BY <1>3 DEF ListAvailableCases
  <2>2. \A d \in Cases : Keeps(cases[d], cases'[d])
      BY <2>1, ReleasedKeeps DEF TypeOK, CaseInv
  <2> QED
      BY <1>3, <2>2, KeptInv DEF ListAvailableCases
<1>4. CASE UNCHANGED <<cases, handoff>>
    BY <1>4, SameRowsInv
<1> QED
    BY <1>1, <1>2, <1>3, <1>4
    DEF AuditorStep, SetExposureLimit, LogCheckIn, RequestBreak, WithdrawBreakRequest,
        ApproveBreakRequest, GetMyWellbeing

LEMMA SystemStepInv ==
    ASSUME TypeOK, CaseInv,
           \/ \E i \in DOMAIN alerts : AlertStep(i)
           \/ ReleaseWaitingCases \/ DailyCommits \/ WorkdayStarts \/ Tick \/ Restart
    PROVE  CaseInv'
<1>1. CASE ReleaseWaitingCases
  <2>1. PICK r \in ReleasedRows(cases, auditors, turn, queued, OnBreak) : cases' = r.cases
      BY <1>1 DEF ReleaseWaitingCases
  <2>2. \A d \in Cases : Keeps(cases[d], cases'[d])
      BY <2>1, ReleasedKeeps DEF TypeOK, CaseInv
  <2> QED
      BY <1>1, <2>2, KeptInv DEF ReleaseWaitingCases
<1>2. CASE UNCHANGED <<cases, handoff>>
    BY <1>2, SameRowsInv
<1> QED
    BY <1>1, <1>2
    DEF AlertStep, AcknowledgeSosAlert, LogSosFollowUp, DailyCommits,
        WorkdayStarts, Tick, Restart

LEMMA PassCommitsInv ==
    ASSUME TypeOK, PassInv, CaseInv, PassCommits PROVE CaseInv'
<1>1. ASSUME NEW c \in Cases PROVE Keeps(cases[c], cases'[c])
  <2> DEFINE row == cases[c]
  <2>1. row \in CaseRow /\ GoodRow(row)
      BY DEF TypeOK, CaseInv
  <2>2. \/ cases'[c] = row
        \/ row.status # NULL /\ cases'[c] = Assigned(row, pass.given[c])
      BY PassGives DEF WaitingRow
  <2> HIDE DEF row
  <2>3. Keeps(row, cases'[c])
      BY <2>1, <2>2, GivenRow, KeptRow
  <2> QED
      BY <2>3 DEF row
<1>2. UNCHANGED handoff
    BY DEF PassCommits
<1> QED
    BY <1>1, <1>2, KeptInv

LEMMA InitInv == Init => CaseInv
  BY RulesAssumption DEF Init, NoCase, CaseInv, GoodRow, Statuses

LEMMA CaseInvStep == TypeOK /\ PassInv /\ CaseInv /\ [Next]_vars => CaseInv'
<1> SUFFICES ASSUME TypeOK, PassInv, CaseInv, [Next]_vars PROVE CaseInv'
    OBVIOUS
<1>1. CASE UNCHANGED tables \/ UNCHANGED vars
    BY <1>1, SameRowsInv DEF vars, tables
<1>2. CASE HandlerStep
    BY <1>2, CaseStepInv, ReviewStepInv, AuditorStepInv, SystemStepInv
    DEF HandlerStep, Handler
<1>3. CASE PassCommits
    BY <1>3, PassCommitsInv
<1>4. CASE DailyCommits \/ WorkdayStarts \/ Tick \/ Restart
    BY <1>4, SystemStepInv
<1> QED
    BY <1>1, <1>2, <1>3, <1>4, StepKinds

\* The two invariants about cases hold together: CaseInv is inductive once the
\* rows have their types and the release job has what it has locked right.
LEMMA CaseInvHolds == Spec => []CaseInv
  BY TypeCorrect, JobsInvHolds, InitInv, CaseInvStep, PTL DEF Spec

\* Nobody can claim or take a case that somebody holds or that waits for a
\* Manager: a case listed in a queue has neither owner nor flag.
THEOREM QueuedFree == Spec => []QueuedCasesAreFree
<1>1. CaseInv => QueuedCasesAreFree
    BY DEF CaseInv, GoodRow, QueuedCasesAreFree
<1> QED
    BY <1>1, CaseInvHolds, PTL

\* Every finished case is on its way to the customer, and only those are.
THEOREM CompletedHandedOff == Spec => []CompletedIsHandedOff
<1>1. CaseInv => CompletedIsHandedOff
    BY DEF CaseInv, GoodRow, CompletedIsHandedOff
<1> QED
    BY <1>1, CaseInvHolds, PTL
(***************************************************************************)
(* Deliveries are made by HandOff alone, and it keeps the ones there are.  *)
(***************************************************************************)
LEMMA HandoffMoves ==
    ASSUME Next
    PROVE  UNCHANGED handoff \/ \E c \in Cases, o \in Outcomes : HandOff(c, o)
<1>1. ASSUME NEW c \in Cases, CaseStep(c)
      PROVE  UNCHANGED handoff \/ \E o \in Outcomes : HandOff(c, o)
  <2>1. CASE CloseWithoutReassignment(c)
      BY <2>1 DEF CloseWithoutReassignment, Outcomes
  <2> QED
      BY <1>1, <2>1
      DEF CaseStep, CreateReport, AnalysisStep, AnalysisLoad, AnalysisRefused,
          AnalysisStartRun, AnalysisFinish, AnalysisRaises, InsertMockAiResult,
          MakeAvailable, WithdrawRelease
<1>2. ASSUME NEW a \in Auditors, NEW c \in Cases, ReviewStep(a, c)
      PROVE  UNCHANGED handoff \/ \E o \in Outcomes : HandOff(c, o)
  <2>1. CASE ResolveCase(a, c)
      BY <2>1, DecidedAreOutcomes DEF ResolveCase
  <2> QED
      BY <1>2, <2>1
      DEF ReviewStep, AcknowledgeContentWarning, DeclineCase, ReleaseCaseAtLimit,
          RecordExposure, TriggerSos, TakeCase, ClaimCase, ReassignCase
<1>3. ASSUME NEW a \in Auditors, AuditorStep(a) PROVE UNCHANGED handoff
    BY <1>3
    DEF AuditorStep, ReleaseAllCasesAtLimit, StopShift, ListAvailableCases,
        SetExposureLimit, LogCheckIn, RequestBreak, WithdrawBreakRequest,
        ApproveBreakRequest, GetMyWellbeing
<1>4. ASSUME NEW i \in DOMAIN alerts, AlertStep(i) PROVE UNCHANGED handoff
    BY <1>4 DEF AlertStep, AcknowledgeSosAlert, LogSosFollowUp
<1>5. ASSUME \/ ReleaseWaitingCases \/ PassCommits \/ DailyCommits
             \/ WorkdayStarts \/ Tick \/ Restart \/ UNCHANGED tables
      PROVE  UNCHANGED handoff
    BY <1>5 DEF ReleaseWaitingCases, PassCommits, DailyCommits, WorkdayStarts, Tick,
                Restart, tables
<1> QED
    BY <1>1, <1>2, <1>3, <1>4, <1>5, StepKinds DEF HandlerStep, Handler

\* Closing, reopening and resolving a case again never change what its
\* customer was sent.
THEOREM HandoffFinal == Spec => HandoffIsFinal
<1>1. ASSUME TypeOK, [Next]_vars, NEW c \in Cases, handoff[c] # NULL
      PROVE  handoff'[c] = handoff[c]
  <2>1. CASE UNCHANGED handoff
      BY <2>1
  <2>2. CASE \E d \in Cases, o \in Outcomes : HandOff(d, o)
      BY <1>1, <2>2 DEF HandOff, TypeOK
  <2> QED
      BY <1>1, <2>1, <2>2, HandoffMoves DEF vars
<1>2. TypeOK /\ [Next]_vars =>
         [\A c \in Cases : handoff[c] # NULL => handoff'[c] = handoff[c]]_vars
    BY <1>1
<1> QED
    BY <1>2, TypeCorrect, PTL DEF Spec, HandoffIsFinal

(***************************************************************************)
(* Wellbeing: what the steps do to the Auditors' rows, and what follows.   *)
(***************************************************************************)
InSos(row) == row.trigger = "SOS" /\ ~row.check_in_done
Held(row)  == row.trigger \in {"S4", "SOS"} /\ ~row.check_in_done

\* One allowance, no SOS out of nowhere, no hold that just ends.
ResetOnce(row, new) ==
    row.exposure > 0 /\ new.exposure = 0 => row.reset_due /\ ~new.reset_due
NoNewSos(row, new) == InSos(new) => InSos(row)
KeepsHold(row, new) == Held(row) => Held(new)

Quiet(row, new) == ResetOnce(row, new) /\ NoNewSos(row, new) /\ KeepsHold(row, new)

(***************************************************************************)
(* Rows.                                                                   *)
(***************************************************************************)
LEMMA QuietColumns ==
    ASSUME NEW row \in AuditorRow
    PROVE  /\ Quiet(row, row)
           /\ Quiet(row, [row EXCEPT !.reset_due = TRUE])
           /\ \A x \in Nat : Quiet(row, [row EXCEPT !.limit = x])
           /\ \A x \in Nat : Quiet(row, [row EXCEPT !.cooldown = x])
           /\ \A x \in Nat \ {0} : Quiet(row, [row EXCEPT !.exposure = x])
<1> USE DEF Quiet, ResetOnce, NoNewSos, KeepsHold, InSos, Held, AuditorRow
<1>1. Quiet(row, row)
    OBVIOUS
<1>2. Quiet(row, [row EXCEPT !.reset_due = TRUE])
    OBVIOUS
<1>3. \A x \in Nat : Quiet(row, [row EXCEPT !.limit = x])
    OBVIOUS
<1>4. \A x \in Nat : Quiet(row, [row EXCEPT !.cooldown = x])
    OBVIOUS
<1>5. \A x \in Nat \ {0} : Quiet(row, [row EXCEPT !.exposure = x])
    OBVIOUS
<1> HIDE DEF Quiet
<1> QED
    BY <1>1, <1>2, <1>3, <1>4, <1>5

LEMMA QuietReset ==
    ASSUME NEW row \in AuditorRow
    PROVE  Quiet(row, ResetDaily(row)) /\ ResetDaily(ResetDaily(row)) = ResetDaily(row)
  BY DEF Quiet, ResetOnce, NoNewSos, KeepsHold, InSos, Held, AuditorRow, ResetDaily

LEMMA PositiveLimit ==
    ASSUME NEW row \in AuditorRow PROVE EffectiveLimit(row) \in Nat \ {0}
  BY RulesAssumption DEF EffectiveLimit, AuditorRow

LEMMA CooldownRow ==
    ASSUME NEW row \in AuditorRow, NEW tier
    PROVE  ResetOnce(row, CooldownAfter(row, tier)) /\ NoNewSos(row, CooldownAfter(row, tier))
  BY DEF ResetOnce, NoNewSos, InSos, AuditorRow, CooldownAfter

LEMMA CheckedInRow ==
    ASSUME NEW row \in AuditorRow
    PROVE  /\ ResetOnce(row, [row EXCEPT !.check_in_done = TRUE])
           /\ ~InSos([row EXCEPT !.check_in_done = TRUE])
  BY DEF ResetOnce, InSos, AuditorRow

LEMMA SosRow ==
    ASSUME NEW row \in AuditorRow
    PROVE  ResetOnce(row, SosCooldown(row)) /\ KeepsHold(row, SosCooldown(row))
  BY DEF ResetOnce, KeepsHold, Held, AuditorRow, SosCooldown

\* Applying the daily reset to some of the rows, once or twice, is quiet.
LEMMA QuietResetFor ==
    ASSUME NEW as \in [Auditors -> AuditorRow], NEW S, NEW T, NEW a \in Auditors
    PROVE  /\ Quiet(as[a], ResetFor(as, S)[a])
           /\ Quiet(as[a], ResetFor(ResetFor(as, S), T)[a])
<1> DEFINE row == as[a]
<1>1. row \in AuditorRow
    OBVIOUS
<1>2. /\ ResetFor(as, S)[a] \in {row, ResetDaily(row)}
      /\ ResetFor(ResetFor(as, S), T)[a]
            \in {row, ResetDaily(row), ResetDaily(ResetDaily(row))}
    BY DEF ResetFor
<1> HIDE DEF row
<1>3. /\ Quiet(row, ResetFor(as, S)[a])
      /\ Quiet(row, ResetFor(ResetFor(as, S), T)[a])
    BY <1>1, <1>2, QuietReset, QuietColumns
<1> QED
    BY <1>3 DEF row
(***************************************************************************)
(* Steps: all of them are quiet but the Auditor's own review, the SOS and  *)
(* the Manager's two logs.                                                 *)
(***************************************************************************)
LEMMA CaseStepQuiet ==
    ASSUME TypeOK, NEW c \in Cases, CaseStep(c), NEW a \in Auditors
    PROVE  Quiet(auditors[a], auditors'[a]) /\ UNCHANGED alerts
<1>1. auditors \in [Auditors -> AuditorRow]
    BY DEF TypeOK
<1>2. CASE CreateReport(c)
    BY <1>1, <1>2, QuietResetFor DEF CreateReport
<1>3. CASE WithdrawRelease(c)
  <2> DEFINE parked == [cases EXCEPT ![c].visibility = "SUPER_ADMIN_ONLY"]
  <2>1. parked \in [Cases -> CaseRow]
      BY CaseRowColumns DEF Visibilities, TypeOK
  <2>2. PICK r \in ReleasedRows(parked, auditors, turn, QueuedNow(queued, c), OnBreak) :
            auditors' = r.auditors
      BY <1>3 DEF WithdrawRelease
  <2> HIDE DEF parked
  <2>3. auditors' = auditors \/ auditors' = ResetFor(auditors, Standard \ OnBreak)
      BY <2>1, <2>2, ReleasedRow
  <2>4. Quiet(auditors[a], auditors'[a])
      BY <1>1, <2>3, QuietResetFor, QuietColumns
  <2> QED
      BY <1>3, <2>4 DEF WithdrawRelease
<1>4. CASE UNCHANGED <<auditors, alerts>>
    BY <1>1, <1>4, QuietColumns
<1> QED
    BY <1>2, <1>3, <1>4
    DEF CaseStep, AnalysisStep, AnalysisLoad, AnalysisRefused, AnalysisStartRun,
        AnalysisFinish, AnalysisRaises, InsertMockAiResult, MakeAvailable,
        CloseWithoutReassignment

LEMMA ReviewStepQuiet ==
    ASSUME TypeOK, NEW b \in Auditors, NEW c \in Cases, ReviewStep(b, c), NEW a \in Auditors
    PROVE  \/ Quiet(auditors[a], auditors'[a]) /\ UNCHANGED alerts
           \/ ResolveCase(a, c) /\ UNCHANGED alerts
           \/ TriggerSos(a, c)
           \/ TriggerSos(b, c) /\ b # a
<1>1. auditors \in [Auditors -> AuditorRow] /\ auditors[a] \in AuditorRow
    BY DEF TypeOK
<1>2. CASE ResolveCase(b, c)
    BY <1>1, <1>2, QuietColumns DEF ResolveCase
<1>3. CASE RecordExposure(b, c)
  <2>1. auditors[b].exposure + 1 \in Nat \ {0}
      BY <1>1 DEF AuditorRow
  <2> QED
      BY <1>1, <1>3, <2>1, QuietColumns DEF RecordExposure
<1>4. CASE TriggerSos(b, c)
    BY <1>4
<1>5. CASE TakeCase(b, c) \/ ClaimCase(b, c)
    BY <1>1, <1>5, QuietReset, QuietColumns DEF TakeCase, ClaimCase
<1>6. CASE UNCHANGED <<auditors, alerts>>
    BY <1>1, <1>6, QuietColumns
<1> QED
    BY <1>2, <1>3, <1>4, <1>5, <1>6
    DEF ReviewStep, AcknowledgeContentWarning, DeclineCase, ReleaseCaseAtLimit, ReassignCase

LEMMA AuditorStepQuiet ==
    ASSUME TypeOK, NEW b \in Auditors, AuditorStep(b), NEW a \in Auditors
    PROVE  /\ Quiet(auditors[a], auditors'[a]) \/ LogCheckIn(a)
           /\ UNCHANGED alerts
<1>1. auditors \in [Auditors -> AuditorRow] /\ auditors[a] \in AuditorRow
    BY DEF TypeOK
<1>2. CASE StopShift(b)
    BY <1>1, <1>2, PositiveLimit, QuietColumns DEF StopShift
<1>3. CASE ListAvailableCases(b)
  <2>1. PICK r \in ReleasedRows(cases, auditors, turn, queued, OnBreak) :
            auditors' = ResetFor(r.auditors, {b})
      BY <1>3 DEF ListAvailableCases
  <2>2. cases \in [Cases -> CaseRow]
      BY DEF TypeOK
  <2>3. r.auditors = auditors \/ r.auditors = ResetFor(auditors, Standard \ OnBreak)
      BY <2>1, <2>2, ReleasedRow
  <2>4. Quiet(auditors[a], auditors'[a])
      BY <1>1, <2>1, <2>3, QuietResetFor
  <2> QED
      BY <1>3, <2>4 DEF ListAvailableCases
<1>4. CASE \E m \in Limits : SetExposureLimit(b, m)
  <2>1. PICK m \in Nat : SetExposureLimit(b, m)
      BY <1>4, ModerationAssumption
  <2> QED
      BY <1>1, <2>1, QuietColumns DEF SetExposureLimit
<1>5. CASE LogCheckIn(b)
    BY <1>1, <1>5, QuietColumns DEF LogCheckIn
<1>6. CASE GetMyWellbeing(b)
    BY <1>1, <1>6, QuietResetFor DEF GetMyWellbeing
<1>7. CASE UNCHANGED <<auditors, alerts>>
    BY <1>1, <1>7, QuietColumns
<1> QED
    BY <1>2, <1>3, <1>4, <1>5, <1>6, <1>7
    DEF AuditorStep, ReleaseAllCasesAtLimit, RequestBreak, WithdrawBreakRequest,
        ApproveBreakRequest

LEMMA SystemStepQuiet ==
    ASSUME TypeOK, NEW a \in Auditors,
           ReleaseWaitingCases \/ WorkdayStarts \/ Tick \/ Restart
    PROVE  Quiet(auditors[a], auditors'[a]) /\ UNCHANGED alerts
<1>1. auditors \in [Auditors -> AuditorRow] /\ auditors[a] \in AuditorRow
    BY DEF TypeOK
<1>2. CASE ReleaseWaitingCases
  <2>1. PICK r \in ReleasedRows(cases, auditors, turn, queued, OnBreak) :
            auditors' = r.auditors
      BY <1>2 DEF ReleaseWaitingCases
  <2>2. cases \in [Cases -> CaseRow]
      BY DEF TypeOK
  <2>3. auditors' = auditors \/ auditors' = ResetFor(auditors, Standard \ OnBreak)
      BY <2>1, <2>2, ReleasedRow
  <2>4. Quiet(auditors[a], auditors'[a])
      BY <1>1, <2>3, QuietResetFor, QuietColumns
  <2> QED
      BY <1>2, <2>4 DEF ReleaseWaitingCases
<1>4. CASE WorkdayStarts
    BY <1>1, <1>4, QuietColumns DEF WorkdayStarts
<1>5. CASE Tick
  <2>1. Less(auditors[a].cooldown) \in Nat
      BY <1>1, LessType DEF AuditorRow
  <2>2. auditors'[a] = [auditors[a] EXCEPT !.cooldown = Less(auditors[a].cooldown)]
      BY <1>5 DEF Tick
  <2>3. Quiet(auditors[a], auditors'[a])
      BY <1>1, <2>1, <2>2, QuietColumns
  <2> QED
      BY <1>5, <2>3 DEF Tick
<1>6. CASE Restart
    BY <1>1, <1>6, QuietColumns DEF Restart
<1> QED
    BY <1>2, <1>4, <1>5, <1>6

\* A job's commit changes only the two reset columns; whose exposure it
\* zeroes was due, or has been changed by somebody since the job read.
LEMMA JobCommitQuiet ==
    ASSUME TypeOK, PassInv, DailyInv, NEW a \in Auditors, PassCommits \/ DailyCommits
    PROVE  /\ NoNewSos(auditors[a], auditors'[a]) /\ KeepsHold(auditors[a], auditors'[a])
           /\ UNCHANGED alerts
           /\ \/ ResetOnce(auditors[a], auditors'[a])
              \/ PassCommits /\ a \in pass.zeroed \cap pass.missed
              \/ DailyCommits /\ a \in daily.zeroed \cap daily.missed
<1>1. auditors[a] \in AuditorRow
    BY DEF TypeOK
<1>2. ASSUME NEW job, auditors' = ResetBy(job)
      PROVE  /\ NoNewSos(auditors[a], auditors'[a]) /\ KeepsHold(auditors[a], auditors'[a])
             /\ \/ ResetOnce(auditors[a], auditors'[a])
                \/ a \in job.zeroed /\ ~(auditors[a].reset_due /\ a \in job.stamped)
  <2> DEFINE x == IF a \in job.zeroed THEN 0 ELSE auditors[a].exposure
             d == IF a \in job.stamped THEN FALSE
                  ELSE a \in job.late \/ auditors[a].reset_due
  <2>1. auditors'[a] = [auditors[a] EXCEPT !.exposure = x, !.reset_due = d]
      BY <1>2 DEF ResetBy
  <2>2. /\ a \notin job.zeroed => x = auditors[a].exposure
        /\ a \in job.stamped => d = FALSE
      OBVIOUS
  <2> HIDE DEF x, d
  <2>3. /\ auditors'[a].trigger = auditors[a].trigger
        /\ auditors'[a].check_in_done = auditors[a].check_in_done
        /\ auditors'[a].exposure = x /\ auditors'[a].reset_due = d
      BY <1>1, <2>1 DEF AuditorRow
  <2>4. NoNewSos(auditors[a], auditors'[a]) /\ KeepsHold(auditors[a], auditors'[a])
      BY <2>3 DEF NoNewSos, KeepsHold, InSos, Held
  <2>5. CASE a \notin job.zeroed
      BY <2>2, <2>3, <2>4, <2>5, <1>1 DEF ResetOnce, AuditorRow
  <2>6. CASE auditors[a].reset_due /\ a \in job.stamped
      BY <2>2, <2>3, <2>4, <2>6 DEF ResetOnce
  <2> QED
      BY <2>4, <2>5, <2>6
<1>3. CASE PassCommits
  <2>1. auditors' = ResetBy(pass) /\ UNCHANGED alerts /\ HasRead
      BY <1>3 DEF PassCommits, HasRead
  <2>2. a \in pass.zeroed \ pass.missed => auditors[a].reset_due /\ a \in pass.stamped
      BY <2>1 DEF PassInv, ReadRight, TypeOK, Pass
  <2> QED
      BY <1>2, <1>3, <2>1, <2>2
<1>4. CASE DailyCommits
  <2>1. auditors' = ResetBy(daily) /\ UNCHANGED alerts
      BY <1>4 DEF DailyCommits
  <2>2. a \in daily.zeroed \ daily.missed => auditors[a].reset_due /\ a \in daily.stamped
      BY DEF DailyInv
  <2> QED
      BY <1>2, <1>4, <2>1, <2>2
<1> QED
    BY <1>3, <1>4

\* Everything that can happen to the row of an Auditor in a step.
LEMMA RowMoves ==
    ASSUME TypeOK, Next, NEW a \in Auditors
    PROVE  \/ Quiet(auditors[a], auditors'[a]) /\ UNCHANGED alerts
           \/ PassCommits \/ DailyCommits
           \/ LogCheckIn(a)
           \/ \E c \in Cases : ResolveCase(a, c) /\ UNCHANGED alerts
           \/ \E b \in Auditors, c \in Cases : TriggerSos(b, c)
           \/ \E i \in DOMAIN alerts : AlertStep(i)
<1>1. ASSUME NEW c \in Cases, CaseStep(c)
      PROVE  Quiet(auditors[a], auditors'[a]) /\ UNCHANGED alerts
    BY <1>1, CaseStepQuiet
<1>2. ASSUME NEW b \in Auditors, NEW c \in Cases, ReviewStep(b, c)
      PROVE  \/ Quiet(auditors[a], auditors'[a]) /\ UNCHANGED alerts
             \/ ResolveCase(a, c) /\ UNCHANGED alerts
             \/ TriggerSos(a, c)
             \/ TriggerSos(b, c)
    BY <1>2, ReviewStepQuiet
<1>3. ASSUME NEW b \in Auditors, AuditorStep(b)
      PROVE  \/ Quiet(auditors[a], auditors'[a]) /\ UNCHANGED alerts
             \/ LogCheckIn(a)
    BY <1>3, AuditorStepQuiet
<1>4. ASSUME ReleaseWaitingCases \/ WorkdayStarts \/ Tick \/ Restart
      PROVE  Quiet(auditors[a], auditors'[a]) /\ UNCHANGED alerts
    BY <1>4, SystemStepQuiet
<1>5. ASSUME UNCHANGED tables
      PROVE  Quiet(auditors[a], auditors'[a]) /\ UNCHANGED alerts
    BY <1>5, QuietColumns DEF tables, TypeOK
<1> QED
    BY <1>1, <1>2, <1>3, <1>4, <1>5, StepKinds DEF HandlerStep, Handler

(***************************************************************************)
(* What the steps that are not quiet do to a row.                          *)
(***************************************************************************)
LEMMA LogCheckInRow ==
    ASSUME TypeOK, NEW a \in Auditors, LogCheckIn(a)
    PROVE  /\ ResetOnce(auditors[a], auditors'[a])
           /\ ~InSos(auditors'[a])
           /\ UNCHANGED alerts
  BY CheckedInRow DEF LogCheckIn, TypeOK

LEMMA ResolveRow ==
    ASSUME TypeOK, NEW a \in Auditors, NEW c \in Cases, ResolveCase(a, c)
    PROVE  /\ ResetOnce(auditors[a], auditors'[a])
           /\ NoNewSos(auditors[a], auditors'[a])
  BY CooldownRow DEF ResolveCase, TypeOK

LEMMA TriggerSosRow ==
    ASSUME TypeOK, NEW a \in Auditors, NEW b \in Auditors, NEW c \in Cases, TriggerSos(b, c)
    PROVE  /\ ResetOnce(auditors[a], auditors'[a])
           /\ KeepsHold(auditors[a], auditors'[a])
           /\ a # b => NoNewSos(auditors[a], auditors'[a])
<1>1. auditors \in [Auditors -> AuditorRow] /\ auditors[a] \in AuditorRow
    BY DEF TypeOK
<1>2. CASE a = b
    BY <1>1, <1>2, SosRow DEF TriggerSos
<1>3. CASE a # b
  <2>1. Quiet(auditors[a], auditors'[a])
      BY <1>1, <1>3, QuietColumns DEF TriggerSos
  <2> QED
      BY <1>3, <2>1 DEF Quiet
<1> QED
    BY <1>2, <1>3

LEMMA AlertRow ==
    ASSUME TypeOK, NEW a \in Auditors, NEW i \in DOMAIN alerts, AlertStep(i)
    PROVE  /\ ResetOnce(auditors[a], auditors'[a])
           /\ NoNewSos(auditors[a], auditors'[a])
           /\ \/ KeepsHold(auditors[a], auditors'[a])
              \/ alerts[i].actor = a /\ LogSosFollowUp(i)
           /\ LogSosFollowUp(i) /\ alerts[i].actor = a => ~InSos(auditors'[a])
<1>1. auditors \in [Auditors -> AuditorRow] /\ auditors[a] \in AuditorRow
    BY DEF TypeOK
<1>2. CASE LogSosFollowUp(i) /\ alerts[i].actor = a
  <2>1. auditors'[a] = [auditors[a] EXCEPT !.check_in_done = TRUE]
      BY <1>1, <1>2 DEF LogSosFollowUp
  <2> QED
      BY <1>1, <1>2, <2>1, CheckedInRow DEF NoNewSos
<1>3. CASE auditors'[a] = auditors[a] /\ ~(LogSosFollowUp(i) /\ alerts[i].actor = a)
  <2>1. Quiet(auditors[a], auditors'[a])
      BY <1>1, <1>3, QuietColumns
  <2> QED
      BY <1>3, <2>1 DEF Quiet
<1> QED
    BY <1>1, <1>2, <1>3 DEF AlertStep, AcknowledgeSosAlert, LogSosFollowUp

(***************************************************************************)
(* The action properties, from type correctness.                           *)
(***************************************************************************)
\* One allowance per workday: no handler, job or timer gives the exposure back
\* but a reset that was due, and it is due once. A job's commit does it again
\* only to a row somebody has changed since the job read it.
THEOREM ResetsOncePerWorkday == Spec => OneResetPerWorkday
<1>1. ASSUME TypeOK, PassInv, DailyInv, [Next]_vars, NEW a \in Auditors
      PROVE  \/ ResetOnce(auditors[a], auditors'[a])
             \/ PassCommits /\ a \in pass.zeroed \cap pass.missed
             \/ DailyCommits /\ a \in daily.zeroed \cap daily.missed
  <2>1. CASE Next
    <3>1. CASE Quiet(auditors[a], auditors'[a])
        BY <3>1 DEF Quiet
    <3>2. CASE PassCommits \/ DailyCommits
        BY <1>1, <3>2, JobCommitQuiet
    <3>3. CASE LogCheckIn(a)
        BY <1>1, <3>3, LogCheckInRow
    <3>4. CASE \E c \in Cases : ResolveCase(a, c)
        BY <1>1, <3>4, ResolveRow
    <3>5. CASE \E b \in Auditors, c \in Cases : TriggerSos(b, c)
        BY <1>1, <3>5, TriggerSosRow
    <3>6. CASE \E i \in DOMAIN alerts : AlertStep(i)
        BY <1>1, <3>6, AlertRow
    <3> QED
        BY <1>1, <2>1, <3>1, <3>2, <3>3, <3>4, <3>5, <3>6, RowMoves
  <2>2. CASE UNCHANGED vars
      BY <2>2 DEF vars, ResetOnce
  <2> QED
      BY <1>1, <2>1, <2>2
<1>2. TypeOK /\ PassInv /\ DailyInv /\ [Next]_vars =>
         [\A a \in Auditors :
            auditors[a].exposure > 0 /\ auditors'[a].exposure = 0
               => \/ auditors[a].reset_due /\ ~auditors'[a].reset_due
                  \/ PassCommits /\ a \in pass.zeroed \cap pass.missed
                  \/ DailyCommits /\ a \in daily.zeroed \cap daily.missed]_vars
    BY <1>1 DEF ResetOnce
<1> QED
    BY <1>2, TypeCorrect, JobsInvHolds, PTL DEF Spec, OneResetPerWorkday

\* An S4 or SOS hold ends by a Manager's log or by the Auditor's own review,
\* and by nothing else.
THEOREM HoldEnds == Spec => HoldEndsByManagerOrReview
<1>1. ASSUME TypeOK, PassInv, DailyInv, [Next]_vars, NEW a \in Auditors
      PROVE  \/ KeepsHold(auditors[a], auditors'[a])
             \/ LogCheckIn(a)
             \/ \E i \in DOMAIN alerts : alerts[i].actor = a /\ LogSosFollowUp(i)
             \/ \E c \in Cases : ResolveCase(a, c)
  <2>1. CASE Next
      BY <1>1, <2>1, RowMoves, JobCommitQuiet, TriggerSosRow, AlertRow DEF Quiet
  <2>2. CASE UNCHANGED vars
      BY <2>2 DEF vars, KeepsHold
  <2> QED
      BY <1>1, <2>1, <2>2
<1>2. TypeOK /\ PassInv /\ DailyInv /\ [Next]_vars =>
         [\A a \in Auditors :
            (auditors[a].trigger \in {"S4", "SOS"} /\ ~auditors[a].check_in_done)
            /\ (auditors'[a].trigger \notin {"S4", "SOS"} \/ auditors'[a].check_in_done)
               => \/ LogCheckIn(a)
                  \/ \E i \in DOMAIN alerts : alerts[i].actor = a /\ LogSosFollowUp(i)
                  \/ \E c \in Cases : ResolveCase(a, c)]_vars
    BY <1>1 DEF KeepsHold, Held
<1> QED
    BY <1>2, TypeCorrect, JobsInvHolds, PTL DEF Spec, HoldEndsByManagerOrReview

(***************************************************************************)
(* PendingSosHasAlert is inductive once the rows have their types.         *)
(***************************************************************************)
OpenAlert(a) == \E i \in DOMAIN alerts : /\ alerts[i].actor = a
                                         /\ alerts[i].status # "RESOLVED"

LEMMA RaisedAlert ==
    ASSUME TypeOK, NEW a \in Auditors, NEW b \in Auditors, NEW c \in Cases, TriggerSos(b, c)
    PROVE  (OpenAlert(a) \/ a = b) => OpenAlert(a)'
<1> DEFINE new == [actor |-> b, status |-> "UNACKNOWLEDGED"]
<1>1. alerts \in Seq(Alert) /\ alerts' = Append(alerts, new) /\ new \in Alert
    BY DEF TypeOK, TriggerSos, Alert, AlertStatuses
<1>2. /\ DOMAIN alerts' = 1..(Len(alerts) + 1)
      /\ DOMAIN alerts = 1..Len(alerts)
      /\ \A i \in DOMAIN alerts : alerts'[i] = alerts[i]
      /\ alerts'[Len(alerts) + 1] = new
    BY <1>1
<1>3. CASE a = b
  <2>1. Len(alerts) + 1 \in DOMAIN alerts'
      BY <1>1, <1>2
  <2> QED
      BY <1>2, <1>3, <2>1 DEF OpenAlert
<1>4. CASE OpenAlert(a)
  <2>1. PICK i \in DOMAIN alerts : alerts[i].actor = a /\ alerts[i].status # "RESOLVED"
      BY <1>4 DEF OpenAlert
  <2>2. i \in DOMAIN alerts'
      BY <1>1, <1>2
  <2> QED
      BY <1>2, <2>1, <2>2 DEF OpenAlert
<1> QED
    BY <1>3, <1>4

LEMMA WorkedAlert ==
    ASSUME TypeOK, NEW a \in Auditors, NEW j \in DOMAIN alerts, AlertStep(j),
           OpenAlert(a), ~(LogSosFollowUp(j) /\ alerts[j].actor = a)
    PROVE  OpenAlert(a)'
<1>1. PICK i \in DOMAIN alerts : alerts[i].actor = a /\ alerts[i].status # "RESOLVED"
    BY DEF OpenAlert
<1>2. alerts \in Seq(Alert) /\ alerts[i] \in Alert
    BY DEF TypeOK
<1>3. PICK s \in {"IN_PROGRESS", "RESOLVED"} :
          /\ alerts' = [alerts EXCEPT ![j].status = s]
          /\ s = "RESOLVED" => LogSosFollowUp(j)
    BY DEF AlertStep, AcknowledgeSosAlert, LogSosFollowUp
<1>4. /\ DOMAIN alerts' = DOMAIN alerts
      /\ alerts'[i].actor = a
      /\ i # j => alerts'[i] = alerts[i]
      /\ i = j => alerts'[i].status = s
    BY <1>1, <1>2, <1>3 DEF Alert
<1>5. alerts'[i].status # "RESOLVED"
    BY <1>1, <1>3, <1>4
<1> QED
    BY <1>4, <1>5 DEF OpenAlert

\* Nobody is stuck in an SOS: while an Auditor's check-in is pending there is
\* an alert whose follow-up will log it.
THEOREM SosHasAlert == Spec => []PendingSosHasAlert
<1>1. PendingSosHasAlert <=> \A a \in Auditors : InSos(auditors[a]) => OpenAlert(a)
    BY DEF PendingSosHasAlert, InSos, OpenAlert
<1>2. Init => PendingSosHasAlert
    BY RulesAssumption DEF Init, PendingSosHasAlert, NewAuditor
<1>3. TypeOK /\ PassInv /\ DailyInv /\ PendingSosHasAlert /\ [Next]_vars => PendingSosHasAlert'
  <2> SUFFICES ASSUME TypeOK, PassInv, DailyInv, PendingSosHasAlert, [Next]_vars,
                      NEW a \in Auditors, InSos(auditors'[a])
               PROVE  OpenAlert(a)'
      BY DEF PendingSosHasAlert, InSos, OpenAlert
  <2>1. CASE UNCHANGED vars
      BY <1>1, <2>1 DEF vars, OpenAlert
  <2>2. CASE Quiet(auditors[a], auditors'[a]) /\ UNCHANGED alerts
      BY <1>1, <2>2 DEF Quiet, NoNewSos, OpenAlert
  <2>3. CASE LogCheckIn(a)
      BY <2>3, LogCheckInRow
  <2>4. CASE \E c \in Cases : ResolveCase(a, c) /\ UNCHANGED alerts
      BY <1>1, <2>4, ResolveRow DEF NoNewSos, OpenAlert
  <2>5. CASE \E b \in Auditors, c \in Cases : TriggerSos(b, c)
      BY <1>1, <2>5, TriggerSosRow, RaisedAlert DEF NoNewSos
  <2>6. CASE \E i \in DOMAIN alerts : AlertStep(i)
      BY <1>1, <2>6, AlertRow, WorkedAlert DEF NoNewSos
  <2>7. CASE PassCommits \/ DailyCommits
      BY <1>1, <2>7, JobCommitQuiet DEF NoNewSos, OpenAlert
  <2> QED
      BY <2>1, <2>2, <2>3, <2>4, <2>5, <2>6, <2>7, RowMoves
<1> QED
    BY <1>2, <1>3, TypeCorrect, JobsInvHolds, PTL DEF Spec

(***************************************************************************)
(* NewOwnerIsFit, from type correctness. Five kinds of step give a case to *)
(* somebody; each asks its own question about the Auditor, some of rows on *)
(* which the daily reset has been applied, and each question is enough.    *)
(***************************************************************************)
\* An Auditor with this row now, and the row "old" before, can do the work.
FitRow(row, old) == row.cooldown = 0 /\ row.exposure < EffectiveLimit(old)

Fit(a) == FitRow(auditors'[a], auditors[a]) /\ breaks[a].left = 0

NewOwner(d, a) == cases'[d].auditor = a /\ cases[d].auditor # a

(***************************************************************************)
(* Rows.                                                                   *)
(***************************************************************************)
LEMMA RestedRow ==
    ASSUME NEW row \in AuditorRow, ~AtLimit(row), ~InCooldown(row)
    PROVE  FitRow(row, row)
<1>1. row.exposure \in Nat /\ row.cooldown \in Nat /\ EffectiveLimit(row) \in Nat
    BY EffectiveLimitType DEF AuditorRow
<1> QED
    BY <1>1 DEF FitRow, AtLimit, InCooldown

\* The reset changes neither the limit nor the cooldown, and no limit is 0.
LEMMA ResetRow ==
    ASSUME NEW row \in AuditorRow
    PROVE  /\ EffectiveLimit(ResetDaily(row)) = EffectiveLimit(row)
           /\ \A old \in AuditorRow : FitRow(row, old) => FitRow(ResetDaily(row), old)
<1>1. EffectiveLimit(ResetDaily(row)) = EffectiveLimit(row)
    BY DEF ResetDaily, EffectiveLimit, AuditorRow
<1>2. ASSUME NEW old \in AuditorRow, FitRow(row, old) PROVE FitRow(ResetDaily(row), old)
  <2>1. EffectiveLimit(old) > 0
      BY RulesAssumption DEF EffectiveLimit, AuditorRow
  <2>2. /\ ResetDaily(row).cooldown = row.cooldown
        /\ ResetDaily(row).exposure \in {0, row.exposure}
      BY DEF ResetDaily, AuditorRow
  <2> QED
      BY <1>2, <2>1, <2>2 DEF FitRow
<1> QED
    BY <1>1, <1>2

LEMMA FreeOfBreak ==
    ASSUME TypeOK, NEW a \in Auditors, a \notin OnBreak PROVE breaks[a].left = 0
  BY DEF OnBreak, TypeOK, BreakRow

\* Whoever the weighted rule may choose is fit, also by the row before the reset.
LEMMA CandidateFit ==
    ASSUME TypeOK, NEW rows, NEW S, rows = auditors \/ rows = ResetFor(auditors, S),
           NEW a \in AssignmentCandidates(rows, OnBreak)
    PROVE  /\ a \in Auditors
           /\ FitRow(rows[a], auditors[a])
           /\ breaks[a].left = 0
<1>1. a \in Auditors /\ a \notin OnBreak
    BY DEF AssignmentCandidates, Auditors
<1>2. auditors \in [Auditors -> AuditorRow] /\ auditors[a] \in AuditorRow
    BY <1>1 DEF TypeOK
<1>3. rows[a] = auditors[a] \/ rows[a] = ResetDaily(auditors[a])
    BY <1>1, <1>2 DEF ResetFor
<1>4. rows[a] \in AuditorRow /\ EffectiveLimit(rows[a]) = EffectiveLimit(auditors[a])
    BY <1>2, <1>3, ResetRow, ResetDailyType
<1>5. FitRow(rows[a], rows[a])
    BY <1>4, RestedRow DEF AssignmentCandidates
<1> QED
    BY <1>1, <1>4, <1>5, FreeOfBreak DEF FitRow

(***************************************************************************)
(* A pass of the automatic release gives cases to candidates only.         *)
(***************************************************************************)
LEMMA ReleasedFit ==
    ASSUME TypeOK, NEW cs \in [Cases -> CaseRow], NEW q,
           NEW r \in ReleasedRows(cs, auditors, turn, q, OnBreak),
           NEW d \in Cases, NEW a, r.cases[d].auditor = a, cs[d].auditor # a
    PROVE  /\ a \in Auditors
           /\ FitRow(r.auditors[a], auditors[a])
           /\ breaks[a].left = 0
<1> DEFINE waiting    == Waiting(cs, q)
           rows       == IF waiting = {} THEN auditors
                         ELSE ResetFor(auditors, Standard \ OnBreak)
           candidates == {b \in AssignmentCandidates(rows, OnBreak) : ~HasOpenSos(cs, b)}
           placed     == IF candidates = {} THEN {} ELSE waiting
           casesOf(p) == [c \in Cases |-> IF c \in placed
                                          THEN Assigned(cs[c], p[c]) ELSE cs[c]]
           turnOf(p)  == TurnAfter(turn, [b \in Auditors |-> LastGiven(p, q, placed, b)])
<1>1. PICK p \in [placed -> candidates] :
          r = [cases |-> casesOf(p), auditors |-> rows, turn |-> turnOf(p)]
    BY DEF ReleasedRows
<1>2. rows = auditors \/ rows = ResetFor(auditors, Standard \ OnBreak)
    OBVIOUS
<1>3. candidates \subseteq AssignmentCandidates(rows, OnBreak)
    OBVIOUS
<1> HIDE DEF rows, candidates, placed, turnOf
<1>4. r.auditors = rows /\ r.cases[d] = casesOf(p)[d]
    BY <1>1
<1>5. d \in placed
    BY <1>4
<1>6. r.cases[d] = Assigned(cs[d], p[d])
    BY <1>4, <1>5
<1>7. Assigned(cs[d], p[d]).auditor = p[d]
    BY DEF Assigned, CaseRow
<1>8. a \in AssignmentCandidates(rows, OnBreak)
    BY <1>1, <1>3, <1>5, <1>6, <1>7
<1> QED
    BY <1>2, <1>4, <1>8, CandidateFit

(***************************************************************************)
(* Steps.                                                                  *)
(***************************************************************************)
LEMMA CaseStepFit ==
    ASSUME TypeOK, NEW c \in Cases, CaseStep(c),
           NEW d \in Cases, NEW a \in Auditors, NewOwner(d, a)
    PROVE  Fit(a)
<1>1. cases \in [Cases -> CaseRow] /\ a # NULL
    BY NullIsNobody DEF TypeOK
<1>2. CASE CreateReport(c)
  <2> DEFINE rows == ResetFor(auditors, Standard \ OnBreak)
  <2>1. auditors' = rows
      BY <1>2 DEF CreateReport
  <2>2. \/ \E b \in PickBest(cases, rows, turn, AssignmentCandidates(rows, OnBreak)) :
              cases' = [cases EXCEPT ![c].status = "AI_PROCESSING", ![c].auditor = b]
        \/ cases' = [cases EXCEPT ![c].status = "AI_PROCESSING",
                                  ![c].visibility = "SUPER_ADMIN_ONLY"]
      BY <1>2 DEF CreateReport
  <2>3. rows = ResetFor(auditors, Standard \ OnBreak)
      OBVIOUS
  <2> HIDE DEF rows
  <2>4. CASE \E b \in PickBest(cases, rows, turn, AssignmentCandidates(rows, OnBreak)) :
               cases' = [cases EXCEPT ![c].status = "AI_PROCESSING", ![c].auditor = b]
    <3>1. PICK b \in AssignmentCandidates(rows, OnBreak) :
              cases' = [cases EXCEPT ![c].status = "AI_PROCESSING", ![c].auditor = b]
        BY <2>4 DEF PickBest
    <3>2. a = b
        BY <1>1, <3>1 DEF NewOwner, CaseRow
    <3> QED
        BY <2>1, <2>3, <3>1, <3>2, CandidateFit DEF Fit
  <2>5. CASE cases' = [cases EXCEPT ![c].status = "AI_PROCESSING",
                                    ![c].visibility = "SUPER_ADMIN_ONLY"]
      BY <1>1, <2>5 DEF NewOwner, CaseRow
  <2> QED
      BY <2>2, <2>4, <2>5
<1>3. CASE WithdrawRelease(c)
  <2> DEFINE parked == [cases EXCEPT ![c].visibility = "SUPER_ADMIN_ONLY"]
  <2>1. parked \in [Cases -> CaseRow]
      BY <1>1, CaseRowColumns DEF Visibilities
  <2>2. parked[d].auditor = cases[d].auditor
      BY <1>1 DEF CaseRow
  <2>3. PICK r \in ReleasedRows(parked, auditors, turn, QueuedNow(queued, c), OnBreak) :
            cases' = r.cases /\ auditors' = r.auditors
      BY <1>3 DEF WithdrawRelease
  <2> HIDE DEF parked
  <2> QED
      BY <2>1, <2>2, <2>3, ReleasedFit DEF NewOwner, Fit
<1>4. CASE AnalysisLoad(c) \/ AnalysisStartRun(c) \/ MakeAvailable(c)
    BY <1>1, <1>4 DEF NewOwner, CaseRow, AnalysisLoad, AnalysisStartRun, MakeAvailable
<1>5. CASE AnalysisFinish(c)
  <2>1. CASE \E t \in Tiers :
               cases' = [cases EXCEPT ![c].status = "READY_FOR_REVIEW", ![c].tier = t]
      BY <1>1, <2>1 DEF NewOwner, CaseRow
  <2>2. CASE cases' = [cases EXCEPT ![c].status = "READY_FOR_REVIEW",
                                    ![c].ai_failure = "vision"]
      BY <1>1, <2>2 DEF NewOwner, CaseRow
  <2> QED
      BY <1>5, <2>1, <2>2 DEF AnalysisFinish
<1>6. CASE InsertMockAiResult(c)
    BY <1>1, <1>6 DEF NewOwner, CaseRow, InsertMockAiResult
<1>7. CASE CloseWithoutReassignment(c)
    BY <1>1, <1>7 DEF NewOwner, CaseRow, CloseWithoutReassignment
<1>8. CASE UNCHANGED cases
    BY <1>8 DEF NewOwner
<1> QED
    BY <1>2, <1>3, <1>4, <1>5, <1>6, <1>7, <1>8
    DEF CaseStep, AnalysisStep, AnalysisRefused, AnalysisRaises

LEMMA ReviewStepFit ==
    ASSUME TypeOK, NEW b \in Auditors, NEW c \in Cases, ReviewStep(b, c),
           NEW d \in Cases, NEW a \in Auditors, NewOwner(d, a)
    PROVE  Fit(a)
<1>1. /\ cases \in [Cases -> CaseRow] /\ a # NULL
      /\ auditors \in [Auditors -> AuditorRow] /\ auditors[b] \in AuditorRow
    BY NullIsNobody DEF TypeOK
<1>2. CASE TakeCase(b, c) \/ ClaimCase(b, c)
  <2> DEFINE row == ResetDaily(auditors[b])
  <2>1. /\ NoUnavailableReason(cases, row, b, OnBreak)
        /\ auditors' = [auditors EXCEPT ![b] = row]
        /\ cases' = [cases EXCEPT ![c] = Assigned(cases[c], b)]
      BY <1>2 DEF TakeCase, ClaimCase
  <2>2. row \in AuditorRow /\ EffectiveLimit(row) = EffectiveLimit(auditors[b])
      BY <1>1, ResetRow, ResetDailyType
  <2> HIDE DEF row
  <2>3. a = b
      BY <1>1, <2>1 DEF NewOwner, Assigned, CaseRow
  <2>4. FitRow(row, row) /\ b \notin OnBreak
      BY <2>1, <2>2, RestedRow DEF NoUnavailableReason
  <2> QED
      BY <1>1, <2>1, <2>2, <2>3, <2>4, FreeOfBreak DEF Fit, FitRow
<1>3. CASE ReassignCase(c, b)
  <2>1. /\ ~AtLimit(auditors[b]) /\ ~InCooldown(auditors[b]) /\ b \notin OnBreak
        /\ auditors' = auditors
      BY <1>3 DEF ReassignCase, MayBeReassignedTo
  <2>2. a = b
      BY <1>1, <1>3 DEF ReassignCase, NewOwner, CaseRow
  <2> QED
      BY <1>1, <2>1, <2>2, RestedRow, FreeOfBreak DEF Fit
<1>4. CASE AcknowledgeContentWarning(b, c)
    BY <1>1, <1>4 DEF AcknowledgeContentWarning, NewOwner, CaseRow
<1>5. CASE DeclineCase(b, c)
    BY <1>1, <1>5 DEF DeclineCase, NewOwner, CaseRow
<1>6. CASE TriggerSos(b, c)
    BY <1>1, <1>6 DEF TriggerSos, NewOwner, CaseRow
<1>7. CASE ResolveCase(b, c)
    BY <1>1, <1>7 DEF ResolveCase, NewOwner, CaseRow
<1>8. CASE ReleaseCaseAtLimit(b, c)
    BY <1>1, <1>8 DEF ReleaseCaseAtLimit, NewOwner, CaseRow
<1>9. CASE RecordExposure(b, c)
    BY <1>9 DEF RecordExposure, NewOwner
<1> QED
    BY <1>2, <1>3, <1>4, <1>5, <1>6, <1>7, <1>8, <1>9 DEF ReviewStep

LEMMA AuditorStepFit ==
    ASSUME TypeOK, NEW b \in Auditors, AuditorStep(b),
           NEW d \in Cases, NEW a \in Auditors, NewOwner(d, a)
    PROVE  Fit(a)
<1>1. cases \in [Cases -> CaseRow] /\ a # NULL
    BY NullIsNobody DEF TypeOK
<1>2. CASE ListAvailableCases(b)
  <2>1. PICK r \in ReleasedRows(cases, auditors, turn, queued, OnBreak) :
            cases' = r.cases /\ auditors' = ResetFor(r.auditors, {b})
      BY <1>2 DEF ListAvailableCases
  <2>2. FitRow(r.auditors[a], auditors[a]) /\ breaks[a].left = 0
      BY <1>1, <2>1, ReleasedFit DEF NewOwner
  <2>3. r.auditors[a] \in AuditorRow /\ auditors[a] \in AuditorRow
      BY <1>1, <2>1, ReleasedRowsType DEF TypeOK
  <2>4. auditors'[a] = r.auditors[a] \/ auditors'[a] = ResetDaily(r.auditors[a])
      BY <2>1 DEF ResetFor
  <2> QED
      BY <2>2, <2>3, <2>4, ResetRow DEF Fit
<1>3. CASE ReleaseAllCasesAtLimit(b)
    BY <1>1, <1>3 DEF ReleaseAllCasesAtLimit, NewOwner, CaseRow
<1>4. CASE StopShift(b)
    BY <1>1, <1>4 DEF StopShift, NewOwner, CaseRow
<1>5. CASE UNCHANGED cases
    BY <1>5 DEF NewOwner
<1> QED
    BY <1>2, <1>3, <1>4, <1>5
    DEF AuditorStep, SetExposureLimit, LogCheckIn, RequestBreak, WithdrawBreakRequest,
        ApproveBreakRequest, GetMyWellbeing

LEMMA SystemStepFit ==
    ASSUME TypeOK,
           \/ \E i \in DOMAIN alerts : AlertStep(i)
           \/ ReleaseWaitingCases \/ DailyCommits
           \/ WorkdayStarts \/ Tick \/ Restart \/ UNCHANGED tables,
           NEW d \in Cases, NEW a \in Auditors, NewOwner(d, a)
    PROVE  Fit(a)
<1>1. CASE ReleaseWaitingCases
  <2>1. PICK r \in ReleasedRows(cases, auditors, turn, queued, OnBreak) :
            cases' = r.cases /\ auditors' = r.auditors
      BY <1>1 DEF ReleaseWaitingCases
  <2> QED
      BY <2>1, ReleasedFit DEF NewOwner, Fit, TypeOK
<1>2. CASE UNCHANGED cases
    BY <1>2 DEF NewOwner
<1> QED
    BY <1>1, <1>2
    DEF AlertStep, AcknowledgeSosAlert, LogSosFollowUp, DailyCommits,
        WorkdayStarts, Tick, Restart, tables

\* The job's pass gives a case to somebody who is fit, or whose row, break or
\* cases have changed since it read them: fit in the row it read, even then.
LEMMA PassCommitsFit ==
    ASSUME TypeOK, PassInv, PassCommits,
           NEW d \in Cases, NEW a \in Auditors, NewOwner(d, a)
    PROVE  \/ Fit(a)
           \/ a \in pass.missed /\ ~InCooldown(pass.rows[a]) /\ ~AtLimit(pass.rows[a])
<1>1. cases[d] \in CaseRow
    BY DEF TypeOK
<1>2. /\ HasRead /\ GivenRight(d) /\ pass.given[d] \in Standard
      /\ cases'[d] = Assigned(cases[d], pass.given[d])
    BY PassGives DEF NewOwner
<1>3. a = pass.given[d] /\ a \in Standard
    BY <1>1, <1>2 DEF NewOwner, Assigned, CaseRow
<1>4. ~InCooldown(pass.rows[a]) /\ ~AtLimit(pass.rows[a])
    BY <1>2, <1>3 DEF GivenRight
<1>5. CASE a \notin pass.missed
  <2>1. ReadRight(a) /\ breaks[a].left = 0 /\ auditors'[a] = pass.rows[a]
      BY <1>2, <1>3, <1>5, CommittedRow DEF PassInv, GivenRight, PassCommits
  <2>2. auditors[a] \in AuditorRow /\ pass.rows[a] \in AuditorRow
      BY <1>3 DEF TypeOK, Pass
  <2>3. EffectiveLimit(pass.rows[a]) = EffectiveLimit(auditors[a])
      BY <2>1, <2>2, ResetRow DEF ReadRight
  <2>4. FitRow(pass.rows[a], pass.rows[a])
      BY <1>4, <2>2, RestedRow
  <2> QED
      BY <2>1, <2>3, <2>4 DEF Fit, FitRow
<1> QED
    BY <1>4, <1>5

\* Whoever gives a case, and by whichever of the three rules: the new owner has
\* no cooldown running, is under the limit and is not on a break, unless the
\* job's pass gave it and their row, break or cases changed under it.
THEOREM NewOwnerFit == Spec => NewOwnerIsFit
<1>1. ASSUME TypeOK, PassInv, [Next]_vars, NEW d \in Cases, NEW a \in Auditors, NewOwner(d, a)
      PROVE  \/ Fit(a)
             \/ /\ PassCommits
                /\ a \in pass.missed /\ ~InCooldown(pass.rows[a]) /\ ~AtLimit(pass.rows[a])
  <2>1. CASE HandlerStep
    <3>1. CASE \E c \in Cases : CaseStep(c)
        BY <1>1, <3>1, CaseStepFit
    <3>2. CASE \E b \in Auditors, c \in Cases : ReviewStep(b, c)
        BY <1>1, <3>2, ReviewStepFit
    <3>3. CASE \E b \in Auditors : AuditorStep(b)
        BY <1>1, <3>3, AuditorStepFit
    <3>4. CASE (\E i \in DOMAIN alerts : AlertStep(i)) \/ ReleaseWaitingCases
        BY <1>1, <3>4, SystemStepFit
    <3> QED
        BY <2>1, <3>1, <3>2, <3>3, <3>4 DEF HandlerStep, Handler
  <2>2. CASE PassCommits
      BY <1>1, <2>2, PassCommitsFit
  <2>3. CASE DailyCommits \/ WorkdayStarts \/ Tick \/ Restart \/ UNCHANGED tables
      BY <1>1, <2>3, SystemStepFit
  <2>4. CASE UNCHANGED vars
      BY <1>1, <2>4 DEF vars, NewOwner
  <2> QED
      BY <1>1, <2>1, <2>2, <2>3, <2>4, StepKinds
<1>2. TypeOK /\ PassInv /\ [Next]_vars =>
         [\A c \in Cases, a \in Auditors :
            cases'[c].auditor = a /\ cases[c].auditor # a
               => \/ /\ auditors'[a].cooldown = 0
                     /\ auditors'[a].exposure
                          < (IF auditors[a].limit = 0 THEN DefaultLimit
                             ELSE auditors[a].limit)
                     /\ breaks[a].left = 0
                  \/ /\ PassCommits
                     /\ a \in pass.missed
                     /\ ~InCooldown(pass.rows[a])
                     /\ ~AtLimit(pass.rows[a])]_vars
    BY <1>1 DEF NewOwner, Fit, FitRow, EffectiveLimit
<1> QED
    BY <1>2, TypeCorrect, JobsInvHolds, PTL DEF Spec, NewOwnerIsFit

(***************************************************************************)
(* Owners. CaseInv is needed for one fact: a report not made yet has no    *)
(* owner, so making it takes the case from nobody.                         *)
(***************************************************************************)
\* What every step but two does: owners stay owners.
OwnersStay ==
    \A d \in Cases : cases[d].auditor # NULL => cases'[d].auditor = cases[d].auditor

\* A step that changes one row, and gives it an owner only if it had none.
LEMMA OneRowOwner ==
    ASSUME TypeOK, NEW c \in Cases, NEW new, cases' = [cases EXCEPT ![c] = new],
           cases[c].auditor = NULL \/ new.auditor = cases[c].auditor
    PROVE  OwnersStay
  BY DEF OwnersStay, TypeOK

LEMMA SameOwners ==
    ASSUME UNCHANGED cases PROVE OwnersStay
  BY DEF OwnersStay

\* A pass gives only cases that have no owner.
LEMMA ReleasedOwners ==
    ASSUME NEW cs \in [Cases -> CaseRow], NEW q,
           NEW r \in ReleasedRows(cs, auditors, turn, q, OnBreak), NEW d \in Cases,
           cs[d].auditor # NULL
    PROVE  r.cases[d].auditor = cs[d].auditor
  BY ReleasedRow DEF Waiting

LEMMA CaseStepOwners ==
    ASSUME TypeOK, CaseInv, NEW c \in Cases, CaseStep(c) PROVE OwnersStay
<1>1. cases[c] \in CaseRow /\ GoodRow(cases[c])
    BY DEF TypeOK, CaseInv
<1>2. CASE CreateReport(c)
  <2>1. cases[c].auditor = NULL
      BY <1>1, <1>2 DEF CreateReport, GoodRow
  <2>2. \E new : cases' = [cases EXCEPT ![c] = new]
      BY <1>2 DEF CreateReport
  <2> QED
      BY <2>1, <2>2, OneRowOwner
<1>3. CASE WithdrawRelease(c)
  <2> DEFINE parked == [cases EXCEPT ![c].visibility = "SUPER_ADMIN_ONLY"]
  <2>1. parked \in [Cases -> CaseRow]
      BY CaseRowColumns DEF Visibilities, TypeOK
  <2>2. \A d \in Cases : parked[d].auditor = cases[d].auditor
      BY DEF TypeOK, CaseRow
  <2>3. PICK r \in ReleasedRows(parked, auditors, turn, QueuedNow(queued, c), OnBreak) :
            cases' = r.cases
      BY <1>3 DEF WithdrawRelease
  <2> HIDE DEF parked
  <2> QED
      BY <2>1, <2>2, <2>3, ReleasedOwners DEF OwnersStay
<1>4. CASE AnalysisStep(c)
  <2>1. CASE AnalysisLoad(c)
      BY <2>1 DEF OwnersStay, TypeOK, CaseRow, AnalysisLoad
  <2>2. CASE AnalysisStartRun(c)
      BY <2>2 DEF OwnersStay, TypeOK, CaseRow, AnalysisStartRun
  <2>3. CASE AnalysisFinish(c)
    <3>1. CASE \E t \in Tiers :
                 cases' = [cases EXCEPT ![c].status = "READY_FOR_REVIEW", ![c].tier = t]
        BY <3>1 DEF OwnersStay, TypeOK, CaseRow
    <3>2. CASE cases' = [cases EXCEPT ![c].status = "READY_FOR_REVIEW",
                                      ![c].ai_failure = "vision"]
        BY <3>2 DEF OwnersStay, TypeOK, CaseRow
    <3> QED
        BY <2>3, <3>1, <3>2 DEF AnalysisFinish
  <2>4. CASE AnalysisRefused(c)
      BY <2>4, SameOwners DEF AnalysisRefused
  <2> QED
      BY <1>4, <2>1, <2>2, <2>3, <2>4 DEF AnalysisStep
<1>5. CASE InsertMockAiResult(c)
    BY <1>5 DEF OwnersStay, TypeOK, CaseRow, InsertMockAiResult
<1>6. CASE MakeAvailable(c)
    BY <1>6 DEF OwnersStay, TypeOK, CaseRow, MakeAvailable
<1>7. CASE CloseWithoutReassignment(c)
    BY <1>7 DEF OwnersStay, TypeOK, CaseRow, CloseWithoutReassignment
<1>8. CASE UNCHANGED cases
    BY <1>8, SameOwners
<1> QED
    BY <1>2, <1>3, <1>4, <1>5, <1>6, <1>7, <1>8
    DEF CaseStep, AnalysisRaises

LEMMA ReviewStepOwners ==
    ASSUME TypeOK, NEW a \in Auditors, NEW c \in Cases, ReviewStep(a, c)
    PROVE  OwnersStay \/ ReassignCase(c, a)
<1>1. CASE TakeCase(a, c) \/ ClaimCase(a, c)
  <2>1. /\ cases[c].auditor = NULL
        /\ cases' = [cases EXCEPT ![c] = Assigned(cases[c], a)]
      BY <1>1 DEF TakeCase, ClaimCase
  <2> QED
      BY <2>1, OneRowOwner
<1>2. CASE RecordExposure(a, c)
    BY <1>2, SameOwners DEF RecordExposure
<1>3. CASE ReleaseCaseAtLimit(a, c)
    BY <1>3 DEF ReleaseCaseAtLimit, OwnersStay, TypeOK, CaseRow
<1>4. CASE AcknowledgeContentWarning(a, c)
    BY <1>4 DEF AcknowledgeContentWarning, OwnersStay, TypeOK, CaseRow
<1>5. CASE DeclineCase(a, c)
    BY <1>5 DEF DeclineCase, OwnersStay, TypeOK, CaseRow
<1>6. CASE TriggerSos(a, c)
    BY <1>6 DEF TriggerSos, OwnersStay, TypeOK, CaseRow
<1>7. CASE ResolveCase(a, c)
    BY <1>7 DEF ResolveCase, OwnersStay, TypeOK, CaseRow
<1> QED
    BY <1>1, <1>2, <1>3, <1>4, <1>5, <1>6, <1>7 DEF ReviewStep

LEMMA AuditorStepOwners ==
    ASSUME TypeOK, NEW a \in Auditors, AuditorStep(a)
    PROVE  OwnersStay \/ StopShift(a)
<1>1. CASE ReleaseAllCasesAtLimit(a)
    BY <1>1 DEF ReleaseAllCasesAtLimit, OwnersStay, TypeOK, CaseRow
<1>2. CASE ListAvailableCases(a)
  <2>1. PICK r \in ReleasedRows(cases, auditors, turn, queued, OnBreak) : cases' = r.cases
      BY <1>2 DEF ListAvailableCases
  <2> QED
      BY <2>1, ReleasedOwners DEF OwnersStay, TypeOK
<1>3. CASE UNCHANGED cases
    BY <1>3, SameOwners
<1> QED
    BY <1>1, <1>2, <1>3
    DEF AuditorStep, SetExposureLimit, LogCheckIn, RequestBreak, WithdrawBreakRequest,
        ApproveBreakRequest, GetMyWellbeing

LEMMA SystemStepOwners ==
    ASSUME TypeOK,
           \/ \E i \in DOMAIN alerts : AlertStep(i)
           \/ ReleaseWaitingCases \/ DailyCommits
           \/ WorkdayStarts \/ Tick \/ Restart \/ UNCHANGED tables
    PROVE  OwnersStay
<1>1. CASE ReleaseWaitingCases
  <2>1. PICK r \in ReleasedRows(cases, auditors, turn, queued, OnBreak) : cases' = r.cases
      BY <1>1 DEF ReleaseWaitingCases
  <2> QED
      BY <2>1, ReleasedOwners DEF OwnersStay, TypeOK
<1>2. CASE UNCHANGED cases
    BY <1>2, SameOwners
<1> QED
    BY <1>1, <1>2
    DEF AlertStep, AcknowledgeSosAlert, LogSosFollowUp, DailyCommits,
        WorkdayStarts, Tick, Restart, tables

\* What the job has locked has no owner to lose.
LEMMA PassCommitsOwners ==
    ASSUME TypeOK, PassInv, PassCommits PROVE OwnersStay
  BY PassGives DEF OwnersStay, WaitingRow

\* The end of a shift takes cases from nobody but the Auditor who ends it, and
\* a reassignment only the case it names.
LEMMA OtherOwners ==
    ASSUME TypeOK, NEW a \in Auditors, NEW b \in Auditors, NEW c \in Cases,
           NEW d \in Cases, cases[d].auditor = a, cases'[d].auditor # a
    PROVE  /\ StopShift(b) => a = b
           /\ ReassignCase(c, b) => c = d
<1>1. StopShift(b) => a = b
    BY DEF StopShift, TypeOK, CaseRow
<1>2. ReassignCase(c, b) => c = d
    BY DEF ReassignCase, TypeOK
<1> QED
    BY <1>1, <1>2

\* Only the end of their own shift or a reassignment takes a case from an
\* Auditor; no claim, take, release pass, report or analysis does.
THEOREM CaseStays == Spec => CaseStaysWithOwner
<1>1. ASSUME TypeOK, PassInv, CaseInv, [Next]_vars, NEW d \in Cases, NEW a \in Auditors,
             cases[d].auditor = a, cases'[d].auditor # a
      PROVE  StopShift(a) \/ \E b \in Auditors : ReassignCase(d, b)
  <2>1. ~OwnersStay /\ cases' # cases
      BY <1>1, NullIsNobody DEF OwnersStay
  <2>2. \/ \E b \in Auditors, c \in Cases : ReassignCase(c, b)
        \/ \E b \in Auditors : StopShift(b)
    <3>1. CASE HandlerStep
        BY <1>1, <2>1, <3>1, CaseStepOwners, ReviewStepOwners, AuditorStepOwners,
           SystemStepOwners DEF HandlerStep, Handler
    <3>2. ~PassCommits
        BY <1>1, <2>1, PassCommitsOwners
    <3>3. ~(DailyCommits \/ WorkdayStarts \/ Tick \/ Restart \/ UNCHANGED tables)
        BY <1>1, <2>1, SystemStepOwners
    <3>4. Next
        BY <1>1, <2>1 DEF vars
    <3> QED
        BY <3>1, <3>2, <3>3, <3>4, StepKinds
  <2>3. CASE \E b \in Auditors, c \in Cases : ReassignCase(c, b)
    <3>1. PICK b \in Auditors, c \in Cases : ReassignCase(c, b)
        BY <2>3
    <3>2. c = d
        BY <1>1, <3>1, OtherOwners
    <3> QED
        BY <3>1, <3>2
  <2>4. CASE \E b \in Auditors : StopShift(b)
    <3>1. PICK b \in Auditors : StopShift(b)
        BY <2>4
    <3>2. a = b
        BY <1>1, <3>1, OtherOwners
    <3> QED
        BY <3>1, <3>2
  <2> QED
      BY <2>2, <2>3, <2>4
<1>2. TypeOK /\ PassInv /\ CaseInv /\ [Next]_vars =>
         [\A c \in Cases, a \in Auditors :
            cases[c].auditor = a /\ cases'[c].auditor # a
               => StopShift(a) \/ \E b \in Auditors : ReassignCase(c, b)]_vars
    BY <1>1
<1> QED
    BY <1>2, TypeCorrect, JobsInvHolds, CaseInvHolds, PTL DEF Spec, CaseStaysWithOwner

(***************************************************************************)
(* Custody. The hands a case is in are read off its row, so a step is      *)
(* shown to be one of Custody from the rows it changes.                    *)
(***************************************************************************)
LEMMA PlaceOfRow ==
    ASSUME NEW row \in CaseRow
    PROVE  /\ row.status = NULL => Place(row) = "unreported"
           /\ row.status # NULL =>
                /\ row.flag # NULL => Place(row) = "manager"
                /\ row.flag = NULL /\ row.auditor # NULL => Place(row) = "held"
                /\ row.flag = NULL /\ row.auditor = NULL =>
                     /\ row.visibility = "ASSIGNED_ONLY" => Place(row) = "returned"
                     /\ row.visibility = "SUPER_ADMIN_ONLY" => Place(row) = "parked"
                     /\ row.visibility = "AVAILABLE_TO_AUDITORS" => Place(row) = "offered"
  BY DEF Place, CaseRow, Visibilities

LEMMA SameCustody ==
    ASSUME NEW row \in CaseRow, NEW new \in CaseRow,
           new.status = NULL <=> row.status = NULL,
           new.auditor = row.auditor, new.flag = row.flag, new.visibility = row.visibility
    PROVE  CustodyOf(new) = CustodyOf(row)
<1>1. Place(new) = Place(row)
    BY PlaceOfRow DEF CaseRow, Visibilities
<1> QED
    BY <1>1 DEF CustodyOf

LEMMA HandsOf == \A c \in Cases : Hands[c] = CustodyOf(cases[c])
  BY DEF Hands

\* What the abstract specification looks at, in terms of the row.
LEMMA AtPlace ==
    ASSUME TypeOK, NEW c \in Cases
    PROVE  /\ cases[c] \in CaseRow
           /\ \A p : Abstract!Is(c, p) <=> Place(cases[c]) = p
           /\ Hands[c].auditor = cases[c].auditor
  BY DEF TypeOK, Abstract!Is, Hands, CustodyOf

\* The columns of a reported case that say in whose hands it is.
InHand(row, new) == /\ new.status # NULL /\ new.auditor = row.auditor
                    /\ new.flag = row.flag /\ new.visibility = row.visibility

LEMMA StayingRow ==
    ASSUME NEW row \in CaseRow, row.status # NULL, NEW t, NEW o
    PROVE  /\ InHand(row, row)
           /\ InHand(row, [row EXCEPT !.status = "AI_PROCESSING", !.tier = NULL, !.ai_failure = NULL])
           /\ InHand(row, [row EXCEPT !.run = TRUE])
           /\ InHand(row, [row EXCEPT !.status = "READY_FOR_REVIEW", !.tier = t])
           /\ InHand(row, [row EXCEPT !.status = "READY_FOR_REVIEW", !.ai_failure = "vision"])
           /\ InHand(row, [row EXCEPT !.status = "READY_FOR_REVIEW", !.tier = t, !.ai_failure = NULL])
           /\ InHand(row, [row EXCEPT !.status = "AUDITOR_REVIEW"])
           /\ InHand(row, [row EXCEPT !.status = "COMPLETE", !.outcome = o])
<1> USE RulesAssumption DEF InHand, CaseRow, Statuses
<1>1. /\ InHand(row, row)
      /\ InHand(row, [row EXCEPT !.status = "AI_PROCESSING", !.tier = NULL, !.ai_failure = NULL])
    OBVIOUS
<1>2. /\ InHand(row, [row EXCEPT !.run = TRUE])
      /\ InHand(row, [row EXCEPT !.status = "READY_FOR_REVIEW", !.tier = t])
    OBVIOUS
<1>3. /\ InHand(row, [row EXCEPT !.status = "READY_FOR_REVIEW", !.ai_failure = "vision"])
      /\ InHand(row, [row EXCEPT !.status = "READY_FOR_REVIEW", !.tier = t, !.ai_failure = NULL])
    OBVIOUS
<1>4. /\ InHand(row, [row EXCEPT !.status = "AUDITOR_REVIEW"])
      /\ InHand(row, [row EXCEPT !.status = "COMPLETE", !.outcome = o])
    OBVIOUS
<1> HIDE DEF InHand
<1> QED
    BY <1>1, <1>2, <1>3, <1>4

\* A step that leaves every row in the hands it was in.
LEMMA NobodyMoves ==
    ASSUME TypeOK, TypeOK',
           \A c \in Cases : CustodyOf(cases'[c]) = CustodyOf(cases[c])
    PROVE  UNCHANGED Hands
  BY DEF Hands

LEMMA OneMoves ==
    ASSUME TypeOK, NEW c \in Cases, NEW new, cases' = [cases EXCEPT ![c] = new]
    PROVE  Hands' = [Hands EXCEPT ![c] = CustodyOf(new)]
  BY DEF Hands, TypeOK

LEMMA OneStays ==
    ASSUME TypeOK, TypeOK', NEW c \in Cases, NEW new, cases' = [cases EXCEPT ![c] = new],
           cases[c].status # NULL, InHand(cases[c], new)
    PROVE  UNCHANGED Hands
<1>1. new \in CaseRow
    BY DEF TypeOK
<1>2. CustodyOf(new) = CustodyOf(cases[c])
    BY <1>1, SameCustody DEF TypeOK, InHand
<1>3. \A d \in Cases : CustodyOf(cases'[d]) = CustodyOf(cases[d])
    BY <1>2 DEF TypeOK
<1> QED
    BY <1>3, NobodyMoves

\* The analysis of a case that is not reported does not run.
Analysed == \A c \in Cases : analysis[c] # "idle" => cases[c].status # NULL

LEMMA MovesTo ==
    ASSUME NEW S \in SUBSET Cases, NEW to,
           \A c \in Cases : CustodyOf(cases'[c]) = IF c \in S THEN to[c] ELSE CustodyOf(cases[c])
    PROVE  Abstract!Moves(S, to)
  BY DEF Abstract!Moves, Hands

\* Some parked cases of cs, each with an Auditor of the pool in new.
PlacedFrom(cs, new) ==
    \E S \in SUBSET Cases : \E owner \in [S -> Standard] :
       /\ \A c \in S : Place(cs[c]) = "parked"
       /\ \A c \in Cases : CustodyOf(new[c]) = IF c \in S THEN Abstract!At("held", owner[c])
                                               ELSE CustodyOf(cs[c])

LEMMA ReleasedHands ==
    ASSUME NEW cs \in [Cases -> CaseRow], NEW q,
           NEW r \in ReleasedRows(cs, auditors, turn, q, OnBreak)
    PROVE  PlacedFrom(cs, r.cases)
<1> DEFINE S     == {c \in Cases : r.cases[c] # cs[c]}
           owner == [c \in S |-> r.cases[c].auditor]
<1>1. ASSUME NEW c \in S
      PROVE  /\ owner[c] \in Standard
             /\ Place(cs[c]) = "parked"
             /\ CustodyOf(r.cases[c]) = Abstract!At("held", owner[c])
  <2>1. /\ c \in Waiting(cs, q)
        /\ r.cases[c].auditor \in Standard
        /\ r.cases[c] = Assigned(cs[c], r.cases[c].auditor)
        /\ r.cases[c] \in CaseRow
      BY ReleasedRow
  <2>2. Place(cs[c]) = "parked"
      BY <2>1, PlaceOfRow DEF Waiting
  <2>3. /\ r.cases[c].status = cs[c].status /\ r.cases[c].flag = cs[c].flag
      BY <2>1 DEF Assigned, CaseRow
  <2>4. r.cases[c].auditor # NULL
      BY <2>1, NullIsNobody DEF Auditors
  <2>5. Place(r.cases[c]) = "held"
      BY <2>1, <2>3, <2>4, PlaceOfRow DEF Waiting
  <2> QED
      BY <2>1, <2>2, <2>5 DEF CustodyOf, Abstract!At
<1>2. owner \in [S -> Standard]
    BY <1>1
<1>3. \A c \in Cases : CustodyOf(r.cases[c])
          = IF c \in S THEN Abstract!At("held", owner[c]) ELSE CustodyOf(cs[c])
    BY <1>1
<1> HIDE DEF owner
<1> QED
    BY <1>1, <1>2, <1>3 DEF PlacedFrom

LEMMA PlacedMoves ==
    ASSUME TypeOK, NEW new, PlacedFrom(cases, new), cases' = new
    PROVE  Abstract!Next
<1>1. PICK S \in SUBSET Cases :
          \E owner \in [S -> Standard] :
              /\ \A c \in S : Place(cases[c]) = "parked"
              /\ \A c \in Cases : CustodyOf(new[c])
                    = IF c \in S THEN Abstract!At("held", owner[c]) ELSE CustodyOf(cases[c])
    BY DEF PlacedFrom
<1>2. PICK owner \in [S -> Standard] :
              /\ \A c \in S : Place(cases[c]) = "parked"
              /\ \A c \in Cases : CustodyOf(new[c])
                    = IF c \in S THEN Abstract!At("held", owner[c]) ELSE CustodyOf(cases[c])
    BY <1>1
<1>3. Abstract!Moves(S, [c \in S |-> Abstract!At("held", owner[c])])
  <2> DEFINE to == [c \in S |-> Abstract!At("held", owner[c])]
  <2>1. \A c \in Cases : CustodyOf(cases'[c]) = IF c \in S THEN to[c] ELSE CustodyOf(cases[c])
      BY <1>2
  <2> HIDE DEF to
  <2>2. Abstract!Moves(S, to)
      BY <2>1, MovesTo
  <2> QED
      BY <2>2 DEF to
<1>4. Abstract!Place(S, owner)
    BY <1>2, <1>3, AtPlace DEF Abstract!Place
<1> QED
    BY <1>4 DEF Abstract!Next

LEMMA ReleasePlaces ==
    ASSUME TypeOK, NEW r \in ReleasedRows(cases, auditors, turn, queued, OnBreak),
           cases' = r.cases
    PROVE  Abstract!Next
<1>1. cases \in [Cases -> CaseRow]
    BY DEF TypeOK
<1>2. PlacedFrom(cases, r.cases)
    BY <1>1, ReleasedHands
<1> QED
    BY <1>2, PlacedMoves

\* The job's pass gives what it has locked, and that is still parked.
LEMMA PassCommitsHands ==
    ASSUME TypeOK, TypeOK', PassInv, PassCommits PROVE Abstract!Next
<1> DEFINE owner == [c \in Placed |-> pass.given[c]]
<1>1. ASSUME NEW c \in Placed
      PROVE  /\ owner[c] \in Standard
             /\ Place(cases[c]) = "parked"
             /\ CustodyOf(cases'[c]) = Abstract!At("held", owner[c])
  <2>1. /\ c \in Cases /\ pass.given[c] \in Standard
        /\ WaitingRow(cases[c])
        /\ cases'[c] = Assigned(cases[c], pass.given[c])
        /\ cases[c] \in CaseRow /\ cases'[c] \in CaseRow
      BY PassGives DEF Placed, TypeOK
  <2>2. Place(cases[c]) = "parked"
      BY <2>1, PlaceOfRow DEF WaitingRow
  <2>3. /\ cases'[c].status = cases[c].status /\ cases'[c].flag = cases[c].flag
        /\ cases'[c].auditor = pass.given[c] /\ pass.given[c] # NULL
      BY <2>1, NullIsNobody DEF Assigned, CaseRow, Auditors
  <2>4. Place(cases'[c]) = "held"
      BY <2>1, <2>3, PlaceOfRow DEF WaitingRow
  <2> QED
      BY <2>1, <2>2, <2>3, <2>4 DEF CustodyOf, Abstract!At
<1>2. owner \in [Placed -> Standard]
    BY <1>1
<1>3. \A c \in Cases \ Placed : cases'[c] = cases[c]
    BY PassGives
<1>4. \A c \in Cases : CustodyOf(cases'[c])
          = IF c \in Placed THEN Abstract!At("held", owner[c]) ELSE CustodyOf(cases[c])
    BY <1>1, <1>3
<1>5. Placed \in SUBSET Cases
    BY DEF Placed
<1> HIDE DEF owner
<1>6. PlacedFrom(cases, cases')
    BY <1>1, <1>2, <1>4, <1>5 DEF PlacedFrom
<1> QED
    BY <1>6, PlacedMoves

\* The rows a step of the workflow leaves in somebody else's hands.
AbstractStep == Abstract!Next \/ UNCHANGED Hands

LEMMA NewRow ==
    ASSUME NEW row \in CaseRow, GoodRow(row), row.status = NULL
    PROVE  /\ CustodyOf([row EXCEPT !.status = "AI_PROCESSING", !.visibility = "SUPER_ADMIN_ONLY"])
                = Abstract!At("parked", NULL)
           /\ \A a \in Standard :
                 CustodyOf([row EXCEPT !.status = "AI_PROCESSING", !.auditor = a])
                    = Abstract!At("held", a)
<1>1. row.flag = NULL /\ row.auditor = NULL
    BY DEF GoodRow
<1> DEFINE new == [row EXCEPT !.status = "AI_PROCESSING", !.visibility = "SUPER_ADMIN_ONLY"]
<1>2. /\ new \in CaseRow /\ new.status # NULL /\ new.flag = NULL /\ new.auditor = NULL
      /\ new.visibility = "SUPER_ADMIN_ONLY"
    BY <1>1, RulesAssumption DEF CaseRow, Statuses, Visibilities
<1> HIDE DEF new
<1>3. CustodyOf(new) = Abstract!At("parked", NULL)
    BY <1>2, PlaceOfRow DEF CustodyOf, Abstract!At
<1>4. ASSUME NEW a \in Standard
      PROVE  CustodyOf([row EXCEPT !.status = "AI_PROCESSING", !.auditor = a])
                = Abstract!At("held", a)
  <2> DEFINE kept == [row EXCEPT !.status = "AI_PROCESSING", !.auditor = a]
  <2>1. /\ kept \in CaseRow /\ kept.status # NULL /\ kept.flag = NULL /\ kept.auditor = a
      BY <1>1, RulesAssumption DEF CaseRow, Statuses, Auditors
  <2>2. a # NULL
      BY RulesAssumption DEF Auditors
  <2> HIDE DEF kept
  <2>3. CustodyOf(kept) = Abstract!At("held", a)
      BY <2>1, <2>2, PlaceOfRow DEF CustodyOf, Abstract!At
  <2> QED
      BY <2>3 DEF kept
<1> QED
    BY <1>3, <1>4 DEF new

LEMMA CaseStepHands ==
    ASSUME TypeOK, TypeOK', CaseInv, Analysed, NEW c \in Cases, CaseStep(c)
    PROVE  AbstractStep
<1> DEFINE row == cases[c]
           Becomes(new) == cases' = [cases EXCEPT ![c] = new]
<1>0. row \in CaseRow /\ GoodRow(row)
    BY DEF TypeOK, CaseInv
<1>1. ASSUME NEW new, row.status # NULL, InHand(row, new), Becomes(new) PROVE AbstractStep
    BY <1>1, OneStays DEF AbstractStep
<1>2. CASE CreateReport(c)
  <2>1. Abstract!Is(c, "unreported")
      BY <1>0, <1>2, AtPlace, PlaceOfRow DEF CreateReport
  <2>2. row.status = NULL
      BY <1>2 DEF CreateReport
  <2>3. ASSUME NEW new, Becomes(new), CustodyOf(new) \in {Abstract!At("parked", NULL)}
                                    \cup {Abstract!At("held", a) : a \in Standard}
        PROVE  AbstractStep
      BY <2>1, <2>3, OneMoves DEF AbstractStep, Abstract!Next, Abstract!Report, Abstract!Move
  <2>4. \/ Becomes([row EXCEPT !.status = "AI_PROCESSING", !.visibility = "SUPER_ADMIN_ONLY"])
        \/ \E a \in Standard : Becomes([row EXCEPT !.status = "AI_PROCESSING", !.auditor = a])
      BY <1>2 DEF CreateReport, PickBest, AssignmentCandidates
  <2> HIDE DEF row, Becomes
  <2> QED
      BY <1>0, <2>2, <2>3, <2>4, NewRow
<1>3. CASE AnalysisStep(c)
  <2>1. CASE AnalysisLoad(c)
    <3>1. /\ row.status # NULL
          /\ Becomes([row EXCEPT !.status = "AI_PROCESSING", !.tier = NULL, !.ai_failure = NULL])
        BY <2>1 DEF AnalysisLoad, Analysed
    <3> HIDE DEF row, Becomes
    <3> QED
        BY <1>0, <1>1, <3>1, StayingRow
  <2>2. CASE AnalysisRefused(c)
      BY <2>2 DEF AnalysisRefused, AbstractStep, Hands
  <2>3. CASE AnalysisStartRun(c)
    <3>1. row.status # NULL /\ Becomes([row EXCEPT !.run = TRUE])
        BY <2>3 DEF AnalysisStartRun, Analysed
    <3> HIDE DEF row, Becomes
    <3> QED
        BY <1>0, <1>1, <3>1, StayingRow
  <2>4. CASE AnalysisFinish(c)
    <3>1. /\ row.status # NULL
          /\ \/ \E t \in Tiers : Becomes([row EXCEPT !.status = "READY_FOR_REVIEW", !.tier = t])
             \/ Becomes([row EXCEPT !.status = "READY_FOR_REVIEW", !.ai_failure = "vision"])
        BY <2>4 DEF AnalysisFinish, Analysed
    <3> HIDE DEF row, Becomes
    <3> QED
        BY <1>0, <1>1, <3>1, StayingRow
  <2> QED
      BY <1>3, <2>1, <2>2, <2>3, <2>4 DEF AnalysisStep
<1>4. CASE AnalysisRaises(c)
    BY <1>4 DEF AnalysisRaises, AbstractStep, Hands
<1>5. CASE InsertMockAiResult(c)
  <2>1. /\ row.status # NULL
        /\ \E t \in Tiers : Becomes([row EXCEPT !.status = "READY_FOR_REVIEW", !.tier = t,
                                                !.ai_failure = NULL])
      BY <1>5 DEF InsertMockAiResult
  <2> HIDE DEF row, Becomes
  <2> QED
      BY <1>0, <1>1, <2>1, StayingRow
<1>6. CASE MakeAvailable(c)
  <2> DEFINE new == [row EXCEPT !.visibility = "AVAILABLE_TO_AUDITORS"]
  <2>1. /\ Becomes(new)
        /\ row.status # NULL /\ row.flag = NULL /\ row.auditor = NULL
        /\ row.visibility \in {"ASSIGNED_ONLY", "SUPER_ADMIN_ONLY"}
      BY <1>0, <1>6 DEF MakeAvailable, CaseRow, Visibilities
  <2>2. /\ new \in CaseRow /\ new.status # NULL /\ new.flag = NULL /\ new.auditor = NULL
        /\ new.visibility = "AVAILABLE_TO_AUDITORS"
      BY <1>0, <2>1 DEF CaseRow, Visibilities
  <2> HIDE DEF new
  <2>3. CustodyOf(new) = Abstract!At("offered", NULL)
      BY <2>2, PlaceOfRow DEF CustodyOf, Abstract!At
  <2>4. Abstract!Is(c, "parked") \/ Abstract!Is(c, "returned")
      BY <1>0, <2>1, AtPlace, PlaceOfRow
  <2>5. Abstract!Offer(c)
      BY <2>1, <2>3, <2>4, OneMoves DEF Abstract!Offer, Abstract!Move
  <2> QED
      BY <2>5 DEF AbstractStep, Abstract!Next
<1>7. CASE WithdrawRelease(c)
  <2> DEFINE parked == [cases EXCEPT ![c].visibility = "SUPER_ADMIN_ONLY"]
             new    == [row EXCEPT !.visibility = "SUPER_ADMIN_ONLY"]
  <2>1. parked \in [Cases -> CaseRow]
      BY CaseRowColumns DEF Visibilities, TypeOK
  <2>2. PICK r \in ReleasedRows(parked, auditors, turn, QueuedNow(queued, c), OnBreak) :
            cases' = r.cases
      BY <1>7 DEF WithdrawRelease
  <2>3. /\ row.status # NULL /\ row.flag = NULL /\ row.auditor = NULL
        /\ row.visibility = "AVAILABLE_TO_AUDITORS"
      BY <1>7 DEF WithdrawRelease
  <2>4. /\ new \in CaseRow /\ new.status # NULL /\ new.flag = NULL /\ new.auditor = NULL
        /\ new.visibility = "SUPER_ADMIN_ONLY"
      BY <1>0, <2>3 DEF CaseRow, Visibilities
  <2>5. parked[c] = new /\ \A d \in Cases \ {c} : parked[d] = cases[d]
      BY DEF TypeOK
  <2> HIDE DEF parked, new
  <2>6. CustodyOf(parked[c]) = Abstract!At("parked", NULL)
      BY <2>4, <2>5, PlaceOfRow DEF CustodyOf, Abstract!At
  <2>7. PlacedFrom(parked, r.cases)
      BY <2>1, ReleasedHands
  <2>8. PICK S \in SUBSET Cases : \E owner \in [S -> Standard] :
           /\ \A d \in S : Place(parked[d]) = "parked"
           /\ \A d \in Cases : CustodyOf(r.cases[d])
                 = IF d \in S THEN Abstract!At("held", owner[d]) ELSE CustodyOf(parked[d])
      BY <2>7 DEF PlacedFrom
  <2>9. PICK owner \in [S -> Standard] :
           /\ \A d \in S : Place(parked[d]) = "parked"
           /\ \A d \in Cases : CustodyOf(r.cases[d])
                 = IF d \in S THEN Abstract!At("held", owner[d]) ELSE CustodyOf(parked[d])
      BY <2>8
  <2> DEFINE to == [d \in S \cup {c} |-> IF d \in S THEN Abstract!At("held", owner[d])
                                         ELSE Abstract!At("parked", NULL)]
  <2>10. \A d \in Cases : CustodyOf(cases'[d])
                             = IF d \in S \cup {c} THEN to[d] ELSE CustodyOf(cases[d])
      BY <2>2, <2>5, <2>6, <2>9
  <2> HIDE DEF to
  <2>11. Abstract!Moves(S \cup {c}, to)
      BY <2>10, MovesTo
  <2>12. Abstract!Is(c, "offered")
      BY <1>0, <2>3, AtPlace, PlaceOfRow
  <2>13. \A d \in S \ {c} : Abstract!Is(d, "parked")
      BY <2>5, <2>9, AtPlace
  <2>14. Abstract!Withdraw(c, S, owner)
      BY <2>11, <2>12, <2>13 DEF Abstract!Withdraw, to
  <2> QED
      BY <2>14 DEF AbstractStep, Abstract!Next
<1>8. CASE CloseWithoutReassignment(c)
  <2>1. /\ row.status # NULL
        /\ Becomes([row EXCEPT !.status = "COMPLETE", !.outcome = "CLOSED_NO_REASSIGNMENT"])
      BY <1>8 DEF CloseWithoutReassignment
  <2> HIDE DEF row, Becomes
  <2> QED
      BY <1>0, <1>1, <2>1, StayingRow
<1> QED
    BY <1>2, <1>3, <1>4, <1>5, <1>6, <1>7, <1>8 DEF CaseStep

LEMMA FlaggedRowMoves ==
    ASSUME NEW row \in CaseRow, NEW a \in Auditors, NEW f \in Flags,
           row.status # NULL, row.auditor = a
    PROVE  /\ Place(row) \in {"held", "manager"}
           /\ CustodyOf([row EXCEPT !.flag = f]) = Abstract!At("manager", a)
<1>1. a # NULL /\ f # NULL
    BY RulesAssumption
<1>2. Place(row) \in {"held", "manager"}
    BY <1>1, PlaceOfRow
<1> DEFINE new == [row EXCEPT !.flag = f]
<1>3. new \in CaseRow /\ new.status # NULL /\ new.flag = f /\ new.auditor = a
    BY DEF CaseRow
<1> HIDE DEF new
<1>4. CustodyOf(new) = Abstract!At("manager", a)
    BY <1>1, <1>3, PlaceOfRow DEF CustodyOf, Abstract!At
<1> QED
    BY <1>2, <1>4 DEF new

\* Flagging cases of one Auditor hands them to the Manager.
LEMMA FlaggedHands ==
    ASSUME TypeOK, NEW a \in Auditors, NEW S \in SUBSET Cases, NEW f \in Flags,
           \A c \in S : cases[c].status # NULL /\ cases[c].auditor = a,
           \A c \in Cases : cases'[c] = IF c \in S THEN [cases[c] EXCEPT !.flag = f]
                                        ELSE cases[c]
    PROVE  AbstractStep
<1> DEFINE to == [c \in S |-> Abstract!At("manager", a)]
<1>1. ASSUME NEW c \in S
      PROVE  /\ Place(cases[c]) \in {"held", "manager"}
             /\ CustodyOf(cases'[c]) = Abstract!At("manager", a)
  <2> DEFINE row == cases[c]
  <2>1. row \in CaseRow /\ row.status # NULL /\ row.auditor = a
      BY DEF TypeOK
  <2>2. cases'[c] = [row EXCEPT !.flag = f]
      OBVIOUS
  <2> HIDE DEF row
  <2>3. /\ Place(row) \in {"held", "manager"}
        /\ CustodyOf(cases'[c]) = Abstract!At("manager", a)
      BY <2>1, <2>2, FlaggedRowMoves
  <2> QED
      BY <2>3 DEF row
<1>2. \A c \in Cases : CustodyOf(cases'[c]) = IF c \in S THEN to[c] ELSE CustodyOf(cases[c])
    BY <1>1
<1> HIDE DEF to
<1>3. Abstract!Moves(S, to)
    BY <1>2, MovesTo
<1>4. \A c \in S : /\ Abstract!Is(c, "held") \/ Abstract!Is(c, "manager")
                   /\ Hands[c].auditor = a
    BY <1>1, AtPlace
<1>5. Abstract!ToManager(a, S)
    BY <1>3, <1>4 DEF Abstract!ToManager, to
<1> QED
    BY <1>5 DEF AbstractStep, Abstract!Next, Auditors, Abstract!Auditors

LEMMA GivenRowHands ==
    ASSUME NEW row \in CaseRow, NEW a \in Auditors, row.status # NULL
    PROVE  /\ row.flag = NULL => CustodyOf(Assigned(row, a)) = Abstract!At("held", a)
           /\ CustodyOf([row EXCEPT !.auditor = a, !.visibility = "ASSIGNED_ONLY",
                                    !.status = "READY_FOR_REVIEW", !.flag = NULL])
                = Abstract!At("held", a)
<1>1. a # NULL
    BY RulesAssumption
<1>2. ASSUME row.flag = NULL PROVE CustodyOf(Assigned(row, a)) = Abstract!At("held", a)
  <2>1. /\ Assigned(row, a) \in CaseRow
        /\ Assigned(row, a).status # NULL
        /\ Assigned(row, a).flag = NULL
        /\ Assigned(row, a).auditor = a
      BY <1>2, AssignedType DEF Assigned, CaseRow
  <2> QED
      BY <1>1, <2>1, PlaceOfRow DEF CustodyOf, Abstract!At
<1> DEFINE new == [row EXCEPT !.auditor = a, !.visibility = "ASSIGNED_ONLY",
                              !.status = "READY_FOR_REVIEW", !.flag = NULL]
<1>3. new \in CaseRow /\ new.status # NULL /\ new.flag = NULL /\ new.auditor = a
    BY RulesAssumption DEF CaseRow, Statuses, Visibilities
<1> HIDE DEF new
<1>4. CustodyOf(new) = Abstract!At("held", a)
    BY <1>1, <1>3, PlaceOfRow DEF CustodyOf, Abstract!At
<1> QED
    BY <1>2, <1>4 DEF new

LEMMA ReviewStepHands ==
    ASSUME TypeOK, TypeOK', CaseInv, NEW a \in Auditors, NEW c \in Cases, ReviewStep(a, c)
    PROVE  AbstractStep
<1> DEFINE row == cases[c]
           Becomes(new) == cases' = [cases EXCEPT ![c] = new]
<1>0. row \in CaseRow /\ GoodRow(row) /\ a # NULL
    BY NullIsNobody DEF TypeOK, CaseInv
<1>1. ASSUME NEW new, row.status # NULL, InHand(row, new), Becomes(new) PROVE AbstractStep
    BY <1>1, OneStays DEF AbstractStep
<1>2. CASE AcknowledgeContentWarning(a, c)
  <2>1. row.status # NULL /\ Becomes([row EXCEPT !.status = "AUDITOR_REVIEW"])
      BY <1>2 DEF AcknowledgeContentWarning, Owns
  <2> HIDE DEF row, Becomes
  <2> QED
      BY <1>0, <1>1, <2>1, StayingRow
<1>3. CASE ResolveCase(a, c)
  <2>1. /\ row.status # NULL
        /\ \E o \in DecidedHere : Becomes([row EXCEPT !.status = "COMPLETE", !.outcome = o])
      BY <1>3 DEF ResolveCase, Owns
  <2> HIDE DEF row, Becomes
  <2> QED
      BY <1>0, <1>1, <2>1, StayingRow
<1>4. ASSUME NEW f \in Flags, Owns(a, c), Becomes([row EXCEPT !.flag = f]) PROVE AbstractStep
  <2> DEFINE S == {c}
  <2>1. \A d \in S : cases[d].status # NULL /\ cases[d].auditor = a
      BY <1>4 DEF Owns
  <2>2. \A d \in Cases : cases'[d] = IF d \in S THEN [cases[d] EXCEPT !.flag = f]
                                     ELSE cases[d]
      BY <1>4 DEF TypeOK
  <2>3. S \in SUBSET Cases
      OBVIOUS
  <2> HIDE DEF S
  <2> QED
      BY <2>1, <2>2, <2>3, FlaggedHands
<1>5. CASE DeclineCase(a, c)
    BY <1>4, <1>5 DEF DeclineCase, Flags
<1>6. CASE TriggerSos(a, c)
    BY <1>4, <1>6 DEF TriggerSos, Flags
<1>7. CASE ReleaseCaseAtLimit(a, c)
  <2> DEFINE S == {d \in Cases : d = c \/ (/\ cases[d].auditor = a
                                           /\ cases[d].status = "READY_FOR_REVIEW"
                                           /\ cases[d].flag = NULL)}
  <2>1. \A d \in S : cases[d].status # NULL /\ cases[d].auditor = a
      BY <1>7, RulesAssumption DEF ReleaseCaseAtLimit, Owns, Statuses
  <2>2. \A d \in Cases : cases'[d] = IF d \in S THEN [cases[d] EXCEPT !.flag = "CAP_REACHED"]
                                     ELSE cases[d]
      BY <1>7 DEF ReleaseCaseAtLimit
  <2>3. S \in SUBSET Cases /\ "CAP_REACHED" \in Flags
      BY DEF Flags
  <2> HIDE DEF S
  <2> QED
      BY <2>1, <2>2, <2>3, FlaggedHands
<1>8. CASE RecordExposure(a, c)
    BY <1>8 DEF RecordExposure, AbstractStep, Hands
<1>9. CASE TakeCase(a, c) \/ ClaimCase(a, c)
  <2>1. /\ row.status # NULL /\ row.flag = NULL /\ row.auditor = NULL
        /\ Becomes(Assigned(row, a))
      BY <1>9 DEF TakeCase, ClaimCase
  <2>2. CustodyOf(Assigned(row, a)) = Abstract!At("held", a)
    <3> HIDE DEF row
    <3> QED
        BY <1>0, <2>1, GivenRowHands
  <2>3. Hands' = [Hands EXCEPT ![c] = Abstract!At("held", a)]
      BY <2>1, <2>2, OneMoves
  <2>4. Abstract!Move(c, Abstract!At("held", a))
      BY <2>3 DEF Abstract!Move
  <2>5. CASE TakeCase(a, c)
    <3>1. Abstract!Is(c, "parked") \/ Abstract!Is(c, "offered") \/ Abstract!Is(c, "returned")
        BY <1>0, <2>1, AtPlace, PlaceOfRow DEF CaseRow, Visibilities
    <3>2. a \in SuperAuditors
        BY <2>5 DEF TakeCase
    <3> QED
        BY <2>4, <3>1, <3>2 DEF AbstractStep, Abstract!Next, Abstract!Take
  <2>6. CASE ClaimCase(a, c)
    <3>1. row.visibility = "AVAILABLE_TO_AUDITORS"
        BY <2>6 DEF ClaimCase
    <3>2. Abstract!Is(c, "offered")
        BY <1>0, <2>1, <3>1, AtPlace, PlaceOfRow
    <3> QED
        BY <2>4, <3>2 DEF AbstractStep, Abstract!Next, Abstract!Claim, Auditors,
                          Abstract!Auditors
  <2> QED
      BY <1>9, <2>5, <2>6
<1>10. CASE ReassignCase(c, a)
  <2> DEFINE new == [row EXCEPT !.auditor = a, !.visibility = "ASSIGNED_ONLY",
                                !.status = "READY_FOR_REVIEW", !.flag = NULL]
  <2>1. row.status # NULL /\ Becomes(new)
      BY <1>10 DEF ReassignCase
  <2>2. CustodyOf(new) = Abstract!At("held", a)
    <3> HIDE DEF row
    <3> QED
        BY <1>0, <2>1, GivenRowHands
  <2> HIDE DEF new
  <2>3. Hands' = [Hands EXCEPT ![c] = Abstract!At("held", a)]
      BY <2>1, <2>2, OneMoves
  <2>4. ~Abstract!Is(c, "unreported")
      BY <1>0, <2>1, AtPlace, PlaceOfRow DEF CaseRow, Visibilities
  <2> QED
      BY <2>3, <2>4 DEF AbstractStep, Abstract!Next, Abstract!Reassign, Abstract!Move,
                        Auditors, Abstract!Auditors
<1> QED
    BY <1>2, <1>3, <1>5, <1>6, <1>7, <1>8, <1>9, <1>10 DEF ReviewStep

LEMMA StoppedRowMoves ==
    ASSUME NEW row \in CaseRow, GoodRow(row), row.auditor # NULL,
           row.status \in {"READY_FOR_REVIEW", "AUDITOR_REVIEW"}
    PROVE  LET new == [row EXCEPT !.status = "READY_FOR_REVIEW", !.auditor = NULL]
           IN  \/ Place(row) = "held" /\ CustodyOf(new) = Abstract!At("returned", NULL)
               \/ Place(row) = "manager" /\ CustodyOf(new) = Abstract!At("manager", NULL)
<1> DEFINE new == [row EXCEPT !.status = "READY_FOR_REVIEW", !.auditor = NULL]
<1>1. row.status # NULL /\ row.visibility = "ASSIGNED_ONLY"
    BY RulesAssumption DEF GoodRow, Statuses
<1>2. /\ new \in CaseRow /\ new.status # NULL /\ new.flag = row.flag /\ new.auditor = NULL
      /\ new.visibility = "ASSIGNED_ONLY"
    BY <1>1, RulesAssumption DEF CaseRow, Statuses
<1> HIDE DEF new
<1>3. ASSUME row.flag = NULL
      PROVE  Place(row) = "held" /\ CustodyOf(new) = Abstract!At("returned", NULL)
    BY <1>1, <1>2, <1>3, PlaceOfRow DEF CustodyOf, Abstract!At
<1>4. ASSUME row.flag # NULL
      PROVE  Place(row) = "manager" /\ CustodyOf(new) = Abstract!At("manager", NULL)
    BY <1>1, <1>2, <1>4, PlaceOfRow DEF CustodyOf, Abstract!At
<1> QED
    BY <1>3, <1>4 DEF new

LEMMA StopShiftHands ==
    ASSUME TypeOK, CaseInv, NEW a \in Auditors, StopShift(a) PROVE AbstractStep
<1> DEFINE S  == {c \in Cases : /\ cases[c].auditor = a
                               /\ cases[c].status \in {"READY_FOR_REVIEW", "AUDITOR_REVIEW"}}
           to == [c \in S |-> IF Abstract!Is(c, "held") THEN Abstract!At("returned", NULL)
                              ELSE Abstract!At("manager", NULL)]
<1>1. ASSUME NEW c \in S
      PROVE  /\ Abstract!Is(c, "held") \/ Abstract!Is(c, "manager")
             /\ Hands[c].auditor = a
             /\ CustodyOf(cases'[c]) = to[c]
  <2> DEFINE row == cases[c]
             new == [row EXCEPT !.status = "READY_FOR_REVIEW", !.auditor = NULL]
  <2>1. /\ row \in CaseRow /\ GoodRow(row) /\ row.auditor # NULL /\ row.auditor = a
        /\ row.status \in {"READY_FOR_REVIEW", "AUDITOR_REVIEW"}
      BY NullIsNobody DEF TypeOK, CaseInv
  <2>2. cases'[c] = new
      BY DEF StopShift
  <2> HIDE DEF row
  <2>3. \/ Place(row) = "held" /\ CustodyOf(new) = Abstract!At("returned", NULL)
        \/ Place(row) = "manager" /\ CustodyOf(new) = Abstract!At("manager", NULL)
      BY <2>1, StoppedRowMoves
  <2>4. /\ Abstract!Is(c, "held") <=> Place(row) = "held"
        /\ Abstract!Is(c, "manager") <=> Place(row) = "manager"
        /\ Hands[c].auditor = a
      BY <2>1, AtPlace DEF row
  <2> HIDE DEF new
  <2> QED
      BY <2>2, <2>3, <2>4
<1>2. \A c \in Cases : CustodyOf(cases'[c]) = IF c \in S THEN to[c] ELSE CustodyOf(cases[c])
    BY <1>1 DEF StopShift
<1>3. S \in SUBSET Cases
    OBVIOUS
<1> HIDE DEF S, to
<1>4. Abstract!Moves(S, to)
    BY <1>2, <1>3, MovesTo
<1>5. Abstract!StopShift(a, S)
    BY <1>1, <1>4 DEF Abstract!StopShift, to
<1> QED
    BY <1>3, <1>5 DEF AbstractStep, Abstract!Next, Auditors, Abstract!Auditors

LEMMA AuditorStepHands ==
    ASSUME TypeOK, CaseInv, NEW a \in Auditors, AuditorStep(a) PROVE AbstractStep
<1>1. CASE ReleaseAllCasesAtLimit(a)
  <2> DEFINE S == {c \in Cases : /\ cases[c].auditor = a
                                 /\ cases[c].status \in {"READY_FOR_REVIEW",
                                                         "AUDITOR_REVIEW"}
                                 /\ cases[c].flag = NULL}
  <2>1. \A d \in S : cases[d].status # NULL /\ cases[d].auditor = a
      BY RulesAssumption DEF Statuses
  <2>2. \A d \in Cases : cases'[d] = IF d \in S THEN [cases[d] EXCEPT !.flag = "CAP_REACHED"]
                                     ELSE cases[d]
      BY <1>1 DEF ReleaseAllCasesAtLimit
  <2>3. S \in SUBSET Cases /\ "CAP_REACHED" \in Flags
      BY DEF Flags
  <2> HIDE DEF S
  <2> QED
      BY <2>1, <2>2, <2>3, FlaggedHands
<1>2. CASE StopShift(a)
    BY <1>2, StopShiftHands
<1>3. CASE ListAvailableCases(a)
    BY <1>3, ReleasePlaces DEF ListAvailableCases, AbstractStep
<1>4. CASE UNCHANGED cases
    BY <1>4 DEF AbstractStep, Hands
<1> QED
    BY <1>1, <1>2, <1>3, <1>4
    DEF AuditorStep, SetExposureLimit, LogCheckIn, RequestBreak, WithdrawBreakRequest,
        ApproveBreakRequest, GetMyWellbeing

LEMMA SystemStepHands ==
    ASSUME TypeOK,
           \/ \E i \in DOMAIN alerts : AlertStep(i)
           \/ ReleaseWaitingCases \/ DailyCommits
           \/ WorkdayStarts \/ Tick \/ Restart \/ UNCHANGED tables
    PROVE  AbstractStep
<1>1. CASE ReleaseWaitingCases
    BY <1>1, ReleasePlaces DEF ReleaseWaitingCases, AbstractStep
<1>2. CASE UNCHANGED cases
    BY <1>2 DEF AbstractStep, Hands
<1> QED
    BY <1>1, <1>2
    DEF AlertStep, AcknowledgeSosAlert, LogSosFollowUp, DailyCommits,
        WorkdayStarts, Tick, Restart, tables

(***************************************************************************)
(* A report is never taken back, so its analysis is always of a case.      *)
(***************************************************************************)
\* No abstract step leads to "unreported".
LEMMA ReportedStays ==
    ASSUME AbstractStep, NEW c \in Cases, ~Abstract!Is(c, "unreported")
    PROVE  Hands'[c].place # "unreported"
<1> USE DEF Abstract!Is, Abstract!At
<1>0. Hands = [d \in Cases |-> Hands[d]]
    BY DEF Hands
<1> DEFINE Hc == Hands[c]
<1>1. ASSUME NEW S \in SUBSET Cases, NEW to, Abstract!Moves(S, to),
             \A d \in S : to[d].place # "unreported"
      PROVE  Hands'[c].place # "unreported"
    BY <1>1 DEF Abstract!Moves
<1>2. ASSUME NEW d \in Cases, NEW k, Abstract!Move(d, k), k.place # "unreported"
      PROVE  Hands'[c].place # "unreported"
    BY <1>0, <1>2 DEF Abstract!Move
<1>3. CASE UNCHANGED Hands
    BY <1>3
<1>4. ASSUME NEW d \in Cases, Abstract!Report(d) \/ Abstract!Offer(d)
      PROVE  Hands'[c].place # "unreported"
    BY <1>2, <1>4 DEF Abstract!Report, Abstract!Offer
<1>5. ASSUME NEW S \in SUBSET Cases, NEW owner \in [S -> Standard],
             Abstract!Place(S, owner) \/ \E d \in Cases : Abstract!Withdraw(d, S, owner)
      PROVE  Hands'[c].place # "unreported"
  <2>1. CASE Abstract!Place(S, owner)
      BY <1>1, <2>1 DEF Abstract!Place
  <2>2. ASSUME NEW d \in Cases, Abstract!Withdraw(d, S, owner)
        PROVE  Hands'[c].place # "unreported"
    <3> DEFINE to == [e \in S \cup {d} |-> IF e \in S THEN Abstract!At("held", owner[e])
                                           ELSE Abstract!At("parked", NULL)]
    <3>1. Abstract!Moves(S \cup {d}, to)
        BY <2>2 DEF Abstract!Withdraw
    <3>2. \A e \in S \cup {d} : to[e].place # "unreported"
        OBVIOUS
    <3> HIDE DEF to
    <3> QED
        BY <1>1, <3>1, <3>2
  <2> QED
      BY <1>5, <2>1, <2>2
<1>6. ASSUME NEW d \in Cases, NEW a,
             Abstract!Claim(d, a) \/ Abstract!Reassign(d, a) \/ Abstract!Take(d, a)
      PROVE  Hands'[c].place # "unreported"
    BY <1>2, <1>6 DEF Abstract!Claim, Abstract!Reassign, Abstract!Take
<1>7. ASSUME NEW a, NEW S \in SUBSET Cases,
             Abstract!ToManager(a, S) \/ Abstract!StopShift(a, S)
      PROVE  Hands'[c].place # "unreported"
  <2>1. CASE Abstract!ToManager(a, S)
      BY <1>1, <2>1 DEF Abstract!ToManager
  <2>2. CASE Abstract!StopShift(a, S)
    <3> DEFINE to == [d \in S |-> IF Hands[d].place = "held" THEN Abstract!At("returned", NULL)
                                  ELSE Abstract!At("manager", NULL)]
    <3>1. Abstract!Moves(S, to)
        BY <2>2 DEF Abstract!StopShift
    <3>2. \A d \in S : to[d].place # "unreported"
        OBVIOUS
    <3> HIDE DEF to
    <3> QED
        BY <1>1, <3>1, <3>2
  <2> QED
      BY <1>7, <2>1, <2>2
<1> QED
    BY <1>3, <1>4, <1>5, <1>6, <1>7 DEF AbstractStep, Abstract!Next

\* A background analysis begins with a report and nothing else.
LEMMA AnalysisStarts ==
    ASSUME TypeOK, Next, NEW c \in Cases, analysis[c] = "idle", analysis'[c] # "idle"
    PROVE  CreateReport(c)
<1>1. ASSUME NEW d \in Cases, CaseStep(d) PROVE CreateReport(c)
    BY <1>1
    DEF TypeOK, CaseStep, CreateReport, AnalysisStep, AnalysisLoad, AnalysisRefused,
        AnalysisStartRun, AnalysisFinish, AnalysisRaises, InsertMockAiResult,
        MakeAvailable, WithdrawRelease, CloseWithoutReassignment
<1>2. ASSUME NEW a \in Auditors, NEW d \in Cases, ReviewStep(a, d) PROVE FALSE
    BY <1>2
    DEF ReviewStep, AcknowledgeContentWarning, ResolveCase, DeclineCase,
        ReleaseCaseAtLimit, RecordExposure, TriggerSos, TakeCase, ClaimCase, ReassignCase
<1>3. ASSUME NEW a \in Auditors, AuditorStep(a) PROVE FALSE
    BY <1>3
    DEF AuditorStep, ReleaseAllCasesAtLimit, StopShift, ListAvailableCases,
        SetExposureLimit, LogCheckIn, RequestBreak, WithdrawBreakRequest,
        ApproveBreakRequest, GetMyWellbeing
<1>4. ASSUME NEW i \in DOMAIN alerts, AlertStep(i) PROVE FALSE
    BY <1>4 DEF AlertStep, AcknowledgeSosAlert, LogSosFollowUp
<1>5. ASSUME \/ ReleaseWaitingCases \/ PassCommits \/ DailyCommits
             \/ WorkdayStarts \/ Tick \/ Restart \/ UNCHANGED tables
      PROVE  FALSE
    BY <1>5 DEF ReleaseWaitingCases, PassCommits, DailyCommits, WorkdayStarts, Tick,
                Restart, tables
<1> QED
    BY <1>1, <1>2, <1>3, <1>4, <1>5, StepKinds DEF HandlerStep, Handler

\* The thread and the requests that start an analysis: it runs for a row.
LEMMA AnalysedStep ==
    ASSUME TypeOK, TypeOK', Analysed, AbstractStep, Next PROVE Analysed'
<1>1. ASSUME NEW c \in Cases, cases[c].status # NULL PROVE cases'[c].status # NULL
  <2>1. ~Abstract!Is(c, "unreported")
      BY <1>1, AtPlace, PlaceOfRow DEF CaseRow, Visibilities
  <2>2. Hands'[c].place # "unreported"
      BY <2>1, ReportedStays
  <2>3. Place(cases'[c]) # "unreported"
      BY <2>2 DEF Hands, CustodyOf
  <2>4. cases'[c] \in CaseRow
      BY DEF TypeOK
  <2> QED
      BY <2>3, <2>4, PlaceOfRow
<1>2. ASSUME NEW c \in Cases, analysis'[c] # "idle", analysis[c] = "idle"
      PROVE  cases'[c].status # NULL
  <2>1. CreateReport(c)
      BY <1>2, AnalysisStarts DEF TypeOK
  <2> QED
      BY <2>1, RulesAssumption DEF CreateReport, TypeOK, CaseRow, Statuses
<1> QED
    BY <1>1, <1>2 DEF Analysed

LEMMA InitHands == Init => Abstract!Init /\ Analysed
<1>1. Init => Hands = [c \in Cases |-> CustodyOf(NoCase)]
    BY DEF Init, Hands
<1>2. CustodyOf(NoCase) = Abstract!At("unreported", NULL)
    BY DEF CustodyOf, Place, NoCase, Abstract!At
<1> QED
    BY <1>1, <1>2 DEF Abstract!Init, Init, Analysed

LEMMA HandsStep ==
    ASSUME TypeOK, TypeOK', PassInv, CaseInv, Analysed, [Next]_vars
    PROVE  AbstractStep /\ Analysed'
<1>1. CASE UNCHANGED vars
    BY <1>1 DEF vars, AbstractStep, Hands, Analysed
<1>2. CASE Next
  <2>1. AbstractStep
    <3>1. CASE HandlerStep
        BY <3>1, CaseStepHands, ReviewStepHands, AuditorStepHands, SystemStepHands
        DEF HandlerStep, Handler
    <3>2. CASE PassCommits
        BY <3>2, PassCommitsHands DEF AbstractStep
    <3>3. CASE DailyCommits \/ WorkdayStarts \/ Tick \/ Restart \/ UNCHANGED tables
        BY <3>3, SystemStepHands
    <3> QED
        BY <1>2, <3>1, <3>2, <3>3, StepKinds
  <2> QED
      BY <1>2, <2>1, AnalysedStep
<1> QED
    BY <1>1, <1>2

\* The workflow implements Custody: whatever the handlers, the analysis thread
\* and the scheduler do, a case moves between hands only as Custody says.
THEOREM ImplementsCustody == Spec => CustodySpec
<1>1. Init => Abstract!Init /\ Analysed
    BY InitHands
<1>2. TypeOK /\ TypeOK' /\ PassInv /\ CaseInv /\ Analysed /\ [Next]_vars
        => [Abstract!Next]_Hands /\ Analysed'
    BY HandsStep DEF AbstractStep
<1> QED
    BY <1>1, <1>2, TypeCorrect, JobsInvHolds, CaseInvHolds, PTL
    DEF Spec, CustodySpec, Abstract!Spec

(***************************************************************************)
(* The fallback queue: its order, and what a pass of the automatic release *)
(* does to the load.                                                       *)
(***************************************************************************)
Ranked(q) == {c \in Cases : q[c] # 0}

\* The queued times are ranks: no two the same, none past the length.
Ordered(q) == /\ \A c \in Cases : q[c] <= Cardinality(Ranked(q))
              /\ \A c, d \in Cases : q[c] # 0 /\ q[c] = q[d] => c = d

(***************************************************************************)
(* ParkedCasesAreQueued is not inductive: a case parked now gets the rank  *)
(* after the last one, which is new only if no rank is past the length of  *)
(* the queue, and the ranks of cases that left it stay.                    *)
(***************************************************************************)
QueueInv == /\ Ordered(queued)
            /\ \A c \in Cases : cases[c].visibility = "SUPER_ADMIN_ONLY" => queued[c] # 0

LEMMA RankedFinite ==
    ASSUME NEW q PROVE IsFiniteSet(Ranked(q)) /\ Cardinality(Ranked(q)) \in Nat
<1>1. Ranked(q) \in SUBSET Cases
    BY DEF Ranked
<1> QED
    BY <1>1, RulesAssumption, FS_Subset, FS_CardinalityType

LEMMA QueuedNowOrdered ==
    ASSUME NEW q \in [Cases -> Nat], Ordered(q), NEW c \in Cases
    PROVE  LET new == QueuedNow(q, c)
           IN  /\ Ordered(new)
               /\ \A d \in Cases : d = c \/ q[d] # 0 => new[d] # 0
<1> DEFINE new == QueuedNow(q, c)
           n   == Cardinality(Ranked(q))
           m   == Cardinality(Ranked(q) \cup {c})
<1>1. n \in Nat /\ IsFiniteSet(Ranked(q))
    BY RankedFinite
<1>2. m = IF q[c] # 0 THEN n ELSE n + 1
    BY <1>1, FS_AddElement DEF Ranked
<1>3. \A d \in Cases : q[d] \in Nat /\ q[d] <= n
    BY DEF Ordered
<1>4. \A d, e \in Cases : q[d] # 0 /\ q[d] = q[e] => d = e
    BY DEF Ordered
<1>5. \A d \in Cases : new[d] = IF d = c THEN m
                                ELSE IF q[c] # 0 /\ q[d] > q[c] THEN q[d] - 1
                                ELSE q[d]
    BY DEF QueuedNow, Ranked
<1> HIDE DEF new, n, m
<1>6. \A d \in Cases : (new[d] # 0 <=> d = c \/ q[d] # 0) /\ new[d] <= m
    BY <1>1, <1>2, <1>3, <1>5
<1>7. Ranked(new) = Ranked(q) \cup {c}
    BY <1>6 DEF Ranked
<1>8. ASSUME NEW d \in Cases, NEW e \in Cases, new[d] # 0, new[d] = new[e] PROVE d = e
  <2>1. \A x \in Cases \ {c} : new[x] < m
      BY <1>1, <1>2, <1>3, <1>4, <1>5
  <2>2. CASE d = c \/ e = c
      BY <1>5, <1>8, <2>1, <2>2, <1>1, <1>2
  <2>3. CASE d # c /\ e # c
    <3>1. q[d] # q[c] \/ q[c] = 0
        BY <1>4, <2>3
    <3>2. q[e] # q[c] \/ q[c] = 0
        BY <1>4, <2>3
    <3>3. q[d] = q[e]
        BY <1>3, <1>5, <1>8, <2>3, <3>1, <3>2
    <3>4. q[d] # 0
        BY <1>6, <1>8, <2>3
    <3> QED
        BY <1>4, <3>3, <3>4
  <2> QED
      BY <2>2, <2>3
<1>9. Ordered(new)
    BY <1>6, <1>7, <1>8 DEF Ordered, m
<1> QED
    BY <1>6, <1>9 DEF new

\* Only a report nobody is fit for and a withdrawal park a case; both queue it.
LEMMA ParkedStays ==
    ASSUME QueueInv, UNCHANGED queued,
           \A c \in Cases : cases'[c].visibility = "SUPER_ADMIN_ONLY"
                               => cases[c].visibility = "SUPER_ADMIN_ONLY"
    PROVE  QueueInv'
  BY DEF QueueInv, Ordered, Ranked

LEMMA ParkedNow ==
    ASSUME TypeOK, QueueInv, NEW c \in Cases, queued' = QueuedNow(queued, c),
           \A d \in Cases : cases'[d].visibility = "SUPER_ADMIN_ONLY"
                               => d = c \/ cases[d].visibility = "SUPER_ADMIN_ONLY"
    PROVE  QueueInv'
<1>1. queued \in [Cases -> Nat] /\ Ordered(queued)
    BY DEF TypeOK, QueueInv
<1>2. Ordered(queued') /\ \A d \in Cases : d = c \/ queued[d] # 0 => queued'[d] # 0
    BY <1>1, QueuedNowOrdered
<1>3. Ordered(queued)'
    BY <1>2 DEF Ordered, Ranked
<1> QED
    BY <1>2, <1>3 DEF QueueInv

LEMMA ReleasedParked ==
    ASSUME NEW cs \in [Cases -> CaseRow], NEW q,
           NEW r \in ReleasedRows(cs, auditors, turn, q, OnBreak),
           NEW c \in Cases, r.cases[c].visibility = "SUPER_ADMIN_ONLY"
    PROVE  cs[c].visibility = "SUPER_ADMIN_ONLY"
<1>1. CASE r.cases[c] = Assigned(cs[c], r.cases[c].auditor)
    BY <1>1 DEF Assigned, CaseRow
<1> QED
    BY <1>1, ReleasedRow

LEMMA CaseStepQueue ==
    ASSUME TypeOK, QueueInv, NEW c \in Cases, CaseStep(c) PROVE QueueInv'
<1>0. cases \in [Cases -> CaseRow]
    BY DEF TypeOK
<1>1. CASE CreateReport(c)
  <2>1. CASE \E a : /\ cases' = [cases EXCEPT ![c].status = "AI_PROCESSING",
                                              ![c].auditor = a]
                    /\ UNCHANGED queued
      BY <1>0, <2>1, ParkedStays DEF CaseRow
  <2>2. CASE /\ cases' = [cases EXCEPT ![c].status = "AI_PROCESSING",
                                       ![c].visibility = "SUPER_ADMIN_ONLY"]
             /\ queued' = QueuedNow(queued, c)
      BY <1>0, <2>2, ParkedNow
  <2> QED
      BY <1>1, <2>1, <2>2 DEF CreateReport
<1>2. CASE WithdrawRelease(c)
  <2> DEFINE parked == [cases EXCEPT ![c].visibility = "SUPER_ADMIN_ONLY"]
  <2>1. parked \in [Cases -> CaseRow]
      BY CaseRowColumns DEF Visibilities, TypeOK
  <2>2. PICK r \in ReleasedRows(parked, auditors, turn, QueuedNow(queued, c), OnBreak) :
            cases' = r.cases
      BY <1>2 DEF WithdrawRelease
  <2>3. \A d \in Cases \ {c} : parked[d] = cases[d]
      BY <1>0
  <2> HIDE DEF parked
  <2>4. \A d \in Cases : cases'[d].visibility = "SUPER_ADMIN_ONLY"
                            => d = c \/ cases[d].visibility = "SUPER_ADMIN_ONLY"
      BY <2>1, <2>2, <2>3, ReleasedParked
  <2> QED
      BY <1>2, <2>4, ParkedNow DEF WithdrawRelease
<1>3. CASE MakeAvailable(c)
    BY <1>0, <1>3, ParkedStays DEF MakeAvailable, CaseRow
<1>4. CASE AnalysisStep(c)
  <2>1. CASE AnalysisFinish(c)
    <3>1. UNCHANGED queued
        BY <2>1 DEF AnalysisFinish
    <3>2. ASSUME NEW t, cases' = [cases EXCEPT ![c].status = "READY_FOR_REVIEW", ![c].tier = t]
          PROVE  QueueInv'
        BY <1>0, <3>1, <3>2, ParkedStays DEF CaseRow
    <3>3. ASSUME cases' = [cases EXCEPT ![c].status = "READY_FOR_REVIEW",
                                        ![c].ai_failure = "vision"]
          PROVE  QueueInv'
        BY <1>0, <3>1, <3>3, ParkedStays DEF CaseRow
    <3> QED
        BY <2>1, <3>2, <3>3 DEF AnalysisFinish
  <2>2. CASE AnalysisLoad(c)
      BY <1>0, <2>2, ParkedStays DEF AnalysisLoad, CaseRow
  <2>3. CASE AnalysisRefused(c) \/ AnalysisStartRun(c)
      BY <1>0, <2>3, ParkedStays DEF AnalysisRefused, AnalysisStartRun, CaseRow
  <2> QED
      BY <1>4, <2>1, <2>2, <2>3 DEF AnalysisStep
<1>5. CASE AnalysisRaises(c)
    BY <1>5, ParkedStays DEF AnalysisRaises
<1>6. CASE InsertMockAiResult(c)
    BY <1>0, <1>6, ParkedStays DEF InsertMockAiResult, CaseRow
<1>7. CASE CloseWithoutReassignment(c)
    BY <1>0, <1>7, ParkedStays DEF CloseWithoutReassignment, CaseRow
<1> QED
    BY <1>1, <1>2, <1>3, <1>4, <1>5, <1>6, <1>7 DEF CaseStep

LEMMA ReviewStepQueue ==
    ASSUME TypeOK, QueueInv, NEW a \in Auditors, NEW c \in Cases, ReviewStep(a, c)
    PROVE  QueueInv'
<1>0. cases \in [Cases -> CaseRow]
    BY DEF TypeOK
<1>1. CASE TakeCase(a, c) \/ ClaimCase(a, c)
    BY <1>0, <1>1, ParkedStays DEF TakeCase, ClaimCase, Assigned, CaseRow
<1>2. CASE RecordExposure(a, c)
    BY <1>2, ParkedStays DEF RecordExposure
<1>3. CASE ReleaseCaseAtLimit(a, c)
    BY <1>0, <1>3, ParkedStays DEF ReleaseCaseAtLimit, CaseRow
<1>4. CASE AcknowledgeContentWarning(a, c) \/ DeclineCase(a, c) \/ TriggerSos(a, c)
    BY <1>0, <1>4, ParkedStays
    DEF AcknowledgeContentWarning, DeclineCase, TriggerSos, CaseRow
<1>5. CASE ResolveCase(a, c)
  <2>1. PICK o : cases' = [cases EXCEPT ![c].status = "COMPLETE", ![c].outcome = o]
      BY <1>5 DEF ResolveCase
  <2> QED
      BY <1>0, <1>5, <2>1, ParkedStays DEF ResolveCase, CaseRow
<1>6. CASE ReassignCase(c, a)
    BY <1>0, <1>6, ParkedStays DEF ReassignCase, CaseRow
<1> QED
    BY <1>1, <1>2, <1>3, <1>4, <1>5, <1>6 DEF ReviewStep

LEMMA AuditorStepQueue ==
    ASSUME TypeOK, QueueInv, NEW a \in Auditors, AuditorStep(a) PROVE QueueInv'
<1>0. cases \in [Cases -> CaseRow]
    BY DEF TypeOK
<1>1. CASE ReleaseAllCasesAtLimit(a)
    BY <1>0, <1>1, ParkedStays DEF ReleaseAllCasesAtLimit, CaseRow
<1>2. CASE StopShift(a)
    BY <1>0, <1>2, ParkedStays DEF StopShift, CaseRow
<1>3. CASE ListAvailableCases(a)
    BY <1>0, <1>3, ReleasedParked, ParkedStays DEF ListAvailableCases
<1>4. CASE UNCHANGED <<cases, queued>>
    BY <1>4, ParkedStays
<1> QED
    BY <1>1, <1>2, <1>3, <1>4
    DEF AuditorStep, SetExposureLimit, LogCheckIn, RequestBreak, WithdrawBreakRequest,
        ApproveBreakRequest, GetMyWellbeing

LEMMA SystemStepQueue ==
    ASSUME TypeOK, QueueInv,
           \/ \E i \in DOMAIN alerts : AlertStep(i)
           \/ ReleaseWaitingCases \/ DailyCommits
           \/ WorkdayStarts \/ Tick \/ Restart \/ UNCHANGED tables
    PROVE  QueueInv'
<1>1. CASE ReleaseWaitingCases
  <2>0. cases \in [Cases -> CaseRow]
      BY DEF TypeOK
  <2> QED
      BY <1>1, <2>0, ReleasedParked, ParkedStays DEF ReleaseWaitingCases
<1>2. CASE UNCHANGED <<cases, queued>>
    BY <1>2, ParkedStays
<1> QED
    BY <1>1, <1>2
    DEF AlertStep, AcknowledgeSosAlert, LogSosFollowUp, DailyCommits,
        WorkdayStarts, Tick, Restart, tables

LEMMA PassCommitsQueue ==
    ASSUME TypeOK, PassInv, QueueInv, PassCommits PROVE QueueInv'
<1>1. UNCHANGED queued
    BY DEF PassCommits
<1>2. ASSUME NEW c \in Cases, cases'[c].visibility = "SUPER_ADMIN_ONLY"
      PROVE  cases[c].visibility = "SUPER_ADMIN_ONLY"
    BY <1>2, PassGives DEF TypeOK, Assigned, CaseRow
<1> QED
    BY <1>1, <1>2, ParkedStays

LEMMA QueueInvHolds == Spec => []QueueInv
<1>1. Init => QueueInv
  <2> SUFFICES ASSUME Init PROVE QueueInv
      OBVIOUS
  <2>1. \A c \in Cases : queued[c] = 0 /\ cases[c].visibility = "ASSIGNED_ONLY"
      BY DEF Init, NoCase
  <2>2. Cardinality(Ranked(queued)) \in Nat
      BY RankedFinite
  <2> QED
      BY <2>1, <2>2 DEF QueueInv, Ordered
<1>2. TypeOK /\ PassInv /\ QueueInv /\ [Next]_vars => QueueInv'
  <2> SUFFICES ASSUME TypeOK, PassInv, QueueInv, [Next]_vars PROVE QueueInv'
      OBVIOUS
  <2>1. CASE UNCHANGED vars
      BY <2>1, ParkedStays DEF vars
  <2>2. CASE HandlerStep
      BY <2>2, CaseStepQueue, ReviewStepQueue, AuditorStepQueue, SystemStepQueue
      DEF HandlerStep, Handler
  <2>3. CASE PassCommits
      BY <2>3, PassCommitsQueue
  <2>4. CASE DailyCommits \/ WorkdayStarts \/ Tick \/ Restart \/ UNCHANGED tables
      BY <2>4, SystemStepQueue
  <2> QED
      BY <2>1, <2>2, <2>3, <2>4, StepKinds
<1> QED
    BY <1>1, <1>2, TypeCorrect, JobsInvHolds, PTL DEF Spec

\* No parked case is forgotten: each has its queued time and no two the same.
THEOREM ParkedQueued == Spec => []ParkedCasesAreQueued
<1>1. QueueInv => ParkedCasesAreQueued
    BY DEF QueueInv, Ordered, ParkedCasesAreQueued
<1> QED
    BY <1>1, QueueInvHolds, PTL

(***************************************************************************)
(* Finite sets of ranks have a last one: strict inclusion is well-founded, *)
(* so among the sets of ranks after some rank one is smallest.             *)
(***************************************************************************)
LEMMA LastOf ==
    ASSUME NEW S \in SUBSET Cases, S # {}, NEW q \in [Cases -> Nat]
    PROVE  \E c \in S : \A d \in S : q[d] <= q[c]
<1> DEFINE After(c) == {d \in S : q[d] > q[c]}
           T == {After(c) : c \in S}
<1>1. IsFiniteSet(S)
    BY RulesAssumption, FS_Subset
<1>2. T \subseteq SUBSET S /\ T # {}
    OBVIOUS
<1> HIDE DEF T
<1>3. PICK x \in T : \A y \in T : y \subseteq x => y = x
    BY <1>1, <1>2, SmallestSet
<1>4. PICK c \in S : x = After(c)
    BY DEF T
<1>5. ASSUME NEW d \in S, q[d] > q[c] PROVE FALSE
  <2>1. After(d) \in T
      BY DEF T
  <2>2. After(d) \subseteq After(c)
      BY <1>5
  <2>3. d \in After(c) /\ d \notin After(d)
      BY <1>5
  <2> QED
      BY <1>3, <1>4, <2>1, <2>2, <2>3
<1> QED
    BY <1>5

LEMMA ScoreGrows ==
    ASSUME NEW row \in AuditorRow, NEW m \in Int, NEW n \in Int, m <= n
    PROVE  Score(row, m) \in Int /\ Score(row, n) \in Int /\ Score(row, m) <= Score(row, n)
<1>1. UnitMinutes \in Int /\ row.exposure \in Int
    BY RulesAssumption DEF AuditorRow
<1> DEFINE u == UnitMinutes * row.exposure
<1>2. u \in Int
    BY <1>1
<1> HIDE DEF u
<1>3. u + 8 * m \in Int /\ u + 8 * n \in Int /\ u + 8 * m <= u + 8 * n
    BY <1>2
<1> QED
    BY <1>3 DEF Score, u

LEMMA FiniteCases ==
    ASSUME NEW S \in SUBSET Cases PROVE IsFiniteSet(S) /\ Cardinality(S) \in Nat
  BY RulesAssumption, FS_Subset, FS_CardinalityType

\* The cases a placement gave to x are new to x.
LEMMA LoadAfter ==
    ASSUME NEW cs \in [Cases -> CaseRow], NEW q, NEW placed, placed \subseteq Waiting(cs, q),
           NEW p, \A c \in placed : p[c] \in Auditors, NEW x \in Auditors
    PROVE  ActiveCount([c \in Cases |-> IF c \in placed THEN Assigned(cs[c], p[c]) ELSE cs[c]], x)
              = ActiveCount(cs, x) + Cardinality({c \in placed : p[c] = x})
<1> DEFINE new == [c \in Cases |-> IF c \in placed THEN Assigned(cs[c], p[c]) ELSE cs[c]]
           old == {c \in Cases : cs[c].auditor = x /\ cs[c].status # "COMPLETE"}
           got == {c \in placed : p[c] = x}
           all == {c \in Cases : new[c].auditor = x /\ new[c].status # "COMPLETE"}
<1>1. x # NULL
    BY NullIsNobody
<1>2. \A c \in placed : /\ c \in Cases
                        /\ cs[c].auditor = NULL
                        /\ cs[c].status # "COMPLETE"
                        /\ Assigned(cs[c], p[c]).auditor = p[c]
                        /\ Assigned(cs[c], p[c]).status = cs[c].status
    BY DEF Waiting, Assigned, CaseRow
<1>3. all = old \cup got
  <2>1. ASSUME NEW c \in placed PROVE c \in all <=> p[c] = x
    <3>1. c \in Cases /\ new[c] = Assigned(cs[c], p[c])
        BY <1>2
    <3>2. new[c].auditor = p[c] /\ new[c].status # "COMPLETE"
        BY <1>2, <3>1
    <3> HIDE DEF new
    <3> QED
        BY <3>1, <3>2
  <2>2. ASSUME NEW c \in Cases, c \notin placed PROVE c \in all <=> c \in old
    <3>1. new[c] = cs[c]
        BY <2>2
    <3> HIDE DEF new
    <3> QED
        BY <3>1
  <2>3. \A c \in placed : c \in Cases /\ c \notin old
      BY <1>1, <1>2
  <2>4. all \subseteq Cases /\ old \subseteq Cases /\ got \subseteq placed
        /\ \A c \in placed : c \in got <=> p[c] = x
      OBVIOUS
  <2> HIDE DEF all, old, got
  <2> QED
      BY <2>1, <2>2, <2>3, <2>4
<1>4. old \cap got = {}
    BY <1>1, <1>2
<1>5. old \in SUBSET Cases /\ got \in SUBSET Cases
    BY <1>2
<1> HIDE DEF old, got, all
<1>6. /\ IsFiniteSet(old) /\ IsFiniteSet(got)
      /\ Cardinality(old) \in Nat /\ Cardinality(got) \in Nat
    BY <1>5, FiniteCases
<1>7. /\ Cardinality(old \cap got) = 0
      /\ Cardinality(old \cup got) = Cardinality(old) + Cardinality(got)
                                     - Cardinality(old \cap got)
    BY <1>4, <1>6, FS_Union, FS_EmptySet
<1>8. Cardinality(all) = Cardinality(old) + Cardinality(got)
    BY <1>3, <1>6, <1>7
<1> QED
    BY <1>8 DEF ActiveCount, old, got, all, new

\* The last case given to a went to an Auditor with no more load than b.
LEMMA PlacedBalanced ==
    ASSUME NEW cs \in [Cases -> CaseRow], NEW as \in [Auditors -> AuditorRow],
           NEW q \in [Cases -> Nat], Ordered(q), NEW placed, placed \subseteq Waiting(cs, q),
           NEW candidates, candidates \subseteq Auditors, NEW t,
           NEW p \in [placed -> candidates],
           PlacedInOrder(p, cs, as, t, q, candidates),
           NEW a \in Auditors, NEW b \in candidates, NEW c \in placed, p[c] = a
    PROVE  LET new == [d \in Cases |-> IF d \in placed THEN Assigned(cs[d], p[d]) ELSE cs[d]]
           IN  Score(as[a], ActiveCount(new, a) - 1) <= Score(as[b], ActiveCount(new, b))
<1> DEFINE new    == [d \in Cases |-> IF d \in placed THEN Assigned(cs[d], p[d]) ELSE cs[d]]
           got(x) == {d \in placed : p[d] = x}
<1>0. placed \subseteq Cases /\ \A d \in placed : q[d] # 0
    BY DEF Waiting
<1>1. PICK e \in got(a) : \A d \in got(a) : q[d] <= q[e]
  <2>1. got(a) \in SUBSET Cases /\ got(a) # {}
      BY <1>0
  <2> HIDE DEF got
  <2> QED
      BY <2>1, LastOf
<1> DEFINE before      == {d \in placed : q[d] < q[e]}
           earlier(x)  == {d \in before : p[d] = x}
           score       == [x \in Auditors |-> Score(as[x], ActiveCount(cs, x)
                                                           + Cardinality(earlier(x)))]
<1>2. \A x \in Auditors : /\ ActiveCount(cs, x) \in Nat
                          /\ Cardinality(got(x)) \in Nat
                          /\ ActiveCount(new, x) = ActiveCount(cs, x) + Cardinality(got(x))
  <2> TAKE x \in Auditors
  <2>1. ActiveCount(cs, x) \in Nat
      BY FiniteCases DEF ActiveCount
  <2>2. got(x) \in SUBSET Cases
      BY <1>0
  <2>3. Cardinality(got(x)) \in Nat
      BY <2>2, FiniteCases
  <2>4. \A d \in placed : p[d] \in Auditors
      OBVIOUS
  <2>5. ActiveCount(new, x) = ActiveCount(cs, x) + Cardinality(got(x))
      BY <2>4, LoadAfter
  <2> QED
      BY <2>1, <2>3, <2>5
<1>3. Cardinality(earlier(a)) = Cardinality(got(a)) - 1
  <2>1. earlier(a) = got(a) \ {e}
    <3>1. \A d \in got(a) : d # e => q[d] < q[e]
        BY <1>0, <1>1 DEF Ordered
    <3> QED
        BY <1>0, <1>1, <3>1
  <2>2. got(a) \in SUBSET Cases
      BY <1>0
  <2> DEFINE mine == got(a)
  <2>3. earlier(a) = mine \ {e} /\ e \in mine
      BY <1>1, <2>1
  <2>4. IsFiniteSet(mine)
      BY <2>2, FiniteCases
  <2> HIDE DEF mine
  <2>5. Cardinality(mine \ {e}) = Cardinality(mine) - 1
      BY <2>3, <2>4, FS_RemoveElement
  <2> QED
      BY <2>3, <2>5 DEF mine
<1>4. Cardinality(earlier(b)) \in Nat /\ Cardinality(earlier(b)) <= Cardinality(got(b))
  <2>1. earlier(b) \in SUBSET got(b) /\ got(b) \in SUBSET Cases
      BY <1>0
  <2>2. IsFiniteSet(got(b))
      BY <2>1, FiniteCases
  <2> QED
      BY <2>1, <2>2, FS_Subset, FS_CardinalityType
<1>5. CASE a = b
  <2>0. ActiveCount(new, a) \in Int
    <3> HIDE DEF new, got
    <3> QED
        BY <1>2
  <2>1. /\ ActiveCount(new, a) \in Int /\ ActiveCount(new, a) - 1 \in Int
        /\ ActiveCount(new, a) - 1 <= ActiveCount(new, a)
    <3> HIDE DEF new
    <3> QED
        BY <2>0
  <2>2. as[a] \in AuditorRow
      OBVIOUS
  <2> HIDE DEF new
  <2> QED
      BY <1>5, <2>1, <2>2, ScoreGrows DEF new
<1>6. CASE a # b
  <2>1. p[e] = a /\ e \in placed /\ b \in candidates \ {p[e]}
      BY <1>1, <1>6
  <2> DEFINE when == [x \in Auditors |-> LastGiven(p, q, before, x)]
  <2>2. ComesBefore(score, when, t, p[e], b)
      BY <2>1 DEF PlacedInOrder
  <2>3. /\ score[a] = Score(as[a], ActiveCount(cs, a) + Cardinality(earlier(a)))
        /\ score[b] = Score(as[b], ActiveCount(cs, b) + Cardinality(earlier(b)))
      OBVIOUS
  <2> HIDE DEF score, earlier, when, new, got
  <2>4. score[a] < score[b] \/ score[a] = score[b]
      BY <2>1, <2>2 DEF ComesBefore
  <2>5. score[a] = Score(as[a], ActiveCount(new, a) - 1)
    <3>1. ActiveCount(cs, a) + Cardinality(earlier(a)) = ActiveCount(new, a) - 1
        BY <1>2, <1>3
    <3> QED
        BY <2>3, <3>1
  <2>6. score[b] <= Score(as[b], ActiveCount(new, b))
    <3>1. /\ ActiveCount(cs, b) + Cardinality(earlier(b)) <= ActiveCount(new, b)
          /\ ActiveCount(cs, b) + Cardinality(earlier(b)) \in Int
          /\ ActiveCount(new, b) \in Int
        BY <1>2, <1>4
    <3>2. as[b] \in AuditorRow
        OBVIOUS
    <3> QED
        BY <2>3, <3>1, <3>2, ScoreGrows
  <2>7. score[a] \in Int /\ score[b] \in Int /\ Score(as[b], ActiveCount(new, b)) \in Int
    <3>1. /\ ActiveCount(cs, a) + Cardinality(earlier(a)) \in Int
          /\ ActiveCount(cs, b) + Cardinality(earlier(b)) \in Int
          /\ ActiveCount(new, b) \in Int
        BY <1>2, <1>3, <1>4
    <3>2. as[a] \in AuditorRow /\ as[b] \in AuditorRow
        OBVIOUS
    <3>3. \A n \in Int : n <= n
        OBVIOUS
    <3>4. \A n \in Int : Score(as[a], n) \in Int /\ Score(as[b], n) \in Int
        BY <3>2, <3>3, ScoreGrows
    <3> QED
        BY <2>3, <3>1, <3>4
  <2> DEFINE goal1 == Score(as[a], ActiveCount(new, a) - 1)
             goal2 == Score(as[b], ActiveCount(new, b))
             sa == score[a]
             sb == score[b]
  <2>8. /\ sa < sb \/ sa = sb
        /\ goal1 = sa
        /\ sb <= goal2
        /\ sa \in Int /\ sb \in Int /\ goal2 \in Int
      BY <2>4, <2>5, <2>6, <2>7
  <2> HIDE DEF goal1, goal2, sa, sb
  <2>9. goal1 <= goal2
      BY <2>8
  <2> QED
      BY <2>9 DEF new, goal1, goal2
<1> QED
    BY <1>5, <1>6

\* Who FitForRelease calls fit is a candidate, once a due reset is applied.
LEMMA FitWhenReset ==
    ASSUME TypeOK, NEW b \in Auditors, FitForRelease(b)
    PROVE  /\ b \in Standard \ OnBreak
           /\ breaks[b].left = 0
           /\ ~InCooldown(ResetDaily(auditors[b]))
           /\ ~CheckInPending(ResetDaily(auditors[b]))
           /\ ~AtLimit(ResetDaily(auditors[b]))
           /\ ~HasOpenSos(cases, b)
<1> DEFINE row == auditors[b]
           new == ResetDaily(row)
<1>1. b \in Standard \ OnBreak /\ breaks[b].left = 0 /\ row \in AuditorRow
    BY DEF FitForRelease, OnBreak, TypeOK
<1>2. /\ row.cooldown = 0
      /\ row.trigger \in {"S4", "SOS"} => row.check_in_done
      /\ row.reset_due \/ row.exposure < EffectiveLimit(row)
    BY DEF FitForRelease
<1> HIDE DEF row
<1>3. ~InCooldown(new) /\ ~CheckInPending(new)
    BY <1>1, <1>2 DEF ResetDaily, InCooldown, CheckInPending, AuditorRow
<1>4. ~AtLimit(new)
  <2>1. CASE row.reset_due
    <3>1. new.exposure = 0 /\ new.limit = row.limit
        BY <1>1, <2>1 DEF ResetDaily, AuditorRow
    <3> QED
        BY <1>1, <3>1, RulesAssumption DEF AtLimit, EffectiveLimit, AuditorRow
  <2>2. CASE ~row.reset_due
    <3>1. new = row
        BY <2>2 DEF ResetDaily
    <3>2. row.exposure \in Nat /\ EffectiveLimit(row) \in Nat
        BY <1>1, EffectiveLimitType DEF AuditorRow
    <3> QED
        BY <1>2, <2>2, <3>1, <3>2 DEF AtLimit
  <2> QED
      BY <2>1, <2>2
<1>5. ~HasOpenSos(cases, b)
    BY DEF FitForRelease, HasOpenSos
<1> QED
    BY <1>1, <1>3, <1>4, <1>5 DEF row

LEMMA FitIsCandidate ==
    ASSUME TypeOK, NEW b \in Auditors, FitForRelease(b)
    PROVE  /\ b \in AssignmentCandidates(ResetFor(auditors, Standard \ OnBreak), OnBreak)
           /\ ~HasOpenSos(cases, b)
<1>1. b \in Standard \ OnBreak
    BY FitWhenReset
<1>2. ResetFor(auditors, Standard \ OnBreak)[b] = ResetDaily(auditors[b])
    BY <1>1 DEF ResetFor
<1> QED
    BY <1>1, <1>2, FitWhenReset DEF AssignmentCandidates

LEMMA ReleaseBalances ==
    ASSUME TypeOK, QueueInv, ReleaseWaitingCases,
           NEW c \in Cases, NEW a \in Auditors, NEW b \in Auditors,
           cases[c].auditor = NULL, cases'[c].auditor = a, FitForRelease(b)
    PROVE  Score(auditors'[a], ActiveCount(cases', a) - 1)
              <= Score(auditors'[b], ActiveCount(cases', b))
<1> DEFINE waiting    == Waiting(cases, queued)
           rows       == ResetFor(auditors, Standard \ OnBreak)
           candidates == {x \in AssignmentCandidates(rows, OnBreak) : ~HasOpenSos(cases, x)}
           given(p)   == [d \in Cases |-> IF d \in waiting THEN Assigned(cases[d], p[d])
                                          ELSE cases[d]]
<1>1. b \in candidates
    BY FitIsCandidate
<1>2. PICK p \in [waiting -> candidates] :
          /\ PlacedInOrder(p, cases, rows, turn, queued, candidates)
          /\ cases' = given(p)
          /\ auditors' = rows
  <2>1. /\ waiting # {}
        /\ \E r \in ReleasedRows(cases, auditors, turn, queued, OnBreak) :
              cases' = r.cases /\ auditors' = r.auditors
      BY DEF ReleaseWaitingCases
  <2>2. candidates # {}
      BY <1>1
  <2>3. PICK r \in ReleasedRows(cases, auditors, turn, queued, OnBreak) :
            cases' = r.cases /\ auditors' = r.auditors
      BY <2>1
  <2> DEFINE row(p) == [cases    |-> given(p),
                        auditors |-> rows,
                        turn     |-> TurnAfter(turn, [x \in Auditors |->
                                                 LastGiven(p, queued, waiting, x)])]
  <2>4. \E p \in {f \in [waiting -> candidates] :
                     PlacedInOrder(f, cases, rows, turn, queued, candidates)} : r = row(p)
      BY <2>1, <2>2, <2>3 DEF ReleasedRows
  <2>5. PICK p \in [waiting -> candidates] :
            PlacedInOrder(p, cases, rows, turn, queued, candidates) /\ r = row(p)
      BY <2>4
  <2>6. r.cases = given(p) /\ r.auditors = rows
      BY <2>5
  <2> HIDE DEF given, waiting, rows, candidates
  <2> QED
      BY <2>3, <2>5, <2>6
<1>3. /\ cases \in [Cases -> CaseRow] /\ queued \in [Cases -> Nat] /\ Ordered(queued)
      /\ rows \in [Auditors -> AuditorRow]
    BY ResetForType DEF TypeOK, QueueInv
<1>4. candidates \subseteq Auditors
    BY DEF AssignmentCandidates, Auditors
<1>5. c \in waiting /\ p[c] = a
  <2>1. cases'[c] # cases[c]
      BY NullIsNobody
  <2>2. c \in waiting /\ cases'[c] = Assigned(cases[c], p[c])
      BY <1>2, <2>1
  <2>3. Assigned(cases[c], p[c]).auditor = p[c]
      BY <1>3 DEF Assigned, CaseRow
  <2> QED
      BY <2>2, <2>3
<1>6. waiting \subseteq Waiting(cases, queued)
    OBVIOUS
<1> HIDE DEF waiting, rows, candidates
<1>7. Score(rows[a], ActiveCount(given(p), a) - 1) <= Score(rows[b], ActiveCount(given(p), b))
    BY <1>1, <1>2, <1>3, <1>4, <1>5, <1>6, PlacedBalanced
<1> QED
    BY <1>2, <1>7

(***************************************************************************)
(* The job's pass, turn by turn: what it has given so far is balanced by   *)
(* the rows it read and the loads of now, for whoever nobody has touched.  *)
(***************************************************************************)
PassEven ==
    HasRead => \A a, b \in Standard \ pass.missed :
                  GivenTo(a) # {} /\ FitForRelease(b)
                     => Score(pass.rows[a], Load(a) - 1) <= Score(pass.rows[b], Load(b))

LEMMA LoadType ==
    ASSUME NEW a PROVE Load(a) \in Nat /\ ActiveCount(cases, a) \in Nat
<1>1. GivenTo(a) \in SUBSET Cases
    BY DEF GivenTo
<1>2. Cardinality(GivenTo(a)) \in Nat
    BY <1>1, FiniteCases
<1>3. ActiveCount(cases, a) \in Nat
    BY FiniteCases DEF ActiveCount
<1> QED
    BY <1>2, <1>3 DEF Load

\* Nothing the balance looks at changes for somebody nobody touches.
LEMMA UntouchedStays ==
    ASSUME NEW a \in Auditors, a \notin Missed
    PROVE  /\ ActiveCount(cases', a) = ActiveCount(cases, a)
           /\ FitForRelease(a)' => FitForRelease(a)
<1>1. /\ auditors'[a] = auditors[a] /\ breaks'[a] = breaks[a]
      /\ \A c \in Cases : cases'[c] = cases[c]
                          \/ (cases[c].auditor # a /\ cases'[c].auditor # a)
    BY DEF Missed
<1>2. ActiveCount(cases', a) = ActiveCount(cases, a)
  <2>1. {c \in Cases : cases'[c].auditor = a /\ cases'[c].status # "COMPLETE"}
          = {c \in Cases : cases[c].auditor = a /\ cases[c].status # "COMPLETE"}
      BY <1>1
  <2> QED
      BY <2>1 DEF ActiveCount
<1>3. FitForRelease(a)' => FitForRelease(a)
    BY <1>1 DEF FitForRelease
<1> QED
    BY <1>2, <1>3

LEMMA BesideEven ==
    ASSUME TypeOK, PassEven, pass'.given = pass.given, HasRead' => HasRead,
           \A a \in Standard \ pass'.missed :
              a \notin pass.missed /\ a \notin Missed /\ pass'.rows[a] = pass.rows[a]
    PROVE  PassEven'
<1> SUFFICES ASSUME HasRead', NEW a \in Standard \ pass'.missed,
                    NEW b \in Standard \ pass'.missed, GivenTo(a)' # {}, FitForRelease(b)'
             PROVE  Score(pass'.rows[a], Load(a)' - 1) <= Score(pass'.rows[b], Load(b)')
    BY DEF PassEven
<1>1. GivenTo(a)' = GivenTo(a) /\ GivenTo(b)' = GivenTo(b)
    BY DEF GivenTo
<1>2. /\ ActiveCount(cases', a) = ActiveCount(cases, a)
      /\ ActiveCount(cases', b) = ActiveCount(cases, b)
      /\ FitForRelease(b)
    BY UntouchedStays, StandardAreAuditors
<1>3. Load(a)' = Load(a) /\ Load(b)' = Load(b)
    BY <1>1, <1>2 DEF Load
<1>4. Score(pass.rows[a], Load(a) - 1) <= Score(pass.rows[b], Load(b))
    BY <1>1, <1>2 DEF PassEven
<1> QED
    BY <1>3, <1>4

LEMMA MissingEven ==
    ASSUME TypeOK, PassEven, PassMisses PROVE PassEven'
<1>1. pass \in Pass
    BY DEF TypeOK
<1>2. CASE HasRead
  <2>1. /\ pass'.rows = pass.rows /\ pass'.given = pass.given
        /\ pass'.missed = pass.missed \cup (Missed \cap Standard)
      BY <1>1, <1>2 DEF PassMisses, HasRead, Pass
  <2> QED
      BY <1>2, <2>1, BesideEven
<1>3. CASE ~HasRead
    BY <1>3 DEF PassMisses, HasRead, PassEven
<1> QED
    BY <1>2, <1>3

LEMMA ClockEven ==
    ASSUME TypeOK, PassInv, PassEven, WorkdayStarts \/ Tick PROVE PassEven'
<1>1. pass \in Pass
    BY DEF TypeOK
<1>2. CASE WorkdayStarts
  <2>1. HasRead' => HasRead /\ pass'.missed = Standard
      BY <1>1, <1>2 DEF WorkdayStarts, HasRead, Pass
  <2> QED
      BY <2>1 DEF PassEven
<1>3. CASE Tick
  <2>1. /\ pass'.phase = pass.phase /\ pass'.given = pass.given
        /\ HasRead => pass'.missed = pass.missed \cup (Missed \cap Standard)
        /\ \A a \in Standard :
              pass'.rows[a] = [pass.rows[a] EXCEPT !.cooldown = Less(pass.rows[a].cooldown)]
      BY SMTT(30), <1>1, <1>3 DEF Tick, HasRead, Pass
  <2>2. ASSUME HasRead, NEW a \in Standard \ pass'.missed
        PROVE  a \notin pass.missed /\ a \notin Missed /\ pass'.rows[a] = pass.rows[a]
    <3>1. a \notin pass.missed /\ a \notin Missed /\ ReadRight(a)
        BY <2>1, <2>2 DEF PassInv
    <3>2. auditors'[a] = auditors[a]
        BY <3>1, StandardAreAuditors DEF Missed
    <3>3. auditors'[a] = [auditors[a] EXCEPT !.cooldown = Less(auditors[a].cooldown)]
        BY <1>3, StandardAreAuditors DEF Tick
    <3>4. auditors[a] \in AuditorRow /\ pass.rows[a] \in AuditorRow
        BY <1>1, StandardAreAuditors DEF TypeOK, Pass
    <3>5. pass.rows[a].cooldown = auditors[a].cooldown
      <4>1. pass.rows[a] = auditors[a] \/ pass.rows[a] = ResetDaily(auditors[a])
          BY <3>1 DEF ReadRight
      <4>2. ResetDaily(auditors[a]).cooldown = auditors[a].cooldown
          BY ONLY <3>4 DEF ResetDaily, AuditorRow
      <4> QED
          BY ONLY <4>1, <4>2
    <3>6. Less(auditors[a].cooldown) = auditors[a].cooldown
        BY <3>2, <3>3, <3>4 DEF AuditorRow
    <3>7. pass'.rows[a] = pass.rows[a]
        BY <2>1, <3>4, <3>5, <3>6 DEF AuditorRow
    <3> QED
        BY <3>1, <3>7
  <2>3. HasRead' <=> HasRead
      BY <2>1 DEF HasRead
  <2>4. CASE HasRead
      BY <2>1, <2>2, <2>3, <2>4, BesideEven
  <2> QED
      BY <2>3, <2>4 DEF PassEven
<1> QED
    BY <1>2, <1>3

\* Who is fit can be chosen at every turn.
LEMMA FitIsFitNow ==
    ASSUME TypeOK, PassInv, NEW c \in Cases, PassPlaces(c),
           NEW b \in Standard \ pass.missed, FitForRelease(b)
    PROVE  b \in FitNow
<1>1. /\ b \in Standard \ OnBreak
      /\ breaks[b].left = 0
      /\ ~InCooldown(ResetDaily(auditors[b]))
      /\ ~CheckInPending(ResetDaily(auditors[b]))
      /\ ~AtLimit(ResetDaily(auditors[b]))
      /\ ~HasOpenSos(cases, b)
    BY FitWhenReset, StandardAreAuditors
<1>2. ReadRight(b)' /\ pass'.rows = RowsNow /\ UNCHANGED <<auditors, breaks>>
    BY PlacesRows, PlacesColumns DEF tables
<1>3. RowsNow[b] = ResetDaily(auditors[b])
  <2>1. \/ RowsNow[b] = auditors[b] /\ ~RowsNow[b].reset_due
        \/ RowsNow[b] = ResetDaily(auditors[b])
      BY <1>1, <1>2 DEF ReadRight
  <2> QED
      BY <2>1 DEF ResetDaily
<1> QED
    BY <1>1, <1>3 DEF FitNow, AssignmentCandidates

LEMMA GivenMore ==
    ASSUME TypeOK, NEW c \in Cases, c \notin Placed, NEW x \in Standard,
           pass'.given = [pass.given EXCEPT ![c] = x], UNCHANGED cases, NEW a \in Standard
    PROVE  /\ a # x => GivenTo(a)' = GivenTo(a) /\ Load(a)' = Load(a)
           /\ a = x => Load(a)' = Load(a) + 1
<1>1. pass.given \in [Cases -> Standard \cup {NULL}] /\ a # NULL /\ pass.given[c] = NULL
    BY NullIsNobody, StandardAreAuditors DEF TypeOK, Pass, Placed
<1>2. CASE a # x
  <2>1. GivenTo(a)' = GivenTo(a)
      BY <1>1, <1>2 DEF GivenTo
  <2> QED
      BY <1>2, <2>1 DEF Load
<1>3. CASE a = x
  <2> DEFINE old == GivenTo(a)
  <2>1. GivenTo(a)' = old \cup {c} /\ c \notin old
      BY <1>1, <1>3 DEF GivenTo
  <2>2. IsFiniteSet(old) /\ Cardinality(old) \in Nat
    <3>1. old \in SUBSET Cases
        BY DEF GivenTo
    <3> QED
        BY <3>1, FiniteCases
  <2> HIDE DEF old
  <2>3. Cardinality(GivenTo(a)') = Cardinality(old) + 1
      BY <2>1, <2>2, FS_AddElement
  <2>4. ActiveCount(cases, a) \in Nat
      BY LoadType
  <2>5. Load(a)' = ActiveCount(cases, a) + (Cardinality(old) + 1)
      BY <2>3 DEF Load
  <2>6. Load(a) = ActiveCount(cases, a) + Cardinality(old)
      BY DEF Load, old
  <2>7. Load(a)' = Load(a) + 1
      BY ONLY <2>2, <2>4, <2>5, <2>6
  <2> QED
      BY <1>3, <2>7
<1> QED
    BY <1>2, <1>3

\* A turn keeps the balance: it gives to the least loaded of all who are fit.
LEMMA PlacesEven ==
    ASSUME TypeOK, PassInv, PassEven, NEW c \in Cases, PassPlaces(c) PROVE PassEven'
<1>0. /\ UNCHANGED <<cases, auditors, breaks>>
      /\ c \notin Placed /\ pass'.rows = RowsNow /\ pass'.missed = pass.missed
    BY PlacesColumns DEF tables
<1> SUFFICES ASSUME NEW a \in Standard \ pass.missed, NEW b \in Standard \ pass.missed,
                    GivenTo(a)' # {}, FitForRelease(b)
             PROVE  Score(RowsNow[a], Load(a)' - 1) <= Score(RowsNow[b], Load(b)')
    BY <1>0 DEF PassEven, FitForRelease
<1>1. RowsNow[a] \in AuditorRow /\ RowsNow[b] \in AuditorRow
    BY SessionRowsType, ResetDailyType DEF RowsNow
<1>2. Load(a) \in Nat /\ Load(b) \in Nat
    BY LoadType
<1>3. \A n \in Int : Score(RowsNow[a], n) \in Int /\ Score(RowsNow[b], n) \in Int
  <2> TAKE n \in Int
  <2>1. n <= n
      OBVIOUS
  <2> QED
      BY <1>1, <2>1, ScoreGrows
\* Whoever had been given something keeps the balance they had.
<1>4. ASSUME GivenTo(a) # {}, Load(b)' \in Nat, Load(b) <= Load(b)', Load(a)' = Load(a)
      PROVE  Score(RowsNow[a], Load(a)' - 1) <= Score(RowsNow[b], Load(b)')
  <2>1. PICK d \in Placed : pass.given[d] = a
      BY <1>4, NullIsNobody, StandardAreAuditors DEF GivenTo, Placed
  <2>2. HasRead /\ GivenRight(d)
      BY <2>1 DEF PassInv, NothingRead
  <2>3. breaks[a].left = 0 /\ breaks[b].left = 0
      BY <2>1, <2>2 DEF GivenRight, FitForRelease
  <2>4. RowsNow[a] = pass.rows[a] /\ RowsNow[b] = pass.rows[b]
      BY <2>2, <2>3, PlacesRows
  <2>5. Score(RowsNow[a], Load(a) - 1) <= Score(RowsNow[b], Load(b))
      BY <1>4, <2>2, <2>4 DEF PassEven
  <2>6. Score(RowsNow[b], Load(b)) <= Score(RowsNow[b], Load(b)')
      BY <1>1, <1>2, <1>4, ScoreGrows
  <2>7. /\ Load(a) - 1 \in Int /\ Load(b) \in Int /\ Load(b)' \in Int
      BY <1>2, <1>4
  <2>8. /\ Score(RowsNow[a], Load(a) - 1) \in Int
        /\ Score(RowsNow[b], Load(b)) \in Int
        /\ Score(RowsNow[b], Load(b)') \in Int
      BY <1>3, <2>7
  <2>9. Score(RowsNow[a], Load(a) - 1) <= Score(RowsNow[b], Load(b)')
      BY ONLY <2>5, <2>6, <2>8
  <2> QED
      BY <1>4, <2>9
<1>5. CASE pass'.given = pass.given
  <2>1. GivenTo(a)' = GivenTo(a) /\ GivenTo(b)' = GivenTo(b)
      BY <1>5 DEF GivenTo
  <2>2. Load(a)' = Load(a) /\ Load(b)' = Load(b)
      BY <1>0, <2>1 DEF Load
  <2> QED
      BY <1>2, <1>4, <2>1, <2>2
<1>6. ASSUME NEW x \in FitNow,
             \A y \in FitNow \ {x} : ComesBefore(ScoreNow, GivenLast, turn, x, y),
             pass'.given = [pass.given EXCEPT ![c] = x]
      PROVE  Score(RowsNow[a], Load(a)' - 1) <= Score(RowsNow[b], Load(b)')
  <2>1. x \in Standard
      BY DEF FitNow, AssignmentCandidates
  <2>2. /\ a # x => GivenTo(a)' = GivenTo(a) /\ Load(a)' = Load(a)
        /\ a = x => Load(a)' = Load(a) + 1
        /\ b # x => Load(b)' = Load(b)
        /\ b = x => Load(b)' = Load(b) + 1
      BY <1>0, <1>6, <2>1, GivenMore
  <2>3. Load(b)' \in Nat /\ Load(b) <= Load(b)'
      BY <1>2, <2>2
  <2>4. CASE a # x
      BY <1>4, <2>2, <2>3, <2>4
  <2>5. CASE a = x
    <3>1. Load(a)' - 1 = Load(a) /\ Load(a) \in Int /\ Load(b)' \in Int
        BY <1>2, <2>2, <2>3, <2>5
    <3>2. CASE b = x
      <4>1. Load(b)' = Load(a) + 1
          BY <2>2, <2>5, <3>2
      <4>2. Load(a) <= Load(b)'
          BY <1>2, <4>1
      <4>3. Score(RowsNow[a], Load(a)) <= Score(RowsNow[a], Load(b)')
          BY <1>1, <3>1, <4>2, ScoreGrows
      <4> QED
          BY <2>5, <3>1, <3>2, <4>3
    <3>3. CASE b # x
      <4>1. b \in FitNow \ {x}
          BY <3>3, FitIsFitNow
      <4>2. ComesBefore(ScoreNow, GivenLast, turn, a, b)
          BY <1>6, <2>5, <4>1
      <4>3. ScoreNow[a] < ScoreNow[b] \/ ScoreNow[a] = ScoreNow[b]
          BY <4>2 DEF ComesBefore
      <4>4. /\ ScoreNow[a] = Score(RowsNow[a], Load(a))
            /\ ScoreNow[b] = Score(RowsNow[b], Load(b))
          BY DEF ScoreNow
      <4>5. Load(b)' = Load(b)
          BY <2>2, <3>3
      <4> DEFINE sa == Score(RowsNow[a], Load(a))
                 sb == Score(RowsNow[b], Load(b))
      <4>6. sa \in Int /\ sb \in Int /\ (sa < sb \/ sa = sb)
          BY <1>2, <1>3, <4>3, <4>4
      <4> HIDE DEF sa, sb
      <4>7. sa <= sb
          BY <4>6
      <4> QED
          BY <3>1, <4>5, <4>7 DEF sa, sb
    <3> QED
        BY <3>2, <3>3
  <2> QED
      BY <2>4, <2>5
<1> QED
    BY <1>5, <1>6, PlacesColumns

LEMMA PassEvenStep == TypeOK /\ PassInv /\ PassEven /\ [Next]_vars => PassEven'
<1> SUFFICES ASSUME TypeOK, PassInv, PassEven, [Next]_vars PROVE PassEven'
    OBVIOUS
<1>1. CASE UNCHANGED <<tables, pass>>
    BY <1>1 DEF PassEven, HasRead, GivenTo, Load, ActiveCount, FitForRelease, tables
<1>2. CASE PassMisses
    BY <1>2, MissingEven
<1>3. CASE PassBegins
  <2>1. pass'.phase = "locked"
      BY <1>3 DEF PassBegins, NoPass
  <2> QED
      BY <2>1 DEF PassEven, HasRead
<1>4. CASE \E c \in Cases : PassPlaces(c)
    BY <1>4, PlacesEven
<1>5. CASE PassCommits \/ PassFails \/ Restart
  <2>1. pass'.phase = "idle"
      BY <1>5 DEF PassCommits, PassFails, Restart, NoPass
  <2> QED
      BY <2>1 DEF PassEven, HasRead
<1>6. CASE WorkdayStarts \/ Tick
    BY <1>6, ClockEven
<1>7. CASE DailyReads \/ DailyFails \/ UNCHANGED vars
    BY <1>1, <1>7 DEF DailyReads, DailyFails, vars, tables
<1> QED
    BY <1>2, <1>3, <1>4, <1>5, <1>6, <1>7
    DEF Next, HandlerStep, PassStep, DailyStep, DailyCommits

LEMMA PassEvenHolds == Spec => []PassEven
<1>1. Init => PassEven
    BY DEF Init, NoPass, PassEven, HasRead
<1> QED
    BY <1>1, PassEvenStep, TypeCorrect, JobsInvHolds, PTL DEF Spec

LEMMA CommitBalances ==
    ASSUME TypeOK, PassInv, PassEven, PassCommits,
           NEW c \in Cases, NEW a \in Auditors, NEW b \in Auditors,
           a \notin pass.missed, b \notin pass.missed,
           cases[c].auditor = NULL, cases'[c].auditor = a, FitForRelease(b)
    PROVE  Score(auditors'[a], ActiveCount(cases', a) - 1)
              <= Score(auditors'[b], ActiveCount(cases', b))
<1>1. /\ HasRead /\ c \in Placed /\ pass.given[c] \in Standard
      /\ cases'[c] = Assigned(cases[c], pass.given[c])
    BY PassGives, NullIsNobody
<1>2. a = pass.given[c] /\ a \in Standard /\ GivenTo(a) # {}
    BY <1>1 DEF Assigned, CaseRow, TypeOK, GivenTo
<1>3. b \in Standard
    BY DEF FitForRelease
<1>4. auditors'[a] = pass.rows[a] /\ auditors'[b] = pass.rows[b]
    BY <1>1, <1>2, <1>3, CommittedRow DEF PassCommits
<1>5. ASSUME NEW x \in Standard PROVE ActiveCount(cases', x) = Load(x)
  <2> DEFINE q == [d \in Cases |-> 1]
  <2>1. /\ cases \in [Cases -> CaseRow] /\ x \in Auditors
        /\ \A d \in Placed : pass.given[d] \in Auditors
      BY StandardAreAuditors DEF TypeOK, Pass, Placed
  <2>2. Placed \subseteq Waiting(cases, q)
      BY PassGives DEF Waiting, WaitingRow, Placed
  <2> HIDE DEF q
  <2>3. ActiveCount([d \in Cases |-> IF d \in Placed THEN Assigned(cases[d], pass.given[d])
                                     ELSE cases[d]], x)
          = ActiveCount(cases, x) + Cardinality({d \in Placed : pass.given[d] = x})
      BY <2>1, <2>2, LoadAfter
  <2>4. {d \in Placed : pass.given[d] = x} = GivenTo(x)
      BY <2>1, NullIsNobody DEF Placed, GivenTo
  <2>5. cases' = [d \in Cases |-> IF d \in Placed THEN Assigned(cases[d], pass.given[d])
                                  ELSE cases[d]]
      BY DEF PassCommits
  <2> QED
      BY <2>3, <2>4, <2>5 DEF Load
<1>6. Score(pass.rows[a], Load(a) - 1) <= Score(pass.rows[b], Load(b))
    BY <1>1, <1>2, <1>3 DEF PassEven
<1> QED
    BY <1>2, <1>3, <1>4, <1>5, <1>6

\* A pass leaves the load balanced, however many cases it placed and whatever
\* the Auditors already had; the job's pass does among those whom nobody has
\* touched since it read.
THEOREM ReleaseBalanced == Spec => ReleaseIsBalanced
<1>1. ASSUME TypeOK, PassInv, QueueInv, PassEven, [Next]_vars
      PROVE  [\A c \in Cases, a, b \in Auditors :
                   /\ cases[c].auditor = NULL
                   /\ cases'[c].auditor = a
                   /\ FitForRelease(b)
                   /\ ReleaseWaitingCases \/ (PassCommits /\ {a, b} \cap pass.missed = {})
                   => Score(auditors'[a], ActiveCount(cases', a) - 1)
                        <= Score(auditors'[b], ActiveCount(cases', b))]_vars
    BY <1>1, ReleaseBalances, CommitBalances
<1> QED
    BY <1>1, TypeCorrect, JobsInvHolds, QueueInvHolds, PassEvenHolds, PTL
    DEF Spec, ReleaseIsBalanced
=============================================================================
