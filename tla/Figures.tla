------------------------------ MODULE Figures ------------------------------
(***************************************************************************)
(* The figures of the mock data source: those of a report                  *)
(* (reportMetrics.ts), of the Manager's dashboard (intelligence.ts), of a  *)
(* client's results and of the comparison of the AI with the Auditors      *)
(* (b2b.ts). Four pieces of code count the same rows with filters of their *)
(* own; SameStory says how their answers agree.                            *)
(*                                                                         *)
(* No variables. "rows" is the set of what records() makes of the stored   *)
(* cases, "sent" a set of deliveries; days stand for timestamps, a period  *)
(* is a pair of days. Rates are quotients of the counts; medians, titles   *)
(* and lists of ids are left out.                                          *)
(***************************************************************************)
EXTENDS Integers, FiniteSets

CONSTANTS NULL, CaseIds

SeverityTier     == {"S1", "S2", "S3", "S4"}
FinalOutcome     == {"POLICY_VIOLATION_FOUND", "NO_VIOLATION_FOUND"}
DeliveredOutcome == FinalOutcome \cup {"CLOSED_NO_REASSIGNMENT"}
ManagerFlag      == {"DECLINED", "SOS", "CAP_REACHED"}
CaseStatus       == {"AI_PROCESSING", "READY_FOR_REVIEW", "AUDITOR_REVIEW", "COMPLETE"}
DeliveryStatus   == {"PENDING", "RETRYING", "SUCCESS", "NEEDS_ATTENTION"}
OPEN_BUCKETS     == {"SUBMITTED", "MANAGER_ACTION"} \cup (CaseStatus \ {"COMPLETE"})

CaseRecord == [case_id : CaseIds, live : BOOLEAN,
               status : CaseStatus, flag : ManagerFlag \cup {NULL},
               created : Nat, completed : Nat \cup {NULL},
               aiTier : SeverityTier \cup {NULL}, finalTier : SeverityTier \cup {NULL},
               outcome : DeliveredOutcome \cup {NULL}]

\* How many of the set S have the property P, and for each k of K how many are k.
Count(S, P(_))    == Cardinality({x \in S : P(x)})
Tally(S, K, f(_)) == [k \in K |-> Count(S, LAMBDA x : f(x) = k)]

-----------------------------------------------------------------------------
(***************************************************************************)
(* Which cases a figure counts.                                            *)
(***************************************************************************)
In(p, day) == day # NULL /\ p[1] <= day /\ day <= p[2]

Received(rows, p)  == {r \in rows : In(p, r.created)}
Completed(rows, p) == {r \in rows : In(p, r.completed)}
Decided(rows, p)   == {r \in Completed(rows, p) : r.outcome \in FinalOutcome}

\* Mutant: an unrated case counts as compared, as S1.
ComparableUnrated(rows, p) == Decided(rows, p)

Comparable(rows, p) ==
    {r \in Decided(rows, p) : r.aiTier # NULL /\ r.finalTier # NULL}

Overridden(S) == {r \in S : r.aiTier # r.finalTier}

\* Received by the end of the period and not complete by then.
OpenAtEnd(rows, p) ==
    {r \in rows : r.created <= p[2] /\ (r.completed = NULL \/ r.completed > p[2])}

OpenLive(rows) == {r \in rows : r.live /\ r.status # "COMPLETE"}

OpenBucket(r) == IF r.flag # NULL THEN "MANAGER_ACTION"
                 ELSE IF r.status \in OPEN_BUCKETS THEN r.status ELSE "SUBMITTED"

BySeverity(S) == Tally(S, SeverityTier, LAMBDA r : r.finalTier)

\* deliveryHealth
DeliveryHealth(sent) == Tally(sent, DeliveryStatus, LAMBDA d : d.status)

InPeriod(sent, p) == {d \in sent : In(p, d.completed)}

ReportMetrics == [cases_received : Nat, cases_completed : Nat, open_at_end : Nat,
                  outcomes : [FinalOutcome -> Nat], severity_breakdown : [SeverityTier -> Nat],
                  compared : Nat, override_count : Nat, delivery : [DeliveryStatus -> Nat]]

-----------------------------------------------------------------------------
(***************************************************************************)
(* A report, the dashboard, a client's results, and the comparison.        *)
(***************************************************************************)
ComputeMetrics(rows, sent, p) ==
    LET decided == Decided(rows, p)
    IN  [cases_received     |-> Cardinality(Received(rows, p)),
         cases_completed    |-> Cardinality(Completed(rows, p)),
         open_at_end        |-> Cardinality(OpenAtEnd(rows, p)),
         outcomes           |-> Tally(decided, FinalOutcome, LAMBDA r : r.outcome),
         severity_breakdown |-> BySeverity(decided),
         compared           |-> Cardinality(Comparable(rows, p)),
         override_count     |-> Cardinality(Overridden(Comparable(rows, p))),
         delivery           |-> DeliveryHealth(InPeriod(sent, p))]

\* A failed delivery stays the Manager's unless they escalated it lately.
NeedsTheManager(d) == d.status = "NEEDS_ATTENTION" /\ d.escalated # "lately"

\* Without the Auditors and requests that wait for the Manager.
ComputeIntelligence(rows, sent, p) ==
    LET open       == OpenLive(rows)
        decided    == Decided(rows, p)
        comparable == Comparable(rows, p)
        flagged(f) == Count(open, LAMBDA r : r.flag = f)
        failed     == {d \in sent : NeedsTheManager(d)}
        matrix     == [from \in SeverityTier |-> [to \in SeverityTier |->
                         Count(comparable, LAMBDA r : r.aiTier = from /\ r.finalTier = to)]]
    IN  [total_cases    |-> Cardinality(Received(rows, p)),
         completed      |-> Cardinality(Completed(rows, p)),
         open_cases     |-> Cardinality(open),
         open_breakdown |-> Tally(open, OPEN_BUCKETS, LAMBDA r : OpenBucket(r)),
         attention      |-> [REASSIGNMENT    |-> flagged("DECLINED"),
                             CAP_INTERRUPTED |-> flagged("CAP_REACHED"),
                             FAILED_HANDOFF  |-> Cardinality(failed)],
         outcomes       |-> Tally(decided, FinalOutcome, LAMBDA r : r.outcome),
         severity       |-> BySeverity(decided),
         eligible       |-> Cardinality(comparable),
         overrides      |-> Cardinality(Overridden(comparable)),
         matrix         |-> matrix,
         health         |-> DeliveryHealth(InPeriod(sent, p))]

\* summariseCaseResults: only what has reached the client counts.
SummariseCaseResults(sent) ==
    LET delivered    == {d \in sent : d.status = "SUCCESS"}
        of(action)   == {d \in delivered : d.action = action}
        outcome(o)   == Count(delivered, LAMBDA d : d.outcome = o)
    IN  [delivered    |-> Cardinality(delivered),
         needs_action |-> Tally(of(NULL), DeliveredOutcome, LAMBDA d : d.outcome),
         violations   |-> outcome("POLICY_VIOLATION_FOUND"),
         decided      |-> Cardinality(delivered) - outcome("CLOSED_NO_REASSIGNMENT"),
         not_reviewed |-> outcome("CLOSED_NO_REASSIGNMENT"),
         removed      |-> Cardinality(of("REMOVED")),
         kept         |-> Cardinality(of("KEPT"))]

\* comparisonRows: every case of the history, and the live ones that were decided.
ComparisonRows(rows) ==
    {r \in rows :
        \/ ~r.live
        \/ /\ r.status = "COMPLETE" /\ r.outcome \in FinalOutcome
           /\ r.aiTier # NULL /\ r.finalTier # NULL /\ r.completed # NULL}

\* overridePatterns: how often each tier became which.
OverridePatterns(rows) ==
    LET changed == Overridden(ComparisonRows(rows))
    IN  Tally(changed, SeverityTier \X SeverityTier,
              LAMBDA r : <<r.aiTier, r.finalTier>>)

-----------------------------------------------------------------------------
\* The sum of the counts in f.
Total(f) == Cardinality(UNION {{k} \X (1..f[k]) : k \in DOMAIN f})

\* The pages agree: a report and the dashboard count the same cases the same way
\* in any period, what is open is in one stage each, a case that waits for the
\* Manager is not counted anywhere else, the comparison adds up to its overrides,
\* and over all time it is the governance page's.
SameStory(rows, sent, p, today) ==
    LET n == ComputeMetrics(rows, sent, p)
        m == ComputeIntelligence(rows, sent, p)
        s == SummariseCaseResults(sent)
        diagonal == [t \in SeverityTier |-> m.matrix[t][t]]
    IN  /\ n.outcomes = m.outcomes /\ n.severity_breakdown = m.severity
        /\ Total(n.outcomes) <= n.cases_completed
        /\ Total(m.open_breakdown) = m.open_cases
        /\ today <= p[2] => n.open_at_end = m.open_cases
        /\ m.attention.REASSIGNMENT + m.attention.CAP_INTERRUPTED
             <= m.open_breakdown.MANAGER_ACTION
        /\ Total([t \in SeverityTier |-> Total(m.matrix[t])]) = m.eligible
        /\ m.eligible - Total(diagonal) = m.overrides
        /\ n.override_count = m.overrides /\ m.eligible <= Total(m.severity)
        /\ m.attention.FAILED_HANDOFF <= Total(DeliveryHealth(sent))
        /\ p[1] = 0 /\ today <= p[2]
             => /\ m.eligible = Cardinality(ComparisonRows(rows))
                /\ m.overrides = Total(OverridePatterns(rows))
        /\ s.delivered = Total(s.needs_action) + s.removed + s.kept
        /\ s.violations <= s.decided
=============================================================================
