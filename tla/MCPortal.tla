------------------------------ MODULE MCPortal ------------------------------
(***************************************************************************)
(* MockPortal for TLC, and what its source says and TLC refutes.           *)
(***************************************************************************)
EXTENDS MockPortal, TLC

CONSTANTS c1, c2, h1, h2, ch, sn, u1, u2, u3

MCCaseIds  == Cases \cup {h1, h2}
MCClientOf == [c \in CaseIds |-> IF c \in {c1, h1} THEN ch ELSE sn]

FinishedCase(h, ai, final) ==
    [case_id |-> h, live |-> FALSE, status |-> "COMPLETE", flag |-> NULL, created |-> 0,
     completed |-> 0, aiTier |-> ai, finalTier |-> final, outcome |-> "POLICY_VIOLATION_FOUND"]

MCHistory == {FinishedCase(h1, "S2", "S3"), FinishedCase(h2, "S4", "S4")}

MCUsers == u1 :> [organisation_id |-> ch, role |-> "ADMIN"]
           @@ u2 :> [organisation_id |-> sn, role |-> "REPORTS"]
           @@ u3 :> [organisation_id |-> ch, role |-> "TRUST_SAFETY"]

MCPeriods == {<<0, 1>>}

\* Bounds, on what is explored. What is out of the ordinary of a case and its
\* delivery, of which two come together:
Incidents(c) ==
    LET d == deliveries[c]
    IN  {i \in 1..6 :
          <<cases[c] # NULL /\ cases[c].flag # NULL, told[c],
            failNext \/ (d # NULL /\ d.simulate_failure), d # NULL /\ d.manual > 0,
            d # NULL /\ d.escalated # NULL, d # NULL /\ d.action # NULL>>[i]}

\* Nothing of it while there are reports, whose case is received on the first day
\* and found to be a violation, and of which one is annotated; requests and messages
\* come one at a time, without cases.
OneConcern ==
    /\ \A c \in Cases : Cardinality(Incidents(c)) <= IF reports = <<>> THEN 2 ELSE 0
    /\ reports # <<>> => \A c \in Cases : cases[c] # NULL =>
          cases[c].created = 0 /\ cases[c].outcome \in {NULL, "POLICY_VIOLATION_FOUND"}
    /\ \A i \in DOMAIN reports : reports[i].note => i = 1
    /\ access # {} \/ messages # <<>> =>
          today = 0 /\ \A c \in Cases : cases[c] = NULL
    /\ Cardinality(access) + Len(messages) <= 1

MCSpec == Init /\ [][Next /\ OneConcern']_vars

\* b2bSeed: "Live completed cases tagged to another client deliver to that client."
DeliveredToItsClient ==
    \A c \in Cases : deliveries[c] # NULL => deliveries[c].organisation_id = ClientOf[c]

\* createDeliveryForCase: "either way CommunityHub hears the final result for the
\* post." What was delivered is what the case, if it is complete, was decided.
FinalResultIsHeard ==
    \A c \in Cases : cases[c] # NULL /\ cases[c].status = "COMPLETE"
        => deliveries[c].outcome = cases[c].outcome
=============================================================================
