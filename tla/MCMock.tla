------------------------------ MODULE MCMock ------------------------------
(***************************************************************************)
(* MockCases for TLC, and what its source says and TLC refutes.            *)
(***************************************************************************)
EXTENDS MockCases, TLC

Symmetry == Permutations(Cases)

\* What keeps an Auditor from a case, or is asked for.
Reasons ==
    Cardinality(UNION {db.asked[a] \X {a} : a \in Auditors})
    + Cardinality({a \in Auditors : db.staff[a].cooldown # NULL})
    + Cardinality({a \in Auditors : db.staff[a].exposure > 0})
    + Cardinality({a \in Auditors : db.staff[a].break > 0})

\* The cases under review, decided or with the Manager.
Reviewed == {c \in Cases : \/ db.cases[c].status \notin {NULL, "AI_PROCESSING"}
                           \/ db.cases[c].flag # NULL}

\* Bounds, on what is explored: one reason at a time; with two cases, one of them is
\* reviewed, while there is no reason and until it has an outcome, and the other is
\* placed, offered, taken and claimed.
OneReason   == Reasons <= 1
OneReviewed == Cardinality(Reviewed) <= 1
Together    == Cardinality({c \in Cases : Open(c)}) > 1
                  => \/ Reviewed = {}
                     \/ Reasons = 0 /\ \A c \in Cases : db.cases[c].outcome = NULL

MCSpec == Init /\ [][Next /\ OneReason' /\ OneReviewed' /\ Together']_vars

\* requires_check_in is recorded "When the Manager recorded that check-in; the
\* queue stays locked until then" (check_in_completed_at): for every Auditor the
\* timer no longer holds and the check-in does, the Manager has a way to record it.
CheckInCanBeLogged ==
    \A a \in Auditors :
        AwaitsCheckIn(db.staff[a])
            => \/ db.staff[a].cooldown.trigger = "S4"
               \/ \E i \in DOMAIN db.sosEvents : db.sosEvents[i].auditor = a
=============================================================================
