------------------------------ MODULE Custody ------------------------------
(***************************************************************************)
(* What the workflow promises about who answers for a case. A reported     *)
(* case is always in exactly one of five hands: parked for the automatic   *)
(* release, offered to be claimed, held by one Auditor, with the Manager   *)
(* (who remembers the Auditor it came from), or returned by an Auditor who *)
(* stopped their shift. "Visibility is not ownership": a case is never in  *)
(* a queue and in somebody's hands, what is in somebody's hands never      *)
(* falls back into a queue, and what the Manager has leaves only by a      *)
(* reassignment.                                                           *)
(***************************************************************************)
CONSTANTS Cases, Standard, SuperAuditors, NULL

VARIABLE custody

Auditors == Standard \cup SuperAuditors

At(place, a) == [place |-> place, auditor |-> a]
Places       == {"unreported", "parked", "offered", "held", "manager", "returned"}
Custodies    == [place : Places, auditor : Auditors \cup {NULL}]

Init == custody = [c \in Cases |-> At("unreported", NULL)]

Is(c, place) == custody[c].place = place

Moves(S, to) == custody' = [c \in Cases |-> IF c \in S THEN to[c] ELSE custody[c]]
Move(c, k)   == custody' = [custody EXCEPT ![c] = k]

Report(c) == Is(c, "unreported")
             /\ \/ Move(c, At("parked", NULL))
                \/ \E a \in Standard : Move(c, At("held", a))

\* Parked cases are placed together, each with an Auditor of the pool.
Place(S, owner) == /\ \A c \in S : Is(c, "parked")
                   /\ Moves(S, [c \in S |-> At("held", owner[c])])

\* A case taken back from the offer may be placed with the others, at once.
Withdraw(c, S, owner) ==
    /\ Is(c, "offered")
    /\ \A d \in S \ {c} : Is(d, "parked")
    /\ Moves(S \cup {c}, [d \in S \cup {c} |-> IF d \in S THEN At("held", owner[d])
                                               ELSE At("parked", NULL)])

Offer(c) == /\ Is(c, "parked") \/ Is(c, "returned")
            /\ Move(c, At("offered", NULL))

Claim(c, a) == Is(c, "offered") /\ Move(c, At("held", a))

Take(c, a) == /\ \/ Is(c, "parked") \/ Is(c, "offered") \/ Is(c, "returned")
              /\ Move(c, At("held", a))

\* Cases an Auditor declines or has to give back go to the Manager, with the
\* ones of theirs that go with them.
ToManager(a, S) == /\ \A c \in S : /\ Is(c, "held") \/ Is(c, "manager")
                                   /\ custody[c].auditor = a
                   /\ Moves(S, [c \in S |-> At("manager", a)])

\* The end of a shift empties the Auditor's hands, and the Manager's too of
\* what came from them under review: those stay with the Manager.
StopShift(a, S) == /\ \A c \in S : /\ Is(c, "held") \/ Is(c, "manager")
                                   /\ custody[c].auditor = a
                   /\ Moves(S, [c \in S |-> IF Is(c, "held") THEN At("returned", NULL)
                                            ELSE At("manager", NULL)])

Reassign(c, a) == ~Is(c, "unreported") /\ Move(c, At("held", a))

Next == \/ \E c \in Cases : Report(c) \/ Offer(c)
        \/ \E S \in SUBSET Cases : \E owner \in [S -> Standard] :
              Place(S, owner) \/ \E c \in Cases : Withdraw(c, S, owner)
        \/ \E c \in Cases, a \in Auditors : Claim(c, a) \/ Reassign(c, a)
        \/ \E c \in Cases, a \in SuperAuditors : Take(c, a)
        \/ \E a \in Auditors, S \in SUBSET Cases : ToManager(a, S) \/ StopShift(a, S)

Spec == Init /\ [][Next]_custody
=============================================================================
