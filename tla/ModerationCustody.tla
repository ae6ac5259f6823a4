------------------------- MODULE ModerationCustody -------------------------
(***************************************************************************)
(* The workflow implements Custody: who answers for a case, computed from  *)
(* the columns of its row. A flag comes before an owner (a flagged case is *)
(* the Manager's, though it keeps the Auditor it came from), an owner      *)
(* before a visibility, and a case with none of them was returned.         *)
(***************************************************************************)
EXTENDS Moderation

Place(row) == CASE row.status = NULL                       -> "unreported"
                [] row.status # NULL /\ row.flag # NULL    -> "manager"
                [] row.status # NULL /\ row.flag = NULL /\ row.auditor # NULL -> "held"
                [] row.status # NULL /\ row.flag = NULL /\ row.auditor = NULL ->
                     [ASSIGNED_ONLY         |-> "returned",
                      SUPER_ADMIN_ONLY      |-> "parked",
                      AVAILABLE_TO_AUDITORS |-> "offered"][row.visibility]

CustodyOf(row) == [place |-> Place(row), auditor |-> row.auditor]

Hands    == [c \in Cases |-> CustodyOf(cases[c])]
Abstract == INSTANCE Custody WITH custody <- Hands

\* Whatever the handlers, the thread and the scheduler do to a case, it moves
\* between hands only as Custody says: what an Auditor or the Manager has never
\* falls back into a queue, a case handed back waits for a reassignment even
\* when the shift of the Auditor it came from ends, and a release pass gives
\* nothing but parked cases.
CustodySpec == Abstract!Spec
=============================================================================
