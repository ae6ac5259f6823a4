------------------------------ MODULE MCReview ------------------------------
(***************************************************************************)
(* CaseReview for TLC: which of the requests in flight is which is all the *)
(* slots tell apart. Below, what the code says of itself and TLC refutes.  *)
(***************************************************************************)
EXTENDS CaseReview, TLC

CONSTANTS q1, q2

Symmetry == Permutations(Slots)

\* The screen of a declined case: "No case content, thumbnail, or severity detail
\* is shown here -- declining is meant to reduce exposure, not extend it". The
\* page that shows it never shows the content again.
DeclinedShowsNothing == [][step = "declined" => step' \notin ReviewSteps]_vars

\* useAuth: "logging out and pressing back does not restore access". Only signing
\* in gives a tab without a session one.
LogoutIsFinal == [][stored = 0 /\ stored' # 0 => step = "login" /\ step' = "dashboard"]_vars
=============================================================================
