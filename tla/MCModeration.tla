---------------------------- MODULE MCModeration ----------------------------
(***************************************************************************)
(* Moderation for TLC. The .cfg files give the cases and the Auditors as   *)
(* model values and choose what the run exercises; ids are interchangeable *)
(* (Init tries every order of them), so safety runs use symmetry.          *)
(***************************************************************************)
EXTENDS ModerationCustody, TLC

Symmetry == Permutations(Cases) \cup Permutations(Standard)

\* Bound: no two cases are analysed at the same time.
OneAnalysis == Cardinality({c \in Cases : analysis[c] # "idle"}) <= 1

\* Bound: exploration stops at a case that is open again after an outcome.
NoReopening == \A c \in Cases : cases[c].outcome # NULL => cases[c].status = "COMPLETE"

\* Bound: exploration stops when the next workday starts.
OneWorkday == \A a \in Auditors : ~auditors[a].reset_due

\* Bound: only the placing of cases is explored, not their analysis or review.
OnlyPlacing == \A c \in Cases : /\ analysis[c] = "queued" \/ cases[c].status = NULL
                                /\ cases[c].flag = NULL
                                /\ cases[c].status # "COMPLETE"
                                /\ cases[c].visibility # "AVAILABLE_TO_AUDITORS"

\* Bound: exploration stops where a job has begun.
NoJobInFlight == pass = NoPass /\ daily = NoDaily

\* Bound: exploration stops where the daily job has begun.
NoDailyInFlight == daily = NoDaily

\* Bound: exploration stops where a commit changes what the release job has read.
NothingMissed == pass.missed = {}
=============================================================================
