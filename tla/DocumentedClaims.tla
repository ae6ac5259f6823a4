-------------------------- MODULE DocumentedClaims --------------------------
(***************************************************************************)
(* What comments, error messages and documents of the repository say of    *)
(* the workflow and the code does not keep. Each property states one of    *)
(* them.  The run SosIsOpenUntilFollowUp finds a behaviour that breaks the  *)
(* one of that name; the README tells how TLC refutes the others.          *)
(***************************************************************************)
EXTENDS Moderation

\* "Completed cases cannot be analysed" (the error of process_case_analysis):
\* no step of an analysis changes the status of a completed case. The check is
\* made when the thread starts, and the last commit makes it ready for review.
CompletedIsNotAnalysed ==
    [][\A c \in Cases : AnalysisStep(c) /\ cases[c].status = "COMPLETE"
                            => cases'[c].status = "COMPLETE"]_vars

\* "The customer still hears about the post: closed without a decision" (the
\* comment in close_without_reassignment): a case the Manager closed has been
\* handed off as closed. A case resolved before keeps its earlier delivery.
CustomerHearsOfClosing ==
    \A c \in Cases : cases[c].outcome = "CLOSED_NO_REASSIGNMENT"
                        => handoff[c] = "CLOSED_NO_REASSIGNMENT"

\* "Until the check-in is logged the Auditor stays in cooldown, even after the
\* timer ends" (pending_check_in_auditors): nobody is given a case meanwhile.
\* Only the weighted assignment looks at the check-in; claims, takes and
\* reassignments stop looking when the timer ends.
HeldAuditorGetsNoCase ==
    [][\A c \in Cases, a \in Auditors :
         cases'[c].auditor = a /\ cases[c].auditor # a => ~CheckInPending(auditors[a])]_vars

\* "Nobody, including them, is given a case while in cooldown, at the exposure
\* limit or with an open SOS" (fallback_queue.py): a pass of the job gives a case
\* to an Auditor who was pinned to the limit, or whose cooldown or SOS began,
\* after the pass had read their row.
NobodyUnfitIsGivenACase ==
    [][\A c \in Cases, a \in Auditors :
         cases'[c].auditor = a /\ cases[c].auditor # a
            => /\ ~InCooldown(auditors'[a])
               /\ ~AtLimit(auditors'[a])
               /\ ~HasOpenSos(cases, a)]_vars

\* "Reset exposure_minutes to 0 if the workday reset boundary has passed since
\* last reset" (maybe_reset_daily_exposure): exposure is lost to no other reset.
\* A job that has read a row due resets it after a handler has done so too.
ResetOnlyWhenDue ==
    [][\A a \in Auditors :
         auditors[a].exposure > 0 /\ auditors'[a].exposure = 0
            => auditors[a].reset_due]_vars

\* The SOS "stays open until the Manager's check-in" (unresolved_sos_auditors):
\* only a follow-up ends a pending SOS. Completing another case puts that
\* case's cooldown in its place, and the SOS leaves the list unanswered.
SosIsOpenUntilFollowUp ==
    [][\A a \in Auditors :
         auditors[a].trigger = "SOS" /\ CheckInPending(auditors[a])
         /\ ~(auditors'[a].trigger = "SOS" /\ CheckInPending(auditors'[a]))
            => \E i \in DOMAIN alerts : alerts[i].actor = a /\ LogSosFollowUp(i)]_vars

\* "Return all active cases to the queue" (stop_shift): a case that loses its
\* owner is listed in a queue. It keeps ASSIGNED_ONLY, so the automatic release
\* never places it and no Auditor sees it.
StoppedShiftFillsQueue ==
    [][\A c \in Cases : cases[c].auditor # NULL /\ cases'[c].auditor = NULL
                            => cases'[c].visibility # "ASSIGNED_ONLY"]_vars

\* "Run vision analysis and persist either success or safe fallback state"
\* (process_case_analysis): with the thread scheduled fairly, no case stays in
\* AI_PROCESSING. An exception or a restart ends the thread and nothing
\* starts another.
FairAnalysis == Spec /\ \A c \in Cases : WF_vars(AnalysisStep(c))

AnalysisPersistsAState ==
    \A c \in Cases :
        cases[c].status = "AI_PROCESSING" ~> cases[c].status # "AI_PROCESSING"
=============================================================================
