----------------------------- MODULE QueuePage -----------------------------
(***************************************************************************)
(* The Case queue page of an Auditor (AuditorDashboardPage) with the       *)
(* fallback queue of a Super Auditor (FallbackQueueSection, ClaimToggle)   *)
(* or the cases a standard Auditor can claim (AvailableCasesSection).      *)
(*                                                                         *)
(* A request of a list carries what the server knew when it answered and   *)
(* may be received much later, in any order; a request that changes a case *)
(* is carried out by the server at one moment and answered at another, and *)
(* either can be lost. The server is reduced to where each case is and     *)
(* whether this person has reached the daily limit: MockCases and          *)
(* Moderation model what moves a case there.                               *)
(***************************************************************************)
EXTENDS Naturals, FiniteSets

CONSTANTS
    Cases,
    NULL,
    MaxLoads,      \* bound: loads of the list in flight when the page polls
    MaxActs        \* bound: how often somebody, here or elsewhere, acts on a case

ASSUME ActsAssumption == MaxActs \in Nat

VARIABLES
    place,       \* the server's: where each case is
    limit,       \* the server's: this person has reached the daily limit
    acts,
    isSuperAdmin,
    page         \* the state of the page's components

queueVars == <<place, limit, acts, isSuperAdmin, page>>

\* Where a case is: nobody's and only the Super Auditor's to see, offered to
\* the Auditors, this person's, another's, with the Manager, or complete.
Places == {"parked", "offered", "mine", "theirs", "manager", "complete"}

Unowned == {"parked", "offered"}                      \* needsReviewer

Requests == [kind : {"rows"}, answer : [Cases -> Places], keepError : BOOLEAN]
            \cup [kind : {"mine"}, answer : SUBSET Cases, first : BOOLEAN]
            \cup [kind : {"take", "claim", "offer", "withdraw"}, case : Cases,
                  answer : {NULL, "done", "refused"}]
            \cup [kind : {"releaseAll"}, answer : {NULL, "done"}]

Changes == {"take", "claim", "offer", "withdraw"}

QueueTypeOK ==
    /\ place \in [Cases -> Places]
    /\ limit \in BOOLEAN
    /\ acts \in 0..MaxActs
    /\ isSuperAdmin \in BOOLEAN
    /\ page \in [open : BOOLEAN, requests : SUBSET Requests,
                 rows : [Cases -> Places] \cup {NULL}, mine : {NULL} \cup SUBSET Cases,
                 atExposureLimit : BOOLEAN, declined : SUBSET Cases,
                 confirming : Cases \cup {NULL}, busy : Cases \cup {NULL},
                 toggle : [Cases -> {"ready", "confirming", "busy"}],
                 error : {NULL, "refused", "failed"}, notice : BOOLEAN]

------------------------------------------------------------------------------

Owned == {c \in Cases : place[c] = "mine"}

\* The requests the page sends to load a list, the first time or again.
LoadRows(keepError) == [kind |-> "rows", answer |-> place, keepError |-> keepError]
LoadMine(first) == [kind |-> "mine", answer |-> Owned, first |-> first]

\* reloadAfterCaseChange, and the section's own load(): the answers of its two
\* loads are the same.
ReloadAfterCaseChange == {LoadMine(FALSE), LoadRows(FALSE)}

\* The queue below is on the page, and polls, only once "My cases" was loaded: a
\* page whose first load failed has none until a later load of them succeeds.
Mounted == page.mine # NULL

\* Somebody acts on a case.
Acts == acts < MaxActs /\ acts' = acts + 1

\* What the fallback queue shows (needsReviewer) and what can be claimed.
ShowsUnowned(c) == page.rows # NULL /\ page.rows[c] \in Unowned
CanClaim(c) == page.rows # NULL /\ page.rows[c] = "offered" /\ c \notin page.declined

QueueInit ==
    /\ place \in [Cases -> {"parked", "mine", "theirs"}]
    /\ limit = FALSE
    /\ acts = 0
    /\ isSuperAdmin \in BOOLEAN
    /\ page = [open |-> TRUE, requests |-> {LoadMine(TRUE)}, rows |-> NULL, mine |-> NULL,
               atExposureLimit |-> FALSE, declined |-> {}, confirming |-> NULL, busy |-> NULL,
               toggle |-> [c \in Cases |-> "ready"], error |-> NULL, notice |-> FALSE]

------------------------------------------------------------------------------
(* The server: others move the cases, and the requests are carried out.    *)

MovesElsewhere(c) ==
    /\ Acts
    /\ \E to \in Places \ {place[c]} : place' = [place EXCEPT ![c] = to]
    /\ UNCHANGED <<limit, isSuperAdmin, page>>

ReachLimit ==
    /\ ~limit
    /\ limit' = TRUE
    /\ UNCHANGED <<place, acts, isSuperAdmin, page>>

\* What the server makes of a change: takeCase wants a case nobody owns, claimCase
\* an offered one, and neither gives a case to who is unavailable.
Allowed(r) == CASE r.kind = "take"  -> place[r.case] \in Unowned /\ ~limit
                [] r.kind = "claim" -> place[r.case] = "offered" /\ ~limit
                [] OTHER            -> place[r.case] \in Unowned

Placed(r) == CASE r.kind \in {"take", "claim"} -> "mine"
               [] r.kind = "offer"             -> "offered"
               [] OTHER                        -> "parked"

Serve(r) ==
    /\ r.kind \in Changes
    /\ r.answer = NULL
    /\ LET answered(answer) == (page.requests \ {r}) \cup {[r EXCEPT !.answer = answer]}
       IN  \/ /\ Allowed(r)
              /\ place' = [place EXCEPT ![r.case] = Placed(r)]
              /\ page' = [page EXCEPT !.requests = answered("done")]
           \/ /\ ~Allowed(r)
              /\ page' = [page EXCEPT !.requests = answered("refused")]
              /\ place' = place
    /\ UNCHANGED <<limit, acts, isSuperAdmin>>

\* releaseAllCasesAtLimit: the cases of this person that are ready for review or in
\* review go to the Manager, and the others stay.
ServeReleaseAll(r) ==
    /\ r.kind = "releaseAll"
    /\ r.answer = NULL
    /\ page' = [page EXCEPT !.requests = (@ \ {r}) \cup {[r EXCEPT !.answer = "done"]}]
    /\ \E reviewable \in SUBSET Owned :
         place' = [c \in Cases |-> IF c \in reviewable THEN "manager" ELSE place[c]]
    /\ UNCHANGED <<limit, acts, isSuperAdmin>>

------------------------------------------------------------------------------
(* The lists.                                                              *)

\* The switch of a row that is no longer shown is unmounted, and forgets.
Switches(rows) == [c \in Cases |-> IF rows[c] \in Unowned THEN page.toggle[c] ELSE "ready"]

RowsAnswered(r) ==
    /\ r.kind = "rows"
    /\ page' = [page EXCEPT !.requests = @ \ {r}, !.rows = r.answer, !.toggle = Switches(r.answer),
                            !.error = IF isSuperAdmin /\ r.keepError THEN @ ELSE NULL]

\* With the first cases of one's own comes the section below, which loads its list.
MineAnswered(r) ==
    /\ r.kind = "mine"
    /\ page' = [page EXCEPT !.requests = (@ \ {r}) \cup (IF Mounted THEN {} ELSE {LoadRows(FALSE)}),
                            !.mine = r.answer]

\* A list that cannot be loaded keeps what it shows.
LoadFailed(r) ==
    \/ /\ r.kind = "rows"
       /\ page' = [page EXCEPT !.requests = @ \ {r}, !.error = "failed"]
    \/ /\ r.kind = "mine"
       /\ page' = [page EXCEPT !.requests = @ \ {r}]

\* Mutant: nothing is loaded again once the list is on screen.
PollUntilShown ==
    /\ isSuperAdmin /\ Mounted
    /\ page.rows = NULL
    /\ page' = [page EXCEPT !.requests = @ \cup {LoadRows(FALSE)}]

\* Every 30 seconds, and only in the fallback queue.
Poll ==
    /\ isSuperAdmin /\ Mounted
    /\ Cardinality({r \in page.requests : r.kind = "rows"}) < MaxLoads
    /\ page' = [page EXCEPT !.requests = @ \cup {LoadRows(FALSE)}]

\* useMyWellbeing has new figures: at the limit, the cases are given back, once.
WellbeingRefreshed ==
    /\ page.atExposureLimit # limit
    /\ page' = [page EXCEPT !.atExposureLimit = limit,
                            !.requests = @ \cup {[kind |-> "releaseAll", answer |-> NULL]}]

ReleaseAllAnswered(r) ==
    /\ r.kind = "releaseAll"
    /\ \/ /\ r.answer = "done"
          /\ page' = [page EXCEPT !.requests = (@ \ {r}) \cup {LoadMine(FALSE)}]
       \/ page' = [page EXCEPT !.requests = @ \ {r}]      \* it failed: nothing asks again

------------------------------------------------------------------------------
(* Taking, claiming and declining a case, and the switch "Auditors can     *)
(* claim".                                                                 *)

NoDialog == page.confirming = NULL /\ \A c \in Cases : page.toggle[c] # "confirming"

Asked(kind, c) == [kind |-> kind, case |-> c, answer |-> NULL]

AskToTake(c) ==
    /\ isSuperAdmin
    /\ ShowsUnowned(c)
    /\ ~page.atExposureLimit
    /\ page.busy = NULL /\ NoDialog
    /\ page' = [page EXCEPT !.confirming = c]

CloseDialog == page.confirming # NULL /\ page' = [page EXCEPT !.confirming = NULL]

Take ==
    /\ page.confirming # NULL
    /\ page.busy = NULL
    /\ Acts
    /\ page' = [page EXCEPT !.busy = page.confirming, !.notice = FALSE, !.error = NULL,
                            !.requests = @ \cup {Asked("take", page.confirming)}]

Claim(c) ==
    /\ ~isSuperAdmin
    /\ CanClaim(c)
    /\ page.busy = NULL
    /\ Acts
    /\ page' = [page EXCEPT !.busy = c, !.notice = FALSE, !.error = NULL,
                            !.requests = @ \cup {Asked("claim", c)}]

Decline(c) ==
    /\ ~isSuperAdmin
    /\ CanClaim(c)
    /\ page.busy = NULL
    /\ page' = [page EXCEPT !.declined = @ \cup {c}]

\* The end of take and claim: a refusal of a claim loads the list again.
Taken(r) ==
    /\ r.kind \in {"take", "claim"}
    /\ r.answer = "done"
    /\ page' = [page EXCEPT !.busy = NULL, !.confirming = NULL, !.notice = TRUE,
                            !.requests = (@ \ {r}) \cup ReloadAfterCaseChange]

NotTaken(r) ==
    /\ r.kind \in {"take", "claim"}
    /\ \E why \in {"refused", "failed"} :
         /\ r.answer = "refused" \/ why = "failed"
         /\ page' = [page EXCEPT !.busy = NULL, !.confirming = NULL, !.error = why,
                                 !.requests = (@ \ {r}) \cup (IF r.kind = "claim" THEN {LoadRows(FALSE)} ELSE {})]

\* To Yes after a confirmation, to No at once.
CanSwitch(c) == /\ isSuperAdmin
                /\ ShowsUnowned(c)
                /\ page.busy = NULL /\ NoDialog
                /\ page.toggle[c] = "ready"

AskToOffer(c) ==
    /\ CanSwitch(c)
    /\ page.rows[c] = "parked"
    /\ page' = [page EXCEPT !.toggle[c] = "confirming"]

TurnOn(c) ==
    /\ page.toggle[c] = "confirming"
    /\ Acts
    /\ page' = [page EXCEPT !.toggle[c] = "busy", !.requests = @ \cup {Asked("offer", c)}]

TurnOff(c) ==
    /\ CanSwitch(c)
    /\ page.rows[c] = "offered"
    /\ Acts
    /\ page' = [page EXCEPT !.toggle[c] = "busy", !.requests = @ \cup {Asked("withdraw", c)}]

KeepAsItIs(c) == page.toggle[c] = "confirming" /\ page' = [page EXCEPT !.toggle[c] = "ready"]

\* releaseDone and releaseFailed.
Switched(r) ==
    /\ r.kind \in {"offer", "withdraw"}
    /\ \/ /\ r.answer = "done"
          /\ page' = [page EXCEPT !.toggle[r.case] = "ready", !.notice = TRUE, !.error = NULL,
                                  !.requests = (@ \ {r}) \cup ReloadAfterCaseChange]
       \/ \E why \in {"refused", "failed"} :
            /\ r.answer = "refused" \/ why = "failed"
            /\ page' = [page EXCEPT !.toggle[r.case] = "ready", !.notice = FALSE, !.error = why,
                                    !.requests = (@ \ {r}) \cup {LoadRows(TRUE)}]

\* Any answer may be that the session has expired: the sign-in page opens. What asks
\* for one's own cases again, or gives them back at the limit, ignores its errors.
SessionExpired(r) ==
    /\ r.kind # "releaseAll"
    /\ r.kind = "mine" => r.first
    /\ r.kind \in Changes => r.answer = NULL
    /\ page' = [page EXCEPT !.open = FALSE, !.requests = @ \ {r}]

------------------------------------------------------------------------------

Answered(r) == RowsAnswered(r) \/ MineAnswered(r) \/ ReleaseAllAnswered(r) \/ Taken(r) \/ NotTaken(r) \/ Switched(r)

OnPage ==
    /\ page.open
    /\ \/ Take \/ \E c \in Cases : Claim(c) \/ TurnOn(c) \/ TurnOff(c)
       \/ /\ \/ Poll \/ WellbeingRefreshed \/ CloseDialog
             \/ \E c \in Cases : AskToTake(c) \/ Decline(c) \/ AskToOffer(c) \/ KeepAsItIs(c)
             \/ \E r \in page.requests : Answered(r) \/ LoadFailed(r) \/ SessionExpired(r)
          /\ acts' = acts
    /\ UNCHANGED <<place, limit, isSuperAdmin>>

QueueNext ==
    \/ ReachLimit
    \/ \E c \in Cases : MovesElsewhere(c)
    \/ \E r \in page.requests : Serve(r) \/ ServeReleaseAll(r)
    \/ OnPage

\* A row or a switch is busy only while what it sent is under way: no row stays
\* locked for good, whatever else was answered, lost or loaded meanwhile.
NothingStaysBusy ==
    page.open =>
      /\ page.busy # NULL => \E r \in page.requests : r.kind \in {"take", "claim"} /\ r.case = page.busy
      /\ \A c \in Cases : page.toggle[c] = "busy" =>
           \E r \in page.requests : r.kind \in {"offer", "withdraw"} /\ r.case = c

\* What is fair where the page is open: it keeps polling (WF of Polls), and the
\* network does not lose every answer (SF of RowsArrive).
Quietly == UNCHANGED <<place, limit, acts, isSuperAdmin>>
Polls == page.open /\ Poll /\ Quietly
RowsArrive == page.open /\ (\E r \in page.requests : RowsAnswered(r)) /\ Quietly

\* The fallback queue converges: once nobody acts on a case any more, what a
\* Super Auditor sees comes to be, and stays, what the server has, whatever the
\* order in which the loads before were answered; or the page is left, or the queue
\* never came to be on it.
QueueCatchesUp == isSuperAdmin => <>[](page.open /\ Mounted => page.rows = place)
=============================================================================
