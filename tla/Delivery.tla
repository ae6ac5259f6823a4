------------------------------ MODULE Delivery ------------------------------
(***************************************************************************)
(* The handoff of a finished case to the customer (src/backend/app/b2b.py).*)
(* A row of deliveries waits for its automatic attempts, which run when    *)
(* somebody reads deliveries and have fallen due by then; after the last   *)
(* one, or a failed attempt of the Manager's, it needs attention.          *)
(*                                                                         *)
(* Each handler is one transaction on the one event loop, so one action.   *)
(* Of the list of attempts the model keeps how many were automatic, how    *)
(* many manual and how many succeeded; next_attempt_at is the time left    *)
(* until then, negative when overdue. The outcome is Moderation's handoff; *)
(* the escalation's date and note, and the date of a connection test, are  *)
(* read by nothing that writes.                                            *)
(***************************************************************************)
EXTENDS Integers, FiniteSets

CONSTANTS Deliveries,
          NULL,
          FIRST_ATTEMPT_DELAY,  \* both in ticks
          RETRY_GAP,
          MAX_AUTO_ATTEMPTS,
          MaxManual             \* bound: attempts of the Manager for one delivery

ASSUME DeliveryAssumption ==
    /\ IsFiniteSet(Deliveries)
    /\ FIRST_ATTEMPT_DELAY \in Nat \ {0}
    /\ RETRY_GAP \in Nat \ {0}
    /\ MAX_AUTO_ATTEMPTS \in Nat \ {0}
    /\ MaxManual \in Nat
    /\ NULL \notin Int \cup {"PENDING", "RETRYING", "SUCCESS", "NEEDS_ATTENTION"}

VARIABLES deliveries,  \* rows of deliveries, status NULL before the row exists
          endpoint,    \* organisations.status of the customer
          told         \* public_delivery_confirmed as the Reporter last read it

vars == <<deliveries, endpoint, told>>

Statuses  == {"PENDING", "RETRYING", "SUCCESS", "NEEDS_ATTENTION"}
Automatic == {"PENDING", "RETRYING"}
PlatformActions == {"REMOVED", "KEPT"}

\* Bound: a date this long past has every attempt left behind it.
LongPast == -(MAX_AUTO_ATTEMPTS * RETRY_GAP)

Row(status, automatic, sent, due, times_out) ==
    [status |-> status, automatic |-> automatic, manual |-> 0, sent |-> sent,
     due |-> due, times_out |-> times_out, action |-> NULL]

NoRow == Row(NULL, 0, 0, NULL, FALSE)

DeliveryRow == [status    : Statuses \cup {NULL},
                automatic : 0 .. MAX_AUTO_ATTEMPTS,
                manual    : 0 .. MaxManual,
                sent      : Nat,
                due       : {n \in Int : n >= LongPast} \cup {NULL},
                times_out : BOOLEAN,
                action    : PlatformActions \cup {NULL}]

TypeOK ==
    /\ deliveries \in [Deliveries -> DeliveryRow]
    /\ endpoint \in {"READY", "ERROR"}
    /\ told \in [Deliveries -> BOOLEAN]

\* No delivery yet, one of the demo data's delivered at the first or the second
\* attempt, or one of its failures, whose endpoint times out.
Init == /\ deliveries \in
             [Deliveries -> {NoRow, Row("NEEDS_ATTENTION", MAX_AUTO_ATTEMPTS, 0, NULL, TRUE)}
                \cup {Row("SUCCESS", n, 1, NULL, FALSE) : n \in {1, 2} \cap 1 .. MAX_AUTO_ATTEMPTS}]
        /\ endpoint = "READY"
        /\ told = [d \in Deliveries |-> FALSE]

-----------------------------------------------------------------------------
(***************************************************************************)
(* Automatic attempts.                                                     *)
(***************************************************************************)
\* Mutant: the loop runs as long as a date is set.
WaitingByDate(row) == row.due # NULL

Waiting(row) == row.status \in Automatic /\ row.due # NULL

\* Mutant: the budget is for one read.
FallenDueOfAll(row) ==
    IF Waiting(row)
    THEN {i \in 0 .. MAX_AUTO_ATTEMPTS - 1 : row.due + i * RETRY_GAP <= 0}
    ELSE {}

\* Mutant: an attempt that is due right now waits.
FallenDueBefore(row) ==
    IF Waiting(row)
    THEN {i \in 0 .. MAX_AUTO_ATTEMPTS - row.automatic - 1 : row.due + i * RETRY_GAP < 0}
    ELSE {}

\* The attempts that have fallen due if none of them succeeds, counted from 0.
FallenDue(row) ==
    IF Waiting(row)
    THEN {i \in 0 .. MAX_AUTO_ATTEMPTS - row.automatic - 1 : row.due + i * RETRY_GAP <= 0}
    ELSE {}

Sent(row) == [row EXCEPT !.status = "SUCCESS", !.sent = @ + 1, !.due = NULL]

\* Mutant: one attempt too many is planned.
FailedOnceMore(row, n) ==
    IF row.automatic + n > MAX_AUTO_ATTEMPTS
    THEN [row EXCEPT !.automatic = @ + n, !.status = "NEEDS_ATTENTION", !.due = NULL]
    ELSE [row EXCEPT !.automatic = @ + n, !.status = "RETRYING", !.due = @ + n * RETRY_GAP]

\* Mutant: the next attempt is not planned.
FailedUnplanned(row, n) ==
    IF row.automatic + n = MAX_AUTO_ATTEMPTS
    THEN [row EXCEPT !.automatic = @ + n, !.status = "NEEDS_ATTENTION", !.due = NULL]
    ELSE [row EXCEPT !.automatic = @ + n, !.status = "RETRYING", !.due = NULL]

\* n attempts failed, one after the other.
Failed(row, n) ==
    IF row.automatic + n = MAX_AUTO_ATTEMPTS
    THEN [row EXCEPT !.automatic = @ + n, !.status = "NEEDS_ATTENTION", !.due = NULL]
    ELSE [row EXCEPT !.automatic = @ + n, !.status = "RETRYING", !.due = @ + n * RETRY_GAP]

\* advance_delivery: the attempts run against the endpoint as it is now, so the
\* first succeeds or all fail.
Advance(row) ==
    IF FallenDue(row) = {} THEN row
    ELSE IF endpoint = "READY" /\ ~row.times_out
         THEN Sent([row EXCEPT !.automatic = @ + 1])
         ELSE Failed(row, Cardinality(FallenDue(row)))

\* The condition and one round of its loop.
IsDue(row) == row.status \in Automatic /\ row.due # NULL /\ row.due <= 0

OneAttempt(row) ==
    LET automatic == row.automatic + 1
    IN  IF endpoint = "READY" /\ ~row.times_out
        THEN [row EXCEPT !.automatic = automatic, !.sent = @ + 1,
                         !.status = "SUCCESS", !.due = NULL]
        ELSE IF automatic >= MAX_AUTO_ATTEMPTS
        THEN [row EXCEPT !.automatic = automatic, !.status = "NEEDS_ATTENTION", !.due = NULL]
        ELSE [row EXCEPT !.automatic = automatic, !.status = "RETRYING",
                         !.due = row.due + RETRY_GAP]

\* The row before the loop, after one round, after two: as many as the budget.
Rounds(row) ==
    LET after[n \in 0 .. MAX_AUTO_ATTEMPTS] ==
            IF n = 0 THEN row
            ELSE IF IsDue(after[n - 1]) THEN OneAttempt(after[n - 1])
            ELSE after[n - 1]
    IN  after

-----------------------------------------------------------------------------
(***************************************************************************)
(* Handlers.                                                               *)
(***************************************************************************)
Exists(d) == deliveries[d].status # NULL

\* The final decision on a case, or its closing, makes the delivery.
CreateDelivery(d) ==
    /\ ~Exists(d)
    /\ deliveries' = [deliveries EXCEPT ![d] =
                        Row("PENDING", 0, 0, FIRST_ATTEMPT_DELAY, FALSE)]
    /\ UNCHANGED <<endpoint, told>>

\* Every list of deliveries, of the customer's results and of their figures
\* runs what is due first.
ListDeliveries ==
    /\ deliveries' = [d \in Deliveries |-> Advance(deliveries[d])]
    /\ UNCHANGED <<endpoint, told>>

GetDelivery(d) ==
    /\ Exists(d)
    /\ deliveries' = [deliveries EXCEPT ![d] = Advance(@)]
    /\ UNCHANGED <<endpoint, told>>

\* Mutant: the attempts the lookup ran are not committed.
GetStatusUncommitted(d) ==
    /\ Exists(d)
    /\ told' = [told EXCEPT ![d] = Advance(deliveries[d]).status = "SUCCESS"]
    /\ UNCHANGED <<deliveries, endpoint>>

\* The public lookup: what it answers is what it commits. The
\* delivery of a case that is open again is not looked at.
GetStatus(d) ==
    /\ Exists(d)
    /\ deliveries' = [deliveries EXCEPT ![d] = Advance(@)]
    /\ told' = [told EXCEPT ![d] = Advance(deliveries[d]).status = "SUCCESS"]
    /\ UNCHANGED endpoint

GetStatusOfOpenCase(d) ==
    /\ Exists(d)
    /\ told' = [told EXCEPT ![d] = FALSE]
    /\ UNCHANGED <<deliveries, endpoint>>

\* Mutant: a delivery that succeeded is sent again.
ManuallyAlways(row) ==
    IF endpoint = "READY"
    THEN [Sent(row) EXCEPT !.manual = @ + 1, !.times_out = FALSE]
    ELSE [row EXCEPT !.manual = @ + 1, !.status = "NEEDS_ATTENTION"]

\* A manual attempt, unless what was due succeeds first. It asks the endpoint
\* only; a failure leaves the date of the next automatic attempt in its column.
Manually(row) ==
    IF row.status = "SUCCESS" THEN row
    ELSE IF endpoint = "READY"
         THEN [Sent(row) EXCEPT !.manual = @ + 1, !.times_out = FALSE]
         ELSE [row EXCEPT !.manual = @ + 1, !.status = "NEEDS_ATTENTION"]

RetryDelivery(d) ==
    /\ Exists(d)
    /\ deliveries[d].manual < MaxManual
    /\ deliveries' = [deliveries EXCEPT ![d] = Manually(Advance(@))]
    /\ UNCHANGED <<endpoint, told>>

\* The customer's moderators acted; a second action replaces the first. Only
\* a result that has arrived, and no attempt runs to find out.
RecordPlatformAction(d, a) ==
    /\ deliveries[d].status = "SUCCESS"
    /\ deliveries' = [deliveries EXCEPT ![d].action = a]
    /\ UNCHANGED <<endpoint, told>>

-----------------------------------------------------------------------------
(***************************************************************************)
(* Surroundings.                                                           *)
(***************************************************************************)
\* The customer's endpoint goes down or comes back: no code writes the column.
EndpointChanges == /\ endpoint' \in {"READY", "ERROR"} \ {endpoint}
                   /\ UNCHANGED <<deliveries, told>>

\* The demo's switch: this delivery's attempts time out.
SimulateFailure(d) ==
    /\ Exists(d) /\ ~deliveries[d].times_out
    /\ deliveries' = [deliveries EXCEPT ![d].times_out = TRUE]
    /\ UNCHANGED <<endpoint, told>>

Sooner(due) == IF due = NULL \/ due = LongPast THEN due ELSE due - 1

Tick == /\ deliveries' = [d \in Deliveries |-> [deliveries[d] EXCEPT !.due = Sooner(@)]]
        /\ UNCHANGED <<endpoint, told>>

Next == \/ \E d \in Deliveries : \/ CreateDelivery(d) \/ GetDelivery(d) \/ GetStatus(d)
                                 \/ GetStatusOfOpenCase(d) \/ RetryDelivery(d)
                                 \/ SimulateFailure(d)
        \/ \E d \in Deliveries, a \in PlatformActions : RecordPlatformAction(d, a)
        \/ ListDeliveries \/ EndpointChanges \/ Tick

Spec == Init /\ [][Next]_vars

\* Time passes, and a Manager's page reloads the list every 30 seconds.
FairSpec == Spec /\ WF_vars(Tick) /\ WF_vars(ListDeliveries)

-----------------------------------------------------------------------------
(***************************************************************************)
(* Properties.                                                             *)
(***************************************************************************)
\* A result is sent once: a delivery has succeeded exactly when one attempt
\* succeeded, whichever reads, retries and public lookups overlap.
SentAtMostOnce ==
    \A d \in Deliveries :
        deliveries[d].sent = (IF deliveries[d].status = "SUCCESS" THEN 1 ELSE 0)

\* No delivery is stuck between its attempts: while it is pending or retrying it
\* has a next attempt and budget for it, and none after the budget is spent.
NextAttemptIsPlanned ==
    \A d \in Deliveries :
        deliveries[d].status \in Automatic => /\ deliveries[d].due # NULL
                                             /\ deliveries[d].automatic < MAX_AUTO_ATTEMPTS

\* However long nobody looked, the loop of advance_delivery ends within its
\* budget, and counting the attempts that have fallen due gives the row it leaves.
AdvanceIsTheLoop ==
    \A d \in Deliveries : LET left == Rounds(deliveries[d])[MAX_AUTO_ATTEMPTS]
                         IN  ~IsDue(left) /\ Advance(deliveries[d]) = left

\* Once the Manager has tried, the automatic attempts are over, although a
\* failed retry leaves the date of the next one in the row.
ManagerTakesOver ==
    [][\A d \in Deliveries :
         deliveries'[d].automatic # deliveries[d].automatic => deliveries[d].manual = 0]_vars

\* Where a result is, as the Manager and the customer see it.
StageOf(row) == CASE row.status = NULL              -> "none"
                  [] row.status \in Automatic       -> "on_its_way"
                  [] row.status = "NEEDS_ATTENTION" -> "with_manager"
                  [] row.status = "SUCCESS"         -> "delivered"

Promise == INSTANCE ResultDelivery
             WITH stage  <- [d \in Deliveries |-> StageOf(deliveries[d])],
                  action <- [d \in Deliveries |-> deliveries[d].action]

\* Reads, retries, lookups, outages and time move a result only as promised: it
\* is delivered for good, the Manager keeps what they have, the customer acts on
\* it and the Reporter is told of it only when it has arrived.
PromiseSpec == Promise!Spec

\* No result waits for ever: with the list read again and again, the automatic
\* attempts of a delivery come to an end, whatever the endpoint does.
AttemptsEnd == \A d \in Deliveries :
                  deliveries[d].status \in Automatic ~> deliveries[d].status \notin Automatic
=============================================================================
