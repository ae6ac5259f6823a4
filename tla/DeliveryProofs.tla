--------------------------- MODULE DeliveryProofs ---------------------------
(***************************************************************************)
(* Deliveries are sent once, never stuck between their attempts, and move  *)
(* as ResultDelivery promises, for any number of deliveries and any budget.*)
(* All of it is about one row: Advance, Manually and the others keep a row *)
(* good, and every action applies one of them to some of the rows.         *)
(***************************************************************************)
EXTENDS Delivery, FiniteInduction

GoodRow(row) ==
    /\ row \in DeliveryRow
    /\ row.sent = (IF row.status = "SUCCESS" THEN 1 ELSE 0)
    /\ row.status \in Automatic => row.due # NULL /\ row.automatic < MAX_AUTO_ATTEMPTS
    /\ row.action # NULL => row.status = "SUCCESS"
    /\ row.status = NULL => row.automatic = 0

DeliveryInv == TypeOK /\ \A d \in Deliveries : GoodRow(deliveries[d])

\* Where a row may go: nowhere, or on from the automatic attempts.
Forward(row, next) ==
    /\ next.action = row.action
    /\ \/ StageOf(next) = StageOf(row)
       \/ StageOf(row) = "on_its_way" /\ StageOf(next) \in {"delivered", "with_manager"}

(***************************************************************************)
(* Numbers.                                                                *)
(***************************************************************************)
LEMMA Arithmetic ==
    /\ LongPast \in Int
    /\ LongPast <= 0
    /\ \A n \in Nat : n * RETRY_GAP \in Nat
<1>1. \A m, n \in Nat : m * n \in Nat
  OBVIOUS
<1> QED
  BY <1>1, DeliveryAssumption DEF LongPast

LEMMA FewFallDue ==
    ASSUME NEW row \in DeliveryRow
    PROVE  /\ Cardinality(FallenDue(row)) \in Nat
           /\ Cardinality(FallenDue(row)) <= MAX_AUTO_ATTEMPTS - row.automatic
<1> DEFINE left == MAX_AUTO_ATTEMPTS - row.automatic
           Rest == 0 .. left - 1
<1>1. left \in Nat
  BY DeliveryAssumption DEF DeliveryRow
<1>2. IsFiniteSet(Rest) /\ Cardinality(Rest) = left
  <2> HIDE DEF left
  <2>1. 0 \in Int /\ left - 1 \in Int
    BY <1>1
  <2>2. IsFiniteSet(0 .. left - 1)
        /\ Cardinality(0 .. left - 1) = IF 0 > left - 1 THEN 0 ELSE (left - 1) - 0 + 1
    BY <2>1, FS_Interval
  <2> QED
    BY <1>1, <2>2
<1>3. FallenDue(row) \subseteq Rest
  BY DEF FallenDue
<1>4. Cardinality(FallenDue(row)) \in Nat
  BY <1>2, <1>3, FS_Subset, FS_CardinalityType
<1>5. Cardinality(FallenDue(row)) <= Cardinality(Rest)
  BY <1>2, <1>3, FS_Subset
<1> QED
  BY <1>2, <1>4, <1>5

(***************************************************************************)
(* Rows.                                                                   *)
(***************************************************************************)
\* A column of a row: what an assignment does to the record.
LEMMA FailedRow ==
    ASSUME NEW row, GoodRow(row), NEW n \in Nat, n <= MAX_AUTO_ATTEMPTS - row.automatic,
           Waiting(row)
    PROVE  GoodRow(Failed(row, n)) /\ Forward(row, Failed(row, n))
           /\ Failed(row, n).status # "SUCCESS"
           /\ Failed(row, n).manual = row.manual
<1> USE DEF GoodRow, DeliveryRow, Statuses, Automatic
<1>1. row.automatic \in Nat /\ row.automatic + n \in 0 .. MAX_AUTO_ATTEMPTS
  BY DeliveryAssumption
<1>2. row.due \in Int /\ row.due >= LongPast /\ row.status \in {"PENDING", "RETRYING"}
  BY DEF Waiting
<1>3. row.due + n * RETRY_GAP \in Int /\ row.due + n * RETRY_GAP >= LongPast
  <2>1. n * RETRY_GAP \in Nat
    BY Arithmetic
  <2> QED
    BY <1>2, <2>1, Arithmetic
<1>4. CASE row.automatic + n = MAX_AUTO_ATTEMPTS
  <2> DEFINE next == [row EXCEPT !.automatic = @ + n, !.status = "NEEDS_ATTENTION", !.due = NULL]
  <2>1. Failed(row, n) = next
    BY <1>4 DEF Failed
  <2>2. GoodRow(next) /\ next.status = "NEEDS_ATTENTION" /\ next.manual = row.manual
        /\ next.action = row.action
    BY <1>1, <1>2, DeliveryAssumption
  <2> QED
    BY <1>2, <2>1, <2>2, DeliveryAssumption DEF Forward, StageOf
<1>5. CASE row.automatic + n # MAX_AUTO_ATTEMPTS
  <2> DEFINE next == [row EXCEPT !.automatic = @ + n, !.status = "RETRYING",
                                 !.due = @ + n * RETRY_GAP]
  <2>1. Failed(row, n) = next
    BY <1>5 DEF Failed
  <2>2. next.due = row.due + n * RETRY_GAP /\ next.automatic = row.automatic + n
        /\ next.status = "RETRYING" /\ next.manual = row.manual
        /\ next.action = row.action /\ next.sent = row.sent
    OBVIOUS
  <2>3. next.due # NULL /\ next.automatic < MAX_AUTO_ATTEMPTS
    BY <1>1, <1>3, <1>5, <2>2, DeliveryAssumption
  <2>4. next \in DeliveryRow
    BY <1>1, <1>3
  <2>5. GoodRow(next)
    BY <1>2, <2>2, <2>3, <2>4, DeliveryAssumption
  <2> QED
    BY <1>2, <2>1, <2>2, <2>5, DeliveryAssumption DEF Forward, StageOf
<1> QED
  BY <1>4, <1>5

LEMMA SentRow ==
    ASSUME NEW row \in DeliveryRow, row.sent = 0
    PROVE  /\ GoodRow(Sent(row))
           /\ Sent(row).status = "SUCCESS"
           /\ Sent(row).manual = row.manual
           /\ Sent(row).action = row.action
<1>1. /\ Sent(row).status = "SUCCESS"
      /\ Sent(row).sent = 1
      /\ Sent(row).manual = row.manual
      /\ Sent(row).action = row.action
  BY DEF Sent, DeliveryRow
<1>2. Sent(row) \in DeliveryRow
  <2>1. Sent(row) = [row EXCEPT !.status = "SUCCESS", !.sent = 1, !.due = NULL]
    BY DEF Sent, DeliveryRow
  <2> DEFINE next == [row EXCEPT !.status = "SUCCESS", !.sent = 1, !.due = NULL]
  <2>2. next \in DeliveryRow
    BY DEF DeliveryRow, Statuses
  <2> QED
    BY <2>1, <2>2
<1> QED
  BY <1>1, <1>2, DeliveryAssumption DEF GoodRow, Automatic

\* The attempts that have fallen due, whatever the endpoint does.
LEMMA AdvancedRow ==
    ASSUME NEW row, GoodRow(row)
    PROVE  /\ GoodRow(Advance(row)) /\ Forward(row, Advance(row))
           /\ Advance(row).manual = row.manual
           /\ Advance(row).automatic # row.automatic => row.status \in Automatic
           /\ row.status \notin Automatic => Advance(row) = row
<1>1. CASE FallenDue(row) = {}
  BY <1>1 DEF Advance, Forward
<1>2. CASE FallenDue(row) # {} /\ endpoint = "READY" /\ ~row.times_out
  <2> DEFINE tried == [row EXCEPT !.automatic = @ + 1]
  <2>1. Waiting(row)
    BY <1>2 DEF FallenDue
  <2>2. tried \in DeliveryRow /\ tried.sent = 0 /\ tried.manual = row.manual
        /\ tried.action = row.action
    BY <2>1, DeliveryAssumption DEF Waiting, GoodRow, DeliveryRow, Automatic
  <2>3. Advance(row) = Sent(tried)
    BY <1>2 DEF Advance
  <2> HIDE DEF tried
  <2> QED
    BY <2>1, <2>2, <2>3, SentRow, DeliveryAssumption DEF Waiting, Automatic, Forward, StageOf
<1>3. CASE FallenDue(row) # {} /\ ~(endpoint = "READY" /\ ~row.times_out)
  <2>1. Waiting(row)
    BY <1>3 DEF FallenDue
  <2>2. Advance(row) = Failed(row, Cardinality(FallenDue(row)))
    BY <1>3 DEF Advance
  <2> QED
    BY <2>1, <2>2, FewFallDue, FailedRow DEF GoodRow, Waiting
<1> QED
  BY <1>1, <1>2, <1>3

\* The Manager's attempt never hands a result back to the automatic ones.
LEMMA ManuallyRow ==
    ASSUME NEW row, GoodRow(row), row.status \in Statuses, row.manual < MaxManual
    PROVE  LET next == Manually(row)
           IN  /\ GoodRow(next)
               /\ next.action = row.action
               /\ next.automatic = row.automatic
               /\ \/ StageOf(row) = "delivered" /\ next = row
                  \/ StageOf(row) \in {"on_its_way", "with_manager"}
                     /\ StageOf(next) \in {"delivered", "with_manager"}
<1>1. CASE row.status = "SUCCESS"
  BY <1>1, DeliveryAssumption DEF Manually, StageOf, Automatic
<1> DEFINE sent == [Sent(row) EXCEPT !.manual = @ + 1, !.times_out = FALSE]
           failed == [row EXCEPT !.manual = @ + 1, !.status = "NEEDS_ATTENTION"]
<1>2. CASE row.status # "SUCCESS" /\ endpoint = "READY"
  <2>1. Manually(row) = sent
    BY <1>2 DEF Manually
  <2>2. row.sent = 0 /\ row.manual + 1 \in 0 .. MaxManual
    BY <1>2, DeliveryAssumption DEF GoodRow, DeliveryRow
  <2>3. GoodRow(Sent(row)) /\ Sent(row).status = "SUCCESS" /\ Sent(row).manual = row.manual
        /\ Sent(row).action = row.action
    BY <2>2, SentRow DEF GoodRow
  <2>4. sent \in DeliveryRow /\ sent.status = "SUCCESS" /\ sent.sent = Sent(row).sent
        /\ sent.action = row.action /\ sent.automatic = row.automatic
    BY <2>2, <2>3 DEF GoodRow, DeliveryRow, Sent
  <2>5. GoodRow(sent)
    BY <2>3, <2>4 DEF GoodRow, Automatic
  <2> QED
    BY <1>2, <2>1, <2>4, <2>5, DeliveryAssumption DEF StageOf, Automatic, Statuses
<1>3. CASE row.status # "SUCCESS" /\ endpoint # "READY"
  <2>1. Manually(row) = failed
    BY <1>3 DEF Manually
  <2>2. row.manual + 1 \in 0 .. MaxManual
    BY DeliveryAssumption DEF GoodRow, DeliveryRow
  <2>3. failed \in DeliveryRow /\ failed.status = "NEEDS_ATTENTION" /\ failed.sent = row.sent
        /\ failed.action = row.action /\ failed.automatic = row.automatic
    BY <2>2 DEF GoodRow, DeliveryRow, Statuses
  <2>4. GoodRow(failed)
    BY <1>3, <2>3, DeliveryAssumption DEF GoodRow, Automatic
  <2> QED
    BY <1>3, <2>1, <2>3, <2>4, DeliveryAssumption DEF StageOf, Automatic, Statuses
<1> QED
  BY <1>1, <1>2, <1>3

LEMMA SoonerRow ==
    ASSUME NEW row, GoodRow(row)
    PROVE  LET next == [row EXCEPT !.due = Sooner(@)]
           IN  /\ GoodRow(next) /\ StageOf(next) = StageOf(row)
               /\ next.action = row.action /\ next.automatic = row.automatic
<1> DEFINE next == [row EXCEPT !.due = Sooner(@)]
<1>1. /\ Sooner(row.due) \in {n \in Int : n >= LongPast} \cup {NULL}
      /\ row.due # NULL => Sooner(row.due) # NULL
  BY Arithmetic, DeliveryAssumption DEF Sooner, GoodRow, DeliveryRow
<1>2. next \in DeliveryRow /\ next.status = row.status /\ next.action = row.action
      /\ next.automatic = row.automatic /\ next.sent = row.sent /\ next.due = Sooner(row.due)
  BY <1>1 DEF GoodRow, DeliveryRow
<1> QED
  BY <1>1, <1>2 DEF GoodRow, StageOf

(***************************************************************************)
(* Steps. A step of d alone, or of every row, keeps the invariant when the *)
(* rows it writes are good.                                                *)
(***************************************************************************)
LEMMA RowWritten ==
    ASSUME DeliveryInv, NEW d \in Deliveries, NEW new, GoodRow(new),
           deliveries' = [deliveries EXCEPT ![d] = new],
           endpoint' \in {"READY", "ERROR"}, told' \in [Deliveries -> BOOLEAN]
    PROVE  DeliveryInv'
  BY DEF DeliveryInv, TypeOK, GoodRow

LEMMA InitInv == Init => DeliveryInv
<1> SUFFICES ASSUME Init PROVE DeliveryInv
  OBVIOUS
<1>1. GoodRow(NoRow)
  BY DeliveryAssumption, Arithmetic
  DEF GoodRow, NoRow, Row, DeliveryRow, Automatic, Statuses
<1>2. GoodRow(Row("NEEDS_ATTENTION", MAX_AUTO_ATTEMPTS, 0, NULL, TRUE))
  BY DeliveryAssumption, Arithmetic
  DEF GoodRow, Row, DeliveryRow, Automatic, Statuses
<1>3. ASSUME NEW n \in {1, 2} \cap 1 .. MAX_AUTO_ATTEMPTS
      PROVE  GoodRow(Row("SUCCESS", n, 1, NULL, FALSE))
  BY DeliveryAssumption, Arithmetic
  DEF GoodRow, Row, DeliveryRow, Automatic, Statuses
<1>4. \A d \in Deliveries : GoodRow(deliveries[d])
  BY <1>1, <1>2, <1>3 DEF Init
<1>5. deliveries \in [Deliveries -> DeliveryRow]
  <2>1. deliveries = [d \in Deliveries |-> deliveries[d]]
    BY DEF Init
  <2> QED
    BY <1>4, <2>1 DEF GoodRow
<1> QED
  BY <1>4, <1>5 DEF DeliveryInv, TypeOK, Init

LEMMA NextInv ==
    ASSUME DeliveryInv, [Next]_vars PROVE DeliveryInv'
<1>g. \A d \in Deliveries : GoodRow(deliveries[d])
  BY DEF DeliveryInv
<1>t. endpoint \in {"READY", "ERROR"} /\ told \in [Deliveries -> BOOLEAN]
      /\ deliveries \in [Deliveries -> DeliveryRow]
  BY DEF DeliveryInv, TypeOK
<1>1. ASSUME NEW d \in Deliveries, CreateDelivery(d) PROVE DeliveryInv'
  <2>1. GoodRow(Row("PENDING", 0, 0, FIRST_ATTEMPT_DELAY, FALSE))
    BY DeliveryAssumption, Arithmetic
    DEF GoodRow, Row, DeliveryRow, Automatic, Statuses
  <2> QED
    BY <1>1, <1>t, <2>1, RowWritten DEF CreateDelivery
<1>2. ASSUME NEW d \in Deliveries, GetDelivery(d) PROVE DeliveryInv'
  BY <1>2, <1>g, <1>t, AdvancedRow, RowWritten DEF GetDelivery
<1>3. ASSUME NEW d \in Deliveries, GetStatus(d) PROVE DeliveryInv'
  BY <1>3, <1>g, <1>t, AdvancedRow, RowWritten DEF GetStatus
<1>4. ASSUME NEW d \in Deliveries, GetStatusOfOpenCase(d) PROVE DeliveryInv'
  BY <1>4 DEF GetStatusOfOpenCase, DeliveryInv, TypeOK, GoodRow
<1>5. ASSUME NEW d \in Deliveries, RetryDelivery(d) PROVE DeliveryInv'
  <2> DEFINE row == Advance(deliveries[d])
  <2>1. GoodRow(row) /\ row.manual = deliveries[d].manual
    BY <1>g, AdvancedRow
  <2>2. row.status \in Statuses /\ row.manual < MaxManual
    BY <1>5, <1>g, <2>1, AdvancedRow, DeliveryAssumption
    DEF RetryDelivery, Exists, Forward, StageOf, GoodRow, DeliveryRow, Automatic, Statuses
  <2>3. deliveries' = [deliveries EXCEPT ![d] = Manually(row)]
    BY <1>5 DEF RetryDelivery
  <2> HIDE DEF row
  <2>4. GoodRow(Manually(row))
    BY <2>1, <2>2, ManuallyRow
  <2> QED
    BY <1>5, <1>t, <2>3, <2>4, RowWritten DEF RetryDelivery
<1>6. ASSUME NEW d \in Deliveries, SimulateFailure(d) PROVE DeliveryInv'
  <2>1. GoodRow([deliveries[d] EXCEPT !.times_out = TRUE])
    BY <1>g DEF GoodRow, DeliveryRow
  <2>2. deliveries' = [deliveries EXCEPT ![d] = [deliveries[d] EXCEPT !.times_out = TRUE]]
    BY <1>6, <1>t DEF SimulateFailure
  <2> QED
    BY <1>6, <1>t, <2>1, <2>2, RowWritten DEF SimulateFailure
<1>7. ASSUME NEW d \in Deliveries, NEW a \in PlatformActions, RecordPlatformAction(d, a)
      PROVE  DeliveryInv'
  <2>1. GoodRow([deliveries[d] EXCEPT !.action = a])
    BY <1>7, <1>g DEF GoodRow, DeliveryRow, RecordPlatformAction
  <2>2. deliveries' = [deliveries EXCEPT ![d] = [deliveries[d] EXCEPT !.action = a]]
    BY <1>7, <1>t DEF RecordPlatformAction
  <2> QED
    BY <1>7, <1>t, <2>1, <2>2, RowWritten DEF RecordPlatformAction
<1>8. CASE ListDeliveries
  <2>1. \A d \in Deliveries : GoodRow(Advance(deliveries[d]))
    BY <1>g, AdvancedRow
  <2> QED
    BY <1>8, <1>t, <2>1 DEF ListDeliveries, DeliveryInv, TypeOK, GoodRow
<1>9. CASE EndpointChanges
  BY <1>9 DEF EndpointChanges, DeliveryInv, TypeOK, GoodRow
<1>10. CASE Tick
  <2>1. \A d \in Deliveries : GoodRow([deliveries[d] EXCEPT !.due = Sooner(@)])
    BY <1>g, SoonerRow
  <2> QED
    BY <1>10, <1>t, <2>1 DEF Tick, DeliveryInv, TypeOK, GoodRow
<1>11. CASE UNCHANGED vars
  BY <1>11 DEF vars, DeliveryInv, TypeOK, GoodRow
<1> QED
  BY <1>1, <1>2, <1>3, <1>4, <1>5, <1>6, <1>7, <1>8, <1>9, <1>10, <1>11 DEF Next

LEMMA InvHolds == Spec => []DeliveryInv
<1>1. Init => DeliveryInv
  BY InitInv
<1>2. DeliveryInv /\ [Next]_vars => DeliveryInv'
  BY NextInv
<1> QED
  BY <1>1, <1>2, PTL DEF Spec

(***************************************************************************)
(* Theorems.                                                               *)
(***************************************************************************)
\* Every column of a delivery keeps its type; no row counts more automatic
\* attempts than the budget, for any budget and any number of deliveries.
THEOREM DeliveriesTyped == Spec => []TypeOK
<1>1. DeliveryInv => TypeOK
  BY DEF DeliveryInv
<1> QED
  BY <1>1, InvHolds, PTL

\* A result is sent once (retry_delivery, advance_delivery).
THEOREM SentOnce == Spec => []SentAtMostOnce
<1>1. DeliveryInv => SentAtMostOnce
  BY DEF DeliveryInv, GoodRow, SentAtMostOnce
<1> QED
  BY <1>1, InvHolds, PTL

\* A pending or retrying delivery has a next attempt and budget for it.
THEOREM AttemptPlanned == Spec => []NextAttemptIsPlanned
<1>1. DeliveryInv => NextAttemptIsPlanned
  BY DEF DeliveryInv, GoodRow, NextAttemptIsPlanned
<1> QED
  BY <1>1, InvHolds, PTL

(***************************************************************************)
(* The loop of advance_delivery.                                           *)
(***************************************************************************)
\* A function of rounds that follows the loop is the loop's.
LEMMA RoundsAre ==
    ASSUME NEW row, NEW g, g[0] = row,
           \A n \in 1 .. MAX_AUTO_ATTEMPTS :
               g[n] = IF IsDue(g[n - 1]) THEN OneAttempt(g[n - 1]) ELSE g[n - 1]
    PROVE  Rounds(row)[MAX_AUTO_ATTEMPTS] = g[MAX_AUTO_ATTEMPTS]
<1> DEFINE N == MAX_AUTO_ATTEMPTS
           Follows(f) == f = [n \in 0 .. N |-> IF n = 0 THEN row
                                              ELSE IF IsDue(f[n - 1]) THEN OneAttempt(f[n - 1])
                                              ELSE f[n - 1]]
           h == [n \in 0 .. N |-> g[n]]
           f == CHOOSE f : Follows(f)
<1>1. N \in Nat
  BY DeliveryAssumption
<1>2. Follows(h)
  <2> DEFINE k == [n \in 0 .. N |-> IF n = 0 THEN row
                                   ELSE IF IsDue(h[n - 1]) THEN OneAttempt(h[n - 1])
                                   ELSE h[n - 1]]
  <2>1. ASSUME NEW n \in 0 .. N PROVE h[n] = k[n]
    <3>1. CASE n = 0
      BY <1>1, <3>1
    <3>2. CASE n \in 1 .. N
      <4>1. h[n - 1] = g[n - 1] /\ h[n] = g[n]
        BY <1>1, <3>2
      <4> QED
        BY <3>2, <4>1
    <3> QED
      BY <1>1, <3>1, <3>2
  <2>2. h = k
    BY <2>1
  <2> QED
    BY <2>2
<1>3. Follows(f)
  BY <1>2
<1>4. Rounds(row) = f
  BY DEF Rounds
<1> HIDE DEF f, h
<1> DEFINE P == {n \in Nat : n \in 0 .. N => f[n] = g[n]}
<1>5. 0 \in P
  BY <1>1, <1>3
<1>6. \A n \in P \cap Nat : n + 1 \in P
  <2> SUFFICES ASSUME NEW n \in P, n + 1 \in 0 .. N PROVE f[n + 1] = g[n + 1]
    OBVIOUS
  <2>1. f[n] = g[n] /\ n + 1 \in 1 .. N /\ n + 1 # 0 /\ (n + 1) - 1 = n
    BY <1>1
  <2>2. f[n + 1] = IF IsDue(f[n]) THEN OneAttempt(f[n]) ELSE f[n]
    BY <1>3, <2>1
  <2>3. g[n + 1] = IF IsDue(g[n]) THEN OneAttempt(g[n]) ELSE g[n]
    BY <2>1
  <2> QED
    BY <2>1, <2>2, <2>3
<1> HIDE DEF P
<1>7. Nat \subseteq P
  BY <1>5, <1>6, NatInd
<1> QED
  BY <1>1, <1>4, <1>7 DEF P

\* What has fallen due are the first so many of the attempts left.
LEMMA DueInOrder ==
    ASSUME NEW row \in DeliveryRow
    PROVE  FallenDue(row) = 0 .. Cardinality(FallenDue(row)) - 1
<1> DEFINE S == FallenDue(row)
           k == Cardinality(S)
<1>1. k \in Nat /\ IsFiniteSet(S)
  <2>1. S \subseteq 0 .. (MAX_AUTO_ATTEMPTS - row.automatic) - 1
    BY DEF FallenDue
  <2>2. MAX_AUTO_ATTEMPTS - row.automatic \in Int
    BY DeliveryAssumption DEF DeliveryRow
  <2>3. IsFiniteSet(0 .. (MAX_AUTO_ATTEMPTS - row.automatic) - 1)
    BY <2>2, FS_Interval
  <2>4. IsFiniteSet(S)
    BY <2>1, <2>3, FS_Subset
  <2> QED
    BY <2>4, FewFallDue
<1>2. \A i \in S : i \in Nat /\ \A j \in 0 .. i : j \in S
  <2> SUFFICES ASSUME NEW i \in S PROVE i \in Nat /\ \A j \in 0 .. i : j \in S
    OBVIOUS
  <2>0. i \in Nat
    BY DeliveryAssumption DEF FallenDue, DeliveryRow
  <2> SUFFICES ASSUME NEW j \in 0 .. i PROVE j \in S
    BY <2>0
  <2>1. /\ Waiting(row) /\ row.due + i * RETRY_GAP <= 0
        /\ i \in 0 .. MAX_AUTO_ATTEMPTS - row.automatic - 1
    BY DEF FallenDue
  <2>2. MAX_AUTO_ATTEMPTS - row.automatic - 1 \in Int /\ i \in Nat /\ j \in Nat /\ row.due \in Int
    BY <2>1, DeliveryAssumption DEF DeliveryRow, Waiting
  <2>3. j * RETRY_GAP <= i * RETRY_GAP /\ j * RETRY_GAP \in Int /\ i * RETRY_GAP \in Int
    <3>1. (i - j) * RETRY_GAP \in Nat
      BY <2>2, DeliveryAssumption
    <3>2. (i - j) * RETRY_GAP = i * RETRY_GAP - j * RETRY_GAP
      BY <2>2, DeliveryAssumption
    <3> QED
      BY <2>2, <3>1, <3>2, DeliveryAssumption
  <2> QED
    BY <2>1, <2>2, <2>3 DEF FallenDue
<1> HIDE DEF S
<1>3. S \subseteq 0 .. k - 1
  <2> SUFFICES ASSUME NEW i \in S, i \notin 0 .. k - 1 PROVE FALSE
    OBVIOUS
  <2>1. i \in Nat /\ 0 .. i \subseteq S
    BY <1>2
  <2>2. Cardinality(0 .. i) = i + 1
    BY <2>1, FS_Interval
  <2>3. Cardinality(0 .. i) <= k
    BY <1>1, <2>1, FS_Subset
  <2> QED
    BY <1>1, <2>1, <2>2, <2>3
<1>4. IsFiniteSet(0 .. k - 1) /\ Cardinality(0 .. k - 1) = k
  BY <1>1, FS_Interval
<1>5. S = 0 .. k - 1
  BY <1>3, <1>4, FS_Subset
<1> QED
  BY <1>5 DEF S

\* A loop that finds nothing due, one whose first attempt succeeds.
LEMMA NothingDue ==
    ASSUME NEW row, GoodRow(row), FallenDue(row) = {}
    PROVE  ~IsDue(row) /\ Rounds(row)[MAX_AUTO_ATTEMPTS] = row
<1> DEFINE g == [n \in 0 .. MAX_AUTO_ATTEMPTS |-> row]
<1>1. ~IsDue(row)
  <2> SUFFICES ASSUME IsDue(row) PROVE FALSE
    OBVIOUS
  <2>1. Waiting(row) /\ row.due <= 0 /\ row.automatic < MAX_AUTO_ATTEMPTS /\ row.due \in Int
        /\ row.automatic \in Nat
    BY DeliveryAssumption DEF IsDue, Waiting, GoodRow, DeliveryRow
  <2>2. row.due + 0 * RETRY_GAP <= 0 /\ 0 \in 0 .. MAX_AUTO_ATTEMPTS - row.automatic - 1
    BY <2>1, DeliveryAssumption
  <2>3. 0 \in FallenDue(row)
    BY <2>1, <2>2 DEF FallenDue
  <2> QED
    BY <2>3
<1>2. g[0] = row /\ g[MAX_AUTO_ATTEMPTS] = row
  BY DeliveryAssumption
<1>3. \A n \in 1 .. MAX_AUTO_ATTEMPTS : g[n] = row /\ g[n - 1] = row
  BY DeliveryAssumption
<1> HIDE DEF g
<1>4. Rounds(row)[MAX_AUTO_ATTEMPTS] = g[MAX_AUTO_ATTEMPTS]
  BY <1>1, <1>2, <1>3, RoundsAre
<1> QED
  BY <1>1, <1>2, <1>4

LEMMA FirstSucceeds ==
    ASSUME NEW row, GoodRow(row), FallenDue(row) # {}, endpoint = "READY", ~row.times_out
    PROVE  ~IsDue(Advance(row)) /\ Rounds(row)[MAX_AUTO_ATTEMPTS] = Advance(row)
<1> DEFINE sent == Advance(row)
           g == [n \in 0 .. MAX_AUTO_ATTEMPTS |-> IF n = 0 THEN row ELSE sent]
<1>1. row \in DeliveryRow /\ Waiting(row)
  BY DEF GoodRow, FallenDue
<1>2. IsDue(row)
  <2>1. 0 \in FallenDue(row)
    BY <1>1, DueInOrder, FewFallDue
  <2>2. row.due + 0 * RETRY_GAP <= 0 /\ row.due \in Int
    BY <1>1, <2>1, DeliveryAssumption DEF FallenDue, DeliveryRow, Waiting
  <2> QED
    BY <1>1, <2>2, DeliveryAssumption DEF IsDue, Waiting
<1>3. OneAttempt(row) = sent /\ sent.status = "SUCCESS"
  BY <1>1 DEF OneAttempt, Advance, Sent, DeliveryRow
<1>4. ~IsDue(sent)
  BY <1>3 DEF IsDue, Automatic
<1> HIDE DEF sent
<1>5. g[0] = row /\ g[MAX_AUTO_ATTEMPTS] = sent
  BY DeliveryAssumption
<1>6. \A n \in 1 .. MAX_AUTO_ATTEMPTS : /\ g[n] = sent
                                        /\ g[n - 1] = row \/ g[n - 1] = sent
  BY DeliveryAssumption
<1> HIDE DEF g
<1>7. Rounds(row)[MAX_AUTO_ATTEMPTS] = g[MAX_AUTO_ATTEMPTS]
  BY <1>2, <1>3, <1>4, <1>5, <1>6, RoundsAre
<1> QED
  BY <1>4, <1>5, <1>7 DEF sent

\* One that fails as long as something is due: after n rounds the row is what n
\* failures make of it.
LEMMA AllFail ==
    ASSUME NEW row, GoodRow(row), FallenDue(row) # {}, ~(endpoint = "READY" /\ ~row.times_out)
    PROVE  ~IsDue(Advance(row)) /\ Rounds(row)[MAX_AUTO_ATTEMPTS] = Advance(row)
<1> DEFINE m == Cardinality(FallenDue(row))
           After(n) == IF n = 0 THEN row ELSE Failed(row, n)
           g == [n \in 0 .. MAX_AUTO_ATTEMPTS |-> IF n < m THEN After(n) ELSE After(m)]
<1>1. row \in DeliveryRow /\ Waiting(row) /\ row.status \in Automatic
  BY DEF GoodRow, FallenDue, Waiting
<1>2. /\ FallenDue(row) = 0 .. m - 1
      /\ m \in Nat /\ m <= MAX_AUTO_ATTEMPTS - row.automatic /\ m # 0
  BY <1>1, DueInOrder, FewFallDue
<1>3. /\ row.automatic \in Nat /\ row.due \in Int /\ row.due # NULL
      /\ MAX_AUTO_ATTEMPTS \in Nat /\ RETRY_GAP \in Nat
  BY <1>1, DeliveryAssumption DEF DeliveryRow, Waiting
<1>4. Advance(row) = After(m)
  BY <1>2 DEF Advance
<1>5. \A n \in Nat : /\ n < m => row.due + n * RETRY_GAP <= 0
                     /\ n = m => \/ row.automatic + n = MAX_AUTO_ATTEMPTS
                                 \/ ~(row.due + n * RETRY_GAP <= 0)
  <2> HIDE DEF m
  <2>1. ASSUME NEW n \in Nat, n < m PROVE row.due + n * RETRY_GAP <= 0
    <3>1. n \in FallenDue(row)
      BY <1>2, <2>1
    <3> QED
      BY <1>1, <3>1 DEF FallenDue
  <2>2. ASSUME row.automatic + m # MAX_AUTO_ATTEMPTS PROVE ~(row.due + m * RETRY_GAP <= 0)
    <3>1. m \notin FallenDue(row)
      BY <1>2
    <3>2. m \in 0 .. MAX_AUTO_ATTEMPTS - row.automatic - 1
      BY <1>2, <1>3, <2>2
    <3> QED
      BY <1>1, <3>1, <3>2 DEF FallenDue
  <2> QED
    BY <2>1, <2>2
<1> HIDE DEF m
<1>6. \A n \in Nat : n * RETRY_GAP \in Int /\ (n + 1) * RETRY_GAP = n * RETRY_GAP + RETRY_GAP
  BY <1>3
<1>r. \A a, t, d, b, u, e :
          [[row EXCEPT !.automatic = a, !.status = t, !.due = d]
                EXCEPT !.automatic = b, !.status = u, !.due = e]
          = [row EXCEPT !.automatic = b, !.status = u, !.due = e]
  BY <1>1 DEF DeliveryRow
<1>7. ASSUME NEW n \in Nat, n < m PROVE IsDue(After(n)) /\ OneAttempt(After(n)) = After(n + 1)
  <2>1. /\ n + 1 # 0 /\ row.automatic + n # MAX_AUTO_ATTEMPTS
        /\ row.automatic + (n + 1) = (row.automatic + n) + 1
        /\ row.automatic + (n + 1) >= MAX_AUTO_ATTEMPTS <=>
              row.automatic + (n + 1) = MAX_AUTO_ATTEMPTS
    BY <1>2, <1>3, <1>7
  <2>2. row.due + n * RETRY_GAP <= 0 /\ row.due + n * RETRY_GAP \in Int
        /\ (row.due + n * RETRY_GAP) + RETRY_GAP = row.due + (n + 1) * RETRY_GAP
    BY <1>3, <1>5, <1>6, <1>7
  <2>3. /\ After(n).automatic = row.automatic + n /\ After(n).due = row.due + n * RETRY_GAP
        /\ After(n).status \in Automatic /\ After(n).times_out = row.times_out
        /\ After(n) = [row EXCEPT !.automatic = After(n).automatic, !.status = After(n).status,
                                  !.due = After(n).due]
    <3>1. CASE n = 0
      <4>1. 0 * RETRY_GAP = 0 /\ row.automatic + 0 = row.automatic /\ row.due + 0 = row.due
        BY <1>3
      <4> QED
        BY <1>1, <3>1, <4>1 DEF DeliveryRow
    <3>2. CASE n # 0
      <4>1. After(n) = [row EXCEPT !.automatic = @ + n, !.status = "RETRYING",
                                   !.due = @ + n * RETRY_GAP]
        BY <2>1, <3>2 DEF Failed
      <4> QED
        BY <1>1, <4>1 DEF DeliveryRow, Automatic
    <3> QED
      BY <3>1, <3>2
  <2>4. IsDue(After(n))
    BY <2>2, <2>3, DeliveryAssumption DEF IsDue
  <2>5. After(n + 1) = Failed(row, n + 1)
    BY <2>1
  <2> HIDE DEF After
  <2>6. CASE row.automatic + (n + 1) = MAX_AUTO_ATTEMPTS
    <3>1. OneAttempt(After(n)) = [After(n) EXCEPT !.automatic = After(n).automatic + 1,
                                     !.status = "NEEDS_ATTENTION", !.due = NULL]
      BY <2>1, <2>3, <2>6 DEF OneAttempt
    <3>2. Failed(row, n + 1) = [row EXCEPT !.automatic = @ + (n + 1),
                                     !.status = "NEEDS_ATTENTION", !.due = NULL]
      BY <2>6 DEF Failed
    <3>3. OneAttempt(After(n)) = [row EXCEPT !.automatic = After(n).automatic + 1,
                                     !.status = "NEEDS_ATTENTION", !.due = NULL]
      BY <1>r, <2>3, <3>1
    <3>4. After(n).automatic + 1 = row.automatic + (n + 1)
      BY <2>1, <2>3
    <3> QED
      BY <2>4, <2>5, <3>2, <3>3, <3>4
  <2>7. CASE row.automatic + (n + 1) # MAX_AUTO_ATTEMPTS
    <3>1. OneAttempt(After(n)) = [After(n) EXCEPT !.automatic = After(n).automatic + 1,
                                     !.status = "RETRYING", !.due = After(n).due + RETRY_GAP]
      BY <2>1, <2>3, <2>7 DEF OneAttempt
    <3>2. Failed(row, n + 1) = [row EXCEPT !.automatic = @ + (n + 1),
                                     !.status = "RETRYING", !.due = @ + (n + 1) * RETRY_GAP]
      BY <2>7 DEF Failed
    <3>3. OneAttempt(After(n)) = [row EXCEPT !.automatic = After(n).automatic + 1,
                                     !.status = "RETRYING", !.due = After(n).due + RETRY_GAP]
      BY <1>r, <2>3, <3>1
    <3>4. /\ After(n).automatic + 1 = row.automatic + (n + 1)
          /\ After(n).due + RETRY_GAP = row.due + (n + 1) * RETRY_GAP
      BY <2>1, <2>2, <2>3
    <3> QED
      BY <2>4, <2>5, <3>2, <3>3, <3>4
  <2> QED
    BY <2>6, <2>7
<1>8. ~IsDue(After(m))
  <2>1. After(m) = Failed(row, m)
    BY <1>2
  <2>2. CASE row.automatic + m = MAX_AUTO_ATTEMPTS
    <3>1. After(m).status = "NEEDS_ATTENTION"
      BY <1>1, <2>1, <2>2 DEF Failed, DeliveryRow
    <3> QED
      BY <3>1 DEF IsDue, Automatic
  <2>3. CASE row.automatic + m # MAX_AUTO_ATTEMPTS
    <3>1. After(m).due = row.due + m * RETRY_GAP
      BY <1>1, <2>1, <2>3 DEF Failed, DeliveryRow
    <3>2. ~(row.due + m * RETRY_GAP <= 0)
      BY <1>2, <1>5, <2>3
    <3> QED
      BY <3>1, <3>2 DEF IsDue
  <2> QED
    BY <2>2, <2>3
<1> HIDE DEF After
<1>9. g[0] = row /\ g[MAX_AUTO_ATTEMPTS] = After(m)
  BY <1>2, <1>3 DEF After
<1>10. ASSUME NEW n \in 1 .. MAX_AUTO_ATTEMPTS
       PROVE  g[n] = IF IsDue(g[n - 1]) THEN OneAttempt(g[n - 1]) ELSE g[n - 1]
  <2>1. n - 1 \in Nat /\ n \in Nat /\ (n - 1) + 1 = n /\ n - 1 \in 0 .. MAX_AUTO_ATTEMPTS
        /\ n \in 0 .. MAX_AUTO_ATTEMPTS
    BY <1>3
  <2>2. CASE n - 1 < m
    <3>1. g[n - 1] = After(n - 1) /\ g[n] = After(n)
      BY <1>2, <2>1, <2>2
    <3> HIDE DEF g
    <3> QED
      BY <1>7, <2>1, <2>2, <3>1
  <2>3. CASE ~(n - 1 < m)
    <3>1. g[n - 1] = After(m) /\ g[n] = After(m)
      BY <1>2, <2>1, <2>3
    <3> HIDE DEF g
    <3> QED
      BY <1>8, <3>1
  <2> QED
    BY <2>2, <2>3
<1> HIDE DEF g
<1>11. Rounds(row)[MAX_AUTO_ATTEMPTS] = g[MAX_AUTO_ATTEMPTS]
  BY <1>9, <1>10, RoundsAre
<1> QED
  BY <1>4, <1>8, <1>9, <1>11

\* The loop over what has fallen due ends within its budget, however long nobody
\* looked, and the model's count of attempts leaves the row the loop leaves.
THEOREM LoopCounted == Spec => []AdvanceIsTheLoop
<1>1. ASSUME NEW row, GoodRow(row)
      PROVE  LET left == Rounds(row)[MAX_AUTO_ATTEMPTS]
             IN  ~IsDue(left) /\ Advance(row) = left
  <2>1. CASE FallenDue(row) = {}
    <3>1. Advance(row) = row
      BY <2>1 DEF Advance
    <3> QED
      BY <1>1, <2>1, <3>1, NothingDue
  <2> QED
    BY <1>1, <2>1, FirstSucceeds, AllFail
<1>2. DeliveryInv => AdvanceIsTheLoop
  BY <1>1 DEF DeliveryInv, AdvanceIsTheLoop
<1> QED
  BY <1>2, InvHolds, PTL

\* After an attempt of the Manager's no automatic one is made, although a failed
\* retry leaves next_attempt_at in the row: the status alone ends the loop.
HandedOver == \A d \in Deliveries :
                 deliveries[d].manual # 0 => deliveries[d].status \notin Automatic

LEMMA HandedOverHolds ==
    /\ Init => HandedOver
    /\ DeliveryInv /\ HandedOver /\ [Next]_vars => HandedOver'
<1>1. Init => HandedOver
  BY DEF Init, HandedOver, NoRow, Row
<1> SUFFICES ASSUME DeliveryInv, HandedOver, [Next]_vars,
                    NEW d \in Deliveries, deliveries'[d].manual # 0
             PROVE  deliveries'[d].status \notin Automatic
  BY <1>1 DEF HandedOver
<1>g. GoodRow(deliveries[d]) /\ deliveries[d] \in DeliveryRow /\ deliveries \in [Deliveries -> DeliveryRow]
  BY DEF DeliveryInv, TypeOK, GoodRow
<1>h. deliveries[d].manual # 0 => deliveries[d].status \notin Automatic
  BY DEF HandedOver
<1>a. /\ Advance(deliveries[d]).manual = deliveries[d].manual
      /\ deliveries[d].status \notin Automatic => Advance(deliveries[d]) = deliveries[d]
  BY <1>g, AdvancedRow
<1>2. CASE deliveries'[d] = deliveries[d]
  BY <1>2, <1>h
<1>3. CASE deliveries'[d] = Advance(deliveries[d])
  BY <1>3, <1>h, <1>a
<1>4. CASE deliveries'[d] = Manually(Advance(deliveries[d])) /\ RetryDelivery(d)
  <2>1. LET row == Advance(deliveries[d]) IN GoodRow(row) /\ row.status \in Statuses
        /\ row.manual < MaxManual
    BY <1>4, <1>g, <1>a, AdvancedRow, DeliveryAssumption
    DEF RetryDelivery, Exists, Forward, StageOf, GoodRow, DeliveryRow, Automatic, Statuses
  <2>2. StageOf(deliveries'[d]) # "on_its_way"
    BY <1>4, <2>1, ManuallyRow, DeliveryAssumption DEF StageOf
  <2> QED
    BY <2>2, DeliveryAssumption DEF StageOf, Automatic
<1>5. CASE CreateDelivery(d)
  BY <1>5, <1>g DEF CreateDelivery, Row
<1>6. CASE /\ deliveries'[d].manual = deliveries[d].manual
           /\ deliveries'[d].status = deliveries[d].status
  BY <1>6, <1>h
<1>7. ASSUME NEW e \in Deliveries, NEW a, SimulateFailure(e) \/ RecordPlatformAction(e, a)
      PROVE  /\ deliveries'[d].manual = deliveries[d].manual
             /\ deliveries'[d].status = deliveries[d].status
  BY <1>7, <1>g DEF SimulateFailure, RecordPlatformAction, DeliveryRow
<1>8. CASE Tick
  BY <1>6, <1>8, <1>g DEF Tick, DeliveryRow
<1>9. ASSUME NEW e \in Deliveries,
             CreateDelivery(e) \/ GetDelivery(e) \/ GetStatus(e) \/ RetryDelivery(e), e # d
      PROVE  deliveries'[d] = deliveries[d]
  BY <1>9, <1>g DEF CreateDelivery, GetDelivery, GetStatus, RetryDelivery
<1>10. CASE GetDelivery(d) \/ GetStatus(d)
  BY <1>10, <1>g, <1>3 DEF GetDelivery, GetStatus
<1>11. CASE RetryDelivery(d)
  BY <1>11, <1>g, <1>4 DEF RetryDelivery
<1>12. CASE ListDeliveries
  BY <1>12, <1>3 DEF ListDeliveries
<1>13. CASE EndpointChanges \/ UNCHANGED vars \/ \E e \in Deliveries : GetStatusOfOpenCase(e)
  BY <1>13, <1>2 DEF EndpointChanges, vars, GetStatusOfOpenCase
<1> QED
  BY <1>2, <1>5, <1>6, <1>7, <1>8, <1>9, <1>10, <1>11, <1>12, <1>13 DEF Next

THEOREM ManagerHasIt == Spec => ManagerTakesOver
<1>1. Init => DeliveryInv /\ HandedOver
  BY InitInv, HandedOverHolds
<1>2. DeliveryInv /\ HandedOver /\ [Next]_vars => (DeliveryInv /\ HandedOver)'
  BY NextInv, HandedOverHolds
<1>3. DeliveryInv /\ HandedOver /\ [Next]_vars =>
        [\A d \in Deliveries :
           deliveries'[d].automatic # deliveries[d].automatic => deliveries[d].manual = 0]_vars
  <2> SUFFICES ASSUME DeliveryInv, HandedOver, [Next]_vars, NEW d \in Deliveries,
                      deliveries'[d].automatic # deliveries[d].automatic,
                      deliveries[d].manual # 0
               PROVE  FALSE
    OBVIOUS
  <2>g. GoodRow(deliveries[d]) /\ deliveries[d] \in DeliveryRow /\ deliveries \in [Deliveries -> DeliveryRow]
    BY DEF DeliveryInv, TypeOK, GoodRow
  <2>1. deliveries[d].status \notin Automatic
    BY DEF HandedOver
  <2>2. Advance(deliveries[d]) = deliveries[d]
    BY <2>1, <2>g, AdvancedRow
  <2>3. Manually(deliveries[d]).automatic = deliveries[d].automatic
    BY <2>g DEF Manually, Sent, DeliveryRow
  <2>4. ASSUME NEW e \in Deliveries, CreateDelivery(e) PROVE FALSE
    BY <2>4, <2>g DEF CreateDelivery, Row, Exists, GoodRow, DeliveryRow
  <2>5. ASSUME NEW e \in Deliveries,
               GetDelivery(e) \/ GetStatus(e) \/ GetStatusOfOpenCase(e) \/ RetryDelivery(e)
        PROVE  FALSE
    BY <2>5, <2>g, <2>2, <2>3
    DEF GetDelivery, GetStatus, GetStatusOfOpenCase, RetryDelivery
  <2>6. ASSUME NEW e \in Deliveries, NEW a, SimulateFailure(e) \/ RecordPlatformAction(e, a)
        PROVE  FALSE
    BY <2>6, <2>g DEF SimulateFailure, RecordPlatformAction, DeliveryRow
  <2>7. CASE ListDeliveries \/ Tick
    BY <2>7, <2>g, <2>2 DEF ListDeliveries, Tick, DeliveryRow
  <2>8. CASE EndpointChanges \/ UNCHANGED vars
    BY <2>8 DEF EndpointChanges, vars
  <2> QED
    BY <2>4, <2>5, <2>6, <2>7, <2>8 DEF Next
<1> QED
  BY <1>1, <1>2, <1>3, PTL DEF Spec, ManagerTakesOver

(***************************************************************************)
(* The refinement.                                                         *)
(***************************************************************************)
stage  == [d \in Deliveries |-> StageOf(deliveries[d])]
action == [d \in Deliveries |-> deliveries[d].action]

\* What the abstract state is after one row was written.
LEMMA OneRowMapped ==
    ASSUME DeliveryInv, NEW d \in Deliveries, NEW new,
           deliveries' = [deliveries EXCEPT ![d] = new]
    PROVE  /\ stage' = [stage EXCEPT ![d] = StageOf(new)]
           /\ action' = [action EXCEPT ![d] = new.action]
<1>1. deliveries \in [Deliveries -> DeliveryRow]
  BY DEF DeliveryInv, TypeOK
<1>2. \A e \in Deliveries : deliveries'[e] = IF e = d THEN new ELSE deliveries[e]
  BY <1>1
<1>3. stage' = [e \in Deliveries |-> StageOf(deliveries'[e])]
  BY DEF stage, StageOf
<1>4. action' = [e \in Deliveries |-> deliveries'[e].action]
  BY DEF action
<1>5. \A e \in Deliveries : StageOf(deliveries'[e]) = IF e = d THEN StageOf(new) ELSE stage[e]
  BY <1>2 DEF stage
<1>6. \A e \in Deliveries : deliveries'[e].action = IF e = d THEN new.action ELSE action[e]
  BY <1>2 DEF action
<1>7. stage = [e \in Deliveries |-> stage[e]] /\ action = [e \in Deliveries |-> action[e]]
  BY DEF stage, action
<1> QED
  BY <1>3, <1>4, <1>5, <1>6, <1>7

LEMMA StagesTyped == ASSUME NEW row, GoodRow(row) PROVE StageOf(row) \in Promise!Stages
  BY DEF GoodRow, DeliveryRow, Statuses, Automatic, StageOf, Promise!Stages

\* The Reporter was told of a delivered result only, and delivered it stays.
ToldOfDelivered == \A d \in Deliveries : told[d] => deliveries[d].status = "SUCCESS"

LEMMA ToldHolds ==
    /\ Init => ToldOfDelivered
    /\ DeliveryInv /\ ToldOfDelivered /\ [Next]_vars => ToldOfDelivered'
<1>1. Init => ToldOfDelivered
  BY DEF Init, ToldOfDelivered
<1> SUFFICES ASSUME DeliveryInv, ToldOfDelivered, [Next]_vars, NEW d \in Deliveries, told'[d]
             PROVE  deliveries'[d].status = "SUCCESS"
  BY <1>1 DEF ToldOfDelivered
<1>g. GoodRow(deliveries[d]) /\ deliveries[d] \in DeliveryRow /\ deliveries \in [Deliveries -> DeliveryRow]
      /\ told \in [Deliveries -> BOOLEAN]
  BY DEF DeliveryInv, TypeOK, GoodRow
<1>2. /\ deliveries[d].status = "SUCCESS" => Advance(deliveries[d]) = deliveries[d]
      /\ deliveries[d].status = "SUCCESS" => Manually(deliveries[d]) = deliveries[d]
  BY <1>g, AdvancedRow, DeliveryAssumption DEF Automatic, Manually
<1>3. ASSUME deliveries[d].status = "SUCCESS" PROVE deliveries'[d].status = "SUCCESS"
  <2>1. ASSUME NEW e \in Deliveries, CreateDelivery(e) PROVE deliveries'[d] = deliveries[d]
    BY <1>3, <2>1, <1>g, DeliveryAssumption DEF CreateDelivery, Exists
  <2>2. ASSUME NEW e \in Deliveries,
               GetDelivery(e) \/ GetStatus(e) \/ GetStatusOfOpenCase(e) \/ RetryDelivery(e)
        PROVE  deliveries'[d] = deliveries[d]
    BY <1>3, <2>2, <1>g, <1>2 DEF GetDelivery, GetStatus, GetStatusOfOpenCase, RetryDelivery
  <2>3. ASSUME NEW e \in Deliveries, NEW a, SimulateFailure(e) \/ RecordPlatformAction(e, a)
        PROVE  deliveries'[d].status = deliveries[d].status
    BY <2>3, <1>g DEF SimulateFailure, RecordPlatformAction, DeliveryRow
  <2>4. CASE ListDeliveries \/ Tick
    BY <1>3, <2>4, <1>g, <1>2 DEF ListDeliveries, Tick, DeliveryRow
  <2>5. CASE EndpointChanges \/ UNCHANGED vars
    BY <1>3, <2>5 DEF EndpointChanges, vars
  <2> QED
    BY <1>3, <2>1, <2>2, <2>3, <2>4, <2>5 DEF Next
<1>4. CASE told[d]
  BY <1>3, <1>4 DEF ToldOfDelivered
<1>5. CASE ~told[d]
  <2>1. GetStatus(d)
    BY <1>5, <1>g
    DEF Next, vars, CreateDelivery, GetDelivery, GetStatus, GetStatusOfOpenCase, RetryDelivery,
        SimulateFailure, RecordPlatformAction, ListDeliveries, EndpointChanges, Tick
  <2> QED
    BY <2>1, <1>g DEF GetStatus
<1> QED
  BY <1>4, <1>5

LEMMA StepKeepsPromise ==
    ASSUME DeliveryInv, ToldOfDelivered, DeliveryInv', [Next]_vars
    PROVE  [Promise!Next]_(Promise!vars)
<1>g. \A d \in Deliveries : GoodRow(deliveries[d])
  BY DEF DeliveryInv
<1>t. \A d \in Deliveries : stage[d] = StageOf(deliveries[d]) /\ action[d] = deliveries[d].action
  BY DEF stage, action
<1>v. ASSUME stage' = stage, action' = action, told' = told PROVE UNCHANGED Promise!vars
  BY <1>v DEF Promise!vars, stage, action
<1>1. ASSUME NEW d \in Deliveries, CreateDelivery(d) PROVE Promise!Queue(d)
  <2> DEFINE new == Row("PENDING", 0, 0, FIRST_ATTEMPT_DELAY, FALSE)
  <2>1. deliveries' = [deliveries EXCEPT ![d] = new] /\ deliveries[d].status = NULL
        /\ told' = told
    BY <1>1 DEF CreateDelivery, Exists
  <2>2. StageOf(new) = "on_its_way" /\ new.action = NULL
    BY DeliveryAssumption DEF Row, StageOf, Automatic
  <2>3. StageOf(deliveries[d]) = "none" /\ deliveries[d].action = NULL
    BY <1>g, <2>1, DeliveryAssumption DEF GoodRow, StageOf, Automatic
  <2> HIDE DEF new
  <2>6. /\ stage' = [stage EXCEPT ![d] = StageOf(new)]
        /\ action' = [action EXCEPT ![d] = new.action]
    BY <2>1, OneRowMapped
  <2>4. stage' = [stage EXCEPT ![d] = "on_its_way"] /\ action' = [action EXCEPT ![d] = NULL]
    BY <2>2, <2>6
  <2>5. action' = action
    BY <2>3, <2>4 DEF action
  <2> QED
    BY <2>1, <2>3, <2>4, <2>5, <1>t
    DEF Promise!Queue, Promise!At, Promise!Move, stage, action
\* One row advanced, and nothing else.
<1>a. ASSUME NEW d \in Deliveries, deliveries' = [deliveries EXCEPT ![d] = Advance(@)],
             told' = told
      PROVE  Promise!Attempts
  <2> DEFINE new == Advance(deliveries[d])
  <2>1. deliveries' = [deliveries EXCEPT ![d] = new]
    BY <1>a
  <2>2. Forward(deliveries[d], new) /\ GoodRow(new)
    BY <1>g, AdvancedRow
  <2> HIDE DEF new
  <2>3. /\ stage' = [stage EXCEPT ![d] = StageOf(new)]
        /\ action' = [action EXCEPT ![d] = new.action]
    BY <2>1, OneRowMapped
  <2>4. action' = action
    BY <2>2, <2>3 DEF action, Forward
  <2>5. stage' \in [Deliveries -> Promise!Stages]
    BY <2>2, <2>3, <1>g, StagesTyped DEF stage
  <2>6. \A e \in Deliveries : stage'[e] # stage[e]
           => stage[e] = "on_its_way" /\ stage'[e] \in {"delivered", "with_manager"}
    BY <2>2, <2>3, <1>t DEF Forward, stage
  <2> QED
    BY <1>a, <2>4, <2>5, <2>6 DEF Promise!Attempts, Promise!At, Promise!Stages, stage, action
<1>2. ASSUME NEW d \in Deliveries, GetDelivery(d) PROVE Promise!Attempts
  BY <1>2, <1>a DEF GetDelivery
<1>3. ASSUME NEW d \in Deliveries, GetStatusOfOpenCase(d) PROVE Promise!Withhold(d)
  <2>1. stage' = stage /\ action' = action
    BY <1>3 DEF GetStatusOfOpenCase, stage, action, StageOf
  <2> QED
    BY <1>3, <2>1 DEF GetStatusOfOpenCase, Promise!Withhold, stage, action
<1>4. ASSUME NEW d \in Deliveries, SimulateFailure(d) PROVE stage' = stage /\ action' = action
  <2> DEFINE new == [deliveries[d] EXCEPT !.times_out = TRUE]
  <2>1. new.status = deliveries[d].status /\ new.action = deliveries[d].action
    BY <1>g DEF GoodRow, DeliveryRow
  <2>2. deliveries' = [deliveries EXCEPT ![d] = new]
    BY <1>4 DEF SimulateFailure
  <2>3. StageOf(new) = StageOf(deliveries[d])
    BY <2>1 DEF StageOf
  <2> HIDE DEF new
  <2>4. /\ stage' = [stage EXCEPT ![d] = StageOf(new)]
        /\ action' = [action EXCEPT ![d] = new.action]
    BY <2>2, OneRowMapped
  <2> QED
    BY <2>1, <2>3, <2>4 DEF stage, action
<1>5. ASSUME NEW d \in Deliveries, NEW a \in PlatformActions, RecordPlatformAction(d, a)
      PROVE  Promise!Act(d, a)
  <2> DEFINE new == [deliveries[d] EXCEPT !.action = a]
  <2>1. new.status = "SUCCESS" /\ new.action = a /\ deliveries[d].status = "SUCCESS"
    BY <1>5, <1>g DEF GoodRow, DeliveryRow, RecordPlatformAction
  <2>2. deliveries' = [deliveries EXCEPT ![d] = new] /\ told' = told
    BY <1>5 DEF RecordPlatformAction
  <2>3. StageOf(new) = "delivered" /\ StageOf(deliveries[d]) = "delivered"
    BY <2>1, DeliveryAssumption DEF StageOf, Automatic
  <2> HIDE DEF new
  <2>4. /\ stage' = [stage EXCEPT ![d] = StageOf(new)]
        /\ action' = [action EXCEPT ![d] = new.action]
    BY <2>2, OneRowMapped
  <2>5. stage' = stage
    BY <2>3, <2>4 DEF stage
  <2> QED
    BY <2>1, <2>2, <2>3, <2>4, <2>5, <1>t DEF Promise!Act, Promise!At, stage, action
<1>6. ASSUME ListDeliveries PROVE Promise!Attempts
  <2>1. \A d \in Deliveries : Forward(deliveries[d], Advance(deliveries[d]))
                              /\ GoodRow(Advance(deliveries[d]))
    BY <1>g, AdvancedRow
  <2>2. /\ stage' = [d \in Deliveries |-> StageOf(deliveries'[d])]
        /\ action' = [d \in Deliveries |-> deliveries'[d].action]
    BY DEF stage, action, StageOf
  <2>3. \A d \in Deliveries : deliveries'[d] = Advance(deliveries[d])
    BY <1>6 DEF ListDeliveries
  <2>4. action' = action
    BY <2>1, <2>2, <2>3 DEF action, Forward
  <2>5. stage' \in [Deliveries -> Promise!Stages]
    BY <2>1, <2>2, <2>3, StagesTyped
  <2>6. \A d \in Deliveries : stage'[d] # stage[d]
           => stage[d] = "on_its_way" /\ stage'[d] \in {"delivered", "with_manager"}
    BY <2>1, <2>2, <2>3, <1>t DEF Forward
  <2> QED
    BY <1>6, <2>4, <2>5, <2>6
    DEF ListDeliveries, Promise!Attempts, Promise!At, Promise!Stages, stage, action
<1>7. ASSUME Tick PROVE UNCHANGED <<stage, action, told>>
  <2>1. \A d \in Deliveries : /\ StageOf(deliveries'[d]) = StageOf(deliveries[d])
                              /\ deliveries'[d].action = deliveries[d].action
    BY <1>7, <1>g, SoonerRow DEF Tick
  <2>2. /\ stage' = [d \in Deliveries |-> StageOf(deliveries'[d])]
        /\ action' = [d \in Deliveries |-> deliveries'[d].action]
    BY DEF stage, action, StageOf
  <2> QED
    BY <1>7, <2>1, <2>2 DEF Tick, stage, action
<1>8. ASSUME NEW d \in Deliveries, GetStatus(d) PROVE Promise!Attempts \/ Promise!Tell(d)
  <2> DEFINE new == Advance(deliveries[d])
  <2>1. deliveries' = [deliveries EXCEPT ![d] = new]
        /\ told' = [told EXCEPT ![d] = new.status = "SUCCESS"]
    BY <1>8 DEF GetStatus
  <2>2. Forward(deliveries[d], new) /\ GoodRow(new)
        /\ (deliveries[d].status = "SUCCESS" => new = deliveries[d])
    BY <1>g, AdvancedRow, DeliveryAssumption DEF Automatic
  <2>3. CASE new.status # "SUCCESS"
    <3>1. told[d] = FALSE
      BY <2>2, <2>3 DEF ToldOfDelivered, DeliveryInv, TypeOK
    <3>2. told' = told
      BY <2>1, <2>3, <3>1 DEF DeliveryInv, TypeOK
    <3> QED
      BY <2>1, <3>2, <1>a
  <2>4. CASE new.status = "SUCCESS"
    <3> HIDE DEF new
    <3>1. StageOf(new) = "delivered"
      BY <2>4, DeliveryAssumption DEF StageOf, Automatic
    <3>2. /\ stage' = [stage EXCEPT ![d] = "delivered"]
          /\ action' = [action EXCEPT ![d] = new.action]
      BY <2>1, <3>1, OneRowMapped
    <3>3. action' = action
      BY <2>2, <3>2 DEF action, Forward
    <3>4. told' = [told EXCEPT ![d] = TRUE]
      BY <2>1, <2>4
    <3>5. stage[d] = "on_its_way" \/ (stage[d] = "delivered" /\ stage' = stage)
      BY <2>2, <3>1, <3>2, <1>t DEF Forward, stage
    <3> QED
      BY <3>2, <3>3, <3>4, <3>5 DEF Promise!Tell, Promise!At, Promise!Move, stage, action
  <2> QED
    BY <2>3, <2>4
<1>9. ASSUME NEW d \in Deliveries, RetryDelivery(d) PROVE Promise!Attempts \/ Promise!Resend(d)
  <2> DEFINE row == Advance(deliveries[d])
             new == Manually(row)
  <2>1. deliveries' = [deliveries EXCEPT ![d] = new] /\ told' = told
    BY <1>9 DEF RetryDelivery
  <2>2. GoodRow(row) /\ row.manual = deliveries[d].manual /\ Forward(deliveries[d], row)
    BY <1>g, AdvancedRow
  <2>3. row.status \in Statuses /\ row.manual < MaxManual
    BY <1>9, <1>g, <2>2, DeliveryAssumption
    DEF RetryDelivery, Exists, Forward, StageOf, GoodRow, DeliveryRow, Automatic, Statuses
  <2>4. /\ new.action = row.action
        /\ \/ StageOf(row) = "delivered" /\ new = row
           \/ StageOf(row) \in {"on_its_way", "with_manager"}
              /\ StageOf(new) \in {"delivered", "with_manager"}
    <3> HIDE DEF row
    <3> QED
      BY <2>2, <2>3, ManuallyRow
  <2>5. CASE new = row
    <3>1. deliveries' = [deliveries EXCEPT ![d] = Advance(@)]
      BY <2>1, <2>5
    <3> QED
      BY <2>1, <3>1, <1>a
  <2>6. CASE new # row
    <3> HIDE DEF row, new
    <3>1. /\ stage' = [stage EXCEPT ![d] = StageOf(new)]
          /\ action' = [action EXCEPT ![d] = new.action]
      BY <2>1, OneRowMapped
    <3>2. action' = action
      BY <2>2, <2>4, <3>1 DEF action, Forward
    <3>3. stage[d] \in {"on_its_way", "with_manager"}
      BY <2>2, <2>4, <2>6, <1>t DEF Forward
    <3>4. StageOf(new) \in {"delivered", "with_manager"}
      BY <2>4, <2>6
    <3> QED
      BY <2>1, <3>1, <3>2, <3>3, <3>4 DEF Promise!Resend, Promise!At, Promise!Move, stage, action
  <2> QED
    BY <2>5, <2>6
<1>10. CASE \E d \in Deliveries, a \in PlatformActions : RecordPlatformAction(d, a)
  BY <1>5, <1>10 DEF Promise!Next, Promise!Actions, PlatformActions
<1>11. CASE \E d \in Deliveries : \/ CreateDelivery(d) \/ GetDelivery(d) \/ GetStatus(d)
                                   \/ GetStatusOfOpenCase(d) \/ RetryDelivery(d)
  BY <1>1, <1>2, <1>3, <1>8, <1>9, <1>11 DEF Promise!Next
<1>12. CASE \E d \in Deliveries : SimulateFailure(d)
  BY <1>4, <1>12, <1>v DEF SimulateFailure
<1>13. CASE EndpointChanges \/ UNCHANGED vars
  <2>1. deliveries' = deliveries /\ told' = told
    BY <1>13 DEF EndpointChanges, vars
  <2>2. stage' = stage /\ action' = action
    BY <2>1 DEF stage, action, StageOf
  <2> QED
    BY <2>1, <2>2, <1>v
<1>14. CASE ListDeliveries
  BY <1>6, <1>14 DEF Promise!Next
<1>15. CASE Tick
  BY <1>7, <1>15, <1>v
<1> QED
  BY <1>10, <1>11, <1>12, <1>13, <1>14, <1>15 DEF Next

LEMMA InitKeepsPromise == ASSUME Init, DeliveryInv PROVE Promise!Init
<1>1. stage \in [Deliveries -> Promise!Stages]
  BY StagesTyped DEF stage, DeliveryInv
<1>2. \A d \in Deliveries : deliveries[d].action = NULL
  BY DEF Init, NoRow, Row
<1>3. action = [d \in Deliveries |-> NULL]
  BY <1>2 DEF action
<1> QED
  BY <1>1, <1>3 DEF Promise!Init, Init, stage, action

\* The handoff as implemented delivers a result for good, leaves with the Manager
\* what the Manager has, and lets the customer act and the Reporter be told only
\* of what has arrived, for any number of deliveries, delays and budget.
THEOREM KeepsPromise == Spec => PromiseSpec
<1>1. Init => DeliveryInv /\ ToldOfDelivered
  BY InitInv, ToldHolds
<1>2. DeliveryInv /\ ToldOfDelivered /\ [Next]_vars => (DeliveryInv /\ ToldOfDelivered)'
  BY NextInv, ToldHolds
<1>3. Init => Promise!Init
  BY InitInv, InitKeepsPromise
<1>4. DeliveryInv /\ ToldOfDelivered /\ (DeliveryInv /\ ToldOfDelivered)' /\ [Next]_vars
         => [Promise!Next]_(Promise!vars)
  BY StepKeepsPromise
<1> QED
  BY <1>1, <1>2, <1>3, <1>4, PTL DEF Spec, PromiseSpec, Promise!Spec


=============================================================================
