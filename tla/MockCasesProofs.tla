-------------------------- MODULE MockCasesProofs --------------------------
(***************************************************************************)
(* The stand-in for the backend keeps the promise the backend keeps: its   *)
(* cases are on one list each and change hands as Custody says, who gets   *)
(* one is available, a cooldown is served, and an SOS has its alert.       *)
(***************************************************************************)
EXTENDS MockCases, FiniteInduction, SequenceTheorems

Doc(cs, q, st, ak, se) ==
    [cases |-> cs, queued |-> q, staff |-> st, asked |-> ak, sosEvents |-> se]

LEMMA DocumentParts ==
    ASSUME NEW d \in Document
    PROVE  /\ d.cases \in [Cases -> CaseRow] /\ d.queued \in [Cases -> Nat]
           /\ d.staff \in [Auditors -> StaffRow] /\ d.asked \in [Auditors -> SUBSET Kinds]
           /\ d.sosEvents \in Seq(SosEvent)
           /\ d = Doc(d.cases, d.queued, d.staff, d.asked, d.sosEvents)
  BY DEF Document, Doc

LEMMA DocumentOf ==
    ASSUME NEW cs \in [Cases -> CaseRow], NEW q \in [Cases -> Nat],
           NEW st \in [Auditors -> StaffRow], NEW ak \in [Auditors -> SUBSET Kinds],
           NEW se \in Seq(SosEvent), NEW d, d = Doc(cs, q, st, ak, se)
    PROVE  /\ d \in Document
           /\ d.cases = cs /\ d.queued = q /\ d.staff = st /\ d.asked = ak /\ d.sosEvents = se
  BY DEF Document, Doc

LEMMA DocumentWith ==
    ASSUME NEW d \in Document
    PROVE  /\ \A cs : [d EXCEPT !.cases = cs] = Doc(cs, d.queued, d.staff, d.asked, d.sosEvents)
           /\ \A q : [d EXCEPT !.queued = q] = Doc(d.cases, q, d.staff, d.asked, d.sosEvents)
           /\ \A st : [d EXCEPT !.staff = st] = Doc(d.cases, d.queued, st, d.asked, d.sosEvents)
           /\ \A ak : [d EXCEPT !.asked = ak] = Doc(d.cases, d.queued, d.staff, ak, d.sosEvents)
           /\ \A se : [d EXCEPT !.sosEvents = se] = Doc(d.cases, d.queued, d.staff, d.asked, se)
<1> DEFINE cs0 == d.cases
           q0 == d.queued
           st0 == d.staff
           ak0 == d.asked
           se0 == d.sosEvents
<1>0. d = Doc(cs0, q0, st0, ak0, se0)
    BY DocumentParts
<1> HIDE DEF cs0, q0, st0, ak0, se0
<1>1. ASSUME NEW cs PROVE [d EXCEPT !.cases = cs] = Doc(cs, q0, st0, ak0, se0)
    BY <1>0 DEF Doc
<1>2. ASSUME NEW q PROVE [d EXCEPT !.queued = q] = Doc(cs0, q, st0, ak0, se0)
    BY <1>0 DEF Doc
<1>3. ASSUME NEW st PROVE [d EXCEPT !.staff = st] = Doc(cs0, q0, st, ak0, se0)
    BY <1>0 DEF Doc
<1>4. ASSUME NEW ak PROVE [d EXCEPT !.asked = ak] = Doc(cs0, q0, st0, ak, se0)
    BY <1>0 DEF Doc
<1>5. ASSUME NEW se PROVE [d EXCEPT !.sosEvents = se] = Doc(cs0, q0, st0, ak0, se)
    BY <1>0 DEF Doc
<1> QED
    BY <1>1, <1>2, <1>3, <1>4, <1>5 DEF cs0, q0, st0, ak0, se0

LEMMA DocumentWithRequestsAndStaff ==
    ASSUME NEW d \in Document, NEW ak, NEW st
    PROVE  [d EXCEPT !.asked = ak, !.staff = st] = Doc(d.cases, d.queued, st, ak, d.sosEvents)
<1> DEFINE cs0 == d.cases
           q0 == d.queued
           st0 == d.staff
           ak0 == d.asked
           se0 == d.sosEvents
<1>1. d = Doc(cs0, q0, st0, ak0, se0)
    BY DocumentParts
<1> HIDE DEF cs0, q0, st0, ak0, se0
<1>2. [d EXCEPT !.asked = ak, !.staff = st] = [[d EXCEPT !.asked = ak] EXCEPT !.staff = st]
    BY <1>1 DEF Doc
<1>3. [d EXCEPT !.asked = ak] = Doc(cs0, q0, st0, ak, se0)
    BY <1>1 DEF Doc
<1>4. [Doc(cs0, q0, st0, ak, se0) EXCEPT !.staff = st] = Doc(cs0, q0, st, ak, se0)
    BY DEF Doc
<1> QED
    BY <1>2, <1>3, <1>4 DEF cs0, q0, st0, ak0, se0

LEMMA DocumentWithAlertsAndStaff ==
    ASSUME NEW d \in Document, NEW se, NEW st
    PROVE  [d EXCEPT !.sosEvents = se, !.staff = st] = Doc(d.cases, d.queued, st, d.asked, se)
<1> DEFINE cs0 == d.cases
           q0 == d.queued
           st0 == d.staff
           ak0 == d.asked
           se0 == d.sosEvents
<1>1. d = Doc(cs0, q0, st0, ak0, se0)
    BY DocumentParts
<1> HIDE DEF cs0, q0, st0, ak0, se0
<1>2. [d EXCEPT !.sosEvents = se, !.staff = st] = [[d EXCEPT !.sosEvents = se] EXCEPT !.staff = st]
    BY <1>1 DEF Doc
<1>3. [d EXCEPT !.sosEvents = se] = Doc(cs0, q0, st0, ak0, se)
    BY <1>1 DEF Doc
<1>4. [Doc(cs0, q0, st0, ak0, se) EXCEPT !.staff = st] = Doc(cs0, q0, st, ak0, se)
    BY DEF Doc
<1> QED
    BY <1>2, <1>3, <1>4 DEF cs0, q0, st0, ak0, se0

LEMMA NullIsNothing ==
    /\ NULL \notin Auditors /\ NULL \notin Standard /\ NULL \notin SuperAuditors
    /\ NULL \notin Statuses /\ NULL \notin Backend!Flags /\ NULL \notin Cooldown
    /\ Standard \subseteq Auditors /\ SuperAuditors \subseteq Auditors
  BY MockAssumption DEF Auditors, Backend!Auditors

GivenRow(row, a)   == [row EXCEPT !.auditor = a, !.visibility = "ASSIGNED_ONLY"]
GivenStaff(s)      == [s EXCEPT !.active = s.active + 1, !.last = Cardinality(Standard) + 1]

LEMMA GivenTyped ==
    ASSUME NEW row \in CaseRow, NEW a \in Auditors, NEW s \in StaffRow
    PROVE  /\ GivenRow(row, a) \in CaseRow
           /\ GivenStaff(s) \in StaffRow
<1> DEFINE n == Cardinality(Standard) + 1
<1>1. n \in Nat
    BY MockAssumption, FS_CardinalityType
<1>2. GivenRow(row, a) \in CaseRow
    BY DEF GivenRow, CaseRow, Backend!Visibilities
<1> DEFINE m == s.active + 1
<1>3. m \in Nat
    BY DEF StaffRow
<1> HIDE DEF n, m
<1>4. [s EXCEPT !.active = m, !.last = n] \in StaffRow
    BY <1>1, <1>3 DEF StaffRow
<1> QED
    BY <1>2, <1>4 DEF GivenStaff, n, m

LEMMA GivenDoc ==
    ASSUME NEW d \in Document, NEW c \in Cases, NEW a \in Auditors
    PROVE  Given(d, c, a) = Doc([d.cases EXCEPT ![c] = GivenRow(d.cases[c], a)], d.queued,
                                [d.staff EXCEPT ![a] = GivenStaff(d.staff[a])], d.asked, d.sosEvents)
<1>1. d.cases \in [Cases -> CaseRow] /\ d.staff \in [Auditors -> StaffRow]
    BY DocumentParts
<1>2. Given(d, c, a) = [d EXCEPT !.cases = [d.cases EXCEPT ![c] = GivenRow(d.cases[c], a)],
                                 !.staff = [d.staff EXCEPT ![a] = GivenStaff(d.staff[a])]]
    BY <1>1 DEF Given, Handed, Document, GivenRow, GivenStaff
<1> QED
    BY <1>2 DEF Document, Doc

\* What the rules of availability read.
SameFitness(s, t) == /\ t.exposure = s.exposure /\ t.limit = s.limit
                     /\ t.cooldown = s.cooldown /\ t.break = s.break

LEMMA FitnessStays ==
    ASSUME NEW s, NEW t, SameFitness(s, t)
    PROVE  Available(t) <=> Available(s)
  BY DEF SameFitness, Available, AtLimit, InCooldown, AwaitsCheckIn

LEMMA RankedTyped ==
    ASSUME NEW st \in [Auditors -> StaffRow]
    PROVE  /\ Ranked(st) \in [Auditors -> StaffRow]
           /\ \A a \in Auditors : SameFitness(st[a], Ranked(st)[a])
<1> DEFINE rank(a) == Cardinality({st[b].last : b \in {b \in Standard :
                                        0 < st[b].last /\ st[b].last <= st[a].last}})
<1>1. ASSUME NEW a \in Auditors PROVE rank(a) \in Nat
  <2> DEFINE n == st[a].last
             S == {st[b].last : b \in {b \in Standard : 0 < st[b].last /\ st[b].last <= n}}
  <2>1. n \in Nat
      BY DEF StaffRow
  <2>2. S \in SUBSET (0..n)
      BY <2>1, NullIsNothing DEF StaffRow
  <2>3. IsFiniteSet(0..n)
      BY <2>1, FS_Interval
  <2> HIDE DEF S, n
  <2>4. IsFiniteSet(S)
      BY <2>2, <2>3, FS_Subset
  <2>5. Cardinality(S) \in Nat
      BY <2>4, FS_CardinalityType
  <2> QED
      BY <2>5 DEF S, n
<1>2. \A a \in Auditors : Ranked(st)[a] = [st[a] EXCEPT !.last = IF a \in Standard THEN rank(a) ELSE 0]
    BY DEF Ranked
<1>3. Ranked(st) = [a \in Auditors |-> Ranked(st)[a]]
    BY DEF Ranked
<1> HIDE DEF rank
<1>4. ASSUME NEW a \in Auditors
      PROVE  Ranked(st)[a] \in StaffRow /\ SameFitness(st[a], Ranked(st)[a])
  <2> DEFINE n == IF a \in Standard THEN rank(a) ELSE 0
             s == st[a]
  <2>1. n \in Nat /\ s \in StaffRow /\ Ranked(st)[a] = [s EXCEPT !.last = n]
      BY <1>1, <1>2
  <2> HIDE DEF n, s
  <2>2. [s EXCEPT !.last = n] \in StaffRow /\ SameFitness(s, [s EXCEPT !.last = n])
      BY <2>1 DEF StaffRow, SameFitness
  <2> QED
      BY <2>1, <2>2 DEF s
<1> QED
    BY <1>3, <1>4

LEMMA SelectedFit ==
    ASSUME NEW s, NEW a \in Selected(s)
    PROVE  a \in Standard /\ a \in Auditors /\ Available(s[a])
  BY NullIsNothing DEF Selected

(***************************************************************************)
(* The pass of the automatic release.                                      *)
(***************************************************************************)
PlacedRow(d, c, row) ==
    c \in Waiting(d) /\ \E a \in Standard : Available(d.staff[a]) /\ row = GivenRow(d.cases[c], a)

PassOf(d, e) ==
    /\ e \in Document
    /\ e.queued = d.queued /\ e.asked = d.asked /\ e.sosEvents = d.sosEvents
    /\ \A a \in Auditors : SameFitness(d.staff[a], e.staff[a])
    /\ \A c \in Cases : e.cases[c] = d.cases[c] \/ PlacedRow(d, c, e.cases[c])

LEMMA PlaceNextPass ==
    ASSUME NEW d \in Document, NEW e, PassOf(d, e), NEW n
    PROVE  PassOf(d, PlaceNext(d, e, n))
<1> DEFINE next == {c \in Waiting(d) : d.queued[c] = n}
<1>0. e \in Document
    BY DEF PassOf
<1>1. CASE next = {} \/ Selected(e.staff) = {}
    BY <1>1 DEF PlaceNext
<1>2. CASE next # {} /\ Selected(e.staff) # {}
  <2>1. PICK c \in next : c = CHOOSE x \in next : TRUE
      BY <1>2
  <2>2. PICK a \in Selected(e.staff) : a = CHOOSE x \in Selected(e.staff) : TRUE
      BY <1>2
  <2>3. c \in Waiting(d) /\ c \in Cases
      BY <2>1 DEF Waiting
  <2>4. a \in Standard /\ a \in Auditors /\ Available(e.staff[a])
      BY <2>2, SelectedFit
  <2>5. Available(d.staff[a])
      BY <2>4, FitnessStays DEF PassOf
  <2>6. PlaceNext(d, e, n) = Given(e, c, a)
      BY <1>2, <2>1, <2>2 DEF PlaceNext
  <2> DEFINE cs == [e.cases EXCEPT ![c] = GivenRow(e.cases[c], a)]
             st == [e.staff EXCEPT ![a] = GivenStaff(e.staff[a])]
             f  == Given(e, c, a)
  <2>7. /\ e.cases \in [Cases -> CaseRow] /\ e.staff \in [Auditors -> StaffRow]
        /\ e.queued \in [Cases -> Nat] /\ e.asked \in [Auditors -> SUBSET Kinds]
        /\ e.sosEvents \in Seq(SosEvent)
      BY <1>0, DocumentParts
  <2>8. cs \in [Cases -> CaseRow] /\ st \in [Auditors -> StaffRow]
      BY <2>3, <2>4, <2>7, GivenTyped
  <2>9. f = Doc(cs, e.queued, st, e.asked, e.sosEvents)
      BY <1>0, <2>3, <2>4, GivenDoc
  <2>10. \A b \in Auditors : SameFitness(e.staff[b], st[b])
      BY <2>4, <2>7 DEF SameFitness, GivenStaff, StaffRow
  <2>11. \A x \in Cases : cs[x] = IF x = c THEN GivenRow(e.cases[c], a) ELSE e.cases[x]
      BY <2>7
  <2> HIDE DEF cs, st, f
  <2>12. /\ f \in Document
         /\ f.cases = cs /\ f.queued = e.queued /\ f.staff = st /\ f.asked = e.asked
         /\ f.sosEvents = e.sosEvents
      BY <2>7, <2>8, <2>9 DEF Document, Doc
  <2>13. GivenRow(e.cases[c], a) = GivenRow(d.cases[c], a)
    <3>1. d.cases[c] \in CaseRow
        BY <2>3, DocumentParts
    <3>2. ASSUME NEW b, e.cases[c] = GivenRow(d.cases[c], b)
          PROVE  GivenRow(e.cases[c], a) = GivenRow(d.cases[c], a)
        BY <3>1, <3>2 DEF GivenRow, CaseRow
    <3> QED
        BY <2>3, <3>2 DEF PassOf, PlacedRow
  <2>14. \A x \in Cases : cs[x] = d.cases[x] \/ PlacedRow(d, x, cs[x])
    <3>1. PlacedRow(d, c, cs[c])
        BY <2>3, <2>4, <2>5, <2>11, <2>13 DEF PlacedRow
    <3> QED
        BY <2>11, <3>1 DEF PassOf
  <2>15. \A b \in Auditors : SameFitness(d.staff[b], st[b])
      BY <2>10 DEF PassOf, SameFitness
  <2> QED
      BY <2>6, <2>12, <2>14, <2>15 DEF PassOf, f
<1> QED
    BY <1>1, <1>2

\* The recursive function of PlacedInTurn exists: every prefix of it does.
Prefix(d, n, f) ==
    f = [i \in 0..n |-> IF i = 0 THEN d ELSE PlaceNext(d, f[i-1], i)]

HasPrefix(d, n) == \E f : Prefix(d, n, f)

LEMMA PrefixGrows ==
    ASSUME NEW d, NEW n \in Nat, HasPrefix(d, n)
    PROVE  HasPrefix(d, n + 1)
<1>1. PICK f : Prefix(d, n, f)
    BY DEF HasPrefix
<1>2. \A i \in 0..n : f[i] = IF i = 0 THEN d ELSE PlaceNext(d, f[i-1], i)
    BY <1>1 DEF Prefix
<1> DEFINE g == [i \in 0..(n+1) |-> IF i = n + 1 THEN PlaceNext(d, f[n], n + 1) ELSE f[i]]
           h == [i \in 0..(n+1) |-> IF i = 0 THEN d ELSE PlaceNext(d, g[i-1], i)]
<1>3. ASSUME NEW i \in 0..(n+1) PROVE g[i] = h[i]
  <2>1. CASE i = n + 1
    <3>1. g[i-1] = f[n]
        BY <2>1
    <3> QED
        BY <2>1, <3>1
  <2>2. CASE i = 0
      BY <2>2, <1>2
  <2>3. CASE i \in 1..n
    <3>1. g[i-1] = f[i-1] /\ g[i] = f[i]
        BY <2>3
    <3> QED
        BY <2>3, <3>1, <1>2
  <2> QED
      BY <2>1, <2>2, <2>3
<1>4. g = h
    BY <1>3
<1>5. Prefix(d, n + 1, g)
    BY <1>4 DEF Prefix
<1> QED
    BY <1>5 DEF HasPrefix

LEMMA PrefixExists ==
    ASSUME NEW d, NEW n \in Nat PROVE HasPrefix(d, n)
<1> DEFINE P == {m \in Nat : HasPrefix(d, m)}
<1>1. 0 \in P
  <2> DEFINE f == [i \in 0..0 |-> d]
  <2>1. Prefix(d, 0, f)
      BY DEF Prefix
  <2> QED
      BY <2>1 DEF HasPrefix
<1>2. \A m \in P \cap Nat : m + 1 \in P
    BY PrefixGrows
<1> HIDE DEF P
<1>3. Nat \subseteq P
    BY <1>1, <1>2, NatInd
<1> QED
    BY <1>3 DEF P

LEMMA PrefixPass ==
    ASSUME NEW d \in Document, NEW n \in Nat, NEW f, Prefix(d, n, f)
    PROVE  PassOf(d, f[n])
<1> DEFINE P == {m \in Nat : m \in 0..n => PassOf(d, f[m])}
<1>0. \A i \in 0..n : f[i] = IF i = 0 THEN d ELSE PlaceNext(d, f[i-1], i)
    BY DEF Prefix
<1>1. 0 \in P
    BY <1>0 DEF PassOf, SameFitness
<1>2. \A m \in P \cap Nat : m + 1 \in P
  <2> SUFFICES ASSUME NEW m \in P, m + 1 \in 0..n PROVE PassOf(d, f[m+1])
      OBVIOUS
  <2>1. PassOf(d, f[m])
      OBVIOUS
  <2>2. f[m+1] = PlaceNext(d, f[m], m + 1)
      BY <1>0
  <2> QED
      BY <2>1, <2>2, PlaceNextPass
<1> HIDE DEF P
<1>3. Nat \subseteq P
    BY <1>1, <1>2, NatInd
<1> QED
    BY <1>3 DEF P

LEMMA ReleasePass ==
    ASSUME NEW d \in Document
    PROVE  PassOf(d, AutoReleaseFallback(d))
<1> DEFINE n == Cardinality(Cases)
           e == PlacedInTurn(d)
           r == AutoReleaseFallback(d)
<1>1. n \in Nat
    BY MockAssumption, FS_CardinalityType
<1>2. PICK g : Prefix(d, n, g)
    BY <1>1, PrefixExists DEF HasPrefix
<1>3. \E f : Prefix(d, n, f) /\ e = f[n]
  <2> DEFINE f == CHOOSE f : f = [i \in 0..n |-> IF i = 0 THEN d ELSE PlaceNext(d, f[i-1], i)]
  <2>1. Prefix(d, n, f)
      BY <1>2 DEF Prefix
  <2>2. e = f[n]
      BY DEF PlacedInTurn
  <2> QED
      BY <2>1, <2>2
<1> HIDE DEF n, e
<1>4. PassOf(d, e)
    BY <1>1, <1>3, PrefixPass
<1>5. e \in Document
    BY <1>4 DEF PassOf
<1>6. r = Doc(e.cases, e.queued, Ranked(e.staff), e.asked, e.sosEvents)
    BY <1>5, DocumentParts DEF AutoReleaseFallback, Doc, e
<1>7. /\ e.cases \in [Cases -> CaseRow] /\ e.staff \in [Auditors -> StaffRow]
      /\ e.queued \in [Cases -> Nat] /\ e.asked \in [Auditors -> SUBSET Kinds]
      /\ e.sosEvents \in Seq(SosEvent)
    BY <1>5, DocumentParts
<1>8. /\ Ranked(e.staff) \in [Auditors -> StaffRow]
      /\ \A a \in Auditors : SameFitness(e.staff[a], Ranked(e.staff)[a])
    BY <1>7, RankedTyped
<1> HIDE DEF r
<1>9. /\ r \in Document /\ r.cases = e.cases /\ r.queued = e.queued
      /\ r.staff = Ranked(e.staff) /\ r.asked = e.asked /\ r.sosEvents = e.sosEvents
    BY <1>6, <1>7, <1>8 DEF Document, Doc
<1>10. \A a \in Auditors : SameFitness(d.staff[a], r.staff[a])
    BY <1>4, <1>8, <1>9 DEF PassOf, SameFitness
<1> QED
    BY <1>4, <1>9, <1>10 DEF PassOf, r

(***************************************************************************)
(* The parts of the invariant, and what a step must keep.                  *)
(***************************************************************************)
RowOK(row) == /\ row.flag # NULL => row.auditor = NULL
              /\ row.status = NULL => /\ row.auditor = NULL /\ row.flag = NULL
                                      /\ row.visibility = "ASSIGNED_ONLY"

RowsOK == \A c \in Cases : RowOK(db.cases[c])

HeldBySos(s) == AwaitsCheckIn(s) /\ s.cooldown.trigger = "SOS"

Alerted(events, a) == \E i \in DOMAIN events : events[i].auditor = a /\ ~events[i].resolved
Named(events, c)   == \E i \in DOMAIN events : events[i].case = c

SosHeld    == \A a \in Auditors : HeldBySos(db.staff[a]) => Alerted(db.sosEvents, a)
SosFlagged == \A c \in Cases : db.cases[c].flag = "SOS" => Named(db.sosEvents, c)

MockInv == TypeOK /\ RowsOK /\ SosHeld /\ SosFlagged

FitOwner(c) == \A a \in Auditors :
    db'.cases[c].auditor = a /\ db.cases[c].auditor # a => Available(db.staff[a])

Served(a) ==
    LET s == db.staff[a] t == db'.staff[a]
    IN  /\ (s.cooldown # NULL /\ s.cooldown.left > 0)
             => Demo \/ Tick \/ (t.cooldown # NULL /\ t.cooldown.left >= s.cooldown.left)
        /\ AwaitsCheckIn(s) => \/ AwaitsCheckIn(t) \/ Demo \/ LogCheckIn(a)
                               \/ \E i \in DOMAIN db.sosEvents : LogSosFollowUp(i)

CasePart  == RowsOK' /\ SosFlagged' /\ (\A c \in Cases : FitOwner(c)) /\ Workflow!Next
TimerPart == SosHeld' /\ \A a \in Auditors : Served(a)

\* No alert is lost, and who raised it, for which case, stays.
NamesStay == \A i \in DOMAIN db.sosEvents :
                 /\ i \in DOMAIN db'.sosEvents
                 /\ db'.sosEvents[i].auditor = db.sosEvents[i].auditor
                 /\ db'.sosEvents[i].case = db.sosEvents[i].case

AlertsStay == NamesStay /\ \A i \in DOMAIN db.sosEvents :
                              db'.sosEvents[i].resolved = db.sosEvents[i].resolved

\* Nothing lets an Auditor with these rows go earlier.
Runs(s, t) == /\ s.cooldown # NULL /\ s.cooldown.left > 0
                    => t.cooldown # NULL /\ t.cooldown.left >= s.cooldown.left
              /\ AwaitsCheckIn(s) => AwaitsCheckIn(t)
              /\ HeldBySos(t) => HeldBySos(s)

LEMMA RunsOn ==
    ASSUME NEW s \in StaffRow, NEW t, t.cooldown = s.cooldown PROVE Runs(s, t)
<1>1. s.cooldown # NULL => s.cooldown.left \in Int
    BY DEF StaffRow, Cooldown
<1> QED
    BY <1>1 DEF Runs, AwaitsCheckIn, HeldBySos

LEMMA TimersKept ==
    ASSUME MockInv, AlertsStay, \A a \in Auditors : Runs(db.staff[a], db'.staff[a])
    PROVE  TimerPart
<1>1. \A a \in Auditors : Alerted(db.sosEvents, a) => Alerted(db'.sosEvents, a)
    BY DEF AlertsStay, NamesStay, Alerted
<1>2. SosHeld'
    BY <1>1 DEF MockInv, SosHeld, Runs
<1>3. \A a \in Auditors : Served(a)
    BY DEF Served, Runs
<1> QED
    BY <1>2, <1>3 DEF TimerPart

CustodyRow(row, h) == [place   |-> Place(row),
                       auditor |-> IF row.flag # NULL THEN h ELSE row.auditor]

LEMMA HandsOf == /\ Hands = [c \in Cases |-> CustodyRow(db.cases[c], handedBy[c])]
                 /\ Hands' = [c \in Cases |-> CustodyRow(db'.cases[c], handedBy'[c])]
  BY DEF Hands, CustodyOf, CustodyRow

LEMMA PlaceOfRow ==
    ASSUME NEW row \in CaseRow
    PROVE  /\ row.status = NULL => Place(row) = "unreported"
           /\ row.status # NULL =>
                /\ row.flag # NULL => Place(row) = "manager"
                /\ row.flag = NULL /\ row.auditor # NULL => Place(row) = "held"
                /\ row.flag = NULL /\ row.auditor = NULL =>
                     /\ row.visibility = "ASSIGNED_ONLY" => Place(row) = "returned"
                     /\ row.visibility = "SUPER_ADMIN_ONLY" => Place(row) = "parked"
                     /\ row.visibility = "AVAILABLE_TO_AUDITORS" => Place(row) = "offered"
  BY DEF Place, CaseRow, Backend!Visibilities

\* The columns that say in whose hands a case is.
InHand(row, new) == /\ new.auditor = row.auditor /\ new.flag = row.flag
                    /\ new.visibility = row.visibility
                    /\ new.status = NULL <=> row.status = NULL

LEMMA PlaceStays ==
    ASSUME NEW row \in CaseRow, NEW new \in CaseRow, InHand(row, new)
    PROVE  Place(new) = Place(row)
  BY PlaceOfRow DEF InHand, CaseRow, Backend!Visibilities

LEMMA NobodyMoves ==
    ASSUME UNCHANGED Hands PROVE Workflow!Next
<1>1. Workflow!Place({}, [c \in {} |-> NULL])
    BY HandsOf DEF Workflow!Place, Workflow!Moves
<1>2. [c \in {} |-> NULL] \in [{} -> Standard]
    OBVIOUS
<1> QED
    BY <1>1, <1>2 DEF Workflow!Next

HandersStay == \A c \in Cases : db'.cases[c].flag # NULL => handedBy'[c] = handedBy[c]

LEMMA NoCaseMoves ==
    ASSUME MockInv, TypeOK', NamesStay, HandersStay,
           \A c \in Cases : InHand(db.cases[c], db'.cases[c])
    PROVE  CasePart
<1>1. \A c \in Cases : db.cases[c] \in CaseRow /\ db'.cases[c] \in CaseRow
    BY DocumentParts DEF MockInv, TypeOK
<1>2. RowsOK' /\ \A c \in Cases : FitOwner(c)
    BY DEF MockInv, RowsOK, RowOK, InHand, FitOwner
<1>3. SosFlagged'
    BY DEF MockInv, SosFlagged, InHand, NamesStay, Named
<1>4. \A c \in Cases : CustodyRow(db'.cases[c], handedBy'[c]) = CustodyRow(db.cases[c], handedBy[c])
    BY <1>1, PlaceStays DEF CustodyRow, InHand, HandersStay
<1>5. UNCHANGED Hands
    BY <1>4, HandsOf
<1> QED
    BY <1>2, <1>3, <1>5, NobodyMoves DEF CasePart

\* A step that gives case c this row and leaves the others.
LEMMA OneCaseMoves ==
    ASSUME MockInv, NEW c \in Cases, NEW row, db'.cases = [db.cases EXCEPT ![c] = row],
           NamesStay, \A d \in Cases \ {c} : db'.cases[d].flag # NULL => handedBy'[d] = handedBy[d],
           RowOK(row), row.flag = "SOS" => Named(db'.sosEvents, c),
           \A a \in Auditors : row.auditor = a /\ db.cases[c].auditor # a => Available(db.staff[a])
    PROVE  /\ RowsOK' /\ SosFlagged' /\ \A d \in Cases : FitOwner(d)
           /\ \A k : k = CustodyRow(row, handedBy'[c]) => Workflow!Move(c, k)
<1>0. db.cases \in [Cases -> CaseRow]
    BY DocumentParts DEF MockInv, TypeOK
<1>1. \A d \in Cases : db'.cases[d] = IF d = c THEN row ELSE db.cases[d]
    BY <1>0
<1>2. RowsOK' /\ \A d \in Cases : FitOwner(d)
    BY <1>1 DEF MockInv, RowsOK, FitOwner
<1>3. SosFlagged'
    BY <1>1 DEF MockInv, SosFlagged, NamesStay, Named
<1>4. \A d \in Cases : CustodyRow(db'.cases[d], handedBy'[d])
         = IF d = c THEN CustodyRow(row, handedBy'[c]) ELSE CustodyRow(db.cases[d], handedBy[d])
    BY <1>1 DEF CustodyRow
<1>5. Hands' = [Hands EXCEPT ![c] = CustodyRow(row, handedBy'[c])]
    BY <1>4, HandsOf
<1> QED
    BY <1>2, <1>3, <1>5 DEF Workflow!Move

\* What the abstract specification sees of a case.
LEMMA AtPlace ==
    ASSUME NEW c \in Cases
    PROVE  /\ \A p : Workflow!Is(c, p) <=> Place(db.cases[c]) = p
           /\ Hands[c].auditor = IF db.cases[c].flag # NULL THEN handedBy[c] ELSE db.cases[c].auditor
  BY HandsOf DEF Workflow!Is, CustodyRow

(***************************************************************************)
(* Steps that touch no case: wellbeing, requests, alerts, time.            *)
(***************************************************************************)
LEMMA DbParts ==
    ASSUME MockInv
    PROVE  /\ db \in Document
           /\ db.cases \in [Cases -> CaseRow] /\ db.queued \in [Cases -> Nat]
           /\ db.staff \in [Auditors -> StaffRow] /\ db.asked \in [Auditors -> SUBSET Kinds]
           /\ db.sosEvents \in Seq(SosEvent) /\ Len(db.sosEvents) <= MaxSos
           /\ db = Doc(db.cases, db.queued, db.staff, db.asked, db.sosEvents)
           /\ handedBy \in [Cases -> Auditors \cup {NULL}]
  BY DocumentParts DEF MockInv, TypeOK

LEMMA Updated ==
    ASSUME MockInv, NEW d \in Document, Len(d.sosEvents) <= MaxSos, Update(d)
    PROVE  TypeOK' /\ HandersStay /\ db' = d
<1>1. db' = d /\ handedBy' = [c \in Cases |-> IF d.cases[c].flag = NULL THEN NULL ELSE handedBy[c]]
    BY DEF Update
<1>2. handedBy' \in [Cases -> Auditors \cup {NULL}]
    BY <1>1, DbParts
<1> QED
    BY <1>1, <1>2 DEF TypeOK, HandersStay

LEMMA StaffAlertStep ==
    ASSUME MockInv, NEW st \in [Auditors -> StaffRow], NEW ak \in [Auditors -> SUBSET Kinds],
           NEW se \in Seq(SosEvent), Len(se) = Len(db.sosEvents),
           \A i \in DOMAIN db.sosEvents : /\ se[i].auditor = db.sosEvents[i].auditor
                                          /\ se[i].case = db.sosEvents[i].case,
           NEW d, d = Doc(db.cases, db.queued, st, ak, se), Update(d)
    PROVE  TypeOK' /\ CasePart /\ db'.staff = st /\ db'.sosEvents = se /\ NamesStay
<1>1. d \in Document /\ d.cases = db.cases /\ d.staff = st /\ d.sosEvents = se
    BY DbParts DEF Document, Doc
<1>2. TypeOK' /\ HandersStay /\ db' = d
    BY <1>1, Updated, DbParts
<1>3. db'.staff = st /\ db'.cases = db.cases /\ db'.sosEvents = se
    BY <1>1, <1>2
<1>4. DOMAIN se = DOMAIN db.sosEvents
    BY DbParts
<1>5. NamesStay
    BY <1>3, <1>4 DEF NamesStay
<1>6. \A c \in Cases : InHand(db.cases[c], db'.cases[c])
    BY <1>3 DEF InHand
<1> QED
    BY <1>2, <1>3, <1>5, <1>6, NoCaseMoves

LEMMA StaffStep ==
    ASSUME MockInv, NEW st \in [Auditors -> StaffRow], NEW ak \in [Auditors -> SUBSET Kinds],
           NEW d, d = Doc(db.cases, db.queued, st, ak, db.sosEvents), Update(d)
    PROVE  TypeOK' /\ CasePart /\ AlertsStay /\ db'.staff = st
<1>1. db.sosEvents \in Seq(SosEvent)
    BY DbParts
<1>2. TypeOK' /\ CasePart /\ db'.staff = st /\ db'.sosEvents = db.sosEvents /\ NamesStay
    BY <1>1, StaffAlertStep
<1> QED
    BY <1>2 DEF AlertsStay

\* One Auditor's row changes, or none, and the requests.
LEMMA OneStaffStep ==
    ASSUME MockInv, NEW a \in Auditors, NEW t \in StaffRow, Runs(db.staff[a], t),
           NEW ak \in [Auditors -> SUBSET Kinds],
           NEW d, d = Doc(db.cases, db.queued, [db.staff EXCEPT ![a] = t], ak, db.sosEvents),
           Update(d)
    PROVE  TypeOK' /\ CasePart /\ TimerPart
<1> DEFINE st == [db.staff EXCEPT ![a] = t]
<1>1. st \in [Auditors -> StaffRow]
    BY DbParts
<1>2. \A b \in Auditors : st[b] = IF b = a THEN t ELSE db.staff[b]
    BY DbParts
<1>3. d = Doc(db.cases, db.queued, st, ak, db.sosEvents)
    OBVIOUS
<1> HIDE DEF st
<1>4. TypeOK' /\ CasePart /\ AlertsStay /\ db'.staff = st
    BY <1>1, <1>3, StaffStep
<1>5. \A b \in Auditors : Runs(db.staff[b], db'.staff[b])
  <2>1. \A b \in Auditors : Runs(db.staff[b], db.staff[b])
      BY DbParts, RunsOn
  <2> QED
      BY <1>2, <1>4, <2>1
<1> QED
    BY <1>4, <1>5, TimersKept

LEMMA StaffDoc ==
    ASSUME MockInv, NEW a \in Auditors, NEW t
    PROVE  [db EXCEPT !.staff = [db.staff EXCEPT ![a] = t]]
             = Doc(db.cases, db.queued, [db.staff EXCEPT ![a] = t], db.asked, db.sosEvents)
<1>1. db \in Document
    BY DbParts
<1> QED
    BY <1>1, DocumentWith

LEMMA RecordExposureStep ==
    ASSUME MockInv, NEW a \in Auditors, RecordExposure(a) PROVE TypeOK' /\ CasePart /\ TimerPart
<1> DEFINE s == db.staff[a]
           t == [s EXCEPT !.exposure = s.exposure + 1]
           d == [db EXCEPT !.staff[a].exposure = @ + 1]
<1>1. s \in StaffRow
    BY DbParts
<1>2. t \in StaffRow /\ t.cooldown = s.cooldown
    BY <1>1, MockAssumption DEF RecordExposure, StaffRow
<1>3. d = [db EXCEPT !.staff = [db.staff EXCEPT ![a] = t]]
    BY DbParts DEF Document
<1>4. Update(d)
    BY DEF RecordExposure
<1> HIDE DEF d, t
<1>5. Runs(s, t)
    BY <1>1, <1>2, RunsOn
<1>7. db.asked \in [Auditors -> SUBSET Kinds]
    BY DbParts
<1>8. d = Doc(db.cases, db.queued, [db.staff EXCEPT ![a] = t], db.asked, db.sosEvents)
    BY <1>3, StaffDoc
<1> QED
    BY <1>2, <1>3, <1>4, <1>5, OneStaffStep, <1>7, <1>8

LEMMA SetExposureLimitStep ==
    ASSUME MockInv, NEW a \in Auditors, SetExposureLimit(a) PROVE TypeOK' /\ CasePart /\ TimerPart
<1>1. PICK limit \in Limits : Update([db EXCEPT !.staff[a].limit = limit])
    BY DEF SetExposureLimit
<1> DEFINE s == db.staff[a]
           t == [s EXCEPT !.limit = limit]
           d == [db EXCEPT !.staff[a].limit = limit]
<1>2. s \in StaffRow
    BY DbParts
<1>3. t \in StaffRow /\ t.cooldown = s.cooldown
    BY <1>2 DEF StaffRow
<1>4. d = [db EXCEPT !.staff = [db.staff EXCEPT ![a] = t]]
    BY DbParts DEF Document
<1> HIDE DEF d, t
<1>5. Runs(s, t)
    BY <1>2, <1>3, RunsOn
<1>6. Update(d)
    BY <1>1 DEF d
<1>7. db.asked \in [Auditors -> SUBSET Kinds]
    BY DbParts
<1>8. d = Doc(db.cases, db.queued, [db.staff EXCEPT ![a] = t], db.asked, db.sosEvents)
    BY <1>4, StaffDoc
<1> QED
    BY <1>3, <1>4, <1>5, <1>6, OneStaffStep, <1>7, <1>8

LEMMA ApproveBreakRequestStep ==
    ASSUME MockInv, NEW a \in Auditors, ApproveBreakRequest(a) PROVE TypeOK' /\ CasePart /\ TimerPart
<1> DEFINE s  == db.staff[a]
           t  == [s EXCEPT !.break = 1]
           ak == [db.asked EXCEPT ![a] = @ \ {"BREAK_REQUEST"}]
           d  == [db EXCEPT !.asked[a] = @ \ {"BREAK_REQUEST"}, !.staff[a].break = 1]
<1>1. s \in StaffRow /\ ak \in [Auditors -> SUBSET Kinds]
    BY DbParts
<1>2. t \in StaffRow /\ t.cooldown = s.cooldown
    BY <1>1 DEF StaffRow
<1>a. db \in Document
    BY DbParts
<1>b. d = [db EXCEPT !.asked = ak, !.staff = [db.staff EXCEPT ![a] = t]]
    BY DbParts DEF Document
<1>4. Update(d)
    BY DEF ApproveBreakRequest
<1> HIDE DEF d, t, ak
<1> DEFINE st == [db.staff EXCEPT ![a] = t]
<1>3. d = Doc(db.cases, db.queued, st, ak, db.sosEvents)
  <2> HIDE DEF st
  <2>1. d = [db EXCEPT !.asked = ak, !.staff = st]
      BY <1>b DEF st
  <2> QED
      BY <1>a, <2>1, DocumentWithRequestsAndStaff
<1>5. Runs(s, t)
    BY <1>1, <1>2, RunsOn
<1> QED
    BY <1>1, <1>2, <1>3, <1>4, <1>5, OneStaffStep

\* Requests, and the part of their answers that is not a break.
LEMMA AskedStep ==
    ASSUME MockInv, NEW a \in Auditors, NEW S \in SUBSET Kinds, Update([db EXCEPT !.asked[a] = S])
    PROVE  TypeOK' /\ CasePart /\ TimerPart
<1> DEFINE ak == [db.asked EXCEPT ![a] = S]
           d  == [db EXCEPT !.asked[a] = S]
           t  == db.staff[a]
<1>1. ak \in [Auditors -> SUBSET Kinds] /\ t \in StaffRow
    BY DbParts
<1>a. db \in Document
    BY DbParts
<1>b. d = [db EXCEPT !.asked = ak]
    BY DbParts DEF Document
<1>3. db.staff = [db.staff EXCEPT ![a] = t]
    BY DbParts
<1>4. Runs(db.staff[a], t)
    BY <1>1, RunsOn
<1>5. Update(d)
    OBVIOUS
<1> HIDE DEF d, ak
<1>2. d = Doc(db.cases, db.queued, db.staff, ak, db.sosEvents)
    BY <1>a, <1>b, DocumentWith
<1> QED
    BY <1>1, <1>2, <1>3, <1>4, <1>5, OneStaffStep

LEMMA RequestSteps ==
    ASSUME MockInv, NEW a \in Auditors, NEW k \in Kinds,
           \/ RequestWellbeingSupport(a, k) \/ WithdrawWellbeingRequest(a, k)
           \/ MarkWellbeingFollowedUp(a)
    PROVE  TypeOK' /\ CasePart /\ TimerPart
<1>0. db.asked[a] \in SUBSET Kinds
    BY DbParts
<1>1. CASE RequestWellbeingSupport(a, k)
  <2> DEFINE S == db.asked[a] \cup {k}
  <2>1. S \in SUBSET Kinds /\ Update([db EXCEPT !.asked[a] = S])
      BY <1>0, <1>1 DEF RequestWellbeingSupport
  <2> HIDE DEF S
  <2> QED
      BY <2>1, AskedStep
<1>2. CASE WithdrawWellbeingRequest(a, k)
  <2> DEFINE S == db.asked[a] \ {k}
  <2>1. S \in SUBSET Kinds /\ Update([db EXCEPT !.asked[a] = S])
      BY <1>0, <1>2 DEF WithdrawWellbeingRequest
  <2> HIDE DEF S
  <2> QED
      BY <2>1, AskedStep
<1>3. CASE MarkWellbeingFollowedUp(a)
  <2> DEFINE S == db.asked[a] \ {"TALK_TO_MANAGER"}
  <2>1. S \in SUBSET Kinds /\ Update([db EXCEPT !.asked[a] = S])
      BY <1>0, <1>3 DEF MarkWellbeingFollowedUp
  <2> HIDE DEF S
  <2> QED
      BY <2>1, AskedStep
<1> QED
    BY <1>1, <1>2, <1>3

\* The step lifts the hold of a, as it may, and lets nobody else go.
LEMMA TimersLifted ==
    ASSUME MockInv, NEW a \in Auditors, Served(a),
           HeldBySos(db'.staff[a]) => Alerted(db'.sosEvents, a),
           \A b \in Auditors \ {a} : /\ Runs(db.staff[b], db'.staff[b])
                                     /\ Alerted(db.sosEvents, b) => Alerted(db'.sosEvents, b)
    PROVE  TimerPart
<1>1. SosHeld'
    BY DEF MockInv, SosHeld, Runs
<1>2. \A b \in Auditors : Served(b)
    BY DEF Served, Runs
<1> QED
    BY <1>1, <1>2 DEF TimerPart

LEMMA OneStaffLifted ==
    ASSUME MockInv, NEW a \in Auditors, NEW t \in StaffRow, Served(a), ~HeldBySos(t),
           NEW d, d = Doc(db.cases, db.queued, [db.staff EXCEPT ![a] = t], db.asked, db.sosEvents),
           Update(d)
    PROVE  TypeOK' /\ CasePart /\ TimerPart
<1> DEFINE st == [db.staff EXCEPT ![a] = t]
<1>1. st \in [Auditors -> StaffRow] /\ db.asked \in [Auditors -> SUBSET Kinds]
    BY DbParts
<1>2. \A b \in Auditors : st[b] = IF b = a THEN t ELSE db.staff[b]
    BY DbParts
<1>3. d = Doc(db.cases, db.queued, st, db.asked, db.sosEvents)
    OBVIOUS
<1> HIDE DEF st
<1>4. TypeOK' /\ CasePart /\ AlertsStay /\ db'.staff = st
    BY <1>1, <1>3, StaffStep
<1>5. \A b \in Auditors \ {a} : Runs(db.staff[b], db'.staff[b])
    BY <1>2, <1>4, DbParts, RunsOn
<1>6. \A b \in Auditors : Alerted(db.sosEvents, b) => Alerted(db'.sosEvents, b)
    BY <1>4 DEF Alerted, AlertsStay, NamesStay
<1>7. db'.staff[a] = t
    BY <1>2, <1>4
<1> QED
    BY <1>4, <1>5, <1>6, <1>7, TimersLifted

LEMMA GetMyWellbeingStep ==
    ASSUME MockInv, NEW a \in Auditors, GetMyWellbeing(a) PROVE TypeOK' /\ CasePart /\ TimerPart
<1> DEFINE s == db.staff[a]
           t == [s EXCEPT !.cooldown = NULL]
           d == [db EXCEPT !.staff[a].cooldown = NULL]
<1>1. s \in StaffRow /\ s.cooldown # NULL /\ ~InCooldown(s)
    BY DbParts DEF GetMyWellbeing
<1>2. t \in StaffRow /\ t.cooldown = NULL
    BY <1>1 DEF StaffRow
<1>3. d = [db EXCEPT !.staff = [db.staff EXCEPT ![a] = t]]
    BY DbParts DEF Document
<1>4. Update(d)
    BY DEF GetMyWellbeing
<1> HIDE DEF d, t
<1>5. Runs(s, t)
    BY <1>1, <1>2 DEF Runs, InCooldown, HeldBySos, AwaitsCheckIn
<1>6. db.asked \in [Auditors -> SUBSET Kinds]
    BY DbParts
<1>7. d = Doc(db.cases, db.queued, [db.staff EXCEPT ![a] = t], db.asked, db.sosEvents)
    BY <1>3, StaffDoc
<1> QED
    BY <1>2, <1>4, <1>5, <1>6, <1>7, OneStaffStep

LEMMA LogCheckInStep ==
    ASSUME MockInv, NEW a \in Auditors, LogCheckIn(a) PROVE TypeOK' /\ CasePart /\ TimerPart
<1> DEFINE s == db.staff[a]
           k == [s.cooldown EXCEPT !.done = TRUE]
           t == [s EXCEPT !.cooldown = k]
           d == [db EXCEPT !.staff[a].cooldown.done = TRUE]
<1>1. s \in StaffRow /\ s.cooldown \in Cooldown
    BY DbParts DEF LogCheckIn, StaffRow
<1>2. k \in Cooldown /\ k.left = s.cooldown.left /\ k.done
    BY <1>1 DEF Cooldown
<1>3. d = [db EXCEPT !.staff = [db.staff EXCEPT ![a] = t]]
    BY DbParts DEF Document
<1>4. Update(d)
    BY DEF LogCheckIn
<1> HIDE DEF d, k
<1>5. t \in StaffRow /\ t.cooldown = k
    BY <1>1, <1>2 DEF StaffRow
<1> HIDE DEF t
<1>6. d = Doc(db.cases, db.queued, [db.staff EXCEPT ![a] = t], db.asked, db.sosEvents)
    BY <1>3, StaffDoc
<1>7. ~HeldBySos(t)
    BY <1>2, <1>5 DEF HeldBySos, AwaitsCheckIn
<1>8. db'.staff[a] = t
  <2>1. db' = d
      BY <1>4 DEF Update
  <2>2. db'.staff = [db.staff EXCEPT ![a] = t]
      BY <1>6, <2>1 DEF Doc
  <2> QED
      BY <2>2, DbParts
<1>9. Served(a)
    BY <1>1, <1>2, <1>5, <1>8, NullIsNothing DEF Served, Cooldown
<1> QED
    BY <1>4, <1>5, <1>6, <1>7, <1>9, OneStaffLifted

\* The alerts with the i-th one changed, but not who raised it and for which case.
LEMMA EventsWith ==
    ASSUME MockInv, NEW i \in DOMAIN db.sosEvents, NEW e \in SosEvent,
           e.auditor = db.sosEvents[i].auditor, e.case = db.sosEvents[i].case,
           NEW se, se = [db.sosEvents EXCEPT ![i] = e]
    PROVE  /\ se \in Seq(SosEvent) /\ Len(se) = Len(db.sosEvents) /\ DOMAIN se = DOMAIN db.sosEvents
           /\ \A j \in DOMAIN db.sosEvents : /\ se[j] = IF j = i THEN e ELSE db.sosEvents[j]
                                             /\ se[j].auditor = db.sosEvents[j].auditor
                                             /\ se[j].case = db.sosEvents[j].case
<1>1. db.sosEvents \in Seq(SosEvent)
    BY DbParts
<1>2. se \in Seq(SosEvent) /\ Len(se) = Len(db.sosEvents)
    BY <1>1, ExceptSeq
<1>3. DOMAIN se = DOMAIN db.sosEvents
    OBVIOUS
<1>4. \A j \in DOMAIN db.sosEvents : se[j] = IF j = i THEN e ELSE db.sosEvents[j]
    OBVIOUS
<1> QED
    BY <1>2, <1>3, <1>4

LEMMA AcknowledgeSosAlertStep ==
    ASSUME MockInv, NEW i \in DOMAIN db.sosEvents, AcknowledgeSosAlert(i)
    PROVE  TypeOK' /\ CasePart /\ TimerPart
<1> DEFINE old == db.sosEvents[i]
           e   == [old EXCEPT !.acknowledged = TRUE]
           se  == [db.sosEvents EXCEPT ![i] = e]
           d   == [db EXCEPT !.sosEvents[i].acknowledged = TRUE]
<1>1. old \in SosEvent
    BY DbParts, ElementOfSeq
<1>2. e \in SosEvent /\ e.auditor = old.auditor /\ e.case = old.case /\ e.resolved = old.resolved
    BY <1>1 DEF SosEvent
<1>3. db \in Document
    BY DbParts
<1>4. d = [db EXCEPT !.sosEvents = se]
    BY DbParts DEF Document
<1>5. Update(d)
    BY DEF AcknowledgeSosAlert
<1> HIDE DEF d, e
<1>6. /\ se \in Seq(SosEvent) /\ Len(se) = Len(db.sosEvents) /\ DOMAIN se = DOMAIN db.sosEvents
      /\ \A j \in DOMAIN db.sosEvents : /\ se[j] = IF j = i THEN e ELSE db.sosEvents[j]
                                        /\ se[j].auditor = db.sosEvents[j].auditor
                                        /\ se[j].case = db.sosEvents[j].case
    BY <1>2, EventsWith
<1> HIDE DEF se
<1>7. d = Doc(db.cases, db.queued, db.staff, db.asked, se)
    BY <1>3, <1>4, DocumentWith
<1>8. db.staff \in [Auditors -> StaffRow] /\ db.asked \in [Auditors -> SUBSET Kinds]
    BY DbParts
<1>9. TypeOK' /\ CasePart /\ db'.staff = db.staff /\ db'.sosEvents = se /\ NamesStay
    BY <1>5, <1>6, <1>7, <1>8, StaffAlertStep
<1>10. AlertsStay
    BY <1>2, <1>6, <1>9 DEF AlertsStay
<1>11. \A a \in Auditors : Runs(db.staff[a], db'.staff[a])
    BY <1>8, <1>9, RunsOn
<1> QED
    BY <1>9, <1>10, <1>11, TimersKept

LEMMA CheckedInRow ==
    ASSUME NEW s \in StaffRow
    PROVE  /\ CheckedIn(s) \in StaffRow /\ ~HeldBySos(CheckedIn(s))
           /\ s.cooldown # NULL => /\ CheckedIn(s).cooldown # NULL
                                   /\ CheckedIn(s).cooldown.left = s.cooldown.left
<1>1. CASE s.cooldown = NULL
    BY <1>1 DEF CheckedIn, HeldBySos, AwaitsCheckIn
<1>2. CASE s.cooldown # NULL
  <2> DEFINE k == [s.cooldown EXCEPT !.done = @ \/ s.cooldown.requires]
             t == [s EXCEPT !.cooldown = k]
  <2>1. s.cooldown \in Cooldown
      BY <1>2 DEF StaffRow
  <2>2. /\ k \in Cooldown /\ k.left = s.cooldown.left
        /\ k.requires = s.cooldown.requires
      BY <2>1 DEF Cooldown
  <2>3. k.done = (s.cooldown.done \/ s.cooldown.requires)
      BY <2>1 DEF Cooldown
  <2>4. CheckedIn(s) = t
      BY <1>2, <2>1 DEF CheckedIn, StaffRow
  <2> HIDE DEF k
  <2>5. t \in StaffRow /\ t.cooldown = k
      BY <2>2 DEF StaffRow
  <2> HIDE DEF t
  <2>6. ~AwaitsCheckIn(t)
      BY <2>2, <2>3, <2>5 DEF AwaitsCheckIn
  <2> QED
      BY <2>2, <2>4, <2>5, <2>6, NullIsNothing DEF HeldBySos
<1> QED
    BY <1>1, <1>2

LEMMA LogSosFollowUpStep ==
    ASSUME MockInv, NEW i \in DOMAIN db.sosEvents, LogSosFollowUp(i)
    PROVE  TypeOK' /\ CasePart /\ TimerPart
<1> DEFINE old == db.sosEvents[i]
           e   == [old EXCEPT !.acknowledged = TRUE, !.resolved = TRUE]
           se  == [db.sosEvents EXCEPT ![i] = e]
           a   == old.auditor
           t   == CheckedIn(db.staff[a])
           st  == [db.staff EXCEPT ![a] = t]
           d   == [db EXCEPT !.sosEvents[i].acknowledged = TRUE, !.sosEvents[i].resolved = TRUE,
                             !.staff[db.sosEvents[i].auditor] = CheckedIn(@)]
<1>1. old \in SosEvent
    BY DbParts, ElementOfSeq
<1>2. e \in SosEvent /\ e.auditor = old.auditor /\ e.case = old.case /\ a \in Auditors
    BY <1>1 DEF SosEvent
<1>3. db \in Document /\ db.staff[a] \in StaffRow
    BY DbParts, <1>2
<1>4. d = [db EXCEPT !.sosEvents = se, !.staff = st]
    BY DbParts DEF Document
<1>5. Update(d)
    BY DEF LogSosFollowUp
<1>6. /\ t \in StaffRow /\ ~HeldBySos(t)
      /\ db.staff[a].cooldown # NULL => t.cooldown # NULL /\ t.cooldown.left = db.staff[a].cooldown.left
    BY <1>3, CheckedInRow
<1> HIDE DEF d, e, t, a
<1>7. /\ se \in Seq(SosEvent) /\ Len(se) = Len(db.sosEvents) /\ DOMAIN se = DOMAIN db.sosEvents
      /\ \A j \in DOMAIN db.sosEvents : /\ se[j] = IF j = i THEN e ELSE db.sosEvents[j]
                                        /\ se[j].auditor = db.sosEvents[j].auditor
                                        /\ se[j].case = db.sosEvents[j].case
    BY <1>2, EventsWith
<1>8. st \in [Auditors -> StaffRow] /\ db.asked \in [Auditors -> SUBSET Kinds]
    BY DbParts, <1>6
<1>9. \A b \in Auditors : st[b] = IF b = a THEN t ELSE db.staff[b]
    BY DbParts
<1> HIDE DEF se, st
<1>10. d = Doc(db.cases, db.queued, st, db.asked, se)
  <2>1. [db EXCEPT !.sosEvents = se, !.staff = st] = Doc(db.cases, db.queued, st, db.asked, se)
      BY <1>3, DocumentWithAlertsAndStaff
  <2>2. d = [db EXCEPT !.sosEvents = se, !.staff = st]
      BY <1>4 DEF se, st
  <2> QED
      BY <2>1, <2>2
<1>11. TypeOK' /\ CasePart /\ db'.staff = st /\ db'.sosEvents = se /\ NamesStay
    BY <1>5, <1>7, <1>8, <1>10, StaffAlertStep
<1>12. \A b \in Auditors \ {a} : Runs(db.staff[b], db'.staff[b])
    BY <1>9, <1>11, DbParts, RunsOn
<1>13. \A b \in Auditors \ {a} : Alerted(db.sosEvents, b) => Alerted(db'.sosEvents, b)
  <2> SUFFICES ASSUME NEW b \in Auditors \ {a}, NEW j \in DOMAIN db.sosEvents,
                      db.sosEvents[j].auditor = b, ~db.sosEvents[j].resolved
               PROVE  Alerted(db'.sosEvents, b)
      BY DEF Alerted
  <2>1. j # i
      BY DEF a
  <2> QED
      BY <2>1, <1>7, <1>11 DEF Alerted
<1>14. db'.staff[a] = t
    BY <1>2, <1>9, <1>11
<1>15. \E j \in DOMAIN db.sosEvents : LogSosFollowUp(j)
    OBVIOUS
<1>16. db.staff[a].cooldown # NULL => db.staff[a].cooldown.left \in Int
    BY <1>3 DEF StaffRow, Cooldown
<1>17. Served(a)
    BY <1>6, <1>14, <1>15, <1>16 DEF Served
<1> QED
    BY <1>2, <1>6, <1>11, <1>12, <1>13, <1>14, <1>17, TimersLifted

TickedRow(row) ==
    LET s == [row EXCEPT !.break = Less(@)]
    IN  IF s.cooldown = NULL THEN s ELSE [s EXCEPT !.cooldown.left = Less(@)]

LEMMA TickRow ==
    ASSUME NEW s \in StaffRow
    PROVE  /\ TickedRow(s) \in StaffRow
           /\ HeldBySos(TickedRow(s)) => HeldBySos(s)
           /\ AwaitsCheckIn(s) => AwaitsCheckIn(TickedRow(s))
<1> DEFINE u == [s EXCEPT !.break = Less(@)]
           t == IF u.cooldown = NULL THEN u ELSE [u EXCEPT !.cooldown.left = Less(@)]
<1>0. TickedRow(s) = t
    BY DEF TickedRow
<1> SUFFICES /\ t \in StaffRow
             /\ HeldBySos(t) => HeldBySos(s)
             /\ AwaitsCheckIn(s) => AwaitsCheckIn(t)
    BY <1>0
<1>1. u \in StaffRow /\ u.cooldown = s.cooldown
    BY DEF StaffRow, Less
<1>2. CASE u.cooldown = NULL
    BY <1>1, <1>2 DEF HeldBySos, AwaitsCheckIn
<1>3. CASE u.cooldown # NULL
  <2> DEFINE k == [u.cooldown EXCEPT !.left = Less(@)]
  <2>1. u.cooldown \in Cooldown
      BY <1>1, <1>3 DEF StaffRow
  <2>2. k \in Cooldown /\ k.trigger = u.cooldown.trigger /\ k.requires = u.cooldown.requires
        /\ k.done = u.cooldown.done
      BY <2>1 DEF Cooldown, Less
  <2>3. t = [u EXCEPT !.cooldown = k]
      BY <1>1, <1>3, <2>1 DEF StaffRow
  <2> HIDE DEF k, t
  <2>4. t \in StaffRow /\ t.cooldown = k
      BY <1>1, <2>2, <2>3 DEF StaffRow
  <2> QED
      BY <1>1, <1>3, <2>2, <2>4, NullIsNothing DEF HeldBySos, AwaitsCheckIn
<1> QED
    BY <1>2, <1>3

LEMMA TickStep ==
    ASSUME MockInv, Tick PROVE TypeOK' /\ CasePart /\ TimerPart
<1> DEFINE t(a) == TickedRow(db.staff[a])
           st   == [a \in Auditors |-> t(a)]
           d    == [db EXCEPT !.staff = st]
<1>1. Update(d)
    BY DEF Tick, TickedRow
<1>2. ASSUME NEW a \in Auditors
      PROVE  /\ t(a) \in StaffRow
             /\ HeldBySos(t(a)) => HeldBySos(db.staff[a])
             /\ AwaitsCheckIn(db.staff[a]) => AwaitsCheckIn(t(a))
    BY TickRow, DbParts
<1> HIDE DEF t
<1>3. st \in [Auditors -> StaffRow] /\ \A a \in Auditors : st[a] = t(a)
    BY <1>2
<1>4. db \in Document /\ db.asked \in [Auditors -> SUBSET Kinds]
    BY DbParts
<1> HIDE DEF st
<1>5. d = Doc(db.cases, db.queued, st, db.asked, db.sosEvents)
    BY <1>4, DocumentWith
<1> HIDE DEF d
<1>6. TypeOK' /\ CasePart /\ AlertsStay /\ db'.staff = st
    BY <1>1, <1>3, <1>4, <1>5, StaffStep
<1>7. \A a \in Auditors : Served(a)
    BY <1>2, <1>3, <1>6 DEF Served
<1>8. \A a \in Auditors : Alerted(db.sosEvents, a) => Alerted(db'.sosEvents, a)
    BY <1>6 DEF Alerted, AlertsStay, NamesStay
<1>9. SosHeld'
    BY <1>2, <1>3, <1>6, <1>8 DEF MockInv, SosHeld
<1> QED
    BY <1>6, <1>7, <1>9 DEF TimerPart

\* The demo panel changes an Auditor's row as it likes: it serves nobody's hold.
LEMMA DemoStep ==
    ASSUME MockInv, NEW a \in Auditors,
           ReachExposureLimit(a) \/ DemoStartCooldown(a) \/ DemoFinishCooldown(a)
    PROVE  TypeOK' /\ CasePart /\ TimerPart
<1> DEFINE s == db.staff[a]
<1>1. s \in StaffRow /\ Served(a) /\ db.asked \in [Auditors -> SUBSET Kinds]
    BY DbParts DEF Served, Demo
<1>2. CASE ReachExposureLimit(a)
  <2> DEFINE t == [s EXCEPT !.exposure = s.limit]
             d == [db EXCEPT !.staff[a].exposure = db.staff[a].limit]
  <2>1. s.limit \in 0..MaxExposure
      BY <1>1, <1>2, MockAssumption DEF ReachExposureLimit, StaffRow
  <2>2. t \in StaffRow /\ t.cooldown = s.cooldown
      BY <1>1, <2>1 DEF StaffRow
  <2>3. d = [db EXCEPT !.staff = [db.staff EXCEPT ![a] = t]]
      BY DbParts DEF Document
  <2>4. Update(d)
      BY <1>2 DEF ReachExposureLimit
  <2> HIDE DEF d, t
  <2>5. Runs(s, t)
      BY <1>1, <2>2, RunsOn
  <2>6. d = Doc(db.cases, db.queued, [db.staff EXCEPT ![a] = t], db.asked, db.sosEvents)
      BY <2>3, StaffDoc
  <2> QED
      BY <1>1, <2>2, <2>4, <2>5, <2>6, OneStaffStep
<1>3. CASE DemoStartCooldown(a)
  <2>1. PICK trigger \in {"S3", "S4"} :
            Update([db EXCEPT !.staff[a].cooldown =
                      [left |-> CooldownTicks[trigger], trigger |-> trigger,
                       requires |-> trigger = "S4", done |-> FALSE]])
      BY <1>3 DEF DemoStartCooldown
  <2> DEFINE k == [left |-> CooldownTicks[trigger], trigger |-> trigger,
                   requires |-> trigger = "S4", done |-> FALSE]
             t == [s EXCEPT !.cooldown = k]
             d == [db EXCEPT !.staff[a].cooldown = k]
  <2>2. k \in Cooldown /\ k.trigger # "SOS"
      BY DEF Cooldown, CooldownTicks, Backend!AllTiers
  <2>3. Update(d)
      BY <2>1
  <2> HIDE DEF k
  <2>4. d = [db EXCEPT !.staff = [db.staff EXCEPT ![a] = t]]
      BY DbParts DEF Document
  <2>5. t \in StaffRow /\ t.cooldown = k
      BY <1>1, <2>2 DEF StaffRow
  <2> HIDE DEF d, t
  <2>6. ~HeldBySos(t)
      BY <2>2, <2>5 DEF HeldBySos
  <2>7. d = Doc(db.cases, db.queued, [db.staff EXCEPT ![a] = t], db.asked, db.sosEvents)
      BY <2>4, StaffDoc
  <2> QED
      BY <1>1, <2>3, <2>5, <2>6, <2>7, OneStaffLifted
<1>4. CASE DemoFinishCooldown(a)
  <2> DEFINE k == [s.cooldown EXCEPT !.left = 0, !.done = TRUE]
             t == [s EXCEPT !.cooldown = k]
             d == [db EXCEPT !.staff[a].cooldown = k]
  <2>1. s.cooldown \in Cooldown
      BY <1>1, <1>4 DEF DemoFinishCooldown, StaffRow
  <2>2. k \in Cooldown /\ k.done
    <3> DEFINE m == [s.cooldown EXCEPT !.left = 0]
    <3>1. m \in Cooldown
        BY <2>1 DEF Cooldown
    <3>2. k = [m EXCEPT !.done = TRUE]
        BY <2>1 DEF Cooldown
    <3> HIDE DEF m, k
    <3> QED
        BY <3>1, <3>2 DEF Cooldown
  <2>3. Update(d)
      BY <1>4 DEF DemoFinishCooldown
  <2> HIDE DEF k
  <2>6. d = [db EXCEPT !.staff = [db.staff EXCEPT ![a] = t]]
      BY DbParts DEF Document
  <2> HIDE DEF d
  <2>7. t \in StaffRow /\ t.cooldown = k
      BY <1>1, <2>2 DEF StaffRow
  <2> HIDE DEF t
  <2>8. ~HeldBySos(t)
      BY <2>2, <2>7 DEF HeldBySos, AwaitsCheckIn
  <2>9. d = Doc(db.cases, db.queued, [db.staff EXCEPT ![a] = t], db.asked, db.sosEvents)
      BY <2>6, StaffDoc
  <2> QED
      BY <1>1, <2>3, <2>7, <2>8, <2>9, OneStaffLifted
<1> QED
    BY <1>2, <1>3, <1>4

(***************************************************************************)
(* Steps of one case.                                                      *)
(***************************************************************************)
\* The case gets this row, the staff rows these, and nothing else but the queue.
LEMMA RowStep ==
    ASSUME MockInv, NEW c \in Cases, NEW row \in CaseRow, NEW q \in [Cases -> Nat],
           NEW st \in [Auditors -> StaffRow], RowOK(row), row.flag # "SOS" \/ row.flag = db.cases[c].flag,
           \A a \in Auditors : row.auditor = a /\ db.cases[c].auditor # a => Available(db.staff[a]),
           NEW d, d = Doc([db.cases EXCEPT ![c] = row], q, st, db.asked, db.sosEvents), Update(d),
           \A k : k = CustodyRow(row, IF row.flag = NULL THEN NULL ELSE handedBy[c])
                    /\ Workflow!Move(c, k) => Workflow!Next
    PROVE  TypeOK' /\ CasePart /\ AlertsStay /\ db'.staff = st
<1> DEFINE cs == [db.cases EXCEPT ![c] = row]
<1>1. cs \in [Cases -> CaseRow]
    BY DbParts
<1>2. cs[c] = row
    BY DbParts
<1>3. d = Doc(cs, q, st, db.asked, db.sosEvents)
    OBVIOUS
<1> HIDE DEF cs
<1>4. d \in Document /\ d.cases = cs /\ d.staff = st /\ d.sosEvents = db.sosEvents
    BY <1>1, <1>3, DbParts DEF Document, Doc
<1>5. TypeOK' /\ HandersStay /\ db' = d
    BY <1>4, Updated, DbParts
<1>6. AlertsStay /\ NamesStay
    BY <1>4, <1>5 DEF AlertsStay, NamesStay
<1>7. row.flag = "SOS" => Named(db'.sosEvents, c)
    BY <1>4, <1>5 DEF MockInv, SosFlagged
<1>8. db'.cases = [db.cases EXCEPT ![c] = row]
    BY <1>4, <1>5 DEF cs
<1>9. \A x \in Cases \ {c} : db'.cases[x].flag # NULL => handedBy'[x] = handedBy[x]
    BY <1>5 DEF HandersStay
<1>10. /\ RowsOK' /\ SosFlagged' /\ \A x \in Cases : FitOwner(x)
       /\ \A k : k = CustodyRow(row, handedBy'[c]) => Workflow!Move(c, k)
    BY <1>6, <1>7, <1>8, <1>9, OneCaseMoves
<1>11. handedBy'[c] = IF row.flag = NULL THEN NULL ELSE handedBy[c]
    BY <1>2, <1>4 DEF Update
<1>12. Workflow!Next
    BY <1>10, <1>11
<1> QED
    BY <1>4, <1>5, <1>6, <1>10, <1>12 DEF CasePart

\* The timers of every Auditor are as they were.
LEMMA FitStaff ==
    ASSUME MockInv, AlertsStay, \A a \in Auditors : SameFitness(db.staff[a], db'.staff[a])
    PROVE  TimerPart
<1>1. \A a \in Auditors : Runs(db.staff[a], db'.staff[a])
    BY DbParts, RunsOn DEF SameFitness
<1> QED
    BY <1>1, TimersKept

AssignedStaff(st, a) == Ranked([st EXCEPT ![a] = GivenStaff(st[a])])

LEMMA AssignDoc ==
    ASSUME NEW d \in Document, NEW c \in Cases, NEW a \in Auditors
    PROVE  /\ AssignUnownedCase(d, c, a)
                = Doc([d.cases EXCEPT ![c] = GivenRow(d.cases[c], a)], d.queued,
                      AssignedStaff(d.staff, a), d.asked, d.sosEvents)
           /\ AssignedStaff(d.staff, a) \in [Auditors -> StaffRow]
           /\ \A b \in Auditors : SameFitness(d.staff[b], AssignedStaff(d.staff, a)[b])
<1> DEFINE cs == [d.cases EXCEPT ![c] = GivenRow(d.cases[c], a)]
           st == [d.staff EXCEPT ![a] = GivenStaff(d.staff[a])]
           g  == Given(d, c, a)
<1>1. d.cases \in [Cases -> CaseRow] /\ d.staff \in [Auditors -> StaffRow]
    BY DocumentParts
<1>2. cs \in [Cases -> CaseRow] /\ st \in [Auditors -> StaffRow]
    BY <1>1, GivenTyped
<1>3. g = Doc(cs, d.queued, st, d.asked, d.sosEvents)
    BY GivenDoc
<1>4. \A b \in Auditors : SameFitness(d.staff[b], st[b])
    BY <1>1 DEF SameFitness, GivenStaff, StaffRow
<1> HIDE DEF cs, st
<1>5. g \in Document /\ g.staff = st
    BY <1>2, <1>3, DocumentParts DEF Document, Doc
<1>6. AssignUnownedCase(d, c, a) = [g EXCEPT !.staff = Ranked(g.staff)]
    BY DEF AssignUnownedCase
<1> HIDE DEF g
<1>7. AssignUnownedCase(d, c, a) = Doc(g.cases, g.queued, Ranked(st), g.asked, g.sosEvents)
    BY <1>5, <1>6, DocumentWith
<1>8. g.cases = cs /\ g.queued = d.queued /\ g.asked = d.asked /\ g.sosEvents = d.sosEvents
    BY <1>3 DEF Doc
<1>9. AssignedStaff(d.staff, a) = Ranked(st)
    BY DEF AssignedStaff, st
<1>10. Ranked(st) \in [Auditors -> StaffRow] /\ \A b \in Auditors : SameFitness(st[b], Ranked(st)[b])
    BY <1>2, RankedTyped
<1>11. \A b \in Auditors : SameFitness(d.staff[b], Ranked(st)[b])
    BY <1>4, <1>10 DEF SameFitness
<1> QED
    BY <1>7, <1>8, <1>9, <1>10, <1>11 DEF cs

\* An unowned case of the queue is given to an Auditor who is fit.
LEMMA AssignStep ==
    ASSUME MockInv, NEW c \in Cases, NEW a \in Auditors, Available(db.staff[a]),
           db.cases[c].status # NULL, db.cases[c].flag = NULL, db.cases[c].auditor = NULL,
           Update(AssignUnownedCase(db, c, a)),
           Workflow!Move(c, Workflow!At("held", a)) => Workflow!Next
    PROVE  TypeOK' /\ CasePart /\ TimerPart
<1> DEFINE row == GivenRow(db.cases[c], a)
           st  == AssignedStaff(db.staff, a)
           d   == AssignUnownedCase(db, c, a)
<1>1. db \in Document /\ db.cases[c] \in CaseRow /\ db.queued \in [Cases -> Nat]
    BY DbParts
<1>2. /\ row \in CaseRow /\ row.auditor = a /\ row.flag = NULL /\ row.status # NULL
    BY <1>1, DbParts, GivenTyped DEF GivenRow, CaseRow
<1>3. /\ d = Doc([db.cases EXCEPT ![c] = row], db.queued, st, db.asked, db.sosEvents)
      /\ st \in [Auditors -> StaffRow]
      /\ \A b \in Auditors : SameFitness(db.staff[b], st[b])
    BY <1>1, AssignDoc
<1>4. RowOK(row)
    BY <1>2 DEF RowOK
<1>5. CustodyRow(row, NULL) = Workflow!At("held", a)
    BY <1>2, PlaceOfRow, NullIsNothing DEF CustodyRow, Workflow!At
<1> HIDE DEF row, st, d
<1>6. Update(d)
    BY DEF d
<1>7. TypeOK' /\ CasePart /\ AlertsStay /\ db'.staff = st
  <2>1. \A k : k = CustodyRow(row, IF row.flag = NULL THEN NULL ELSE handedBy[c])
                  /\ Workflow!Move(c, k) => Workflow!Next
      BY <1>2, <1>5
  <2>2. \A b \in Auditors : row.auditor = b /\ db.cases[c].auditor # b => Available(db.staff[b])
      BY <1>2
  <2>3. row.flag # "SOS" \/ row.flag = db.cases[c].flag
      BY <1>2
  <2> QED
      BY <1>1, <1>2, <1>3, <1>4, <1>6, <2>1, <2>2, <2>3, RowStep
<1> QED
    BY <1>3, <1>7, FitStaff

LEMMA TakeCaseStep ==
    ASSUME MockInv, NEW c \in Cases, NEW a \in Auditors, TakeCase(c, a)
    PROVE  TypeOK' /\ CasePart /\ TimerPart
<1>1. /\ a \in SuperAuditors /\ db.cases[c].status # NULL /\ db.cases[c].flag = NULL
      /\ db.cases[c].auditor = NULL /\ Available(db.staff[a])
      /\ Update(AssignUnownedCase(db, c, a))
    BY DEF TakeCase, Open, NoUnavailableReason
<1>2. db.cases[c] \in CaseRow
    BY DbParts
<1>3. Workflow!Is(c, "parked") \/ Workflow!Is(c, "offered") \/ Workflow!Is(c, "returned")
    BY <1>1, <1>2, PlaceOfRow, AtPlace DEF CaseRow, Backend!Visibilities
<1>4. Workflow!Move(c, Workflow!At("held", a)) => Workflow!Next
    BY <1>1, <1>3 DEF Workflow!Next, Workflow!Take
<1> QED
    BY <1>1, <1>4, AssignStep

LEMMA ClaimCaseStep ==
    ASSUME MockInv, NEW c \in Cases, NEW a \in Auditors, ClaimCase(c, a)
    PROVE  TypeOK' /\ CasePart /\ TimerPart
<1>1. /\ db.cases[c].visibility = "AVAILABLE_TO_AUDITORS" /\ db.cases[c].flag = NULL
      /\ db.cases[c].auditor = NULL /\ Available(db.staff[a])
      /\ Update(AssignUnownedCase(db, c, a))
    BY DEF ClaimCase, NoUnavailableReason
<1>2. db.cases[c] \in CaseRow /\ db.cases[c].status # NULL
    BY <1>1, DbParts DEF MockInv, RowsOK, RowOK
<1>3. Workflow!Is(c, "offered")
    BY <1>1, <1>2, PlaceOfRow, AtPlace
<1>4. Workflow!Move(c, Workflow!At("held", a)) => Workflow!Next
    BY <1>3, NullIsNothing DEF Workflow!Next, Workflow!Claim, Auditors, Workflow!Auditors, Backend!Auditors
<1> QED
    BY <1>1, <1>2, <1>4, AssignStep

LEMMA SameCardinality == \A S : Backend!Cardinality(S) = Cardinality(S)
  BY DEF Backend!Cardinality, Cardinality

LEMMA QueuedTyped ==
    ASSUME NEW q \in [Cases -> Nat], NEW c \in Cases
    PROVE  Backend!QueuedNow(q, c) \in [Cases -> Nat]
<1> DEFINE S == {e \in Cases : q[e] # 0} \cup {c}
<1>1. S \in SUBSET Cases
    OBVIOUS
<1> HIDE DEF S
<1>2. Cardinality(S) \in Nat
    BY <1>1, MockAssumption, FS_Subset, FS_CardinalityType
<1> DEFINE new == Backend!QueuedNow(q, c)
<1>3. new = [d \in Cases |-> new[d]]
    BY DEF Backend!QueuedNow
<1>4. ASSUME NEW d \in Cases
      PROVE  new[d] = IF d = c THEN Cardinality(S)
                      ELSE IF q[c] # 0 /\ q[d] > q[c] THEN q[d] - 1 ELSE q[d]
    BY SameCardinality DEF Backend!QueuedNow, S
<1> HIDE DEF new
<1>5. \A d \in Cases : new[d] \in Nat
    BY <1>2, <1>4
<1> QED
    BY <1>3, <1>5 DEF new

\* Case c with this row, alone.
LEMMA RowDoc ==
    ASSUME NEW d \in Document, NEW c \in Cases, NEW row \in CaseRow,
           NEW e, e = [d EXCEPT !.cases = [d.cases EXCEPT ![c] = row]]
    PROVE  /\ e = Doc([d.cases EXCEPT ![c] = row], d.queued, d.staff, d.asked, d.sosEvents)
           /\ e \in Document /\ e.cases = [d.cases EXCEPT ![c] = row] /\ e.cases[c] = row
           /\ e.queued = d.queued /\ e.staff = d.staff
           /\ e.asked = d.asked /\ e.sosEvents = d.sosEvents
<1> DEFINE cs == [d.cases EXCEPT ![c] = row]
<1>1. cs \in [Cases -> CaseRow] /\ cs[c] = row
    BY DocumentParts
<1>3. e = [d EXCEPT !.cases = cs]
    OBVIOUS
<1> HIDE DEF cs
<1>4. e = Doc(cs, d.queued, d.staff, d.asked, d.sosEvents)
    BY <1>3, DocumentWith
<1>5. e.cases = cs /\ e.queued = d.queued /\ e.staff = d.staff
      /\ e.asked = d.asked /\ e.sosEvents = d.sosEvents
    BY <1>4 DEF Doc
<1>6. e \in Document
    BY <1>1, <1>4, DocumentParts DEF Document, Doc
<1> QED
    BY <1>1, <1>4, <1>5, <1>6 DEF cs

LEMMA QueueDoc ==
    ASSUME NEW d \in Document, NEW c \in Cases
    PROVE  LET e == Queued(d, c)
           IN  /\ e = Doc(d.cases, Backend!QueuedNow(d.queued, c), d.staff, d.asked, d.sosEvents)
               /\ e \in Document /\ e.cases = d.cases
               /\ e.staff = d.staff /\ e.asked = d.asked /\ e.sosEvents = d.sosEvents
               /\ e.queued \in [Cases -> Nat]
<1> DEFINE q == Backend!QueuedNow(d.queued, c)
           e == Queued(d, c)
<1>1. q \in [Cases -> Nat]
    BY DocumentParts, QueuedTyped
<1>2. e = [d EXCEPT !.queued = q]
    BY DEF Queued
<1> HIDE DEF q, e
<1>3. e = Doc(d.cases, q, d.staff, d.asked, d.sosEvents)
    BY <1>2, DocumentWith
<1>4. e.cases = d.cases /\ e.queued = q /\ e.staff = d.staff
      /\ e.asked = d.asked /\ e.sosEvents = d.sosEvents
    BY <1>3 DEF Doc
<1>5. e \in Document
    BY <1>1, <1>3, DocumentParts DEF Document, Doc
<1> QED
    BY <1>1, <1>3, <1>4, <1>5 DEF q, e

LEMMA CreateReportStep ==
    ASSUME MockInv, NEW c \in Cases, CreateReport(c)
    PROVE  TypeOK' /\ CasePart /\ TimerPart
<1> DEFINE old    == db.cases[c]
           new    == [old EXCEPT !.status = "AI_PROCESSING"]
           opened == [db EXCEPT !.cases[c].status = "AI_PROCESSING"]
<1>0. /\ db \in Document /\ db.cases \in [Cases -> CaseRow] /\ old \in CaseRow
      /\ db.queued \in [Cases -> Nat] /\ db.staff \in [Auditors -> StaffRow]
    BY DbParts
<1>1. old.status = NULL /\ old.auditor = NULL /\ old.flag = NULL
    BY DEF CreateReport, Open, MockInv, RowsOK, RowOK
<1>2. Workflow!Is(c, "unreported")
    BY <1>0, <1>1, PlaceOfRow, AtPlace
<1>3. new \in CaseRow /\ new.status = "AI_PROCESSING" /\ new.auditor = NULL /\ new.flag = NULL
    BY <1>0, <1>1 DEF CaseRow, Statuses
<1>4. opened = [db EXCEPT !.cases = [db.cases EXCEPT ![c] = new]]
    BY <1>0 DEF Document
<1>5. "AI_PROCESSING" # NULL
    BY NullIsNothing DEF Statuses
<1>6. CASE Selected(db.staff) = {}
  <2> DEFINE row    == [new EXCEPT !.visibility = "SUPER_ADMIN_ONLY"]
             parked == [opened EXCEPT !.cases[c].visibility = "SUPER_ADMIN_ONLY"]
             q      == Backend!QueuedNow(db.queued, c)
             d      == Queued(parked, c)
  <2>1. Update(d)
      BY <1>6 DEF CreateReport
  <2>2. /\ row \in CaseRow /\ row.status = "AI_PROCESSING" /\ row.auditor = NULL
        /\ row.flag = NULL /\ row.visibility = "SUPER_ADMIN_ONLY"
      BY <1>3 DEF CaseRow, Backend!Visibilities
  <2>3. parked = [db EXCEPT !.cases = [db.cases EXCEPT ![c] = row]]
    <3>1. /\ opened \in Document /\ opened.cases[c] = new
          /\ opened.cases = [db.cases EXCEPT ![c] = new]
      <4> HIDE DEF new, opened
      <4> QED
          BY <1>0, <1>3, <1>4, RowDoc
    <3>2. \A x : [opened.cases EXCEPT ![c] = x] = [db.cases EXCEPT ![c] = x]
      <4> HIDE DEF new, opened
      <4> QED
          BY <1>0, <3>1
    <3>3. parked = [opened EXCEPT !.cases = [opened.cases EXCEPT ![c] = row]]
        BY <3>1 DEF Document
    <3>4. parked = [opened EXCEPT !.cases = [db.cases EXCEPT ![c] = row]]
        BY <3>2, <3>3
    <3> DEFINE cs == [db.cases EXCEPT ![c] = new]
    <3>5. opened = [db EXCEPT !.cases = cs]
        BY <1>4
    <3> HIDE DEF cs, opened
    <3>6. opened = Doc(cs, db.queued, db.staff, db.asked, db.sosEvents)
        BY <1>0, <3>5, DocumentWith
    <3>7. \A x : [opened EXCEPT !.cases = x] = Doc(x, db.queued, db.staff, db.asked, db.sosEvents)
        BY <3>6 DEF Doc
    <3>8. \A x : [db EXCEPT !.cases = x] = Doc(x, db.queued, db.staff, db.asked, db.sosEvents)
        BY <1>0, DocumentWith
    <3> QED
        BY <3>4, <3>7, <3>8
  <2> HIDE DEF row, parked, opened
  <2>4. /\ parked \in Document /\ parked.cases = [db.cases EXCEPT ![c] = row]
        /\ parked.queued = db.queued /\ parked.staff = db.staff
        /\ parked.asked = db.asked /\ parked.sosEvents = db.sosEvents
      BY <1>0, <2>2, <2>3, RowDoc
  <2>5. d = Doc([db.cases EXCEPT ![c] = row], q, db.staff, db.asked, db.sosEvents)
      BY <2>4, QueueDoc
  <2>6. q \in [Cases -> Nat]
      BY <1>0, QueuedTyped
  <2> HIDE DEF d, q
  <2>7. CustodyRow(row, NULL) = Workflow!At("parked", NULL)
      BY <1>5, <2>2, PlaceOfRow DEF CustodyRow, Workflow!At
  <2>8. \A k : k = CustodyRow(row, IF row.flag = NULL THEN NULL ELSE handedBy[c])
                  /\ Workflow!Move(c, k) => Workflow!Next
      BY <1>2, <2>2, <2>7 DEF Workflow!Next, Workflow!Report
  <2>9. \A a \in Auditors : row.auditor = a /\ db.cases[c].auditor # a => Available(db.staff[a])
      BY <2>2, NullIsNothing
  <2>10. RowOK(row) /\ (row.flag # "SOS" \/ row.flag = db.cases[c].flag)
      BY <1>1, <1>5, <2>2 DEF RowOK
  <2>11. TypeOK' /\ CasePart /\ AlertsStay /\ db'.staff = db.staff
      BY <1>0, <2>1, <2>2, <2>5, <2>6, <2>8, <2>9, <2>10, RowStep
  <2> QED
      BY <2>11, FitStaff DEF SameFitness
<1>7. CASE Selected(db.staff) # {}
  <2>1. PICK a \in Selected(db.staff) : Update(AssignUnownedCase(opened, c, a))
      BY <1>7 DEF CreateReport
  <2>2. a \in Standard /\ a \in Auditors /\ Available(db.staff[a])
      BY SelectedFit
  <2> DEFINE row == GivenRow(new, a)
             st  == AssignedStaff(db.staff, a)
             d   == AssignUnownedCase(opened, c, a)
  <2>3. /\ row \in CaseRow /\ row.status = "AI_PROCESSING" /\ row.auditor = a /\ row.flag = NULL
      BY <1>3, <2>2, GivenTyped, <1>0 DEF GivenRow, CaseRow
  <2>4. /\ opened \in Document /\ opened.cases[c] = new
        /\ opened.queued = db.queued /\ opened.staff = db.staff
        /\ opened.asked = db.asked /\ opened.sosEvents = db.sosEvents
        /\ opened.cases = [db.cases EXCEPT ![c] = new]
      BY <1>0, <1>3, <1>4, RowDoc
  <2> HIDE DEF opened
  <2>5. /\ d = Doc([opened.cases EXCEPT ![c] = row], opened.queued, st, opened.asked, opened.sosEvents)
        /\ st \in [Auditors -> StaffRow]
        /\ \A b \in Auditors : SameFitness(db.staff[b], st[b])
      BY <2>2, <2>4, AssignDoc
  <2>6. Update(d)
      BY <2>1
  <2> HIDE DEF row, st, d, new
  <2>7. d = Doc([db.cases EXCEPT ![c] = row], db.queued, st, db.asked, db.sosEvents)
    <3>1. [opened.cases EXCEPT ![c] = row] = [db.cases EXCEPT ![c] = row]
        BY <1>0, <2>4
    <3> QED
        BY <2>4, <2>5, <3>1
  <2>8. CustodyRow(row, NULL) = Workflow!At("held", a)
      BY <1>5, <2>2, <2>3, PlaceOfRow, NullIsNothing DEF CustodyRow, Workflow!At
  <2>9. \A k : k = CustodyRow(row, IF row.flag = NULL THEN NULL ELSE handedBy[c])
                  /\ Workflow!Move(c, k) => Workflow!Next
      BY <1>2, <2>2, <2>3, <2>8 DEF Workflow!Next, Workflow!Report
  <2>10. \A b \in Auditors : row.auditor = b /\ db.cases[c].auditor # b => Available(db.staff[b])
      BY <2>2, <2>3
  <2>11. RowOK(row) /\ (row.flag # "SOS" \/ row.flag = db.cases[c].flag)
      BY <1>1, <1>5, <2>3 DEF RowOK
  <2>12. TypeOK' /\ CasePart /\ AlertsStay /\ db'.staff = st
      BY <1>0, <2>3, <2>5, <2>6, <2>7, <2>9, <2>10, <2>11, RowStep
  <2> QED
      BY <2>5, <2>12, FitStaff
<1> QED
    BY <1>6, <1>7

\* A change of the row that leaves the case in the hands it was in.
LEMMA QuietRowStep ==
    ASSUME MockInv, NEW c \in Cases, NEW row \in CaseRow, InHand(db.cases[c], row),
           NEW st \in [Auditors -> StaffRow],
           NEW d, d = Doc([db.cases EXCEPT ![c] = row], db.queued, st, db.asked, db.sosEvents),
           Update(d)
    PROVE  TypeOK' /\ CasePart /\ AlertsStay /\ db'.staff = st
<1> DEFINE cs == [db.cases EXCEPT ![c] = row]
<1>1. cs \in [Cases -> CaseRow] /\ \A x \in Cases : InHand(db.cases[x], cs[x])
    BY DbParts DEF InHand
<1>2. d = Doc(cs, db.queued, st, db.asked, db.sosEvents)
    OBVIOUS
<1> HIDE DEF cs
<1>3. d \in Document /\ d.cases = cs /\ d.staff = st /\ d.sosEvents = db.sosEvents
    BY <1>1, <1>2, DbParts DEF Document, Doc
<1>4. TypeOK' /\ HandersStay /\ db' = d
    BY <1>3, Updated, DbParts
<1>5. AlertsStay /\ NamesStay
    BY <1>3, <1>4 DEF AlertsStay, NamesStay
<1>6. \A x \in Cases : InHand(db.cases[x], db'.cases[x])
    BY <1>1, <1>3, <1>4
<1> QED
    BY <1>3, <1>4, <1>5, <1>6, NoCaseMoves

LEMMA AcknowledgeContentWarningStep ==
    ASSUME MockInv, NEW c \in Cases, NEW a \in Auditors, AcknowledgeContentWarning(c, a)
    PROVE  TypeOK' /\ CasePart /\ TimerPart
<1> DEFINE row == [db.cases[c] EXCEPT !.status = "AUDITOR_REVIEW"]
           d   == [db EXCEPT !.cases[c].status = "AUDITOR_REVIEW"]
<1>1. /\ db \in Document /\ db.cases[c] \in CaseRow /\ db.staff \in [Auditors -> StaffRow]
    BY DbParts
<1>2. row \in CaseRow /\ InHand(db.cases[c], row)
    BY <1>1, NullIsNothing DEF CaseRow, Statuses, InHand, AcknowledgeContentWarning
<1>3. d = [db EXCEPT !.cases = [db.cases EXCEPT ![c] = row]]
    BY <1>1, DbParts DEF Document
<1>4. Update(d)
    BY DEF AcknowledgeContentWarning
<1> HIDE DEF row, d
<1>5. d = Doc([db.cases EXCEPT ![c] = row], db.queued, db.staff, db.asked, db.sosEvents)
    BY <1>1, <1>2, <1>3, RowDoc
<1>6. TypeOK' /\ CasePart /\ AlertsStay /\ db'.staff = db.staff
    BY <1>1, <1>2, <1>4, <1>5, QuietRowStep
<1> QED
    BY <1>6, FitStaff DEF SameFitness

CompletedRow(row, outcome) == [row EXCEPT !.status = "COMPLETE", !.outcome = outcome]

LEMMA CompletedDoc ==
    ASSUME NEW d \in Document, NEW c \in Cases, NEW outcome \in Backend!Outcomes,
           d.cases[c].status # NULL
    PROVE  /\ Completed(d, c, outcome)
                = Doc([d.cases EXCEPT ![c] = CompletedRow(d.cases[c], outcome)],
                      d.queued, d.staff, d.asked, d.sosEvents)
           /\ CompletedRow(d.cases[c], outcome) \in CaseRow
           /\ InHand(d.cases[c], CompletedRow(d.cases[c], outcome))
<1> DEFINE row == CompletedRow(d.cases[c], outcome)
<1>1. d.cases \in [Cases -> CaseRow] /\ d.cases[c] \in CaseRow
    BY DocumentParts
<1>2. row \in CaseRow /\ InHand(d.cases[c], row)
  <2> DEFINE old == d.cases[c]
             mid == [old EXCEPT !.status = "COMPLETE"]
  <2>1. mid \in CaseRow /\ InHand(old, mid)
      BY <1>1, NullIsNothing DEF CaseRow, Statuses, InHand
  <2>2. row = [mid EXCEPT !.outcome = outcome]
      BY <1>1 DEF CompletedRow, CaseRow
  <2> HIDE DEF mid, row
  <2>3. row \in CaseRow /\ InHand(mid, row)
      BY <2>1, <2>2 DEF CaseRow, InHand
  <2> QED
      BY <2>1, <2>3 DEF InHand
<1>3. Completed(d, c, outcome) = [d EXCEPT !.cases = [d.cases EXCEPT ![c] = row]]
    BY <1>1 DEF Completed, CompletedRow, Document
<1> HIDE DEF row
<1> QED
    BY <1>2, <1>3, RowDoc DEF row

LEMMA CloseStep ==
    ASSUME MockInv, NEW c \in Cases, CloseWithoutReassignment(c)
    PROVE  TypeOK' /\ CasePart /\ TimerPart
<1> DEFINE row == CompletedRow(db.cases[c], "CLOSED_NO_REASSIGNMENT")
           d   == Completed(db, c, "CLOSED_NO_REASSIGNMENT")
<1>1. /\ db \in Document /\ db.staff \in [Auditors -> StaffRow]
      /\ db.cases[c].status # NULL /\ Update(d)
    BY DbParts DEF CloseWithoutReassignment, Open
<1>2. "CLOSED_NO_REASSIGNMENT" \in Backend!Outcomes
    BY DEF Backend!Outcomes
<1>3. /\ d = Doc([db.cases EXCEPT ![c] = row], db.queued, db.staff, db.asked, db.sosEvents)
      /\ row \in CaseRow /\ InHand(db.cases[c], row)
    BY <1>1, <1>2, CompletedDoc
<1> HIDE DEF row, d
<1>4. TypeOK' /\ CasePart /\ AlertsStay /\ db'.staff = db.staff
    BY <1>1, <1>3, QuietRowStep
<1> QED
    BY <1>4, FitStaff DEF SameFitness

\* A cooldown starts: one that runs is not cut short, and the check-in it waits
\* for is asked for again.
Causes == Backend!AllTiers \cup {"SOS"}
Ticks  == 0..2

Started(s, t, trigger) == /\ t \in StaffRow
                          /\ t.cooldown # NULL /\ t.cooldown.trigger = trigger
                          /\ s.cooldown # NULL => t.cooldown.left >= s.cooldown.left
                          /\ AwaitsCheckIn(s) => AwaitsCheckIn(t)

LEMMA StartedCooldown ==
    ASSUME NEW s \in StaffRow, NEW trigger \in Causes, NEW ticks \in Ticks
    PROVE  /\ Started(s, StartCooldown(s, trigger, ticks, TRUE), trigger)
           /\ AwaitsCheckIn(StartCooldown(s, trigger, ticks, TRUE))
           /\ Started(s, StartCooldown(s, trigger, ticks, FALSE), trigger)
<1> DEFINE running == s.cooldown # NULL
           kept == running /\ s.cooldown.requires
           left == IF running THEN Longer(s.cooldown.left, ticks) ELSE ticks
           k(b) == [left |-> left, trigger |-> trigger, requires |-> b, done |-> FALSE]
<1>1. /\ StartCooldown(s, trigger, ticks, TRUE) = [s EXCEPT !.cooldown = k(TRUE)]
      /\ StartCooldown(s, trigger, ticks, FALSE) = [s EXCEPT !.cooldown = k(kept)]
    BY DEF StartCooldown
<1>2. running => s.cooldown.left \in 0..2 /\ s.cooldown.requires \in BOOLEAN
    BY DEF StaffRow, Cooldown
<1>3. left \in 0..2 /\ (running => left >= s.cooldown.left)
    BY <1>2 DEF Longer, Ticks
<1> HIDE DEF left
<1>4. ASSUME NEW b \in BOOLEAN, NEW t, t = [s EXCEPT !.cooldown = k(b)], kept => b
      PROVE  Started(s, t, trigger) /\ (b => AwaitsCheckIn(t))
  <2> DEFINE c == k(b)
  <2>1. /\ c \in Cooldown /\ c.left = left /\ c.trigger = trigger /\ c.requires = b
        /\ c.done = FALSE
      BY <1>3 DEF Cooldown, Causes
  <2> HIDE DEF c
  <2>2. t \in StaffRow /\ t.cooldown = c
      BY <1>4, <2>1 DEF StaffRow, c
  <2> QED
      BY <1>3, <1>4, <2>1, <2>2, NullIsNothing DEF AwaitsCheckIn, Started
<1> DEFINE on  == StartCooldown(s, trigger, ticks, TRUE)
           off == StartCooldown(s, trigger, ticks, FALSE)
<1>5. Started(s, on, trigger) /\ AwaitsCheckIn(on)
    BY <1>1, <1>4
<1>6. kept \in BOOLEAN
    BY <1>2
<1>7. Started(s, off, trigger)
    BY <1>1, <1>4, <1>6
<1> QED
    BY <1>5, <1>7

LEMMA WorstIsOne ==
    ASSUME NEW S \in SUBSET Backend!AllTiers, NEW x, NEW y, S \subseteq {x, y}, S # {}
    PROVE  Worst(S) \in S
<1>1. ASSUME NEW u \in S PROVE Rank[u] \in Int
  <2>1. u \in {"S1", "S2", "S3", "S4"}
      BY DEF Backend!AllTiers
  <2> QED
      BY <2>1 DEF Rank
<1>2. \E t \in S : \A u \in S : Rank[u] <= Rank[t]
  <2>1. PICK z \in S : TRUE
      OBVIOUS
  <2>2. CASE x \in S /\ y \in S
      BY <1>1, <2>2
  <2>3. CASE ~(x \in S /\ y \in S)
      BY <1>1, <2>1, <2>3
  <2> QED
      BY <2>2, <2>3
<1> QED
    BY <1>2 DEF Worst

LEMMA RestedRow ==
    ASSUME NEW s \in StaffRow, NEW S \in SUBSET Backend!AllTiers, NEW x, NEW y, S \subseteq {x, y},
           NEW strained \in BOOLEAN
    PROVE  LET t == CooldownForResolvedCase(s, S, strained) IN t \in StaffRow /\ Runs(s, t)
<1> DEFINE t == CooldownForResolvedCase(s, S, strained)
           w == Worst(S)
<1>1. CASE t = s
    BY <1>1, RunsOn
<1>2. CASE t # s
  <2>1. S # {} /\ w # "S1" /\ t = StartCooldown(s, w, CooldownTicks[w], w = "S4")
      BY <1>2 DEF CooldownForResolvedCase
  <2>2. w \in {"S2", "S3", "S4"}
      BY <2>1, WorstIsOne DEF Backend!AllTiers
  <2>3. w \in Causes /\ w # "SOS" /\ CooldownTicks[w] \in Ticks
      BY <2>2 DEF Causes, Ticks, CooldownTicks, Backend!AllTiers
  <2> HIDE DEF t, w
  <2>4. t = StartCooldown(s, w, CooldownTicks[w], TRUE) \/ t = StartCooldown(s, w, CooldownTicks[w], FALSE)
    <3>1. (w = "S4") = TRUE \/ (w = "S4") = FALSE
        OBVIOUS
    <3> QED
        BY <2>1, <3>1
  <2>6. Started(s, t, w)
      BY <2>3, <2>4, StartedCooldown
  <2>7. t \in StaffRow /\ Runs(s, t)
      BY <2>3, <2>6 DEF Runs, HeldBySos, Started
  <2> QED
      BY <2>7 DEF t
<1> QED
    BY <1>1, <1>2

\* One Auditor's row, alone.
LEMMA OneStaffDoc ==
    ASSUME NEW d \in Document, NEW a \in Auditors, NEW t \in StaffRow,
           NEW e, e = [d EXCEPT !.staff = [d.staff EXCEPT ![a] = t]]
    PROVE  /\ e = Doc(d.cases, d.queued, [d.staff EXCEPT ![a] = t], d.asked, d.sosEvents)
           /\ e \in Document /\ e.staff = [d.staff EXCEPT ![a] = t] /\ e.staff[a] = t
           /\ e.cases = d.cases /\ e.queued = d.queued
           /\ e.asked = d.asked /\ e.sosEvents = d.sosEvents
<1> DEFINE st == [d.staff EXCEPT ![a] = t]
<1>1. st \in [Auditors -> StaffRow] /\ st[a] = t
    BY DocumentParts
<1>2. e = [d EXCEPT !.staff = st]
    OBVIOUS
<1> HIDE DEF st
<1>3. e = Doc(d.cases, d.queued, st, d.asked, d.sosEvents)
    BY <1>2, DocumentWith
<1>4. e.cases = d.cases /\ e.queued = d.queued /\ e.staff = st
      /\ e.asked = d.asked /\ e.sosEvents = d.sosEvents
    BY <1>3 DEF Doc
<1>5. e \in Document
    BY <1>1, <1>3, DocumentParts DEF Document, Doc
<1> QED
    BY <1>1, <1>3, <1>4, <1>5 DEF st

\* Whoever has a case has it open, and the Manager does not.
LEMMA OwnedRow ==
    ASSUME MockInv, NEW c \in Cases, NEW a \in Auditors, OwnCase(c, a)
    PROVE  /\ db.cases[c] \in CaseRow /\ db.cases[c].auditor = a
           /\ db.cases[c].flag = NULL /\ db.cases[c].status # NULL
           /\ Workflow!Is(c, "held") /\ Hands[c].auditor = a
<1>1. db.cases[c] \in CaseRow /\ db.cases[c].auditor = a /\ a # NULL
    BY DbParts, NullIsNothing DEF OwnCase
<1>2. db.cases[c].flag = NULL /\ db.cases[c].status # NULL
    BY <1>1 DEF MockInv, RowsOK, RowOK
<1> QED
    BY <1>1, <1>2, PlaceOfRow, AtPlace

LEMMA ResolveCaseStep ==
    ASSUME MockInv, NEW c \in Cases, NEW a \in Auditors, ResolveCase(c, a)
    PROVE  TypeOK' /\ CasePart /\ TimerPart
<1> DEFINE s == db.staff[a]
<1>1. PICK outcome \in Decisions, rating \in Ratings \cup {NULL}, strained \in BOOLEAN :
         LET rested == [db EXCEPT !.staff[a] = CooldownForResolvedCase(@, Tiers(c, rating), strained)]
         IN  Update(Completed([rested EXCEPT !.staff[a].active = Less(@)], c, outcome))
    BY DEF ResolveCase
<1> DEFINE S      == Tiers(c, rating)
           t      == CooldownForResolvedCase(s, S, strained)
           u      == [t EXCEPT !.active = Less(t.active)]
           rested == [db EXCEPT !.staff[a] = CooldownForResolvedCase(@, Tiers(c, rating), strained)]
           e      == [rested EXCEPT !.staff[a].active = Less(@)]
           row    == CompletedRow(db.cases[c], outcome)
           d      == Completed(e, c, outcome)
<1>2. db \in Document /\ s \in StaffRow /\ db.cases[c] \in CaseRow /\ db.staff \in [Auditors -> StaffRow]
    BY DbParts
<1>3. db.cases[c].status # NULL
    BY OwnedRow DEF ResolveCase
<1>4. S \in SUBSET Backend!AllTiers /\ S \subseteq {db.cases[c].tier, rating}
    BY <1>2, MockAssumption DEF Tiers, CaseRow
<1> HIDE DEF S
<1>5. t \in StaffRow /\ Runs(s, t)
    BY <1>2, <1>4, RestedRow
<1>6. rested = [db EXCEPT !.staff = [db.staff EXCEPT ![a] = t]]
    BY <1>2 DEF Document, S
<1>7. Update(d)
    BY <1>1
<1> HIDE DEF t, rested
<1>8. u \in StaffRow /\ u.cooldown = t.cooldown
    BY <1>5 DEF StaffRow, Less
<1>9. Runs(s, u)
    BY <1>5, <1>8 DEF Runs, AwaitsCheckIn, HeldBySos
<1>10. /\ rested = Doc(db.cases, db.queued, [db.staff EXCEPT ![a] = t], db.asked, db.sosEvents)
       /\ rested \in Document /\ rested.staff = [db.staff EXCEPT ![a] = t] /\ rested.staff[a] = t
       /\ rested.cases = db.cases /\ rested.queued = db.queued
       /\ rested.asked = db.asked /\ rested.sosEvents = db.sosEvents
    BY <1>2, <1>5, <1>6, OneStaffDoc
<1>11. e = [rested EXCEPT !.staff = [rested.staff EXCEPT ![a] = u]]
    BY <1>10 DEF Document
<1>12. [rested.staff EXCEPT ![a] = u] = [db.staff EXCEPT ![a] = u]
  <2> HIDE DEF u
  <2> QED
      BY <1>2, <1>10
<1> DEFINE st == [db.staff EXCEPT ![a] = u]
<1>13. st \in [Auditors -> StaffRow] /\ \A b \in Auditors : st[b] = IF b = a THEN u ELSE db.staff[b]
    BY <1>2, <1>8
<1> HIDE DEF e, u
<1>14. /\ e = Doc(db.cases, db.queued, st, db.asked, db.sosEvents)
       /\ e \in Document /\ e.cases = db.cases /\ e.queued = db.queued /\ e.staff = st
       /\ e.asked = db.asked /\ e.sosEvents = db.sosEvents
    BY <1>8, <1>10, <1>11, <1>12, OneStaffDoc
<1>15. outcome \in Backend!Outcomes
    BY MockAssumption DEF Backend!Outcomes
<1>16. /\ d = Doc([e.cases EXCEPT ![c] = CompletedRow(e.cases[c], outcome)],
                  e.queued, e.staff, e.asked, e.sosEvents)
       /\ CompletedRow(e.cases[c], outcome) \in CaseRow
       /\ InHand(e.cases[c], CompletedRow(e.cases[c], outcome))
    BY <1>3, <1>14, <1>15, CompletedDoc
<1> HIDE DEF d, st
<1>17. d = Doc([db.cases EXCEPT ![c] = row], db.queued, st, db.asked, db.sosEvents)
    BY <1>14, <1>16
<1>18. row \in CaseRow /\ InHand(db.cases[c], row)
    BY <1>14, <1>16
<1> HIDE DEF row
<1>19. TypeOK' /\ CasePart /\ AlertsStay /\ db'.staff = st
    BY <1>7, <1>13, <1>17, <1>18, QuietRowStep
<1>20. \A b \in Auditors : Runs(db.staff[b], db'.staff[b])
    BY <1>2, <1>9, <1>13, <1>19, RunsOn
<1> QED
    BY <1>19, <1>20, TimersKept

LEMMA MakeCaseAvailableStep ==
    ASSUME MockInv, NEW c \in Cases, MakeCaseAvailable(c)
    PROVE  TypeOK' /\ CasePart /\ TimerPart
<1> DEFINE old == db.cases[c]
           row == [old EXCEPT !.visibility = "AVAILABLE_TO_AUDITORS"]
           d   == [db EXCEPT !.cases[c].visibility = "AVAILABLE_TO_AUDITORS"]
<1>1. /\ db \in Document /\ old \in CaseRow /\ db.queued \in [Cases -> Nat]
      /\ db.staff \in [Auditors -> StaffRow]
    BY DbParts
<1>2. old.status # NULL /\ old.flag = NULL /\ old.auditor = NULL /\ Update(d)
    BY DEF MakeCaseAvailable, Open
<1>3. /\ row \in CaseRow /\ row.status # NULL /\ row.flag = NULL /\ row.auditor = NULL
      /\ row.visibility = "AVAILABLE_TO_AUDITORS"
    BY <1>1, <1>2 DEF CaseRow, Backend!Visibilities
<1>4. d = [db EXCEPT !.cases = [db.cases EXCEPT ![c] = row]]
    BY <1>1, DbParts DEF Document
<1> HIDE DEF d, row
<1>5. d = Doc([db.cases EXCEPT ![c] = row], db.queued, db.staff, db.asked, db.sosEvents)
    BY <1>1, <1>3, <1>4, RowDoc
<1>6. CustodyRow(row, NULL) = Workflow!At("offered", NULL)
    BY <1>3, PlaceOfRow DEF CustodyRow, Workflow!At
<1>7. CASE old.visibility = "AVAILABLE_TO_AUDITORS"
  <2>1. InHand(old, row)
      BY <1>2, <1>3, <1>7 DEF InHand
  <2>2. TypeOK' /\ CasePart /\ AlertsStay /\ db'.staff = db.staff
      BY <1>1, <1>2, <1>3, <1>5, <2>1, QuietRowStep
  <2> QED
      BY <2>2, FitStaff DEF SameFitness
<1>8. CASE old.visibility # "AVAILABLE_TO_AUDITORS"
  <2>1. Workflow!Is(c, "parked") \/ Workflow!Is(c, "returned")
      BY <1>1, <1>2, <1>8, PlaceOfRow, AtPlace DEF CaseRow, Backend!Visibilities
  <2>2. \A k : k = CustodyRow(row, IF row.flag = NULL THEN NULL ELSE handedBy[c])
                  /\ Workflow!Move(c, k) => Workflow!Next
      BY <1>3, <1>6, <2>1 DEF Workflow!Next, Workflow!Offer
  <2>3. row.flag # "SOS" \/ row.flag = db.cases[c].flag
      BY <1>2, <1>3 DEF RowOK
  <2>4. \A a \in Auditors : row.auditor = a /\ db.cases[c].auditor # a => Available(db.staff[a])
      BY <1>3, NullIsNothing
  <2>5. RowOK(row)
      BY <1>3 DEF RowOK
  <2>6. TypeOK' /\ CasePart /\ AlertsStay /\ db'.staff = db.staff
      BY <1>1, <1>2, <1>3, <1>5, <2>2, <2>3, <2>4, <2>5, RowStep
  <2> QED
      BY <2>6, FitStaff DEF SameFitness
<1> QED
    BY <1>7, <1>8

\* Handed, on its own.
LEMMA HandedDoc ==
    ASSUME NEW d \in Document, NEW c \in Cases, NEW a \in Auditors
    PROVE  Handed(d, c, a) = Doc([d.cases EXCEPT ![c] = [d.cases[c] EXCEPT !.auditor = a]], d.queued,
                                 [d.staff EXCEPT ![a] = GivenStaff(d.staff[a])], d.asked, d.sosEvents)
<1>1. d.cases \in [Cases -> CaseRow] /\ d.staff \in [Auditors -> StaffRow]
    BY DocumentParts
<1>2. Handed(d, c, a) = [d EXCEPT !.cases = [d.cases EXCEPT ![c] = [d.cases[c] EXCEPT !.auditor = a]],
                                  !.staff = [d.staff EXCEPT ![a] = GivenStaff(d.staff[a])]]
    BY <1>1 DEF Handed, Document, GivenStaff
<1> QED
    BY <1>2 DEF Document, Doc

LEMMA ReassignCaseStep ==
    ASSUME MockInv, NEW c \in Cases, NEW a \in Auditors, ReassignCase(c, a)
    PROVE  TypeOK' /\ CasePart /\ TimerPart
<1> DEFINE old == db.cases[c]
           row == [old EXCEPT !.auditor = a, !.flag = NULL,
                              !.status = IF old.tier # NULL THEN "READY_FOR_REVIEW" ELSE @]
           h   == Handed(db, c, a)
           d   == [h EXCEPT !.staff = Ranked(@), !.cases[c] = row]
           hs  == [db.staff EXCEPT ![a] = GivenStaff(db.staff[a])]
           st  == AssignedStaff(db.staff, a)
           mid == [db.cases EXCEPT ![c] = [db.cases[c] EXCEPT !.auditor = a]]
           cs  == [db.cases EXCEPT ![c] = row]
<1>1. /\ db \in Document /\ old \in CaseRow /\ db.queued \in [Cases -> Nat]
      /\ db.staff \in [Auditors -> StaffRow] /\ db.cases \in [Cases -> CaseRow]
    BY DbParts
<1>2. old.status # NULL /\ Available(db.staff[a]) /\ Update(d)
    BY DEF ReassignCase, Open
<1>3. /\ row \in CaseRow /\ row.auditor = a /\ row.flag = NULL /\ row.status # NULL
  <2> DEFINE status == IF old.tier # NULL THEN "READY_FOR_REVIEW" ELSE old.status
  <2>1. status \in Statuses
      BY <1>1, <1>2 DEF CaseRow, Statuses
  <2>2. row = [old EXCEPT !.auditor = a, !.flag = NULL, !.status = status]
      BY <1>1 DEF CaseRow
  <2> HIDE DEF status, row
  <2> QED
      BY <1>1, <2>1, <2>2, NullIsNothing DEF CaseRow
<1>4. h = Doc(mid, db.queued, hs, db.asked, db.sosEvents)
    BY <1>1, HandedDoc
<1>5. Ranked(hs) = st
    BY DEF AssignedStaff
<1>6. [mid EXCEPT ![c] = row] = cs
  <2> HIDE DEF row
  <2> QED
      BY <1>1
<1> HIDE DEF h, mid, hs, row, st
<1>7. d = Doc([mid EXCEPT ![c] = row], db.queued, Ranked(hs), db.asked, db.sosEvents)
  <2>1. d = [[h EXCEPT !.staff = Ranked(h.staff)] EXCEPT !.cases[c] = row]
      BY <1>4 DEF Doc
  <2>2. [h EXCEPT !.staff = Ranked(h.staff)] = Doc(mid, db.queued, Ranked(hs), db.asked, db.sosEvents)
      BY <1>4 DEF Doc
  <2>3. [Doc(mid, db.queued, Ranked(hs), db.asked, db.sosEvents) EXCEPT !.cases[c] = row]
          = Doc([mid EXCEPT ![c] = row], db.queued, Ranked(hs), db.asked, db.sosEvents)
      BY DEF Doc
  <2> QED
      BY <2>1, <2>2, <2>3
<1>8. d = Doc([db.cases EXCEPT ![c] = row], db.queued, st, db.asked, db.sosEvents)
    BY <1>5, <1>6, <1>7
<1>9. st \in [Auditors -> StaffRow] /\ \A b \in Auditors : SameFitness(db.staff[b], st[b])
    BY <1>1, AssignDoc DEF st
<1> HIDE DEF d
<1>10. CustodyRow(row, NULL) = Workflow!At("held", a)
    BY <1>3, PlaceOfRow, NullIsNothing DEF CustodyRow, Workflow!At
<1>11. ~Workflow!Is(c, "unreported")
    BY <1>1, <1>2, PlaceOfRow, AtPlace DEF CaseRow, Backend!Visibilities
<1>12. \A k : k = CustodyRow(row, IF row.flag = NULL THEN NULL ELSE handedBy[c])
                  /\ Workflow!Move(c, k) => Workflow!Next
    BY <1>3, <1>10, <1>11
       DEF Workflow!Next, Workflow!Reassign, Auditors, Workflow!Auditors, Backend!Auditors
<1>13. \A b \in Auditors : row.auditor = b /\ db.cases[c].auditor # b => Available(db.staff[b])
    BY <1>2, <1>3
<1>14. RowOK(row)
    BY <1>3 DEF RowOK
<1>15. row.flag # "SOS" \/ row.flag = db.cases[c].flag
    BY <1>3, NullIsNothing DEF Backend!Flags
<1>16. TypeOK' /\ CasePart /\ AlertsStay /\ db'.staff = st
    BY <1>1, <1>2, <1>3, <1>8, <1>9, <1>12, <1>13, <1>14, <1>15, RowStep
<1> QED
    BY <1>9, <1>16, FitStaff

(***************************************************************************)
(* Steps that hand cases to the Manager.                                   *)
(***************************************************************************)
RoutedRow(row, flag) == [row EXCEPT !.auditor = NULL, !.flag = flag]

LEMMA RouteDoc ==
    ASSUME MockInv, NEW c \in Cases, NEW a \in Auditors, OwnCase(c, a), NEW flag \in Backend!Flags
    PROVE  \E t \in StaffRow :
              /\ SameFitness(db.staff[a], t)
              /\ RouteToManager(db, c, flag)
                   = Doc([db.cases EXCEPT ![c] = RoutedRow(db.cases[c], flag)], db.queued,
                         [db.staff EXCEPT ![a] = t], db.asked, db.sosEvents)
              /\ RoutedRow(db.cases[c], flag) \in CaseRow
<1> DEFINE s   == db.staff[a]
           t   == [s EXCEPT !.active = Less(s.active)]
           row == RoutedRow(db.cases[c], flag)
<1>1. /\ db \in Document /\ s \in StaffRow /\ db.cases[c] \in CaseRow /\ db.cases[c].auditor = a
      /\ db.cases \in [Cases -> CaseRow] /\ db.staff \in [Auditors -> StaffRow]
    BY DbParts, OwnedRow
<1>2. t \in StaffRow /\ SameFitness(s, t)
    BY <1>1 DEF StaffRow, SameFitness, Less
<1>3. row \in CaseRow
    BY <1>1 DEF CaseRow, RoutedRow
<1>4. RouteToManager(db, c, flag) = [db EXCEPT !.staff = [db.staff EXCEPT ![a] = t],
                                               !.cases = [db.cases EXCEPT ![c] = row]]
    BY <1>1 DEF RouteToManager, Document, RoutedRow
<1> DEFINE cs == [db.cases EXCEPT ![c] = row]
           st == [db.staff EXCEPT ![a] = t]
           r  == RouteToManager(db, c, flag)
<1> HIDE DEF cs, st, row, t
<1>5. r = [db EXCEPT !.staff = st, !.cases = cs]
    BY <1>4 DEF cs, st
<1>6. r = Doc(cs, db.queued, st, db.asked, db.sosEvents)
  <2> HIDE DEF r
  <2> QED
      BY <1>1, <1>5 DEF Document, Doc
<1> QED
    BY <1>2, <1>3, <1>6 DEF cs, st, row

\* The case goes back to the Manager from a, who had it.
LEMMA GiveBackStep ==
    ASSUME MockInv, NEW c \in Cases, NEW a \in Auditors, OwnCase(c, a), NEW flag \in Backend!Flags,
           RoutedRow(db.cases[c], flag) \in CaseRow,
           NEW st \in [Auditors -> StaffRow], NEW se \in Seq(SosEvent), Len(se) <= MaxSos,
           \A i \in DOMAIN db.sosEvents : i \in DOMAIN se /\ se[i] = db.sosEvents[i],
           flag = "SOS" => Named(se, c),
           NEW d, d = Doc([db.cases EXCEPT ![c] = RoutedRow(db.cases[c], flag)], db.queued,
                          st, db.asked, se),
           HandOver(d, {c}, a)
    PROVE  TypeOK' /\ CasePart /\ AlertsStay /\ db'.staff = st /\ db'.sosEvents = se
<1> DEFINE row == RoutedRow(db.cases[c], flag)
           cs  == [db.cases EXCEPT ![c] = row]
<1>1. /\ row.auditor = NULL /\ row.flag = flag /\ row.status # NULL /\ flag # NULL
    BY OwnedRow, NullIsNothing DEF RoutedRow, CaseRow
<1>2. cs \in [Cases -> CaseRow]
    BY DbParts
<1>3. d = Doc(cs, db.queued, st, db.asked, se)
    OBVIOUS
<1> HIDE DEF cs, row
<1>4. d \in Document /\ d.cases = cs /\ d.staff = st /\ d.sosEvents = se
    BY <1>2, <1>3, DbParts DEF Document, Doc
<1>5. db' = d /\ handedBy' = [x \in Cases |-> IF x \in {c} THEN a ELSE handedBy[x]]
    BY DEF HandOver
<1>6. TypeOK'
    BY <1>4, <1>5, DbParts DEF TypeOK
<1>7. AlertsStay /\ NamesStay
    BY <1>4, <1>5 DEF AlertsStay, NamesStay
<1>8. RowOK(row) /\ (row.flag = "SOS" => Named(db'.sosEvents, c))
    BY <1>1, <1>4, <1>5 DEF RowOK
<1>9. db'.cases = [db.cases EXCEPT ![c] = row]
    BY <1>4, <1>5 DEF cs
<1>10. \A x \in Cases \ {c} : db'.cases[x].flag # NULL => handedBy'[x] = handedBy[x]
    BY <1>5
<1>11. \A b \in Auditors : row.auditor = b /\ db.cases[c].auditor # b => Available(db.staff[b])
    BY <1>1, NullIsNothing
<1>12. /\ RowsOK' /\ SosFlagged' /\ \A x \in Cases : FitOwner(x)
       /\ \A k : k = CustodyRow(row, handedBy'[c]) => Workflow!Move(c, k)
    BY <1>7, <1>8, <1>9, <1>10, <1>11, OneCaseMoves
<1>13. CustodyRow(row, handedBy'[c]) = Workflow!At("manager", a)
    BY <1>1, <1>5, PlaceOfRow DEF CustodyRow, Workflow!At, row
<1>14. Workflow!Move(c, Workflow!At("manager", a))
    BY <1>12, <1>13
<1>15. Workflow!Moves({c}, [x \in {c} |-> Workflow!At("manager", a)])
    BY <1>14, HandsOf DEF Workflow!Move, Workflow!Moves
<1>16. Workflow!ToManager(a, {c})
    BY <1>15, OwnedRow DEF Workflow!ToManager
<1>17. Workflow!Next
    BY <1>16 DEF Workflow!Next, Auditors, Workflow!Auditors, Backend!Auditors
<1> QED
    BY <1>4, <1>5, <1>6, <1>7, <1>12, <1>17 DEF CasePart

LEMMA HandBackSteps ==
    ASSUME MockInv, NEW c \in Cases, NEW a \in Auditors, DeclineCase(c, a) \/ ReleaseCaseAtLimit(c, a)
    PROVE  TypeOK' /\ CasePart /\ TimerPart
<1>1. PICK flag \in {"DECLINED", "CAP_REACHED"} :
          OwnCase(c, a) /\ HandOver(RouteToManager(db, c, flag), {c}, a)
    BY DEF DeclineCase, ReleaseCaseAtLimit
<1>2. flag \in Backend!Flags /\ flag # "SOS"
    BY DEF Backend!Flags
<1> DEFINE d == RouteToManager(db, c, flag)
<1>3. PICK t \in StaffRow :
              /\ SameFitness(db.staff[a], t)
              /\ d = Doc([db.cases EXCEPT ![c] = RoutedRow(db.cases[c], flag)], db.queued,
                         [db.staff EXCEPT ![a] = t], db.asked, db.sosEvents)
              /\ RoutedRow(db.cases[c], flag) \in CaseRow
    BY <1>1, <1>2, RouteDoc
<1> DEFINE st == [db.staff EXCEPT ![a] = t]
<1>4. /\ st \in [Auditors -> StaffRow]
      /\ \A b \in Auditors : SameFitness(db.staff[b], st[b])
    BY <1>3, DbParts DEF SameFitness
<1>5. HandOver(d, {c}, a) /\ OwnCase(c, a)
    BY <1>1
<1>6. d = Doc([db.cases EXCEPT ![c] = RoutedRow(db.cases[c], flag)], db.queued,
                         st, db.asked, db.sosEvents)
    BY <1>3
<1> HIDE DEF d, st
<1>7. TypeOK' /\ CasePart /\ AlertsStay /\ db'.staff = st
    BY <1>2, <1>3, <1>4, <1>5, <1>6, DbParts, GiveBackStep
<1> QED
    BY <1>4, <1>7, FitStaff

LEMMA RaiseSosStep ==
    ASSUME MockInv, NEW c \in Cases, NEW a \in Auditors, RaiseSos(c, a)
    PROVE  TypeOK' /\ CasePart /\ TimerPart
<1> DEFINE r  == RouteToManager(db, c, "SOS")
           e  == [auditor |-> a, case |-> c, acknowledged |-> FALSE, resolved |-> FALSE]
           se == Append(db.sosEvents, e)
           d  == [r EXCEPT !.sosEvents = Append(@, e),
                           !.staff[a] = StartCooldown(@, "SOS", CooldownTicks["SOS"], TRUE)]
<1>1. OwnCase(c, a) /\ Len(db.sosEvents) < MaxSos /\ HandOver(d, {c}, a)
    BY DEF RaiseSos
<1>2. "SOS" \in Backend!Flags /\ "SOS" \in Causes /\ CooldownTicks["SOS"] \in Ticks
    BY DEF Backend!Flags, Causes, Ticks, CooldownTicks
<1>3. PICK t \in StaffRow :
              /\ SameFitness(db.staff[a], t)
              /\ r = Doc([db.cases EXCEPT ![c] = RoutedRow(db.cases[c], "SOS")], db.queued,
                         [db.staff EXCEPT ![a] = t], db.asked, db.sosEvents)
              /\ RoutedRow(db.cases[c], "SOS") \in CaseRow
    BY <1>1, <1>2, RouteDoc
<1> DEFINE u == StartCooldown(t, "SOS", CooldownTicks["SOS"], TRUE)
<1>4. Started(t, u, "SOS") /\ AwaitsCheckIn(u)
    BY <1>2, StartedCooldown
<1>5. u \in StaffRow
    BY <1>4 DEF Started
<1> DEFINE cs == [db.cases EXCEPT ![c] = RoutedRow(db.cases[c], "SOS")]
           rt == [db.staff EXCEPT ![a] = t]
           st == [db.staff EXCEPT ![a] = u]
<1>6. st \in [Auditors -> StaffRow] /\ \A b \in Auditors : st[b] = IF b = a THEN u ELSE db.staff[b]
  <2> HIDE DEF u
  <2> QED
      BY <1>5, DbParts
<1>7. rt[a] = t /\ \A x : [rt EXCEPT ![a] = x] = [db.staff EXCEPT ![a] = x]
    BY DbParts
<1>8. d = Doc(cs, db.queued, st, db.asked, se)
  <2>1. r = Doc(cs, db.queued, rt, db.asked, db.sosEvents)
      BY <1>3
  <2> HIDE DEF r, cs, rt, e
  <2>2. d = [r EXCEPT !.sosEvents = se,
                      !.staff = [rt EXCEPT ![a] = StartCooldown(rt[a], "SOS", CooldownTicks["SOS"], TRUE)]]
      BY <2>1 DEF Doc
  <2>3. [rt EXCEPT ![a] = StartCooldown(rt[a], "SOS", CooldownTicks["SOS"], TRUE)] = st
      BY <1>7
  <2> HIDE DEF d, st, se
  <2>4. d = [r EXCEPT !.sosEvents = se, !.staff = st]
      BY <2>2, <2>3
  <2> QED
      BY <2>1, <2>4 DEF Doc
<1>9. e \in SosEvent /\ e.auditor = a /\ e.case = c /\ e.resolved = FALSE
    BY DEF SosEvent
<1>10. db.sosEvents \in Seq(SosEvent)
    BY DbParts
<1> DEFINE n == Len(db.sosEvents)
<1>11. /\ se \in Seq(SosEvent) /\ Len(se) <= MaxSos /\ n + 1 \in DOMAIN se /\ se[n + 1] = e
       /\ \A i \in DOMAIN db.sosEvents : i \in DOMAIN se /\ se[i] = db.sosEvents[i]
  <2> HIDE DEF e
  <2>1. n \in Nat /\ DOMAIN db.sosEvents = 1..n
      BY <1>10, LenProperties
  <2>2. /\ se \in Seq(SosEvent) /\ Len(se) = n + 1 /\ se[n + 1] = e
        /\ \A i \in 1..n : se[i] = db.sosEvents[i]
      BY <1>9, <1>10, AppendProperties
  <2>3. DOMAIN se = 1..(n + 1)
      BY <2>2, LenProperties
  <2> HIDE DEF se, n
  <2> QED
      BY <1>1, <2>1, <2>2, <2>3, MockAssumption DEF n
<1> HIDE DEF d, cs, st, se, e, n, u
<1>12. Named(se, c) /\ Alerted(se, a)
    BY <1>9, <1>11 DEF Named, Alerted
<1>13. TypeOK' /\ CasePart /\ AlertsStay /\ db'.staff = st /\ db'.sosEvents = se
  <2>1. d = Doc([db.cases EXCEPT ![c] = RoutedRow(db.cases[c], "SOS")], db.queued, st, db.asked, se)
      BY <1>8 DEF cs
  <2> QED
      BY <1>1, <1>2, <1>3, <1>6, <1>11, <1>12, <2>1, GiveBackStep
<1>14. db'.staff[a] = u
    BY <1>6, <1>13
<1>15. Served(a)
    BY <1>3, <1>4, <1>14 DEF Served, SameFitness, Started, AwaitsCheckIn
<1>16. \A b \in Auditors \ {a} : /\ Runs(db.staff[b], db'.staff[b])
                                 /\ Alerted(db.sosEvents, b) => Alerted(db'.sosEvents, b)
    BY <1>6, <1>13, DbParts, RunsOn DEF Alerted, AlertsStay, NamesStay
<1> QED
    BY <1>12, <1>13, <1>15, <1>16, TimersLifted

\* The cases in S change hands, and no other.
LEMMA CasesMove ==
    ASSUME MockInv, TypeOK', NamesStay, NEW S \in SUBSET Cases,
           \A c \in Cases \ S : /\ InHand(db.cases[c], db'.cases[c])
                                /\ db'.cases[c].flag # NULL => handedBy'[c] = handedBy[c],
           \A c \in S : /\ RowOK(db'.cases[c]) /\ db'.cases[c].flag # "SOS" /\ FitOwner(c)
    PROVE  /\ RowsOK' /\ SosFlagged' /\ \A c \in Cases : FitOwner(c)
           /\ \A to : (\A c \in S : to[c] = CustodyRow(db'.cases[c], handedBy'[c]))
                         => Workflow!Moves(S, to)
<1>1. \A c \in Cases : db.cases[c] \in CaseRow /\ db'.cases[c] \in CaseRow
    BY DocumentParts DEF MockInv, TypeOK
<1>2. RowsOK'
    BY DEF MockInv, RowsOK, RowOK, InHand
<1>3. \A c \in Cases : FitOwner(c)
    BY DEF InHand, FitOwner
<1>4. SosFlagged'
    BY DEF MockInv, SosFlagged, InHand, NamesStay, Named
<1>5. \A c \in Cases \ S : CustodyRow(db'.cases[c], handedBy'[c]) = CustodyRow(db.cases[c], handedBy[c])
    BY <1>1, PlaceStays DEF CustodyRow, InHand
<1>6. ASSUME NEW to, \A c \in S : to[c] = CustodyRow(db'.cases[c], handedBy'[c])
      PROVE  Workflow!Moves(S, to)
  <2>1. \A c \in Cases : CustodyRow(db'.cases[c], handedBy'[c]) = IF c \in S THEN to[c] ELSE Hands[c]
      BY <1>5, <1>6, HandsOf
  <2> QED
      BY <2>1, HandsOf DEF Workflow!Moves
<1> QED
    BY <1>2, <1>3, <1>4, <1>6

LEMMA ReleaseAllStep ==
    ASSUME MockInv, NEW a \in Auditors, ReleaseAllCasesAtLimit(a)
    PROVE  TypeOK' /\ CasePart /\ TimerPart
<1> DEFINE pending == {c \in Cases : /\ OwnCase(c, a) /\ db.cases[c].flag = NULL
                                     /\ db.cases[c].status \in {"READY_FOR_REVIEW", "AUDITOR_REVIEW"}}
           s  == db.staff[a]
           n  == Longer(s.active - Cardinality(pending), 0)
           t  == [s EXCEPT !.active = n]
           st == [db.staff EXCEPT ![a] = t]
           cs == [c \in Cases |-> IF c \in pending
                        THEN [db.cases[c] EXCEPT !.auditor = NULL, !.flag = "CAP_REACHED"]
                        ELSE db.cases[c]]
           d  == [db EXCEPT !.staff[a].active = Longer(@ - Cardinality(pending), 0), !.cases = cs]
<1>1. pending \in SUBSET Cases /\ \A c \in pending : OwnCase(c, a)
    OBVIOUS
<1>2. HandOver(d, pending, a)
    BY DEF ReleaseAllCasesAtLimit
<1>3. /\ db \in Document /\ s \in StaffRow /\ db.cases \in [Cases -> CaseRow]
      /\ db.staff \in [Auditors -> StaffRow]
    BY DbParts
<1> HIDE DEF pending
<1>4. n \in Nat
  <2>1. Cardinality(pending) \in Nat
      BY <1>1, MockAssumption, FS_Subset, FS_CardinalityType
  <2> QED
      BY <1>3, <2>1 DEF Longer, StaffRow
<1>5. d = [db EXCEPT !.staff = st, !.cases = cs]
    BY <1>3 DEF Document
<1> HIDE DEF n
<1>6. t \in StaffRow /\ SameFitness(s, t)
    BY <1>3, <1>4 DEF StaffRow, SameFitness
<1> HIDE DEF t
<1>7. /\ st \in [Auditors -> StaffRow]
      /\ \A b \in Auditors : SameFitness(db.staff[b], st[b])
    BY <1>3, <1>6 DEF SameFitness
<1>8. \A c \in Cases : cs[c] = IF c \in pending THEN RoutedRow(db.cases[c], "CAP_REACHED") ELSE db.cases[c]
    BY DEF RoutedRow
<1>9. ASSUME NEW c \in pending
      PROVE  /\ cs[c] \in CaseRow /\ cs[c].auditor = NULL /\ cs[c].flag = "CAP_REACHED"
             /\ cs[c].status # NULL
  <2>1. c \in Cases /\ cs[c] = RoutedRow(db.cases[c], "CAP_REACHED")
      BY <1>1, <1>8
  <2>2. db.cases[c] \in CaseRow /\ db.cases[c].status # NULL
      BY <1>1, <2>1, OwnedRow
  <2>3. "CAP_REACHED" \in Backend!Flags
      BY DEF Backend!Flags
  <2> HIDE DEF cs
  <2> QED
      BY <2>1, <2>2, <2>3 DEF CaseRow, RoutedRow
<1>10. cs \in [Cases -> CaseRow]
  <2>1. \A c \in Cases : cs[c] \in CaseRow
      BY <1>3, <1>8, <1>9
  <2>2. cs = [c \in Cases |-> cs[c]]
      OBVIOUS
  <2> HIDE DEF cs
  <2> QED
      BY <2>1, <2>2
<1> HIDE DEF cs, st, d
<1>11. d = Doc(cs, db.queued, st, db.asked, db.sosEvents)
    BY <1>3, <1>5 DEF Document, Doc
<1>12. d \in Document /\ d.cases = cs /\ d.staff = st /\ d.sosEvents = db.sosEvents
    BY <1>7, <1>10, <1>11, DbParts DEF Document, Doc
<1>13. db' = d /\ handedBy' = [x \in Cases |-> IF x \in pending THEN a ELSE handedBy[x]]
    BY <1>2 DEF HandOver
<1>14. TypeOK'
    BY <1>12, <1>13, DbParts DEF TypeOK
<1>15. AlertsStay /\ NamesStay
    BY <1>12, <1>13 DEF AlertsStay, NamesStay
<1>16. \A c \in Cases \ pending : /\ InHand(db.cases[c], db'.cases[c])
                                  /\ db'.cases[c].flag # NULL => handedBy'[c] = handedBy[c]
    BY <1>8, <1>12, <1>13 DEF InHand
<1>17. \A c \in pending : /\ RowOK(db'.cases[c]) /\ db'.cases[c].flag # "SOS" /\ FitOwner(c)
    BY <1>9, <1>12, <1>13, NullIsNothing DEF RowOK, FitOwner
<1> DEFINE to == [c \in pending |-> Workflow!At("manager", a)]
<1>18. \A c \in pending : to[c] = CustodyRow(db'.cases[c], handedBy'[c])
  <2> SUFFICES ASSUME NEW c \in pending PROVE CustodyRow(cs[c], a) = Workflow!At("manager", a)
      BY <1>1, <1>12, <1>13
  <2>1. "CAP_REACHED" # NULL
      BY NullIsNothing DEF Backend!Flags
  <2> QED
      BY <1>9, <2>1, PlaceOfRow DEF CustodyRow, Workflow!At
<1> HIDE DEF to
<1>19. /\ RowsOK' /\ SosFlagged' /\ \A c \in Cases : FitOwner(c)
       /\ Workflow!Moves(pending, to)
    BY <1>1, <1>14, <1>15, <1>16, <1>17, <1>18, CasesMove
<1>20. Workflow!ToManager(a, pending)
    BY <1>1, <1>19, OwnedRow DEF Workflow!ToManager, to
<1>21. Workflow!Next
    BY <1>1, <1>20 DEF Workflow!Next, Auditors, Workflow!Auditors, Backend!Auditors
<1> QED
    BY <1>7, <1>12, <1>13, <1>14, <1>15, <1>19, <1>21, FitStaff DEF CasePart

\* What a placed case looks like, before and after.
LEMMA PlacedHands ==
    ASSUME NEW d \in Document, NEW c \in Cases, NEW row, PlacedRow(d, c, row)
    PROVE  /\ d.cases[c].visibility = "SUPER_ADMIN_ONLY" /\ d.cases[c].auditor = NULL
           /\ d.cases[c].flag = NULL /\ d.cases[c].status # NULL
           /\ row \in CaseRow /\ row.flag = NULL /\ row.status # NULL
           /\ row.auditor \in Standard /\ Available(d.staff[row.auditor])
<1>1. PICK a \in Standard : Available(d.staff[a]) /\ row = GivenRow(d.cases[c], a)
    BY DEF PlacedRow
<1>2. /\ d.cases[c].visibility = "SUPER_ADMIN_ONLY" /\ d.cases[c].auditor = NULL
      /\ d.cases[c].flag = NULL /\ d.cases[c].status # NULL
    BY DEF PlacedRow, Waiting
<1>3. d.cases[c] \in CaseRow /\ d.staff[a] \in StaffRow /\ a \in Auditors
    BY DocumentParts, NullIsNothing
<1>4. row \in CaseRow
    BY <1>1, <1>3, GivenTyped
<1>5. row.flag = NULL /\ row.status # NULL /\ row.auditor = a
    BY <1>1, <1>2, <1>3 DEF GivenRow, CaseRow
<1> QED
    BY <1>1, <1>2, <1>4, <1>5

LEMMA HeldRow ==
    ASSUME NEW row \in CaseRow, row.status # NULL, row.flag = NULL, row.auditor \in Standard, NEW h
    PROVE  CustodyRow(row, h) = Workflow!At("held", row.auditor) /\ RowOK(row)
  BY PlaceOfRow, NullIsNothing DEF CustodyRow, Workflow!At, RowOK

LEMMA AdvanceStep ==
    ASSUME MockInv, AdvanceSimulatedAi PROVE TypeOK' /\ CasePart /\ TimerPart
<1> DEFINE d == AutoReleaseFallback(db)
<1>1. PICK ready \in SUBSET {c \in Cases : db.cases[c].status = "AI_PROCESSING"} :
      \E tier \in [ready -> Analyses] :
         Update([d EXCEPT !.cases = [c \in Cases |->
                IF c \in ready
                THEN [d.cases[c] EXCEPT !.status = "READY_FOR_REVIEW", !.tier = tier[c]]
                ELSE d.cases[c]]])
    BY DEF AdvanceSimulatedAi
<1>2. PICK tier \in [ready -> Analyses] :
         Update([d EXCEPT !.cases = [c \in Cases |->
                IF c \in ready
                THEN [d.cases[c] EXCEPT !.status = "READY_FOR_REVIEW", !.tier = tier[c]]
                ELSE d.cases[c]]])
    BY <1>1
<1> DEFINE new(c) == IF c \in ready
                     THEN [d.cases[c] EXCEPT !.status = "READY_FOR_REVIEW", !.tier = tier[c]]
                     ELSE d.cases[c]
           cs == [c \in Cases |-> new(c)]
           e  == [d EXCEPT !.cases = cs]
           S  == {c \in Cases : PlacedRow(db, c, d.cases[c])}
<1>3. Update(e)
    BY <1>2
<1>4. db \in Document /\ db.cases \in [Cases -> CaseRow]
    BY DbParts
<1>5. PassOf(db, d)
    BY <1>4, ReleasePass
<1> HIDE DEF d
<1>6. /\ d \in Document /\ d.cases \in [Cases -> CaseRow] /\ d.staff \in [Auditors -> StaffRow]
      /\ d.sosEvents = db.sosEvents
      /\ \A a \in Auditors : SameFitness(db.staff[a], d.staff[a])
      /\ \A c \in Cases : d.cases[c] = db.cases[c] \/ c \in S
    BY <1>5, DocumentParts DEF PassOf
<1>7. ASSUME NEW c \in Cases
      PROVE  new(c) \in CaseRow /\ (d.cases[c].status # NULL => InHand(d.cases[c], new(c)))
             /\ (c \notin ready => new(c) = d.cases[c])
  <2> DEFINE old == d.cases[c]
  <2>1. old \in CaseRow
      BY <1>6
  <2>2. CASE c \in ready
    <3>1. tier[c] \in Backend!AllTiers
        BY <2>2, MockAssumption DEF Backend!AllTiers
    <3> DEFINE r == [old EXCEPT !.status = "READY_FOR_REVIEW", !.tier = tier[c]]
    <3>2. r \in CaseRow
        BY <2>1, <3>1 DEF CaseRow, Statuses
    <3>3. r.auditor = old.auditor /\ r.flag = old.flag /\ r.visibility = old.visibility
          /\ r.status # NULL
        BY <2>1, NullIsNothing DEF CaseRow, Statuses
    <3> QED
        BY <2>2, <3>2, <3>3 DEF InHand
  <2>3. CASE c \notin ready
      BY <2>1, <2>3 DEF InHand
  <2> QED
      BY <2>2, <2>3
<1>8. \A c \in ready : c \in Cases /\ db.cases[c].status # NULL
    BY NullIsNothing DEF Statuses
<1> HIDE DEF new
<1>9. cs \in [Cases -> CaseRow] /\ \A c \in Cases : cs[c] = new(c)
    BY <1>7
<1> HIDE DEF cs
<1>10. e = Doc(cs, d.queued, d.staff, d.asked, d.sosEvents)
    BY <1>6, DocumentWith
<1> HIDE DEF e
<1>11. e \in Document /\ e.cases = cs /\ e.staff = d.staff /\ e.sosEvents = db.sosEvents
    BY <1>6, <1>9, <1>10, DocumentParts DEF Document, Doc
<1>12. TypeOK' /\ HandersStay /\ db' = e
    BY <1>3, <1>11, Updated, DbParts
<1>13. AlertsStay /\ NamesStay
    BY <1>11, <1>12 DEF AlertsStay, NamesStay
<1>14. \A c \in Cases : db'.cases[c] = new(c)
    BY <1>9, <1>11, <1>12
<1>15. \A c \in Cases \ S : /\ InHand(db.cases[c], db'.cases[c])
                            /\ db'.cases[c].flag # NULL => handedBy'[c] = handedBy[c]
  <2> SUFFICES ASSUME NEW c \in Cases \ S PROVE InHand(db.cases[c], new(c))
      BY <1>12, <1>14 DEF HandersStay
  <2>1. d.cases[c] = db.cases[c]
      BY <1>6
  <2> QED
      BY <1>7, <1>8, <2>1 DEF InHand
<1>16. \A c \in S : /\ d.cases[c].auditor \in Standard /\ new(c).auditor = d.cases[c].auditor
                    /\ new(c) \in CaseRow /\ new(c).flag = NULL /\ new(c).status # NULL
                    /\ Available(db.staff[new(c).auditor])
                    /\ Workflow!Is(c, "parked")
  <2> SUFFICES ASSUME NEW c \in S
               PROVE  /\ d.cases[c].auditor \in Standard /\ new(c).auditor = d.cases[c].auditor
                      /\ new(c) \in CaseRow /\ new(c).flag = NULL /\ new(c).status # NULL
                      /\ Available(db.staff[new(c).auditor])
                      /\ Workflow!Is(c, "parked")
      OBVIOUS
  <2> DEFINE row == d.cases[c]
  <2>1. /\ db.cases[c].visibility = "SUPER_ADMIN_ONLY" /\ db.cases[c].auditor = NULL
        /\ db.cases[c].flag = NULL /\ db.cases[c].status # NULL
        /\ row \in CaseRow /\ row.flag = NULL /\ row.status # NULL
        /\ row.auditor \in Standard /\ Available(db.staff[row.auditor])
      BY <1>4, PlacedHands
  <2>2. new(c) \in CaseRow /\ InHand(row, new(c))
      BY <1>7, <2>1
  <2>3. Workflow!Is(c, "parked")
      BY <1>4, <2>1, PlaceOfRow, AtPlace
  <2> QED
      BY <2>1, <2>2, <2>3 DEF InHand
<1>17. \A c \in S : /\ RowOK(db'.cases[c]) /\ db'.cases[c].flag # "SOS" /\ FitOwner(c)
    BY <1>14, <1>16, NullIsNothing DEF RowOK, FitOwner, Backend!Flags
<1> DEFINE owner == [c \in S |-> d.cases[c].auditor]
           to    == [c \in S |-> Workflow!At("held", owner[c])]
<1>18. \A c \in S : to[c] = CustodyRow(db'.cases[c], handedBy'[c])
    BY <1>14, <1>16, HeldRow
<1>19. S \in SUBSET Cases /\ owner \in [S -> Standard]
    BY <1>16
<1> HIDE DEF S, to, owner
<1>20. /\ RowsOK' /\ SosFlagged' /\ \A c \in Cases : FitOwner(c)
       /\ Workflow!Moves(S, to)
    BY <1>12, <1>13, <1>15, <1>17, <1>18, <1>19, CasesMove
<1>21. Workflow!Place(S, owner)
    BY <1>16, <1>20 DEF Workflow!Place, to
<1>22. Workflow!Next
    BY <1>19, <1>21 DEF Workflow!Next
<1> QED
    BY <1>6, <1>11, <1>12, <1>13, <1>20, <1>22, FitStaff DEF CasePart

LEMMA WithdrawStep ==
    ASSUME MockInv, NEW c \in Cases, WithdrawCaseRelease(c) PROVE TypeOK' /\ CasePart /\ TimerPart
<1> DEFINE old  == db.cases[c]
           back == [old EXCEPT !.visibility = "SUPER_ADMIN_ONLY"]
           w    == [db EXCEPT !.cases[c].visibility = "SUPER_ADMIN_ONLY"]
           p    == Queued(w, c)
           d    == AutoReleaseFallback(p)
           S    == {x \in Cases : PlacedRow(p, x, d.cases[x])}
<1>1. /\ old.flag = NULL /\ old.auditor = NULL /\ old.visibility = "AVAILABLE_TO_AUDITORS"
      /\ Update(d)
    BY DEF WithdrawCaseRelease
<1>2. /\ db \in Document /\ db.cases \in [Cases -> CaseRow] /\ old \in CaseRow
    BY DbParts
<1>3. old.status # NULL
    BY <1>1 DEF MockInv, RowsOK, RowOK
<1>4. Workflow!Is(c, "offered")
    BY <1>1, <1>2, <1>3, PlaceOfRow, AtPlace
<1>5. /\ back \in CaseRow /\ back.flag = NULL /\ back.auditor = NULL /\ back.status # NULL
      /\ back.visibility = "SUPER_ADMIN_ONLY"
    BY <1>1, <1>2, <1>3 DEF CaseRow, Backend!Visibilities
<1>6. w = [db EXCEPT !.cases = [db.cases EXCEPT ![c] = back]]
    BY <1>2 DEF Document
<1> HIDE DEF back, w
<1>7. /\ w \in Document /\ w.cases = [db.cases EXCEPT ![c] = back]
      /\ w.staff = db.staff /\ w.sosEvents = db.sosEvents
    BY <1>2, <1>5, <1>6, RowDoc
<1>8. /\ p \in Document /\ p.cases = w.cases /\ p.staff = w.staff /\ p.sosEvents = w.sosEvents
    BY <1>7, QueueDoc
<1> HIDE DEF p
<1>9. PassOf(p, d)
    BY <1>8, ReleasePass
<1> HIDE DEF d
<1>10. /\ d \in Document /\ d.cases \in [Cases -> CaseRow] /\ d.sosEvents = db.sosEvents
       /\ \A a \in Auditors : SameFitness(db.staff[a], d.staff[a])
       /\ \A x \in Cases : d.cases[x] = p.cases[x] \/ x \in S
    BY <1>7, <1>8, <1>9, DocumentParts DEF PassOf
<1>11. \A x \in Cases : p.cases[x] = IF x = c THEN back ELSE db.cases[x]
    BY <1>2, <1>7, <1>8
<1>12. TypeOK' /\ HandersStay /\ db' = d
    BY <1>1, <1>10, Updated, DbParts
<1>13. AlertsStay /\ NamesStay
    BY <1>10, <1>12 DEF AlertsStay, NamesStay
<1> DEFINE T == S \cup {c}
<1>14. \A x \in Cases \ T : /\ InHand(db.cases[x], db'.cases[x])
                            /\ db'.cases[x].flag # NULL => handedBy'[x] = handedBy[x]
  <2>1. \A x \in Cases \ T : db'.cases[x] = db.cases[x]
      BY <1>10, <1>11, <1>12
  <2> QED
      BY <1>12, <2>1 DEF HandersStay, InHand
<1>15. \A x \in S : /\ d.cases[x] \in CaseRow /\ d.cases[x].flag = NULL /\ d.cases[x].status # NULL
                    /\ d.cases[x].auditor \in Standard
                    /\ Available(db.staff[d.cases[x].auditor])
                    /\ x # c => Workflow!Is(x, "parked")
  <2> SUFFICES ASSUME NEW x \in S
               PROVE  /\ d.cases[x] \in CaseRow /\ d.cases[x].flag = NULL /\ d.cases[x].status # NULL
                      /\ d.cases[x].auditor \in Standard
                      /\ Available(db.staff[d.cases[x].auditor])
                      /\ x # c => Workflow!Is(x, "parked")
      OBVIOUS
  <2> DEFINE row == d.cases[x]
  <2>1. /\ p.cases[x].visibility = "SUPER_ADMIN_ONLY" /\ p.cases[x].auditor = NULL
        /\ p.cases[x].flag = NULL /\ p.cases[x].status # NULL
        /\ row \in CaseRow /\ row.flag = NULL /\ row.status # NULL
        /\ row.auditor \in Standard /\ Available(p.staff[row.auditor])
      BY <1>8, PlacedHands
  <2>2. x # c => Workflow!Is(x, "parked")
      BY <1>2, <1>11, <2>1, PlaceOfRow, AtPlace
  <2> QED
      BY <1>7, <1>8, <2>1, <2>2
<1>16. c \notin S => d.cases[c] = back
    BY <1>10, <1>11
<1>17. \A x \in T : /\ RowOK(db'.cases[x]) /\ db'.cases[x].flag # "SOS" /\ FitOwner(x)
  <2>1. \A x \in S : /\ RowOK(db'.cases[x]) /\ db'.cases[x].flag # "SOS" /\ FitOwner(x)
      BY <1>12, <1>15, NullIsNothing DEF RowOK, FitOwner, Backend!Flags
  <2>2. c \notin S => RowOK(db'.cases[c]) /\ db'.cases[c].flag # "SOS" /\ FitOwner(c)
      BY <1>5, <1>12, <1>16, NullIsNothing DEF RowOK, FitOwner, Backend!Flags
  <2> QED
      BY <2>1, <2>2
<1> DEFINE owner == [x \in S |-> d.cases[x].auditor]
           to    == [x \in T |-> IF x \in S THEN Workflow!At("held", owner[x])
                                 ELSE Workflow!At("parked", NULL)]
<1>18. \A x \in T : to[x] = CustodyRow(db'.cases[x], handedBy'[x])
  <2>1. \A x \in S : to[x] = CustodyRow(db'.cases[x], handedBy'[x])
      BY <1>12, <1>15, HeldRow
  <2>2. c \notin S => to[c] = CustodyRow(db'.cases[c], handedBy'[c])
    <3>1. CustodyRow(back, handedBy'[c]) = Workflow!At("parked", NULL)
        BY <1>5, PlaceOfRow DEF CustodyRow, Workflow!At
    <3> QED
        BY <1>12, <1>16, <3>1
  <2> QED
      BY <2>1, <2>2
<1>19. S \in SUBSET Cases /\ T \in SUBSET Cases /\ owner \in [S -> Standard]
    BY <1>15
<1> HIDE DEF S, to
<1>20. /\ RowsOK' /\ SosFlagged' /\ \A x \in Cases : FitOwner(x)
       /\ Workflow!Moves(T, to)
    BY <1>12, <1>13, <1>14, <1>17, <1>18, <1>19, CasesMove
<1> HIDE DEF owner
<1>21. Workflow!Withdraw(c, S, owner)
    BY <1>4, <1>15, <1>20 DEF Workflow!Withdraw, to
<1>22. Workflow!Next
    BY <1>19, <1>21 DEF Workflow!Next
<1> QED
    BY <1>10, <1>12, <1>13, <1>20, <1>22, FitStaff DEF CasePart

(***************************************************************************)
(* The invariant.                                                          *)
(***************************************************************************)
LEMMA EmptyInv ==
    ASSUME NEW d, d = Empty
    PROVE  /\ d \in Document /\ Len(d.sosEvents) <= MaxSos
           /\ \A c \in Cases : RowOK(d.cases[c]) /\ d.cases[c].flag # "SOS"
           /\ \A a \in Auditors : ~HeldBySos(d.staff[a])
<1>1. NoCase \in CaseRow /\ RowOK(NoCase) /\ NoCase.flag # "SOS"
    BY NullIsNothing DEF NoCase, CaseRow, RowOK, Backend!Visibilities, Backend!Flags
<1>2. NewStaff \in StaffRow /\ ~HeldBySos(NewStaff)
    BY MockAssumption DEF NewStaff, StaffRow, HeldBySos, AwaitsCheckIn
<1> DEFINE cs == [c \in Cases |-> NoCase]
           q  == [c \in Cases |-> 0]
           st == [a \in Auditors |-> NewStaff]
           ak == [a \in Auditors |-> {}]
<1>3. /\ cs \in [Cases -> CaseRow] /\ q \in [Cases -> Nat] /\ st \in [Auditors -> StaffRow]
      /\ ak \in [Auditors -> SUBSET Kinds] /\ << >> \in Seq(SosEvent) /\ Len(<< >>) = 0
    BY <1>1, <1>2
<1>4. \A c \in Cases : cs[c] = NoCase
    OBVIOUS
<1>5. \A a \in Auditors : st[a] = NewStaff
    OBVIOUS
<1>6. d = Doc(cs, q, st, ak, << >>)
    BY DEF Empty, Doc
<1> HIDE DEF cs, q, st, ak
<1>7. d \in Document /\ d.cases = cs /\ d.staff = st /\ d.sosEvents = << >>
    BY <1>3, <1>6 DEF Document, Doc
<1> QED
    BY <1>1, <1>2, <1>3, <1>4, <1>5, <1>7, MockAssumption

LEMMA InitInv == Init => MockInv /\ Workflow!Init
<1> SUFFICES ASSUME Init PROVE MockInv /\ Workflow!Init
    OBVIOUS
<1>1. db = Empty /\ handedBy = [c \in Cases |-> NULL]
    BY DEF Init
<1>2. MockInv
    BY <1>1, EmptyInv DEF MockInv, TypeOK, RowsOK, SosHeld, SosFlagged
<1>3. \A c \in Cases : db.cases[c] = NoCase
    BY <1>1 DEF Empty
<1>4. NoCase.status = NULL /\ NoCase.flag = NULL /\ NoCase.auditor = NULL
    BY DEF NoCase
<1>5. \A c \in Cases : CustodyRow(db.cases[c], handedBy[c]) = Workflow!At("unreported", NULL)
    BY <1>3, <1>4 DEF CustodyRow, Place, Workflow!At
<1>6. Workflow!Init
    BY <1>5, HandsOf DEF Workflow!Init
<1> QED
    BY <1>2, <1>6

LEMMA ResetStep ==
    ASSUME MockInv, Reset
    PROVE  MockInv' /\ (\A c \in Cases : FitOwner(c)) /\ \A a \in Auditors : Served(a)
<1>1. db' = Empty /\ handedBy' = [c \in Cases |-> NULL]
    BY DEF Reset
<1>2. MockInv'
    BY <1>1, EmptyInv DEF MockInv, TypeOK, RowsOK, SosHeld, SosFlagged
<1>3. \A c \in Cases : db'.cases[c].auditor = NULL
    BY <1>1 DEF Empty, NoCase
<1> QED
    BY <1>2, <1>3, NullIsNothing DEF FitOwner, Served, Demo

LEMMA StepParts ==
    ASSUME MockInv, Next, ~Reset PROVE TypeOK' /\ CasePart /\ TimerPart
<1>1. CASE \E c \in Cases : \/ CreateReport(c) \/ MakeCaseAvailable(c) \/ WithdrawCaseRelease(c)
                            \/ CloseWithoutReassignment(c)
    BY <1>1, CreateReportStep, MakeCaseAvailableStep, WithdrawStep, CloseStep
<1>2. CASE \E c \in Cases, a \in Auditors :
          \/ TakeCase(c, a) \/ ClaimCase(c, a) \/ AcknowledgeContentWarning(c, a)
          \/ DeclineCase(c, a) \/ ReleaseCaseAtLimit(c, a) \/ RaiseSos(c, a)
          \/ ResolveCase(c, a) \/ ReassignCase(c, a)
    BY <1>2, TakeCaseStep, ClaimCaseStep, AcknowledgeContentWarningStep, HandBackSteps,
       RaiseSosStep, ResolveCaseStep, ReassignCaseStep
<1>3. CASE \E a \in Auditors :
          \/ ReleaseAllCasesAtLimit(a) \/ RecordExposure(a) \/ GetMyWellbeing(a)
          \/ SetExposureLimit(a) \/ ApproveBreakRequest(a) \/ MarkWellbeingFollowedUp(a)
          \/ LogCheckIn(a)
  <2>1. "TALK_TO_MANAGER" \in Kinds
      BY DEF Kinds
  <2> QED
      BY <1>3, <2>1, ReleaseAllStep, RecordExposureStep, GetMyWellbeingStep,
         SetExposureLimitStep, ApproveBreakRequestStep, RequestSteps, LogCheckInStep
<1>4. CASE \E a \in Auditors, k \in Kinds :
          RequestWellbeingSupport(a, k) \/ WithdrawWellbeingRequest(a, k)
    BY <1>4, RequestSteps
<1>5. CASE \E i \in DOMAIN db.sosEvents : AcknowledgeSosAlert(i) \/ LogSosFollowUp(i)
    BY <1>5, AcknowledgeSosAlertStep, LogSosFollowUpStep
<1>6. CASE AdvanceSimulatedAi
    BY <1>6, AdvanceStep
<1>7. CASE Tick
    BY <1>7, TickStep
<1>8. CASE Demo
    BY <1>8, DemoStep DEF Demo
<1> QED
    BY <1>1, <1>2, <1>3, <1>4, <1>5, <1>6, <1>7, <1>8 DEF Next

LEMMA NextStep ==
    ASSUME MockInv, Next
    PROVE  /\ MockInv' /\ (Reset \/ Workflow!Next)
           /\ \A c \in Cases : FitOwner(c)
           /\ \A a \in Auditors : Served(a)
<1>1. CASE Reset
    BY <1>1, ResetStep
<1>2. CASE ~Reset
    BY <1>2, StepParts DEF CasePart, TimerPart, MockInv
<1> QED
    BY <1>1, <1>2

LEMMA MockInvIsInductive == MockInv /\ [Next]_vars => MockInv'
<1> SUFFICES ASSUME MockInv, [Next]_vars PROVE MockInv'
    OBVIOUS
<1>1. CASE Next
    BY <1>1, NextStep
<1>2. CASE UNCHANGED vars
    BY <1>2 DEF vars, MockInv, TypeOK, RowsOK, SosHeld, SosFlagged
<1> QED
    BY <1>1, <1>2

LEMMA MockInvariant == Spec => []MockInv
<1>1. Init => MockInv
    BY InitInv
<1> QED
    BY <1>1, MockInvIsInductive, PTL DEF Spec

\* A row that keeps RowOK puts an open case on one list.
LEMMA OnOneList ==
    ASSUME MockInv PROVE ListedOnce
<1> SUFFICES ASSUME NEW c \in AllOpenCases
             PROVE  Cardinality({a \in Auditors : c \in AuditorCases(a)}
                    \cup {l \in {"queue", "declined", "sos"} :
                            c \in [queue |-> NeedsReviewer, declined |-> DeclinedCases,
                                   sos |-> SosCases][l]}) = 1
    BY DEF ListedOnce
<1> DEFINE row     == db.cases[c]
           holders == {a \in Auditors : c \in AuditorCases(a)}
           lists   == {l \in {"queue", "declined", "sos"} :
                            c \in [queue |-> NeedsReviewer, declined |-> DeclinedCases,
                                   sos |-> SosCases][l]}
<1>1. c \in Cases /\ row \in CaseRow /\ row.status # NULL /\ RowOK(row)
    BY DbParts DEF AllOpenCases, MockInv, RowsOK
<1>2. holders = {a \in Auditors : row.auditor = a}
    BY <1>1 DEF AuditorCases, OwnCase
<1>3. lists = {l \in {"queue", "declined", "sos"} :
                  \/ l = "queue" /\ c \in NeedsReviewer
                  \/ l = "declined" /\ c \in DeclinedCases
                  \/ l = "sos" /\ c \in SosCases}
    OBVIOUS
<1>4. /\ c \in NeedsReviewer <=> row.auditor = NULL /\ row.flag = NULL
      /\ c \in DeclinedCases <=> row.flag \in {"DECLINED", "CAP_REACHED"}
      /\ c \in SosCases <=> row.flag = "SOS"
    BY <1>1 DEF NeedsReviewer, DeclinedCases, SosCases, MockInv, SosFlagged, Named
<1>5. \E x : holders \cup lists = {x}
  <2> HIDE DEF holders, lists
  <2>1. CASE row.auditor # NULL
    <3>1. row.flag = NULL /\ row.auditor \in Auditors
        BY <1>1, <2>1 DEF RowOK, CaseRow
    <3>2. holders = {row.auditor}
        BY <1>2, <3>1
    <3>3. lists = {}
        BY <1>3, <1>4, <2>1, <3>1, NullIsNothing DEF Backend!Flags
    <3> QED
        BY <3>2, <3>3
  <2>2. CASE row.auditor = NULL
    <3>1. holders = {}
        BY <1>2, <2>2, NullIsNothing
    <3>2. row.flag \in {NULL, "DECLINED", "CAP_REACHED", "SOS"}
        BY <1>1 DEF CaseRow, Backend!Flags
    <3>3. CASE row.flag = NULL
      <4>1. lists = {"queue"}
          BY <1>3, <1>4, <2>2, <3>3, NullIsNothing DEF Backend!Flags
      <4> QED
          BY <3>1, <4>1
    <3>4. CASE row.flag \in {"DECLINED", "CAP_REACHED"}
      <4>1. lists = {"declined"}
          BY <1>3, <1>4, <3>4, NullIsNothing DEF Backend!Flags
      <4> QED
          BY <3>1, <4>1
    <3>5. CASE row.flag = "SOS"
      <4>1. lists = {"sos"}
          BY <1>3, <1>4, <3>5, NullIsNothing DEF Backend!Flags
      <4> QED
          BY <3>1, <4>1
    <3> QED
        BY <3>2, <3>3, <3>4, <3>5
  <2> QED
      BY <2>1, <2>2
<1> HIDE DEF holders, lists
<1>6. Cardinality(holders \cup lists) = 1
    BY <1>5, FS_Singleton
<1> QED
    BY <1>6 DEF holders, lists

(***************************************************************************)
(* The theorems.                                                           *)
(***************************************************************************)
\* The columns of the stand-in's document keep their types, and an open case is on
\* exactly one list: an Auditor's, the queue, or one of the Manager's two.
THEOREM SoundCases == Spec => []CasesAreSound
<1>1. MockInv => CasesAreSound
    BY OnOneList DEF CasesAreSound, MockInv
<1> QED
    BY <1>1, MockInvariant, PTL

\* An Auditor held by an SOS has an alert nobody resolved, and a case flagged SOS
\* has one that names it: no hold without somebody asked to lift it.
THEOREM SosAlerted == Spec => []SosHasAlert
<1>1. MockInv => SosHasAlert
    BY DEF MockInv, SosHeld, SosFlagged, HeldBySos, Alerted, Named, SosHasAlert
<1> QED
    BY <1>1, MockInvariant, PTL

\* Whichever handler gives a case away, the Auditor who gets it was available.
THEOREM GivenToTheAvailable == Spec => NoCaseToTheUnavailable
<1> DEFINE A == \A c \in Cases, a \in Auditors :
                   db'.cases[c].auditor = a /\ db.cases[c].auditor # a => Available(db.staff[a])
<1>1. MockInv /\ [Next]_vars => [A]_vars
    BY NextStep DEF FitOwner
<1> QED
    BY <1>1, MockInvariant, PTL DEF Spec, NoCaseToTheUnavailable

\* A cooldown is served in full, and its check-in waits for the Manager.
THEOREM ServedInFull == Spec => CooldownIsServed
<1> DEFINE A == \A a \in Auditors :
         LET s == db.staff[a] t == db'.staff[a]
         IN  /\ (s.cooldown # NULL /\ s.cooldown.left > 0)
                => Demo \/ Tick \/ (t.cooldown # NULL /\ t.cooldown.left >= s.cooldown.left)
             /\ AwaitsCheckIn(s) => \/ AwaitsCheckIn(t) \/ Demo \/ LogCheckIn(a)
                                    \/ \E i \in DOMAIN db.sosEvents : LogSosFollowUp(i)
<1>1. MockInv /\ [Next]_vars => [A]_vars
    BY NextStep DEF Served
<1> QED
    BY <1>1, MockInvariant, PTL DEF Spec, CooldownIsServed

\* The stand-in keeps the promise the backend keeps: between two resets of the demo
\* every handler moves cases between hands only as Custody says.
THEOREM KeepsCustody == Spec => FollowsCustody
<1> DEFINE A == UNCHANGED <<db.cases, handedBy>> \/ Reset \/ Workflow!Next
<1>1. MockInv /\ [Next]_vars => [A]_vars
    BY NextStep
<1>2. Init => Workflow!Init
    BY InitInv
<1> QED
    BY <1>1, <1>2, MockInvariant, PTL DEF Spec, FollowsCustody
=============================================================================
