-------------------------- MODULE CaseReviewProofs --------------------------
(***************************************************************************)
(* Theorems about the review page, for any number of requests in flight,   *)
(* sign-ins and units of footage.                                          *)
(***************************************************************************)
EXTENDS CaseReview, FiniteSetTheorems, FunctionTheorems, TLAPS

(***************************************************************************)
(* Playback.                                                               *)
(***************************************************************************)
LEMMA SampleSums ==
    ASSUME NEW s \in Sample, NEW t \in Sample
    PROVE  Plus(s, t) \in Sample /\ Nothing \in Sample /\ Units(s) \in Nat
  BY DEF Sample, Plus, Nothing, Units

LEMMA OpenedPlayer ==
    \A off \in BOOLEAN : Opened(off) \in Player /\ ~Opened(off).playing
  BY PlaybackAssumption DEF Opened, Player, Nothing, Sample

LEMMA PlayerMoves ==
    ASSUME NEW p \in Player
    PROVE  /\ Interrupted(p) \in Player /\ GoneOffline(p) \in Player
           /\ GoneOnline(p) \in Player /\ Toggled(p) \in Player /\ Reported(p) \in Player
           /\ \A to \in 0..Duration : Sought(p, to) \in Player
<1>1. 0 \in 0..Duration /\ Nothing \in Sample
    BY PlaybackAssumption, SampleSums DEF Sample, Nothing
<1>2. Interrupted(p) \in Player /\ GoneOnline(p) \in Player
    BY DEF Player, Interrupted, GoneOnline
<1>3. GoneOffline(p) \in Player
    BY DEF Player, Interrupted, GoneOffline
<1>4. Toggled(p) \in Player
    BY <1>1 DEF Player, Toggled
<1>5. Reported(p) \in Player
    BY <1>1 DEF Player, Reported
<1>6. \A to \in 0..Duration : Sought(p, to) \in Player
    BY DEF Player, Sought
<1> QED
    BY <1>2, <1>3, <1>4, <1>5, <1>6

\* A stretch of footage is measured once: what is new and what is a replay make
\* up its length.
LEMMA PlayedPlayer ==
    ASSUME NEW p \in Player, NEW to \in (p.position + 1)..Duration
    PROVE  /\ Played(p, to) \in Player
           /\ Units(Played(p, to).pending) = Units(p.pending) + to - p.position
<1> DEFINE replay == Greatest(0, Least(to, p.furthest) - p.position)
           part   == [active |-> to - p.position - replay, replay |-> replay]
<1>1. /\ p.position \in Nat /\ p.furthest \in Nat /\ to \in Nat /\ p.position < to
      /\ p.position \in 0..Duration /\ p.furthest \in 0..Duration /\ to \in 0..Duration
      /\ p.pending \in Sample /\ p.offline \in BOOLEAN
    BY PlaybackAssumption DEF Player
<1>2. replay \in Nat /\ replay <= to - p.position
    BY <1>1 DEF Greatest, Least
<1>3. part \in Sample /\ Units(part) = to - p.position
    BY <1>1, <1>2 DEF Sample, Units
<1>4. Greatest(p.furthest, to) \in 0..Duration
    BY <1>1 DEF Greatest
<1>5. /\ Plus(p.pending, part) \in Sample
      /\ Units(Plus(p.pending, part)) = Units(p.pending) + Units(part)
    BY <1>1, <1>3 DEF Plus, Sample, Units
<1>6. Played(p, to) = [p EXCEPT !.position = to, !.furthest = Greatest(p.furthest, to),
                                !.playing = to # Duration,
                                !.pending = Plus(p.pending, part)]
    BY DEF Played, Player
<1> HIDE DEF part
<1>7. Played(p, to) \in Player /\ Played(p, to).pending = Plus(p.pending, part)
    BY <1>1, <1>4, <1>5, <1>6 DEF Player
<1> QED
    BY <1>1, <1>3, <1>5, <1>7 DEF Units, Sample

\* A second of the clock that stands in for a video measures what a second of
\* the video does.
THEOREM ClockIsPlayback ==
    ASSUME NEW p \in Player, p.position < Duration
    PROVE  Ticked(p) = Played(p, p.position + 1)
<1> DEFINE q == p.position  f == p.furthest
           kind   == IF q < f THEN [active |-> 0, replay |-> 1] ELSE [active |-> 1, replay |-> 0]
           replay == Greatest(0, Least(q + 1, f) - q)
<1>1. q \in Nat /\ f \in Nat
    BY PlaybackAssumption DEF Player
<1>2. replay = IF q < f THEN 1 ELSE 0
    BY <1>1 DEF Greatest, Least
<1>3. [active |-> (q + 1) - q - replay, replay |-> replay] = kind
    BY <1>1, <1>2
<1> QED
    BY <1>3 DEF Ticked, Played, Player

(***************************************************************************)
(* Slots and requests.                                                     *)
(***************************************************************************)
Nets == [Slots -> Request \cup {NULL}]

Here(i) == net[i] # NULL /\ net[i].here

\* What Send does: nothing in flight is disturbed, everything sent is in flight,
\* and nothing else is new.
LEMMA Sends ==
    ASSUME NEW n \in Nets, NEW S \in SUBSET Request, Send(n, S)
    PROVE  /\ net' \in Nets
           /\ \A i \in Slots : n[i] # NULL => net'[i] = n[i]
           /\ \A i \in Slots : net'[i] = n[i] \/ net'[i] \in S
           /\ \A r \in S : \E i \in Slots : n[i] = NULL /\ net'[i] = r
           /\ \A i, j \in Slots : net'[i] # n[i] /\ net'[j] # n[j] /\ net'[i] = net'[j] => i = j
<1>1. PICK slot \in [S -> Free(n)] :
         /\ \A r, q \in S : slot[r] = slot[q] => r = q
         /\ net' = [i \in Slots |-> IF \E r \in S : slot[r] = i
                                    THEN CHOOSE r \in S : slot[r] = i ELSE n[i]]
    BY DEF Send
<1>2. \A i \in Slots : net'[i] = IF \E r \in S : slot[r] = i
                                 THEN CHOOSE r \in S : slot[r] = i ELSE n[i]
    BY <1>1
<1>3. \A i \in Slots : net'[i] = n[i] \/ net'[i] \in S
    BY <1>2
<1>4. net' \in Nets
    BY <1>1, <1>3 DEF Nets
<1>5. \A i \in Slots : n[i] # NULL => net'[i] = n[i]
    BY <1>1, <1>2 DEF Free
<1>6. ASSUME NEW r \in S PROVE \E i \in Slots : n[i] = NULL /\ net'[i] = r
    <2>1. slot[r] \in Slots /\ n[slot[r]] = NULL
        BY <1>1 DEF Free
    <2>2. net'[slot[r]] = CHOOSE q \in S : slot[q] = slot[r]
        BY <1>2, <2>1
    <2>3. (CHOOSE q \in S : slot[q] = slot[r]) = r
        BY <1>1
    <2> QED
        BY <2>1, <2>2, <2>3
<1>7. \A i, j \in Slots : net'[i] # n[i] /\ net'[j] # n[j] /\ net'[i] = net'[j] => i = j
    <2>1. \A i \in Slots : net'[i] # n[i] => slot[net'[i]] = i
        BY <1>2
    <2> QED
        BY <2>1
<1> QED
    BY <1>3, <1>4, <1>5, <1>6, <1>7

LEMMA FreedNet ==
    ASSUME TypeOK, NEW i \in Slots
    PROVE  /\ Freed(i) \in Nets /\ Freed(i)[i] = NULL
           /\ \A j \in Slots \ {i} : Freed(i)[j] = net[j]
  BY DEF TypeOK, Freed, Nets

LEMMA AskedRequest ==
    ASSUME TypeOK, NEW op \in Ops, NEW s \in Sample
    PROVE  /\ Asked(op, s) \in Request
           /\ Asked(op, s).op = op /\ Asked(op, s).here /\ Asked(op, s).at = "sent"
           /\ \A t \in 0..MaxTokens :
                 LET r == [Asked(op, s) EXCEPT !.token = t]
                 IN  r \in Request /\ r.op = op /\ r.here /\ r.at = "sent"
<1>1. MaxTokens \in Nat /\ held \in 0..MaxTokens
    BY ReviewAssumption DEF TypeOK
<1>2. 0 \in 0..MaxTokens
    BY <1>1
<1> QED
    BY <1>1, <1>2 DEF Asked, Request, Answers

LEMMA ReportRequest ==
    ASSUME TypeOK
    PROVE  /\ Report \in SUBSET Request
           /\ \A r \in Report : r.op = "exposure" /\ r.here /\ r.at = "sent"
<1>1. Plus(unsent, player.pending) \in Sample
    BY SampleSums DEF TypeOK, Player
<1> QED
    BY <1>1, AskedRequest DEF Report, Ops

LEMMA OrphanedNet ==
    ASSUME NEW n \in Nets
    PROVE  /\ Orphaned(n) \in Nets
           /\ \A i \in Slots : Orphaned(n)[i] # NULL => ~Orphaned(n)[i].here
           /\ \A i \in Slots : Orphaned(n)[i] # NULL =>
                 n[i] # NULL /\ Orphaned(n)[i] = [n[i] EXCEPT !.here = FALSE]
<1>1. \A i \in Slots : Orphaned(n)[i] # NULL =>
                          n[i] # NULL /\ Orphaned(n)[i] = [n[i] EXCEPT !.here = FALSE]
    BY DEF Orphaned
<1>2. \A i \in Slots : n[i] # NULL => n[i] \in Request
    BY DEF Nets
<1>3. \A r \in Request : [r EXCEPT !.here = FALSE] \in Request
                          /\ ~[r EXCEPT !.here = FALSE].here
    BY DEF Request
<1>4. \A i \in Slots : Orphaned(n)[i] \in Request \cup {NULL}
    BY <1>1, <1>2, <1>3
<1>5. Orphaned(n) \in Nets
    BY <1>4 DEF Orphaned, Nets
<1> QED
    BY <1>1, <1>2, <1>3, <1>5

LEMMA ClosingNet ==
    ASSUME TypeOK, NEW n \in {net} \cup Closing
    PROVE  /\ n \in Nets
           /\ \A i \in Slots : n[i] = net[i] \/ (n[i] # NULL /\ n[i].op = "exposure")
<1> USE DEF Nets
<1>0. net \in Nets
    BY DEF TypeOK
<1>1. CASE n = net
    BY <1>0, <1>1
<1>2. CASE Report # {} /\ n \in Closing
    <2>1. PICK i \in Free(net) : n = [net EXCEPT ![i] = CHOOSE r \in Report : TRUE]
        BY <1>2 DEF Closing
    <2>2. (CHOOSE r \in Report : TRUE) \in Report
        BY <1>2
    <2>3. i \in Slots /\ (CHOOSE r \in Report : TRUE) \in Request
          /\ (CHOOSE r \in Report : TRUE).op = "exposure"
        BY <2>1, <2>2, ReportRequest DEF Free
    <2> DEFINE r == CHOOSE q \in Report : TRUE
    <2> HIDE DEF r
    <2>4. n = [net EXCEPT ![i] = r] /\ i \in Slots /\ r \in Request /\ r.op = "exposure"
        BY <2>1, <2>3 DEF r
    <2>5. r # NULL
        BY <2>4, NullAssumption
    <2> QED
        BY <1>0, <2>4, <2>5
<1>3. n = net \/ (Report # {} /\ n \in Closing)
    BY DEF Closing
<1> QED
    BY <1>1, <1>2, <1>3

\* Moving to another step: nothing plays but a workspace that was playing and
\* stays, and what is sent besides S is exposure or the case given back.
LEMMA Lands ==
    ASSUME TypeOK, NEW n \in Nets, NEW S \in SUBSET Request, NEW to \in PageSteps,
           Land(n, to, S)
    PROVE  /\ step' \in PageSteps /\ step' \in {to, "daily-cap"}
           /\ step' # to => to = "workspace"
           /\ player' \in Player /\ unsent' \in Sample
           /\ player'.playing => player' = player /\ step = "workspace" /\ step' = "workspace"
           /\ net' \in Nets
           /\ \A i \in Slots : n[i] # NULL => net'[i] = n[i]
           /\ \A i \in Slots : \/ net'[i] = n[i] \/ net'[i] \in S
                               \/ net'[i].op \in {"exposure", "release"} /\ net'[i].at = "sent"
           /\ \A r \in S : \E i \in Slots : net'[i] = r
<1>1. PICK there \in IF to = "workspace" THEN {to, "daily-cap"} ELSE {to} :
        LET report == IF there = "workspace" THEN {} ELSE Report
        IN  /\ step' = there
            /\ player' \in IF there # "workspace" THEN {Opened(FALSE)}
                           ELSE IF step = "workspace" THEN {player}
                           ELSE {Opened(off) : off \in BOOLEAN}
            /\ Send(n, S \cup report \cup IF there # to THEN {Ask("release")} ELSE {})
            /\ unsent' = IF report = {} THEN unsent ELSE Nothing
    BY DEF Land
<1> DEFINE report == IF there = "workspace" THEN {} ELSE Report
           extra  == report \cup IF there # to THEN {Ask("release")} ELSE {}
<1>2. /\ step' = there
      /\ player' \in IF there # "workspace" THEN {Opened(FALSE)}
                     ELSE IF step = "workspace" THEN {player}
                     ELSE {Opened(off) : off \in BOOLEAN}
      /\ Send(n, S \cup extra)
      /\ unsent' = IF report = {} THEN unsent ELSE Nothing
    <2>1. S \cup report \cup (IF there # to THEN {Ask("release")} ELSE {}) = S \cup extra
        OBVIOUS
    <2> QED
        BY <1>1, <2>1
<1>3. there \in {to, "daily-cap"} /\ (there # to => to = "workspace")
    BY <1>1
<1>4. "daily-cap" \in PageSteps
    BY DEF PageSteps
<1>5. Nothing \in Sample
    BY SampleSums DEF Sample, Nothing
<1>6. unsent' \in Sample
    BY <1>2, <1>5 DEF TypeOK
<1>7. player' \in Player /\ (player'.playing => player' = player /\ step = "workspace" /\ there = "workspace")
    BY <1>2, OpenedPlayer DEF TypeOK
<1>8. /\ Ask("release") \in Request /\ Ask("release").op = "release"
      /\ Ask("release").at = "sent"
    BY <1>5, AskedRequest DEF Ask, Ops
<1>9. extra \in SUBSET Request /\ \A r \in extra : r.op \in {"exposure", "release"} /\ r.at = "sent"
    BY <1>8, ReportRequest
<1> HIDE DEF extra
<1>10. S \cup extra \in SUBSET Request
    BY <1>9
<1>11. /\ net' \in Nets
       /\ \A i \in Slots : n[i] # NULL => net'[i] = n[i]
       /\ \A i \in Slots : net'[i] = n[i] \/ net'[i] \in S \cup extra
       /\ \A r \in S \cup extra : \E i \in Slots : net'[i] = r
    BY <1>2, <1>10, Sends
<1>12. \A i \in Slots : \/ net'[i] = n[i] \/ net'[i] \in S
                        \/ net'[i].op \in {"exposure", "release"} /\ net'[i].at = "sent"
    BY <1>9, <1>11
<1>13. \A r \in S : \E i \in Slots : net'[i] = r
    BY <1>11
<1> QED
    BY <1>2, <1>3, <1>4, <1>6, <1>7, <1>11, <1>12, <1>13

LEMMA Served ==
    ASSUME TypeOK, NEW i \in Slots, NEW a \in Answers, net[i] # NULL, Settled(i, a),
           a = "ok" /\ net[i].op = "reauth" => Issued <= MaxTokens
    PROVE  /\ net' \in Nets
           /\ \A j \in Slots \ {i} : net'[j] = net[j]
           /\ net'[i] # NULL /\ net'[i].op = net[i].op /\ net'[i].here = net[i].here
           /\ net'[i].at = a /\ net'[i].sample = net[i].sample
           /\ a = "ok" /\ net[i].op = "reauth" => net'[i].token = Issued
<1>1. net \in Nets /\ net[i] \in Request /\ MaxTokens \in Nat
    BY ReviewAssumption DEF TypeOK, Nets
<1>2. Issued \in Nat
    BY <1>1 DEF Issued, TypeOK, Server
<1> DEFINE token    == IF a = "ok" /\ net[i].op = "reauth" THEN Issued ELSE 0
           complete == (a = "ok" /\ net[i].op = "detail" /\ server.complete)
           new      == [net[i] EXCEPT !.at = a, !.token = token, !.complete = complete]
<1>3. token \in 0..MaxTokens
    BY <1>1, <1>2
<1>4. complete \in BOOLEAN
    BY DEF TypeOK, Server
<1>5. net' = [net EXCEPT ![i] = new]
    BY <1>1 DEF Settled, Nets
<1> HIDE DEF complete
<1>6. /\ new \in Request /\ new.op = net[i].op /\ new.here = net[i].here /\ new.at = a
      /\ new.token = token /\ new.sample = net[i].sample
    <2> HIDE DEF token
    <2> QED
        BY <1>1, <1>3, <1>4 DEF Request
<1> HIDE DEF new
<1>7. new # NULL
    BY <1>6, NullAssumption
<1>8. net' \in Nets /\ net'[i] = new /\ \A j \in Slots \ {i} : net'[j] = net[j]
    BY <1>1, <1>5, <1>6 DEF Nets
<1> QED
    BY <1>6, <1>7, <1>8

LEMMA EffectServer ==
    ASSUME TypeOK, NEW op \in Ops, Accepts(op)
    PROVE  Effect(op) \in Server
<1>1. MaxTokens \in Nat /\ server \in Server /\ server.issued \in Nat
    BY ReviewAssumption DEF TypeOK, Server
<1>2. CASE op = "resolve"
    BY <1>1, <1>2 DEF Effect, Server
<1>3. CASE op \in {"decline", "release", "sos"}
    BY <1>1, <1>3 DEF Effect, Server
<1>4. CASE op = "reauth"
    <2>1. Effect(op) = [server EXCEPT !.issued = Issued, !.live = server.live \cup {Issued}]
        BY <1>1, <1>4 DEF Effect, Server
    <2>2. Issued \in 1..MaxTokens /\ Issued \in 0..MaxTokens
        BY <1>1, <1>4 DEF Accepts, Issued
    <2> QED
        BY <1>1, <2>1, <2>2 DEF Server
<1>5. CASE op \in {"detail", "acknowledge", "exposure"}
    BY <1>1, <1>5 DEF Effect
<1> QED
    BY <1>2, <1>3, <1>4, <1>5 DEF Ops

(***************************************************************************)
(* Type correctness.                                                       *)
(***************************************************************************)
LEMMA TypeInit == Init => TypeOK
<1> SUFFICES ASSUME Init PROVE TypeOK
    OBVIOUS
<1>1. /\ step \in Steps /\ dialogs \subseteq {"decline", "error", "session"}
      /\ busy \subseteq Waits /\ resume \in DraftSteps \cup {NULL}
      /\ sos \in [state : {"sending", "sent", "failed"}, retry : BOOLEAN]
      /\ draft \in DraftSteps \cup {NULL}
      /\ stored \in 0..MaxTokens /\ held \in 0..MaxTokens /\ owed \in Nat
    BY ReviewAssumption DEF Init, Steps, NoSos
<1>2. player \in Player /\ unsent \in Sample
    BY OpenedPlayer, SampleSums DEF Init, Sample, Nothing
<1>3. net \in [Slots -> Request \cup {NULL}]
    BY DEF Init
<1>4. server \in Server
    BY ReviewAssumption DEF Init, Server
<1> QED
    BY <1>1, <1>2, <1>3, <1>4 DEF TypeOK

\* A page that is closed keeps nothing.
LEMMA ClosedTypes ==
    ASSUME TypeOK, NEW n \in Nets, Closed, net' = Orphaned(n)
    PROVE  /\ dialogs' \subseteq {"decline", "error", "session"} /\ busy' \subseteq Waits
           /\ resume' \in DraftSteps \cup {NULL}
           /\ sos' \in [state : {"sending", "sent", "failed"}, retry : BOOLEAN]
           /\ player' \in Player /\ unsent' \in Sample /\ owed' \in Nat
           /\ held' \in 0..MaxTokens /\ net' \in Nets /\ ~player'.playing
<1>1. 0 \in 0..MaxTokens
    BY ReviewAssumption
<1>2. Nothing \in Sample
    BY DEF Sample, Nothing
<1> QED
    BY <1>1, <1>2, OpenedPlayer, OrphanedNet DEF Closed, NoSos

LEMMA SessionTypes ==
    ASSUME TypeOK, SignIn \/ LoginRedirects \/ SignOut \/ DashboardSessionEnds \/ Leave
                   \/ OpenCase \/ Rerender
    PROVE  TypeOK'
<1> USE DEF Nets
<1>0. MaxTokens \in Nat /\ 0 \in 0..MaxTokens /\ "dashboard" \in Steps /\ "login" \in Steps
      /\ "loading" \in Steps /\ net \in Nets
    BY ReviewAssumption DEF Steps, PageSteps, TypeOK
<1>1. CASE SignIn
    <2>1. Issued \in 1..MaxTokens
        BY <1>0, <1>1 DEF SignIn, Issued, TypeOK, Server
    <2>2. Accepts("reauth") /\ server' = Effect("reauth")
        BY <1>1 DEF SignIn, Accepts, Effect
    <2>3. server' \in Server
        BY <2>2, EffectServer DEF Ops
    <2> QED
        BY <1>0, <1>1, <2>1, <2>3 DEF SignIn, TypeOK
<1>2. CASE LoginRedirects
    BY <1>0, <1>2 DEF LoginRedirects, TypeOK
<1>3. ASSUME NEW n \in Nets, SignOutFrom(n), UNCHANGED server PROVE TypeOK'
    <2>1. Closed /\ net' = Orphaned(n)
        BY <1>3 DEF SignOutFrom
    <2>2. draft' = NULL /\ stored' = 0 /\ step' = "login" /\ server' = server
        BY <1>3 DEF SignOutFrom
    <2> QED
        BY <1>0, <2>1, <2>2, ClosedTypes DEF TypeOK
<1>4. CASE SignOut
    BY <1>3, <1>4, ClosingNet DEF SignOut
<1>5. CASE DashboardSessionEnds
    BY <1>0, <1>3, <1>5 DEF DashboardSessionEnds
<1>6. CASE Leave
    <2>1. PICK n \in Closing : net' = Orphaned(n)
        BY <1>6 DEF Leave
    <2>2. n \in Nets
        BY <2>1, ClosingNet
    <2>3. Closed /\ step' = "dashboard" /\ UNCHANGED <<draft, stored, server>>
        BY <1>6 DEF Leave
    <2> QED
        BY <1>0, <2>1, <2>2, <2>3, ClosedTypes DEF TypeOK
<1>7. CASE OpenCase
    <2>1. Nothing \in Sample /\ stored \in 0..MaxTokens
        BY DEF Sample, Nothing, TypeOK
    <2>2. [Ask("detail") EXCEPT !.token = stored] \in Request
        BY <2>1, AskedRequest DEF Ask, Ops
    <2>3. net' \in Nets
        BY <1>0, <1>7, <2>2, Sends DEF OpenCase
    <2> QED
        BY <1>0, <1>7, <2>3 DEF OpenCase, TypeOK
<1>8. CASE Rerender
    BY <1>8 DEF Rerender, TypeOK
<1> QED
    BY <1>1, <1>2, <1>4, <1>5, <1>6, <1>7, <1>8

\* A move that lands keeps the types of all it writes.
LEMMA LandTypes ==
    ASSUME TypeOK, NEW n \in Nets, NEW S \in SUBSET Request, NEW to \in PageSteps,
           Land(n, to, S)
    PROVE  /\ step' \in Steps /\ player' \in Player /\ unsent' \in Sample
           /\ net' \in [Slots -> Request \cup {NULL}]
  BY Lands DEF Steps, Nets

LEMMA WalkTypes ==
    ASSUME TypeOK, NEW from, NEW to \in PageSteps, Walk(from, to)
    PROVE  TypeOK'
<1>1. net \in Nets
    BY DEF TypeOK, Nets
<1>2. Land(net, to, {}) /\ Keep(to)
      /\ UNCHANGED <<dialogs, busy, resume, sos, stored, held, server, owed>>
    BY DEF Walk
<1>3. draft' \in DraftSteps \cup {NULL}
    BY <1>2 DEF Keep, TypeOK
<1>4. /\ step' \in Steps /\ player' \in Player /\ unsent' \in Sample
      /\ net' \in [Slots -> Request \cup {NULL}]
    BY <1>1, <1>2, LandTypes
<1> QED
    BY <1>2, <1>3, <1>4 DEF TypeOK

LEMMA AwaitTypes ==
    ASSUME TypeOK, NEW wait \in Waits, NEW op \in Ops, Await(wait, op)
    PROVE  busy' \subseteq Waits /\ net' \in [Slots -> Request \cup {NULL}]
<1>1. {Ask(op)} \in SUBSET Request
    BY AskedRequest DEF Ask, Sample, Nothing
<1>2. net \in Nets
    BY DEF TypeOK, Nets
<1> QED
    BY <1>1, <1>2, Sends DEF Await, TypeOK, Nets

LEMMA PageTypes ==
    ASSUME TypeOK, \/ ContinueToReview \/ BackToSummary \/ RateSeverity \/ BackToReview
                   \/ TalkToManager \/ Proceed \/ OpenDecline \/ CancelDecline
                   \/ SubmitDecline \/ Resolve \/ PressSos \/ AnalysisFails \/ TryAgain
                   \/ SessionProbe \/ SubmitPassword
    PROVE  TypeOK'
<1>0. {"summary", "workspace", "severity", "check-in", "sos"} \subseteq PageSteps
      /\ {"acknowledge", "decline", "resolve", "reauth", "sos"} \subseteq Ops
      /\ {"proceed", "decline", "resolve", "reauth"} \subseteq Waits
      /\ net \in Nets /\ Nothing \in Sample
    BY DEF PageSteps, ReviewSteps, DraftSteps, Ops, Waits, TypeOK, Nets, Sample, Nothing
<1>1. CASE ContinueToReview \/ BackToSummary \/ RateSeverity \/ BackToReview \/ TalkToManager
    BY <1>0, <1>1, WalkTypes
       DEF ContinueToReview, BackToSummary, RateSeverity, BackToReview, TalkToManager
<1>2. CASE Proceed
    BY <1>0, <1>2, AwaitTypes DEF Proceed, TypeOK
<1>3. CASE SubmitDecline
    BY <1>0, <1>3, AwaitTypes DEF SubmitDecline, TypeOK
<1>4. CASE Resolve
    BY <1>0, <1>4, AwaitTypes DEF Resolve, TypeOK
<1>5. CASE SubmitPassword
    BY <1>0, <1>5, AwaitTypes DEF SubmitPassword, TypeOK
<1>6. CASE OpenDecline
    BY <1>6 DEF OpenDecline, TypeOK
<1>7. CASE CancelDecline
    BY <1>7 DEF CancelDecline, TypeOK
<1>8. CASE PressSos \/ AnalysisFails
    <2>1. Land(net, "sos", {Ask("sos")})
          /\ sos' = [sos EXCEPT !.state = "sending"]
          /\ UNCHANGED <<dialogs, busy, resume, draft, stored, held, server, owed>>
        BY <1>8 DEF PressSos, AnalysisFails, Pause
    <2>2. {Ask("sos")} \in SUBSET Request
        BY <1>0, AskedRequest DEF Ask
    <2>3. /\ step' \in Steps /\ player' \in Player /\ unsent' \in Sample
          /\ net' \in [Slots -> Request \cup {NULL}]
        BY <1>0, <2>1, <2>2, LandTypes
    <2> QED
        BY <2>1, <2>3 DEF TypeOK
<1>9. CASE TryAgain
    <2>1. {Ask("sos")} \in SUBSET Request
        BY <1>0, AskedRequest DEF Ask
    <2>2. net' \in [Slots -> Request \cup {NULL}]
        BY <1>0, <1>9, <2>1, Sends DEF TryAgain, Nets
    <2> QED
        BY <1>9, <2>2 DEF TryAgain, TypeOK
<1>10. CASE SessionProbe
    BY <1>10, PlayerMoves DEF SessionProbe, TypeOK
<1> QED
    BY <1>1, <1>2, <1>3, <1>4, <1>5, <1>6, <1>7, <1>8, <1>9, <1>10

LEMMA WorkspaceTypes ==
    ASSUME TypeOK, \/ TogglePlayback \/ Watch \/ Seek \/ ConnectionDrops
                   \/ ConnectionReturns \/ FlushTimer \/ LimitReached
    PROVE  TypeOK'
<1>0. player \in Player /\ net \in Nets /\ Nothing \in Sample
    BY DEF TypeOK, Nets, Sample, Nothing
<1>1. ASSUME NEW p \in Player, Plays(p), owed' \in Nat PROVE TypeOK'
    BY <1>1 DEF Plays, TypeOK
<1>2. CASE TogglePlayback
    BY <1>0, <1>1, <1>2, PlayerMoves DEF TogglePlayback, TypeOK
<1>3. CASE Watch
    <2>1. PICK to \in (player.position + 1)..Duration :
             Plays(Played(player, to)) /\ owed' = owed + to - player.position
        BY <1>3 DEF Watch
    <2>2. owed' \in Nat
        BY <1>0, <2>1, PlaybackAssumption DEF TypeOK, Player
    <2> QED
        BY <1>0, <1>1, <2>1, <2>2, PlayedPlayer
<1>4. CASE Seek
    <2>1. PICK to \in 0..Duration : Plays(Sought(player, to)) /\ owed' = owed
        BY <1>4 DEF Seek
    <2> QED
        BY <1>0, <1>1, <2>1, PlayerMoves DEF TypeOK
<1>5. CASE ConnectionDrops \/ ConnectionReturns
    BY <1>0, <1>1, <1>5, PlayerMoves DEF ConnectionDrops, ConnectionReturns, TypeOK
<1>6. CASE FlushTimer
    <2>1. net' \in [Slots -> Request \cup {NULL}]
        BY <1>0, <1>6, ReportRequest, Sends DEF FlushTimer, Nets
    <2>2. player' \in Player /\ unsent' \in Sample
        BY <1>0, <1>6, PlayerMoves DEF FlushTimer
    <2> QED
        BY <1>6, <2>1, <2>2 DEF FlushTimer, TypeOK
<1>7. CASE LimitReached
    <2>1. Land(net, "workspace", {}) /\ "workspace" \in PageSteps
        BY <1>7 DEF LimitReached, PageSteps, ReviewSteps, DraftSteps
    <2>2. /\ step' \in Steps /\ player' \in Player /\ unsent' \in Sample
          /\ net' \in [Slots -> Request \cup {NULL}]
        BY <1>0, <2>1, LandTypes
    <2> QED
        BY <1>7, <2>2 DEF LimitReached, TypeOK
<1> QED
    BY <1>2, <1>3, <1>4, <1>5, <1>6, <1>7

LEMMA BackendTypes ==
    ASSUME TypeOK, NEW i \in Slots, Serve(i) \/ Fails(i) \/ Unauthorised(i)
    PROVE  TypeOK'
<1>0. net[i] # NULL /\ net[i] \in Request /\ net[i].op \in Ops /\ net[i].sample \in Sample
    BY DEF TypeOK, Serve, Fails, Unauthorised, Request
<1>1. CASE Serve(i)
    <2>1. PICK a \in {"ok", "failed"} : Settled(i, a)
        BY <1>1 DEF Serve
    <2>2. Accepts(net[i].op) /\ server' = Effect(net[i].op) /\ UNCHANGED Page
          /\ owed' = IF net[i].here THEN Greatest(0, owed - Units(net[i].sample)) ELSE owed
        BY <1>1 DEF Serve
    <2>3. net[i].op = "reauth" => Issued <= MaxTokens
        BY <2>2 DEF Accepts
    <2>4. net' \in Nets
        BY <1>0, <2>1, <2>3, Served DEF Answers
    <2>5. server' \in Server
        BY <1>0, <2>2, EffectServer
    <2>6. Units(net[i].sample) \in Nat
        BY <1>0, SampleSums
    <2>7. owed' \in Nat
        BY <2>2, <2>6 DEF Greatest, TypeOK
    <2> QED
        BY <2>2, <2>4, <2>5, <2>7 DEF TypeOK, Page, Nets
<1>2. CASE Fails(i)
    <2>1. net' \in Nets
        BY <1>0, <1>2, Served DEF Fails, Answers
    <2> QED
        BY <1>2, <2>1 DEF Fails, TypeOK, Page, Nets
<1>3. CASE Unauthorised(i)
    <2>1. net' \in Nets
        BY <1>0, <1>3, Served DEF Unauthorised, Answers
    <2> QED
        BY <1>3, <2>1 DEF Unauthorised, TypeOK, Page, Nets
<1> QED
    BY <1>1, <1>2, <1>3

LEMMA FirstStepIsReview == TypeOK => FirstStep \in DraftSteps
  BY DEF TypeOK, FirstStep, DraftSteps

LEMMA AnswerTypes ==
    ASSUME TypeOK, NEW i \in Slots, Handled(i)
    PROVE  TypeOK'
<1>0. /\ Freed(i) \in Nets /\ (net[i] # NULL => net[i] \in Request)
      /\ MaxTokens \in Nat /\ DraftSteps \subseteq PageSteps
      /\ PageSteps \subseteq Steps
    BY FreedNet, ReviewAssumption DEF TypeOK, PageSteps, ReviewSteps, Steps, Nets
<1>1. CASE Opens(i) \/ DoesNotOpen(i)
    <2>1. {"resolved", "gate", "load-failed"} \subseteq Steps /\ net' \in Nets
        BY <1>0, <1>1 DEF Opens, DoesNotOpen, Steps, PageSteps
    <2> QED
        BY <1>1, <2>1 DEF Opens, DoesNotOpen, TypeOK, Nets
<1>2. CASE OpensWithoutSession(i)
    <2>1. /\ Closed /\ net' = Orphaned(Freed(i)) /\ stored' = 0 /\ draft' = NULL
          /\ step' = "login" /\ server' = server
        BY <1>2 DEF OpensWithoutSession, SignOutFrom
    <2>2. 0 \in 0..MaxTokens
        BY <1>0
    <2> QED
        BY <1>0, <2>1, <2>2, ClosedTypes DEF TypeOK, Nets, Steps
<1>3. CASE Proceeds(i)
    <2>1. FirstStep \in PageSteps /\ Land(Freed(i), FirstStep, {}) /\ Keep(FirstStep)
        BY <1>0, <1>3, FirstStepIsReview DEF Proceeds
    <2>2. /\ step' \in Steps /\ player' \in Player /\ unsent' \in Sample
          /\ net' \in [Slots -> Request \cup {NULL}]
        BY <1>0, <2>1, LandTypes
    <2>3. draft' \in DraftSteps \cup {NULL}
        BY <2>1 DEF Keep, TypeOK
    <2> QED
        BY <1>3, <2>2, <2>3 DEF Proceeds, TypeOK
<1>4. ASSUME NEW op, NEW to \in PageSteps, Ends(i, op, to) PROVE TypeOK'
    <2>1. Land(Freed(i), to, {})
        BY <1>4 DEF Ends
    <2>2. /\ step' \in Steps /\ player' \in Player /\ unsent' \in Sample
          /\ net' \in [Slots -> Request \cup {NULL}]
        BY <1>0, <2>1, LandTypes
    <2> QED
        BY <1>4, <2>2 DEF Ends, TypeOK
<1>5. CASE Declines(i) \/ Submits(i)
    BY <1>4, <1>5 DEF Declines, Submits, PageSteps
<1>6. CASE SosSent(i) \/ Noted(i)
    BY <1>0, <1>6 DEF SosSent, Noted, TypeOK, Nets, Page
<1>7. CASE Failed(i)
    <2>1. net[i] \in Request /\ net[i].sample \in Sample
        BY <1>0, <1>7 DEF Failed, Answered, Request
    <2>2. Kept(i) \in Sample
        BY <2>1, SampleSums DEF Kept, TypeOK
    <2>3. Unsent(i) \in [state : {"sending", "sent", "failed"}, retry : BOOLEAN]
        BY DEF Unsent, TypeOK
    <2>4. player' \in Player
        BY <1>7, PlayerMoves DEF Failed, TypeOK
    <2>5. dialogs' \subseteq {"decline", "error", "session"} /\ busy' \subseteq Waits
        BY <1>7 DEF Failed, TypeOK
    <2> QED
        BY <1>0, <1>7, <2>2, <2>3, <2>4, <2>5 DEF Failed, TypeOK, Nets
<1>8. CASE Outlives(i)
    <2>1. net[i].token \in 0..MaxTokens
        BY <1>0, <1>8 DEF Outlives, Request
    <2> QED
        BY <1>0, <1>8, <2>1 DEF Outlives, TypeOK, Nets
<1>9. CASE SignedInAgain(i)
    <2> DEFINE kept == (IF unsent = Nothing THEN {} ELSE {Asked("exposure", unsent)})
                          \cup IF sos.retry THEN {Ask("sos")} ELSE {}
    <2>1. net[i].token \in 0..MaxTokens
        BY <1>0, <1>9 DEF SignedInAgain, Answered, Request
    <2>2. held' \in 0..MaxTokens /\ stored' \in 0..MaxTokens
        BY <1>9, <2>1 DEF SignedInAgain, TypeOK
    <2>3. unsent \in Sample /\ Nothing \in Sample
        BY DEF TypeOK, Sample, Nothing
    <2>4. {[r EXCEPT !.token = held'] : r \in kept} \in SUBSET Request
        BY <2>2, <2>3, AskedRequest DEF Ask, Ops
    <2>5. Send(Freed(i), {[r EXCEPT !.token = held'] : r \in kept})
        BY <1>9 DEF SignedInAgain
    <2>6. net' \in Nets
        BY <1>0, <2>4, <2>5, Sends
    <2>7. sos' \in [state : {"sending", "sent", "failed"}, retry : BOOLEAN]
        BY <1>9 DEF SignedInAgain, NoSos, TypeOK
    <2> QED
        BY <1>9, <2>2, <2>3, <2>6, <2>7 DEF SignedInAgain, TypeOK, Nets
<1> QED
    BY <1>1, <1>2, <1>3, <1>5, <1>6, <1>7, <1>8, <1>9 DEF Handled

LEMMA TypeStep == TypeOK /\ [Next]_vars => TypeOK'
<1> SUFFICES ASSUME TypeOK, [Next]_vars PROVE TypeOK'
    OBVIOUS
<1>1. CASE SessionsLost \/ ManagerReassigns
    <2>1. server' \in Server
        BY <1>1 DEF SessionsLost, ManagerReassigns, TypeOK, Server
    <2> QED
        BY <1>1, <2>1 DEF SessionsLost, ManagerReassigns, TypeOK, Page
<1>2. CASE UNCHANGED vars
    BY <1>2 DEF vars, TypeOK
<1> QED
    BY <1>1, <1>2, SessionTypes, PageTypes, WorkspaceTypes, BackendTypes, AnswerTypes
       DEF Next, Arrives

\* Every variable of the tab keeps its type, whatever the order of the answers.
THEOREM TypeCorrect == Spec => []TypeOK
  BY TypeInit, TypeStep, PTL DEF Spec

(***************************************************************************)
(* Safety. What the answers find is settled by what can be in flight: a    *)
(* page that loads waits for nothing else, a page that was left has no     *)
(* request of its own, and a token that was given is a token.              *)
(***************************************************************************)
Alone ==
    /\ \A i \in Slots : Here(i) => Mounted
    /\ \A i \in Slots : Here(i) => (net[i].op = "detail" <=> step = "loading")
    /\ \A i, j \in Slots : Here(i) /\ Here(j) /\ step = "loading" => i = j

Granted == \A i \in Slots :
    net[i] # NULL /\ net[i].op = "reauth" /\ net[i].at = "ok" => net[i].token # 0

HasSession == Mounted => stored # 0

Safe == /\ TypeOK /\ Alone /\ Granted /\ HasSession
        /\ NothingLeftToResume /\ SosIsNotForgotten /\ PlaysInSight

LEMMA SafeInit == Init => Safe
<1> SUFFICES ASSUME Init PROVE Safe
    OBVIOUS
<1>1. TypeOK
    BY TypeInit
<1>2. Alone /\ Granted /\ HasSession
    BY DEF Init, Alone, Granted, HasSession, Here, Mounted, PageSteps, ReviewSteps, DraftSteps
<1>3. NothingLeftToResume /\ SosIsNotForgotten /\ PlaysInSight
    BY OpenedPlayer DEF Init, NothingLeftToResume, SosIsNotForgotten, PlaysInSight
<1> QED
    BY <1>1, <1>2, <1>3 DEF Safe

\* The ways in which a step can write the slots.
\* A request is let go of, and the page sends others.
LEMMA SendsKeep ==
    ASSUME Safe, NEW n \in Nets, \A j \in Slots : n[j] = net[j] \/ n[j] = NULL,
           Mounted, Mounted', step # "loading", step' # "loading",
           \A j \in Slots : \/ net'[j] = n[j]
                            \/ net'[j].op # "detail" /\ net'[j].at = "sent"
    PROVE  Alone' /\ Granted'
  BY DEF Safe, Alone, Granted, Here

\* Nothing is sent.
LEMMA QuietKeeps ==
    ASSUME Safe, \A j \in Slots : net'[j] = net[j] \/ net'[j] = NULL, step' = step
    PROVE  Alone' /\ Granted'
  BY DEF Safe, Alone, Granted, Here, Mounted

\* The page closes.
LEMMA ClosingKeeps ==
    ASSUME Safe, NEW n \in Nets, net' = Orphaned(n), ~Mounted',
           \A j \in Slots : \/ n[j] = net[j] \/ n[j] = NULL \/ n[j].op = "exposure"
    PROVE  Alone' /\ Granted'
<1>1. \A j \in Slots : net'[j] # NULL =>
         ~net'[j].here /\ n[j] # NULL /\ net'[j] = [n[j] EXCEPT !.here = FALSE]
    BY OrphanedNet
<1>2. \A j \in Slots : n[j] # NULL =>
         LET r == [n[j] EXCEPT !.here = FALSE]
         IN  r.op = n[j].op /\ r.at = n[j].at /\ r.token = n[j].token
    BY DEF Nets, Request
<1>3. Alone'
    BY <1>1 DEF Alone, Here
<1>4. ASSUME NEW j \in Slots, net'[j] # NULL, net'[j].op = "reauth", net'[j].at = "ok"
      PROVE  net'[j].token # 0
    <2>1. n[j] # NULL /\ n[j].op = "reauth" /\ n[j].at = "ok" /\ n[j].token = net'[j].token
        BY <1>1, <1>2, <1>4
    <2> QED
        BY <2>1 DEF Safe, Granted
<1> QED
    BY <1>3, <1>4 DEF Granted

\* The backend answers.
LEMMA ServedKeeps ==
    ASSUME Safe, NEW i \in Slots, NEW a \in Answers, net[i] # NULL, Settled(i, a),
           a = "ok" /\ net[i].op = "reauth" => Issued <= MaxTokens, UNCHANGED Page
    PROVE  Alone' /\ Granted' /\ HasSession' /\ NothingLeftToResume'
           /\ SosIsNotForgotten' /\ PlaysInSight'
<1>0. TypeOK
    BY DEF Safe
<1>1. /\ \A j \in Slots \ {i} : net'[j] = net[j]
      /\ net'[i] # NULL /\ net'[i].op = net[i].op /\ net'[i].here = net[i].here
      /\ net'[i].at = a
      /\ a = "ok" /\ net[i].op = "reauth" => net'[i].token = Issued
    BY <1>0, Served
<1>2. Issued # 0
    BY <1>0 DEF Issued, TypeOK, Server
<1>3. Alone'
    BY <1>1 DEF Safe, Alone, Here, Mounted, Page
<1>4. Granted'
    BY <1>1, <1>2 DEF Safe, Granted
<1>5. HasSession' /\ NothingLeftToResume' /\ PlaysInSight'
    BY DEF Safe, HasSession, NothingLeftToResume, PlaysInSight, Page, Mounted, Over, Paused
<1>6. SosIsNotForgotten'
    BY <1>1 DEF Safe, SosIsNotForgotten, Page
<1> QED
    BY <1>3, <1>4, <1>5, <1>6

\* The tab shows the login page or the dashboard.
LEMMA SessionSafe ==
    ASSUME Safe, SignIn \/ LoginRedirects \/ SignOut \/ DashboardSessionEnds \/ Leave
                 \/ OpenCase \/ Rerender
    PROVE  Safe'
<1> USE DEF Safe
<1>0. TypeOK' /\ net \in Nets
    BY SessionTypes DEF TypeOK, Nets
<1>1. CASE SignIn \/ LoginRedirects
    <2>1. ~Mounted /\ ~Mounted' /\ step \in {"login"} /\ step' = "dashboard" /\ stored' # 0
        BY <1>1 DEF SignIn, LoginRedirects, Mounted, PageSteps, ReviewSteps, DraftSteps,
           Issued, TypeOK, Server
    <2>2. UNCHANGED <<net, player, dialogs, sos, draft>>
        BY <1>1 DEF SignIn, LoginRedirects
    <2>3. Alone' /\ Granted'
        BY <2>1, <2>2 DEF Alone, Granted, Here
    <2>4. HasSession' /\ NothingLeftToResume' /\ SosIsNotForgotten' /\ PlaysInSight'
        BY <2>1, <2>2 DEF HasSession, NothingLeftToResume, SosIsNotForgotten, PlaysInSight, Over
    <2> QED
        BY <1>0, <2>3, <2>4
<1>2. ASSUME NEW n \in Nets, Closed, net' = Orphaned(n), step' \in {"login", "dashboard"},
             \/ stored' = 0 /\ draft' = NULL
             \/ UNCHANGED <<stored, draft>>,
             \A j \in Slots : \/ n[j] = net[j] \/ n[j] = NULL \/ n[j].op = "exposure"
      PROVE  Safe'
    <2>1. ~Mounted'
        BY <1>2 DEF Mounted, PageSteps, ReviewSteps, DraftSteps
    <2>2. Alone' /\ Granted'
        BY <1>2, <2>1, ClosingKeeps
    <2>3. ~player'.playing
        BY <1>2, OpenedPlayer DEF Closed
    <2>4. HasSession' /\ NothingLeftToResume' /\ SosIsNotForgotten' /\ PlaysInSight'
        BY <1>2, <2>1, <2>3
           DEF HasSession, NothingLeftToResume, SosIsNotForgotten, PlaysInSight, Over
    <2> QED
        BY <1>0, <2>2, <2>4
<1>3. CASE SignOut
    <2>1. PICK n \in {net} \cup Closing : SignOutFrom(n)
        BY <1>3 DEF SignOut
    <2> QED
        BY <1>2, <2>1, ClosingNet DEF SignOutFrom
<1>4. CASE DashboardSessionEnds
    BY <1>0, <1>2, <1>4 DEF DashboardSessionEnds, SignOutFrom
<1>5. CASE Leave
    <2>1. PICK n \in Closing : net' = Orphaned(n)
        BY <1>5 DEF Leave
    <2> QED
        BY <1>2, <1>5, <2>1, ClosingNet DEF Leave
<1>6. CASE OpenCase
    <2> DEFINE r == [Ask("detail") EXCEPT !.token = stored]
    <2>1. r \in Request /\ r.op = "detail" /\ r.here /\ r.at = "sent"
        BY AskedRequest DEF Ask, Ops, TypeOK, Sample, Nothing
    <2>2. Send(net, {r})
        BY <1>6 DEF OpenCase
    <2> HIDE DEF r
    <2>3. /\ \A j \in Slots : net'[j] = net[j] \/ net'[j] = r
          /\ \A i, j \in Slots : net'[i] # net[i] /\ net'[j] # net[j] /\ net'[i] = net'[j] => i = j
        BY <1>0, <2>1, <2>2, Sends
    <2>4. step = "dashboard" /\ ~Mounted /\ step' = "loading" /\ Mounted' /\ stored # 0
          /\ UNCHANGED <<stored, draft, player, sos, dialogs>>
        BY <1>6 DEF OpenCase, Mounted, PageSteps, ReviewSteps, DraftSteps
    <2>5. Alone'
        BY <2>1, <2>3, <2>4 DEF Alone, Here
    <2>6. Granted'
        BY <2>1, <2>3 DEF Granted
    <2>7. HasSession' /\ NothingLeftToResume' /\ SosIsNotForgotten' /\ PlaysInSight'
        BY <2>4 DEF HasSession, NothingLeftToResume, SosIsNotForgotten, PlaysInSight, Over
    <2> QED
        BY <1>0, <2>5, <2>6, <2>7
<1>7. CASE Rerender
    <2>1. UNCHANGED <<step, net, player, dialogs, sos, draft, stored>>
        BY <1>7 DEF Rerender
    <2>2. Alone' /\ Granted'
        BY <2>1, QuietKeeps
    <2>3. HasSession' /\ NothingLeftToResume' /\ SosIsNotForgotten' /\ PlaysInSight'
        BY <2>1 DEF HasSession, NothingLeftToResume, SosIsNotForgotten, PlaysInSight, Over,
           Mounted, Paused
    <2> QED
        BY <1>0, <2>2, <2>3
<1> QED
    BY <1>1, <1>3, <1>4, <1>5, <1>6, <1>7

\* The page: a step that lands, from the slots n with one request let go of, and
\* sends no request that loads.
LEMMA LandSafe ==
    ASSUME Safe, TypeOK', NEW n \in Nets, \A j \in Slots : n[j] = net[j] \/ n[j] = NULL,
           NEW S \in SUBSET Request, \A r \in S : r.op # "detail" /\ r.at = "sent",
           NEW to \in PageSteps \ {"loading"}, Mounted, step # "loading",
           Land(n, to, S), UNCHANGED stored, dialogs' \subseteq dialogs,
           "session" \in dialogs' <=> "session" \in dialogs,
           \/ draft' = NULL
           \/ Keep(to) /\ to \in DraftSteps
           \/ /\ draft' = draft /\ to \notin {"confirmation", "declined"}
              /\ to = "sos" => sos'.state = "sending",
           to = "sos" => \E r \in S : r.op = "sos" /\ r.here
    PROVE  Safe'
<1>0. TypeOK /\ to \in PageSteps
    BY DEF Safe
<1>1. /\ step' \in PageSteps /\ step' \in {to, "daily-cap"}
      /\ player'.playing => player' = player /\ step = "workspace" /\ step' = "workspace"
      /\ \A j \in Slots : \/ net'[j] = n[j] \/ net'[j] \in S
                          \/ net'[j].op \in {"exposure", "release"} /\ net'[j].at = "sent"
      /\ \A r \in S : \E j \in Slots : net'[j] = r
    BY <1>0, Lands
<1>2. Mounted' /\ step' # "loading"
    BY <1>1 DEF Mounted
<1>3. Alone' /\ Granted'
    BY <1>1, <1>2, SendsKeep
<1>4. HasSession'
    BY DEF Safe, HasSession
<1>5. stored' # 0
    BY DEF Safe, HasSession
<1>6. NothingLeftToResume'
    BY <1>1, <1>5 DEF NothingLeftToResume, Over, DraftSteps
<1>7. SosIsNotForgotten'
    <2>1. CASE to = "sos"
        <3>1. PICK r \in S : r.op = "sos" /\ r.here
            BY <2>1
        <3>2. PICK j \in Slots : net'[j] = r
            BY <1>1
        <3>3. r # NULL
            BY NullAssumption
        <3> QED
            BY <3>1, <3>2, <3>3 DEF SosIsNotForgotten
    <2>2. CASE to # "sos"
        BY <1>1, <2>2 DEF SosIsNotForgotten
    <2> QED
        BY <2>1, <2>2
<1>8. PlaysInSight'
    BY <1>1 DEF Safe, PlaysInSight, CanPlay, Paused
<1> QED
    BY <1>3, <1>4, <1>6, <1>7, <1>8 DEF Safe

LEMMA WalkSafe ==
    ASSUME Safe, TypeOK', NEW from \in ReviewSteps, NEW to \in DraftSteps \cup {"check-in"},
           Walk(from, to)
    PROVE  Safe'
<1>1. net \in Nets /\ from \in PageSteps /\ from # "loading"
      /\ to \in PageSteps \ {"loading"} /\ to \notin {"sos", "confirmation", "declined"}
    BY DEF Safe, TypeOK, Nets, PageSteps, ReviewSteps, DraftSteps
<1>2. step = from /\ Land(net, to, {}) /\ Keep(to) /\ UNCHANGED <<stored, dialogs, sos>>
    BY DEF Walk
<1>3. Mounted
    BY <1>1, <1>2 DEF Mounted
<1>4. (Keep(to) /\ to \in DraftSteps) \/ draft' = draft
    BY <1>2 DEF Keep
<1> QED
    BY <1>1, <1>2, <1>3, <1>4, LandSafe

\* The page: a request is sent and nothing else changes that the invariant reads.
LEMMA AskSafe ==
    ASSUME Safe, TypeOK', NEW op \in Ops \ {"detail"}, Send(net, {Ask(op)}), Mounted,
           step # "loading", UNCHANGED <<step, stored, draft, dialogs, player>>,
           \/ UNCHANGED sos
           \/ op = "sos" /\ sos'.state = "sending"
    PROVE  Safe'
<1>1. Ask(op) \in Request /\ Ask(op).op = op /\ Ask(op).at = "sent" /\ Ask(op).here
    BY AskedRequest DEF Safe, Ask, Sample, Nothing
<1>2. net \in Nets
    BY DEF Safe, TypeOK, Nets
<1>3. /\ \A i \in Slots : net[i] # NULL => net'[i] = net[i]
      /\ \A i \in Slots : net'[i] = net[i] \/ net'[i] = Ask(op)
      /\ \E i \in Slots : net'[i] = Ask(op)
    BY <1>1, <1>2, Sends
<1>4. Mounted' /\ step' # "loading"
    BY DEF Mounted
<1>5. Alone' /\ Granted'
    BY <1>1, <1>2, <1>3, <1>4, SendsKeep
<1>6. HasSession' /\ PlaysInSight'
    BY DEF Safe, HasSession, PlaysInSight, Mounted, Paused
<1>7. CASE UNCHANGED sos
    <2>1. NothingLeftToResume'
        BY <1>7 DEF Safe, NothingLeftToResume, Over
    <2>2. SosIsNotForgotten'
        BY <1>3, <1>7 DEF Safe, SosIsNotForgotten
    <2> QED
        BY <1>5, <1>6, <2>1, <2>2 DEF Safe
<1>8. CASE op = "sos" /\ sos'.state = "sending"
    <2>1. NothingLeftToResume'
        BY <1>8 DEF Safe, NothingLeftToResume, Over
    <2>2. Ask(op) # NULL
        BY <1>1, NullAssumption
    <2>3. SosIsNotForgotten'
        BY <1>1, <1>3, <1>8, <2>2 DEF SosIsNotForgotten
    <2> QED
        BY <1>5, <1>6, <2>1, <2>3 DEF Safe
<1> QED
    BY <1>7, <1>8

\* The page: nothing is sent and nothing plays that did not.
LEMMA QuietSafe ==
    ASSUME Safe, TypeOK', UNCHANGED <<step, stored, draft, sos, net>>,
           "session" \in dialogs => "session" \in dialogs', PlaysInSight'
    PROVE  Safe'
<1>1. Alone' /\ Granted'
    BY QuietKeeps
<1>2. HasSession' /\ NothingLeftToResume' /\ SosIsNotForgotten'
    BY DEF Safe, HasSession, NothingLeftToResume, SosIsNotForgotten, Mounted, Over
<1> QED
    BY <1>1, <1>2 DEF Safe

LEMMA PageSafe ==
    ASSUME Safe, \/ ContinueToReview \/ BackToSummary \/ RateSeverity \/ BackToReview
                 \/ TalkToManager \/ Proceed \/ OpenDecline \/ CancelDecline
                 \/ SubmitDecline \/ Resolve \/ PressSos \/ AnalysisFails \/ TryAgain
                 \/ SessionProbe \/ SubmitPassword
    PROVE  Safe'
<1>0. TypeOK' /\ net \in Nets /\ player \in Player
    BY PageTypes DEF Safe, TypeOK, Nets
<1> USE DEF PageSteps, ReviewSteps, DraftSteps
<1>1. CASE ContinueToReview \/ BackToSummary \/ RateSeverity \/ BackToReview \/ TalkToManager
    BY <1>0, <1>1, WalkSafe
       DEF ContinueToReview, BackToSummary, RateSeverity, BackToReview, TalkToManager
<1>2. CASE Proceed \/ SubmitDecline \/ Resolve \/ SubmitPassword
    <2>1. Mounted /\ step # "loading" /\ UNCHANGED <<step, stored, draft, dialogs, player, sos>>
        BY <1>2 DEF Proceed, SubmitDecline, Resolve, SubmitPassword, Mounted
    <2>2. PICK op \in Ops \ {"detail"} : Send(net, {Ask(op)})
        BY <1>2 DEF Proceed, SubmitDecline, Resolve, SubmitPassword, Await, Ops
    <2> QED
        BY <1>0, <2>1, <2>2, AskSafe
<1>3. CASE TryAgain
    BY <1>0, <1>3, AskSafe DEF TryAgain, Mounted, Ops, Safe, TypeOK
<1>4. CASE OpenDecline \/ CancelDecline
    BY <1>0, <1>4, QuietSafe DEF OpenDecline, CancelDecline, Safe, PlaysInSight, CanPlay, Paused
<1>5. CASE SessionProbe
    <2>1. ~player'.playing
        BY <1>0, <1>5 DEF SessionProbe, Interrupted, Player
    <2> QED
        BY <1>0, <1>5, <2>1, QuietSafe DEF SessionProbe, PlaysInSight
<1>6. CASE PressSos \/ AnalysisFails
    <2>1. /\ Land(net, "sos", {Ask("sos")}) /\ sos'.state = "sending"
          /\ UNCHANGED <<dialogs, draft, stored>>
        BY <1>6 DEF PressSos, AnalysisFails, Pause, Safe, TypeOK
    <2>2. Mounted /\ step # "loading"
        BY <1>6 DEF PressSos, AnalysisFails, Mounted
    <2>3. Ask("sos") \in Request /\ Ask("sos").op = "sos" /\ Ask("sos").at = "sent" /\ Ask("sos").here
        BY AskedRequest DEF Safe, Ask, Sample, Nothing, Ops
    <2> QED
        BY <1>0, <2>1, <2>2, <2>3, LandSafe
<1> QED
    BY <1>1, <1>2, <1>3, <1>4, <1>5, <1>6

LEMMA WorkspaceSafe ==
    ASSUME Safe, \/ TogglePlayback \/ Watch \/ Seek \/ ConnectionDrops
                 \/ ConnectionReturns \/ FlushTimer \/ LimitReached
    PROVE  Safe'
<1>0. TypeOK' /\ net \in Nets /\ player \in Player
    BY WorkspaceTypes DEF Safe, TypeOK, Nets
<1>1. ASSUME NEW p, Plays(p), p.playing => CanPlay(p, Paused) PROVE Safe'
    BY <1>0, <1>1, QuietSafe DEF Plays, PlaysInSight, Paused
<1>2. CASE TogglePlayback
    BY <1>0, <1>1, <1>2 DEF TogglePlayback, Toggled, CanPlay, Player
<1>3. CASE Watch
    <2>1. PICK to \in (player.position + 1)..Duration :
             CanPlay(player, Paused) /\ Plays(Played(player, to))
        BY <1>3 DEF Watch
    <2> QED
        BY <1>0, <1>1, <2>1 DEF Played, CanPlay, Player
<1>4. CASE Seek
    <2>1. PICK to \in 0..Duration : Plays(Sought(player, to))
        BY <1>4 DEF Seek
    <2> QED
        BY <1>0, <1>1, <2>1 DEF Sought, CanPlay, Player, Safe, PlaysInSight
<1>5. CASE ConnectionDrops
    BY <1>0, <1>1, <1>5 DEF ConnectionDrops, GoneOffline, Interrupted, Player
<1>6. CASE ConnectionReturns
    <2>1. ~player.playing
        BY <1>6 DEF ConnectionReturns, Safe, PlaysInSight, CanPlay
    <2> QED
        BY <1>0, <1>1, <1>6, <2>1 DEF ConnectionReturns, GoneOnline, Player
<1>7. CASE FlushTimer
    <2>1. /\ step = "workspace" /\ player' = Reported(player) /\ Send(net, Report)
          /\ UNCHANGED <<step, dialogs, sos, draft, stored>>
        BY <1>7 DEF FlushTimer
    <2>2. player'.playing = player.playing /\ player'.offline = player.offline
        BY <1>0, <2>1 DEF Reported, Player
    <2>3. \A j \in Slots : net'[j] = net[j] \/ (net'[j].op # "detail" /\ net'[j].at = "sent")
        BY <1>0, <2>1, ReportRequest, Sends DEF Safe
    <2>4. Mounted /\ Mounted' /\ step' # "loading" /\ step # "loading"
        BY <2>1 DEF Mounted, PageSteps, ReviewSteps, DraftSteps
    <2>5. Alone' /\ Granted'
        BY <1>0, <2>3, <2>4, SendsKeep
    <2>6. HasSession' /\ NothingLeftToResume' /\ SosIsNotForgotten' /\ PlaysInSight'
        BY <2>1, <2>2 DEF Safe, HasSession, NothingLeftToResume, SosIsNotForgotten,
           PlaysInSight, CanPlay, Paused, Over, Mounted
    <2> QED
        BY <1>0, <2>5, <2>6 DEF Safe
<1>8. CASE LimitReached
    <2>1. "workspace" \in PageSteps \ {"loading"} /\ Mounted /\ step # "loading"
          /\ Land(net, "workspace", {}) /\ UNCHANGED <<dialogs, draft, stored>>
        BY <1>8 DEF LimitReached, Mounted, PageSteps, ReviewSteps, DraftSteps
    <2> QED
        BY <1>0, <2>1, LandSafe
<1> QED
    BY <1>2, <1>3, <1>4, <1>5, <1>6, <1>7, <1>8

LEMMA BackendSafe ==
    ASSUME Safe, NEW i \in Slots, Serve(i) \/ Fails(i) \/ Unauthorised(i)
    PROVE  Safe'
<1>0. TypeOK'
    BY BackendTypes DEF Safe
<1>1. CASE Serve(i)
    <2>1. PICK a \in {"ok", "failed"} : Settled(i, a)
        BY <1>1 DEF Serve
    <2>2. UNCHANGED Page /\ net[i] # NULL /\ (net[i].op = "reauth" => Issued <= MaxTokens)
        BY <1>1 DEF Serve, Accepts
    <2> QED
        BY <1>0, <2>1, <2>2, ServedKeeps DEF Safe, Answers
<1>2. CASE Fails(i)
    BY <1>0, <1>2, ServedKeeps DEF Fails, Safe, Answers
<1>3. CASE Unauthorised(i)
    BY <1>0, <1>3, ServedKeeps DEF Unauthorised, Safe, Answers
<1> QED
    BY <1>1, <1>2, <1>3

LEMMA AnswerSafe ==
    ASSUME Safe, NEW i \in Slots, Handled(i)
    PROVE  Safe'
<1>0. /\ TypeOK' /\ TypeOK /\ Freed(i) \in Nets /\ Freed(i)[i] = NULL /\ net \in Nets
      /\ \A j \in Slots \ {i} : Freed(i)[j] = net[j]
      /\ \A j \in Slots : Freed(i)[j] = net[j] \/ Freed(i)[j] = NULL
      /\ player \in Player
    BY AnswerTypes, FreedNet DEF Safe, TypeOK, Nets
\* Whoever hears an answer is on the page, and what loads is all it waits for.
<1>1. Here(i) => Mounted /\ stored # 0 /\ (net[i].op = "detail" <=> step = "loading")
    BY DEF Safe, Alone, HasSession
<1>2. CASE Opens(i) \/ DoesNotOpen(i)
    <2>1. /\ Here(i) /\ net[i].op = "detail" /\ net' = Freed(i)
          /\ step' \in {"resolved", "gate", "load-failed"}
          /\ UNCHANGED <<dialogs, sos, player, draft, stored>>
        BY <1>2 DEF Opens, DoesNotOpen, Answered, Here
    <2>2. step = "loading"
        BY <1>1, <2>1
    <2>3. \A j \in Slots : net'[j] = NULL \/ (net'[j] = net[j] /\ ~net[j].here)
        BY <1>0, <2>1, <2>2 DEF Safe, Alone, Here
    <2>4. Alone'
        BY <2>3 DEF Alone, Here
    <2>5. Granted'
        BY <2>3 DEF Safe, Granted
    <2>6. HasSession' /\ NothingLeftToResume' /\ SosIsNotForgotten' /\ PlaysInSight'
        BY <1>1, <2>1, <2>2 DEF Safe, HasSession, NothingLeftToResume, SosIsNotForgotten,
           PlaysInSight, Over
    <2> QED
        BY <1>0, <2>4, <2>5, <2>6 DEF Safe
<1>3. CASE OpensWithoutSession(i)
    <2>1. /\ Closed /\ net' = Orphaned(Freed(i)) /\ stored' = 0 /\ draft' = NULL
          /\ step' = "login"
        BY <1>3 DEF OpensWithoutSession, SignOutFrom
    <2>2. ~Mounted' /\ ~player'.playing
        BY <2>1, OpenedPlayer DEF Closed, Mounted, PageSteps, ReviewSteps, DraftSteps
    <2>3. Alone' /\ Granted'
        BY <1>0, <2>1, <2>2, ClosingKeeps
    <2>4. HasSession' /\ NothingLeftToResume' /\ SosIsNotForgotten' /\ PlaysInSight'
        BY <2>1, <2>2 DEF HasSession, NothingLeftToResume, SosIsNotForgotten, PlaysInSight, Over
    <2> QED
        BY <1>0, <2>3, <2>4 DEF Safe
<1>4. CASE Proceeds(i)
    <2>1. Here(i) /\ net[i].op = "acknowledge"
        BY <1>4 DEF Proceeds, Answered, Here
    <2>2. Mounted /\ step # "loading"
        BY <1>1, <2>1
    <2>3. /\ Land(Freed(i), FirstStep, {}) /\ Keep(FirstStep)
          /\ UNCHANGED <<dialogs, sos, stored>>
        BY <1>4 DEF Proceeds
    <2>4. FirstStep \in DraftSteps /\ FirstStep \in PageSteps \ {"loading"}
          /\ FirstStep # "sos"
        BY <1>0, FirstStepIsReview DEF PageSteps, ReviewSteps, DraftSteps
    <2> QED
        BY <1>0, <2>2, <2>3, <2>4, LandSafe
<1>5. ASSUME NEW op \in {"decline", "resolve"}, NEW to \in {"declined", "confirmation"},
             Ends(i, op, to)
      PROVE  Safe'
    <2>1. Here(i) /\ net[i].op = op
        BY <1>5 DEF Ends, Answered, Here
    <2>2. Mounted /\ step # "loading"
        BY <1>1, <2>1
    <2>3. Land(Freed(i), to, {}) /\ dialogs' = dialogs \ {op} /\ draft' = NULL
          /\ UNCHANGED stored
        BY <1>5 DEF Ends
    <2>4. to \in PageSteps \ {"loading"} /\ to # "sos"
        BY DEF PageSteps
    <2> QED
        BY <1>0, <2>2, <2>3, <2>4, LandSafe
<1>6. CASE Declines(i) \/ Submits(i)
    BY <1>5, <1>6 DEF Declines, Submits
\* The request is let go of, and the page stays as it is.
<1>7. ASSUME net' = Freed(i), UNCHANGED step PROVE Alone' /\ Granted'
    BY <1>0, <1>7, QuietKeeps
<1>8. CASE SosSent(i)
    <2>1. /\ net' = Freed(i) /\ draft' = NULL /\ sos'.state = "sent"
          /\ UNCHANGED <<step, dialogs, player, stored>>
        BY <1>0, <1>8 DEF SosSent, TypeOK
    <2>2. HasSession' /\ NothingLeftToResume' /\ SosIsNotForgotten' /\ PlaysInSight'
        BY <2>1 DEF Safe, HasSession, NothingLeftToResume, SosIsNotForgotten, PlaysInSight,
           Mounted, Paused
    <2> QED
        BY <1>0, <1>7, <2>1, <2>2 DEF Safe
<1>9. CASE Noted(i)
    <2>1. /\ net' = Freed(i) /\ net[i].op # "sos"
          /\ UNCHANGED <<step, dialogs, player, stored, sos, draft>>
        BY <1>9 DEF Noted, Answered, Page
    <2>2. HasSession' /\ NothingLeftToResume' /\ PlaysInSight'
        BY <2>1 DEF Safe, HasSession, NothingLeftToResume, PlaysInSight, Mounted, Paused, Over
    <2>3. SosIsNotForgotten'
        BY <1>0, <2>1 DEF Safe, SosIsNotForgotten
    <2> QED
        BY <1>0, <1>7, <2>1, <2>2, <2>3 DEF Safe
<1>10. CASE Failed(i)
    <2>1. /\ net' = Freed(i) /\ sos' = Unsent(i) /\ Here(i)
          /\ net[i].at \in {"failed", "unauthorised"}
          /\ UNCHANGED <<step, draft, stored>>
        BY <1>10 DEF Failed, Answered, Here
    <2>2. /\ dialogs \subseteq dialogs'
          /\ net[i].at = "unauthorised" => "session" \in dialogs' /\ player' = Interrupted(player)
          /\ net[i].at = "failed" =>
                ("session" \in dialogs' <=> "session" \in dialogs) /\ player' = player
        BY <1>10, <2>1 DEF Failed
    <2>3. Interrupted(player).playing = FALSE
        BY <1>0 DEF Interrupted, Player
    <2>4. PlaysInSight'
        BY <2>1, <2>2, <2>3 DEF Safe, PlaysInSight, CanPlay, Paused
    <2>5. HasSession'
        BY <2>1 DEF Safe, HasSession, Mounted
    <2>6. sos'.state = "sent" => sos.state = "sent"
        BY <1>0, <2>1 DEF Unsent, TypeOK
    <2>7. NothingLeftToResume'
        BY <2>1, <2>6 DEF Safe, NothingLeftToResume, Over
    <2>8. ASSUME net[i].op = "sos" PROVE SosIsNotForgotten'
        <3>1. CASE net[i].at = "unauthorised"
            <4>1. sos'.retry
                BY <1>0, <2>1, <2>8, <3>1 DEF Unsent, TypeOK
            <4> QED
                BY <2>2, <3>1, <4>1 DEF SosIsNotForgotten
        <3>2. CASE net[i].at = "failed"
            <4>1. sos'.state = "failed"
                BY <1>0, <2>1, <2>8, <3>2 DEF Unsent, TypeOK
            <4> QED
                BY <4>1 DEF SosIsNotForgotten
        <3> QED
            BY <2>1, <3>1, <3>2
    <2>9. ASSUME net[i].op # "sos" PROVE SosIsNotForgotten'
        <3>1. sos' = sos
            BY <2>1, <2>9 DEF Unsent
        <3> QED
            BY <1>0, <2>1, <2>2, <2>9, <3>1 DEF Safe, SosIsNotForgotten
    <2> QED
        BY <1>0, <1>7, <2>1, <2>4, <2>5, <2>7, <2>8, <2>9 DEF Safe
<1>11. CASE Outlives(i)
    <2>1. /\ net[i] # NULL /\ ~net[i].here /\ net' = Freed(i)
          /\ draft' \in {NULL, draft}
          /\ stored' = stored \/ (net[i].at = "ok" /\ net[i].op = "reauth" /\ stored' = net[i].token)
          /\ UNCHANGED <<step, dialogs, player, sos>>
        BY <1>11 DEF Outlives
    <2>2. stored' = stored \/ stored' # 0
        BY <2>1 DEF Safe, Granted
    <2>3. HasSession' /\ NothingLeftToResume' /\ PlaysInSight'
        BY <2>1, <2>2 DEF Safe, HasSession, NothingLeftToResume, PlaysInSight, Mounted, Paused, Over
    <2>4. SosIsNotForgotten'
        BY <1>0, <2>1 DEF Safe, SosIsNotForgotten
    <2> QED
        BY <1>0, <1>7, <2>1, <2>3, <2>4 DEF Safe
<1>12. CASE SignedInAgain(i)
    <2> DEFINE kept == (IF unsent = Nothing THEN {} ELSE {Asked("exposure", unsent)})
                          \cup IF sos.retry THEN {Ask("sos")} ELSE {}
               S    == {[r EXCEPT !.token = held'] : r \in kept}
    <2>1. /\ Here(i) /\ net[i].op = "reauth" /\ net[i].at = "ok" /\ stored' = net[i].token
          /\ dialogs' = dialogs \ {"session"} /\ sos' = (IF sos.retry THEN NoSos ELSE sos)
          /\ Send(Freed(i), S) /\ UNCHANGED <<step, player, draft>>
        BY <1>12 DEF SignedInAgain, Answered, Here
    <2>2. held' \in 0..MaxTokens /\ unsent \in Sample /\ Nothing \in Sample
        BY <1>0 DEF TypeOK, Sample, Nothing
    <2>3. S \in SUBSET Request
        BY <1>0, <2>2, AskedRequest DEF Ask, Ops
    <2>4. \A r \in S : r.op # "detail" /\ r.at = "sent"
        <3>1. LET r == [Asked("exposure", unsent) EXCEPT !.token = held']
              IN  r.op = "exposure" /\ r.at = "sent"
            BY <1>0, <2>2, AskedRequest DEF Ops
        <3>2. LET r == [Ask("sos") EXCEPT !.token = held']
              IN  r.op = "sos" /\ r.at = "sent"
            BY <1>0, <2>2, AskedRequest DEF Ask, Ops
        <3> QED
            BY <3>1, <3>2
    <2>5. sos.retry => \E r \in S : r.op = "sos" /\ r.here
        <3>1. LET r == [Ask("sos") EXCEPT !.token = held'] IN r.op = "sos" /\ r.here
            BY <1>0, <2>2, AskedRequest DEF Ask, Ops
        <3>2. sos.retry => [Ask("sos") EXCEPT !.token = held'] \in S
            OBVIOUS
        <3> QED
            BY <3>1, <3>2
    <2> HIDE DEF S
    <2>6. /\ \A j \in Slots : Freed(i)[j] # NULL => net'[j] = Freed(i)[j]
          /\ \A j \in Slots : net'[j] = Freed(i)[j] \/ net'[j] \in S
          /\ \A r \in S : \E j \in Slots : net'[j] = r
        BY <1>0, <2>1, <2>3, Sends
    <2>7. Mounted /\ step # "loading" /\ stored # 0 /\ Mounted' /\ step' # "loading"
        BY <1>1, <2>1 DEF Mounted
    <2>8. Alone' /\ Granted'
        BY <1>0, <2>4, <2>6, <2>7, SendsKeep
    <2>9. stored' # 0
        BY <2>1 DEF Safe, Granted, Here
    <2>10. sos'.state = "sent" => sos.state = "sent"
        BY <2>1 DEF NoSos
    <2>11. HasSession' /\ NothingLeftToResume' /\ PlaysInSight'
        BY <2>1, <2>7, <2>9, <2>10 DEF Safe, HasSession, NothingLeftToResume, PlaysInSight,
           CanPlay, Paused, Over
    <2>12. ASSUME sos.retry PROVE SosIsNotForgotten'
        <3>1. PICK j \in Slots : net'[j] \in S /\ net'[j].op = "sos" /\ net'[j].here
            BY <2>5, <2>6, <2>12
        <3>2. net'[j] # NULL
            BY <2>3, <3>1, NullAssumption
        <3> QED
            BY <3>1, <3>2 DEF SosIsNotForgotten
    <2>13. ASSUME ~sos.retry PROVE SosIsNotForgotten'
        <3>1. sos' = sos
            BY <2>1, <2>13
        <3> QED
            BY <1>0, <2>1, <2>6, <2>13, <3>1 DEF Safe, SosIsNotForgotten
    <2> QED
        BY <1>0, <2>8, <2>11, <2>12, <2>13 DEF Safe
<1> QED
    BY <1>2, <1>3, <1>4, <1>6, <1>8, <1>9, <1>10, <1>11, <1>12 DEF Handled

LEMMA SafeStep == Safe /\ [Next]_vars => Safe'
<1> SUFFICES ASSUME Safe, [Next]_vars PROVE Safe'
    OBVIOUS
<1>0. TypeOK'
    BY TypeStep DEF Safe
<1>1. CASE SessionsLost \/ ManagerReassigns \/ UNCHANGED vars
    <2>1. UNCHANGED <<Page, net>>
        BY <1>1 DEF SessionsLost, ManagerReassigns, vars, Page
    <2>2. Alone' /\ Granted' /\ HasSession'
        BY <2>1 DEF Safe, Alone, Granted, HasSession, Here, Mounted, Page
    <2>3. NothingLeftToResume' /\ SosIsNotForgotten' /\ PlaysInSight'
        BY <2>1 DEF Safe, NothingLeftToResume, SosIsNotForgotten, PlaysInSight, Over,
           Paused, Page
    <2> QED
        BY <1>0, <2>2, <2>3 DEF Safe
<1> QED
    BY <1>1, SessionSafe, PageSafe, WorkspaceSafe, BackendSafe, AnswerSafe DEF Next, Arrives

\* The strengthened invariant of the review page holds in every state: what the
\* theorems below take their properties from.
THEOREM AlwaysSafe == Spec => []Safe
  BY SafeInit, SafeStep, PTL DEF Spec

\* No review that is over leaves a draft behind, and no tab without a session
\* keeps one, in whatever order the answers come.
THEOREM ReviewsEnd == Spec => []NothingLeftToResume
<1>1. Safe => NothingLeftToResume
    BY DEF Safe
<1> QED
    BY <1>1, AlwaysSafe, PTL

\* An SOS the page reports as being sent is in flight or waits for a sign-in.
THEOREM SosGetsOut == Spec => []SosIsNotForgotten
<1>1. Safe => SosIsNotForgotten
    BY DEF Safe
<1> QED
    BY <1>1, AlwaysSafe, PTL

\* Footage plays only in an open workspace, online and with no session dialog.
THEOREM FootageInSight == Spec => []PlaysInSight
<1>1. Safe => PlaysInSight
    BY DEF Safe
<1> QED
    BY <1>1, AlwaysSafe, PTL

\* Every way into footage, summary and form is the answer of an acknowledgement.
LEMMA EntersByAcknowledgement ==
    ASSUME TypeOK, Next, step \notin ReviewSteps, step' \in ReviewSteps
    PROVE  \E i \in Slots : Answered(i, {"acknowledge"}, {"ok"}) /\ net'[i] # net[i]
<1> USE DEF ReviewSteps, DraftSteps
<1>1. ~(\/ SignIn \/ LoginRedirects \/ SignOut \/ DashboardSessionEnds \/ Leave
        \/ OpenCase \/ Rerender)
    BY DEF SignIn, LoginRedirects, SignOut, SignOutFrom, DashboardSessionEnds, Leave,
       OpenCase, Rerender
<1>2. ~(\/ ContinueToReview \/ BackToSummary \/ RateSeverity \/ BackToReview
        \/ TalkToManager)
    BY DEF ContinueToReview, BackToSummary, RateSeverity, BackToReview, TalkToManager, Walk
<1>3. ~(\/ Proceed \/ OpenDecline \/ CancelDecline \/ SubmitDecline \/ Resolve
        \/ PressSos \/ AnalysisFails \/ TryAgain \/ SessionProbe \/ SubmitPassword)
    BY DEF Proceed, OpenDecline, CancelDecline, SubmitDecline, Resolve, PressSos,
       AnalysisFails, TryAgain, SessionProbe, SubmitPassword
<1>4. ~(\/ TogglePlayback \/ Watch \/ Seek \/ ConnectionDrops \/ ConnectionReturns
        \/ FlushTimer \/ LimitReached \/ SessionsLost \/ ManagerReassigns)
    BY DEF TogglePlayback, Watch, Seek, ConnectionDrops, ConnectionReturns, Plays,
       FlushTimer, LimitReached, SessionsLost, ManagerReassigns, Page
<1>5. PICK i \in Slots : Arrives(i) \/ Handled(i)
    BY <1>1, <1>2, <1>3, <1>4 DEF Next
<1>6. ~Arrives(i)
    BY DEF Arrives, Serve, Fails, Unauthorised, Page
<1>7. ~(\/ Opens(i) \/ DoesNotOpen(i) \/ OpensWithoutSession(i) \/ SosSent(i)
        \/ Noted(i) \/ Failed(i) \/ Outlives(i) \/ SignedInAgain(i))
    BY DEF Opens, DoesNotOpen, OpensWithoutSession, SignOutFrom, SosSent, Noted, Failed,
       Outlives, SignedInAgain, Page
<1>8. Freed(i) \in Nets /\ Freed(i)[i] = NULL
    BY FreedNet
<1>9. ~Declines(i) /\ ~Submits(i)
    <2>1. ASSUME NEW to \in {"declined", "confirmation"}, Land(Freed(i), to, {})
          PROVE  FALSE
        BY <1>8, <2>1, Lands DEF PageSteps
    <2> QED
        BY <2>1 DEF Declines, Submits, Ends
<1>10. Proceeds(i)
    BY <1>5, <1>6, <1>7, <1>9 DEF Handled
<1>11. Answered(i, {"acknowledge"}, {"ok"})
    BY <1>10 DEF Proceeds
<1>12. net'[i] # net[i]
    <2>1. Land(Freed(i), FirstStep, {}) /\ FirstStep \in PageSteps
        BY <1>10, FirstStepIsReview DEF Proceeds, PageSteps
    <2>2. \A j \in Slots : \/ net'[j] = Freed(i)[j] \/ net'[j] \in {}
                           \/ net'[j].op \in {"exposure", "release"} /\ net'[j].at = "sent"
        BY <1>8, <2>1, Lands
    <2>3. net'[i] = NULL \/ net'[i].op \in {"exposure", "release"}
        BY <1>8, <2>2
    <2> QED
        BY <1>11, <2>3 DEF Answered
<1> QED
    BY <1>11, <1>12

\* Nobody sees content but by an acknowledgement of the warning, in this visit.
THEOREM WarningComesFirst == Spec => ContentNeedsAcknowledgement
<1> DEFINE A == (step \notin ReviewSteps /\ step' \in ReviewSteps) =>
                \E i \in Slots : Answered(i, {"acknowledge"}, {"ok"}) /\ net'[i] # net[i]
<1>1. TypeOK /\ [Next]_vars => [A]_vars
    BY EntersByAcknowledgement
<1> HIDE DEF A
<1>2. Spec => [][A]_vars
    BY <1>1, TypeCorrect, PTL DEF Spec
<1> QED
    BY <1>2 DEF A, ContentNeedsAcknowledgement

(***************************************************************************)
(* Exposure. What is in flight is counted unit by unit, each with the slot *)
(* of its report: a step adds to the units in flight or takes from them by *)
(* adding, keeping or clearing slots.                                      *)
(***************************************************************************)
Late(n)    == {i \in Slots : n[i] # NULL /\ n[i].here /\ n[i].at # "ok"}
Seconds(n) == UNION {{i} \X (1..Units(n[i].sample)) : i \in Late(n)}
Load(n)    == Cardinality(Seconds(n))

\* What m keeps of the reports of n that may yet fail.
Keeps(n, m) == Late(n) \subseteq Late(m) /\ \A i \in Late(n) : m[i].sample = n[i].sample

LEMMA InFlightLoad == TypeOK => net \in Nets /\ InFlight = Load(net)
  BY DEF TypeOK, Nets, InFlight, Reporting, Load, Seconds, Late

LEMMA InFlightLoadNext == InFlight' = Load(net')
  BY DEF InFlight, Reporting, Load, Seconds, Late

LEMMA LateUnits ==
    ASSUME NEW n \in Nets, NEW i \in Slots, n[i] # NULL
    PROVE  n[i].sample \in Sample /\ Units(n[i].sample) \in Nat
<1>1. n[i] \in Request
    BY DEF Nets
<1>2. n[i].sample \in Sample
    BY <1>1 DEF Request
<1> QED
    BY <1>2, SampleSums

LEMMA UnitsOfOne ==
    ASSUME NEW i, NEW k \in Nat
    PROVE  IsFiniteSet({i} \X (1..k)) /\ Cardinality({i} \X (1..k)) = k
<1>1. IsFiniteSet({i}) /\ Cardinality({i}) = 1
    BY FS_Singleton
<1>2. IsFiniteSet(1..k) /\ Cardinality(1..k) = k
    BY FS_Interval
<1>3. /\ IsFiniteSet({i} \X (1..k))
      /\ Cardinality({i} \X (1..k)) = Cardinality({i}) * Cardinality(1..k)
    BY <1>1, <1>2, FS_Product
<1> QED
    BY <1>1, <1>2, <1>3

LEMMA SecondsFinite ==
    ASSUME NEW n \in Nets
    PROVE  IsFiniteSet(Seconds(n)) /\ Load(n) \in Nat
<1> DEFINE of == [i \in Late(n) |-> {i} \X (1..Units(n[i].sample))]
           All == {{i} \X (1..Units(n[i].sample)) : i \in Late(n)}
<1>1. IsFiniteSet(Late(n))
    BY ReviewAssumption, FS_Subset DEF Late
<1>2. of \in Surjection(Late(n), All)
    BY Fun_IsSurj
<1>3. IsFiniteSet(All)
    BY <1>1, <1>2, FS_Surjection
<1>4. \A i \in Late(n) : IsFiniteSet({i} \X (1..Units(n[i].sample)))
    BY LateUnits, UnitsOfOne DEF Late
<1>5. \A T \in All : IsFiniteSet(T)
    BY <1>4
<1>6. IsFiniteSet(UNION All)
    BY <1>3, <1>5, FS_UNION
<1>7. IsFiniteSet(Seconds(n))
    BY <1>6 DEF Seconds
<1> QED
    BY <1>7, FS_CardinalityType DEF Load

\* Nothing in flight is lost.
LEMMA Carried ==
    ASSUME NEW n \in Nets, NEW m \in Nets, Keeps(n, m)
    PROVE  Load(n) <= Load(m)
<1>1. Seconds(n) \subseteq Seconds(m)
    BY DEF Seconds, Keeps
<1> QED
    BY <1>1, SecondsFinite, FS_Subset DEF Load

\* One report is over, or is let go of.
LEMMA LetGo ==
    ASSUME NEW n \in Nets, NEW m \in Nets, NEW i \in Slots, n[i] # NULL,
           Late(n) \ {i} \subseteq Late(m),
           \A j \in Late(n) \ {i} : m[j].sample = n[j].sample
    PROVE  Load(n) <= Load(m) + Units(n[i].sample)
<1> DEFINE k == Units(n[i].sample)  T == {i} \X (1..k)
<1>1. k \in Nat
    BY LateUnits
<1> HIDE DEF k
<1>2. IsFiniteSet(T) /\ Cardinality(T) = k
    BY <1>1, UnitsOfOne
<1>3. Seconds(n) \subseteq Seconds(m) \cup T
    BY DEF Seconds, k
<1> HIDE DEF T
<1>4. /\ IsFiniteSet(Seconds(m)) /\ IsFiniteSet(Seconds(n))
      /\ Cardinality(Seconds(m)) \in Nat /\ Cardinality(Seconds(n)) \in Nat
    BY SecondsFinite DEF Load
<1>5. /\ IsFiniteSet(Seconds(m) \cup T)
      /\ Cardinality(Seconds(m) \cup T) =
           Cardinality(Seconds(m)) + Cardinality(T) - Cardinality(Seconds(m) \cap T)
    BY <1>2, <1>4, FS_Union
<1>6. Cardinality(Seconds(m) \cap T) \in Nat
    BY <1>4, FS_Subset, FS_CardinalityType
<1>7. Cardinality(Seconds(n)) <= Cardinality(Seconds(m) \cup T)
    BY <1>3, <1>5, FS_Subset
<1> QED
    BY <1>1, <1>2, <1>4, <1>5, <1>6, <1>7 DEF Load, k

\* A report is sent, in a slot that held none.
LEMMA TakenOn ==
    ASSUME NEW n \in Nets, NEW m \in Nets, Keeps(n, m), NEW i \in Late(m) \ Late(n)
    PROVE  Load(n) + Units(m[i].sample) <= Load(m)
<1> DEFINE k == Units(m[i].sample)  T == {i} \X (1..k)
<1>0. i \in Slots /\ m[i] # NULL
    BY DEF Late
<1>1. k \in Nat
    BY <1>0, LateUnits
<1>2. T \subseteq Seconds(m)
    BY DEF Seconds
<1>3. T \cap Seconds(n) = {}
    BY DEF Seconds
<1>4. Seconds(n) \subseteq Seconds(m)
    BY DEF Seconds, Keeps
<1> HIDE DEF k
<1>5. IsFiniteSet(T) /\ Cardinality(T) = k
    BY <1>1, UnitsOfOne
<1> HIDE DEF T
<1>6. /\ IsFiniteSet(Seconds(m)) /\ IsFiniteSet(Seconds(n))
      /\ Cardinality(Seconds(m)) \in Nat /\ Cardinality(Seconds(n)) \in Nat
    BY SecondsFinite DEF Load
<1>7. Cardinality(Seconds(n) \cup T) =
           Cardinality(Seconds(n)) + Cardinality(T) - Cardinality(Seconds(n) \cap T)
    BY <1>5, <1>6, FS_Union
<1>8. Seconds(n) \cap T = {}
    BY <1>3
<1>9. Cardinality(Seconds(n) \cap T) = 0
    BY <1>8, FS_EmptySet
<1>10. Cardinality(Seconds(n) \cup T) <= Cardinality(Seconds(m))
    BY <1>2, <1>4, <1>6, FS_Subset
<1> QED
    BY <1>1, <1>5, <1>6, <1>7, <1>9, <1>10 DEF Load, k

\* What a visit keeps besides: nothing is owed before a case is open, and only an
\* open workspace holds footage it has not reported.
Counted       == owed <= Units(player.pending) + Units(unsent) + Load(net)
NothingSeen   == (~Mounted \/ step = "loading") => owed = 0
OnlyAtTheDesk == step # "workspace" => player.pending = Nothing

Exposed == Counted /\ NothingSeen /\ OnlyAtTheDesk

LEMMA NoUnits == Units(Nothing) = 0
  BY DEF Units, Nothing

LEMMA Numbers ==
    ASSUME TypeOK
    PROVE  /\ owed \in Nat /\ Units(player.pending) \in Nat /\ Units(unsent) \in Nat
           /\ Load(net) \in Nat
<1>1. player.pending \in Sample /\ unsent \in Sample /\ net \in Nets /\ owed \in Nat
    BY DEF TypeOK, Player, Nets
<1> QED
    BY <1>1, SampleSums, SecondsFinite

LEMMA PlusUnits ==
    ASSUME NEW s \in Sample, NEW t \in Sample
    PROVE  Units(Plus(s, t)) = Units(s) + Units(t)
  BY DEF Sample, Plus, Units

LEMMA ReportUnits ==
    ASSUME TypeOK, NEW r \in Report
    PROVE  Units(r.sample) = Units(unsent) + Units(player.pending)
<1>1. r.sample = Plus(unsent, player.pending)
    BY DEF Report, Asked
<1>2. unsent \in Sample /\ player.pending \in Sample
    BY DEF TypeOK, Player
<1> QED
    BY <1>1, <1>2, PlusUnits

LEMMA ExposedInit == Init => Exposed
<1> SUFFICES ASSUME Init PROVE Exposed
    OBVIOUS
<1>1. TypeOK
    BY TypeInit
<1>2. owed = 0 /\ player.pending = Nothing
    BY DEF Init, Opened
<1>3. Counted
    BY <1>1, <1>2, Numbers DEF Counted
<1> QED
    BY <1>2, <1>3 DEF Exposed, NothingSeen, OnlyAtTheDesk

\* Nothing watched, nothing reported: the slots keep what they held, and the page
\* what it measured.
LEMMA QuietExposed ==
    ASSUME TypeOK, TypeOK', Exposed, Keeps(net, net'), UNCHANGED <<unsent, owed>>,
           player'.pending = player.pending, step' = step
    PROVE  Exposed'
<1>1. net \in Nets /\ net' \in Nets
    BY DEF TypeOK, Nets
<1>2. Load(net) <= Load(net') /\ Load(net') \in Nat
    BY <1>1, Carried, SecondsFinite
<1>3. Counted'
    BY <1>2, Numbers DEF Exposed, Counted
<1>4. NothingSeen' /\ OnlyAtTheDesk'
    BY DEF Exposed, NothingSeen, OnlyAtTheDesk, Mounted
<1> QED
    BY <1>3, <1>4 DEF Exposed

\* A page that closes owes nothing.
LEMMA ClosedExposed ==
    ASSUME TypeOK', Closed, step' \in {"login", "dashboard"}
    PROVE  Exposed'
<1>1. owed' = 0 /\ player'.pending = Nothing
    BY DEF Closed, Opened
<1>2. net' \in Nets /\ unsent' \in Sample /\ player'.pending \in Sample
    BY DEF TypeOK, Nets, Player
<1>3. Counted'
    BY <1>1, <1>2, SampleSums, SecondsFinite DEF Counted
<1> QED
    BY <1>1, <1>3 DEF Exposed, NothingSeen, OnlyAtTheDesk

\* What a page sends besides the reports it had.
LEMMA SendsKeepLate ==
    ASSUME NEW n \in Nets, Keeps(net, n), NEW S \in SUBSET Request, Send(n, S)
    PROVE  net' \in Nets /\ Keeps(net, net') /\ Keeps(n, net')
<1>1. net' \in Nets /\ \A i \in Slots : n[i] # NULL => net'[i] = n[i]
    BY Sends
<1> QED
    BY <1>1 DEF Keeps, Late

\* A report that is sent carries what the page held back.
LEMMA ReportLands ==
    ASSUME TypeOK, NEW n \in Nets, Keeps(net, n), NEW S \in SUBSET Request, Send(n, S),
           NEW r \in S, r.here, r.at = "sent"
    PROVE  Load(net) + Units(r.sample) <= Load(net') /\ Load(net') \in Nat
<1>1. net' \in Nets /\ Keeps(n, net') /\ net \in Nets
    BY SendsKeepLate DEF TypeOK, Nets
<1>2. PICK i \in Slots : n[i] = NULL /\ net'[i] = r
    BY Sends
<1>3. r # NULL
    BY NullAssumption
<1>4. i \in Late(net') \ Late(n)
    BY <1>2, <1>3 DEF Late
<1>5. Load(n) + Units(net'[i].sample) <= Load(net')
    BY <1>1, <1>4, TakenOn
<1>6. Load(net) <= Load(n)
    BY <1>1, Carried
<1>7. Load(net) \in Nat /\ Load(n) \in Nat /\ Load(net') \in Nat /\ Units(r.sample) \in Nat
    BY <1>1, <1>2, <1>3, SecondsFinite, LateUnits
<1> QED
    BY <1>2, <1>5, <1>6, <1>7

LEMMA LandExposed ==
    ASSUME TypeOK, TypeOK', Exposed, NEW n \in Nets, Keeps(net, n),
           NEW S \in SUBSET Request, NEW to \in PageSteps \ {"loading"},
           Land(n, to, S), owed' = owed
    PROVE  Exposed'
<1>1. PICK there \in IF to = "workspace" THEN {to, "daily-cap"} ELSE {to} :
        LET report == IF there = "workspace" THEN {} ELSE Report
        IN  /\ step' = there
            /\ player' \in IF there # "workspace" THEN {Opened(FALSE)}
                           ELSE IF step = "workspace" THEN {player}
                           ELSE {Opened(off) : off \in BOOLEAN}
            /\ Send(n, S \cup report \cup IF there # to THEN {Ask("release")} ELSE {})
            /\ unsent' = IF report = {} THEN unsent ELSE Nothing
    BY DEF Land
<1> DEFINE report == IF there = "workspace" THEN {} ELSE Report
           sent   == S \cup report \cup IF there # to THEN {Ask("release")} ELSE {}
<1>2. /\ step' = there /\ Send(n, sent)
      /\ unsent' = IF report = {} THEN unsent ELSE Nothing
    BY <1>1
<1>3. sent \in SUBSET Request
    BY ReportRequest, AskedRequest DEF Ask, Ops, Sample, Nothing
<1>4. report \subseteq sent
    OBVIOUS
<1> HIDE DEF sent
<1>5. net' \in Nets /\ Keeps(net, net') /\ net \in Nets
    BY <1>2, <1>3, SendsKeepLate DEF TypeOK, Nets
<1>6. Load(net) <= Load(net') /\ Load(net') \in Nat
    BY <1>5, Carried, SecondsFinite
<1>7. player'.pending = IF there = "workspace" THEN player.pending ELSE Nothing
    BY <1>1 DEF Opened, Exposed, OnlyAtTheDesk
<1>8. Counted'
    <2>1. CASE there = "workspace"
        <3>1. player'.pending = player.pending /\ unsent' = unsent
            BY <1>2, <1>7, <2>1
        <3> QED
            BY <1>6, <3>1, Numbers DEF Exposed, Counted
    <2>2. CASE there # "workspace" /\ Report = {}
        <3>1. player.pending = Nothing
            BY <2>2 DEF Report
        <3>2. player'.pending = player.pending /\ unsent' = unsent
            BY <1>2, <1>7, <2>2, <3>1
        <3> QED
            BY <1>6, <3>2, Numbers DEF Exposed, Counted
    <2>3. CASE there # "workspace" /\ Report # {}
        <3>1. PICK r \in Report : r.here /\ r.at = "sent"
            BY <2>3, ReportRequest
        <3>2. r \in sent
            BY <1>4, <2>3, <3>1
        <3>3. Load(net) + Units(r.sample) <= Load(net')
            BY <1>2, <1>3, <3>1, <3>2, ReportLands
        <3>4. player'.pending = Nothing /\ unsent' = Nothing
            BY <1>2, <1>7, <2>3
        <3> QED
            BY <1>6, <3>1, <3>3, <3>4, ReportUnits, Numbers, NoUnits DEF Exposed, Counted
    <2> QED
        BY <2>1, <2>2, <2>3
<1>9. step' \in PageSteps \ {"loading"}
    BY <1>2 DEF PageSteps
<1>10. NothingSeen'
    BY <1>9 DEF NothingSeen, Mounted
<1>11. OnlyAtTheDesk'
    BY <1>2, <1>7 DEF OnlyAtTheDesk
<1> QED
    BY <1>8, <1>10, <1>11 DEF Exposed

LEMMA SessionExposed ==
    ASSUME TypeOK, Exposed, SignIn \/ LoginRedirects \/ SignOut \/ DashboardSessionEnds
                            \/ Leave \/ OpenCase \/ Rerender
    PROVE  Exposed'
<1>0. TypeOK' /\ net \in Nets /\ Keeps(net, net)
    BY SessionTypes DEF TypeOK, Nets, Keeps
<1> USE DEF Mounted, PageSteps, ReviewSteps, DraftSteps
<1>1. CASE SignIn \/ LoginRedirects
    <2>1. /\ step = "login" /\ step' = "dashboard"
          /\ UNCHANGED <<player, unsent, net, owed>>
        BY <1>1 DEF SignIn, LoginRedirects
    <2>2. Counted'
        BY <2>1 DEF Exposed, Counted
    <2> QED
        BY <2>1, <2>2 DEF Exposed, NothingSeen, OnlyAtTheDesk
<1>2. CASE SignOut \/ DashboardSessionEnds \/ Leave
    BY <1>0, <1>2, ClosedExposed DEF SignOut, DashboardSessionEnds, SignOutFrom, Leave
<1>3. CASE OpenCase
    <2>1. /\ step = "dashboard" /\ step' = "loading" /\ UNCHANGED <<player, unsent, owed>>
          /\ Send(net, {[Ask("detail") EXCEPT !.token = stored]})
        BY <1>3 DEF OpenCase
    <2>2. owed' = 0
        BY <2>1 DEF Exposed, NothingSeen
    <2>3. net' \in Nets /\ player'.pending \in Sample /\ unsent' \in Sample
        BY <1>0 DEF TypeOK, Nets, Player
    <2>4. Counted'
        BY <2>2, <2>3, SampleSums, SecondsFinite DEF Counted
    <2> QED
        BY <2>1, <2>2, <2>4 DEF Exposed, NothingSeen, OnlyAtTheDesk
<1>4. CASE Rerender
    BY <1>0, <1>4, QuietExposed DEF Rerender
<1> QED
    BY <1>1, <1>2, <1>3, <1>4

LEMMA AskExposed ==
    ASSUME TypeOK, TypeOK', Exposed, NEW op \in Ops, Send(net, {Ask(op)}),
           UNCHANGED <<step, player, unsent, owed>>
    PROVE  Exposed'
<1>1. Ask(op) \in Request
    BY AskedRequest DEF Ask, Sample, Nothing
<1>2. net \in Nets /\ Keeps(net, net)
    BY DEF TypeOK, Nets, Keeps
<1>3. Keeps(net, net')
    BY <1>1, <1>2, SendsKeepLate
<1> QED
    BY <1>3, QuietExposed

LEMMA PageExposed ==
    ASSUME TypeOK, Exposed,
           \/ ContinueToReview \/ BackToSummary \/ RateSeverity \/ BackToReview
           \/ TalkToManager \/ Proceed \/ OpenDecline \/ CancelDecline
           \/ SubmitDecline \/ Resolve \/ PressSos \/ AnalysisFails \/ TryAgain
           \/ SessionProbe \/ SubmitPassword
    PROVE  Exposed'
<1>0. TypeOK' /\ net \in Nets /\ Keeps(net, net) /\ player \in Player
    BY PageTypes DEF TypeOK, Nets, Keeps
<1> USE DEF PageSteps, ReviewSteps, DraftSteps
<1>1. ASSUME NEW from, NEW to \in PageSteps \ {"loading"}, Walk(from, to) PROVE Exposed'
    BY <1>0, <1>1, LandExposed DEF Walk
<1>2. CASE ContinueToReview \/ BackToSummary \/ RateSeverity \/ BackToReview \/ TalkToManager
    BY <1>1, <1>2
       DEF ContinueToReview, BackToSummary, RateSeverity, BackToReview, TalkToManager
<1>3. CASE Proceed \/ SubmitDecline \/ Resolve \/ SubmitPassword \/ TryAgain
    <2>1. UNCHANGED <<step, player, unsent, owed>>
        BY <1>3 DEF Proceed, SubmitDecline, Resolve, SubmitPassword, TryAgain
    <2>2. PICK op \in Ops : Send(net, {Ask(op)})
        BY <1>3 DEF Proceed, SubmitDecline, Resolve, SubmitPassword, TryAgain, Await, Ops
    <2> QED
        BY <1>0, <2>1, <2>2, AskExposed
<1>4. CASE OpenDecline \/ CancelDecline
    BY <1>0, <1>4, QuietExposed DEF OpenDecline, CancelDecline
<1>5. CASE SessionProbe
    <2>1. player'.pending = player.pending
        BY <1>0, <1>5 DEF SessionProbe, Interrupted, Player
    <2> QED
        BY <1>0, <1>5, <2>1, QuietExposed DEF SessionProbe
<1>6. CASE PressSos \/ AnalysisFails
    <2>1. Land(net, "sos", {Ask("sos")}) /\ owed' = owed
        BY <1>6 DEF PressSos, AnalysisFails, Pause
    <2>2. {Ask("sos")} \in SUBSET Request
        BY AskedRequest DEF Ask, Ops, Sample, Nothing
    <2> QED
        BY <1>0, <2>1, <2>2, LandExposed
<1> QED
    BY <1>2, <1>3, <1>4, <1>5, <1>6

LEMMA WorkspaceExposed ==
    ASSUME TypeOK, Exposed, \/ TogglePlayback \/ Watch \/ Seek \/ ConnectionDrops
                            \/ ConnectionReturns \/ FlushTimer \/ LimitReached
    PROVE  Exposed'
<1>0. TypeOK' /\ net \in Nets /\ Keeps(net, net) /\ player \in Player
    BY WorkspaceTypes DEF TypeOK, Nets, Keeps
<1>1. ASSUME NEW p, Plays(p), p.pending = player.pending, owed' = owed PROVE Exposed'
    BY <1>0, <1>1, QuietExposed DEF Plays
<1>2. CASE TogglePlayback \/ ConnectionDrops \/ ConnectionReturns
    BY <1>0, <1>1, <1>2 DEF TogglePlayback, Toggled, ConnectionDrops, GoneOffline, Interrupted,
       ConnectionReturns, GoneOnline, Player
<1>3. CASE Seek
    <2>1. PICK to \in 0..Duration : Plays(Sought(player, to)) /\ owed' = owed
        BY <1>3 DEF Seek
    <2> QED
        BY <1>0, <1>1, <2>1 DEF Sought, Player
\* What is watched is owed, and measured, at once.
<1>4. CASE Watch
    <2>1. PICK to \in (player.position + 1)..Duration :
             Plays(Played(player, to)) /\ owed' = owed + to - player.position
        BY <1>4 DEF Watch
    <2>2. Units(player'.pending) = Units(player.pending) + to - player.position
        BY <1>0, <2>1, PlayedPlayer DEF Plays
    <2>3. /\ step = "workspace" /\ UNCHANGED <<step, unsent, net>>
        BY <2>1 DEF Plays
    <2>4. player.position \in Nat /\ to \in Nat
        BY <1>0, <2>1, PlaybackAssumption DEF Player
    <2>5. Counted'
        BY <2>1, <2>2, <2>3, <2>4, Numbers DEF Exposed, Counted
    <2> QED
        BY <2>3, <2>5 DEF Exposed, NothingSeen, OnlyAtTheDesk, Mounted, PageSteps, ReviewSteps,
           DraftSteps
<1>5. CASE FlushTimer
    <2>1. /\ step = "workspace" /\ player' = Reported(player) /\ unsent' = Nothing
          /\ Send(net, Report) /\ UNCHANGED <<step, owed>>
        BY <1>5 DEF FlushTimer
    <2>2. PICK r \in Report : r.here /\ r.at = "sent"
        BY <1>5, ReportRequest DEF FlushTimer
    <2>3. Load(net) + Units(r.sample) <= Load(net') /\ Load(net') \in Nat
        BY <1>0, <2>1, <2>2, ReportRequest, ReportLands
    <2>4. player'.pending = Nothing
        BY <1>0, <2>1 DEF Reported, Player
    <2>5. Counted'
        BY <2>1, <2>2, <2>3, <2>4, ReportUnits, Numbers, NoUnits DEF Exposed, Counted
    <2> QED
        BY <2>1, <2>4, <2>5 DEF Exposed, NothingSeen, OnlyAtTheDesk, Mounted
<1>6. CASE LimitReached
    BY <1>0, <1>6, LandExposed DEF LimitReached, PageSteps, ReviewSteps, DraftSteps
<1> QED
    BY <1>2, <1>3, <1>4, <1>5, <1>6

\* A request that is served as a failure, or never, may still be reported as failed.
LEMMA UnansweredKeeps ==
    ASSUME TypeOK, NEW i \in Slots, NEW a \in Answers \ {"ok"}, net[i] # NULL,
           net[i].at = "sent", Settled(i, a)
    PROVE  Keeps(net, net')
<1>1. /\ \A j \in Slots \ {i} : net'[j] = net[j]
      /\ net'[i] # NULL /\ net'[i].here = net[i].here /\ net'[i].at = a
      /\ net'[i].sample = net[i].sample
    BY Served
<1> QED
    BY <1>1 DEF Keeps, Late

LEMMA BackendExposed ==
    ASSUME TypeOK, Exposed, NEW i \in Slots, Serve(i) \/ Fails(i) \/ Unauthorised(i)
    PROVE  Exposed'
<1>0. TypeOK' /\ net \in Nets /\ net' \in Nets
    BY BackendTypes DEF TypeOK, Nets
<1>1. CASE Fails(i) \/ Unauthorised(i)
    <2>1. PICK a \in Answers \ {"ok"} : Settled(i, a)
        BY <1>1 DEF Fails, Unauthorised, Answers
    <2>2. /\ net[i] # NULL /\ net[i].at = "sent"
          /\ UNCHANGED <<step, player, unsent, owed>>
        BY <1>1 DEF Fails, Unauthorised, Page
    <2> QED
        BY <1>0, <2>1, <2>2, UnansweredKeeps, QuietExposed
<1>2. CASE Serve(i)
    <2>1. PICK a \in {"ok", "failed"} : Settled(i, a)
        BY <1>2 DEF Serve
    <2>2. /\ net[i] # NULL /\ net[i].at = "sent"
          /\ owed' = IF net[i].here THEN Greatest(0, owed - Units(net[i].sample)) ELSE owed
          /\ UNCHANGED <<step, player, unsent>>
        BY <1>2 DEF Serve, Page
    <2>3. net[i].op = "reauth" => Issued <= MaxTokens
        BY <1>2 DEF Serve, Accepts
    <2>4. /\ \A j \in Slots \ {i} : net'[j] = net[j]
          /\ net'[i] # NULL /\ net'[i].here = net[i].here
        BY <2>1, <2>2, <2>3, Served DEF Answers
    <2>5. Units(net[i].sample) \in Nat
        BY <1>0, <2>2, LateUnits
    <2>6. owed' = 0 \/ owed' = owed \/ owed' = owed - Units(net[i].sample)
        BY <2>2 DEF Greatest
    <2>7. owed' \in Nat /\ owed' <= owed
        BY <2>2, <2>5, <2>6, Numbers DEF Greatest
    <2>8. Load(net') \in Nat
        BY <1>0, SecondsFinite
    <2>9. Counted'
        <3>1. CASE net[i].here
            <4>1. Load(net) <= Load(net') + Units(net[i].sample)
                BY <1>0, <2>2, <2>4, LetGo DEF Late
            <4> DEFINE k == Units(net[i].sample)
            <4>2. owed' = IF owed - k < 0 THEN 0 ELSE owed - k
                BY <2>2, <2>5, <3>1, Numbers DEF Greatest
            <4> HIDE DEF k
            <4>3. k \in Nat /\ Load(net) <= Load(net') + k
                BY <2>5, <4>1 DEF k
            <4> QED
                BY <2>2, <2>8, <4>2, <4>3, Numbers DEF Exposed, Counted
        <3>2. CASE ~net[i].here
            <4>1. Keeps(net, net')
                BY <2>4, <3>2 DEF Keeps, Late
            <4>2. Load(net) <= Load(net')
                BY <1>0, <4>1, Carried
            <4> QED
                BY <2>2, <2>8, <3>2, <4>2, Numbers DEF Exposed, Counted
        <3>3. net[i].here \in BOOLEAN
            BY <1>0, <2>2 DEF Nets, Request
        <3> QED
            BY <3>1, <3>2
    <2>10. NothingSeen'
        BY <2>2, <2>7, Numbers DEF Exposed, NothingSeen, Mounted
    <2>11. OnlyAtTheDesk'
        BY <2>2 DEF Exposed, OnlyAtTheDesk
    <2> QED
        BY <2>9, <2>10, <2>11 DEF Exposed
<1> QED
    BY <1>1, <1>2

\* A request that succeeded carries nothing that may yet fail.
LEMMA AnsweredKeeps ==
    ASSUME TypeOK, NEW i \in Slots, net[i] # NULL, net[i].at = "ok" \/ ~net[i].here
    PROVE  Freed(i) \in Nets /\ Keeps(net, Freed(i))
<1>1. /\ Freed(i) \in Nets /\ Freed(i)[i] = NULL
      /\ \A j \in Slots \ {i} : Freed(i)[j] = net[j]
    BY FreedNet
<1> QED
    BY <1>1 DEF Keeps, Late

LEMMA AnswerExposed ==
    ASSUME Safe, Exposed, NEW i \in Slots, Handled(i)
    PROVE  Exposed'
<1>0. /\ TypeOK /\ TypeOK' /\ Freed(i) \in Nets /\ Freed(i)[i] = NULL /\ net \in Nets
      /\ \A j \in Slots \ {i} : Freed(i)[j] = net[j]
      /\ player \in Player /\ unsent \in Sample
    BY AnswerTypes, FreedNet DEF Safe, TypeOK, Nets
\* The case has loaded, or has not: nothing was watched yet.
<1>1. CASE Opens(i) \/ DoesNotOpen(i)
    <2>1. /\ Here(i) /\ net[i].op = "detail" /\ net' = Freed(i)
          /\ step' \in {"resolved", "gate", "load-failed"}
          /\ UNCHANGED <<player, unsent, owed>>
        BY <1>1 DEF Opens, DoesNotOpen, Answered, Here
    <2>2. step = "loading"
        BY <2>1 DEF Safe, Alone
    <2>3. owed' = 0 /\ player'.pending = Nothing
        BY <2>1, <2>2 DEF Exposed, NothingSeen, OnlyAtTheDesk
    <2>4. net' \in Nets /\ player'.pending \in Sample /\ unsent' \in Sample
        BY <1>0 DEF TypeOK, Nets, Player
    <2>5. Counted'
        BY <2>3, <2>4, SampleSums, SecondsFinite DEF Counted
    <2> QED
        BY <2>3, <2>5 DEF Exposed, NothingSeen, OnlyAtTheDesk
<1>2. CASE OpensWithoutSession(i)
    BY <1>0, <1>2, ClosedExposed DEF OpensWithoutSession, SignOutFrom
<1>3. CASE Proceeds(i) \/ Declines(i) \/ Submits(i)
    <2>1. /\ net[i] # NULL /\ net[i].at = "ok" /\ owed' = owed
          /\ \E to \in PageSteps \ {"loading"} : Land(Freed(i), to, {})
        BY <1>0, <1>3, FirstStepIsReview DEF Proceeds, Declines, Submits, Ends, Answered,
           PageSteps, ReviewSteps, DraftSteps
    <2> QED
        BY <1>0, <2>1, AnsweredKeeps, LandExposed
<1>4. CASE SosSent(i) \/ Noted(i) \/ Outlives(i)
    <2>1. /\ net[i] # NULL /\ (net[i].at = "ok" \/ ~net[i].here) /\ net' = Freed(i)
          /\ UNCHANGED <<step, player, unsent, owed>>
        BY <1>4 DEF SosSent, Noted, Outlives, Answered, Page
    <2> QED
        BY <1>0, <2>1, AnsweredKeeps, QuietExposed
\* The sample of a report that failed goes to the next one.
<1>5. CASE Failed(i)
    <2>1. /\ net[i] # NULL /\ net' = Freed(i) /\ unsent' = Plus(unsent, net[i].sample)
          /\ player' \in {player, Interrupted(player)} /\ UNCHANGED <<step, owed>>
        BY <1>5 DEF Failed, Kept, Answered
    <2>2. net[i].sample \in Sample /\ Units(net[i].sample) \in Nat
        BY <1>0, <2>1, LateUnits
    <2>3. Units(unsent') = Units(unsent) + Units(net[i].sample)
        BY <1>0, <2>1, <2>2, PlusUnits
    <2>4. player'.pending = player.pending
        BY <1>0, <2>1 DEF Interrupted, Player
    <2>5. Load(net) <= Load(net') + Units(net[i].sample)
        BY <1>0, <2>1, LetGo DEF Late
    <2>6. Load(net') \in Nat
        BY <1>0, <2>1, SecondsFinite
    <2>7. Counted'
        BY <1>0, <2>1, <2>2, <2>3, <2>4, <2>5, <2>6, Numbers DEF Exposed, Counted
    <2> QED
        BY <2>1, <2>4, <2>7 DEF Exposed, NothingSeen, OnlyAtTheDesk, Mounted
\* What was kept is sent once the session is back.
<1>6. CASE SignedInAgain(i)
    <2> DEFINE kept == (IF unsent = Nothing THEN {} ELSE {Asked("exposure", unsent)})
                          \cup IF sos.retry THEN {Ask("sos")} ELSE {}
               S    == {[r EXCEPT !.token = held'] : r \in kept}
    <2>1. /\ net[i] # NULL /\ net[i].at = "ok" /\ unsent' = Nothing
          /\ Send(Freed(i), S) /\ UNCHANGED <<step, player, owed>>
        BY <1>6 DEF SignedInAgain, Answered
    <2>2. held' \in 0..MaxTokens /\ Nothing \in Sample
        BY <1>0 DEF TypeOK, Sample, Nothing
    <2>3. S \in SUBSET Request
        BY <1>0, <2>2, AskedRequest DEF Ask, Ops
    <2>4. Freed(i) \in Nets /\ Keeps(net, Freed(i))
        BY <1>0, <2>1, AnsweredKeeps
    <2>5. unsent # Nothing =>
             \E r \in S : r.here /\ r.at = "sent" /\ r.sample = unsent
        <3>1. unsent # Nothing => [Asked("exposure", unsent) EXCEPT !.token = held'] \in S
            OBVIOUS
        <3>2. LET r == [Asked("exposure", unsent) EXCEPT !.token = held']
              IN  r.here /\ r.at = "sent" /\ r.sample = unsent
            BY DEF Asked
        <3> QED
            BY <3>1, <3>2
    <2> HIDE DEF S
    <2>6. Load(net) <= Load(net') /\ Load(net') \in Nat
        BY <1>0, <2>1, <2>3, <2>4, SendsKeepLate, Carried, SecondsFinite
    <2>7. Counted'
        <3>1. CASE unsent = Nothing
            BY <1>0, <2>1, <2>6, <3>1, Numbers DEF Exposed, Counted
        <3>2. CASE unsent # Nothing
            <4>1. PICK r \in S : r.here /\ r.at = "sent" /\ r.sample = unsent
                BY <2>5, <3>2
            <4>2. Load(net) + Units(unsent) <= Load(net')
                BY <1>0, <2>1, <2>3, <2>4, <4>1, ReportLands
            <4> QED
                BY <1>0, <2>1, <2>6, <4>2, Numbers, NoUnits DEF Exposed, Counted
        <3> QED
            BY <3>1, <3>2
    <2> QED
        BY <2>1, <2>7 DEF Exposed, NothingSeen, OnlyAtTheDesk, Mounted
<1> QED
    BY <1>1, <1>2, <1>3, <1>4, <1>5, <1>6 DEF Handled

LEMMA ExposedStep == Safe /\ Exposed /\ [Next]_vars => Exposed'
<1> SUFFICES ASSUME Safe, Exposed, [Next]_vars PROVE Exposed'
    OBVIOUS
<1>0. TypeOK /\ TypeOK'
    BY TypeStep DEF Safe
<1>1. CASE SessionsLost \/ ManagerReassigns \/ UNCHANGED vars
    <2>1. UNCHANGED <<step, player, unsent, net, owed>>
        BY <1>1 DEF SessionsLost, ManagerReassigns, vars, Page
    <2>2. Keeps(net, net')
        BY <2>1 DEF Keeps
    <2> QED
        BY <1>0, <2>1, <2>2, QuietExposed
<1> QED
    BY <1>0, <1>1, SessionExposed, PageExposed, WorkspaceExposed, BackendExposed, AnswerExposed
       DEF Next, Arrives

\* Measured exposure is never dropped, whichever reports fail and whatever order
\* their answers come in: what was watched in an open page is counted by the
\* backend, on its way, or kept for the next report.
THEOREM ExposureSurvives == Spec => []ExposureIsKept
<1>1. TypeOK /\ Exposed => ExposureIsKept
    BY InFlightLoad DEF Exposed, Counted, ExposureIsKept
<1>2. Safe => TypeOK
    BY DEF Safe
<1> QED
    BY <1>1, <1>2, ExposedInit, ExposedStep, AlwaysSafe, PTL DEF Spec
=============================================================================
