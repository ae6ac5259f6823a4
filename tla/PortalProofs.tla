---------------------------- MODULE PortalProofs ----------------------------
(***************************************************************************)
(* Theorems about MockPortal: reports and what a client gets of them, for  *)
(* any clients, users, periods and bounds. What a report's figures are is  *)
(* left open: nothing here depends on it.                                  *)
(***************************************************************************)
EXTENDS MockPortal, FiniteInduction, WellFoundedInduction, SequenceTheorems, FunctionTheorems

(***************************************************************************)
(* A set of numbers that are not above a bound has a greatest one.         *)
(***************************************************************************)
LEMMA Greatest ==
    ASSUME NEW B \in Nat, NEW S \in SUBSET (0..B), S # {}
    PROVE  Max(S) \in S /\ \A x \in S : x <= Max(S)
<1> DEFINE below == {ss \in Nat \X Nat : ss[1] < ss[2]}
           T     == {n \in Nat : B - n \in S}
<1>1. IsWellFoundedOn(below, Nat)
    BY NatLessThanWellFounded DEF OpToRel
<1>2. T # {} /\ T \subseteq Nat
    <2>1. PICK x \in S : TRUE
        OBVIOUS
    <2>2. B - x \in Nat /\ B - (B - x) = x
        BY <2>1
    <2> QED
        BY <2>1, <2>2
<1>3. PICK n \in T : \A m \in T : ~(<<m, n>> \in below)
    <2> HIDE DEF below, T
    <2> QED
        BY <1>1, <1>2, WFMin
<1>4. \A m \in T : ~(m < n)
    BY <1>3
<1>5. \A x \in S : B - n >= x
    <2> SUFFICES ASSUME NEW x \in S PROVE B - n >= x
        OBVIOUS
    <2>1. x \in 0..B /\ B - x \in Nat /\ B - (B - x) = x
        OBVIOUS
    <2>2. B - x \in T
        BY <2>1
    <2>3. ~(B - x < n)
        BY <1>4, <2>2
    <2> QED
        BY <1>3, <2>1, <2>3
<1>6. \E x \in S : \A y \in S : x >= y
    BY <1>3, <1>5
<1>7. Max(S) \in S /\ \A y \in S : Max(S) >= y
    BY <1>6 DEF Max
<1> QED
    BY <1>7

(***************************************************************************)
(* The list of reports, whatever is in their figures.                      *)
(***************************************************************************)
ReportOver(M) == [organisation_id : Clients, period : Periods, version : Nat,
                  status : {"DRAFT", "RELEASED"}, note : BOOLEAN, metrics : M]

Listed == \E M : reports \in Seq(ReportOver(M))

\* A version counts reports, so it is not above their number.
Counted == \A i \in DOMAIN reports : reports[i].version <= Len(reports)

Filed == /\ access \subseteq Access /\ messages \in Seq(Message)
         /\ \A m \in DOMAIN messages : messages[m].status = "ANSWERED" => messages[m].reply

Record == Listed /\ Counted /\ Filed /\ ReportsAreVersioned /\ ClientsStayHome

LEMMA RecordInit == Init => Record
<1> SUFFICES ASSUME Init PROVE Record
    OBVIOUS
<1>1. Listed
    BY DEF Init, Listed
<1>2. Counted /\ Filed /\ ReportsAreVersioned /\ ClientsStayHome
    BY DEF Init, Counted, Filed, ReportsAreVersioned, ClientsStayHome
<1> QED
    BY <1>1, <1>2 DEF Record

\* A list of reports changes at one place, where a row becomes another one of the
\* same client, period and version, or grows by one.
LEMMA Rewritten ==
    ASSUME NEW M, reports \in Seq(ReportOver(M)), NEW i \in DOMAIN reports,
           NEW N, NEW row \in ReportOver(N), reports' = [reports EXCEPT ![i] = row]
    PROVE  /\ Listed' /\ Len(reports') = Len(reports) /\ DOMAIN reports' = DOMAIN reports
           /\ reports'[i] = row
           /\ \A j \in DOMAIN reports \ {i} : reports'[j] = reports[j]
<1> DEFINE K == M \cup N
<1>1. ReportOver(M) \subseteq ReportOver(K) /\ row \in ReportOver(K)
    BY DEF ReportOver
<1>2. reports \in Seq(ReportOver(K))
    BY <1>1, SeqMonotonic
<1>3. reports' \in Seq(ReportOver(K)) /\ Len(reports') = Len(reports)
    BY <1>1, <1>2
<1> QED
    BY <1>2, <1>3 DEF Listed

LEMMA Added ==
    ASSUME NEW M, reports \in Seq(ReportOver(M)),
           NEW N, NEW row \in ReportOver(N), reports' = Append(reports, row)
    PROVE  /\ Listed' /\ Len(reports') = Len(reports) + 1 /\ Len(reports) \in Nat
           /\ DOMAIN reports = 1..Len(reports) /\ DOMAIN reports' = 1..(Len(reports) + 1)
           /\ reports'[Len(reports) + 1] = row
           /\ \A j \in DOMAIN reports : reports'[j] = reports[j]
<1> DEFINE K == M \cup N
<1>1. ReportOver(M) \subseteq ReportOver(K) /\ row \in ReportOver(K)
    BY DEF ReportOver
<1>2. reports \in Seq(ReportOver(K))
    BY <1>1, SeqMonotonic
<1>3. reports' \in Seq(ReportOver(K))
    BY <1>1, <1>2
<1> QED
    BY <1>2, <1>3 DEF Listed

\* What a step may do to the reports there are.
Kept == /\ DOMAIN reports \subseteq DOMAIN reports'
        /\ \A i \in DOMAIN reports : ~Draft(i) => reports'[i] = reports[i]

LEMMA StaysHome ==
    ASSUME Record, Kept, UNCHANGED <<access, messages>>
    PROVE  ClientsStayHome' /\ Filed'
<1>1. \A u, i : TheirsToSee(u, i) => TheirsToSee(u, i)'
    BY DEF Kept, TheirsToSee, Draft
<1> QED
    BY <1>1 DEF Record, ClientsStayHome, Filed

LEMMA NoteRow ==
    ASSUME NEW M, NEW row \in ReportOver(M), NEW note \in BOOLEAN
    PROVE  LET new == [row EXCEPT !.note = note]
           IN  /\ new \in ReportOver(M) /\ new.version = row.version
               /\ new.status = row.status /\ new.period = row.period
               /\ new.organisation_id = row.organisation_id
  BY DEF ReportOver

LEMMA ReleasedRow ==
    ASSUME NEW M, NEW row \in ReportOver(M)
    PROVE  LET new == [row EXCEPT !.status = "RELEASED"]
           IN  /\ new \in ReportOver(M) /\ new.version = row.version
               /\ new.status = "RELEASED" /\ new.period = row.period
               /\ new.organisation_id = row.organisation_id
  BY DEF ReportOver

LEMMA RefreshedRow ==
    ASSUME NEW M, NEW row \in ReportOver(M), NEW metrics
    PROVE  LET new == [row EXCEPT !.metrics = metrics]
           IN  /\ new \in ReportOver({metrics}) /\ new.version = row.version
               /\ new.status = row.status /\ new.period = row.period
               /\ new.organisation_id = row.organisation_id
  BY DEF ReportOver

\* A draft changes, or is released: its place among the versions stays.
LEMMA DraftChanges ==
    ASSUME Record, NEW M, reports \in Seq(ReportOver(M)), NEW i \in DOMAIN reports, Draft(i),
           NEW N, NEW row \in ReportOver(N), reports' = [reports EXCEPT ![i] = row],
           row.version = reports[i].version, row.period = reports[i].period,
           row.organisation_id = reports[i].organisation_id,
           UNCHANGED <<access, messages>>
    PROVE  Record' /\ Kept
<1>1. /\ Listed' /\ Len(reports') = Len(reports) /\ DOMAIN reports' = DOMAIN reports
      /\ reports'[i] = row
      /\ \A j \in DOMAIN reports \ {i} : reports'[j] = reports[j]
    BY Rewritten
<1>2. Kept
    BY <1>1 DEF Kept
<1>3. Counted'
    BY <1>1 DEF Record, Counted
<1>4. ReportsAreVersioned'
    BY <1>1 DEF Record, ReportsAreVersioned, Draft
<1> QED
    BY <1>1, <1>2, <1>3, <1>4, StaysHome DEF Record

LEMMA GenerateKeeps ==
    ASSUME Record, NEW org \in Clients, NEW p \in Periods, GenerateReport(org, p)
    PROVE  Record' /\ Kept
<1> DEFINE drafts  == {i \in SamePeriod(org, p) : Draft(i)}
           versions == {reports[i].version : i \in SamePeriod(org, p)}
           newest  == Max({0} \cup versions)
           metrics == ComputeMetrics(RowsOf(org), SentTo(deliveries', org), p)
           new     == [organisation_id |-> org, period |-> p, version |-> newest + 1,
                       status |-> "DRAFT", note |-> FALSE, metrics |-> metrics]
<1>1. /\ UNCHANGED <<access, messages>>
      /\ drafts # {} => reports' = [reports EXCEPT ![Min(drafts)].metrics = metrics]
      /\ drafts = {} => reports' = Append(reports, new)
    BY DEF GenerateReport
<1> HIDE DEF metrics
<1>2. PICK M : reports \in Seq(ReportOver(M))
    BY DEF Record, Listed
<1>3. /\ Len(reports) \in Nat /\ DOMAIN reports = 1..Len(reports)
      /\ \A i \in DOMAIN reports : reports[i] \in ReportOver(M)
    BY <1>2
<1>4. SamePeriod(org, p) \subseteq DOMAIN reports
    BY DEF SamePeriod
<1>5. CASE drafts # {}
    <2>1. PICK i \in drafts : TRUE
        BY <1>5
    <2>2. drafts = {i}
        BY <2>1 DEF Record, ReportsAreVersioned, SamePeriod
    <2>3. i \in DOMAIN reports /\ Draft(i)
        BY <1>4, <2>1
    <2>4. Min({i}) = i
        BY <1>3, <2>3 DEF Min
    <2>5. reports' = [reports EXCEPT ![i] = [reports[i] EXCEPT !.metrics = metrics]]
        BY <1>1, <1>3, <1>5, <2>2, <2>3, <2>4
    <2> QED
        BY <1>1, <1>2, <1>3, <2>3, <2>5, RefreshedRow, DraftChanges
<1>6. CASE drafts = {}
    <2>1. versions \subseteq 0..Len(reports)
        BY <1>3, <1>4 DEF Record, Counted, ReportOver
    <2>2. /\ newest \in 0..Len(reports)
          /\ \A i \in SamePeriod(org, p) : reports[i].version <= newest
        <3>1. {0} \cup versions \in SUBSET (0..Len(reports))
            BY <1>3, <2>1
        <3>2. newest \in {0} \cup versions /\ \A x \in {0} \cup versions : x <= newest
            BY <1>3, <3>1, Greatest
        <3> QED
            BY <3>1, <3>2
    <2> HIDE DEF newest
    <2>3. new \in ReportOver({metrics}) /\ new.version = newest + 1 /\ new.status = "DRAFT"
          /\ new.organisation_id = org /\ new.period = p
        BY <1>3, <2>2 DEF ReportOver
    <2>4. reports' = Append(reports, new)
        BY <1>1, <1>6
    <2> HIDE DEF new
    <2>5. /\ Listed' /\ Len(reports') = Len(reports) + 1
          /\ DOMAIN reports' = 1..(Len(reports) + 1)
          /\ reports'[Len(reports) + 1] = new
          /\ \A j \in DOMAIN reports : reports'[j] = reports[j]
        BY <1>2, <2>3, <2>4, Added
    <2>6. Kept
        BY <1>3, <2>5 DEF Kept
    <2>7. Counted'
        <3> SUFFICES ASSUME NEW i \in DOMAIN reports' PROVE reports'[i].version <= Len(reports')
            BY DEF Counted
        <3>1. CASE i \in DOMAIN reports
            <4>1. reports[i].version <= Len(reports) /\ reports[i].version \in Nat
                BY <1>3, <3>1 DEF Record, Counted, ReportOver
            <4> QED
                BY <1>3, <2>5, <3>1, <4>1
        <3>2. CASE i = Len(reports) + 1
            BY <1>3, <2>2, <2>3, <2>5, <3>2
        <3> QED
            BY <1>3, <2>5, <3>1, <3>2
    <2>8. ReportsAreVersioned'
        <3> DEFINE n == Len(reports) + 1
        <3>1. \A i \in DOMAIN reports :
                 reports[i].organisation_id = org /\ reports[i].period = p
                    => ~Draft(i) /\ reports[i].version < newest + 1
            <4> SUFFICES ASSUME NEW i \in DOMAIN reports,
                                reports[i].organisation_id = org, reports[i].period = p
                         PROVE  ~Draft(i) /\ reports[i].version < newest + 1
                OBVIOUS
            <4>1. i \in SamePeriod(org, p)
                BY DEF SamePeriod
            <4>2. reports[i].version \in Nat /\ newest \in Nat
                BY <1>3, <2>2 DEF ReportOver
            <4> QED
                BY <1>6, <2>2, <4>1, <4>2
        <3>2. DOMAIN reports' = DOMAIN reports \cup {n} /\ n \notin DOMAIN reports
            BY <1>3, <2>5
        <3>3. \A i \in DOMAIN reports : reports[i].version \in Nat
            BY <1>3 DEF ReportOver
        <3>4. newest \in Nat
            BY <1>3, <2>2
        <3> HIDE DEF n
        <3>5. reports'[n] = new
            BY <2>5 DEF n
        <3> SUFFICES ASSUME NEW i \in DOMAIN reports', NEW j \in DOMAIN reports', i # j,
                            reports'[i].organisation_id = reports'[j].organisation_id,
                            reports'[i].period = reports'[j].period
                     PROVE  /\ reports'[i].version # reports'[j].version
                            /\ reports'[i].status = "DRAFT" =>
                                  /\ reports'[j].status # "DRAFT"
                                  /\ reports'[j].version < reports'[i].version
            BY DEF ReportsAreVersioned, Draft
        <3>6. CASE i # n /\ j # n
            BY <2>5, <3>2, <3>6 DEF Record, ReportsAreVersioned, Draft
        <3>7. CASE i = n
            <4>1. j \in DOMAIN reports /\ reports'[j] = reports[j]
                BY <2>5, <3>2, <3>7
            <4>2. ~Draft(j) /\ reports[j].version < newest + 1
                BY <2>3, <3>1, <3>5, <3>7, <4>1
            <4> QED
                BY <2>3, <3>3, <3>4, <3>5, <3>7, <4>1, <4>2 DEF Draft
        <3>8. CASE j = n /\ i # n
            <4>1. i \in DOMAIN reports /\ reports'[i] = reports[i]
                BY <2>5, <3>2, <3>8
            <4>2. ~Draft(i) /\ reports[i].version < newest + 1
                BY <2>3, <3>1, <3>5, <3>8, <4>1
            <4> QED
                BY <2>3, <3>3, <3>4, <3>5, <3>8, <4>1, <4>2 DEF Draft
        <3> QED
            BY <3>6, <3>7, <3>8
    <2> QED
        BY <1>1, <2>5, <2>6, <2>7, <2>8, StaysHome DEF Record
<1> QED
    BY <1>5, <1>6

\* What a step may do to the messages there are.
Answering == \A m \in DOMAIN messages :
    /\ messages[m].status = "SEEN" => messages'[m].status # "SENT"
    /\ messages[m].status = "ANSWERED" => messages'[m] = messages[m]

LEMMA ReleasedIsTheirs ==
    ASSUME Record, NEW u, NEW i, ReleasedTo(u, i)
    PROVE  TheirsToSee(u, i)
<1>1. PICK M : reports \in Seq(ReportOver(M))
    BY DEF Record, Listed
<1>2. i \in DOMAIN reports /\ ~Draft(i) /\ reports[i].organisation_id = OwnOf(u)
    BY DEF ReleasedTo
<1>3. reports[i] \in ReportOver(M)
    BY <1>1, <1>2
<1> QED
    BY <1>2, <1>3 DEF TheirsToSee, Draft, OwnOf, ReportOver

\* The steps that file something: a request for a report, a message, an answer.
LEMMA RequestKeeps ==
    ASSUME Record, NEW u \in DOMAIN Users, NEW i \in 0..MaxReports,
           NEW action \in {"VIEW", "DOWNLOAD"}, AuthoriseClientReport(u, i, action)
    PROVE  Record' /\ access \subseteq access' /\ UNCHANGED <<reports, messages>>
<1> DEFINE e == [report |-> i, user |-> u, action |-> action,
                 access_result |-> IF ReleasedTo(u, i) THEN "SUCCESS" ELSE "DENIED"]
<1>1. access' = access \cup {e} /\ UNCHANGED <<reports, messages>>
    BY DEF AuthoriseClientReport
<1>2. e \in Access /\ e.report = i /\ e.user = u
      /\ (e.access_result = "SUCCESS" => ReleasedTo(u, i))
    BY DEF Access
<1> HIDE DEF e
<1>3. ReleasedTo(u, i) => TheirsToSee(u, i)
    BY ReleasedIsTheirs
<1>4. ClientsStayHome'
    BY <1>1, <1>2, <1>3 DEF Record, ClientsStayHome, TheirsToSee
<1>5. Listed' /\ Counted' /\ ReportsAreVersioned'
    BY <1>1 DEF Record, Listed, Counted, ReportsAreVersioned, Draft
<1>6. Filed'
    BY <1>1, <1>2 DEF Record, Filed
<1> QED
    BY <1>1, <1>4, <1>5, <1>6 DEF Record

LEMMA SentMessageKeeps ==
    ASSUME Record, NEW u \in DOMAIN Users, NEW i \in 0..MaxReports, ClientSendMessage(u, i)
    PROVE  Record' /\ Answering /\ UNCHANGED <<reports, access>>
<1> DEFINE m == [user |-> u, report |-> i, status |-> "SENT", reply |-> FALSE]
<1>1. messages' = Append(messages, m) /\ UNCHANGED <<reports, access>>
      /\ (i = 0 \/ ReleasedTo(u, i))
    BY DEF ClientSendMessage
<1>2. m \in Message /\ m.report = i /\ m.user = u /\ m.status = "SENT"
    BY DEF Message
<1> HIDE DEF m
<1>3. messages \in Seq(Message)
    BY DEF Record, Filed
<1>4. /\ messages' \in Seq(Message) /\ DOMAIN messages = 1..Len(messages)
      /\ Len(messages) \in Nat /\ DOMAIN messages' = 1..(Len(messages) + 1)
      /\ messages'[Len(messages) + 1] = m
      /\ \A k \in DOMAIN messages : messages'[k] = messages[k]
    BY <1>1, <1>2, <1>3
<1>5. ReleasedTo(u, i) => TheirsToSee(u, i)
    BY ReleasedIsTheirs
<1>6. DOMAIN messages' = DOMAIN messages \cup {Len(messages) + 1}
    BY <1>4
<1>7. ClientsStayHome'
    BY <1>1, <1>2, <1>4, <1>5, <1>6 DEF Record, ClientsStayHome, TheirsToSee
<1>8. Listed' /\ Counted' /\ ReportsAreVersioned'
    BY <1>1 DEF Record, Listed, Counted, ReportsAreVersioned, Draft
<1>9. Filed'
    BY <1>1, <1>2, <1>4, <1>6 DEF Record, Filed
<1>10. Answering
    BY <1>4 DEF Answering
<1> QED
    BY <1>1, <1>7, <1>8, <1>9, <1>10 DEF Record

LEMMA ReadMessageKeeps ==
    ASSUME Record, NEW m \in DOMAIN messages, GetClientMessage(m) \/ ReplyClientMessage(m)
    PROVE  Record' /\ Answering /\ UNCHANGED <<reports, access>>
<1>0. messages \in Seq(Message)
    BY DEF Record, Filed
<1>1. messages[m] \in Message
    BY <1>0
<1>2. UNCHANGED <<reports, access>>
    BY DEF GetClientMessage, ReplyClientMessage
<1>3. PICK row \in Message : /\ messages' = [messages EXCEPT ![m] = row]
                             /\ row.user = messages[m].user /\ row.report = messages[m].report
                             /\ row.status \in {"SEEN", "ANSWERED"}
                             /\ row.status = "ANSWERED" => row.reply
                             /\ messages[m].status = "ANSWERED" => row = messages[m]
    <2>1. CASE GetClientMessage(m)
        <3> DEFINE row == [messages[m] EXCEPT !.status = "SEEN"]
        <3>1. messages[m].status = "SENT" /\ messages' = [messages EXCEPT ![m] = row]
            BY <1>0, <2>1 DEF GetClientMessage
        <3>2. row \in Message /\ row.status = "SEEN"
              /\ row.user = messages[m].user /\ row.report = messages[m].report
            BY <1>1 DEF Message
        <3> QED
            BY <3>1, <3>2
    <2>2. CASE ReplyClientMessage(m)
        <3> DEFINE row == [messages[m] EXCEPT !.status = "ANSWERED", !.reply = TRUE]
        <3>1. messages' = [messages EXCEPT ![m] = row]
            BY <1>0, <2>2 DEF ReplyClientMessage
        <3>2. row \in Message /\ row.status = "ANSWERED" /\ row.reply = TRUE
              /\ row.user = messages[m].user /\ row.report = messages[m].report
            BY <1>1 DEF Message
        <3>3. messages[m].status = "ANSWERED" => messages[m].reply
            BY DEF Record, Filed
        <3>4. messages[m].status = "ANSWERED" => row = messages[m]
            BY <1>1, <3>3 DEF Message
        <3> QED
            BY <3>1, <3>2, <3>4
    <2> QED
        BY <2>1, <2>2
<1>4. /\ messages' \in Seq(Message) /\ DOMAIN messages' = DOMAIN messages
      /\ messages'[m] = row /\ \A k \in DOMAIN messages \ {m} : messages'[k] = messages[k]
    BY <1>0, <1>3
<1>5. ClientsStayHome'
    BY <1>2, <1>3, <1>4 DEF Record, ClientsStayHome, TheirsToSee
<1>6. Listed' /\ Counted' /\ ReportsAreVersioned'
    BY <1>2 DEF Record, Listed, Counted, ReportsAreVersioned, Draft
<1>7. Filed'
    BY <1>2, <1>3, <1>4 DEF Record, Filed
<1>8. Answering
    BY <1>3, <1>4 DEF Answering
<1> QED
    BY <1>2, <1>5, <1>6, <1>7, <1>8 DEF Record

LEMMA RecordStep ==
    ASSUME Record, [Next]_vars
    PROVE  Record' /\ Kept /\ access \subseteq access' /\ Answering
<1>0. UNCHANGED reports => Kept
    BY DEF Kept
<1>1. UNCHANGED messages => Answering
    BY DEF Answering
<1>2. CASE UNCHANGED <<reports, access, messages>>
    <2>1. Listed' /\ Counted' /\ ReportsAreVersioned'
        BY <1>2 DEF Record, Listed, Counted, ReportsAreVersioned, Draft
    <2> QED
        BY <1>0, <1>1, <1>2, <2>1, StaysHome DEF Record
<1>3. ASSUME NEW i \in DOMAIN reports, UpdateReportNote(i) \/ ReleaseReport(i)
      PROVE  Record' /\ Kept /\ UNCHANGED <<access, messages>>
    <2>1. PICK M : reports \in Seq(ReportOver(M))
        BY DEF Record, Listed
    <2>2. reports[i] \in ReportOver(M)
        BY <2>1
    <2>3. Draft(i) /\ UNCHANGED <<access, messages>>
        BY <1>3 DEF UpdateReportNote, ReleaseReport
    <2>4. CASE UpdateReportNote(i)
        <3>1. PICK note \in BOOLEAN : reports' = [reports EXCEPT ![i].note = note]
            BY <2>4 DEF UpdateReportNote
        <3>2. reports' = [reports EXCEPT ![i] = [reports[i] EXCEPT !.note = note]]
            BY <2>1, <3>1
        <3> QED
            BY <2>1, <2>2, <2>3, <3>2, NoteRow, DraftChanges
    <2>5. CASE ReleaseReport(i)
        <3>1. reports' = [reports EXCEPT ![i] = [reports[i] EXCEPT !.status = "RELEASED"]]
            BY <2>1, <2>5 DEF ReleaseReport
        <3> QED
            BY <2>1, <2>2, <2>3, <3>1, ReleasedRow, DraftChanges
    <2> QED
        BY <1>3, <2>4, <2>5
<1>4. CASE \E org \in Clients, p \in Periods : GenerateReport(org, p)
    <2>1. UNCHANGED <<access, messages>>
        BY <1>4 DEF GenerateReport
    <2> QED
        BY <1>1, <1>4, <2>1, GenerateKeeps
<1>5. CASE \E i \in DOMAIN reports : UpdateReportNote(i) \/ ReleaseReport(i)
    BY <1>1, <1>3, <1>5
<1>6. CASE \E u \in DOMAIN Users, i \in 0..MaxReports :
              \/ ClientSendMessage(u, i)
              \/ \E action \in {"VIEW", "DOWNLOAD"} : AuthoriseClientReport(u, i, action)
    BY <1>0, <1>1, <1>6, SentMessageKeeps, RequestKeeps
<1>7. CASE \E m \in DOMAIN messages : GetClientMessage(m) \/ ReplyClientMessage(m)
    BY <1>0, <1>7, ReadMessageKeeps
<1>8. CASE \E c \in Cases : \/ CreateReport(c) \/ AnalysisEnds(c) \/ RouteToManager(c)
                            \/ ReassignCase(c) \/ ResolveCase(c) \/ CloseWithoutReassignment(c)
    BY <1>2, <1>8 DEF CreateReport, AnalysisEnds, RouteToManager, ReassignCase, ResolveCase,
       CloseWithoutReassignment, Completes, Changes, Others
<1>9. CASE \/ \E c \in Cases : GetStatus(c) \/ RetryDelivery(c) \/ EscalateDelivery(c)
           \/ \E u \in DOMAIN Users, c \in Cases, action \in PlatformAction :
                 ClientRecordPlatformAction(u, c, action)
           \/ ListDeliveries \/ FailNextDelivery \/ Tick \/ NextDay
    BY <1>2, <1>9 DEF GetStatus, RetryDelivery, EscalateDelivery, ClientRecordPlatformAction,
       ListDeliveries, FailNextDelivery, Tick, NextDay
<1> QED
    BY <1>2, <1>4, <1>5, <1>6, <1>7, <1>8, <1>9 DEF Next, vars

LEMMA RecordInv == Spec => []Record
  BY RecordInit, RecordStep, PTL DEF Spec

\* A period of a client has at most one draft and no version twice, in whatever
\* order its reports are generated, refreshed and released.
THEOREM VersionsDiffer == Spec => []ReportsAreVersioned
<1>1. Record => ReportsAreVersioned
    BY DEF Record
<1> QED
    BY <1>1, RecordInv, PTL

\* What a client was shown or wrote about is a released report of its own.
THEOREM StayHome == Spec => []ClientsStayHome
<1>1. Record => ClientsStayHome
    BY DEF Record
<1> QED
    BY <1>1, RecordInv, PTL

\* A released report, the log of who asked for it and an answer stay as they are.
THEOREM RecordStays == Spec => RecordIsKept
<1> DEFINE A == /\ \A i \in DOMAIN reports : ~Draft(i) => reports'[i] = reports[i]
                /\ access \subseteq access'
                /\ \A m \in DOMAIN messages :
                     /\ messages[m].status = "SEEN" => messages'[m].status # "SENT"
                     /\ messages[m].status = "ANSWERED" => messages'[m] = messages[m]
<1>1. Record /\ [Next]_vars => [A]_vars
    BY RecordStep DEF Kept, Answering
<1> HIDE DEF A
<1>2. Spec => [][A]_vars
    BY <1>1, RecordInv, PTL DEF Spec
<1> QED
    BY <1>2 DEF A, RecordIsKept

(***************************************************************************)
(* Deliveries. An attempt that is left to the loop has been counted, and   *)
(* is one of those it may make.                                            *)
(***************************************************************************)
LEMMA NullIsNoValue ==
    /\ NULL \notin Nat /\ NULL \notin SeverityTier /\ NULL \notin DeliveredOutcome
    /\ NULL \notin ManagerFlag /\ NULL # "REMOVED" /\ NULL # "KEPT" /\ NULL # "lately"
  BY PortalAssumption

LEMMA BoundsOfPortal ==
    /\ MaxManual \in Nat /\ MaxDay \in Nat /\ COMMUNITYHUB \in Clients
    /\ DELIVERY_MAX_AUTO_ATTEMPTS \in Nat /\ 0 < DELIVERY_MAX_AUTO_ATTEMPTS
<1>1. MaxManual \in Nat
    BY PortalAssumption
<1>2. MaxDay \in Nat
    BY PortalAssumption
<1>3. COMMUNITYHUB \in Clients
    BY PortalAssumption
<1>4. DELIVERY_MAX_AUTO_ATTEMPTS \in Nat /\ DELIVERY_MAX_AUTO_ATTEMPTS # 0
    BY PortalAssumption
<1> QED
    BY <1>1, <1>2, <1>3, <1>4

Going(d) == d.status \in {"PENDING", "RETRYING"}

Counts(d) == d \in Delivery /\ (Going(d) => d.automatic < DELIVERY_MAX_AUTO_ATTEMPTS)

LEMMA StageOfRow ==
    ASSUME NEW d \in Delivery, d # NULL
    PROVE  /\ Going(d) => StageOf(d) = "on_its_way"
           /\ d.status = "NEEDS_ATTENTION" => StageOf(d) = "with_manager"
           /\ d.status = "SUCCESS" => StageOf(d) = "delivered"
           /\ d.status \in {"PENDING", "RETRYING", "NEEDS_ATTENTION", "SUCCESS"}
<1>1. d.status \in {"PENDING", "RETRYING", "NEEDS_ATTENTION", "SUCCESS"}
    BY DEF Delivery, DeliveryStatus
<1>2. StageOf(d) = [PENDING |-> "on_its_way", RETRYING |-> "on_its_way",
                    NEEDS_ATTENTION |-> "with_manager", SUCCESS |-> "delivered"][d.status]
    BY DEF StageOf
<1> QED
    BY <1>1, <1>2 DEF Going

\* What attempts may make of a delivery: it succeeds, or goes to the Manager.
Onward(d, e) == /\ Counts(e) /\ e.action = d.action /\ e.manual = d.manual
                /\ Going(e) => Going(d)
                /\ ~Going(d) => e = d

LEMMA SentRow ==
    ASSUME NEW d \in Delivery
    PROVE  /\ Counts(Sent(d)) /\ Sent(d).action = d.action /\ Sent(d).manual = d.manual
           /\ Sent(d).status = "SUCCESS"
<1> DEFINE m == [d EXCEPT !.status = "SUCCESS"]
<1>1. m \in Delivery /\ m.action = d.action /\ m.manual = d.manual /\ m.status = "SUCCESS"
    BY DEF Delivery, DeliveryStatus
<1>2. Sent(d) = [m EXCEPT !.due = NULL]
    BY DEF Sent, Delivery
<1> HIDE DEF m
<1> QED
    BY <1>1, <1>2 DEF Delivery, Counts, Going

LEMMA AttemptRow ==
    ASSUME NEW d, Counts(d), NEW turn, NEW late
    PROVE  Onward(d, Attempt(d, turn, late))
<1>1. d \in Delivery
    BY DEF Counts
<1>2. CASE ~Going(d) \/ d.due # 0
    BY <1>2 DEF Attempt, Going, Onward
<1>3. CASE Going(d) /\ d.due = 0
  <2> DEFINE n == d.automatic + 1
             e == [d EXCEPT !.automatic = n]
             when == IF turn <= late THEN 0 ELSE 1
  <2>0. DELIVERY_MAX_AUTO_ATTEMPTS \in Nat
      BY PortalAssumption
  <2>1. d.automatic \in 0..DELIVERY_MAX_AUTO_ATTEMPTS /\ d.automatic < DELIVERY_MAX_AUTO_ATTEMPTS
      BY <1>3 DEF Counts, Delivery
  <2>7. n \in 0..DELIVERY_MAX_AUTO_ATTEMPTS
      BY <2>0, <2>1
  <2>8. Attempt(d, turn, late) =
            IF ~d.simulate_failure THEN Sent(e)
            ELSE IF e.automatic >= DELIVERY_MAX_AUTO_ATTEMPTS
                 THEN [e EXCEPT !.status = "NEEDS_ATTENTION", !.due = NULL]
                 ELSE [e EXCEPT !.status = "RETRYING", !.due = when]
      BY <1>1, <1>3 DEF Attempt, Going, Delivery
  <2> HIDE DEF n
  <2>2. /\ e \in Delivery /\ e.action = d.action /\ e.manual = d.manual
        /\ e.automatic = n
      BY <1>1, <2>7 DEF Delivery
  <2>9. e.automatic \in Nat
      BY <2>0, <2>2, <2>7
  <2> HIDE DEF e
  <2>4. CASE ~d.simulate_failure
      BY <1>3, <2>2, <2>8, <2>4, SentRow DEF Onward, Going
  <2>5. CASE d.simulate_failure /\ e.automatic >= DELIVERY_MAX_AUTO_ATTEMPTS
    <3> DEFINE f == [e EXCEPT !.status = "NEEDS_ATTENTION", !.due = NULL]
    <3>1. f \in Delivery /\ f.action = e.action /\ f.manual = e.manual /\ f.status = "NEEDS_ATTENTION"
        BY <2>2 DEF Delivery, DeliveryStatus
    <3> HIDE DEF f
    <3>2. Onward(d, f)
        BY <1>3, <2>2, <3>1 DEF Onward, Counts, Going
    <3> QED
        BY <2>8, <2>5, <3>2 DEF f
  <2>6. CASE d.simulate_failure /\ ~(e.automatic >= DELIVERY_MAX_AUTO_ATTEMPTS)
    <3> DEFINE f == [e EXCEPT !.status = "RETRYING", !.due = when]
    <3>1. when \in {NULL, 0, 1}
        OBVIOUS
    <3> HIDE DEF when
    <3>2. /\ f \in Delivery /\ f.action = e.action /\ f.manual = e.manual /\ f.status = "RETRYING"
          /\ f.automatic = e.automatic
        BY <2>2, <3>1 DEF Delivery, DeliveryStatus
    <3> HIDE DEF f
    <3>3. Onward(d, f)
        BY <1>3, <2>0, <2>2, <2>6, <2>9, <3>2 DEF Onward, Counts, Going
    <3> QED
        BY <2>8, <2>6, <3>3 DEF f
  <2> QED
      BY <2>4, <2>5, <2>6
<1> QED
    BY <1>2, <1>3

\* The function of the loop exists: every prefix of it does.
Loop(d, late, n, f) ==
    f = [i \in 0..n |-> IF i = 0 THEN d ELSE Attempt(f[i-1], i, late)]

HasLoop(d, late, n) == \E f : Loop(d, late, n, f)

LEMMA LoopGrows ==
    ASSUME NEW d, NEW late, NEW n \in Nat, HasLoop(d, late, n)
    PROVE  HasLoop(d, late, n + 1)
<1>1. PICK f : Loop(d, late, n, f)
    BY DEF HasLoop
<1>2. \A i \in 0..n : f[i] = IF i = 0 THEN d ELSE Attempt(f[i-1], i, late)
    BY <1>1 DEF Loop
<1> DEFINE g == [i \in 0..(n+1) |-> IF i = n + 1 THEN Attempt(f[n], n + 1, late) ELSE f[i]]
           h == [i \in 0..(n+1) |-> IF i = 0 THEN d ELSE Attempt(g[i-1], i, late)]
<1>3. ASSUME NEW i \in 0..(n+1) PROVE g[i] = h[i]
  <2>1. CASE i = n + 1
    <3>1. g[i-1] = f[n]
        BY <2>1
    <3> QED
        BY <2>1, <3>1
  <2>2. CASE i = 0
      BY <2>2, <1>2
  <2>3. CASE i \in 1..n
    <3>1. g[i-1] = f[i-1] /\ g[i] = f[i]
        BY <2>3
    <3> QED
        BY <2>3, <3>1, <1>2
  <2> QED
      BY <2>1, <2>2, <2>3
<1>4. g = h
    BY <1>3
<1>5. Loop(d, late, n + 1, g)
    BY <1>4 DEF Loop
<1> QED
    BY <1>5 DEF HasLoop

LEMMA LoopExists ==
    ASSUME NEW d, NEW late, NEW n \in Nat PROVE HasLoop(d, late, n)
<1> DEFINE P == {m \in Nat : HasLoop(d, late, m)}
<1>1. 0 \in P
  <2> DEFINE f == [i \in 0..0 |-> d]
  <2>1. Loop(d, late, 0, f)
      BY DEF Loop
  <2> QED
      BY <2>1 DEF HasLoop
<1>2. \A m \in P \cap Nat : m + 1 \in P
    BY LoopGrows
<1> HIDE DEF P
<1>3. Nat \subseteq P
    BY <1>1, <1>2, NatInd
<1> QED
    BY <1>3 DEF P

LEMMA LoopOnward ==
    ASSUME NEW d, Counts(d), NEW late, NEW n \in Nat, NEW f, Loop(d, late, n, f)
    PROVE  Onward(d, f[n])
<1> DEFINE P == {m \in Nat : m \in 0..n => Onward(d, f[m])}
<1>0. \A i \in 0..n : f[i] = IF i = 0 THEN d ELSE Attempt(f[i-1], i, late)
    BY DEF Loop
<1>1. 0 \in P
    BY <1>0 DEF Onward
<1>2. \A m \in P \cap Nat : m + 1 \in P
  <2> SUFFICES ASSUME NEW m \in P, m + 1 \in 0..n PROVE Onward(d, f[m+1])
      OBVIOUS
  <2>1. Onward(d, f[m])
      OBVIOUS
  <2>2. f[m+1] = Attempt(f[m], m + 1, late)
      BY <1>0
  <2>3. Onward(f[m], f[m+1])
      BY <2>1, <2>2, AttemptRow DEF Onward
  <2> QED
      BY <2>1, <2>3 DEF Onward
<1> HIDE DEF P
<1>3. Nat \subseteq P
    BY <1>1, <1>2, NatInd
<1> QED
    BY <1>3 DEF P

LEMMA AttemptsOnward ==
    ASSUME NEW d, Counts(d), NEW late
    PROVE  Onward(d, Attempts(d, late))
<1> DEFINE n == DELIVERY_MAX_AUTO_ATTEMPTS
<1>1. n \in Nat
    BY PortalAssumption
<1>2. PICK g : Loop(d, late, n, g)
    BY <1>1, LoopExists DEF HasLoop
<1>3. \E f : Loop(d, late, n, f) /\ Attempts(d, late) = f[n]
  <2> DEFINE f == CHOOSE f : f = [i \in 0..n |-> IF i = 0 THEN d ELSE Attempt(f[i-1], i, late)]
  <2>1. Loop(d, late, n, f)
      BY <1>2 DEF Loop
  <2>2. Attempts(d, late) = f[n]
      BY DEF Attempts
  <2> QED
      BY <2>1, <2>2
<1> HIDE DEF n
<1> QED
    BY <1>1, <1>3, LoopOnward

(***************************************************************************)
(* The promise of ResultDelivery, kept for one result.                     *)
(***************************************************************************)
ActionOf(d) == IF d = NULL THEN NULL ELSE d.action

Sending ==
    /\ deliveries \in [Cases -> Delivery \cup {NULL}]
    /\ \A c \in Cases : deliveries[c] # NULL => Counts(deliveries[c])
    /\ told \in [Cases -> BOOLEAN]
    /\ \A c \in Cases : told[c] => deliveries[c] # NULL /\ deliveries[c].status = "SUCCESS"
    /\ failNext \in BOOLEAN /\ today \in 0..MaxDay

\* What may happen to a result in a step.
Same(c)      == ActionOf(deliveries'[c]) = ActionOf(deliveries[c]) /\ told'[c] = told[c]
Attempted(c) == /\ \/ StageOf(deliveries'[c]) = StageOf(deliveries[c])
                   \/ /\ StageOf(deliveries[c]) = "on_its_way"
                      /\ StageOf(deliveries'[c]) \in {"delivered", "with_manager"}
                /\ Same(c)
Queued(c)    == /\ StageOf(deliveries[c]) = "none" /\ StageOf(deliveries'[c]) = "on_its_way"
                /\ Same(c)
Resent(c)    == /\ StageOf(deliveries[c]) \in {"on_its_way", "with_manager"}
                /\ StageOf(deliveries'[c]) = "delivered"
                /\ Same(c)
Answered(c)  == /\ StageOf(deliveries[c]) \in {"on_its_way", "delivered"}
                /\ StageOf(deliveries'[c]) = "delivered"
                /\ ActionOf(deliveries'[c]) = ActionOf(deliveries[c]) /\ told'[c] = TRUE
Withheld(c)  == /\ StageOf(deliveries'[c]) = StageOf(deliveries[c])
                /\ ActionOf(deliveries'[c]) = ActionOf(deliveries[c]) /\ told'[c] = FALSE
Acted(c)     == /\ StageOf(deliveries[c]) = "delivered" /\ StageOf(deliveries'[c]) = "delivered"
                /\ ActionOf(deliveries'[c]) \in PlatformAction /\ told'[c] = told[c]

Promised(c) == \/ Attempted(c) \/ Queued(c) \/ Resent(c)
               \/ Answered(c) \/ Withheld(c) \/ Acted(c)

LEMMA StagesOf ==
    ASSUME NEW d, d = NULL \/ Counts(d)
    PROVE  StageOf(d) \in {"none", "on_its_way", "with_manager", "delivered"}
<1>1. CASE d = NULL
    BY <1>1 DEF StageOf
<1>2. CASE d # NULL
    BY <1>2, StageOfRow DEF Counts, Going
<1> QED
    BY <1>1, <1>2

LEMMA PromisedNext ==
    ASSUME Sending, Sending', NEW c \in Cases, Promised(c)
    PROVE  Promise(c)!Next
<1> DEFINE s == StageOf(deliveries[c])
           t == StageOf(deliveries'[c])
           a == ActionOf(deliveries[c])
           b == ActionOf(deliveries'[c])
           p == told[c]
           q == told'[c]
<1>1. t \in {"none", "on_its_way", "with_manager", "delivered"}
    BY StagesOf DEF Sending
<1>2. CASE Attempted(c)
  <2>1. Promise(c)!Attempts
      BY <1>1, <1>2 DEF Attempted, Same, ActionOf, Promise!Attempts, Promise!At, Promise!Stages
  <2> QED
      BY <2>1 DEF Promise!Next
<1>3. CASE Queued(c)
  <2>1. Promise(c)!Queue(c)
      BY <1>3 DEF Queued, Same, ActionOf, Promise!Queue, Promise!At, Promise!Move
  <2> QED
      BY <2>1 DEF Promise!Next
<1>4. CASE Resent(c)
  <2>1. Promise(c)!Resend(c)
      BY <1>4 DEF Resent, Same, ActionOf, Promise!Resend, Promise!At, Promise!Move
  <2> QED
      BY <2>1 DEF Promise!Next
<1>5. CASE Answered(c)
  <2>1. Promise(c)!Tell(c)
      BY <1>5 DEF Answered, ActionOf, Promise!Tell, Promise!At, Promise!Move
  <2> QED
      BY <2>1 DEF Promise!Next
<1>6. CASE Withheld(c)
  <2>1. Promise(c)!Withhold(c)
      BY <1>6 DEF Withheld, ActionOf, Promise!Withhold
  <2> QED
      BY <2>1 DEF Promise!Next
<1>7. CASE Acted(c)
  <2>1. \E act \in PlatformAction : Promise(c)!Act(c, act)
      BY <1>7 DEF Acted, ActionOf, Promise!Act, Promise!At, PlatformAction
  <2> QED
      BY <2>1 DEF Promise!Next, Promise!Actions, PlatformAction
<1> QED
    BY <1>2, <1>3, <1>4, <1>5, <1>6, <1>7 DEF Promised

\* Nothing happens to a result whose delivery and answer stay.
LEMMA Idle ==
    ASSUME NEW c \in Cases, deliveries'[c] = deliveries[c], told'[c] = told[c]
    PROVE  Promised(c)
  BY DEF Promised, Attempted, Same

\* A delivery changes and the rest of its result's row in the promise does not.
LEMMA RowMoves ==
    ASSUME Sending, NEW c \in Cases, NEW d, NEW e, Counts(d), d # NULL, Counts(e), e # NULL,
           deliveries[c] = d, deliveries'[c] = e, Onward(d, e)
    PROVE  /\ ActionOf(deliveries'[c]) = ActionOf(deliveries[c])
           /\ \/ StageOf(deliveries'[c]) = StageOf(deliveries[c])
              \/ /\ StageOf(deliveries[c]) = "on_its_way" /\ ~told[c]
                 /\ StageOf(deliveries'[c]) \in {"delivered", "with_manager"}
<1>1. d \in Delivery /\ e \in Delivery
    BY DEF Counts
<1>2. CASE ~Going(d)
    BY <1>2 DEF Onward
<1>3. CASE Going(d)
  <2>1. StageOf(d) = "on_its_way" /\ ~told[c]
      BY <1>1, <1>3, StageOfRow DEF Sending, Going
  <2>2. StageOf(e) \in {"on_its_way", "delivered", "with_manager"}
      BY <1>1, StageOfRow DEF Going
  <2> QED
      BY <2>1, <2>2 DEF Onward, ActionOf
<1> QED
    BY <1>2, <1>3

\* A read of the deliveries.
LEMMA AdvanceRows ==
    ASSUME Sending, NEW sent \in Advances
    PROVE  /\ sent \in [Cases -> Delivery \cup {NULL}]
           /\ \A c \in Cases : deliveries[c] = NULL => sent[c] = NULL
           /\ \A c \in Cases : deliveries[c] # NULL =>
                 sent[c] # NULL /\ Counts(sent[c]) /\ Onward(deliveries[c], sent[c])
<1>1. PICK late \in [Cases -> 0..DELIVERY_MAX_AUTO_ATTEMPTS - 1] :
            sent = [c \in Cases |-> IF deliveries[c] = NULL THEN NULL
                                    ELSE Attempts(deliveries[c], late[c])]
    BY DEF Advances
<1>2. ASSUME NEW c \in Cases, deliveries[c] # NULL
      PROVE  sent[c] # NULL /\ Counts(sent[c]) /\ Onward(deliveries[c], sent[c])
  <2>1. Onward(deliveries[c], Attempts(deliveries[c], late[c]))
      BY <1>2, AttemptsOnward DEF Sending
  <2>2. sent[c] = Attempts(deliveries[c], late[c])
      BY <1>1, <1>2
  <2> QED
      BY <2>1, <2>2, NullIsNoRow DEF Onward, Counts
<1>3. \A c \in Cases : sent[c] \in Delivery \cup {NULL}
    BY <1>1, <1>2 DEF Counts
<1> QED
    BY <1>1, <1>2, <1>3

LEMMA AdvanceStep ==
    ASSUME Sending, deliveries' \in Advances, UNCHANGED <<failNext, told, today>>
    PROVE  Sending' /\ \A c \in Cases : Promised(c)
<1>1. /\ deliveries' \in [Cases -> Delivery \cup {NULL}]
      /\ \A c \in Cases : deliveries[c] = NULL => deliveries'[c] = NULL
      /\ \A c \in Cases : deliveries[c] # NULL =>
            deliveries'[c] # NULL /\ Counts(deliveries'[c]) /\ Onward(deliveries[c], deliveries'[c])
    BY AdvanceRows
<1>2. ASSUME NEW c \in Cases PROVE Promised(c)
  <2>1. CASE deliveries[c] = NULL
      BY <1>1, <2>1, Idle
  <2>2. CASE deliveries[c] # NULL
    <3>1. Attempted(c)
        BY <1>1, <2>2, RowMoves DEF Attempted, Same, Sending
    <3> QED
        BY <3>1 DEF Promised
  <2> QED
      BY <2>1, <2>2
<1>3. \A c \in Cases : told'[c] => deliveries'[c] # NULL /\ deliveries'[c].status = "SUCCESS"
    BY <1>1 DEF Sending, Onward, Going
<1> QED
    BY <1>1, <1>2, <1>3 DEF Sending

LEMMA StatusStep ==
    ASSUME Sending, NEW c \in Cases, GetStatus(c)
    PROVE  Sending' /\ \A b \in Cases : Promised(b)
<1> DEFINE hears == /\ cases[c].status = "COMPLETE" /\ deliveries'[c] # NULL
                    /\ deliveries'[c].status = "SUCCESS"
<1>1. deliveries' \in Advances /\ told' = [told EXCEPT ![c] = hears] /\ UNCHANGED <<failNext, today>>
    BY DEF GetStatus
<1>2. /\ deliveries' \in [Cases -> Delivery \cup {NULL}]
      /\ \A b \in Cases : deliveries[b] = NULL => deliveries'[b] = NULL
      /\ \A b \in Cases : deliveries[b] # NULL =>
            deliveries'[b] # NULL /\ Counts(deliveries'[b]) /\ Onward(deliveries[b], deliveries'[b])
    BY <1>1, AdvanceRows
<1>3. /\ hears \in BOOLEAN /\ told' \in [Cases -> BOOLEAN] /\ told'[c] = hears
      /\ \A b \in Cases \ {c} : told'[b] = told[b]
  <2>1. hears \in BOOLEAN
      OBVIOUS
  <2> HIDE DEF hears
  <2> QED
      BY <1>1, <2>1 DEF Sending
<1>4. \A b \in Cases : told'[b] => deliveries'[b] # NULL /\ deliveries'[b].status = "SUCCESS"
    BY <1>2, <1>3 DEF Sending, Onward, Going
<1>5. ASSUME NEW b \in Cases PROVE Promised(b)
  <2>1. CASE b # c /\ deliveries[b] = NULL
      BY <1>2, <1>3, <2>1, Idle
  <2>2. CASE b # c /\ deliveries[b] # NULL
    <3>1. Attempted(b)
        BY <1>2, <1>3, <2>2, RowMoves DEF Attempted, Same, Sending
    <3> QED
        BY <3>1 DEF Promised
  <2>3. CASE b = c /\ deliveries[c] = NULL
    <3>1. told'[c] = FALSE /\ deliveries'[c] = NULL
        BY <1>2, <1>3, <2>3
    <3> QED
        BY <2>3, <3>1 DEF Promised, Withheld
  <2>4. CASE b = c /\ deliveries[c] # NULL
    <3> HIDE DEF hears
    <3>1. /\ ActionOf(deliveries'[c]) = ActionOf(deliveries[c])
          /\ \/ StageOf(deliveries'[c]) = StageOf(deliveries[c])
             \/ /\ StageOf(deliveries[c]) = "on_its_way" /\ ~told[c]
                /\ StageOf(deliveries'[c]) \in {"delivered", "with_manager"}
        BY <1>2, <2>4, RowMoves DEF Sending
    <3>2. CASE told'[c]
      <4>1. StageOf(deliveries'[c]) = "delivered"
          BY <1>2, <1>4, <2>4, <3>2, StageOfRow DEF Counts
      <4>2. told'[c] = TRUE
          BY <1>3, <3>2
      <4> QED
          BY <2>4, <3>1, <4>1, <4>2 DEF Promised, Answered
    <3>3. CASE ~told'[c]
      <4>1. told'[c] = FALSE
          BY <1>3, <3>3
      <4>2. ~told[c] => told[c] = FALSE
          BY DEF Sending
      <4> QED
          BY <2>4, <3>1, <4>1, <4>2 DEF Promised, Withheld, Attempted, Same
    <3> QED
        BY <3>2, <3>3
  <2> QED
      BY <2>1, <2>2, <2>3, <2>4
<1> QED
    BY <1>1, <1>2, <1>3, <1>4, <1>5 DEF Sending

\* One delivery becomes another; the reporter's answers stay.
LEMMA OneRow ==
    ASSUME Sending, NEW sent \in [Cases -> Delivery \cup {NULL}],
           \A b \in Cases : deliveries[b] = NULL => sent[b] = NULL,
           \A b \in Cases : deliveries[b] # NULL =>
              sent[b] # NULL /\ Counts(sent[b]) /\ Onward(deliveries[b], sent[b]),
           NEW c \in Cases, NEW e, Counts(e),
           deliveries' = [sent EXCEPT ![c] = e],
           told[c] => e.status = "SUCCESS",
           told' = told, today' \in 0..MaxDay, failNext' \in BOOLEAN
    PROVE  /\ Sending' /\ deliveries'[c] = e /\ e # NULL
           /\ \A b \in Cases \ {c} : Promised(b)
<1>1. /\ deliveries' \in [Cases -> Delivery \cup {NULL}]
      /\ deliveries'[c] = e /\ e # NULL
      /\ \A b \in Cases \ {c} : deliveries'[b] = sent[b]
    BY NullIsNoRow DEF Counts
<1>2. ASSUME NEW b \in Cases \ {c} PROVE Promised(b)
  <2>1. CASE deliveries[b] = NULL
      BY <1>1, <2>1, Idle
  <2>2. CASE deliveries[b] # NULL
    <3>1. Attempted(b)
        BY <1>1, <2>2, RowMoves DEF Attempted, Same, Sending
    <3> QED
        BY <3>1 DEF Promised
  <2> QED
      BY <2>1, <2>2
<1>3. \A b \in Cases : told'[b] => deliveries'[b] # NULL /\ deliveries'[b].status = "SUCCESS"
    BY <1>1 DEF Sending, Onward, Going
<1>4. \A b \in Cases : deliveries'[b] # NULL => Counts(deliveries'[b])
    BY <1>1
<1> QED
    BY <1>1, <1>2, <1>3, <1>4 DEF Sending

LEMMA UnmovedRows ==
    ASSUME Sending
    PROVE  /\ deliveries \in [Cases -> Delivery \cup {NULL}]
           /\ \A b \in Cases : deliveries[b] # NULL =>
                 Counts(deliveries[b]) /\ Onward(deliveries[b], deliveries[b])
  BY DEF Sending, Onward

LEMMA RetryStep ==
    ASSUME Sending, NEW c \in Cases, RetryDelivery(c)
    PROVE  Sending' /\ \A b \in Cases : Promised(b)
<1>1. PICK sent \in Advances :
          /\ sent[c].status = "SUCCESS" => deliveries' = sent
          /\ sent[c].status # "SUCCESS" => deliveries' = [sent EXCEPT ![c] =
                Sent([sent[c] EXCEPT !.manual = sent[c].manual + 1, !.simulate_failure = FALSE])]
    BY DEF RetryDelivery
<1>2. /\ deliveries[c] # NULL /\ deliveries[c].manual < MaxManual
      /\ UNCHANGED <<failNext, told, today>>
    BY DEF RetryDelivery
<1>3. /\ sent \in [Cases -> Delivery \cup {NULL}]
      /\ \A b \in Cases : deliveries[b] = NULL => sent[b] = NULL
      /\ \A b \in Cases : deliveries[b] # NULL =>
            sent[b] # NULL /\ Counts(sent[b]) /\ Onward(deliveries[b], sent[b])
    BY AdvanceRows
<1>4. CASE sent[c].status = "SUCCESS"
    BY <1>1, <1>2, <1>4, AdvanceStep
<1>5. CASE sent[c].status # "SUCCESS"
  <2> DEFINE n == sent[c].manual + 1
             a == [sent[c] EXCEPT !.manual = n, !.simulate_failure = FALSE]
             e == Sent(a)
  <2>1. sent[c] \in Delivery /\ sent[c].manual = deliveries[c].manual
        /\ sent[c].action = deliveries[c].action
      BY <1>2, <1>3 DEF Onward, Counts
  <2>2. deliveries' = [sent EXCEPT ![c] = e]
      BY <1>1, <1>5
  <2>3. n \in 0..MaxManual
    <3>1. sent[c].manual \in 0..MaxManual /\ sent[c].manual < MaxManual
        BY <1>2, <2>1 DEF Delivery
    <3> QED
        BY <3>1, BoundsOfPortal
  <2> HIDE DEF n
  <2>4. a \in Delivery /\ a.action = deliveries[c].action
      BY <2>1, <2>3 DEF Delivery
  <2> HIDE DEF a
  <2>5. Counts(e) /\ e.status = "SUCCESS" /\ e.action = deliveries[c].action
      BY <2>4, SentRow
  <2>6. told' = told /\ today' \in 0..MaxDay /\ failNext' \in BOOLEAN
      BY <1>2 DEF Sending
  <2> HIDE DEF e
  <2>7. Sending' /\ deliveries'[c] = e /\ e # NULL /\ \A b \in Cases \ {c} : Promised(b)
      BY <1>3, <2>2, <2>5, <2>6, OneRow
  <2>8. deliveries[c].status # "SUCCESS"
      BY <1>2, <1>3, <1>5 DEF Onward, Going
  <2>9. StageOf(deliveries[c]) \in {"on_its_way", "with_manager"} /\ StageOf(e) = "delivered"
      BY <1>2, <2>5, <2>7, <2>8, StageOfRow DEF Sending, Counts, Going
  <2>10. Promised(c)
      BY <1>2, <2>5, <2>7, <2>9 DEF Promised, Resent, Same, ActionOf
  <2> QED
      BY <2>7, <2>10
<1> QED
    BY <1>4, <1>5

\* A field that the promise does not read.
LEMMA MarkedRow ==
    ASSUME NEW d, Counts(d), NEW a \in PlatformAction
    PROVE  /\ LET e == [d EXCEPT !.escalated = "lately"]
              IN  Counts(e) /\ e.status = d.status /\ e.action = d.action
           /\ LET e == [d EXCEPT !.action = a]
              IN  Counts(e) /\ e.status = d.status /\ e.action = a
  BY DEF Counts, Delivery, Going, PlatformAction

LEMMA StageOfStatus ==
    ASSUME NEW d, NEW e, Counts(d), Counts(e), d.status = e.status
    PROVE  StageOf(d) = StageOf(e)
  BY NullIsNoRow DEF StageOf, Counts

LEMMA MarkStep ==
    ASSUME Sending, NEW c \in Cases,
           \/ EscalateDelivery(c)
           \/ \E u \in DOMAIN Users, action \in PlatformAction : ClientRecordPlatformAction(u, c, action)
    PROVE  Sending' /\ \A b \in Cases : Promised(b)
<1>0. deliveries[c] # NULL /\ Counts(deliveries[c])
    BY DEF EscalateDelivery, ClientRecordPlatformAction, Sending
<1>1. /\ told' = told /\ today' \in 0..MaxDay /\ failNext' \in BOOLEAN
    BY DEF EscalateDelivery, ClientRecordPlatformAction, Sending
<1>2. CASE EscalateDelivery(c)
  <2> DEFINE e == [deliveries[c] EXCEPT !.escalated = "lately"]
  <2>1. deliveries' = [deliveries EXCEPT ![c] = e]
      BY <1>2 DEF EscalateDelivery, Sending
  <2>2. Counts(e) /\ e.status = deliveries[c].status /\ e.action = deliveries[c].action
      BY <1>0, MarkedRow DEF PlatformAction
  <2> HIDE DEF e
  <2>3. told[c] => e.status = "SUCCESS"
      BY <2>2 DEF Sending
  <2>4. Sending' /\ deliveries'[c] = e /\ e # NULL /\ \A b \in Cases \ {c} : Promised(b)
      BY <1>1, <2>1, <2>2, <2>3, UnmovedRows, OneRow
  <2>5. StageOf(e) = StageOf(deliveries[c])
      BY <1>0, <2>2, StageOfStatus
  <2>6. Promised(c)
      BY <1>0, <1>1, <2>2, <2>4, <2>5 DEF Promised, Attempted, Same, ActionOf
  <2> QED
      BY <2>4, <2>6
<1>3. CASE \E u \in DOMAIN Users, action \in PlatformAction : ClientRecordPlatformAction(u, c, action)
  <2>0. PICK a \in PlatformAction : /\ deliveries' = [deliveries EXCEPT ![c].action = a]
                                    /\ deliveries[c].status = "SUCCESS"
      BY <1>3 DEF ClientRecordPlatformAction
  <2> DEFINE e == [deliveries[c] EXCEPT !.action = a]
  <2>1. deliveries' = [deliveries EXCEPT ![c] = e]
      BY <2>0 DEF Sending
  <2>2. Counts(e) /\ e.status = deliveries[c].status /\ e.action = a
      BY <1>0, MarkedRow
  <2> HIDE DEF e
  <2>3. told[c] => e.status = "SUCCESS"
      BY <2>2 DEF Sending
  <2>4. Sending' /\ deliveries'[c] = e /\ e # NULL /\ \A b \in Cases \ {c} : Promised(b)
      BY <1>1, <2>1, <2>2, <2>3, UnmovedRows, OneRow
  <2>5. StageOf(e) = "delivered" /\ StageOf(deliveries[c]) = "delivered"
      BY <1>0, <2>0, <2>2, <2>4, StageOfRow DEF Counts
  <2>6. Promised(c)
      BY <1>1, <2>2, <2>4, <2>5 DEF Promised, Acted, ActionOf
  <2> QED
      BY <2>4, <2>6
<1> QED
    BY <1>2, <1>3

LEMMA CompletesStep ==
    ASSUME Sending, NEW c \in Cases, NEW outcome \in DeliveredOutcome, NEW tier,
           Completes(c, outcome, tier)
    PROVE  Sending' /\ \A b \in Cases : Promised(b)
<1> DEFINE e == [case_id |-> c, organisation_id |-> COMMUNITYHUB, status |-> "PENDING",
                 outcome |-> outcome, completed |-> today, automatic |-> 0, manual |-> 0, due |-> 1,
                 simulate_failure |-> failNext, escalated |-> NULL, action |-> NULL]
<1>1. /\ UNCHANGED <<told, today>> /\ failNext' = (failNext /\ deliveries[c] # NULL)
      /\ deliveries[c] # NULL => deliveries' = deliveries
      /\ deliveries[c] = NULL => deliveries' = [deliveries EXCEPT ![c] = e]
    BY DEF Completes, Others, CreateDeliveryForCase
<1>2. failNext' \in BOOLEAN /\ today' \in 0..MaxDay /\ told' = told
    BY <1>1 DEF Sending
<1>3. CASE deliveries[c] # NULL
  <2>1. deliveries' = deliveries
      BY <1>1, <1>3
  <2>2. Sending'
      BY <1>2, <2>1 DEF Sending
  <2> QED
      BY <1>2, <2>1, <2>2, Idle
<1>4. CASE deliveries[c] = NULL
  <2>0. /\ today \in Nat /\ failNext \in BOOLEAN /\ COMMUNITYHUB \in Clients
        /\ 0 \in 0..DELIVERY_MAX_AUTO_ATTEMPTS /\ 0 \in 0..MaxManual
      BY BoundsOfPortal DEF Sending
  <2>1. e \in Delivery
      BY <2>0 DEF Delivery, DeliveryStatus
  <2>2. Counts(e) /\ e.status = "PENDING" /\ e.action = NULL
      BY <2>1, BoundsOfPortal DEF Counts
  <2>3. deliveries' = [deliveries EXCEPT ![c] = e]
      BY <1>1, <1>4
  <2>4. told[c] => e.status = "SUCCESS"
      BY <1>4 DEF Sending
  <2> HIDE DEF e
  <2>5. Sending' /\ deliveries'[c] = e /\ e # NULL /\ \A b \in Cases \ {c} : Promised(b)
      BY <1>2, <2>2, <2>3, <2>4, UnmovedRows, OneRow
  <2>6. StageOf(e) = "on_its_way" /\ StageOf(deliveries[c]) = "none"
      BY <1>4, <2>1, <2>2, <2>5, StageOfRow DEF StageOf, Going
  <2>7. Promised(c)
      BY <1>2, <1>4, <2>2, <2>5, <2>6 DEF Promised, Queued, Same, ActionOf
  <2> QED
      BY <2>5, <2>7
<1> QED
    BY <1>3, <1>4

\* Time passes.
LEMMA ElapsedRow ==
    ASSUME NEW d, Counts(d)
    PROVE  /\ Counts(Elapsed(d)) /\ Elapsed(d).status = d.status
           /\ Elapsed(d).action = d.action /\ Elapsed(d) # NULL
           /\ LET e == [Elapsed(d) EXCEPT !.escalated = "long ago"]
              IN  Counts(e) /\ e.status = d.status /\ e.action = d.action /\ e # NULL
<1> DEFINE when == IF d.due = NULL THEN NULL ELSE 0
           f == [d EXCEPT !.due = when]
           e == [f EXCEPT !.escalated = "long ago"]
<1>1. d # NULL /\ d \in Delivery
    BY NullIsNoRow DEF Counts
<1>2. Elapsed(d) = f
    BY <1>1 DEF Elapsed, Delivery
<1>3. when \in {NULL, 0, 1}
    OBVIOUS
<1> HIDE DEF when
<1>4. f \in Delivery /\ f.status = d.status /\ f.action = d.action /\ f.automatic = d.automatic
    BY <1>1, <1>3 DEF Delivery
<1> HIDE DEF f
<1>5. /\ e \in Delivery /\ e.status = f.status /\ e.action = f.action
      /\ e.automatic = f.automatic
    BY <1>4 DEF Delivery
<1>6. e = [Elapsed(d) EXCEPT !.escalated = "long ago"]
    BY <1>2
<1> HIDE DEF e
<1> QED
    BY <1>2, <1>4, <1>5, <1>6, NullIsNoRow DEF Counts, Going

LEMMA TimeStep ==
    ASSUME Sending, Tick \/ NextDay
    PROVE  Sending' /\ \A b \in Cases : Promised(b)
<1>1. told' = told /\ failNext' = failNext /\ today' \in 0..MaxDay
  <2>1. told' = told /\ failNext' = failNext /\ (today' = today \/ (today < MaxDay /\ today' = today + 1))
      BY DEF Tick, NextDay
  <2>2. today \in 0..MaxDay /\ MaxDay \in Nat
      BY BoundsOfPortal DEF Sending
  <2> QED
      BY <2>1, <2>2
<1>2. ASSUME NEW c \in Cases
      PROVE  /\ deliveries[c] = NULL => deliveries'[c] = NULL
             /\ deliveries[c] # NULL => /\ Counts(deliveries'[c]) /\ deliveries'[c] # NULL
                                        /\ deliveries'[c].status = deliveries[c].status
                                        /\ deliveries'[c].action = deliveries[c].action
  <2>1. CASE deliveries[c] = NULL
      BY <2>1 DEF Tick, NextDay, Elapsed
  <2>2. CASE deliveries[c] # NULL
    <3>1. Counts(deliveries[c])
        BY <2>2 DEF Sending
    <3>2. \/ deliveries'[c] = Elapsed(deliveries[c])
          \/ deliveries'[c] = [Elapsed(deliveries[c]) EXCEPT !.escalated = "long ago"]
        BY DEF Tick, NextDay
    <3> QED
        BY <2>2, <3>1, <3>2, ElapsedRow
  <2> QED
      BY <2>1, <2>2
<1>3. deliveries' = [c \in Cases |-> deliveries'[c]]
    BY DEF Tick, NextDay
<1>4. \A c \in Cases : deliveries'[c] \in Delivery \cup {NULL}
    BY <1>2 DEF Counts
<1>5. deliveries' \in [Cases -> Delivery \cup {NULL}]
    BY <1>3, <1>4
<1>6. \A c \in Cases : Promised(c)
  <2> SUFFICES ASSUME NEW c \in Cases PROVE Promised(c)
      OBVIOUS
  <2>1. CASE deliveries[c] = NULL
      BY <1>1, <1>2, <2>1, Idle
  <2>2. CASE deliveries[c] # NULL
    <3>1. StageOf(deliveries'[c]) = StageOf(deliveries[c])
        BY <1>2, <2>2, StageOfStatus DEF Sending
    <3> QED
        BY <1>1, <1>2, <2>2, <3>1 DEF Promised, Attempted, Same, ActionOf
  <2> QED
      BY <2>1, <2>2
<1>7. Sending'
    BY <1>1, <1>2, <1>5 DEF Sending
<1> QED
    BY <1>6, <1>7

LEMMA SendingInit == Init => Sending
<1>1. 0 \in 0..MaxDay
    BY BoundsOfPortal
<1> QED
    BY <1>1 DEF Init, Sending

LEMMA SendingStep ==
    ASSUME Sending, [Next]_vars
    PROVE  Sending' /\ \A c \in Cases : Promised(c)
<1>1. CASE UNCHANGED <<deliveries, told, failNext, today>>
    BY <1>1, Idle DEF Sending
<1>2. CASE FailNextDelivery
    BY <1>2, Idle DEF Sending, FailNextDelivery
<1>3. CASE ListDeliveries \/ \E org \in Clients, p \in Periods : GenerateReport(org, p)
    BY <1>3, AdvanceStep DEF ListDeliveries, GenerateReport
<1>4. ASSUME NEW c \in Cases, ResolveCase(c) \/ CloseWithoutReassignment(c)
      PROVE  Sending' /\ \A b \in Cases : Promised(b)
  <2>1. PICK outcome \in DeliveredOutcome, tier \in {cases[c].aiTier, cases[c].finalTier} \cup Ratings :
             Completes(c, outcome, tier)
      BY <1>4 DEF ResolveCase, CloseWithoutReassignment, DeliveredOutcome
  <2> QED
      BY <2>1, CompletesStep
<1>5. CASE \E c \in Cases : \/ CreateReport(c) \/ AnalysisEnds(c) \/ RouteToManager(c) \/ ReassignCase(c)
    BY <1>1, <1>5 DEF CreateReport, AnalysisEnds, RouteToManager, ReassignCase, Changes, Others
<1>6. CASE \/ \E i \in DOMAIN reports : UpdateReportNote(i) \/ ReleaseReport(i)
           \/ \E u \in DOMAIN Users, i \in 0..MaxReports :
                \/ ClientSendMessage(u, i)
                \/ \E action \in {"VIEW", "DOWNLOAD"} : AuthoriseClientReport(u, i, action)
           \/ \E m \in DOMAIN messages : GetClientMessage(m) \/ ReplyClientMessage(m)
           \/ UNCHANGED vars
    BY <1>1, <1>6 DEF UpdateReportNote, ReleaseReport, ClientSendMessage, AuthoriseClientReport,
       GetClientMessage, ReplyClientMessage, vars
<1>7. CASE \E c \in Cases : GetStatus(c) \/ RetryDelivery(c) \/ EscalateDelivery(c)
    BY <1>7, StatusStep, RetryStep, MarkStep
<1>8. CASE \E u \in DOMAIN Users, c \in Cases, action \in PlatformAction :
              ClientRecordPlatformAction(u, c, action)
    BY <1>8, MarkStep
<1> QED
    BY <1>2, <1>3, <1>4, <1>5, <1>6, <1>7, <1>8, TimeStep DEF Next

LEMMA SendingInv == Spec => []Sending
  BY SendingInit, SendingStep, PTL DEF Spec

\* The stand-in delivers a result as the backend promises it: automatic attempts end
\* with the customer or with the Manager, a result is delivered once and for good, a
\* platform acts on it and the Reporter hears of it only then, whatever a Manager
\* retries, a case's second decision or the demo switch does meanwhile.
THEOREM PromiseKept == Spec => KeepsPromise
<1> DEFINE A == \A c \in Cases : Promise(c)!Next \/ UNCHANGED Promise(c)!vars
           B == \A c \in Cases : Promise(c)!Init
<1>1. Init => B
  <2> SUFFICES ASSUME Init, NEW c \in Cases PROVE Promise(c)!Init
      OBVIOUS
  <2> QED
      BY DEF Init, StageOf, Promise!Init, Promise!Stages
<1>2. Sending /\ Sending' /\ [Next]_vars => [A]_vars
    BY SendingStep, PromisedNext
<1> HIDE DEF A, B
<1>3. Spec => B /\ [][A]_vars
    BY <1>1, <1>2, SendingInv, PTL DEF Spec
<1> QED
    BY <1>3 DEF A, B, KeepsPromise

(***************************************************************************)
(* The figures. The counts of a tally add up to those counted: the places  *)
(* in the counts and the rows they count are as many.                      *)
(***************************************************************************)
Pairs(f) == UNION {{k} \X (1..f[k]) : k \in DOMAIN f}

LEMMA PairsOf ==
    ASSUME NEW f
    PROVE  \A e : e \in Pairs(f) <=> \E k \in DOMAIN f : \E i \in 1..f[k] : e = <<k, i>>
  BY DEF Pairs

LEMMA BijectionFacts ==
    ASSUME NEW I, NEW S, NEW h \in Bijection(I, S)
    PROVE  /\ \A i \in I : h[i] \in S
           /\ \A i, j \in I : h[i] = h[j] => i = j
           /\ \A x \in S : \E i \in I : h[i] = x
  BY DEF Bijection, Injection, Surjection, IsInjective

LEMMA TallyTotal ==
    ASSUME NEW S, IsFiniteSet(S), NEW K, NEW g, NEW f,
           DOMAIN f = K, \A k \in K : f[k] = Cardinality({x \in S : g[x] = k})
    PROVE  Total(f) = Cardinality({x \in S : g[x] \in K})
<1> DEFINE T == {x \in S : g[x] \in K}
           B(k) == {x \in S : g[x] = k}
           D == Pairs(f)
           b == [k \in K |-> CHOOSE h : h \in Bijection(1..f[k], B(k))]
           h == [e \in D |-> b[e[1]][e[2]]]
<1>1. ASSUME NEW k \in K
      PROVE  /\ b[k] \in Bijection(1..f[k], B(k))
  <2>1. IsFiniteSet(B(k)) /\ f[k] = Cardinality(B(k))
      BY FS_Subset
  <2>2. \E j : j \in Bijection(1..f[k], B(k))
      BY <2>1, FS_CardinalityType DEF ExistsBijection
  <2> QED
      BY <2>2
<1>2. ASSUME NEW k \in K
      PROVE  /\ \A i \in 1..f[k] : b[k][i] \in S /\ g[b[k][i]] = k
             /\ \A i, j \in 1..f[k] : b[k][i] = b[k][j] => i = j
             /\ \A x \in S : g[x] = k => \E i \in 1..f[k] : b[k][i] = x
  <2>1. /\ \A i \in 1..f[k] : b[k][i] \in B(k)
        /\ \A i, j \in 1..f[k] : b[k][i] = b[k][j] => i = j
        /\ \A x \in B(k) : \E i \in 1..f[k] : b[k][i] = x
    <3> DEFINE I == 1..f[k]
               R == B(k)
               j == b[k]
    <3>1. j \in Bijection(I, R)
        BY <1>1
    <3> HIDE DEF I, R, j
    <3>2. /\ \A i \in I : j[i] \in R
          /\ \A i, l \in I : j[i] = j[l] => i = l
          /\ \A x \in R : \E i \in I : j[i] = x
        BY <3>1, BijectionFacts
    <3> QED
        BY <3>2 DEF I, R, j
  <2> HIDE DEF b
  <2> QED
      BY <2>1
<1>3. \A e : e \in D <=> \E k \in K : \E i \in 1..f[k] : e = <<k, i>>
  <2>1. DOMAIN f = K
      OBVIOUS
  <2>2. \A e : e \in Pairs(f) <=> \E k \in DOMAIN f : \E i \in 1..f[k] : e = <<k, i>>
    <3> HIDE DEF T, B, D, b, h
    <3> QED
        BY PairsOf
  <2> QED
      BY <2>1, <2>2
<1> HIDE DEF b, D, B
<1>4. h \in [D -> T]
  <2>1. ASSUME NEW e \in D PROVE b[e[1]][e[2]] \in T
    <3>1. PICK k \in K : \E i \in 1..f[k] : e = <<k, i>>
        BY <1>3
    <3>2. PICK i \in 1..f[k] : e = <<k, i>>
        BY <3>1
    <3> QED
        BY <3>1, <3>2, <1>2
  <2> HIDE DEF T
  <2> QED
      BY <2>1
<1>5. ASSUME NEW d \in D, NEW e \in D, h[d] = h[e] PROVE d = e
  <2>0. PICK k \in K, l \in K : (\E i \in 1..f[k] : d = <<k, i>>) /\ (\E j \in 1..f[l] : e = <<l, j>>)
      BY <1>3
  <2>1. PICK i \in 1..f[k] : d = <<k, i>>
      BY <2>0
  <2>2. PICK j \in 1..f[l] : e = <<l, j>>
      BY <2>0
  <2>3. h[d] = b[k][i] /\ h[e] = b[l][j]
      BY <2>1, <2>2
  <2>4. k = l
      BY <2>3, <1>2, <1>5
  <2> QED
      BY <2>1, <2>2, <2>3, <2>4, <1>2, <1>5
<1>6. ASSUME NEW x \in T PROVE \E d \in D : h[d] = x
  <2>1. PICK i \in 1..f[g[x]] : b[g[x]][i] = x
      BY <1>2
  <2>2. <<g[x], i>> \in D
      BY <1>3, <2>1
  <2> QED
      BY <2>1, <2>2
<1> HIDE DEF h
<1>7. h \in Bijection(D, T)
    BY <1>4, <1>5, <1>6 DEF Bijection, Injection, Surjection, IsInjective
<1>8. ExistsBijection(T, D)
    BY <1>7, Fun_ExistsBijSymmetric DEF ExistsBijection
<1>9. IsFiniteSet(T)
    BY FS_Subset
<1> QED
    BY <1>8, <1>9, FS_Bijection DEF Total, D, Pairs

\* What a figure can say of a stored case.
Stored(r, now) ==
    /\ r \in CaseRecord
    /\ r.created <= now
    /\ r.status = "COMPLETE" <=> r.completed # NULL
    /\ r.completed # NULL => r.completed <= now
    /\ ~r.live => /\ r.status = "COMPLETE" /\ r.outcome \in FinalOutcome
                  /\ r.aiTier # NULL /\ r.finalTier # NULL

SentOut(d) == /\ d.status \in DeliveryStatus /\ d.outcome \in DeliveredOutcome
              /\ d.action \in {NULL, "REMOVED", "KEPT"}

LEMMA CountIsNat ==
    ASSUME NEW S, IsFiniteSet(S), NEW T, T \subseteq S
    PROVE  IsFiniteSet(T) /\ Cardinality(T) \in Nat /\ Cardinality(T) <= Cardinality(S)
  BY FS_Subset, FS_CardinalityType

LEMMA Disjoint ==
    ASSUME NEW S, IsFiniteSet(S), NEW T, T \subseteq S, NEW U, U \subseteq S, T \cap U = {}
    PROVE  Cardinality(T \cup U) = Cardinality(T) + Cardinality(U)
<1>1. IsFiniteSet(T) /\ IsFiniteSet(U) /\ Cardinality(T) \in Nat /\ Cardinality(U) \in Nat
    BY CountIsNat
<1>2. Cardinality(T \cup U) = Cardinality(T) + Cardinality(U) - Cardinality(T \cap U)
    BY <1>1, FS_Union
<1>3. Cardinality(T \cap U) = 0
    BY FS_EmptySet
<1> QED
    BY <1>1, <1>2, <1>3

\* The decided cases of a period, by outcome and by tier.
LEMMA DecidedAdds ==
    ASSUME NEW rows, IsFiniteSet(rows), NEW sent, NEW p, NEW now,
           \A r \in rows : Stored(r, now)
    PROVE  LET n == ComputeMetrics(rows, sent, p)
               m == ComputeIntelligence(rows, sent, p)
           IN  /\ Total(n.outcomes) <= n.cases_completed
               /\ m.eligible <= Total(m.severity)
<1> DEFINE S == Decided(rows, p)
           n == ComputeMetrics(rows, sent, p)
           m == ComputeIntelligence(rows, sent, p)
           g == [r \in S |-> r.outcome]
           h == [r \in S |-> r.finalTier]
           C == Completed(rows, p)
           E == Comparable(rows, p)
           R == {r \in S : h[r] \in SeverityTier}
<1>1. /\ C \subseteq rows /\ S \subseteq C /\ S \subseteq rows
      /\ \A r \in S : r.outcome \in FinalOutcome
    BY DEF Decided, Completed
<1>2. IsFiniteSet(S) /\ IsFiniteSet(C) /\ IsFiniteSet(R)
    BY <1>1, FS_Subset
<1>3. /\ n.outcomes = [k \in FinalOutcome |-> Cardinality({r \in S : r.outcome = k})]
      /\ m.severity = [k \in SeverityTier |-> Cardinality({r \in S : r.finalTier = k})]
      /\ n.cases_completed = Cardinality(C) /\ m.eligible = Cardinality(E)
    BY DEF ComputeMetrics, ComputeIntelligence, BySeverity, Tally, Count
<1>4. E \subseteq R
    BY <1>1 DEF Comparable, Stored, CaseRecord
<1> HIDE DEF n, m, E, S, C
<1>5. Total(n.outcomes) = Cardinality(S)
  <2>1. \A k \in FinalOutcome : {r \in S : r.outcome = k} = {r \in S : g[r] = k}
      OBVIOUS
  <2>2. {r \in S : g[r] \in FinalOutcome} = S
      BY <1>1
  <2>3. DOMAIN n.outcomes = FinalOutcome
        /\ \A k \in FinalOutcome : n.outcomes[k] = Cardinality({r \in S : g[r] = k})
      BY <1>3, <2>1
  <2> HIDE DEF g
  <2> QED
      BY <1>2, <2>2, <2>3, TallyTotal
<1>6. Total(m.severity) = Cardinality(R)
  <2>1. \A k \in SeverityTier : {r \in S : r.finalTier = k} = {r \in S : h[r] = k}
      OBVIOUS
  <2>2. DOMAIN m.severity = SeverityTier
        /\ \A k \in SeverityTier : m.severity[k] = Cardinality({r \in S : h[r] = k})
      BY <1>3, <2>1
  <2> HIDE DEF h
  <2> QED
      BY <1>2, <2>2, TallyTotal
<1> HIDE DEF R
<1> QED
    BY <1>1, <1>2, <1>3, <1>4, <1>5, <1>6, CountIsNat DEF n, m

\* The open cases, by stage.
LEMMA OpenAdds ==
    ASSUME NEW rows, IsFiniteSet(rows), NEW sent, NEW p, NEW now \in Nat,
           NULL \notin Nat, NULL \notin ManagerFlag, p \in Nat \X Nat,
           \A r \in rows : Stored(r, now)
    PROVE  LET n == ComputeMetrics(rows, sent, p)
               m == ComputeIntelligence(rows, sent, p)
           IN  /\ Total(m.open_breakdown) = m.open_cases
               /\ now <= p[2] => n.open_at_end = m.open_cases
               /\ m.attention.REASSIGNMENT + m.attention.CAP_INTERRUPTED
                    <= m.open_breakdown.MANAGER_ACTION
<1> DEFINE S == OpenLive(rows)
           n == ComputeMetrics(rows, sent, p)
           m == ComputeIntelligence(rows, sent, p)
           g == [r \in S |-> OpenBucket(r)]
           D == {r \in S : r.flag = "DECLINED"}
           C == {r \in S : r.flag = "CAP_REACHED"}
           M == {r \in S : OpenBucket(r) = "MANAGER_ACTION"}
<1>1. S \subseteq rows /\ \A r \in S : Stored(r, now)
    BY DEF OpenLive
<1>2. IsFiniteSet(S)
    BY <1>1, FS_Subset
<1>3. /\ m.open_breakdown = [k \in OPEN_BUCKETS |-> Cardinality({r \in S : OpenBucket(r) = k})]
      /\ m.open_cases = Cardinality(S) /\ n.open_at_end = Cardinality(OpenAtEnd(rows, p))
      /\ m.attention.REASSIGNMENT = Cardinality(D) /\ m.attention.CAP_INTERRUPTED = Cardinality(C)
    BY DEF ComputeMetrics, ComputeIntelligence, BySeverity, Tally, Count
<1>4. \A r \in S : OpenBucket(r) \in OPEN_BUCKETS
    BY DEF OpenBucket, OPEN_BUCKETS
<1>5. now <= p[2] => OpenAtEnd(rows, p) = S
  <2> SUFFICES ASSUME now <= p[2] PROVE OpenAtEnd(rows, p) = S
      OBVIOUS
  <2>1. ASSUME NEW r \in rows
        PROVE  (r.created <= p[2] /\ (r.completed = NULL \/ r.completed > p[2]))
               <=> (r.live /\ r.status # "COMPLETE")
    <3>1. Stored(r, now) /\ r.created \in Nat /\ r.completed \in Nat \cup {NULL} /\ p[2] \in Nat
          /\ r.live \in BOOLEAN
        BY DEF Stored, CaseRecord
    <3>2. CASE r.completed = NULL
        BY <3>1, <3>2 DEF Stored
    <3>3. CASE r.completed # NULL
        BY <3>1, <3>3 DEF Stored
    <3> QED
        BY <3>2, <3>3
  <2> QED
      BY <2>1 DEF OpenAtEnd, OpenLive
<1>6. D \subseteq M /\ C \subseteq M /\ D \cap C = {} /\ M \subseteq S
    BY DEF OpenBucket, ManagerFlag
<1>7. "MANAGER_ACTION" \in OPEN_BUCKETS
    BY DEF OPEN_BUCKETS
<1> HIDE DEF n, m, S, D, C
<1>8. Total(m.open_breakdown) = Cardinality(S)
  <2>1. \A k \in OPEN_BUCKETS : {r \in S : OpenBucket(r) = k} = {r \in S : g[r] = k}
      OBVIOUS
  <2>2. {r \in S : g[r] \in OPEN_BUCKETS} = S
      BY <1>4
  <2>3. DOMAIN m.open_breakdown = OPEN_BUCKETS
        /\ \A k \in OPEN_BUCKETS : m.open_breakdown[k] = Cardinality({r \in S : g[r] = k})
      BY <1>3, <2>1
  <2> HIDE DEF g
  <2> QED
      BY <1>2, <2>2, <2>3, TallyTotal
<1>9. m.open_breakdown["MANAGER_ACTION"] = Cardinality(M)
    BY <1>3, <1>7
<1> HIDE DEF M
<1>10. Cardinality(D) + Cardinality(C) <= Cardinality(M)
  <2>1. IsFiniteSet(M)
      BY <1>2, <1>6, FS_Subset
  <2>2. Cardinality(D \cup C) = Cardinality(D) + Cardinality(C)
      BY <1>6, <2>1, Disjoint
  <2>3. Cardinality(D \cup C) <= Cardinality(M)
      BY <1>6, <2>1, CountIsNat
  <2> QED
      BY <2>2, <2>3
<1> QED
    BY <1>3, <1>5, <1>8, <1>9, <1>10 DEF n, m

\* The comparison of the AI with the Auditors: the cells of the matrix add up to
\* the cases compared, and what is off the diagonal is the overrides.
LEMMA ComparisonAdds ==
    ASSUME NEW rows, IsFiniteSet(rows), NEW sent, NEW p, NEW now,
           \A r \in rows : Stored(r, now)
    PROVE  LET n == ComputeMetrics(rows, sent, p)
               m == ComputeIntelligence(rows, sent, p)
           IN  /\ Total([t \in SeverityTier |-> Total(m.matrix[t])]) = m.eligible
               /\ m.eligible - Total([t \in SeverityTier |-> m.matrix[t][t]]) = m.overrides
               /\ n.override_count = m.overrides
<1> DEFINE E == Comparable(rows, p)
           n == ComputeMetrics(rows, sent, p)
           m == ComputeIntelligence(rows, sent, p)
           a == [r \in E |-> r.aiTier]
           f == [r \in E |-> r.finalTier]
           row(t) == {r \in E : a[r] = t}
           same == {r \in E : a[r] = f[r]}
           sums == [t \in SeverityTier |-> Total(m.matrix[t])]
           diagonal == [t \in SeverityTier |-> m.matrix[t][t]]
<1>1. /\ m.matrix = [from \in SeverityTier |-> [to \in SeverityTier |->
                       Cardinality({r \in E : r.aiTier = from /\ r.finalTier = to})]]
      /\ m.eligible = Cardinality(E) /\ m.overrides = Cardinality(Overridden(E))
      /\ n.override_count = Cardinality(Overridden(E))
    BY DEF ComputeMetrics, ComputeIntelligence, Tally, Count
<1>2. E \subseteq rows /\ \A r \in E : r.aiTier \in SeverityTier /\ r.finalTier \in SeverityTier
    BY DEF Comparable, Decided, Completed, Stored, CaseRecord
<1>3. IsFiniteSet(E) /\ IsFiniteSet(same)
    BY <1>2, FS_Subset
<1>4. Overridden(E) = E \ same
    BY DEF Overridden
<1>5. \A r \in E : a[r] \in SeverityTier /\ f[r] \in SeverityTier
    BY <1>2
<1>6. ASSUME NEW s \in SeverityTier, NEW t \in SeverityTier
      PROVE  m.matrix[s][t] = Cardinality({r \in E : a[r] = s /\ f[r] = t})
  <2>1. {r \in E : r.aiTier = s /\ r.finalTier = t} = {r \in E : a[r] = s /\ f[r] = t}
      OBVIOUS
  <2> HIDE DEF m, a, f, E
  <2>2. m.matrix[s][t] = Cardinality({r \in E : r.aiTier = s /\ r.finalTier = t})
      BY <1>1
  <2> QED
      BY <2>1, <2>2
<1>7. \A s \in SeverityTier : DOMAIN m.matrix[s] = SeverityTier
    BY <1>1
<1> HIDE DEF E, n, m, a, f
<1>8. ASSUME NEW s \in SeverityTier PROVE Total(m.matrix[s]) = Cardinality(row(s))
  <2>1. IsFiniteSet(row(s))
      BY <1>3, FS_Subset
  <2>2. \A t \in SeverityTier : {r \in E : a[r] = s /\ f[r] = t} = {r \in row(s) : f[r] = t}
      OBVIOUS
  <2>3. \A t \in SeverityTier : m.matrix[s][t] = Cardinality({r \in row(s) : f[r] = t})
      BY <1>6, <2>2
  <2>4. {r \in row(s) : f[r] \in SeverityTier} = row(s)
      BY <1>5
  <2>5. DOMAIN m.matrix[s] = SeverityTier
      BY <1>7
  <2> DEFINE line == m.matrix[s]
             R == row(s)
  <2>6. DOMAIN line = SeverityTier /\ \A t \in SeverityTier : line[t] = Cardinality({r \in R : f[r] = t})
      BY <2>3, <2>5
  <2> HIDE DEF line, R
  <2>7. Total(line) = Cardinality({r \in R : f[r] \in SeverityTier})
      BY <2>1, <2>6, TallyTotal DEF R
  <2> QED
      BY <2>7, <2>4 DEF line, R
<1>9. Total(sums) = Cardinality(E)
  <2>1. DOMAIN sums = SeverityTier /\ \A t \in SeverityTier : sums[t] = Cardinality({r \in E : a[r] = t})
      BY <1>8
  <2>2. {r \in E : a[r] \in SeverityTier} = E
      BY <1>5
  <2> HIDE DEF sums
  <2> QED
      BY <1>3, <2>1, <2>2, TallyTotal
<1>10. Total(diagonal) = Cardinality(same)
  <2>1. \A t \in SeverityTier : {r \in E : a[r] = t /\ f[r] = t} = {r \in same : a[r] = t}
      OBVIOUS
  <2>2. DOMAIN diagonal = SeverityTier
        /\ \A t \in SeverityTier : diagonal[t] = Cardinality({r \in same : a[r] = t})
      BY <1>6, <2>1
  <2>3. {r \in same : a[r] \in SeverityTier} = same
      BY <1>5
  <2> HIDE DEF diagonal, same
  <2> QED
      BY <1>3, <2>2, <2>3, TallyTotal
<1>11. Cardinality(E) - Cardinality(same) = Cardinality(Overridden(E))
         /\ Cardinality(E) \in Nat /\ Cardinality(same) \in Nat
  <2>1. same \subseteq E /\ E \cap same = same
      OBVIOUS
  <2> HIDE DEF same
  <2> QED
      BY <1>3, <1>4, <2>1, FS_Difference, FS_CardinalityType
<1> QED
    BY <1>1, <1>9, <1>10, <1>11 DEF n, m

\* Over all time it is the governance page's.
LEMMA GovernanceAgrees ==
    ASSUME NEW rows, IsFiniteSet(rows), NEW sent, NEW p \in Nat \X Nat, NEW now \in Nat,
           NULL \notin Nat, \A r \in rows : Stored(r, now), p[1] = 0, now <= p[2]
    PROVE  LET m == ComputeIntelligence(rows, sent, p)
           IN  /\ m.eligible = Cardinality(ComparisonRows(rows))
               /\ m.overrides = Total(OverridePatterns(rows))
<1> DEFINE E == Comparable(rows, p)
           m == ComputeIntelligence(rows, sent, p)
           O == Overridden(E)
           g == [r \in O |-> <<r.aiTier, r.finalTier>>]
           K == SeverityTier \X SeverityTier
           pats == OverridePatterns(rows)
<1>1. m.eligible = Cardinality(E) /\ m.overrides = Cardinality(O)
    BY DEF ComputeIntelligence
<1>2. E = ComparisonRows(rows)
  <2>1. ASSUME NEW r \in rows
        PROVE  (r.completed # NULL => 0 <= r.completed /\ r.completed <= p[2])
               /\ (r.completed # NULL <=> r.status = "COMPLETE")
               /\ (~r.live => /\ r.status = "COMPLETE" /\ r.outcome \in FinalOutcome
                              /\ r.aiTier # NULL /\ r.finalTier # NULL)
      BY DEF Stored, CaseRecord
  <2> QED
      BY <2>1 DEF Comparable, Decided, Completed, In, ComparisonRows
<1>3. O \subseteq E /\ E \subseteq rows /\ \A r \in O : g[r] \in K
    BY DEF Overridden, Comparable, Decided, Completed, Stored, CaseRecord
<1>4. IsFiniteSet(O)
  <2>1. O \subseteq rows
      BY <1>3
  <2> HIDE DEF O
  <2> QED
      BY <2>1, FS_Subset
<1>5. pats = [k \in K |-> Cardinality({r \in O : <<r.aiTier, r.finalTier>> = k})]
    BY <1>2 DEF OverridePatterns, Tally, Count
<1> HIDE DEF E, m, O, pats
<1>6. \A k \in K : {r \in O : <<r.aiTier, r.finalTier>> = k} = {r \in O : g[r] = k}
    OBVIOUS
<1>7. DOMAIN pats = K /\ \A k \in K : pats[k] = Cardinality({r \in O : g[r] = k})
    BY <1>5, <1>6
<1>8. {r \in O : g[r] \in K} = O
    BY <1>3
<1> HIDE DEF K, g
<1>9. Total(pats) = Cardinality(O)
    BY <1>4, <1>7, <1>8, TallyTotal
<1> QED
    BY <1>1, <1>2, <1>9 DEF m, pats

\* What a client has been sent.
LEMMA ResultsAdd ==
    ASSUME NEW sent, IsFiniteSet(sent), \A d \in sent : SentOut(d), NULL # "REMOVED", NULL # "KEPT"
    PROVE  LET s == SummariseCaseResults(sent)
           IN  /\ s.delivered = Total(s.needs_action) + s.removed + s.kept
               /\ s.violations <= s.decided
<1> DEFINE s == SummariseCaseResults(sent)
           D == {d \in sent : d.status = "SUCCESS"}
           none == {d \in D : d.outcome = "CLOSED_NO_REASSIGNMENT"}
           bad == {d \in D : d.outcome = "POLICY_VIOLATION_FOUND"}
           W == {d \in D : d.action = NULL}
           R == {d \in D : d.action = "REMOVED"}
           L == {d \in D : d.action = "KEPT"}
           g == [d \in W |-> d.outcome]
<1>1. /\ s.delivered = Cardinality(D)
      /\ s.needs_action = [o \in DeliveredOutcome |-> Cardinality({d \in W : d.outcome = o})]
      /\ s.removed = Cardinality(R) /\ s.kept = Cardinality(L)
      /\ s.violations = Cardinality(bad)
      /\ s.decided = Cardinality(D) - Cardinality(none)
    BY DEF SummariseCaseResults, Tally, Count
<1>2. IsFiniteSet(D) /\ none \subseteq D /\ bad \subseteq D /\ none \cap bad = {}
      /\ W \subseteq D /\ R \subseteq D /\ L \subseteq D
    BY FS_Subset
<1>3. \A d \in W : d.outcome \in DeliveredOutcome
    BY DEF SentOut
<1>4. D = (W \cup R) \cup L /\ W \cap R = {} /\ (W \cup R) \cap L = {}
    BY DEF SentOut
<1> HIDE DEF s, D, none, bad
<1>5. \A o \in DeliveredOutcome : {d \in W : d.outcome = o} = {d \in W : g[d] = o}
    OBVIOUS
<1>6. {d \in W : g[d] \in DeliveredOutcome} = W
    BY <1>3
<1> HIDE DEF W, R, L, g
<1>7. Total(s.needs_action) = Cardinality(W)
  <2> DEFINE f == s.needs_action
  <2>1. DOMAIN f = DeliveredOutcome
        /\ \A o \in DeliveredOutcome : f[o] = Cardinality({d \in W : g[d] = o})
      BY <1>1, <1>5
  <2>2. IsFiniteSet(W)
      BY <1>2, FS_Subset
  <2> HIDE DEF f
  <2>3. Total(f) = Cardinality(W)
      BY <1>6, <2>1, <2>2, TallyTotal
  <2> QED
      BY <2>3 DEF f
<1>8. Cardinality(D) = Cardinality(W) + Cardinality(R) + Cardinality(L)
  <2>1. Cardinality(W \cup R) = Cardinality(W) + Cardinality(R)
      BY <1>2, <1>4, Disjoint
  <2>2. W \cup R \subseteq D
      BY <1>2
  <2>3. Cardinality((W \cup R) \cup L) = Cardinality(W \cup R) + Cardinality(L)
      BY <1>2, <1>4, <2>2, Disjoint
  <2> QED
      BY <1>4, <2>1, <2>3
<1>9. Cardinality(bad) <= Cardinality(D) - Cardinality(none)
  <2>1. Cardinality(none \cup bad) = Cardinality(none) + Cardinality(bad)
      BY <1>2, Disjoint
  <2>2. Cardinality(none \cup bad) <= Cardinality(D)
      BY <1>2, CountIsNat
  <2>3. Cardinality(none) \in Nat /\ Cardinality(bad) \in Nat /\ Cardinality(D) \in Nat
      BY <1>2, CountIsNat
  <2> QED
      BY <2>1, <2>2, <2>3
<1> QED
    BY <1>1, <1>7, <1>8, <1>9 DEF s

LEMMA HandoffsAdd ==
    ASSUME NEW rows, NEW sent, IsFiniteSet(sent), \A d \in sent : SentOut(d), NEW p
    PROVE  LET m == ComputeIntelligence(rows, sent, p)
           IN  m.attention.FAILED_HANDOFF <= Total(DeliveryHealth(sent))
<1> DEFINE m == ComputeIntelligence(rows, sent, p)
           failed == {d \in sent : NeedsTheManager(d)}
           health == DeliveryHealth(sent)
           g == [d \in sent |-> d.status]
<1>1. m.attention.FAILED_HANDOFF = Cardinality(failed)
    BY DEF ComputeIntelligence
<1>2. health = [k \in DeliveryStatus |-> Cardinality({d \in sent : d.status = k})]
    BY DEF DeliveryHealth, Tally, Count
<1>3. \A k \in DeliveryStatus : {d \in sent : d.status = k} = {d \in sent : g[d] = k}
    OBVIOUS
<1>4. {d \in sent : g[d] \in DeliveryStatus} = sent
    BY DEF SentOut
<1>5. failed \subseteq sent
    OBVIOUS
<1> HIDE DEF m, failed, health, g
<1>6. DOMAIN health = DeliveryStatus
      /\ \A k \in DeliveryStatus : health[k] = Cardinality({d \in sent : g[d] = k})
    BY <1>2, <1>3
<1>7. Total(health) = Cardinality(sent)
    BY <1>4, <1>6, TallyTotal
<1>8. Cardinality(failed) <= Cardinality(sent)
    BY <1>5, FS_Subset
<1> QED
    BY <1>1, <1>7, <1>8 DEF m, health

\* The figures of a period agree, whatever cases and deliveries there are.
LEMMA StoriesAgree ==
    ASSUME NEW rows, IsFiniteSet(rows), NEW sent, IsFiniteSet(sent),
           NEW p \in Nat \X Nat, NEW now \in Nat, NULL \notin Nat, NULL \notin ManagerFlag,
           NULL # "REMOVED", NULL # "KEPT",
           \A r \in rows : Stored(r, now), \A d \in sent : SentOut(d)
    PROVE  SameStory(rows, sent, p, now)
<1> DEFINE n == ComputeMetrics(rows, sent, p)
           m == ComputeIntelligence(rows, sent, p)
           s == SummariseCaseResults(sent)
<1>1. n.outcomes = m.outcomes /\ n.severity_breakdown = m.severity
    BY DEF ComputeMetrics, ComputeIntelligence
<1>2. Total(n.outcomes) <= n.cases_completed /\ m.eligible <= Total(m.severity)
    BY DecidedAdds
<1>3. /\ Total(m.open_breakdown) = m.open_cases
      /\ now <= p[2] => n.open_at_end = m.open_cases
      /\ m.attention.REASSIGNMENT + m.attention.CAP_INTERRUPTED <= m.open_breakdown.MANAGER_ACTION
    BY OpenAdds
<1>4. /\ Total([t \in SeverityTier |-> Total(m.matrix[t])]) = m.eligible
      /\ m.eligible - Total([t \in SeverityTier |-> m.matrix[t][t]]) = m.overrides
      /\ n.override_count = m.overrides
    BY ComparisonAdds
<1>5. m.attention.FAILED_HANDOFF <= Total(DeliveryHealth(sent))
    BY HandoffsAdd
<1>6. p[1] = 0 /\ now <= p[2] => /\ m.eligible = Cardinality(ComparisonRows(rows))
                                   /\ m.overrides = Total(OverridePatterns(rows))
    BY GovernanceAgrees
<1>7. s.delivered = Total(s.needs_action) + s.removed + s.kept /\ s.violations <= s.decided
    BY ResultsAdd
<1> HIDE DEF n, m, s
<1> QED
    BY <1>1, <1>2, <1>3, <1>4, <1>5, <1>6, <1>7 DEF SameStory, n, m, s

(***************************************************************************)
(* The cases as the figures find them.                                     *)
(***************************************************************************)
CasesStored == /\ cases \in [Cases -> CaseRecord \cup {NULL}]
               /\ \A c \in Cases : cases[c] # NULL =>
                     Stored(cases[c], today) /\ cases[c].live /\ cases[c].case_id = c
               /\ today \in 0..MaxDay

\* One case becomes another row.
LEMMA CaseMoves ==
    ASSUME CasesStored, NEW c \in Cases, NEW row, Stored(row, today), row.live, row.case_id = c,
           cases' = [cases EXCEPT ![c] = row], today' = today
    PROVE  CasesStored'
<1>1. row \in CaseRecord
    BY DEF Stored
<1>2. /\ cases' \in [Cases -> CaseRecord \cup {NULL}] /\ cases'[c] = row
      /\ \A b \in Cases \ {c} : cases'[b] = cases[b]
    BY <1>1 DEF CasesStored
<1> QED
    BY <1>2 DEF CasesStored

LEMMA NewRow ==
    ASSUME CasesStored, NEW c \in Cases, CreateReport(c)
    PROVE  CasesStored'
<1> DEFINE row == [case_id |-> c, live |-> TRUE, status |-> "AI_PROCESSING", flag |-> NULL,
                   created |-> today, completed |-> NULL, aiTier |-> NULL, finalTier |-> NULL,
                   outcome |-> NULL]
<1>1. cases' = [cases EXCEPT ![c] = row] /\ today' = today
    BY DEF CreateReport, Changes, Others
<1>2. today \in Nat /\ c \in CaseIds
  <2>1. Cases \subseteq CaseIds
      BY PortalAssumption
  <2> QED
      BY <2>1, BoundsOfPortal DEF CasesStored
<1>3. row \in CaseRecord
    BY <1>2 DEF CaseRecord, CaseStatus
<1>4. Stored(row, today) /\ row.live /\ row.case_id = c
    BY <1>2, <1>3 DEF Stored
<1> QED
    BY <1>1, <1>4, CaseMoves

\* A row of a live case, and what the handlers make of it.
LEMMA FlaggedRow ==
    ASSUME NEW r, NEW day, day \in Nat, NULL \notin Nat, Stored(r, day), r.live, NEW f, f \in ManagerFlag \cup {NULL}
    PROVE  LET e == [r EXCEPT !.flag = f]
           IN  Stored(e, day) /\ e.live /\ e.case_id = r.case_id
<1> DEFINE e == [r EXCEPT !.flag = f]
<1>1. r \in CaseRecord
    BY DEF Stored
<1>2. /\ e \in CaseRecord /\ e.created = r.created /\ e.completed = r.completed
      /\ e.status = r.status /\ e.live = r.live /\ e.case_id = r.case_id
    BY <1>1 DEF CaseRecord
<1> HIDE DEF e
<1>3. Stored(e, day)
    BY <1>2 DEF Stored
<1> QED
    BY <1>2, <1>3 DEF e

LEMMA AnalysedRow ==
    ASSUME NEW r, NEW day, day \in Nat, NULL \notin Nat, Stored(r, day), r.live,
           r.status = "AI_PROCESSING", NEW t, t \in SeverityTier
    PROVE  LET e == [r EXCEPT !.status = "READY_FOR_REVIEW", !.aiTier = t, !.finalTier = t]
           IN  Stored(e, day) /\ e.live /\ e.case_id = r.case_id
<1> DEFINE e == [r EXCEPT !.status = "READY_FOR_REVIEW", !.aiTier = t, !.finalTier = t]
<1>1. r \in CaseRecord
    BY DEF Stored
<1>2. /\ e \in CaseRecord /\ e.created = r.created /\ e.completed = r.completed
      /\ e.status # "COMPLETE" /\ e.live = r.live /\ e.case_id = r.case_id
    BY <1>1 DEF CaseRecord, CaseStatus
<1> HIDE DEF e
<1>3. Stored(e, day)
    BY <1>2 DEF Stored
<1> QED
    BY <1>2, <1>3 DEF e

LEMMA ReopenedRow ==
    ASSUME NEW r, NEW day, day \in Nat, NULL \notin Nat, Stored(r, day), r.live
    PROVE  LET e == [r EXCEPT !.flag = NULL, !.status = "READY_FOR_REVIEW", !.completed = NULL]
           IN  Stored(e, day) /\ e.live /\ e.case_id = r.case_id
<1> DEFINE e == [r EXCEPT !.flag = NULL, !.status = "READY_FOR_REVIEW", !.completed = NULL]
<1>1. r \in CaseRecord
    BY DEF Stored
<1>2. /\ e \in CaseRecord /\ e.created = r.created /\ e.completed = NULL
      /\ e.status # "COMPLETE" /\ e.live = r.live /\ e.case_id = r.case_id
    BY <1>1 DEF CaseRecord, CaseStatus
<1> HIDE DEF e
<1>3. Stored(e, day)
    BY <1>2 DEF Stored
<1> QED
    BY <1>2, <1>3 DEF e

CompletedAs(r, day, o, t) ==
    [r EXCEPT !.status = "COMPLETE", !.completed = day, !.outcome = o, !.finalTier = t]

LEMMA CompletedRow ==
    ASSUME NEW r, NEW day, day \in Nat, NULL \notin Nat, Stored(r, day), r.live,
           NEW o, o \in DeliveredOutcome, NEW t, t \in SeverityTier \cup {NULL}
    PROVE  /\ Stored(CompletedAs(r, day, o, t), day) /\ CompletedAs(r, day, o, t).live
           /\ CompletedAs(r, day, o, t).case_id = r.case_id
<1> DEFINE e == [r EXCEPT !.status = "COMPLETE", !.completed = day, !.outcome = o, !.finalTier = t]
<1>1. r \in CaseRecord
    BY DEF Stored
<1>2. /\ e \in CaseRecord /\ e.created = r.created /\ e.completed = day
      /\ e.status = "COMPLETE" /\ e.live = r.live /\ e.case_id = r.case_id
  <2> DEFINE d == [r EXCEPT !.status = "COMPLETE", !.completed = day]
  <2>1. /\ d \in CaseRecord /\ d.created = r.created /\ d.completed = day
        /\ d.status = "COMPLETE" /\ d.live = r.live /\ d.case_id = r.case_id
      BY <1>1 DEF CaseRecord, CaseStatus
  <2>2. e = [d EXCEPT !.outcome = o, !.finalTier = t]
      BY <1>1 DEF CaseRecord
  <2> HIDE DEF d, e
  <2> QED
      BY <2>1, <2>2 DEF CaseRecord
<1> HIDE DEF e
<1>3. Stored(e, day)
    BY <1>2 DEF Stored
<1> QED
    BY <1>2, <1>3 DEF e, CompletedAs

LEMMA CasesStep ==
    ASSUME CasesStored, [Next]_vars
    PROVE  CasesStored'
<1>0. today \in Nat /\ NULL \notin Nat
    BY NullIsNoValue, BoundsOfPortal DEF CasesStored
<1>1. CASE UNCHANGED <<cases, today>>
    BY <1>1 DEF CasesStored
<1>2. ASSUME NEW c \in Cases, cases[c] # NULL
      PROVE  /\ Stored(cases[c], today) /\ cases[c].live /\ cases[c].case_id = c
             /\ cases[c] \in CaseRecord
    BY <1>2 DEF CasesStored, Stored
<1>3. ASSUME NEW c \in Cases, AnalysisEnds(c) PROVE CasesStored'
  <2>1. Analyses \subseteq SeverityTier
    <3>1. Analyses \subseteq {"S2", "S3"}
        BY PortalAssumption
    <3> QED
        BY <3>1 DEF SeverityTier
  <2>2. PICK t \in Analyses :
            /\ cases' = [cases EXCEPT ![c] = [cases[c] EXCEPT !.status = "READY_FOR_REVIEW",
                                                              !.aiTier = t, !.finalTier = t]]
            /\ cases[c] # NULL /\ cases[c].status = "AI_PROCESSING"
            /\ today' = today
      BY <1>3 DEF AnalysisEnds, Changes, Others
  <2> DEFINE row == [cases[c] EXCEPT !.status = "READY_FOR_REVIEW", !.aiTier = t, !.finalTier = t]
  <2>3. Stored(row, today) /\ row.live /\ row.case_id = c
      BY <1>0, <1>2, <2>1, <2>2, AnalysedRow
  <2>4. cases' = [cases EXCEPT ![c] = row]
      BY <2>2
  <2> HIDE DEF row
  <2> QED
      BY <2>2, <2>3, <2>4, CaseMoves
<1>4. ASSUME NEW c \in Cases, RouteToManager(c) PROVE CasesStored'
  <2>1. PICK f \in ManagerFlag : /\ cases' = [cases EXCEPT ![c] = [cases[c] EXCEPT !.flag = f]]
                                 /\ cases[c] # NULL /\ today' = today
      BY <1>4 DEF RouteToManager, Changes, Others
  <2> DEFINE row == [cases[c] EXCEPT !.flag = f]
  <2>2. Stored(row, today) /\ row.live /\ row.case_id = c
      BY <1>0, <1>2, <2>1, FlaggedRow
  <2>3. cases' = [cases EXCEPT ![c] = row]
      BY <2>1
  <2> HIDE DEF row
  <2> QED
      BY <2>1, <2>2, <2>3, CaseMoves
<1>5. ASSUME NEW c \in Cases, ReassignCase(c) PROVE CasesStored'
  <2>1. cases[c] # NULL /\ today' = today
      BY <1>5 DEF ReassignCase, Changes, Others
  <2>2. cases[c].aiTier # NULL => cases' = [cases EXCEPT ![c] =
          [cases[c] EXCEPT !.flag = NULL, !.status = "READY_FOR_REVIEW", !.completed = NULL]]
      BY <1>2, <1>5, <2>1 DEF ReassignCase, Changes, CaseRecord
  <2>3. cases[c].aiTier = NULL => cases' = [cases EXCEPT ![c] = [cases[c] EXCEPT !.flag = NULL]]
      BY <1>2, <1>5, <2>1 DEF ReassignCase, Changes, CaseRecord
  <2>4. PICK row : cases' = [cases EXCEPT ![c] = row] /\ Stored(row, today) /\ row.live /\ row.case_id = c
    <3> DEFINE opened == [cases[c] EXCEPT !.flag = NULL, !.status = "READY_FOR_REVIEW", !.completed = NULL]
               routed == [cases[c] EXCEPT !.flag = NULL]
    <3>1. Stored(cases[c], today) /\ cases[c].live /\ cases[c].case_id = c
        BY <1>2, <2>1
    <3>2. Stored(opened, today) /\ opened.live /\ opened.case_id = c
        BY <1>0, <3>1, ReopenedRow
    <3>3. Stored(routed, today) /\ routed.live /\ routed.case_id = c
        BY <1>0, <3>1, FlaggedRow
    <3>4. cases' = [cases EXCEPT ![c] = opened] \/ cases' = [cases EXCEPT ![c] = routed]
        BY <2>2, <2>3
    <3> HIDE DEF opened, routed
    <3> QED
        BY <3>2, <3>3, <3>4
  <2> QED
      BY <2>1, <2>4, CaseMoves
<1>6. ASSUME NEW c \in Cases, ResolveCase(c) \/ CloseWithoutReassignment(c) PROVE CasesStored'
  <2>0. cases[c] # NULL
      BY <1>6 DEF ResolveCase, CloseWithoutReassignment
  <2>1. cases[c].aiTier \in SeverityTier \cup {NULL} /\ cases[c].finalTier \in SeverityTier \cup {NULL}
      BY <1>2, <2>0 DEF CaseRecord
  <2>2. Ratings \subseteq SeverityTier
      BY PortalAssumption
  <2>3. PICK o \in DeliveredOutcome, t \in SeverityTier \cup {NULL} : Completes(c, o, t)
      BY <1>6, <2>1, <2>2 DEF ResolveCase, CloseWithoutReassignment, DeliveredOutcome
  <2> DEFINE row == [cases[c] EXCEPT !.status = "COMPLETE", !.completed = today,
                                     !.outcome = o, !.finalTier = t]
  <2>4. cases' = [cases EXCEPT ![c] = row] /\ today' = today
    <3>1. /\ cases' = [cases EXCEPT ![c].status = "COMPLETE", ![c].completed = today,
                                    ![c].outcome = o, ![c].finalTier = t]
          /\ today' = today
        BY <2>3 DEF Completes, Others
    <3>2. cases \in [Cases -> CaseRecord \cup {NULL}]
        BY DEF CasesStored
    <3> QED
        BY <3>1, <3>2
  <2>5. Stored(row, today) /\ row.live /\ row.case_id = c
    <3>1. row = CompletedAs(cases[c], today, o, t)
        BY DEF CompletedAs
    <3>2. Stored(cases[c], today) /\ cases[c].live /\ cases[c].case_id = c
        BY <1>2, <2>0
    <3> HIDE DEF row
    <3> QED
        BY <1>0, <3>1, <3>2, CompletedRow
  <2> HIDE DEF row
  <2> QED
      BY <2>4, <2>5, CaseMoves
<1>7. CASE NextDay
  <2>1. cases' = cases /\ today < MaxDay /\ today' = today + 1
      BY <1>7 DEF NextDay
  <2>2. today' \in 0..MaxDay /\ today <= today'
      BY <1>0, <2>1, BoundsOfPortal
  <2>3. ASSUME NEW r, Stored(r, today) PROVE Stored(r, today')
      BY <1>0, <2>2, <2>3 DEF Stored, CaseRecord
  <2> QED
      BY <2>1, <2>2, <2>3 DEF CasesStored
<1>8. CASE \/ \E i \in DOMAIN reports : UpdateReportNote(i) \/ ReleaseReport(i)
           \/ \E u \in DOMAIN Users, i \in 0..MaxReports :
                \/ ClientSendMessage(u, i)
                \/ \E action \in {"VIEW", "DOWNLOAD"} : AuthoriseClientReport(u, i, action)
           \/ \E m \in DOMAIN messages : GetClientMessage(m) \/ ReplyClientMessage(m)
           \/ \E org \in Clients, p \in Periods : GenerateReport(org, p)
    BY <1>1, <1>8 DEF UpdateReportNote, ReleaseReport, ClientSendMessage, AuthoriseClientReport,
       GetClientMessage, ReplyClientMessage, GenerateReport
<1>9. CASE \/ \E c \in Cases : GetStatus(c) \/ RetryDelivery(c) \/ EscalateDelivery(c)
           \/ \E u \in DOMAIN Users, c \in Cases, action \in PlatformAction :
                 ClientRecordPlatformAction(u, c, action)
           \/ ListDeliveries \/ FailNextDelivery \/ Tick
    BY <1>1, <1>9 DEF GetStatus, RetryDelivery, EscalateDelivery, ClientRecordPlatformAction,
       ListDeliveries, FailNextDelivery, Tick
<1>10. CASE UNCHANGED vars
    BY <1>1, <1>10 DEF vars
<1> QED
    BY <1>3, <1>4, <1>5, <1>6, <1>7, <1>8, <1>9, <1>10, NewRow DEF Next

\* What the figures are made from.
LEMMA RowsStored ==
    ASSUME CasesStored
    PROVE  IsFiniteSet(Rows) /\ \A r \in Rows : Stored(r, today)
<1> DEFINE held == {cases[c] : c \in Cases}
<1>1. IsFiniteSet(held)
  <2>1. cases \in Surjection(Cases, held)
      BY DEF Surjection, CasesStored
  <2>2. IsFiniteSet(Cases)
      BY PortalAssumption
  <2> HIDE DEF held
  <2> QED
      BY <2>1, <2>2, FS_Surjection
<1>2. IsFiniteSet(History) /\ History \subseteq Past
  <2>1. History \subseteq Past
      BY PortalAssumption
  <2>2. IsFiniteSet(History)
      BY PortalAssumption
  <2> QED
      BY <2>1, <2>2
<1>3. IsFiniteSet(held \ {NULL})
    BY <1>1, FS_Subset
<1>4. IsFiniteSet((held \ {NULL}) \cup History)
  <2> HIDE DEF held
  <2> QED
      BY <1>2, <1>3, FS_Union
<1>5. ASSUME NEW r \in Past PROVE Stored(r, today)
  <2>1. /\ r \in CaseRecord /\ r.created = 0 /\ r.completed = 0 /\ r.status = "COMPLETE"
        /\ r.outcome \in FinalOutcome /\ r.aiTier # NULL /\ r.finalTier # NULL
      BY DEF Past
  <2>2. today \in Nat /\ 0 # NULL
      BY BoundsOfPortal, NullIsNoValue DEF CasesStored
  <2> QED
      BY <2>1, <2>2 DEF Stored
<1>6. \A r \in held \ {NULL} : Stored(r, today)
    BY DEF CasesStored
<1> QED
    BY <1>2, <1>4, <1>5, <1>6 DEF Rows

LEMMA SentRows ==
    ASSUME NEW sent \in [Cases -> Delivery \cup {NULL}]
    PROVE  IsFiniteSet(Results(sent)) /\ \A d \in Results(sent) : SentOut(d)
<1> DEFINE held == {sent[c] : c \in Cases}
<1>1. IsFiniteSet(held)
  <2>1. sent \in Surjection(Cases, held)
      BY DEF Surjection
  <2>2. IsFiniteSet(Cases)
      BY PortalAssumption
  <2> HIDE DEF held
  <2> QED
      BY <2>1, <2>2, FS_Surjection
<1>2. IsFiniteSet(held \ {NULL})
    BY <1>1, FS_Subset
<1>3. \A d \in held \ {NULL} : d \in Delivery
    OBVIOUS
<1>4. \A d \in Delivery : SentOut(d)
    BY DEF Delivery, SentOut, PlatformAction
<1> QED
    BY <1>2, <1>3, <1>4 DEF Results

LEMMA MetricsTyped ==
    ASSUME NEW rows, IsFiniteSet(rows), NEW sent, IsFiniteSet(sent), NEW p
    PROVE  ComputeMetrics(rows, sent, p) \in ReportMetrics
<1>1. \A T : T \subseteq rows \/ T \subseteq sent => Cardinality(T) \in Nat
    BY CountIsNat
<1>2. /\ Received(rows, p) \subseteq rows /\ Completed(rows, p) \subseteq rows
      /\ OpenAtEnd(rows, p) \subseteq rows /\ Decided(rows, p) \subseteq rows
      /\ Comparable(rows, p) \subseteq rows /\ Overridden(Comparable(rows, p)) \subseteq rows
      /\ InPeriod(sent, p) \subseteq sent
    BY DEF Received, Completed, OpenAtEnd, Decided, Comparable, Overridden, InPeriod
<1>3. \A k : /\ {r \in Decided(rows, p) : r.outcome = k} \subseteq rows
             /\ {r \in Decided(rows, p) : r.finalTier = k} \subseteq rows
             /\ {d \in InPeriod(sent, p) : d.status = k} \subseteq sent
    BY <1>2
<1> DEFINE o == [k \in FinalOutcome |-> Cardinality({r \in Decided(rows, p) : r.outcome = k})]
           t == [k \in SeverityTier |-> Cardinality({r \in Decided(rows, p) : r.finalTier = k})]
           h == [k \in DeliveryStatus |-> Cardinality({d \in InPeriod(sent, p) : d.status = k})]
           a == Cardinality(Received(rows, p))
           b == Cardinality(Completed(rows, p))
           c == Cardinality(OpenAtEnd(rows, p))
           e == Cardinality(Comparable(rows, p))
           f == Cardinality(Overridden(Comparable(rows, p)))
<1>4. /\ o \in [FinalOutcome -> Nat] /\ t \in [SeverityTier -> Nat]
      /\ h \in [DeliveryStatus -> Nat]
    BY <1>1, <1>3
<1>5. a \in Nat /\ b \in Nat /\ c \in Nat /\ e \in Nat /\ f \in Nat
    BY <1>1, <1>2
<1>6. ComputeMetrics(rows, sent, p) =
        [cases_received |-> a, cases_completed |-> b, open_at_end |-> c,
         outcomes |-> o, severity_breakdown |-> t, compared |-> e, override_count |-> f,
         delivery |-> h]
    BY DEF ComputeMetrics, BySeverity, DeliveryHealth, Tally, Count
<1> HIDE DEF o, t, h, a, b, c, e, f
<1> QED
    BY <1>4, <1>5, <1>6 DEF ReportMetrics

\* The pages agree in every state whose rows are typed.
LEMMA AgreeNow ==
    ASSUME CasesStored, Sending
    PROVE  PagesAgree
<1>1. today \in Nat /\ MaxDay \in Nat
    BY BoundsOfPortal DEF CasesStored
<1>2. /\ NULL \notin Nat /\ NULL \notin ManagerFlag /\ NULL # "REMOVED" /\ NULL # "KEPT"
    BY NullIsNoValue
<1>3. IsFiniteSet(Rows) /\ \A r \in Rows : Stored(r, today)
    BY RowsStored
<1>4. IsFiniteSet(Results(deliveries)) /\ \A d \in Results(deliveries) : SentOut(d)
    BY SentRows DEF Sending
<1>5. ASSUME NEW org
      PROVE  /\ IsFiniteSet(RowsOf(org)) /\ \A r \in RowsOf(org) : Stored(r, today)
             /\ IsFiniteSet(SentTo(deliveries, org)) /\ \A d \in SentTo(deliveries, org) : SentOut(d)
  <2>1. RowsOf(org) \subseteq Rows /\ SentTo(deliveries, org) \subseteq Results(deliveries)
      BY DEF RowsOf, SentTo
  <2> QED
      BY <1>3, <1>4, <2>1, FS_Subset
<1> SUFFICES ASSUME NEW p \in (0..MaxDay) \X (0..MaxDay)
             PROVE  /\ SameStory(Rows, Results(deliveries), p, today)
                    /\ \A org \in Clients : SameStory(RowsOf(org), SentTo(deliveries, org), p, today)
    BY DEF PagesAgree
<1>6. p \in Nat \X Nat
    BY <1>1
<1>7. SameStory(Rows, Results(deliveries), p, today)
    BY <1>1, <1>2, <1>3, <1>4, <1>6, StoriesAgree
<1>8. ASSUME NEW org \in Clients
      PROVE  SameStory(RowsOf(org), SentTo(deliveries, org), p, today)
    BY <1>1, <1>2, <1>5, <1>6, StoriesAgree
<1> QED
    BY <1>7, <1>8

\* What the making of a report leaves in the list.
LEMMA GenerateMakes ==
    ASSUME Record, NEW org \in Clients, NEW p \in Periods, GenerateReport(org, p)
    PROVE  LET metrics == ComputeMetrics(RowsOf(org), SentTo(deliveries', org), p)
           IN  \/ \E i \in DOMAIN reports :
                    reports' = [reports EXCEPT ![i] = [reports[i] EXCEPT !.metrics = metrics]]
               \/ /\ Len(reports) < MaxReports
                  /\ \E v \in 1..Len(reports) + 1 :
                       reports' = Append(reports, [organisation_id |-> org, period |-> p,
                          version |-> v, status |-> "DRAFT", note |-> FALSE, metrics |-> metrics])
<1> DEFINE drafts  == {i \in SamePeriod(org, p) : Draft(i)}
           versions == {reports[i].version : i \in SamePeriod(org, p)}
           newest  == Max({0} \cup versions)
           metrics == ComputeMetrics(RowsOf(org), SentTo(deliveries', org), p)
<1>1. /\ drafts # {} => reports' = [reports EXCEPT ![Min(drafts)].metrics = metrics]
      /\ drafts = {} => /\ Len(reports) < MaxReports
                        /\ reports' = Append(reports,
                             [organisation_id |-> org, period |-> p, version |-> newest + 1,
                              status |-> "DRAFT", note |-> FALSE, metrics |-> metrics])
    BY DEF GenerateReport
<1> HIDE DEF metrics
<1>2. PICK M : reports \in Seq(ReportOver(M))
    BY DEF Record, Listed
<1>3. /\ Len(reports) \in Nat /\ DOMAIN reports = 1..Len(reports)
      /\ \A i \in DOMAIN reports : reports[i] \in ReportOver(M)
    BY <1>2
<1>4. SamePeriod(org, p) \subseteq DOMAIN reports
    BY DEF SamePeriod
<1>5. CASE drafts # {}
    <2>1. PICK i \in drafts : TRUE
        BY <1>5
    <2>2. drafts = {i}
        BY <2>1 DEF Record, ReportsAreVersioned, SamePeriod
    <2>3. i \in DOMAIN reports
        BY <1>4, <2>1
    <2>4. Min({i}) = i
        BY <1>3, <2>3 DEF Min
    <2>5. reports' = [reports EXCEPT ![i] = [reports[i] EXCEPT !.metrics = metrics]]
        BY <1>1, <1>3, <1>5, <2>2, <2>3, <2>4
    <2> QED
        BY <2>3, <2>5 DEF metrics
<1>6. CASE drafts = {}
    <2>1. {0} \cup versions \in SUBSET (0..Len(reports))
        BY <1>3, <1>4 DEF Record, Counted, ReportOver
    <2>2. newest \in 0..Len(reports)
        BY <1>3, <2>1, Greatest
    <2> HIDE DEF newest
    <2>3. newest + 1 \in 1..Len(reports) + 1
        BY <1>3, <2>2
    <2> QED
        BY <1>1, <1>6, <2>3 DEF metrics
<1> QED
    BY <1>5, <1>6

Bookkept == /\ reports \in Seq(ReportOver(ReportMetrics)) /\ Len(reports) <= MaxReports
            /\ \A i \in DOMAIN reports : reports[i].version >= 1
            /\ Len(messages) <= MaxMessages

LEMMA BookInit == Init => Bookkept
<1>1. MaxReports \in Nat
    BY PortalAssumption
<1>2. MaxMessages \in Nat
    BY PortalAssumption
<1> QED
    BY <1>1, <1>2 DEF Init, Bookkept

LEMMA BookRow ==
    ASSUME Bookkept, NEW i \in DOMAIN reports, NEW row \in ReportOver(ReportMetrics),
           row.version = reports[i].version, reports' = [reports EXCEPT ![i] = row],
           messages' = messages
    PROVE  Bookkept'
<1>1. reports \in Seq(ReportOver(ReportMetrics))
    BY DEF Bookkept
<1>2. /\ reports' \in Seq(ReportOver(ReportMetrics)) /\ Len(reports') = Len(reports)
      /\ DOMAIN reports' = DOMAIN reports /\ reports'[i] = row
      /\ \A j \in DOMAIN reports \ {i} : reports'[j] = reports[j]
    BY <1>1
<1> QED
    BY <1>2 DEF Bookkept

LEMMA BookGenerate ==
    ASSUME Bookkept, Record, CasesStored, Sending', NEW org \in Clients, NEW p \in Periods,
           GenerateReport(org, p)
    PROVE  Bookkept'
<1> DEFINE metrics == ComputeMetrics(RowsOf(org), SentTo(deliveries', org), p)
<1>1. metrics \in ReportMetrics
  <2>1. IsFiniteSet(RowsOf(org))
    <3>1. RowsOf(org) \subseteq Rows
        BY DEF RowsOf
    <3> QED
        BY <3>1, RowsStored, FS_Subset
  <2>2. IsFiniteSet(SentTo(deliveries', org))
    <3>1. deliveries' \in [Cases -> Delivery \cup {NULL}]
        BY DEF Sending
    <3>2. SentTo(deliveries', org) \subseteq Results(deliveries')
        BY DEF SentTo
    <3>3. IsFiniteSet(Results(deliveries'))
        BY <3>1, SentRows
    <3> QED
        BY <3>2, <3>3, FS_Subset
  <2> QED
      BY <2>1, <2>2, MetricsTyped
<1>2. \/ \E i \in DOMAIN reports :
            reports' = [reports EXCEPT ![i] = [reports[i] EXCEPT !.metrics = metrics]]
      \/ /\ Len(reports) < MaxReports
         /\ \E v \in 1..Len(reports) + 1 :
              reports' = Append(reports, [organisation_id |-> org, period |-> p,
                 version |-> v, status |-> "DRAFT", note |-> FALSE, metrics |-> metrics])
    BY GenerateMakes
<1>3. messages' = messages
    BY DEF GenerateReport
<1>4. /\ reports \in Seq(ReportOver(ReportMetrics)) /\ Len(reports) \in Nat
      /\ \A i \in DOMAIN reports : reports[i] \in ReportOver(ReportMetrics)
    BY DEF Bookkept
<1> HIDE DEF metrics
<1>5. ASSUME NEW i \in DOMAIN reports,
             reports' = [reports EXCEPT ![i] = [reports[i] EXCEPT !.metrics = metrics]]
      PROVE  Bookkept'
  <2> DEFINE row == [reports[i] EXCEPT !.metrics = metrics]
  <2>1. row \in ReportOver(ReportMetrics) /\ row.version = reports[i].version
      BY <1>1, <1>4 DEF ReportOver
  <2>2. reports' = [reports EXCEPT ![i] = row]
      BY <1>5
  <2> HIDE DEF row
  <2> QED
      BY <1>3, <2>1, <2>2, BookRow
<1>6. ASSUME Len(reports) < MaxReports, NEW v \in 1..Len(reports) + 1,
             reports' = Append(reports, [organisation_id |-> org, period |-> p,
                 version |-> v, status |-> "DRAFT", note |-> FALSE, metrics |-> metrics])
      PROVE  Bookkept'
  <2> DEFINE row == [organisation_id |-> org, period |-> p,
                     version |-> v, status |-> "DRAFT", note |-> FALSE, metrics |-> metrics]
  <2>1. row \in ReportOver(ReportMetrics) /\ row.version >= 1
      BY <1>1, <1>4 DEF ReportOver
  <2>2. reports' = Append(reports, row)
      BY <1>6
  <2> HIDE DEF row
  <2>3. /\ reports' \in Seq(ReportOver(ReportMetrics)) /\ Len(reports') = Len(reports) + 1
        /\ \A j \in DOMAIN reports' : \/ j \in DOMAIN reports /\ reports'[j] = reports[j]
                                    \/ reports'[j] = row
      BY <1>4, <2>1, <2>2
  <2>4. MaxReports \in Nat
      BY PortalAssumption
  <2> QED
      BY <1>3, <1>4, <1>6, <2>1, <2>3, <2>4 DEF Bookkept
<1> QED
    BY <1>2, <1>5, <1>6

LEMMA BookStep ==
    ASSUME Bookkept, Record, CasesStored, Sending', [Next]_vars
    PROVE  Bookkept'
<1>1. CASE UNCHANGED <<reports, messages>>
    BY <1>1 DEF Bookkept
<1>2. CASE \E org \in Clients, p \in Periods : GenerateReport(org, p)
    BY <1>2, BookGenerate
<1>3. ASSUME NEW i \in DOMAIN reports, UpdateReportNote(i) \/ ReleaseReport(i)
      PROVE  Bookkept'
  <2>1. reports \in Seq(ReportOver(ReportMetrics))
      BY DEF Bookkept
  <2>2. reports[i] \in ReportOver(ReportMetrics) /\ messages' = messages
      BY <1>3, <2>1 DEF UpdateReportNote, ReleaseReport
  <2>3. CASE UpdateReportNote(i)
    <3>1. PICK note \in BOOLEAN : reports' = [reports EXCEPT ![i].note = note]
        BY <2>3 DEF UpdateReportNote
    <3>2. reports' = [reports EXCEPT ![i] = [reports[i] EXCEPT !.note = note]]
        BY <2>1, <3>1
    <3> QED
        BY <2>2, <3>2, NoteRow, BookRow
  <2>4. CASE ReleaseReport(i)
    <3>1. reports' = [reports EXCEPT ![i] = [reports[i] EXCEPT !.status = "RELEASED"]]
        BY <2>1, <2>4 DEF ReleaseReport
    <3> QED
        BY <2>2, <3>1, ReleasedRow, BookRow
  <2> QED
      BY <1>3, <2>3, <2>4
<1>4. ASSUME NEW u \in DOMAIN Users, NEW i \in 0..MaxReports, ClientSendMessage(u, i)
      PROVE  Bookkept'
  <2>1. /\ Len(messages) < MaxMessages /\ reports' = reports
        /\ messages' = Append(messages, [user |-> u, report |-> i, status |-> "SENT", reply |-> FALSE])
      BY <1>4 DEF ClientSendMessage
  <2>2. messages \in Seq(Message)
      BY DEF Record, Filed
  <2> DEFINE m == [user |-> u, report |-> i, status |-> "SENT", reply |-> FALSE]
  <2>3. m \in Message /\ messages' = Append(messages, m)
      BY <2>1 DEF Message
  <2> HIDE DEF m
  <2>4. Len(messages') = Len(messages) + 1 /\ Len(messages) \in Nat
      BY <2>2, <2>3
  <2>5. MaxMessages \in Nat
      BY PortalAssumption
  <2> QED
      BY <2>1, <2>4, <2>5 DEF Bookkept
<1>5. ASSUME NEW m \in DOMAIN messages, GetClientMessage(m) \/ ReplyClientMessage(m)
      PROVE  Bookkept'
  <2>1. messages \in Seq(Message)
      BY DEF Record, Filed
  <2>2. messages' \in Seq(Message) /\ reports' = reports
      BY <1>5, ReadMessageKeeps DEF Record, Filed
  <2>3. DOMAIN messages' = DOMAIN messages
      BY <1>5 DEF GetClientMessage, ReplyClientMessage
  <2>4. Len(messages') = Len(messages)
      BY <2>1, <2>2, <2>3
  <2> QED
      BY <2>2, <2>4 DEF Bookkept
<1>6. CASE \E c \in Cases : \/ CreateReport(c) \/ AnalysisEnds(c) \/ RouteToManager(c)
                            \/ ReassignCase(c) \/ ResolveCase(c) \/ CloseWithoutReassignment(c)
    BY <1>1, <1>6 DEF CreateReport, AnalysisEnds, RouteToManager, ReassignCase, ResolveCase,
       CloseWithoutReassignment, Completes, Changes, Others
<1>7. CASE \/ \E c \in Cases : GetStatus(c) \/ RetryDelivery(c) \/ EscalateDelivery(c)
           \/ \E u \in DOMAIN Users, c \in Cases, action \in PlatformAction :
                 ClientRecordPlatformAction(u, c, action)
           \/ ListDeliveries \/ FailNextDelivery \/ Tick \/ NextDay
    BY <1>1, <1>7 DEF GetStatus, RetryDelivery, EscalateDelivery, ClientRecordPlatformAction,
       ListDeliveries, FailNextDelivery, Tick, NextDay
<1>8. CASE \E u \in DOMAIN Users, i \in 0..MaxReports, action \in {"VIEW", "DOWNLOAD"} :
              AuthoriseClientReport(u, i, action)
    BY <1>1, <1>8 DEF AuthoriseClientReport
<1>9. CASE UNCHANGED vars
    BY <1>1, <1>9 DEF vars
<1> QED
    BY <1>2, <1>3, <1>4, <1>5, <1>6, <1>7, <1>8, <1>9 DEF Next

\* Sequences of one type are sequences of the other.
LEMMA ReportsTyped ==
    ASSUME Bookkept, Record
    PROVE  reports \in Seq(Report) /\ Len(reports) <= MaxReports
<1>1. /\ reports \in Seq(ReportOver(ReportMetrics)) /\ Len(reports) \in Nat
      /\ DOMAIN reports = 1..Len(reports) /\ Len(reports) <= MaxReports
      /\ \A i \in DOMAIN reports : reports[i] \in ReportOver(ReportMetrics)
    BY DEF Bookkept
<1>2. MaxReports \in Nat
    BY PortalAssumption
<1>3. ASSUME NEW i \in 1..Len(reports) PROVE reports[i] \in Report
  <2>1. /\ reports[i] \in ReportOver(ReportMetrics)
        /\ reports[i].version >= 1 /\ reports[i].version <= Len(reports)
      BY <1>1 DEF Bookkept, Record, Counted
  <2>2. reports[i].version \in Nat
      BY <2>1 DEF ReportOver
  <2>3. reports[i].version \in 1..MaxReports
      BY <1>1, <1>2, <2>1, <2>2
  <2> QED
      BY <2>1, <2>3 DEF ReportOver, Report
<1>4. reports = [i \in 1..Len(reports) |-> reports[i]]
    BY <1>1
<1> QED
    BY <1>1, <1>3, <1>4, SeqDef

LEMMA SoundInit == Init => CasesStored /\ Sending /\ Record /\ Bookkept
<1>1. 0 \in 0..MaxDay
    BY BoundsOfPortal
<1>2. Init => CasesStored
    BY <1>1 DEF Init, CasesStored
<1> QED
    BY <1>2, SendingInit, RecordInit, BookInit

\* The rows of the portal keep their types, and the pages that count them with filters
\* of their own agree: a report, the dashboard, the client's results and the governance
\* page, for every period, client and day.
THEOREM PortalSound == Spec => []PortalIsSound
<1> DEFINE I == CasesStored /\ Sending /\ Record /\ Bookkept
<1>1. Init => I
    BY SoundInit
<1>2. I /\ [Next]_vars => I'
  <2> SUFFICES ASSUME CasesStored, Sending, Record, Bookkept, [Next]_vars
               PROVE  CasesStored' /\ Sending' /\ Record' /\ Bookkept'
      OBVIOUS
  <2>1. CasesStored'
      BY CasesStep
  <2>2. Sending'
      BY SendingStep
  <2>3. Record'
      BY RecordStep
  <2>4. Bookkept'
      BY <2>2, BookStep
  <2> QED
      BY <2>1, <2>2, <2>3, <2>4
<1>3. I => PortalIsSound
  <2> SUFFICES ASSUME CasesStored, Sending, Record, Bookkept
               PROVE  TypeOK /\ PagesAgree
      BY DEF PortalIsSound
  <2>1. reports \in Seq(Report) /\ Len(reports) <= MaxReports
      BY ReportsTyped
  <2>2. access \subseteq Access /\ messages \in Seq(Message) /\ Len(messages) <= MaxMessages
      BY DEF Record, Filed, Bookkept
  <2>3. /\ cases \in [Cases -> CaseRecord \cup {NULL}]
        /\ deliveries \in [Cases -> Delivery \cup {NULL}]
        /\ failNext \in BOOLEAN /\ told \in [Cases -> BOOLEAN] /\ today \in 0..MaxDay
      BY DEF CasesStored, Sending
  <2> QED
      BY <2>1, <2>2, <2>3, AgreeNow DEF TypeOK
<1> HIDE DEF I
<1> QED
    BY <1>1, <1>2, <1>3, PTL DEF Spec
=============================================================================
