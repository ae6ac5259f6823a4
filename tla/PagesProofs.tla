----------------------------- MODULE PagesProofs ----------------------------
(***************************************************************************)
(* What the pages of MCPages show is their own and what they wait for is   *)
(* under way: each page's part is a property of that page alone, and the   *)
(* others stutter meanwhile.                                               *)
(***************************************************************************)
EXTENDS MCPages, SequenceTheorems, FiniteInduction

(***************************************************************************)
(* The report page. A report on the server only gets newer, one load is    *)
(* heard, and what was shown is no newer than what it will be answered.    *)
(***************************************************************************)
AnyReport == {r \in Report : r.figures <= r.revision}
AnyLoad == [answer : AnyReport \cup {Nothing}, cancelled : BOOLEAN]
AnySave == [note : Notes, answer : {"none", "done", "refused"}, releasing : BOOLEAN]

ReportTyped ==
    /\ report \in AnyReport
    /\ data \in AnyReport \cup {Nothing}
    /\ loads \subseteq AnyLoad
    /\ note \in Notes
    /\ saves \subseteq AnySave

\* What the release dialog holds, and what it waits for.
ReleaseInv ==
    /\ noteSaved \in BOOLEAN
    /\ release \in {"closed", "open", "saving", "releasing"}
    /\ releaseReply \in {"none", "sent", "done"}
    /\ ReleaseIsUnderWay

Heard(l) == l \in loads /\ ~l.cancelled

OneIsHeard == \A l, m \in loads : Heard(l) /\ Heard(m) => l = m

InOrder ==
    /\ data # Nothing => data.revision <= report.revision
    /\ \A l \in loads : Heard(l) /\ l.answer # Nothing =>
          /\ l.answer.revision <= report.revision
          /\ data # Nothing => data.revision <= l.answer.revision

ReportInv == ReportTyped /\ OneIsHeard /\ InOrder

LEMMA ReportStarts == ReportInit => ReportInv
<1> SUFFICES ASSUME ReportInit PROVE ReportInv
    OBVIOUS
<1>1. ReportTyped
    BY NoNoteAssumption, RevisionAssumption DEF ReportInit, ReportTyped, Report, AnyReport, AnyLoad, AnySave, Sent
<1>2. OneIsHeard /\ InOrder
    BY DEF ReportInit, OneIsHeard, InOrder, Heard, Sent
<1> QED
    BY <1>1, <1>2 DEF ReportInv

\* The server's report becomes a newer one.
LEMMA ReportChanges ==
    ASSUME ReportInv, NEW n \in Notes, NEW f \in {report.figures, report.figures + 1}, NEW s \in {"DRAFT", "RELEASED"},
           Change([note |-> n, figures |-> f, status |-> s, revision |-> report.revision]),
           UNCHANGED <<data, loads, note>>, saves' \subseteq AnySave
    PROVE  ReportInv' /\ NewerDataOnly
<1>0. /\ report.figures \in Nat /\ report.revision \in Nat /\ report.figures <= report.revision
      /\ report.revision < MaxRevision /\ MaxRevision \in Nat
    BY RevisionAssumption DEF ReportInv, ReportTyped, AnyReport, Report, Change
<1>1. report' \in AnyReport /\ report'.revision = report.revision + 1 /\ report.revision \in Nat
    BY <1>0 DEF Change, AnyReport, Report
<1>2. ReportTyped' /\ OneIsHeard'
    BY <1>1 DEF ReportInv, ReportTyped, OneIsHeard, Heard
<1>3. /\ data # Nothing => data.revision \in Nat
      /\ \A l \in loads : l.answer # Nothing => l.answer.revision \in Nat
    BY DEF ReportInv, ReportTyped, AnyReport, Report, AnyLoad
<1>4. InOrder'
    BY <1>1, <1>3 DEF ReportInv, InOrder, Heard
<1> QED
    BY <1>2, <1>3, <1>4 DEF ReportInv, NewerDataOnly

\* A new load takes the place of all others.
LEMMA Reloaded ==
    ASSUME ReportInv, Reload, UNCHANGED <<report, data, note>>, saves' \subseteq AnySave
    PROVE  ReportInv' /\ NewerDataOnly
<1>1. \A l \in loads : Cancelled(l) \in AnyLoad /\ Cancelled(l).cancelled
    BY DEF ReportInv, ReportTyped, AnyLoad, Cancelled
<1>2. Sent \in AnyLoad /\ Sent.answer = Nothing
    BY DEF Sent, AnyLoad
<1>3. loads' = {Cancelled(l) : l \in loads} \cup {Sent}
    BY DEF Reload
<1>4. ReportTyped'
    BY <1>1, <1>2, <1>3 DEF ReportInv, ReportTyped
<1>5. \A l \in loads' : Heard(l)' => l = Sent
    BY <1>1, <1>3 DEF Heard
<1>6. OneIsHeard' /\ InOrder'
    BY <1>2, <1>5 DEF ReportInv, OneIsHeard, InOrder
<1>7. NewerDataOnly
    BY DEF ReportInv, ReportTyped, AnyReport, Report, NewerDataOnly
<1> QED
    BY <1>4, <1>6, <1>7 DEF ReportInv

\* Fewer loads in flight, or the same.
LEMMA LoadsLeft ==
    ASSUME ReportInv, loads' \subseteq loads, UNCHANGED <<report, data>>, note' \in Notes,
           saves' \subseteq AnySave
    PROVE  ReportInv' /\ NewerDataOnly
<1>1. ReportTyped'
    BY DEF ReportInv, ReportTyped
<1>2. OneIsHeard' /\ InOrder'
    BY DEF ReportInv, OneIsHeard, InOrder, Heard
<1>3. NewerDataOnly
    BY DEF ReportInv, ReportTyped, AnyReport, Report, NewerDataOnly
<1> QED
    BY <1>1, <1>2, <1>3 DEF ReportInv

LEMMA LoadIsServed == ASSUME ReportInv, ServeLoad PROVE ReportInv' /\ NewerDataOnly
<1>1. PICK l \in loads : /\ l.answer = Nothing
                         /\ loads' = (loads \ {l}) \cup {[l EXCEPT !.answer = report]}
    BY DEF ServeLoad
<1>2. UNCHANGED <<report, data, note, saves>>
    BY DEF ServeLoad
<1> DEFINE n == [l EXCEPT !.answer = report]
<1>3. n \in AnyLoad /\ n.answer = report /\ n.cancelled = l.cancelled /\ loads' = (loads \ {l}) \cup {n}
    BY <1>1 DEF ReportInv, ReportTyped, AnyLoad
<1> HIDE DEF n
<1>4. ReportTyped'
    BY <1>2, <1>3 DEF ReportInv, ReportTyped
<1>5. \A m \in loads' : Heard(m)' => \/ m = n /\ Heard(l)
                                     \/ m \in loads \ {l} /\ Heard(m)
    BY <1>1, <1>3 DEF Heard
<1>6. OneIsHeard'
    BY <1>1, <1>5 DEF ReportInv, OneIsHeard
<1>7. report.revision \in Nat /\ (data # Nothing => data.revision \in Nat)
    BY DEF ReportInv, ReportTyped, AnyReport, Report
<1>8. InOrder'
    BY <1>2, <1>3, <1>5, <1>7 DEF ReportInv, InOrder
<1>9. NewerDataOnly
    BY <1>2, <1>7 DEF NewerDataOnly
<1> QED
    BY <1>4, <1>6, <1>8, <1>9 DEF ReportInv

LEMMA LoadIsAnswered == ASSUME ReportInv, LoadAnswered PROVE ReportInv' /\ NewerDataOnly
<1>1. PICK l \in loads : /\ l.answer # Nothing /\ ~l.cancelled
                         /\ data' = l.answer /\ note' = l.answer.note /\ loads' = loads \ {l}
    BY DEF LoadAnswered
<1>2. UNCHANGED <<report, saves>>
    BY DEF LoadAnswered
<1>3. l.answer \in AnyReport /\ Heard(l)
    BY <1>1 DEF ReportInv, ReportTyped, AnyLoad, Heard
<1>4. ReportTyped'
    BY <1>1, <1>2, <1>3 DEF ReportInv, ReportTyped, AnyReport, Report
<1>5. \A m \in loads' : ~Heard(m)'
    BY <1>1, <1>3 DEF ReportInv, OneIsHeard, Heard
<1>6. OneIsHeard' /\ InOrder'
    BY <1>1, <1>2, <1>3, <1>5 DEF ReportInv, OneIsHeard, InOrder
<1>7. NewerDataOnly
    BY <1>1, <1>3 DEF ReportInv, ReportTyped, AnyReport, Report, InOrder, NewerDataOnly
<1> QED
    BY <1>4, <1>6, <1>7 DEF ReportInv

LEMMA ReportStep == ASSUME ReportInv, ReportNext PROVE ReportInv' /\ NewerDataOnly
<1> USE DEF ReportInv, ReportTyped
<1>0. /\ report = [note |-> report.note, figures |-> report.figures, status |-> report.status,
                   revision |-> report.revision]
      /\ report.note \in Notes /\ report.status \in {"DRAFT", "RELEASED"}
    BY DEF AnyReport, Report
<1>1. CASE Regenerate
  <2>1. [report EXCEPT !.figures = @ + 1]
          = [note |-> report.note, figures |-> report.figures + 1, status |-> report.status, revision |-> report.revision]
      BY DEF AnyReport, Report
  <2> QED
      BY <1>0, <1>1, <2>1, ReportChanges DEF Regenerate
<1>2. CASE NoteElsewhere
  <2>1. PICK n \in Notes : Change([report EXCEPT !.note = n])
      BY <1>2 DEF NoteElsewhere
  <2>2. [report EXCEPT !.note = n]
          = [note |-> n, figures |-> report.figures, status |-> report.status, revision |-> report.revision]
      BY DEF AnyReport, Report
  <2> QED
      BY <1>0, <1>2, <2>1, <2>2, ReportChanges DEF NoteElsewhere
<1>3. CASE ServeSave
  <2>1. PICK s \in saves :
            \/ /\ Change([report EXCEPT !.note = s.note])
               /\ saves' = (saves \ {s}) \cup {[s EXCEPT !.answer = "done"]}
            \/ /\ saves' = (saves \ {s}) \cup {[s EXCEPT !.answer = "refused"]}
               /\ report' = report
      BY <1>3 DEF ServeSave
  <2>2. saves' \subseteq AnySave /\ s.note \in Notes
      BY <2>1 DEF AnySave
  <2>3. UNCHANGED <<data, loads, note>>
      BY <1>3 DEF ServeSave
  <2>4. [report EXCEPT !.note = s.note]
          = [note |-> s.note, figures |-> report.figures, status |-> report.status, revision |-> report.revision]
      BY DEF AnyReport, Report
  <2>5. CASE Change([report EXCEPT !.note = s.note])
      BY <1>0, <2>2, <2>3, <2>4, <2>5, ReportChanges
  <2>6. CASE report' = report
      BY <2>2, <2>3, <2>6, LoadsLeft
  <2> QED
      BY <2>1, <2>5, <2>6
<1>4. CASE ServeRelease
  <2>1. [report EXCEPT !.status = "RELEASED"]
          = [note |-> report.note, figures |-> report.figures, status |-> "RELEASED", revision |-> report.revision]
      BY DEF AnyReport, Report
  <2>2. CASE Change([report EXCEPT !.status = "RELEASED"])
      BY <1>0, <1>4, <2>1, <2>2, ReportChanges DEF ServeRelease
  <2>3. CASE report' = report
      BY <1>4, <2>3, LoadsLeft DEF ServeRelease
  <2> QED
      BY <1>4, <2>2, <2>3 DEF ServeRelease
<1>5. CASE SaveNote \/ Release
  <2>1. \A b \in BOOLEAN : [note |-> note, answer |-> "none", releasing |-> b] \in AnySave
      BY DEF AnySave
  <2> QED
      BY <1>5, <2>1, LoadsLeft DEF SaveNote, Release
<1>6. CASE NoteIsSaved \/ Released \/ LoadAgain
    BY <1>6, Reloaded DEF NoteIsSaved, Released, LoadAgain, Saving
<1>7. CASE LoadLost \/ TypeNote \/ NoteIsNotSaved \/ Approve \/ Cancel \/ SavedToRelease \/ NotReleased
    BY <1>7, LoadsLeft DEF LoadLost, TypeNote, NoteIsNotSaved, Approve, Cancel, SavedToRelease, NotReleased,
                           Saving
<1> QED
    BY <1>1, <1>2, <1>3, <1>4, <1>5, <1>6, <1>7, LoadIsServed, LoadIsAnswered DEF ReportNext

LEMMA ReportIdle == ASSUME ReportInv, UNCHANGED reportVars PROVE ReportInv' /\ NewerDataOnly
    BY LoadsLeft DEF reportVars, ReportInv, ReportTyped

\* The dialog: only a release saves to release, and only an answer or a failure ends
\* what it waits for.
LEMMA ReleaseStarts == ReportInit => ReleaseInv
    BY DEF ReportInit, ReleaseInv, ReleaseIsUnderWay

LEMMA ReleaseStays ==
    ASSUME ReleaseInv, UNCHANGED <<release, releaseReply>>, noteSaved' \in BOOLEAN,
           saves \ Saving # {} => (saves \ Saving)' # {}
    PROVE  ReleaseInv'
    BY DEF ReleaseInv, ReleaseIsUnderWay

LEMMA ReleaseStep == ASSUME ReportInv, ReleaseInv, ReportNext PROVE ReleaseInv'
<1>1. CASE \/ Regenerate \/ NoteElsewhere \/ ServeLoad \/ LoadAnswered \/ LoadLost \/ LoadAgain \/ TypeNote
  <2>1. UNCHANGED <<release, releaseReply, saves>>
      BY <1>1 DEF Regenerate, NoteElsewhere, ServeLoad, LoadAnswered, LoadLost, LoadAgain, TypeNote
  <2>2. noteSaved' \in BOOLEAN
      BY <1>1 DEF Regenerate, NoteElsewhere, ServeLoad, LoadAnswered, LoadLost, LoadAgain, TypeNote, ReleaseInv
  <2> QED
      BY <2>1, <2>2, ReleaseStays DEF Saving
<1>2. CASE ServeSave
  <2>1. PICK s \in saves, answer \in {"done", "refused"} :
            saves' = (saves \ {s}) \cup {[s EXCEPT !.answer = answer]}
      BY <1>2 DEF ServeSave
  <2>2. [s EXCEPT !.answer = answer].releasing = s.releasing
      BY DEF ReportInv, ReportTyped, AnySave
  <2>3. UNCHANGED <<release, releaseReply, noteSaved>>
      BY <1>2 DEF ServeSave
  <2> QED
      BY <2>1, <2>2, <2>3, ReleaseStays DEF Saving, ReleaseInv
<1>3. CASE SaveNote \/ NoteIsSaved \/ NoteIsNotSaved
  <2>1. UNCHANGED <<release, releaseReply>> /\ noteSaved' \in BOOLEAN
      BY <1>3 DEF SaveNote, NoteIsSaved, NoteIsNotSaved, ReleaseInv
  <2>2. saves \ Saving \subseteq saves'
      BY <1>3 DEF SaveNote, NoteIsSaved, NoteIsNotSaved
  <2> QED
      BY <2>1, <2>2, ReleaseStays DEF Saving
<1>4. CASE Release
  <2> DEFINE toSave == [note |-> note, answer |-> "none", releasing |-> TRUE]
  <2>1. toSave.releasing
      OBVIOUS
  <2> HIDE DEF toSave
  <2>2. \/ release' = "releasing" /\ releaseReply' = "sent"
        \/ release' = "saving" /\ releaseReply' = releaseReply /\ saves' = saves \cup {toSave}
      BY <1>4 DEF Release, toSave
  <2>3. release = "open" /\ noteSaved' = noteSaved
      BY <1>4 DEF Release
  <2> QED
      BY <2>1, <2>2, <2>3 DEF ReleaseInv, ReleaseIsUnderWay, Saving
<1>5. CASE ServeRelease \/ Approve \/ Cancel \/ SavedToRelease \/ Released \/ NotReleased
    BY <1>5 DEF ServeRelease, Approve, Cancel, SavedToRelease, Released, NotReleased, ReleaseInv,
                ReleaseIsUnderWay
<1> QED
    BY <1>1, <1>2, <1>3, <1>4, <1>5 DEF ReportNext

LEMMA ReleaseIdle == ASSUME ReleaseInv, UNCHANGED reportVars PROVE ReleaseInv'
    BY ReleaseStays DEF reportVars, ReleaseInv, Saving

LEMMA ReportIsTyped == ReportInv /\ ReleaseInv => ReportTypeOK
    BY DEF ReportInv, ReportTyped, ReleaseInv, ReportTypeOK, AnyReport, AnyLoad, AnySave

(***************************************************************************)
(* The AI Buddy. A conversation is sound when every question in it is      *)
(* whole and every answer but the first message follows its question; what *)
(* is kept of a sound conversation is sound, because dropping the failures *)
(* never takes the question of an answer away.                             *)
(***************************************************************************)
Whole(m) == m.role = "user" => m = Question(m.question)

Follows(m, before) == m.role = "assistant" => before = Question(m.question)

Sound(s) ==
    /\ s \in Seq(Message)
    /\ \A i \in 1..Len(s) : Whole(s[i])
    /\ \A i \in 2..Len(s) : Follows(s[i], s[i - 1])

LEMMA NothingIsSound == Sound(<<>>)
    BY DEF Sound

LEMMA MessagesAre ==
    ASSUME NEW n \in 1..MaxQuestions
    PROVE  /\ Question(n) \in Message /\ Answer(n) \in Message /\ Failure(n) \in Message
           /\ Whole(Question(n)) /\ Whole(Answer(n)) /\ Whole(Failure(n))
           /\ Answer(n).question = n /\ Failure(n).question = n
           /\ Question(n).role = "user" /\ Question(n).question = n /\ ~Question(n).failed
    BY DEF Question, Answer, Failure, Message, Whole

LEMMA SaidSound ==
    ASSUME NEW s, Sound(s), NEW m \in Message, Whole(m),
           s # <<>> => Follows(m, s[Len(s)])
    PROVE  Sound(Append(s, m))
<1> DEFINE t == Append(s, m)
<1>1. s \in Seq(Message) /\ Len(s) \in Nat
    BY DEF Sound
<1>2. /\ t \in Seq(Message) /\ Len(t) = Len(s) + 1 /\ t[Len(s) + 1] = m
      /\ \A i \in 1..Len(s) : t[i] = s[i]
    BY <1>1, AppendProperties
<1> HIDE DEF t
<1>3. \A i \in 1..Len(t) : Whole(t[i])
    BY <1>1, <1>2 DEF Sound
<1>4. ASSUME NEW i \in 2..Len(t) PROVE Follows(t[i], t[i - 1])
  <2>1. CASE i = Len(s) + 1
      BY <1>1, <1>2, <2>1
  <2>2. CASE i \in 2..Len(s)
    <3>1. t[i] = s[i] /\ t[i - 1] = s[i - 1]
        BY <1>1, <1>2, <2>2
    <3> QED
        BY <2>2, <3>1 DEF Sound
  <2> QED
      BY <1>1, <1>2, <2>1, <2>2
<1> QED
    BY <1>2, <1>3, <1>4 DEF Sound, t

LEMMA PartSound ==
    ASSUME NEW s, Sound(s), NEW k \in Nat, k >= 1, NEW n \in Nat, n <= Len(s)
    PROVE  /\ Sound(SubSeq(s, k, n))
           /\ Len(SubSeq(s, k, n)) = IF k <= n THEN n - k + 1 ELSE 0
           /\ \A i \in 1..(n - k + 1) : SubSeq(s, k, n)[i] = s[k + i - 1]
<1> DEFINE t == SubSeq(s, k, n)
<1>1. s \in Seq(Message) /\ Len(s) \in Nat
    BY DEF Sound
<1>2. \A i \in k..n : s[i] \in Message
    BY <1>1
<1>3. /\ t \in Seq(Message) /\ Len(t) = IF k <= n THEN n - k + 1 ELSE 0
      /\ \A i \in 1..(n - k + 1) : t[i] = s[k + i - 1]
    BY <1>2, SubSeqProperties
<1> HIDE DEF t
<1>4. \A i \in 1..Len(t) : i \in 1..(n - k + 1) /\ k + i - 1 \in 1..Len(s)
    BY <1>1, <1>3
<1>5. \A i \in 1..Len(t) : Whole(t[i])
    BY <1>3, <1>4 DEF Sound
<1>6. ASSUME NEW i \in 2..Len(t) PROVE Follows(t[i], t[i - 1])
  <2> DEFINE j == k + i - 1
  <2>1. /\ i \in 1..(n - k + 1) /\ i - 1 \in 1..(n - k + 1)
        /\ j \in 2..Len(s) /\ k + (i - 1) - 1 = j - 1
    <3>1. k <= n /\ Len(t) = n - k + 1
        BY <1>3
    <3>2. i \in 2..(n - k + 1)
        BY <3>1
    <3>3. i \in Nat /\ 2 <= i /\ i <= n - k + 1
        BY <3>2
    <3> QED
        BY <1>1, <3>3
  <2>2. t[i] = s[j] /\ t[i - 1] = s[k + (i - 1) - 1]
      BY <1>3, <2>1
  <2> HIDE DEF j
  <2> QED
      BY <2>1, <2>2 DEF Sound
<1> QED
    BY <1>3, <1>5, <1>6 DEF Sound, t

\* The recursive function of Kept exists: every prefix of it does.
Sifting(s, n, f) ==
    f = [i \in 0..n |-> IF i = 0 THEN <<>>
                        ELSE IF s[i].failed THEN f[i - 1]
                        ELSE Append(f[i - 1], s[i])]

Sifts(s, n) == \E f : Sifting(s, n, f)

LEMMA SiftOneMore == ASSUME NEW s, NEW n \in Nat, Sifts(s, n) PROVE Sifts(s, n + 1)
<1> DEFINE Next1(x, i) == IF s[i].failed THEN x ELSE Append(x, s[i])
<1>1. PICK f : Sifting(s, n, f)
    BY DEF Sifts
<1>2. \A i \in 0..n : f[i] = IF i = 0 THEN <<>> ELSE Next1(f[i - 1], i)
    BY <1>1 DEF Sifting
<1> DEFINE g == [i \in 0..(n + 1) |-> IF i = n + 1 THEN Next1(f[n], n + 1) ELSE f[i]]
           h == [i \in 0..(n + 1) |-> IF i = 0 THEN <<>> ELSE Next1(g[i - 1], i)]
<1> HIDE DEF Next1
<1>3. ASSUME NEW i \in 0..(n + 1) PROVE g[i] = h[i]
  <2>1. CASE i = n + 1
    <3>1. g[i - 1] = f[n]
        BY <2>1
    <3> QED
        BY <2>1, <3>1
  <2>2. CASE i = 0
      BY <2>2, <1>2
  <2>3. CASE i \in 1..n
    <3>1. g[i - 1] = f[i - 1] /\ g[i] = f[i]
        BY <2>3
    <3> QED
        BY <2>3, <3>1, <1>2
  <2> QED
      BY <2>1, <2>2, <2>3
<1>4. g = h
    BY <1>3
<1>5. Sifting(s, n + 1, g)
    BY <1>4 DEF Sifting, Next1
<1> QED
    BY <1>5 DEF Sifts

LEMMA SiftExists == ASSUME NEW s, NEW n \in Nat PROVE Sifts(s, n)
<1> DEFINE P == {m \in Nat : Sifts(s, m)}
<1>1. 0 \in P
  <2> DEFINE f == [i \in 0..0 |-> <<>>]
  <2>1. Sifting(s, 0, f)
      BY DEF Sifting
  <2> QED
      BY <2>1 DEF Sifts
<1>2. \A m \in P \cap Nat : m + 1 \in P
    BY SiftOneMore
<1> HIDE DEF P
<1>3. Nat \subseteq P
    BY <1>1, <1>2, NatInd
<1> QED
    BY <1>3 DEF P

\* A prefix without its failures is sound, and ends as the prefix does unless that
\* is a failure.
SiftedSound(s, x, n) ==
    /\ Sound(x)
    /\ n >= 1 /\ ~s[n].failed => x # <<>> /\ x[Len(x)] = s[n]

LEMMA SiftKeeps ==
    ASSUME NEW s, Sound(s), NEW f, Sifting(s, Len(s), f)
    PROVE  Sound(f[Len(s)])
<1> DEFINE N == Len(s)
           P == {n \in Nat : n <= N => SiftedSound(s, f[n], n)}
<1>1. s \in Seq(Message) /\ N \in Nat
    BY DEF Sound
<1>2. \A i \in 0..N : f[i] = IF i = 0 THEN <<>>
                             ELSE IF s[i].failed THEN f[i - 1] ELSE Append(f[i - 1], s[i])
    BY DEF Sifting
<1>3. 0 \in P
    BY <1>1, <1>2, NothingIsSound DEF SiftedSound
<1>4. \A n \in P \cap Nat : n + 1 \in P
  <2> SUFFICES ASSUME NEW n \in P, n + 1 <= N PROVE SiftedSound(s, f[n + 1], n + 1)
      OBVIOUS
  <2>1. n \in Nat /\ SiftedSound(s, f[n], n) /\ n + 1 \in 1..N
      BY <1>1
  <2>2. CASE s[n + 1].failed
    <3>1. f[n + 1] = f[n]
        BY <1>2, <2>1, <2>2
    <3> QED
        BY <2>1, <2>2, <3>1 DEF SiftedSound
  <2>3. CASE ~s[n + 1].failed
    <3> DEFINE m == s[n + 1]
    <3>1. f[n + 1] = Append(f[n], m)
      <4>1. n + 1 \in 0..N /\ n + 1 # 0 /\ (n + 1) - 1 = n
          BY <2>1
      <4> HIDE DEF N
      <4> QED
          BY <1>2, <2>3, <4>1
    <3>2. m \in Message /\ Whole(m)
        BY <1>1, <2>1 DEF Sound
    <3>3. n >= 1 => Follows(m, s[n])
        BY <1>1, <2>1 DEF Sound
    <3>4. f[n] # <<>> => Follows(m, f[n][Len(f[n])])
      <4>1. CASE n = 0
          BY <1>2, <2>1, <4>1
      <4>2. CASE n >= 1
        <5>1. m.role = "assistant" => ~s[n].failed
            BY <3>3, <4>2 DEF Follows, Question
        <5> QED
            BY <2>1, <3>3, <4>2, <5>1 DEF SiftedSound, Follows
      <4> QED
          BY <2>1, <4>1, <4>2
    <3> HIDE DEF m
    <3>5. Sound(f[n + 1])
        BY <2>1, <3>1, <3>2, <3>4, SaidSound DEF SiftedSound
    <3>6. f[n] \in Seq(Message)
        BY <2>1 DEF SiftedSound, Sound
    <3>7. f[n + 1] # <<>> /\ f[n + 1][Len(f[n + 1])] = m
        BY <3>1, <3>2, <3>6, AppendProperties
    <3> QED
        BY <3>5, <3>7 DEF SiftedSound, m
  <2> QED
      BY <2>2, <2>3
<1> HIDE DEF P
<1>5. Nat \subseteq P
    BY <1>3, <1>4, NatInd
<1> QED
    BY <1>1, <1>5 DEF P, SiftedSound

LEMMA KeptSound == ASSUME NEW s, Sound(s) PROVE Sound(Kept(s))
<1> DEFINE f == CHOOSE f : f = [n \in 0..Len(s) |-> IF n = 0 THEN <<>>
                                                   ELSE IF s[n].failed THEN f[n - 1]
                                                   ELSE Append(f[n - 1], s[n])]
           all == f[Len(s)]
           k == IF 1 > Len(all) - MaxStored + 1 THEN 1 ELSE Len(all) - MaxStored + 1
<1>1. Len(s) \in Nat
    BY DEF Sound
<1>2. PICK g : Sifting(s, Len(s), g)
    BY <1>1, SiftExists DEF Sifts
<1>3. Sifting(s, Len(s), f)
    BY <1>2 DEF Sifting
<1>4. Kept(s) = SubSeq(all, k, Len(all))
    BY DEF Kept
<1> HIDE DEF f
<1>5. Sound(all)
    BY <1>3, SiftKeeps
<1> HIDE DEF all
<1>6. Len(all) \in Nat
    BY <1>5 DEF Sound
<1>7. k \in Nat /\ k >= 1
    BY <1>6, StoredAssumption
<1> HIDE DEF k
<1> QED
    BY <1>4, <1>5, <1>6, <1>7, PartSound

\* What a person asked is answered at the end of the conversation it was asked in.
AnyRequest == [question : 1..MaxQuestions, generation : Nat]

Awaited(r) == r \in requests /\ Current(r)

ChatInv ==
    /\ Sound(messages) /\ Sound(saved)
    /\ asked \in 0..MaxQuestions /\ generation \in Nat /\ loading \in BOOLEAN
    /\ requests \subseteq AnyRequest
    /\ \A r \in requests : r.generation <= generation
    /\ \A r : Awaited(r) => loading /\ messages # <<>> /\ Last(messages) = Question(r.question)
    /\ AnswerIsAwaited

LEMMA ChatStarts == ChatInit => ChatInv
<1> SUFFICES ASSUME ChatInit PROVE ChatInv
    OBVIOUS
<1>1. loading \in BOOLEAN /\ AnswerIsAwaited
    BY DEF ChatInit, AnswerIsAwaited
<1>2. asked \in 0..MaxQuestions /\ generation \in Nat
    BY QuestionsAssumption DEF ChatInit
<1> QED
    BY <1>1, <1>2, NothingIsSound DEF ChatInit, ChatInv, Awaited

LEMMA ChatShows == ChatInv => AnswersFollowQuestions
    BY DEF ChatInv, Sound, Follows, AnswersFollowQuestions

\* A question is put, and the conversation ends with it.
LEMMA Asking ==
    ASSUME ChatInv, ~loading, NEW n \in 1..MaxQuestions, NEW s, Sound(s), s # <<>>, Last(s) = Question(n),
           Show(s), Ask(n), generation' = generation, asked' \in 0..MaxQuestions
    PROVE  ChatInv'
<1> DEFINE q == [question |-> n, generation |-> generation]
<1>1. Sound(messages') /\ Sound(saved')
    BY KeptSound DEF Show
<1>2. q \in AnyRequest /\ q.generation = generation /\ q.question = n
    BY DEF ChatInv, AnyRequest
<1>3. requests' = requests \cup {q}
    BY DEF Ask
<1> HIDE DEF q
<1>4. requests' \subseteq AnyRequest /\ \A r \in requests' : r.generation <= generation
    BY <1>2, <1>3 DEF ChatInv
<1>5. \A r : Awaited(r)' => r = q
    BY <1>3 DEF ChatInv, Awaited, Current
<1>6. AnswerIsAwaited'
    BY <1>2, <1>3 DEF AnswerIsAwaited, Current
<1> QED
    BY <1>1, <1>2, <1>4, <1>5, <1>6 DEF ChatInv, Show, Ask

LEMMA NothingAwaited == ASSUME loading' = FALSE PROVE loading' \in BOOLEAN /\ AnswerIsAwaited'
    BY DEF AnswerIsAwaited

LEMMA ChatStep == ASSUME ChatInv, ChatNext PROVE ChatInv'
<1>0. messages \in Seq(Message) /\ Len(messages) \in Nat
    BY DEF ChatInv, Sound
<1>1. CASE SendQuestion
  <2> DEFINE n == asked + 1
             s == Append(messages, Question(n))
  <2>1. n \in 1..MaxQuestions
      BY <1>1, QuestionsAssumption DEF ChatInv, SendQuestion
  <2> HIDE DEF n
  <2>2. Question(n) \in Message /\ Whole(Question(n)) /\ Question(n).role = "user"
      BY <2>1, MessagesAre
  <2>3. Sound(s)
      BY <2>2, SaidSound DEF ChatInv, Follows
  <2>4. s # <<>> /\ Last(s) = Question(n)
      BY <1>0, <2>2, AppendProperties DEF Last
  <2>5. Show(s) /\ Ask(n) /\ ~loading /\ generation' = generation /\ asked' = n
      BY <1>1 DEF SendQuestion, n
  <2> HIDE DEF s
  <2> QED
      BY <2>1, <2>3, <2>4, <2>5, Asking
<1>2. CASE Retry
  <2> DEFINE s == Front(messages)
  <2>1. Len(messages) \in Nat /\ Len(messages) >= 1
      BY <1>0, <1>2 DEF Retry
  <2>2. Sound(s)
      BY <2>1, PartSound DEF ChatInv, Front
  <2>3. Show(s) /\ ~loading /\ generation' = generation /\ asked' = asked
      BY <1>2 DEF Retry
  <2>4. CASE s # <<>> /\ Last(s).role = "user"
    <3>1. Len(s) \in 1..Len(s) /\ s[Len(s)] \in Message
        BY <2>2, <2>4 DEF Sound
    <3>2. Last(s) = Question(Last(s).question) /\ Last(s).question \in 1..MaxQuestions
        BY <2>2, <2>4, <3>1 DEF Sound, Whole, Last, Message
    <3>3. Ask(Last(s).question)
        BY <1>2, <2>4 DEF Retry
    <3> HIDE DEF s
    <3> QED
        BY <2>2, <2>3, <2>4, <3>2, <3>3, Asking DEF ChatInv
  <2>5. CASE ~(s # <<>> /\ Last(s).role = "user")
    <3>1. UNCHANGED <<requests, loading>>
        BY <1>2, <2>5 DEF Retry
    <3>2. \A r : ~Awaited(r)'
        BY <2>3, <3>1 DEF ChatInv, Awaited, Current
    <3> QED
        BY <2>2, <2>3, <3>1, <3>2, KeptSound DEF ChatInv, Show, AnswerIsAwaited
  <2> QED
      BY <2>4, <2>5
<1>3. CASE Replied
  <2>1. PICK r \in requests : Reply(r, Answer(r.question)) \/ Reply(r, Failure(r.question))
      BY <1>3 DEF Replied
  <2>2. r.question \in 1..MaxQuestions /\ r \in AnyRequest
      BY DEF ChatInv, AnyRequest
  <2>3. PICK m \in Message : Whole(m) /\ m.question = r.question /\ Reply(r, m)
      BY <2>1, <2>2, MessagesAre
  <2>4. requests' = requests \ {r} /\ asked' = asked /\ generation' = generation
      BY <2>3 DEF Reply
  <2>5. CASE Current(r)
    <3>1. /\ Show(Append(messages, m)) /\ loading' = FALSE
        BY <2>3, <2>5 DEF Reply
    <3>2. Last(messages) = Question(r.question)
        BY <2>5 DEF ChatInv, Awaited
    <3>3. Sound(Append(messages, m))
        BY <2>3, <3>2, SaidSound DEF ChatInv, Follows, Last
    <3>4. \A q : ~Awaited(q)'
      <4> SUFFICES ASSUME NEW q, Awaited(q)' PROVE FALSE
          OBVIOUS
      <4>1. Awaited(q) /\ q # r
          BY <2>4 DEF Awaited, Current
      <4>2. Question(q.question) = Question(r.question) /\ q \in AnyRequest
          BY <3>2, <4>1 DEF ChatInv, Awaited
      <4>3. q.question = r.question
          BY <2>2, <4>2, MessagesAre DEF AnyRequest
      <4>4. q.generation = r.generation
          BY <2>5, <4>1 DEF Awaited, Current
      <4> QED
          BY <2>2, <4>1, <4>2, <4>3, <4>4 DEF AnyRequest
    <3>5. messages' = Append(messages, m) /\ saved' = Kept(messages')
        BY <3>1 DEF Show
    <3>6. Sound(messages') /\ Sound(saved')
        BY <3>3, <3>5, KeptSound
    <3> QED
        BY <2>4, <3>1, <3>4, <3>6 DEF ChatInv, AnswerIsAwaited
  <2>6. CASE ~Current(r)
    <3>1. UNCHANGED <<messages, saved, loading>>
        BY <2>3, <2>6 DEF Reply
    <3>2. \A q : Awaited(q)' => Awaited(q)
        BY <2>4 DEF Awaited, Current
    <3>3. AnswerIsAwaited'
        BY <2>4, <2>6, <3>1 DEF ChatInv, AnswerIsAwaited, Current
    <3> QED
        BY <2>4, <3>1, <3>2, <3>3 DEF ChatInv
  <2> QED
      BY <2>5, <2>6
<1>4. CASE ClearConversation
  <2>1. \A r : ~Awaited(r)'
    <3> SUFFICES ASSUME NEW r, Awaited(r)' PROVE FALSE
        OBVIOUS
    <3>1. r \in requests /\ r.generation = generation + 1
        BY <1>4 DEF ClearConversation, Awaited, Current
    <3> QED
        BY <3>1 DEF ChatInv, AnyRequest
  <2>2. \A r \in requests : r.generation <= generation + 1
      BY DEF ChatInv, AnyRequest
  <2>3. loading' \in BOOLEAN /\ AnswerIsAwaited'
      BY <1>4, NothingAwaited DEF ClearConversation
  <2>4. generation \in Nat /\ generation' = generation + 1
      BY <1>4 DEF ClearConversation, ChatInv
  <2> QED
      BY <1>4, <2>1, <2>2, <2>3, <2>4, NothingIsSound DEF ClearConversation, ChatInv
<1>5. CASE NextPage \/ SignOutOfChat
  <2>1. Sound(messages') /\ Sound(saved')
      BY <1>5, NothingIsSound, KeptSound DEF NextPage, SignOutOfChat, ChatInv
  <2>2. loading' \in BOOLEAN /\ AnswerIsAwaited'
      BY <1>5, NothingAwaited DEF NextPage, SignOutOfChat
  <2>3. requests' = {} /\ generation' = 0 /\ asked' = asked
      BY <1>5 DEF NextPage, SignOutOfChat
  <2> QED
      BY <2>1, <2>2, <2>3 DEF ChatInv, Awaited
<1> QED
    BY <1>1, <1>2, <1>3, <1>4, <1>5 DEF ChatNext

LEMMA ChatIdle == ASSUME ChatInv, UNCHANGED chatVars PROVE ChatInv'
    BY DEF chatVars, ChatInv, Awaited, Current, AnswerIsAwaited

LEMMA ChatIsTyped == ChatInv => ChatTypeOK
    BY DEF ChatInv, Sound, AnyRequest, ChatTypeOK

(***************************************************************************)
(* The Reporter. A page opened for a report carries its Case ID in the     *)
(* state of the navigation, which nothing but another page changes.        *)
(***************************************************************************)
Carries(v) == v.submitted # NoCase => v.navigated = v.submitted

ReporterInv == {"navigated", "submitted"} \subseteq DOMAIN view /\ Carries(view)

LEMMA PageCarries ==
    ASSUME NEW p
    PROVE  /\ {"navigated", "submitted"} \subseteq DOMAIN Page(p) /\ Carries(Page(p))
           /\ \A id, was : LET v == [Page(p) EXCEPT !.navigated = id, !.submitted = was]
                          IN  /\ {"navigated", "submitted"} \subseteq DOMAIN v
                              /\ v.navigated = id /\ v.submitted = was
           /\ \A id : {"navigated", "submitted"} \subseteq DOMAIN Confirmation(id) /\ Carries(Confirmation(id))
    BY DEF Page, Carries, Confirmation

LEMMA ReporterStarts == ReporterInit => ReporterInv
    BY PageCarries DEF ReporterInit, ReporterInv

LEMMA ReporterIdle == ASSUME ReporterInv, view' = view PROVE ReporterInv'
    BY DEF ReporterInv, Carries

\* The page changes, or what it holds apart from the Case IDs.
LEMMA StaysOnItsCase ==
    ASSUME ReporterInv, DOMAIN view' = DOMAIN view,
           view'.navigated = view.navigated, view'.submitted = view.submitted
    PROVE  ReporterInv'
    BY DEF ReporterInv, Carries

LEMMA ReporterStep == ASSUME ReporterInv, ReporterNext PROVE ReporterInv'
<1> USE DEF ReporterInv
<1>1. CASE \E part \in Parts : Give(part) \/ TakeBack(part)
    BY <1>1, StaysOnItsCase DEF Give, TakeBack
<1>2. CASE Submit \/ NotSubmitted \/ TryAgain
    BY <1>2, StaysOnItsCase DEF Submit, NotSubmitted, TryAgain
<1>3. CASE TypeId \/ CheckStatus \/ LookupAnswered \/ CheckAnother
    BY <1>3, StaysOnItsCase DEF TypeId, CheckStatus, LookupAnswered, CheckAnother
<1>4. CASE AddInformation
    BY <1>4, StaysOnItsCase DEF AddInformation
<1>5. CASE ServeSubmission \/ SubmittedElsewhere \/ ServeLookup \/ ServeLeft \/ \E c \in CaseIds : LeftNotSubmitted(c)
    BY <1>5, ReporterIdle DEF ServeSubmission, SubmittedElsewhere, ServeLookup, ServeLeft, LeftNotSubmitted
<1>6. CASE Submitted \/ \E c \in CaseIds : LeftSubmitted(c) \/ GoBack(c)
  <2>1. \E c : view' = Confirmation(c)
      BY <1>6 DEF Submitted, LeftSubmitted, GoBack, Confirms
  <2> QED
      BY <2>1, PageCarries
<1>7. CASE ReloadPage
  <2>1. CASE view' = [Page("confirmation") EXCEPT !.navigated = view.navigated, !.submitted = view.submitted]
      BY <2>1, PageCarries DEF Carries
  <2>2. CASE \E p : view' = Page(p)
      BY <2>2, PageCarries DEF Carries
  <2> QED
      BY <1>7, <2>1, <2>2 DEF ReloadPage
<1>8. CASE \/ \E p \in {"form", "confirmation", "lookup"} : Open(p)
           \/ \E p \in {"form", "lookup"} : FollowTab(p)
  <2>1. PICK p : view' = Page(p)
      BY <1>8 DEF Open, FollowTab
  <2> QED
      BY <2>1, PageCarries DEF Carries
<1> QED
    BY <1>1, <1>2, <1>3, <1>4, <1>5, <1>6, <1>7, <1>8 DEF ReporterNext

LEMMA ReporterShows == ReporterInv => ConfirmsItsOwnReport
    BY DEF ReporterInv, Carries, ConfirmsItsOwnReport, ShownId

(***************************************************************************)
(* The types of the Reporter's pages.                                      *)
(***************************************************************************)
Views == [page : {"form", "failed", "confirmation", "lookup", "result"},
          missing : SUBSET Parts, errors : SUBSET Parts, refused : BOOLEAN,
          navigated : CaseIds \cup {NoCase}, input : CaseIds \cup {NoCase},
          notice : {"none", "not-found", "locked-out", "other"},
          more : {"none", "open", "sending", "added"},
          submitted : CaseIds \cup {NoCase}]

LEMMA PageIsTyped ==
    ASSUME ReporterTypeOK, NEW p \in {"form", "confirmation", "lookup"}
    PROVE  /\ Page(p) \in Views
           /\ \A id, was \in CaseIds \cup {NoCase} :
                 [Page(p) EXCEPT !.navigated = id, !.submitted = was] \in Views
<1>1. Page(p) \in Views
  <2>1. stored \in CaseIds \cup {NoCase}
      BY DEF ReporterTypeOK
  <2>2. (IF p = "lookup" THEN stored ELSE NoCase) \in CaseIds \cup {NoCase}
      BY <2>1
  <2> QED
      BY <2>2 DEF Page, Views
<1> QED
    BY <1>1 DEF Views

\* A form is sent only when it can still be left.
RoomToLeave == submission.at = "sent" => left.sent < MaxLeft

ReporterTyped == ReporterTypeOK /\ RoomToLeave

Lefts == [sent : 0..MaxLeft, made : SUBSET CaseIds]

LEMMA ReporterTypesStart == ReporterInit => ReporterTyped
<1> SUFFICES ASSUME ReporterInit PROVE ReporterTyped
    OBVIOUS
<1>1. left \in Lefts /\ reports \in 0..MaxReports
    BY MaxReportsAssumption DEF ReporterInit, NoneLeft, Lefts
<1> QED
    BY <1>1 DEF ReporterInit, ReporterTyped, RoomToLeave, ReporterTypeOK, Page, Idle, NoLookup, CaseIds, Lefts

LEMMA NoRequestIsTyped ==
    /\ Idle \in [at : {"none", "sent", "refused", "failed"}, case : {NoCase}]
    /\ NoLookup \in [at : {"none", "sent", "found", "not-found", "locked-out", "other"}, id : CaseIds \cup {NoCase}]
    /\ Idle.at = "none" /\ NoneLeft \in Lefts
    BY MaxReportsAssumption DEF Idle, NoLookup, NoneLeft, Lefts

\* What is left of a page that is left is one submission more, or none.
LEMMA LeftIsTyped ==
    ASSUME ReporterTyped
    PROVE  /\ LeftBehind \in Lefts
           /\ \A c \in CaseIds : [LeftBehind EXCEPT !.made = @ \ {c}] \in Lefts
<1>1. left.sent \in 0..MaxLeft /\ left.made \in SUBSET CaseIds
    BY DEF ReporterTyped, ReporterTypeOK
<1>2. left.sent + (IF submission.at = "sent" THEN 1 ELSE 0) \in 0..MaxLeft
    BY <1>1, MaxReportsAssumption DEF ReporterTyped, RoomToLeave
<1>3. (IF submission.at = "made" THEN {submission.case} ELSE {}) \in SUBSET CaseIds
    BY DEF ReporterTyped, ReporterTypeOK
<1>4. LeftBehind \in Lefts
    BY <1>1, <1>2, <1>3 DEF LeftBehind, Lefts
<1> QED
    BY <1>4 DEF Lefts

LEMMA ConfirmationIsTyped ==
    ASSUME ReporterTypeOK, NEW c \in CaseIds, Confirms(c)
    PROVE  /\ view' \in Views /\ visited' \subseteq CaseIds /\ stored' \in CaseIds \cup {NoCase}
           /\ UNCHANGED <<reports, storage>>
    BY PageIsTyped DEF Confirms, Confirmation, Saved, ReporterTypeOK

LEMMA ReporterTypesStep == ASSUME ReporterTyped, ReporterNext PROVE ReporterTyped'
<1> USE DEF ReporterTyped, RoomToLeave
<1>1. CASE \E part \in Parts : Give(part) \/ TakeBack(part)
  <2>1. PICK part \in Parts : Give(part) \/ TakeBack(part)
      BY <1>1
  <2>2. view \in Views
      BY DEF ReporterTypeOK, Views
  <2>3. CASE Give(part)
    <3>1. view' \in Views
        BY <2>2, <2>3 DEF Give, Views
    <3> QED
        BY <2>3, <3>1 DEF Give, ReporterTypeOK, Views
  <2>4. CASE TakeBack(part)
    <3>1. PICK wrong \in SUBSET Parts : view' = [view EXCEPT !.missing = @ \cup {part}, !.errors = @ \cup wrong]
        BY <2>4 DEF TakeBack
    <3>2. view' \in Views
        BY <2>2, <3>1 DEF Views
    <3> QED
        BY <2>4, <3>2 DEF TakeBack, ReporterTypeOK, Views
  <2> QED
      BY <2>1, <2>3, <2>4
<1>2. CASE Submit \/ NotSubmitted \/ TryAgain
  <2>1. view \in Views
      BY DEF ReporterTypeOK, Views
  <2>2. view' \in Views
    <3>1. CASE Submit
      <4>1. view.missing \in SUBSET Parts
          BY <2>1 DEF Views
      <4>2. \/ view' = [view EXCEPT !.errors = view.missing]
            \/ view' = [view EXCEPT !.refused = FALSE]
          BY <3>1 DEF Submit
      <4> QED
          BY <2>1, <4>1, <4>2 DEF Views
    <3>2. CASE NotSubmitted \/ TryAgain
      <4>1. \/ view' = [view EXCEPT !.refused = TRUE]
            \/ view' = [view EXCEPT !.page = "failed"]
            \/ view' = [view EXCEPT !.page = "form"]
          BY <3>2 DEF NotSubmitted, TryAgain
      <4> QED
          BY <2>1, <4>1 DEF Views
    <3> QED
        BY <1>2, <3>1, <3>2
  <2>3. \/ submission' = submission \/ submission' = Idle
        \/ submission' = [at |-> "sent", case |-> NoCase] /\ left.sent < MaxLeft
      BY <1>2 DEF Submit, NotSubmitted, TryAgain
  <2>4. UNCHANGED <<reports, stored, storage, visited, left, lookup>>
      BY <1>2 DEF Submit, NotSubmitted, TryAgain
  <2> QED
      BY <2>2, <2>3, <2>4, NoRequestIsTyped DEF ReporterTypeOK, Views
<1>3. CASE TypeId \/ CheckAnother
  <2>1. view \in Views
      BY DEF ReporterTypeOK, Views
  <2>2. view' \in Views
    <3>1. CASE TypeId
      <4>1. PICK id \in CaseIds \cup {NoCase} : view' = [view EXCEPT !.input = id]
          BY ONLY <3>1 DEF TypeId
      <4> QED
          BY ONLY <2>1, <4>1 DEF Views
    <3>2. CASE CheckAnother
      <4>1. view' = [view EXCEPT !.page = "lookup", !.input = NoCase, !.more = "none"]
          BY ONLY <3>2 DEF CheckAnother
      <4> QED
          BY ONLY <2>1, <4>1 DEF Views
    <3> QED
        BY ONLY <1>3, <3>1, <3>2
  <2>3. UNCHANGED <<reports, stored, storage, visited, submission, left, lookup>>
      BY ONLY <1>3 DEF TypeId, CheckAnother
  <2> QED
      BY <2>2, <2>3 DEF ReporterTypeOK, Views
<1>4. CASE CheckStatus
    BY <1>4 DEF CheckStatus, ReporterTypeOK
<1>5. CASE AddInformation
    BY <1>5 DEF AddInformation, ReporterTypeOK
<1>6. CASE ServeSubmission
    BY <1>6, MaxReportsAssumption DEF ServeSubmission, ReporterTypeOK, CaseIds
<1>7. CASE SubmittedElsewhere
    BY <1>7, MaxReportsAssumption DEF SubmittedElsewhere, Saved, ReporterTypeOK, CaseIds
<1>8. CASE ServeLookup
    BY <1>8 DEF ServeLookup, ReporterTypeOK
<1>9. CASE LookupAnswered
    BY <1>9, NoRequestIsTyped DEF LookupAnswered, ReporterTypeOK
<1>10. CASE Submitted
  <2>1. submission.case \in CaseIds
      BY <1>10 DEF Submitted, ReporterTypeOK
  <2>2. Confirms(submission.case) /\ submission' = Idle /\ UNCHANGED <<left, lookup>>
      BY <1>10 DEF Submitted
  <2> QED
      BY <2>1, <2>2, ConfirmationIsTyped, NoRequestIsTyped DEF ReporterTypeOK, Views
<1>11. CASE ReloadPage
  <2>1. view.navigated \in CaseIds \cup {NoCase} /\ view.submitted \in CaseIds \cup {NoCase}
      BY DEF ReporterTypeOK
  <2>2. view' \in Views
      BY <1>11, <2>1, PageIsTyped DEF ReloadPage
  <2> QED
      BY <1>11, <2>2, NoRequestIsTyped DEF ReloadPage, ReporterTypeOK, Views, Lefts
<1>12. CASE \E p \in {"form", "confirmation", "lookup"} : Open(p)
  <2>1. view' \in Views
      BY <1>12, PageIsTyped DEF Open
  <2> QED
      BY <1>12, <2>1, NoRequestIsTyped DEF Open, ReporterTypeOK, Views, Lefts
<1>13. CASE ServeLeft
  <2>1. PICK made \in SUBSET CaseIds, n \in 0..MaxReports :
            /\ reports' = n
            /\ left' = [sent |-> left.sent - 1, made |-> made]
    <3>1. left \in Lefts /\ left.made \in SUBSET CaseIds /\ reports \in 0..MaxReports
        BY DEF ReporterTypeOK, Lefts
    <3>2. CASE reports < MaxReports /\ reports' = reports + 1
               /\ left' = [sent |-> left.sent - 1, made |-> left.made \cup {reports + 1}]
      <4>1. reports + 1 \in CaseIds /\ reports + 1 \in 0..MaxReports
          BY <3>1, <3>2, MaxReportsAssumption DEF CaseIds
      <4> QED
          BY <3>1, <3>2, <4>1
    <3>3. CASE left' = [left EXCEPT !.sent = @ - 1] /\ reports' = reports
      <4>1. left' = [sent |-> left.sent - 1, made |-> left.made]
          BY <3>1, <3>3 DEF Lefts
      <4> QED
          BY <3>1, <3>3, <4>1
    <3> QED
        BY <1>13, <3>2, <3>3 DEF ServeLeft
  <2>2. left.sent > 0 /\ left.sent \in 0..MaxLeft /\ UNCHANGED <<stored, storage, view, visited, submission, lookup>>
      BY <1>13 DEF ServeLeft, ReporterTypeOK
  <2>3. left.sent - 1 \in 0..MaxLeft /\ left.sent - 1 < left.sent
      BY <2>2, MaxReportsAssumption
  <2>4. left' \in Lefts
      BY <2>1, <2>3 DEF Lefts
  <2>5. RoomToLeave'
    <3>1. left'.sent = left.sent - 1
        BY <2>1
    <3>2. left.sent < MaxLeft => left'.sent < MaxLeft
        BY <2>2, <3>1, MaxReportsAssumption
    <3> QED
        BY <2>2, <3>2
  <2> QED
      BY <2>1, <2>2, <2>4, <2>5 DEF ReporterTypeOK, Lefts
<1>14. CASE \E c \in CaseIds : LeftSubmitted(c)
  <2>1. PICK c \in CaseIds : LeftSubmitted(c)
      BY <1>14
  <2>2. Confirms(c) /\ left' \in Lefts /\ submission' = Idle /\ lookup' = NoLookup
      BY <2>1, LeftIsTyped DEF LeftSubmitted
  <2> QED
      BY <2>2, ConfirmationIsTyped, NoRequestIsTyped DEF ReporterTypeOK, Views, Lefts
<1>15. CASE \E c \in CaseIds : LeftNotSubmitted(c)
  <2>1. left' \in Lefts /\ left'.sent = left.sent
      BY <1>15 DEF LeftNotSubmitted, ReporterTypeOK, Lefts
  <2> QED
      BY <1>15, <2>1 DEF LeftNotSubmitted, ReporterTypeOK, Lefts
<1>16. CASE \/ \E p \in {"form", "lookup"} : FollowTab(p)
            \/ \E c \in CaseIds : GoBack(c)
  <2>1. view' \in Views
    <3>1. CASE \E p \in {"form", "lookup"} : FollowTab(p)
        BY <3>1, PageIsTyped DEF FollowTab
    <3>2. ASSUME NEW c \in CaseIds, GoBack(c) PROVE view' \in Views
      <4>1. view' = [Page("confirmation") EXCEPT !.navigated = c, !.submitted = c]
          BY ONLY <3>2 DEF GoBack, Confirmation
      <4>2. \A id, was \in CaseIds \cup {NoCase} :
               [Page("confirmation") EXCEPT !.navigated = id, !.submitted = was] \in Views
          BY PageIsTyped
      <4> QED
          BY ONLY <4>1, <4>2
    <3> QED
        BY <1>16, <3>1, <3>2
  <2>2. /\ left' \in Lefts /\ submission' = Idle /\ lookup' = NoLookup
        /\ UNCHANGED <<reports, stored, storage, visited>>
      BY <1>16, LeftIsTyped DEF FollowTab, GoBack, LeavePage
  <2> QED
      BY <2>1, <2>2, NoRequestIsTyped DEF ReporterTypeOK, Views, Lefts
<1> QED
    BY <1>1, <1>2, <1>3, <1>4, <1>5, <1>6, <1>7, <1>8, <1>9, <1>10, <1>11, <1>12, <1>13, <1>14, <1>15, <1>16
    DEF ReporterNext

LEMMA ReporterTypesIdle == ASSUME ReporterTyped, UNCHANGED reporterVars PROVE ReporterTyped'
    BY DEF reporterVars, ReporterTyped, RoomToLeave, ReporterTypeOK

(***************************************************************************)
(* The Overview: every row, figure and alert is of an item, and the inbox  *)
(* is read from what was loaded.                                           *)
(***************************************************************************)
LEMMA OfItems ==
    ASSUME NEW items, items \subseteq Items
    PROVE  /\ \A kinds : Of(kinds, items) \subseteq items /\ Of(kinds, items) \subseteq Of(kinds, Items)
           /\ CheckIns(items) \subseteq items /\ Requesters(items) \subseteq People
    BY DEF Of, CheckIns, Requesters, People

\* The failed deliveries that are listed have a place each, below the number listed.
LEMMA FailedAreListed ==
    ASSUME NEW items, items \subseteq Items
    PROVE  FailedOnes(items) \in FailedLists
<1>1. \A i : LaterThan(i, items) \in Nat
  <2>1. \A i : {j \in Failed(items) : byAttempt[j] < byAttempt[i]} \subseteq Items
      BY DEF Failed
  <2> QED
      BY <2>1, ItemsHaveAKind, FS_Subset, FS_CardinalityType DEF LaterThan
<1> DEFINE listed == {d \in Failed(items) : LaterThan(d, items) < MAX_FAILED_LISTED}
<1>2. listed \in SUBSET Deliveries
    BY DEF Failed
<1>3. \A d \in listed : LaterThan(d, items) \in 0..MAX_FAILED_LISTED - 1
    BY <1>1, ListedAssumption
<1>4. FailedOnes(items) \in [listed -> 0..MAX_FAILED_LISTED - 1]
    BY <1>3 DEF FailedOnes
<1> HIDE DEF listed
<1> QED
    BY <1>2, <1>4 DEF FailedLists

LEMMA ListedAreItems == ASSUME NEW f \in FailedLists PROVE DOMAIN f \in SUBSET Items
    BY DEF FailedLists, Deliveries, Of

LEMMA OfServer ==
    ASSUME OverviewTypeOK, Happens, waiting' \subseteq Items, escalated' \subseteq Deliveries,
           byAttempt' \in [Deliveries -> Nat]
    PROVE  OverviewTypeOK'
<1>1. changes' \in 0..MaxChanges
  <2>1. changes \in 0..MaxChanges /\ changes < MaxChanges /\ changes' = changes + 1
      BY DEF OverviewTypeOK, Happens
  <2> QED
      BY ONLY <2>1, ChangesAssumption
<1>2. UNCHANGED <<figures, people, banner, inbox, inboxError, reading, keyRead, showAll, checkInFor, checkInCall>>
    BY DEF Happens
<1> QED
    BY <1>1, <1>2 DEF OverviewTypeOK

Readings ==
    [on : BOOLEAN, reads : SUBSET Lists, got : SUBSET Items, known : SUBSET Items, of : SUBSET People]

LEMMA OverviewStarts == OverviewInit => OverviewTypeOK
<1> SUFFICES ASSUME OverviewInit PROVE OverviewTypeOK
    OBVIOUS
<1>1. reading \in Readings
    BY DEF OverviewInit, NoReading, Readings
<1>2. changes \in 0..MaxChanges
    BY ChangesAssumption DEF OverviewInit
<1>3. checkInFor \in Items \cup {NoItem} /\ checkInCall \in Items \cup {NoItem} /\ banner \subseteq Of({"SOS alert"}, Items)
    BY DEF OverviewInit
<1>5. escalated \subseteq Deliveries /\ byAttempt \in [Deliveries -> Nat]
  <2>1. Cardinality(Deliveries) \in Nat
      BY ItemsHaveAKind, FS_Subset, FS_CardinalityType DEF Deliveries, Of
  <2>2. byAttempt \in [Deliveries -> 1..Cardinality(Deliveries)]
      BY DEF OverviewInit, Bijection, Injection, Surjection
  <2> QED
      BY <2>1, <2>2 DEF OverviewInit
<1>4. keyRead = NoKey /\ waiting \subseteq Items /\ showAll \in BOOLEAN /\ inboxError \in BOOLEAN
    BY DEF OverviewInit
<1> QED
    BY <1>1, <1>2, <1>3, <1>4, <1>5 DEF OverviewInit, OverviewTypeOK, Readings

LEMMA OverviewStep == ASSUME OverviewTypeOK, OverviewNext PROVE OverviewTypeOK'
<1> USE DEF OverviewTypeOK, Readings
<1>1. CASE WaitingChanges \/ \E i \in Deliveries : DeliveryFails(i) \/ EscalationChanges(i)
  <2>1. CASE WaitingChanges
      BY <2>1, OfServer DEF WaitingChanges
  <2>2. ASSUME NEW i \in Deliveries, DeliveryFails(i) PROVE OverviewTypeOK'
    <3>1. byAttempt \in [Deliveries -> Nat]
        OBVIOUS
    <3>2. byAttempt' = [j \in Deliveries |-> IF j = i THEN 1
                                             ELSE IF byAttempt[j] < byAttempt[i] THEN byAttempt[j] + 1
                                             ELSE byAttempt[j]]
        BY ONLY <2>2 DEF DeliveryFails
    <3>3. byAttempt' \in [Deliveries -> Nat]
        BY ONLY <3>1, <3>2
    <3>4. i \in Items
        BY ONLY i \in Deliveries DEF Deliveries, Of
    <3>5. waiting' \subseteq Items /\ escalated' \subseteq Deliveries /\ Happens
        BY <2>2, <3>4 DEF DeliveryFails
    <3> QED
        BY ONLY OverviewTypeOK, <3>3, <3>5, OfServer
  <2>3. ASSUME NEW i \in Deliveries, EscalationChanges(i) PROVE OverviewTypeOK'
      BY <2>3, OfServer DEF EscalationChanges
  <2> QED
      BY <1>1, <2>1, <2>2, <2>3
<1>2. CASE LoadFigures \/ LoadPeople
  <2>1. FailedOnes(waiting) \in FailedLists
      BY FailedAreListed
  <2>2. [asked |-> Requesters(waiting), owed |-> CheckIns(waiting)] \in [asked : SUBSET People, owed : SUBSET Items]
      BY OfItems
  <2>3. CASE LoadFigures
      BY <2>1, <2>3 DEF LoadFigures, serverVars
  <2>4. CASE LoadPeople
      BY <2>2, <2>4 DEF LoadPeople, serverVars
  <2> QED
      BY <1>2, <2>3, <2>4
<1>3. CASE LoadBanner \/ LoseBanner
    BY <1>3, OfItems DEF LoadBanner, LoseBanner, serverVars
<1>4. CASE ReadInbox
  <2>1. figures \in FailedLists /\ people \in [asked : SUBSET People, owed : SUBSET Items]
      BY <1>4 DEF ReadInbox, Ready
  <2>2. DependencyKey \in (SUBSET People) \X FailedLists \X (SUBSET Items)
      BY <2>1 DEF DependencyKey
  <2>3. reading' \in Readings
    <3>1. DOMAIN figures \in SUBSET Items
        BY <2>1, ListedAreItems
    <3> QED
        BY <1>4, <2>1, <3>1 DEF ReadInbox
  <2> QED
      BY <1>4, <2>2, <2>3 DEF ReadInbox, serverVars
<1>5. CASE ServeList
  <2>1. PICK l \in reading.reads :
            reading' = [reading EXCEPT !.reads = @ \ {l},
                                       !.got = @ \cup {i \in Of({l}, waiting) : l = "Request" => Person[i] \in reading.of}]
      BY <1>5 DEF ServeList
  <2>2. {i \in Of({l}, waiting) : l = "Request" => Person[i] \in reading.of} \subseteq Items
      BY OfItems
  <2>3. reading' \in Readings
      BY <2>1, <2>2
  <2> QED
      BY <1>5, <2>3 DEF ServeList, serverVars
<1>6. CASE ShowInbox \/ InboxFailed
  <2>1. reading' = NoReading
      BY <1>6 DEF ShowInbox, InboxFailed
  <2>2. reading' \in Readings
      BY ONLY <2>1 DEF NoReading, Readings
  <2>3. inbox' \in {NotLoaded} \cup SUBSET Items /\ inboxError' \in BOOLEAN
      BY <1>6 DEF ShowInbox, InboxFailed
  <2> QED
      BY <1>6, <2>2, <2>3 DEF ShowInbox, InboxFailed, serverVars
<1>7. CASE ToggleShowAll \/ CloseInboxCheckIn \/ SendCheckIn
    BY <1>7 DEF ToggleShowAll, CloseInboxCheckIn, SendCheckIn, serverVars
<1>8. CASE OpenInboxCheckIn
    BY <1>8, OfItems DEF OpenInboxCheckIn, InboxOnScreen, serverVars
<1>9. CASE CheckInLogged
  <2>1. waiting' \subseteq Items
      BY <1>9 DEF CheckInLogged
  <2>2. figures' \in FailedLists /\ people' \in [asked : SUBSET People, owed : SUBSET Items]
      BY <1>9, <2>1, OfItems, FailedAreListed DEF CheckInLogged
  <2> QED
      BY <1>9, <2>1, <2>2 DEF CheckInLogged
<1>10. CASE CheckInNotLogged
    BY <1>10 DEF CheckInNotLogged
<1> QED
    BY <1>1, <1>2, <1>3, <1>4, <1>5, <1>6, <1>7, <1>8, <1>9, <1>10 DEF OverviewNext

LEMMA OverviewIdle == ASSUME OverviewTypeOK, UNCHANGED overviewVars PROVE OverviewTypeOK'
    BY DEF overviewVars, serverVars, OverviewTypeOK

(***************************************************************************)
(* The Case queue: what is busy is under way.                              *)
(***************************************************************************)
QueuePages ==
         [open : BOOLEAN, requests : SUBSET Requests,
          rows : [Cases -> Places] \cup {NULL}, mine : {NULL} \cup SUBSET Cases,
          atExposureLimit : BOOLEAN, declined : SUBSET Cases,
          confirming : Cases \cup {NULL}, busy : Cases \cup {NULL},
          toggle : [Cases -> {"ready", "confirming", "busy"}],
          error : {NULL, "refused", "failed"}, notice : BOOLEAN]

QueueInv == QueueTypeOK /\ NothingStaysBusy

LEMMA ChangeRequests ==
    ASSUME NEW r \in Requests, r.kind \in Changes
    PROVE  /\ r.case \in Cases
           /\ \A a \in {"done", "refused"} :
                LET s == [r EXCEPT !.answer = a]
                IN  s \in Requests /\ s.kind = r.kind /\ s.case = r.case
    BY DEF Requests, Changes

LEMMA OtherRequests ==
    ASSUME NEW r \in Requests
    PROVE  /\ r.kind = "rows" => r.answer \in [Cases -> Places] /\ r.keepError \in BOOLEAN
           /\ r.kind = "mine" => r.answer \in SUBSET Cases
           /\ r.kind = "releaseAll" => LET s == [r EXCEPT !.answer = "done"]
                                       IN  s \in Requests /\ s.kind = "releaseAll"
    BY DEF Requests

LEMMA NewRequests ==
    ASSUME QueueTypeOK
    PROVE  /\ \A b \in BOOLEAN : LoadRows(b) \in Requests
           /\ \A b \in BOOLEAN : LoadMine(b) \in Requests
           /\ [kind |-> "releaseAll", answer |-> NULL] \in Requests
           /\ \A k \in Changes, c \in Cases :
                Asked(k, c) \in Requests /\ Asked(k, c).kind = k /\ Asked(k, c).case = c
    BY DEF QueueTypeOK, LoadRows, LoadMine, Owned, Asked, Requests, Changes

\* The requests of these kinds go on.
Continue(kinds) ==
    \A q \in page.requests : q.kind \in kinds
        => \E r \in page'.requests : r.kind = q.kind /\ r.case = q.case

LEMMA StillBusy ==
    ASSUME NothingStaysBusy, page'.open => page.open, page'.busy \in {page.busy, NULL},
           \A c \in Cases : page'.toggle[c] = "busy" => page.toggle[c] = "busy",
           Continue(Changes)
    PROVE  NothingStaysBusy'
    BY DEF NothingStaysBusy, Continue, Changes

LEMMA QueueStarts == QueueInit => QueueInv
<1> SUFFICES ASSUME QueueInit PROVE QueueInv
    OBVIOUS
<1>1. QueueTypeOK
  <2>1. place \in [Cases -> Places] /\ limit \in BOOLEAN /\ isSuperAdmin \in BOOLEAN
      BY DEF QueueInit, Places
  <2>2. acts \in 0..MaxActs
      BY ActsAssumption DEF QueueInit
  <2>3. LoadMine(TRUE) \in Requests
      BY DEF LoadMine, Owned, Requests
  <2>4. page \in QueuePages
      BY <2>3 DEF QueueInit, QueuePages
  <2> QED
      BY <2>1, <2>2, <2>4 DEF QueueTypeOK, QueuePages
<1>2. NothingStaysBusy
    BY DEF QueueInit, NothingStaysBusy
<1> QED
    BY <1>1, <1>2 DEF QueueInv

LEMMA ServeStep ==
    ASSUME QueueInv, NEW r \in page.requests, Serve(r) \/ ServeReleaseAll(r)
    PROVE  QueueInv'
<1>1. page \in QueuePages /\ r \in Requests
    BY DEF QueueInv, QueueTypeOK, QueuePages
<1>2. CASE Serve(r)
  <2>1. PICK a \in {"done", "refused"} :
            page' = [page EXCEPT !.requests = (page.requests \ {r}) \cup {[r EXCEPT !.answer = a]}]
      BY <1>2 DEF Serve
  <2> DEFINE s == [r EXCEPT !.answer = a]
  <2>2. s \in Requests /\ s.kind = r.kind /\ s.case = r.case
      BY <1>1, <1>2, ChangeRequests DEF Serve
  <2>3. page' = [page EXCEPT !.requests = (page.requests \ {r}) \cup {s}]
      BY <2>1
  <2> HIDE DEF s
  <2>4. page' \in QueuePages /\ page'.requests = (page.requests \ {r}) \cup {s}
        /\ page'.open = page.open /\ page'.busy = page.busy /\ page'.toggle = page.toggle
      BY <1>1, <2>2, <2>3 DEF QueuePages
  <2>5. NothingStaysBusy'
    <3>1. Continue(Changes)
        BY <2>2, <2>4 DEF Continue
    <3> QED
        BY <2>4, <3>1, StillBusy DEF QueueInv
  <2>6. place' \in [Cases -> Places]
    <3>1. Placed(r) \in Places
        BY Zenon DEF Placed, Places
    <3> QED
        BY <1>2, <3>1 DEF Serve, QueueInv, QueueTypeOK
  <2> QED
      BY <1>2, <2>4, <2>5, <2>6 DEF Serve, QueueInv, QueueTypeOK, QueuePages
<1>3. CASE ServeReleaseAll(r)
  <2> DEFINE s == [r EXCEPT !.answer = "done"]
  <2>1. s \in Requests /\ r.kind = "releaseAll"
      BY <1>1, <1>3, OtherRequests DEF ServeReleaseAll
  <2>2. page' = [page EXCEPT !.requests = (page.requests \ {r}) \cup {s}]
      BY <1>1, <1>3 DEF ServeReleaseAll, QueuePages
  <2> HIDE DEF s
  <2>3. page' \in QueuePages /\ page'.requests = (page.requests \ {r}) \cup {s}
        /\ page'.open = page.open /\ page'.busy = page.busy /\ page'.toggle = page.toggle
      BY <1>1, <2>1, <2>2 DEF QueuePages
  <2>4. Continue(Changes)
      BY <2>1, <2>3 DEF Continue, Changes
  <2>5. NothingStaysBusy'
      BY <2>3, <2>4, StillBusy DEF QueueInv
  <2>6. place' \in [Cases -> Places]
    <3>1. PICK reviewable \in SUBSET Owned :
              place' = [c \in Cases |-> IF c \in reviewable THEN "manager" ELSE place[c]]
        BY <1>3 DEF ServeReleaseAll
    <3> QED
        BY <3>1 DEF QueueInv, QueueTypeOK, Places
  <2> QED
      BY <1>3, <2>3, <2>5, <2>6 DEF ServeReleaseAll, QueueInv, QueueTypeOK, QueuePages
<1> QED
    BY <1>2, <1>3

\* An answer to a list, or to the release at the limit.
LEMMA ListStep ==
    ASSUME QueueInv, NEW r \in page.requests, page.open,
           RowsAnswered(r) \/ MineAnswered(r) \/ LoadFailed(r) \/ ReleaseAllAnswered(r)
    PROVE  page' \in QueuePages /\ NothingStaysBusy'
<1>1. page \in QueuePages /\ r \in Requests /\ QueueTypeOK
    BY DEF QueueInv, QueueTypeOK, QueuePages
<1>2. r.kind \in {"rows", "mine", "releaseAll"} /\ (page.requests \ {r}) \subseteq page'.requests
  <2>1. r.kind \in {"rows", "mine", "releaseAll"}
      BY DEF RowsAnswered, MineAnswered, LoadFailed, ReleaseAllAnswered
  <2>2. \/ page'.requests = page.requests \ {r}
        \/ \E new : page'.requests = (page.requests \ {r}) \cup new
    <3>1. CASE RowsAnswered(r)
        BY <1>1, <3>1 DEF RowsAnswered, QueuePages
    <3>2. CASE MineAnswered(r)
        BY <1>1, <3>2 DEF MineAnswered, QueuePages
    <3>3. CASE LoadFailed(r)
        BY <1>1, <3>3 DEF LoadFailed, QueuePages
    <3>4. CASE ReleaseAllAnswered(r)
      <4>1. CASE page' = [page EXCEPT !.requests = @ \ {r}]
          BY ONLY <1>1, <4>1 DEF QueuePages
      <4>2. CASE page' = [page EXCEPT !.requests = (@ \ {r}) \cup {LoadMine(FALSE)}]
          BY ONLY <1>1, <4>2 DEF QueuePages
      <4> QED
          BY ONLY <3>4, <4>1, <4>2 DEF ReleaseAllAnswered
    <3> QED
        BY <3>1, <3>2, <3>3, <3>4
  <2> QED
      BY <2>1, <2>2
<1>3. Continue(Changes)
    BY <1>2 DEF Continue, Changes
<1>4. CASE RowsAnswered(r)
  <2>1. r.answer \in [Cases -> Places]
      BY <1>1, <1>4, OtherRequests DEF RowsAnswered
  <2>2. Switches(r.answer) \in [Cases -> {"ready", "confirming", "busy"}]
      BY <1>1 DEF Switches, QueuePages
  <2>3. PICK e \in {NULL, "refused", "failed"} :
           page' = [page EXCEPT !.requests = @ \ {r}, !.rows = r.answer, !.toggle = Switches(r.answer), !.error = e]
      BY <1>1, <1>4 DEF RowsAnswered, QueuePages
  <2>4. page' \in QueuePages /\ page'.open = page.open /\ page'.busy = page.busy /\ page'.toggle = Switches(r.answer)
      BY <1>1, <2>1, <2>2, <2>3 DEF QueuePages
  <2>5. \A c \in Cases : page'.toggle[c] = "busy" => page.toggle[c] = "busy"
      BY <2>4 DEF Switches
  <2> QED
      BY <1>3, <2>4, <2>5, StillBusy DEF QueueInv
<1>5. CASE MineAnswered(r) \/ LoadFailed(r) \/ ReleaseAllAnswered(r)
  <2>1. page' \in QueuePages
    <3>1. CASE MineAnswered(r)
      <4>1. r.answer \in SUBSET Cases
          BY <1>1, <3>1, OtherRequests DEF MineAnswered
      <4>2. PICK new \in SUBSET Requests :
                page' = [page EXCEPT !.requests = (page.requests \ {r}) \cup new, !.mine = r.answer]
          BY <1>1, <3>1, NewRequests DEF MineAnswered, QueuePages
      <4> QED
          BY <1>1, <4>1, <4>2 DEF QueuePages
    <3>2. CASE LoadFailed(r)
      <4>1. CASE page' = [page EXCEPT !.requests = @ \ {r}, !.error = "failed"]
          BY <1>1, <4>1 DEF QueuePages
      <4>2. CASE page' = [page EXCEPT !.requests = @ \ {r}]
          BY <1>1, <4>2 DEF QueuePages
      <4> QED
          BY <3>2, <4>1, <4>2 DEF LoadFailed
    <3>3. CASE ReleaseAllAnswered(r)
      <4>1. LoadMine(FALSE) \in Requests
          BY <1>1, NewRequests
      <4>2. CASE page' = [page EXCEPT !.requests = @ \ {r}]
          BY ONLY <1>1, <4>2 DEF QueuePages
      <4>3. CASE page' = [page EXCEPT !.requests = (@ \ {r}) \cup {LoadMine(FALSE)}]
          BY ONLY <1>1, <4>1, <4>3 DEF QueuePages
      <4> QED
          BY ONLY <3>3, <4>2, <4>3 DEF ReleaseAllAnswered
    <3> QED
        BY <1>5, <3>1, <3>2, <3>3
  <2>2. page'.open = page.open /\ page'.busy = page.busy /\ page'.toggle = page.toggle
      BY <1>1, <1>5 DEF MineAnswered, LoadFailed, ReleaseAllAnswered, QueuePages
  <2> QED
      BY <1>3, <2>1, <2>2, StillBusy DEF QueueInv
<1> QED
    BY <1>4, <1>5

\* What sends no change: it polls, opens or closes a dialog, declines.
LEMMA QuietStep ==
    ASSUME QueueInv, page.open,
           \/ Poll \/ WellbeingRefreshed \/ CloseDialog
           \/ \E c \in Cases : AskToTake(c) \/ Decline(c) \/ AskToOffer(c) \/ KeepAsItIs(c)
    PROVE  page' \in QueuePages /\ NothingStaysBusy'
<1>1. page \in QueuePages /\ limit \in BOOLEAN /\ QueueTypeOK
    BY DEF QueueInv, QueueTypeOK, QueuePages
<1>2. CASE Poll \/ WellbeingRefreshed \/ CloseDialog
  <2>1. PICK at \in BOOLEAN, new \in SUBSET Requests, c \in Cases \cup {NULL} :
            page' = [page EXCEPT !.atExposureLimit = at, !.requests = page.requests \cup new, !.confirming = c]
    <3>1. CASE Poll
      <4>1. LoadRows(FALSE) \in Requests
          BY <1>1, NewRequests
      <4>2. page' = [page EXCEPT !.atExposureLimit = page.atExposureLimit,
                                 !.requests = page.requests \cup {LoadRows(FALSE)}, !.confirming = page.confirming]
          BY <1>1, <3>1 DEF Poll, QueuePages
      <4> QED
          BY <1>1, <4>1, <4>2 DEF QueuePages
    <3>2. CASE WellbeingRefreshed
      <4> DEFINE n == [kind |-> "releaseAll", answer |-> NULL]
      <4>1. n \in Requests
          BY <1>1, NewRequests
      <4>2. page' = [page EXCEPT !.atExposureLimit = limit, !.requests = page.requests \cup {n},
                                 !.confirming = page.confirming]
          BY <1>1, <3>2 DEF WellbeingRefreshed, QueuePages
      <4> HIDE DEF n
      <4> QED
          BY <1>1, <4>1, <4>2 DEF QueuePages
    <3>3. CASE CloseDialog
      <4>1. page' = [page EXCEPT !.atExposureLimit = page.atExposureLimit, !.requests = page.requests \cup {},
                                 !.confirming = NULL]
          BY <1>1, <3>3 DEF CloseDialog, QueuePages
      <4> QED
          BY <1>1, <4>1 DEF QueuePages
    <3> QED
        BY <1>2, <3>1, <3>2, <3>3
  <2>2. page' \in QueuePages
      BY <1>1, <2>1 DEF QueuePages
  <2>3. page'.busy = page.busy /\ page'.toggle = page.toggle /\ page.requests \subseteq page'.requests
      BY <1>1, <2>1 DEF QueuePages
  <2> QED
      BY <2>2, <2>3, StillBusy DEF QueueInv, Continue
<1>3. CASE \E c \in Cases : AskToTake(c) \/ Decline(c)
  <2>1. page' \in QueuePages
      BY <1>1, <1>3 DEF AskToTake, Decline, QueuePages
  <2>2. page'.busy = page.busy /\ page'.toggle = page.toggle /\ page.requests = page'.requests
      BY <1>1, <1>3 DEF AskToTake, Decline, QueuePages
  <2> QED
      BY <2>1, <2>2, StillBusy DEF QueueInv, Continue
<1>4. CASE \E c \in Cases : AskToOffer(c) \/ KeepAsItIs(c)
  <2>1. PICK c \in Cases, s \in {"ready", "confirming"} :
            page' = [page EXCEPT !.toggle = [page.toggle EXCEPT ![c] = s]]
      BY <1>1, <1>4 DEF AskToOffer, KeepAsItIs, QueuePages
  <2>2. page' \in QueuePages
      BY <1>1, <2>1 DEF QueuePages
  <2>3. /\ page'.busy = page.busy /\ page.requests = page'.requests
        /\ \A d \in Cases : page'.toggle[d] = "busy" => page.toggle[d] = "busy"
      BY <1>1, <2>1 DEF QueuePages
  <2> QED
      BY <2>2, <2>3, StillBusy DEF QueueInv, Continue
<1> QED
    BY <1>2, <1>3, <1>4

\* A change is sent: what it is about is busy until the answer.
LEMMA SendStep ==
    ASSUME QueueInv, page.open, \/ Take \/ \E c \in Cases : Claim(c) \/ TurnOn(c) \/ TurnOff(c)
    PROVE  page' \in QueuePages /\ NothingStaysBusy' /\ acts' \in 0..MaxActs
<1>1. page \in QueuePages /\ QueueTypeOK /\ acts \in 0..MaxActs
    BY DEF QueueInv, QueueTypeOK, QueuePages
<1>2. acts' \in 0..MaxActs
  <2>1. Acts
      BY DEF Take, Claim, TurnOn, TurnOff
  <2> QED
      BY ONLY <1>1, <2>1, ActsAssumption DEF Acts
<1>3. CASE Take \/ \E c \in Cases : Claim(c)
  <2>1. PICK c \in Cases, k \in {"take", "claim"} :
            page' = [page EXCEPT !.busy = c, !.notice = FALSE, !.error = NULL,
                                 !.requests = page.requests \cup {Asked(k, c)}]
    <3>1. CASE Take
      <4>1. page.confirming \in Cases
          BY <1>1, <3>1 DEF Take, QueuePages
      <4> QED
          BY <1>1, <3>1, <4>1 DEF Take, QueuePages
    <3>2. CASE \E c \in Cases : Claim(c)
        BY <1>1, <3>2 DEF Claim, QueuePages
    <3> QED
        BY <1>3, <3>1, <3>2
  <2>2. Asked(k, c) \in Requests /\ Asked(k, c).kind = k /\ Asked(k, c).case = c
      BY <1>1, NewRequests DEF Changes
  <2>3. /\ page' \in QueuePages /\ page'.busy = c /\ page'.toggle = page.toggle
        /\ page'.requests = page.requests \cup {Asked(k, c)}
      BY <1>1, <2>1, <2>2 DEF QueuePages
  <2> QED
      BY <1>2, <2>2, <2>3 DEF QueueInv, NothingStaysBusy
<1>4. CASE \E c \in Cases : TurnOn(c) \/ TurnOff(c)
  <2>1. PICK c \in Cases, k \in {"offer", "withdraw"} :
            page' = [page EXCEPT !.toggle = [page.toggle EXCEPT ![c] = "busy"],
                                 !.requests = page.requests \cup {Asked(k, c)}]
      BY <1>1, <1>4 DEF TurnOn, TurnOff, QueuePages
  <2>2. Asked(k, c) \in Requests /\ Asked(k, c).kind = k /\ Asked(k, c).case = c
      BY <1>1, NewRequests DEF Changes
  <2>3. /\ page' \in QueuePages /\ page'.busy = page.busy
        /\ \A d \in Cases : page'.toggle[d] = "busy" => d = c \/ page.toggle[d] = "busy"
        /\ page'.requests = page.requests \cup {Asked(k, c)}
      BY <1>1, <2>1, <2>2 DEF QueuePages
  <2> QED
      BY <1>2, <2>2, <2>3 DEF QueueInv, NothingStaysBusy
<1> QED
    BY <1>3, <1>4

\* The answer to a change, or its failure: what it was about is busy no more.
LEMMA ChangeStep ==
    ASSUME QueueInv, NEW r \in page.requests, page.open, Taken(r) \/ NotTaken(r) \/ Switched(r)
    PROVE  page' \in QueuePages /\ NothingStaysBusy'
<1>1. page \in QueuePages /\ r \in Requests /\ QueueTypeOK
    BY DEF QueueInv, QueueTypeOK, QueuePages
<1>2. ReloadAfterCaseChange \in SUBSET Requests /\ \A b \in BOOLEAN : {LoadRows(b)} \in SUBSET Requests
    BY <1>1, NewRequests DEF ReloadAfterCaseChange
<1>3. CASE Taken(r) \/ NotTaken(r)
  <2>1. PICK e \in {NULL, "refused", "failed"}, n \in BOOLEAN, new \in SUBSET Requests :
            page' = [page EXCEPT !.busy = NULL, !.confirming = NULL, !.error = e, !.notice = n,
                                 !.requests = (page.requests \ {r}) \cup new]
    <3>1. CASE Taken(r)
      <4>1. page' = [page EXCEPT !.busy = NULL, !.confirming = NULL, !.error = page.error, !.notice = TRUE,
                                 !.requests = (page.requests \ {r}) \cup ReloadAfterCaseChange]
          BY <1>1, <3>1 DEF Taken, QueuePages
      <4> QED
          BY <1>1, <1>2, <4>1 DEF QueuePages
    <3>2. CASE NotTaken(r)
      <4> DEFINE again == IF r.kind = "claim" THEN {LoadRows(FALSE)} ELSE {}
      <4>1. again \in SUBSET Requests
          BY <1>2
      <4>2. PICK why \in {"refused", "failed"} :
                page' = [page EXCEPT !.busy = NULL, !.confirming = NULL, !.error = why,
                                     !.requests = (@ \ {r}) \cup again]
          BY <3>2 DEF NotTaken
      <4> HIDE DEF again
      <4>3. page' = [page EXCEPT !.busy = NULL, !.confirming = NULL, !.error = why, !.notice = page.notice,
                                 !.requests = (page.requests \ {r}) \cup again]
          BY <1>1, <4>2 DEF QueuePages
      <4> QED
          BY <1>1, <4>1, <4>3 DEF QueuePages
    <3> QED
        BY <1>3, <3>1, <3>2
  <2>2. /\ page' \in QueuePages /\ page'.busy = NULL /\ page'.toggle = page.toggle
        /\ page'.requests = (page.requests \ {r}) \cup new
      BY <1>1, <2>1 DEF QueuePages
  <2>3. r.kind \in {"take", "claim"}
      BY <1>3 DEF Taken, NotTaken
  <2> QED
      BY <2>2, <2>3 DEF QueueInv, NothingStaysBusy
<1>4. CASE Switched(r)
  <2>1. PICK e \in {NULL, "refused", "failed"}, n \in BOOLEAN, new \in SUBSET Requests :
            page' = [page EXCEPT !.toggle = [page.toggle EXCEPT ![r.case] = "ready"], !.error = e, !.notice = n,
                                 !.requests = (page.requests \ {r}) \cup new]
    <3>1. CASE page' = [page EXCEPT !.toggle[r.case] = "ready", !.notice = TRUE, !.error = NULL,
                                    !.requests = (@ \ {r}) \cup ReloadAfterCaseChange]
        BY <1>1, <1>2, <3>1 DEF QueuePages
    <3>2. ASSUME NEW why \in {"refused", "failed"},
                 page' = [page EXCEPT !.toggle[r.case] = "ready", !.notice = FALSE, !.error = why,
                                      !.requests = (@ \ {r}) \cup {LoadRows(TRUE)}]
          PROVE  \E e \in {NULL, "refused", "failed"}, n \in BOOLEAN, new \in SUBSET Requests :
                   page' = [page EXCEPT !.toggle = [page.toggle EXCEPT ![r.case] = "ready"], !.error = e,
                                        !.notice = n, !.requests = (page.requests \ {r}) \cup new]
        BY <1>1, <1>2, <3>2 DEF QueuePages
    <3> QED
        BY <1>4, <3>1, <3>2 DEF Switched
  <2>2. r.kind \in {"offer", "withdraw"} /\ r.case \in Cases
      BY <1>1, <1>4, ChangeRequests DEF Switched, Changes
  <2>3. /\ page' \in QueuePages /\ page'.busy = page.busy /\ page'.open = page.open
        /\ page'.toggle[r.case] = "ready" /\ \A c \in Cases \ {r.case} : page'.toggle[c] = page.toggle[c]
        /\ page'.requests = (page.requests \ {r}) \cup new
      BY <1>1, <2>1, <2>2 DEF QueuePages
  <2> QED
      BY <2>2, <2>3 DEF QueueInv, NothingStaysBusy
<1> QED
    BY <1>3, <1>4

LEMMA QueueStep == ASSUME QueueInv, QueueNext PROVE QueueInv'
<1>1. QueueTypeOK /\ page \in QueuePages
    BY DEF QueueInv, QueueTypeOK, QueuePages
<1>2. CASE ReachLimit
    BY <1>2 DEF ReachLimit, QueueInv, QueueTypeOK, NothingStaysBusy
<1>3. CASE \E c \in Cases : MovesElsewhere(c)
  <2>1. acts' \in 0..MaxActs
      BY <1>1, <1>3, ActsAssumption DEF MovesElsewhere, Acts, QueueTypeOK
  <2>2. place' \in [Cases -> Places] /\ UNCHANGED <<limit, isSuperAdmin, page>>
      BY <1>1, <1>3 DEF MovesElsewhere, QueueTypeOK
  <2> QED
      BY <2>1, <2>2 DEF QueueInv, QueueTypeOK, NothingStaysBusy
<1>4. CASE \E r \in page.requests : Serve(r) \/ ServeReleaseAll(r)
    BY <1>4, ServeStep
<1>5. CASE OnPage
  <2>1. page.open /\ UNCHANGED <<place, limit, isSuperAdmin>>
      BY <1>5 DEF OnPage
  <2>2. page' \in QueuePages /\ NothingStaysBusy' /\ acts' \in 0..MaxActs
    <3>1. CASE Take \/ \E c \in Cases : Claim(c) \/ TurnOn(c) \/ TurnOff(c)
        BY <2>1, <3>1, SendStep
    <3>2. CASE /\ acts' = acts
               /\ \/ Poll \/ WellbeingRefreshed \/ CloseDialog
                  \/ \E c \in Cases : AskToTake(c) \/ Decline(c) \/ AskToOffer(c) \/ KeepAsItIs(c)
        BY <1>1, <2>1, <3>2, QuietStep DEF QueueTypeOK
    <3>3. ASSUME acts' = acts, NEW r \in page.requests, Answered(r) \/ LoadFailed(r)
          PROVE  page' \in QueuePages /\ NothingStaysBusy' /\ acts' \in 0..MaxActs
        BY <1>1, <2>1, <3>3, ListStep, ChangeStep DEF Answered, QueueTypeOK
    <3>4. ASSUME acts' = acts, NEW r \in page.requests, SessionExpired(r)
          PROVE  page' \in QueuePages /\ NothingStaysBusy' /\ acts' \in 0..MaxActs
      <4>1. page' \in QueuePages /\ ~page'.open
          BY <1>1, <3>4 DEF SessionExpired, QueuePages
      <4> QED
          BY <1>1, <3>4, <4>1 DEF NothingStaysBusy, QueueTypeOK
    <3> QED
        BY <1>5, <3>1, <3>2, <3>3, <3>4 DEF OnPage
  <2> QED
      BY <1>1, <2>1, <2>2 DEF QueueInv, QueueTypeOK, QueuePages
<1> QED
    BY <1>2, <1>3, <1>4, <1>5 DEF QueueNext

LEMMA QueueIdle == ASSUME QueueInv, UNCHANGED queueVars PROVE QueueInv'
    BY DEF QueueInv, queueVars, QueueTypeOK, NothingStaysBusy

(***************************************************************************)
(* The pages together.                                                     *)
(***************************************************************************)
PagesInv == ReportInv /\ ReleaseInv /\ ChatInv /\ ReporterInv /\ ReporterTyped /\ OverviewTypeOK /\ QueueInv

\* What the pages promise of a state.
PagesPromise == AnswersFollowQuestions /\ ConfirmsItsOwnReport /\ NothingIsAwaitedInVain /\ PagesTypeOK

LEMMA PagesStart == Init => PagesInv
    BY ReportStarts, ReleaseStarts, ChatStarts, ReporterStarts, ReporterTypesStart, OverviewStarts, QueueStarts
    DEF Init, PagesInv

LEMMA PagesStep == ASSUME PagesInv, [Next]_pagesVars PROVE PagesInv' /\ NewerDataOnly
<1>1. ReportNext \/ UNCHANGED reportVars
    BY DEF Next, pagesVars
<1>2. ChatNext \/ UNCHANGED chatVars
    BY DEF Next, pagesVars
<1>3. ReporterNext \/ UNCHANGED reporterVars
    BY DEF Next, pagesVars
<1>4. OverviewNext \/ UNCHANGED overviewVars
    BY DEF Next, pagesVars
<1>5. QueueNext \/ UNCHANGED queueVars
    BY DEF Next, pagesVars
<1>6. ReportInv' /\ ReleaseInv' /\ NewerDataOnly
    BY <1>1, ReportStep, ReportIdle, ReleaseStep, ReleaseIdle DEF PagesInv
<1>7. ChatInv'
    BY <1>2, ChatStep, ChatIdle DEF PagesInv
<1>8. ReporterInv' /\ ReporterTyped'
    BY <1>3, ReporterStep, ReporterIdle, ReporterTypesStep, ReporterTypesIdle DEF PagesInv, reporterVars
<1>9. OverviewTypeOK' /\ QueueInv'
    BY <1>4, <1>5, OverviewStep, OverviewIdle, QueueStep, QueueIdle DEF PagesInv
<1> QED
    BY <1>6, <1>7, <1>8, <1>9 DEF PagesInv

LEMMA PagesKeepThePromise == PagesInv => PagesPromise
<1> SUFFICES ASSUME PagesInv PROVE PagesPromise
    OBVIOUS
<1>1. AnswersFollowQuestions /\ ConfirmsItsOwnReport
    BY ChatShows, ReporterShows DEF PagesInv
<1>2. NothingIsAwaitedInVain
    BY DEF PagesInv, QueueInv, ReleaseInv, ChatInv, NothingIsAwaitedInVain
<1>3. PagesTypeOK
    BY ReportIsTyped, ChatIsTyped DEF PagesInv, QueueInv, ReporterTyped, PagesTypeOK
<1> QED
    BY <1>1, <1>2, <1>3 DEF PagesPromise

\* What the pages of the frontend have on screen is their own and no older than what
\* they had: useStaffQuery hears only its latest load, useBuddyConversation drops the
\* answers of a cleared conversation, and a confirmation keeps the Case ID it was
\* opened with. And what they wait for is under way: a row, a switch or a dialog that
\* is busy, and an AI Buddy that is thinking, has a request in flight.
THEOREM ShowTheirOwn == Spec => PagesShowTheirOwn
<1>1. Init => PagesInv
    BY PagesStart
<1>2. PagesInv /\ [Next]_pagesVars => PagesInv' /\ [NewerDataOnly /\ PagesPromise']_pagesVars
  <2> SUFFICES ASSUME PagesInv, [Next]_pagesVars
               PROVE  PagesInv' /\ NewerDataOnly /\ PagesPromise'
      OBVIOUS
  <2>1. PagesInv' /\ NewerDataOnly
      BY PagesStep
  <2>2. PagesPromise'
      BY <2>1, PagesKeepThePromise, PTL
  <2> QED
      BY <2>1, <2>2
<1> QED
    BY <1>1, <1>2, PTL DEF Spec, PagesShowTheirOwn, PagesPromise
=============================================================================
