----------------------------- MODULE ReportPage ----------------------------
(***************************************************************************)
(* The report preview of a Manager (ManagerReportDetailPage): the page     *)
(* loads a draft with useStaffQuery, lets the Manager write a note, saves  *)
(* it, and releases the report after saving what is not saved yet.         *)
(*                                                                         *)
(* Meanwhile another Manager may write a note or generate the draft anew.  *)
(* A load is answered with what the server had when it answered, and       *)
(* useStaffQuery hears only the answer of its latest load; a save and a    *)
(* release are carried out at one moment and answered at another, and      *)
(* either can fail on the way.                                             *)
(***************************************************************************)
EXTENDS Naturals

CONSTANTS
    Notes,          \* what a note can say
    NoNote,
    Nothing,        \* no report loaded, no request in flight
    MaxRevision     \* bound: how often the report changes on the server

ASSUME NoNoteAssumption == NoNote \in Notes
ASSUME RevisionAssumption == MaxRevision \in Nat

VARIABLES
    report,         \* the server's report
    data,           \* what the page loaded
    loads,          \* the loads in flight
    note,           \* the note on screen
    noteSaved,
    saves,          \* the requests of saveNote, and of release when it saves first
    release,        \* the release dialog
    releaseReply    \* the request of releaseReport

reportVars == <<report, data, loads, note, noteSaved, saves, release, releaseReply>>

\* revision counts the changes of the report on the server; figures those that
\* generated it anew.
Report == [note : Notes, figures : 0..MaxRevision, status : {"DRAFT", "RELEASED"}, revision : 0..MaxRevision]

Sent == [answer |-> Nothing, cancelled |-> FALSE]

ReportTypeOK ==
    /\ report \in Report
    /\ data \in Report \cup {Nothing}
    /\ loads \subseteq [answer : Report \cup {Nothing}, cancelled : BOOLEAN]
    /\ note \in Notes
    /\ noteSaved \in BOOLEAN
    /\ saves \subseteq [note : Notes, answer : {"none", "done", "refused"}, releasing : BOOLEAN]
    /\ release \in {"closed", "open", "saving", "releasing"}
    /\ releaseReply \in {"none", "sent", "done"}

ReportInit ==
    /\ report = [note |-> NoNote, figures |-> 0, status |-> "DRAFT", revision |-> 0]
    /\ data = Nothing
    /\ loads = {Sent}
    /\ note = NoNote
    /\ noteSaved = TRUE
    /\ saves = {}
    /\ release = "closed"
    /\ releaseReply = "none"

Draft == data # Nothing /\ data.status = "DRAFT"

------------------------------------------------------------------------------
(* The server.                                                             *)

Change(new) ==
    /\ report.revision < MaxRevision
    /\ report' = [new EXCEPT !.revision = report.revision + 1]

\* Another Manager generates the draft again: its note stays.
Regenerate ==
    /\ report.status = "DRAFT"
    /\ Change([report EXCEPT !.figures = @ + 1])
    /\ UNCHANGED <<data, loads, note, noteSaved, saves, release, releaseReply>>

\* Another Manager writes a note.
NoteElsewhere ==
    /\ report.status = "DRAFT"
    /\ \E n \in Notes \ {report.note} : Change([report EXCEPT !.note = n])
    /\ UNCHANGED <<data, loads, note, noteSaved, saves, release, releaseReply>>

ServeLoad ==
    \E l \in loads :
      /\ l.answer = Nothing
      /\ loads' = (loads \ {l}) \cup {[l EXCEPT !.answer = report]}
      /\ UNCHANGED <<report, data, note, noteSaved, saves, release, releaseReply>>

\* updateReportNote: a released report cannot be edited.
ServeSave ==
    \E s \in saves :
      /\ s.answer = "none"
      /\ \/ /\ report.status = "DRAFT"
            /\ Change([report EXCEPT !.note = s.note])
            /\ saves' = (saves \ {s}) \cup {[s EXCEPT !.answer = "done"]}
         \/ /\ report.status = "RELEASED"
            /\ saves' = (saves \ {s}) \cup {[s EXCEPT !.answer = "refused"]}
            /\ report' = report
      /\ UNCHANGED <<data, loads, note, noteSaved, release, releaseReply>>

\* releaseReport: once, and as the draft is on the server.
ServeRelease ==
    /\ releaseReply = "sent"
    /\ IF report.status = "DRAFT"
       THEN Change([report EXCEPT !.status = "RELEASED"])
       ELSE report' = report
    /\ releaseReply' = "done"
    /\ UNCHANGED <<data, loads, note, noteSaved, saves, release>>

------------------------------------------------------------------------------
(* useStaffQuery.                                                          *)

\* Mutant: the effect of useStaffQuery returns no clean-up.
StillHeard(l) == l

\* What a newer load makes of one in flight: its answer will not be heard.
Cancelled(l) == [l EXCEPT !.cancelled = TRUE]

Reload == loads' = {Cancelled(l) : l \in loads} \cup {Sent}

\* What the page loaded is on screen, with its note.
LoadAnswered ==
    \E l \in loads :
      /\ l.answer # Nothing /\ ~l.cancelled
      /\ data' = l.answer
      /\ note' = l.answer.note
      /\ noteSaved' = TRUE
      /\ loads' = loads \ {l}
      /\ UNCHANGED <<report, saves, release, releaseReply>>

\* The answer of a load is lost, or not heard.
LoadLost ==
    \E l \in loads :
      /\ loads' = loads \ {l}
      /\ UNCHANGED <<report, data, note, noteSaved, saves, release, releaseReply>>

\* The query loads again, as after signing in again on the page.
LoadAgain ==
    /\ Reload
    /\ UNCHANGED <<report, data, note, noteSaved, saves, release, releaseReply>>

------------------------------------------------------------------------------
(* The note.                                                               *)

TypeNote ==
    /\ Draft
    /\ release = "closed"
    /\ \E n \in Notes \ {note} : note' = n
    /\ noteSaved' = FALSE
    /\ UNCHANGED <<report, data, loads, saves, release, releaseReply>>

Saving == {s \in saves : ~s.releasing}          \* savingNote

SaveNote ==
    /\ Draft
    /\ ~noteSaved /\ Saving = {} /\ release = "closed"
    /\ saves' = saves \cup {[note |-> note, answer |-> "none", releasing |-> FALSE]}
    /\ UNCHANGED <<report, data, loads, note, noteSaved, release, releaseReply>>

\* Whatever was typed meanwhile counts as saved, and the reload replaces it.
NoteIsSaved ==
    \E s \in Saving :
      /\ s.answer = "done"
      /\ saves' = saves \ {s}
      /\ noteSaved' = TRUE
      /\ Reload
      /\ UNCHANGED <<report, data, note, release, releaseReply>>

NoteIsNotSaved ==
    \E s \in Saving :
      /\ saves' = saves \ {s}
      /\ UNCHANGED <<report, data, loads, note, noteSaved, release, releaseReply>>

------------------------------------------------------------------------------
(* Approve and release.                                                    *)

Approve ==
    /\ Draft
    /\ release = "closed"
    /\ release' = "open"
    /\ UNCHANGED <<report, data, loads, note, noteSaved, saves, releaseReply>>

Cancel ==
    /\ release = "open"
    /\ release' = "closed"
    /\ UNCHANGED <<report, data, loads, note, noteSaved, saves, releaseReply>>

\* The note is sent first only when it is not saved.
Release ==
    /\ release = "open"
    /\ IF noteSaved
       THEN release' = "releasing" /\ releaseReply' = "sent" /\ saves' = saves
       ELSE /\ release' = "saving"
            /\ saves' = saves \cup {[note |-> note, answer |-> "none", releasing |-> TRUE]}
            /\ releaseReply' = releaseReply
    /\ UNCHANGED <<report, data, loads, note, noteSaved>>

SavedToRelease ==
    \E s \in saves \ Saving :
      /\ s.answer = "done"
      /\ saves' = saves \ {s}
      /\ release' = "releasing"
      /\ releaseReply' = "sent"
      /\ UNCHANGED <<report, data, loads, note, noteSaved>>

Released ==
    /\ releaseReply = "done"
    /\ releaseReply' = "none"
    /\ release' = "closed"
    /\ Reload
    /\ UNCHANGED <<report, data, note, noteSaved, saves>>

\* Either request fails, or its answer is lost.
NotReleased ==
    /\ release \in {"saving", "releasing"}
    /\ release' = "closed"
    /\ releaseReply' = "none"
    /\ saves' = Saving
    /\ UNCHANGED <<report, data, loads, note, noteSaved>>

------------------------------------------------------------------------------

ReportNext ==
    \/ Regenerate \/ NoteElsewhere \/ ServeLoad \/ ServeSave \/ ServeRelease
    \/ LoadAnswered \/ LoadLost \/ LoadAgain
    \/ TypeNote \/ SaveNote \/ NoteIsSaved \/ NoteIsNotSaved
    \/ Approve \/ Cancel \/ Release \/ SavedToRelease \/ Released \/ NotReleased

\* What the page shows is never replaced by an older state of the report: the
\* answer of a load that a newer one has replaced is not heard.
NewerDataOnly == data # Nothing => data'.revision >= data.revision

\* The dialog waits for a save or a release only while there is one.
ReleaseIsUnderWay ==
    /\ release = "saving" => saves \ Saving # {}
    /\ release = "releasing" <=> releaseReply # "none"

\* "This is exactly what the Client will see" (above the preview): the Manager
\* has on screen what is released. A save that is answered while the Manager
\* types on counts what was typed as saved, another Manager may have written a
\* note, and the draft may have been generated again since it was loaded.
ReleasedIsWhatWasReviewed ==
    [][report.status = "DRAFT" /\ report'.status = "RELEASED"
         => report.note = note /\ report.figures = data.figures]_reportVars
=============================================================================
