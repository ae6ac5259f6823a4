---------------------------- MODULE HistoryPages ----------------------------
(***************************************************************************)
(* What has been recorded, read page by page from the server: the audit    *)
(* history of all cases (ManagerAuditHistoryPage.tsx), and the AI's calls, *)
(* the compared cases and the timeline of one case                         *)
(* (ManagerValidationPage.tsx), while more is being recorded.              *)
(*                                                                         *)
(* The events and the calls are asked for by a cursor, the compared cases  *)
(* by an offset.  The history page drops what it shows when it asks for    *)
(* something else; the validation page keeps it until the answer comes.    *)
(***************************************************************************)
EXTENDS Integers, FiniteSets

CONSTANTS
    Entries,        \* what may be recorded: a greater number is later
    CaseOf, ActionOf, OrgOf,    \* of each entry
    Limit,          \* the most a page of events or calls holds
    Window,         \* the most compared cases an answer holds
    NoAnswer

VARIABLES
    view,           \* the page
    written,        \* how much has been recorded
    fields,         \* the form's fields
    query,          \* what was asked for
    org,            \* the Client chosen in the selector
    phase,          \* of the load in flight
    fetched,        \* an answer on its way
    shown,          \* the answer shown
    failed,
    opened,         \* the case whose timeline is open, its cursor, and what is shown
    seen            \* the entries shown since the latest ones were, and the newest compared then

historyVars == <<view, written, fields, query, org, phase, fetched, shown, failed, opened, seen>>

Cases == {CaseOf[e] : e \in Entries}
Actions == {ActionOf[e] : e \in Entries}
Orgs == {OrgOf[e] : e \in Entries}
Any == ""
AllOrgs == "ALL"

NoFields == [case |-> Any, action |-> Any]
FromTheLatest == [case |-> Any, action |-> Any, before |-> 0, offset |-> 0]
NoCaseOpen == [case |-> Any, before |-> 0, asked |-> FALSE, entries |-> {}]
NothingSeen == [events |-> {}, compared |-> {}, newest |-> 0]

HistoryInit ==
    /\ view \in {"history", "validation"}
    /\ written \in {0} \cup Entries
    /\ \E c \in {Any} \cup Cases :
         /\ fields = [NoFields EXCEPT !.case = IF view = "history" THEN c ELSE Any]
         /\ query = [FromTheLatest EXCEPT !.case = IF view = "history" THEN c ELSE Any]
    /\ org = AllOrgs
    /\ phase = "asked" /\ fetched = NoAnswer /\ shown = NoAnswer /\ failed = FALSE
    /\ opened = NoCaseOpen
    /\ seen = NothingSeen

Record ==
    /\ written + 1 \in Entries
    /\ written' = written + 1
    /\ UNCHANGED <<view, fields, query, org, phase, fetched, shown, failed, opened, seen>>

------------------------------------------------------------------------------
(* The server.                                                             *)

Lowest(S) == CHOOSE e \in S : \A f \in S : e <= f
Highest(S) == CHOOSE e \in S : \A f \in S : f <= e

Newest(S, k) == {e \in S : Cardinality({f \in S : f > e}) < k}

OfOrg(e) == view = "validation" => org \in {AllOrgs, OrgOf[e]}

Matches(e, q) == e <= written /\ q.case \in {Any, CaseOf[e]} /\ q.action \in {Any, ActionOf[e]} /\ OfOrg(e)

\* Cursors are the ids of entries, so what is recorded meanwhile moves nothing.
Events(q) == Newest({e \in Entries : Matches(e, q) /\ (q.before = 0 \/ e < q.before)}, Limit)

More(q) == {e \in Entries : Matches(e, q) /\ (q.before = 0 \/ e < q.before)} \ Events(q)

\* Mutant: the cursor is the first entry that is left out, which the next page leaves out too.
NextLeftOut(q) == IF More(q) = {} THEN 0 ELSE CHOOSE e \in More(q) : \A f \in More(q) : f <= e

NextBefore(q) == IF More(q) = {} THEN 0 ELSE Lowest(Events(q))

\* The cases decided, the latest first.  (No filter of the calls but the case and the
\* Client applies.)
Decided(q) == {e \in Entries : Matches(e, [q EXCEPT !.action = Any]) /\ ActionOf[e] = "CASE_RESOLVED"}

Compared(q) == Newest(Decided(q), q.offset + Window) \ Newest(Decided(q), q.offset)

NextOffset(q) == IF Cardinality(Decided(q)) > q.offset + Window THEN q.offset + Window ELSE 0

\* Of the calls the action is not asked: it is for the timelines only.
Asked(q) == IF view = "validation" THEN [q EXCEPT !.action = Any] ELSE q

AnswerTo(q) ==
    [to |-> q, events |-> Events(Asked(q)), next |-> NextBefore(Asked(q)),
     compared |-> IF view = "validation" THEN Compared(q) ELSE {},
     nextOffset |-> IF view = "validation" THEN NextOffset(q) ELSE 0]

ServeAnswer ==
    /\ phase = "asked"
    /\ fetched' = AnswerTo(query)
    /\ phase' = "served"
    /\ UNCHANGED <<view, written, fields, query, org, shown, failed, opened, seen>>

------------------------------------------------------------------------------
(* Asking.                                                                 *)

Loading == phase # "none"

\* Mutant: what was shown stays until the answer comes.
AskKeeping(q) ==
    /\ query' = q
    /\ phase' = "asked" /\ fetched' = NoAnswer
    /\ seen' = NothingSeen
    /\ UNCHANGED <<view, written, org, opened, shown, failed>>

\* The answer to an earlier question is not heard any more.
Ask(q) ==
    /\ query' = q
    /\ phase' = "asked" /\ fetched' = NoAnswer
    /\ IF view = "history" THEN shown' = NoAnswer /\ failed' = FALSE ELSE UNCHANGED <<shown, failed>>
    /\ seen' = [events |-> IF q.before = 0 \/ [q EXCEPT !.before = 0] # [query EXCEPT !.before = 0]
                           THEN {} ELSE seen.events,
                compared |-> IF q.offset = 0 \/ q.case # query.case THEN {} ELSE seen.compared,
                newest |-> seen.newest]
    /\ UNCHANGED <<view, written, org, opened>>

Show ==
    /\ phase = "served"
    /\ shown' = fetched /\ failed' = FALSE
    /\ phase' = "none" /\ fetched' = NoAnswer
    /\ seen' = [events |-> seen.events \cup fetched.events, compared |-> seen.compared \cup fetched.compared,
                newest |-> IF seen.compared = {} /\ fetched.compared # {}
                           THEN Highest(fetched.compared) ELSE seen.newest]
    /\ UNCHANGED <<view, written, fields, query, org, opened>>

ShowHistory == view = "history" /\ Show
ShowCalls == view = "validation" /\ Show

AnswerFails ==
    /\ Loading
    /\ failed' = TRUE
    /\ phase' = "none" /\ fetched' = NoAnswer
    /\ UNCHANGED <<view, written, fields, query, org, shown, opened, seen>>

FillIn ==
    /\ \/ \E c \in ({Any} \cup Cases) \ {fields.case} : fields' = [fields EXCEPT !.case = c]
       \/ \E a \in ({Any} \cup Actions) \ {fields.action} : fields' = [fields EXCEPT !.action = a]
    /\ UNCHANGED <<view, written, query, org, phase, fetched, shown, failed, opened, seen>>

\* "Show audit history" waits for the load in flight; "Apply filters" does not.  Both
\* start from the latest.
Submit ==
    /\ view = "history" => ~Loading
    /\ Ask([FromTheLatest EXCEPT !.case = fields.case, !.action = fields.action])
    /\ UNCHANGED fields

ClearFilters ==
    /\ view = "validation"
    /\ fields' = NoFields
    /\ Ask(FromTheLatest)

\* The chips above the history, which take one filter away.
DropFilter ==
    /\ view = "history" /\ shown # NoAnswer
    /\ \/ /\ query.case # Any
          /\ fields' = [fields EXCEPT !.case = Any]
          /\ Ask([query EXCEPT !.case = Any, !.before = 0])
       \/ /\ query.action # Any
          /\ fields' = [fields EXCEPT !.action = Any]
          /\ Ask([query EXCEPT !.action = Any, !.before = 0])

Older ==
    /\ shown # NoAnswer /\ shown.next # 0 /\ (view = "history" => ~Loading)
    /\ Ask([query EXCEPT !.before = shown.next])
    /\ UNCHANGED fields

Latest ==
    /\ query.before # 0 /\ (view = "history" => shown # NoAnswer /\ ~Loading)
    /\ Ask([query EXCEPT !.before = 0])
    /\ UNCHANGED fields

OlderComparisons ==
    /\ view = "validation" /\ shown # NoAnswer /\ shown.nextOffset # 0
    /\ Ask([query EXCEPT !.offset = shown.nextOffset])
    /\ UNCHANGED fields

NewestComparisons ==
    /\ view = "validation" /\ query.offset # 0
    /\ Ask([query EXCEPT !.offset = 0])
    /\ UNCHANGED fields

\* Another Client is chosen: the cursors stay as they are.
ChooseOrg ==
    /\ view = "validation"
    /\ \E o \in (Orgs \cup {AllOrgs}) \ {org} : org' = o
    /\ phase' = "asked" /\ fetched' = NoAnswer
    /\ seen' = NothingSeen
    /\ UNCHANGED <<view, written, fields, query, shown, failed, opened>>

------------------------------------------------------------------------------
(* The timeline of one case, in a dialog over the calls.                   *)

SetOpened(o) ==
    /\ opened' = o
    /\ UNCHANGED <<view, written, fields, query, org, phase, fetched, shown, failed, seen>>

\* The cursor and what is shown are those of the case opened before.
OpenCaseHistory ==
    /\ view = "validation" /\ shown # NoAnswer /\ opened.case = Any
    /\ \E e \in shown.events : SetOpened([opened EXCEPT !.case = CaseOf[e], !.asked = TRUE])

CloseCaseHistory == opened.case # Any /\ SetOpened([opened EXCEPT !.case = Any, !.asked = FALSE, !.entries = {}])

TimelineQuery == [FromTheLatest EXCEPT !.case = opened.case, !.action = query.action, !.before = opened.before]

ShowTimeline == opened.asked /\ SetOpened([opened EXCEPT !.asked = FALSE, !.entries = Events(TimelineQuery)])

OlderEvents ==
    /\ opened.case # Any /\ opened.entries # {} /\ \A e \in opened.entries : CaseOf[e] = opened.case
    /\ \E e \in Entries : Matches(e, TimelineQuery) /\ e < Lowest(opened.entries)
    /\ SetOpened([opened EXCEPT !.before = Lowest(opened.entries), !.asked = TRUE])

HistoryNext ==
    \/ Record \/ ServeAnswer \/ ShowHistory \/ ShowCalls \/ AnswerFails
    \/ FillIn \/ Submit \/ ClearFilters \/ DropFilter \/ Older \/ Latest
    \/ OlderComparisons \/ NewestComparisons \/ ChooseOrg
    \/ OpenCaseHistory \/ CloseCaseHistory \/ ShowTimeline \/ OlderEvents

------------------------------------------------------------------------------
(* What the history promises.                                              *)

HistoryTypeOK ==
    /\ written \in {0} \cup Entries
    /\ phase \in {"none", "asked", "served"} /\ (fetched # NoAnswer) = (phase = "served")
    /\ fields.case \in {Any} \cup Cases /\ query.before \in {0} \cup Entries
    /\ opened.entries \subseteq Entries /\ seen.events \cup seen.compared \subseteq Entries /\ seen.newest \in {0} \cup Entries

\* What the history page shows answers to what its title and its chips say.
ShownAsAsked == view = "history" /\ shown # NoAnswer => shown.to = query /\ ~Loading

Gapless(some, all) == \A e \in all : (\E f \in some : f < e) /\ (\E f \in some : f > e) => e \in some

\* Whoever goes on to older and older entries misses none of those in between, while
\* more are being recorded.  (With an offset, what is decided meanwhile moves older
\* cases down to the next page: of the newer ones, some may be shown and some not.)
NothingIsSkipped ==
    /\ Gapless(seen.events, {e \in Entries : Matches(e, Asked(query))})
    /\ Gapless(seen.compared, {e \in Decided(query) : e <= seen.newest})

\* ManagerValidationPage.tsx:695 "Recorded events for this case, newest first.": the
\* timeline of a case that was just opened begins with its newest event.
NewestFirst ==
    [][ShowTimeline /\ opened.entries = {} /\ Events([TimelineQuery EXCEPT !.before = 0]) # {}
         => opened'.entries = Events([TimelineQuery EXCEPT !.before = 0])]_historyVars
=============================================================================
