------------------------------ MODULE Overview ------------------------------
(***************************************************************************)
(* The Manager's Overview (ManagerOversightDashboardPage): the inbox       *)
(* "Needs you", the figures and the Auditors it is built from, and the SOS *)
(* banner in the frame around every page of the Manager.                   *)
(*                                                                         *)
(* Every 30 seconds the figures, the Auditors and the banner are loaded    *)
(* again.  The inbox asks for the rest, five lists, only when its key has  *)
(* changed: who has asked for something, who is owed a check-in, which     *)
(* deliveries have failed.                                                 *)
(***************************************************************************)
EXTENDS Integers, FiniteSets, Functions

CONSTANTS
    Items,          \* what may need the Manager
    Kind, Person,   \* of each item
    NotLoaded,
    VISIBLE_ROWS,
    MAX_FAILED_LISTED,
    MaxChanges      \* bound: what happens to the items around the page

VARIABLES
    waiting,        \* the items that need the Manager, on the server
    escalated,      \* the deliveries the integration owner was given, and is not late with
    byAttempt,      \* the place of a delivery among them, the latest attempt first
    figures,        \* the failed deliveries that are listed, as last loaded
    people,         \* the requests and check-ins, as last loaded with the Auditors
    banner,         \* the SOS alerts, as last loaded for the banner
    inbox,          \* the rows
    inboxError,
    reading,        \* a load of the inbox in flight
    keyRead,        \* the key it was started for
    showAll,
    checkInFor,     \* the check-in whose dialog is open
    checkInCall,    \* its call in flight
    changes

serverVars == <<waiting, escalated, byAttempt, changes>>
overviewVars == <<serverVars, figures, people, banner, inbox, inboxError, reading, keyRead, showAll, checkInFor,
                  checkInCall>>

Kinds == {"SOS alert", "Request", "Check-in", "Reassignment", "Client message", "Delivery failed"}

ASSUME ItemsHaveAKind == IsFiniteSet(Items) /\ Kind \in [Items -> Kinds] /\ DOMAIN Person = Items
ASSUME ChangesAssumption == MaxChanges \in Nat
ASSUME ListedAssumption == MAX_FAILED_LISTED \in Nat

Of(kinds, items) == {i \in items : Kind[i] \in kinds}

Deliveries == Of({"Delivery failed"}, Items)

\* What the two polled loads tell: who has asked for something, who is owed a
\* check-in, and of the failed deliveries that were not escalated, or whose
\* escalation is overdue, the latest ones, each with its place in the list.
Requesters(items) == {Person[i] : i \in Of({"Request"}, items)}
CheckIns(items) == Of({"Check-in"}, items)

Failed(items) == (items \cap Deliveries) \ escalated
LaterThan(i, items) == Cardinality({j \in Failed(items) : byAttempt[j] < byAttempt[i]})
FailedOnes(items) == [i \in {d \in Failed(items) : LaterThan(d, items) < MAX_FAILED_LISTED} |-> LaterThan(i, items)]

NoReading == [on |-> FALSE, reads |-> {}, got |-> {}, known |-> {}, of |-> {}]
NoKey == <<>>
NoItem == "none"

OverviewInit ==
    /\ waiting \in SUBSET Items
    /\ escalated = {}
    /\ byAttempt \in Bijection(Deliveries, 1..Cardinality(Deliveries))
    /\ figures = NotLoaded /\ people = NotLoaded
    /\ banner = {}
    /\ inbox = NotLoaded /\ inboxError = FALSE
    /\ reading = NoReading /\ keyRead = NoKey
    /\ showAll = FALSE /\ checkInFor = NoItem /\ checkInCall = NoItem
    /\ changes = 0

------------------------------------------------------------------------------
(* The system around the page.                                             *)

Happens ==
    /\ changes < MaxChanges
    /\ changes' = changes + 1
    /\ UNCHANGED <<figures, people, banner, inbox, inboxError, reading, keyRead, showAll, checkInFor, checkInCall>>

\* An SOS, a request, a check-in, a case for reassignment or a message comes up, or
\* was seen to by another Manager; so may be a failed delivery.
WaitingChanges ==
    /\ Happens
    /\ \/ \E i \in waiting : waiting' = waiting \ {i}
       \/ \E i \in Items \ (waiting \cup Deliveries) : waiting' = waiting \cup {i}
    /\ UNCHANGED <<escalated, byAttempt>>

\* A delivery fails, for the first time or when it is retried: its last attempt is
\* now the latest.
DeliveryFails(i) ==
    /\ Happens
    /\ waiting' = waiting \cup {i}
    /\ byAttempt' = [j \in Deliveries |-> IF j = i THEN 1
                                          ELSE IF byAttempt[j] < byAttempt[i] THEN byAttempt[j] + 1
                                          ELSE byAttempt[j]]
    /\ UNCHANGED escalated

\* It is given to the integration owner, who may not answer for a day.
EscalationChanges(i) ==
    /\ Happens
    /\ i \in waiting
    /\ escalated' = IF i \in escalated THEN escalated \ {i} ELSE escalated \cup {i}
    /\ UNCHANGED <<waiting, byAttempt>>

------------------------------------------------------------------------------
(* What is loaded every 30 seconds.                                        *)

LoadFigures ==
    /\ figures' = FailedOnes(waiting)
    /\ UNCHANGED <<serverVars, people, banner, inbox, inboxError, reading, keyRead, showAll, checkInFor, checkInCall>>

LoadPeople ==
    /\ people' = [asked |-> Requesters(waiting), owed |-> CheckIns(waiting)]
    /\ UNCHANGED <<serverVars, figures, banner, inbox, inboxError, reading, keyRead, showAll, checkInFor, checkInCall>>

LoadBanner ==
    /\ banner' = Of({"SOS alert"}, waiting)
    /\ UNCHANGED <<serverVars, figures, people, inbox, inboxError, reading, keyRead, showAll, checkInFor, checkInCall>>

\* No banner is shown rather than an invented count.  (The other loads keep what
\* they have.)
LoseBanner ==
    /\ banner' = {}
    /\ UNCHANGED <<serverVars, figures, people, inbox, inboxError, reading, keyRead, showAll, checkInFor, checkInCall>>

------------------------------------------------------------------------------
(* The inbox.                                                              *)

Ready == figures # NotLoaded /\ people # NotLoaded

\* Mutant: the failed deliveries are left out of the key.
PeopleOnly == <<people.asked, {}, people.owed>>

DependencyKey == <<people.asked, figures, people.owed>>

\* The lists the inbox is read from (one that is always empty makes no difference).
Lists == {"SOS alert", "Reassignment", "Client message", "Request"} \cap {Kind[i] : i \in Items}

\* An answer still on its way to an older key is not heard.
ReadInbox ==
    /\ Ready /\ keyRead # DependencyKey
    /\ keyRead' = DependencyKey
    /\ reading' = [on |-> TRUE, reads |-> Lists, got |-> {}, known |-> DOMAIN figures \cup people.owed, of |-> people.asked]
    /\ UNCHANGED <<serverVars, figures, people, banner, inbox, inboxError, showAll, checkInFor, checkInCall>>

\* The requests are read Auditor by Auditor, of those who had one when it started.
ServeList ==
    /\ Ready /\ keyRead = DependencyKey
    /\ \E l \in reading.reads :
         reading' = [reading EXCEPT !.reads = @ \ {l},
                                    !.got = @ \cup {i \in Of({l}, waiting) : l = "Request" => Person[i] \in reading.of}]
    /\ UNCHANGED <<serverVars, figures, people, banner, inbox, inboxError, keyRead, showAll, checkInFor, checkInCall>>

ListsRead == Ready /\ keyRead = DependencyKey /\ reading.on /\ reading.reads = {}

\* One row for every item (one for all SOS alerts, and one for all messages): what
\* was read, and the check-ins and deliveries that were known when it started.
ShowInbox ==
    /\ ListsRead
    /\ inbox' = reading.got \cup reading.known
    /\ inboxError' = FALSE
    /\ reading' = NoReading
    /\ UNCHANGED <<serverVars, figures, people, banner, keyRead, showAll, checkInFor, checkInCall>>

\* One of the lists could not be read.  Nothing reads it again before the key changes.
InboxFailed ==
    /\ Ready /\ keyRead = DependencyKey /\ reading.reads # {}
    /\ inboxError' = TRUE
    /\ reading' = NoReading
    /\ UNCHANGED <<serverVars, figures, people, banner, inbox, keyRead, showAll, checkInFor, checkInCall>>

\* The rows on screen: nothing while it failed, ten unless all are asked for.
InboxOnScreen == inbox # NotLoaded /\ ~inboxError

Rows == Cardinality(Of(Kinds \ {"SOS alert", "Client message"}, inbox))
          + Cardinality({Kind[i] : i \in Of({"SOS alert", "Client message"}, inbox)})

ToggleShowAll ==
    /\ InboxOnScreen /\ Rows > VISIBLE_ROWS
    /\ showAll' = ~showAll
    /\ UNCHANGED <<serverVars, figures, people, banner, inbox, inboxError, reading, keyRead, checkInFor, checkInCall>>

------------------------------------------------------------------------------
(* A check-in is logged in a dialog over the inbox.                        *)

OpenInboxCheckIn ==
    /\ InboxOnScreen /\ checkInFor = NoItem
    /\ \E i \in CheckIns(inbox) : checkInFor' = i
    /\ UNCHANGED <<serverVars, figures, people, banner, inbox, inboxError, reading, keyRead, showAll, checkInCall>>

CloseInboxCheckIn ==
    /\ checkInFor # NoItem
    /\ checkInFor' = NoItem
    /\ UNCHANGED <<serverVars, figures, people, banner, inbox, inboxError, reading, keyRead, showAll, checkInCall>>

SendCheckIn ==
    /\ checkInFor # NoItem /\ checkInCall = NoItem
    /\ checkInCall' = checkInFor
    /\ UNCHANGED <<serverVars, figures, people, banner, inbox, inboxError, reading, keyRead, showAll, checkInFor>>

\* Logged; the Auditors and the figures are loaded again.
CheckInLogged ==
    /\ checkInCall # NoItem
    /\ waiting' = waiting \ {checkInCall}
    /\ checkInCall' = NoItem
    /\ checkInFor' = NoItem
    /\ people' = [asked |-> Requesters(waiting'), owed |-> CheckIns(waiting')]
    /\ figures' = FailedOnes(waiting')
    /\ UNCHANGED <<escalated, byAttempt, banner, inbox, inboxError, reading, keyRead, showAll, changes>>

\* Not logged, or the answer is lost.
CheckInNotLogged ==
    /\ checkInCall # NoItem
    /\ waiting' \in {waiting, waiting \ {checkInCall}}
    /\ checkInCall' = NoItem
    /\ UNCHANGED <<escalated, byAttempt, changes, figures, people, banner, inbox, inboxError, reading, keyRead, showAll,
                   checkInFor>>

OverviewNext ==
    \/ WaitingChanges \/ \E i \in Deliveries : DeliveryFails(i) \/ EscalationChanges(i)
    \/ LoadFigures \/ LoadPeople \/ LoadBanner \/ LoseBanner
    \/ ReadInbox \/ ServeList \/ ShowInbox \/ InboxFailed \/ ToggleShowAll
    \/ OpenInboxCheckIn \/ CloseInboxCheckIn \/ SendCheckIn \/ CheckInLogged \/ CheckInNotLogged

------------------------------------------------------------------------------
(* What the Overview promises.                                             *)

People == {Person[i] : i \in Items}
FailedLists == UNION {[listed -> 0..MAX_FAILED_LISTED - 1] : listed \in SUBSET Deliveries}

OverviewTypeOK ==
    /\ waiting \subseteq Items
    /\ escalated \subseteq Deliveries
    /\ byAttempt \in [Deliveries -> Nat]
    /\ figures \in {NotLoaded} \cup FailedLists
    /\ people \in {NotLoaded} \cup [asked : SUBSET People, owed : SUBSET Items]
    /\ banner \subseteq Of({"SOS alert"}, Items)
    /\ inbox \in {NotLoaded} \cup SUBSET Items /\ inboxError \in BOOLEAN
    /\ reading \in [on : BOOLEAN, reads : SUBSET Lists, got : SUBSET Items, known : SUBSET Items, of : SUBSET People]
    /\ keyRead = NoKey \/ keyRead \in (SUBSET People) \X FailedLists \X (SUBSET Items)
    /\ showAll \in BOOLEAN
    /\ checkInFor \in Items \cup {NoItem} /\ checkInCall \in Items \cup {NoItem}
    /\ changes \in 0..MaxChanges

\* The items that stand in the key themselves.  (Of requests the key has only who
\* asked: one that is withdrawn and made again around a read is not listed.)
Keyed(items) == CheckIns(items) \cup DOMAIN FailedOnes(items)

\* A check-in that is owed, and a failed delivery that is among the latest ones, is at
\* last in the inbox and stays there, also one that only comes to be among them when
\* a later one is settled or escalated; what is settled, escalated or no longer among
\* the latest leaves it; unless the inbox says that it could not be read. And an SOS
\* alert that waits is on the banner again and again.
OverviewCatchesUp ==
    /\ \A i \in Of({"Check-in", "Delivery failed"}, Items) :
         /\ <>[](i \in Keyed(waiting)) => <>[](inboxError \/ (inbox # NotLoaded /\ i \in inbox))
         /\ <>[](i \notin Keyed(waiting)) => <>[](inboxError \/ (inbox # NotLoaded /\ i \notin inbox))
    /\ \A i \in Of({"SOS alert"}, Items) : <>[](i \in waiting) => []<>(i \in banner)

\* NeedsYouInbox.tsx:97 "Reload when what the inbox depends on changes": an SOS alert
\* that waits is at last in the inbox.  It is not in the key.
NewSosIsShown ==
    \A i \in Of({"SOS alert"}, Items) :
      <>[](i \in waiting) => <>[](inboxError \/ (inbox # NotLoaded /\ i \in inbox))
=============================================================================
