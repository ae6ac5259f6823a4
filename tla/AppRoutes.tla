----------------------------- MODULE AppRoutes -----------------------------
(***************************************************************************)
(* One tab of the frontend: its routes (App.tsx) behind their guards, the  *)
(* two sessions it can hold (useAuth for staff, useClientAuth for a        *)
(* client), the sign-in pages, and the call a page loads its data with     *)
(* (useStaffQuery, useClientQuery).                                        *)
(*                                                                         *)
(* The server keeps its sessions in memory, so a restart ends them all and *)
(* the next answer is a 401.  A sign-in and a load are answered at any     *)
(* time, in any order, also after their page was left.                     *)
(***************************************************************************)
EXTENDS HttpClient, Integers, Sequences, FiniteSets

CONSTANTS
    NoSession,
    NoPath,
    Visited,        \* the addresses that are typed or followed, by surface
    MaxHistory,     \* bound: entries of the browser's history
    MaxTokens,      \* bound: sessions the server opens
    MaxPageLoads    \* bound: loads in flight

VARIABLES
    surface,        \* whose pages are visited; fixed
    entries,        \* the browser's history: a path, and the state given with it
    at,             \* the entry on screen
    session,        \* sessionStorage: a session of staff, and one of a client
    issued,
    alive,          \* the sessions the server knows
    signIns,        \* sign-ins in flight
    pageLoads,      \* loads in flight
    shown,          \* what the page shows of its data
    hops,           \* redirects since the last time anything else happened
    ended           \* the last session an answer ended, and the call's own

appVars == <<surface, entries, at, session, issued, alive, signIns, pageLoads, shown, hops, ended>>

Surfaces == {"staff", "client"}
Roles == [staff |-> {"auditor", "manager"}, client |-> {"REPORTS", "TRUST_SAFETY", "ADMIN"}]

------------------------------------------------------------------------------
(* The routes: who each page is for, and the call it loads its data with.  *)

Page(path, who, call) == [path |-> path, who |-> who, call |-> call]

PublicPages ==
    {Page("/report", "anyone", "none"), Page("/report/confirmation", "anyone", "none"),
     Page("/report/status", "anyone", "none"), Page("/report/contact", "anyone", "none"),
     Page("/", "anyone", "none"), Page("/rcs", "anyone", "none"), Page("/rcs/get-started", "anyone", "none"),
     Page("/rcs/team", "anyone", "none"), Page("/communityhub", "anyone", "none"),
     Page("/flow", "anyone", "none"), Page("/communityhub/moderation", "anyone", "clientListCaseResults"),
     Page("/staff/login", "signed-out", "none")}

AuditorPages ==
    {Page("/auditor", "auditor", "getAuditorCases"),
     Page("/auditor/cases/:caseId", "auditor", "getAuditorCaseDetail"),
     Page("/auditor/cooldown", "auditor", "getMyWellbeing")}

\* Mutant: the Manager's pages are wrapped in the Auditor's guard.
ManagerPagesForAuditors ==
    {Page("/manager", "auditor", "getAuditorOverview")}

ManagerPages ==
    {Page("/manager", "manager", "getAuditorOverview"),
     Page("/manager/audit-logs", "manager", "getAuditHistory"),
     Page("/manager/auditors/:auditorId", "manager", "getAuditorDetail"),
     Page("/manager/cases", "manager", "getCaseOversight"),
     Page("/manager/cases/:caseId/review", "manager", "getManagerCaseReview"),
     Page("/manager/cases/:caseId/reassign", "manager", "getReassignmentContext"),
     Page("/manager/cases/:caseId/raw", "manager", "getCaseForExceptionalAccess"),
     Page("/manager/sos", "manager", "listSosAlerts"), Page("/manager/sos/:alertId", "manager", "getSosAlert"),
     Page("/manager/sos/:alertId/follow-up", "manager", "getSosAlert"),
     Page("/manager/reassignment", "manager", "listDeclinedCases"),
     Page("/manager/insights", "manager", "getManagerIntelligence")}

ManagerCustomerPages ==
    {Page("/manager/validation", "manager", "getValidationSummary"),
     Page("/manager/deliveries", "manager", "listDeliveries"),
     Page("/manager/deliveries/:deliveryId", "manager", "getDelivery"),
     Page("/manager/customers/communityhub", "manager", "getCustomerIntegration"),
     Page("/manager/reports", "manager", "listReports"),
     Page("/manager/reports/:reportId", "manager", "getReport"),
     Page("/manager/messages", "manager", "listClientMessages"),
     Page("/manager/messages/:messageId", "manager", "getClientMessage")}

ClientPages ==
    {Page("/client/login", "signed-out", "none"), Page("/client/reports", "reports", "clientListReports"),
     Page("/client/reports/:reportId", "reports", "clientGetReport"),
     Page("/client/messages", "any-client", "clientListMessages"),
     Page("/client/messages/new", "any-client", "clientListReports"),
     Page("/client/messages/:messageId", "any-client", "clientGetMessage"),
     Page("/client/cases", "cases", "clientListCaseResults")}

\* The addresses that only lead to another.
Moved ==
    [p \in {"/status", "/case-confirmation"} |-> IF p = "/status" THEN "/report/status" ELSE "/report/confirmation"]

Pages == PublicPages \cup AuditorPages \cup ManagerPages \cup ManagerCustomerPages \cup ClientPages

Paths(pages) == {p.path : p \in pages}

Routes == [path \in Paths(Pages) |-> CHOOSE p \in Pages : p.path = path]

ClientSections == [reports |-> {"REPORTS", "ADMIN"}, cases |-> {"TRUST_SAFETY", "ADMIN"}]

RoleHome == [auditor |-> "/auditor", manager |-> "/manager"]

ClientHome(role) ==
    IF role \in ClientSections.reports THEN "/client/reports"
    ELSE IF role \in ClientSections.cases THEN "/client/cases" ELSE "/client/messages"

LetIn(who) == CASE who \in DOMAIN ClientSections -> ClientSections[who]
              [] who = "any-client" -> Roles.client
              [] who \in Roles.staff -> {who}
              [] OTHER -> {}

\* get_current_auditor, get_current_manager, and _require_role of a client.
Admits(call, role) ==
    /\ call \in {"clientListReports", "clientGetReport"} => role \in {"REPORTS", "ADMIN"}
    /\ call = "clientListCaseResults" => role \in {"TRUST_SAFETY", "ADMIN"}
    /\ role \in (CASE Calls[call] = "client" -> Roles.client
                   [] Calls[call] = "staff" -> Roles.staff
                   [] OTHER -> {Calls[call]})

\* Every page is behind a guard that fits its call, but the form to contact RCS: it
\* asks for the reports, for any client.  The moderation page is its own guard.
ASSUME GuardsFitTheCalls ==
    /\ \A p \in DOMAIN Routes \ {"/client/messages/new"} :
         \A role \in LetIn(Routes[p].who) : Admits(Routes[p].call, role)
    /\ \A role \in ClientSections.cases : Admits(Routes["/communityhub/moderation"].call, role)

\* No address is none.
ASSUME PathsAssumption == NoPath \notin DOMAIN Routes

------------------------------------------------------------------------------
(* The guards.                                                             *)

Here == entries[at]
Staff == session.staff
Client == session.client

OfClients(path) == path \in Paths(ClientPages) \cup {"/client"}

\* Mutant: the staff sign-in page sends whoever is signed in to the Auditor's view.
StaffHomeOf(role) == "/auditor"

StaffHome(role) == RoleHome[role]

\* Where a page sends on the one who may not stay, or NoPath.
StaffRedirect(path) ==
    CASE path = "/staff/login" /\ Staff # NoSession -> StaffHome(Staff.role)
      [] Routes[path].who \in Roles.staff /\ Staff = NoSession -> "/staff/login"
      [] Routes[path].who \in Roles.staff /\ Staff # NoSession ->
           IF Staff.role = Routes[path].who THEN NoPath ELSE RoleHome[Staff.role]
      [] OTHER -> NoPath

\* A client returns to the page the guard sent them from.
ClientRedirect(path, from) ==
    CASE path = "/client/login" /\ Client # NoSession ->
           IF from # NoPath THEN from ELSE ClientHome(Client.role)
      [] path = "/client" /\ Client # NoSession -> ClientHome(Client.role)
      [] path # "/client/login" /\ Client = NoSession -> "/client/login"
      [] OTHER -> NoPath

Redirect(e) ==
    IF e.path \in DOMAIN Moved THEN Moved[e.path]
    ELSE IF OfClients(e.path) THEN ClientRedirect(e.path, e.from)
    ELSE IF e.path \in DOMAIN Routes THEN StaffRedirect(e.path)
    ELSE "/"

\* What the guard gives to the sign-in page.
FromOf(path) == IF OfClients(path) /\ path # "/client" THEN path ELSE NoPath

Settled == Redirect(Here) = NoPath

\* The page itself is on screen: not a note that the account does not include
\* the section, and not the sign-in form of the moderation page.
Opened ==
    /\ Settled
    /\ Here.path = "/communityhub/moderation" => Client # NoSession /\ Client.role \in ClientSections.cases
    /\ Routes[Here.path].who \in DOMAIN ClientSections => Client.role \in ClientSections[Routes[Here.path].who]

------------------------------------------------------------------------------

NothingShown == [outcome |-> "nothing", served |-> TRUE]

AppTypeOK ==
    /\ at \in 1..Len(entries)
    /\ \A e \in {entries[i] : i \in DOMAIN entries} : e.from = NoPath \/ OfClients(e.from)
    /\ \A s \in Surfaces : session[s] = NoSession \/ session[s].role \in Roles[s]
    /\ alive \subseteq 1..issued

AppInit ==
    /\ surface \in Surfaces
    /\ entries = <<[path |-> "/", from |-> NoPath]>>
    /\ at = 1
    /\ session = [s \in Surfaces |-> NoSession]
    /\ issued = 0
    /\ alive = {}
    /\ signIns = {}
    /\ pageLoads = {}
    /\ shown = NothingShown
    /\ hops = 0
    /\ ended = [whose |-> 0, call |-> 0]

\* Mutant: leaving a page, or another token, cancels no load.
Ignored(l) == l

\* What becomes of a load when its effect is cleaned up: its answer is not heard.
Unheard(l) == [l EXCEPT !.heard = FALSE]

\* The page on screen is another, or shows the page anew: what it had is gone.
Unmount ==
    /\ shown' = NothingShown
    /\ pageLoads' = {Unheard(l) : l \in pageLoads}
    /\ signIns' = {[s EXCEPT !.here = FALSE] : s \in signIns}

Entry(path, from) == [path |-> path, from |-> from]

Push(path) ==
    /\ at < MaxHistory
    /\ entries' = Append(SubSeq(entries, 1, at), Entry(path, NoPath))
    /\ at' = at + 1
    /\ Unmount

Replace(e) ==
    /\ entries' = [entries EXCEPT ![at] = e]
    /\ at' = at
    /\ Unmount

------------------------------------------------------------------------------
(* Navigation.                                                             *)

\* A link, a typed address, or Back.
Follow ==
    /\ Settled
    /\ \E p \in Visited[surface] : Push(p)
    /\ hops' = 0
    /\ UNCHANGED <<surface, session, issued, alive, ended>>

Back ==
    /\ Settled /\ at > 1
    /\ at' = at - 1
    /\ entries' = entries
    /\ Unmount
    /\ hops' = 0
    /\ UNCHANGED <<surface, session, issued, alive, ended>>

\* <Navigate replace>.
FollowRedirect ==
    /\ ~Settled
    /\ LET to == Redirect(Here)
       IN  Replace(Entry(to, IF to = "/client/login" THEN FromOf(Here.path) ELSE NoPath))
    /\ hops' = hops + 1
    /\ UNCHANGED <<surface, session, issued, alive, ended>>

------------------------------------------------------------------------------
(* Sign-in and sign-out.                                                   *)

SignInPage == [staff |-> {"/staff/login"}, client |-> {"/client/login", "/communityhub/moderation"}]

SubmitSignIn ==
    /\ Settled
    /\ Here.path \in SignInPage[surface]
    /\ session[surface] = NoSession
    /\ \A s \in signIns : ~s.here
    /\ issued + Cardinality({s \in signIns : s.token = 0}) < MaxTokens
    /\ \E r \in Roles[surface] :
         signIns' = signIns \cup {[role |-> r, token |-> 0, here |-> TRUE]}
    /\ UNCHANGED <<surface, entries, at, session, issued, alive, pageLoads, shown, ended>>
    /\ hops' = 0

ServeSignIn ==
    \E s \in signIns :
      /\ s.token = 0
      /\ issued' = issued + 1
      /\ alive' = alive \cup {issued'}
      /\ signIns' = (signIns \ {s}) \cup {[s EXCEPT !.token = issued']}
      /\ UNCHANGED <<surface, entries, at, session, pageLoads, shown, hops, ended>>

\* The staff sign-in page goes on to the role's view, whatever is on screen by
\* then; the client's is sent on by its own guard.
SignedIn ==
    \E s \in signIns :
      /\ s.token # 0
      /\ session' = [session EXCEPT ![surface] = [token |-> s.token, role |-> s.role]]
      /\ IF surface = "staff"
         THEN entries' = [entries EXCEPT ![at] = Entry(StaffHome(s.role), NoPath)]
         ELSE entries' = entries
      /\ signIns' = {[t EXCEPT !.here = FALSE] : t \in signIns \ {s}}
      /\ shown' = NothingShown
      /\ pageLoads' = {Unheard(l) : l \in pageLoads}
      /\ hops' = 0
      /\ UNCHANGED <<surface, at, issued, alive, ended>>

\* Refused, or the answer is lost.
NotSignedIn ==
    \E s \in signIns :
      /\ signIns' = signIns \ {s}
      /\ UNCHANGED <<surface, entries, at, session, issued, alive, pageLoads, shown, ended>>
      /\ hops' = 0

\* logout() and then navigate(): the guard may send the page on, with where it
\* was, before the router hears of the new address, and either is what the
\* sign-in page is given.
EndSession ==
    /\ session' = [session EXCEPT ![surface] = NoSession]
    /\ \E from \in {NoPath, FromOf(Here.path)} :
         Replace(Entry(IF surface = "staff" THEN "/staff/login" ELSE "/client/login", from))

\* The moderation page has its own button and stays.
SignOut ==
    /\ Settled
    /\ session[surface] # NoSession
    /\ \/ /\ Routes[Here.path].who \in Roles.staff \cup DOMAIN ClientSections \cup {"any-client"}
          /\ EndSession
       \/ /\ Here.path = "/communityhub/moderation"
          /\ session' = [session EXCEPT ![surface] = NoSession]
          /\ Unmount
          /\ UNCHANGED <<entries, at>>
    /\ hops' = 0
    /\ UNCHANGED <<surface, issued, alive, ended>>

------------------------------------------------------------------------------
(* Loading a page's data.                                                  *)

\* On opening, again on reload() or on a timer: the one before is not heard.
Load ==
    /\ Opened
    /\ Routes[Here.path].call # "none"
    /\ Cardinality(pageLoads) < MaxPageLoads
    /\ pageLoads' = {Unheard(l) : l \in pageLoads}
         \cup {[call |-> Routes[Here.path].call, token |-> session[surface].token, path |-> Here.path,
                role |-> session[surface].role, heard |-> TRUE, answer |-> [status |-> 0, body |-> "empty"],
                served |-> FALSE]}
    /\ UNCHANGED <<surface, entries, at, session, issued, alive, signIns, shown, ended>>
    /\ hops' = 0

\* The server, or what stands in its place: a gateway, or a web server that
\* answers every address with a page.
ServePageLoad(l) ==
    \E a \in Answers :
      /\ \/ /\ a.body = "json"
            /\ a.status \in (IF l.token \notin alive THEN {401} ELSE IF ~Admits(l.call, l.role) THEN {403} ELSE {200, 404})
         \/ a.body = "page" /\ a.status \in {200, 502}
      /\ pageLoads' = (pageLoads \ {l})
           \cup {[l EXCEPT !.answer = a, !.served = a.status = 200 /\ a.body = "json"]}
      /\ UNCHANGED <<surface, entries, at, session, issued, alive, signIns, shown, hops, ended>>

LoadServed == \E l \in pageLoads : l.answer.status = 0 /\ ServePageLoad(l)

LoadHeard ==
    \E l \in pageLoads :
      /\ l.heard /\ l.answer.status \notin {0, 401}
      /\ pageLoads' = pageLoads \ {l}
      /\ shown' = [outcome |-> Parse(l.answer), served |-> l.served]
      /\ hops' = 0
      /\ UNCHANGED <<surface, entries, at, session, issued, alive, signIns, ended>>

\* The server no longer knows the session: it ends here too.
LoadExpired ==
    \E l \in pageLoads :
      /\ l.heard /\ l.answer.status = 401
      /\ session[surface] # NoSession
      /\ ended' = [whose |-> session[surface].token, call |-> l.token]
      /\ EndSession
      /\ hops' = 0
      /\ UNCHANGED <<surface, issued, alive>>

\* An answer that is not heard, or no answer.
LoadDropped ==
    \E l \in pageLoads :
      /\ pageLoads' = pageLoads \ {l}
      /\ shown' = IF l.heard THEN [outcome |-> "generic", served |-> FALSE] ELSE shown
      /\ hops' = 0
      /\ UNCHANGED <<surface, entries, at, session, issued, alive, signIns, ended>>

\* Sessions live in the memory of one process.
Restart ==
    /\ alive # {}
    /\ alive' = {}
    /\ UNCHANGED <<surface, entries, at, session, issued, signIns, pageLoads, shown, hops, ended>>

AppNext ==
    \/ Follow \/ Back \/ FollowRedirect
    \/ SubmitSignIn \/ ServeSignIn \/ SignedIn \/ NotSignedIn \/ SignOut
    \/ Load \/ LoadServed \/ LoadHeard \/ LoadExpired \/ LoadDropped
    \/ Restart

------------------------------------------------------------------------------
(* What the routes promise.                                                *)

\* One redirect is always enough: no guard sends anybody to a page that sends
\* them on, whoever signs in or out meanwhile.
RedirectsSettle == hops <= 1

\* A 401 ends only the session its call was made with: the answer to a page of
\* somebody who signed out does not sign out the next one.
EndsItsOwnSession == ended.whose = ended.call

\* Every page is behind a guard that fits its call: nobody is refused the data of
\* a page they are shown.  The form to contact RCS asks for the reports of every
\* client, whose account may not include them.
NobodyIsTurnedAway ==
    \A l \in pageLoads : l.answer.status = 403 => l.path = "/client/messages/new"

\* A page shows data only when the server gave it: the page of a gateway or of a
\* web server is never taken for an answer.
ShownWasServed == shown.outcome = "done" => shown.served
=============================================================================
