# Verification of the moderation system

TLA+ models, TLC runs and TLAPS proofs for the case moderation system in `src/`.
The public reports a video, a background analysis grades it, an Auditor reviews
it under wellbeing rules, a Manager handles the exceptions, and the customer
(CommunityHub) is sent the result and acts on it. The backend is a FastAPI program
over one relational database (`src/backend/app`), the frontend a React program
(`src/frontend/src`) that talks to it, or to a stand-in of its own that keeps one
JSON document in the browser (`services/mock`).

To repeat a check, in this directory:

    tlc -workers 2 -config Wellbeing.cfg MCModeration
    tlapm ModerationProofs.tla

`PROJECT.json` lists the components, the runs, the hazards, the findings, the
theorems, and for every definition the source lines it stands for.

## 1. Inventory

| component | state | operations | talks to |
|---|---|---|---|
| Report submission (`main.py` create_report, `storage.py`, `uploads.py`, `orchestrate.py`) | the new case row, the stored video | POST /api/reports | assignment, storage, background analysis |
| Assignment rules (`assignment.py`, `breaks.py`) | exposure and its last reset, latest CASE_ASSIGNED entries | candidates, score, best, daily reset | read by submission and the queue |
| Case workflow (`main.py`, `case_workflow.py`) | status, owner, Manager flag, outcome | acknowledge, resolve, decline, release at limit, SOS, stop shift, reassign, close | everything |
| Fallback queue (`fallback_queue.py`) | visibility, fallback_queued_at | park, release pass, take, claim, make available, withdraw | assignment rules, case rows |
| Wellbeing and SOS (`main.py`, `support.py`, `breaks.py`) | exposure, limit, cooldown, check-in, break requests, SOS alerts (audit log) | exposure sample, limit, break request and approval, SOS, follow-up, check-in | read by every rule that gives a case |
| Background analysis (`analysis_service.py`, `analysis_storage.py`, `video_analysis.py`) | AI columns of the case, run id | a worker thread with three commits | governance log, external models |
| Governance log (`governance*.py`) | runs and calls with their outcomes | start, receive, fail, check, validate, finish, reconcile, ingest | analysis, remote callers |
| Delivery (`b2b.py`) | one delivery per case: outcome, attempts, next attempt | create, due attempts, retry, escalate, platform action | case workflow |
| Reports, access, client messages (`b2b.py`, `support.py`) | periods, access decisions, threads | client and Manager screens | deliveries |
| Sessions, rate limit (`auth.py`, `rate_limit.py`) | in-memory tokens, failed lookups | login, logout, lookup | every handler |
| Severity and timeline (`severity.py`, `video_analysis.py`) | none | tier of a score, merging of segments | analysis |
| Chat, labels, ids, external clients, start-up | none that the workflow reads | | |
| Review page (`AuditorCaseDetailPage`, `ReviewWorkspace`, `useDraftResolution`) | the page's step, dialogs, player, unsent exposure; draft and session in sessionStorage | acknowledge, review, resolve, decline, SOS, sign in again | the API |
| Auditor's queue, a report's page, AI Buddy, Reporter's pages | loaded rows, requests in flight, stored Case ID, conversation | poll, take, claim, offer; note, save, release; ask, clear; submit, look up | the API |
| Manager's Overview (`ManagerOversightDashboardPage`, `NeedsYouInbox`, `SosAlertBanner`) | figures, people, inbox and its key, banner | three polls, check-in | the API |
| Routes, sessions, calls (`App.tsx`, `useAuth`, `useClientAuth`, `httpClient`) | two sessions of a tab, its address | sign in and out, guards, loads, 401 | every page |
| Client's results (`ClientCaseResultsPage`, `CommunityHubModerationPage`) | list, dialog, selection, actions in flight | act on one, many, all | the API |
| Manager's pages on one subject, lists, histories | record or list as loaded, form, filter, page, cursor | load, fill in, send, turn, filter | the API |
| Mock data source (`services/mock`) | one JSON document | a handler per API call | takes the backend's place |
| Landing site, insights, puzzle | presentation | | |

How it runs. Handlers are `async def` functions without an await between their
reads and their commit (create_report awaits the upload and the selector), so on
one event loop they run one after the other. Three things run beside them, each in
a thread and with a session of its own: `analysis_service.process_case_analysis`,
without a row lock, with minutes of model calls between its commits; and the
scheduler's two jobs, plain functions that `AsyncIOScheduler` hands to worker
threads, `_release_fallback_job` every 30 seconds and `_daily_exposure_reset_job`
at 09:00. The release job locks the case rows it may place, neither job an Auditor's row, and
both write on their commit what they decided when they read: PostgreSQL's READ
COMMITTED lets every handler commit in between. The deployment workflow fixes one
instance (`--max-scale 1`); a few handlers nevertheless lock the row for the day
there are more. Background tasks, sessions and the rate limiter live in the memory
of the process.

What makes each component correct, and where it is hard:

- **Assignment rules.** An allowance is given once per workday although a job in a
  thread and five handlers apply the reset; a pass that places several cases re-reads
  the load after each, but not the Auditors; a tie is decided by the time of the last
  assignment.
- **Case workflow.** Handlers meet in orders nobody planned (reassigning a case
  under analysis, closing a released one, reopening a finished one); a finished
  case and its delivery must come and stay together.
- **Fallback queue.** The release job decides on rows that handlers change before it
  commits. Three columns say who answers for a case (owner, flag,
  visibility) and eight handlers write one or two of them; no combination may
  list a case in a queue while somebody has it, or lose it.
- **Wellbeing.** Three handlers ask "may this Auditor be given a case?" with three
  rules; cooldowns replace each other; a hold must outlive its timer.
- **Background analysis.** Its last commit writes a status decided at its start;
  an exception or a restart ends it for good.
- **Delivery.** Attempts run only when somebody reads, all that have fallen due at
  once, in the reader's transaction; the Manager's retries lie between them; a
  result must be sent once and never be stuck.
- **Governance.** Replays of a receipt; reconciliation against a late worker. Not
  modelled yet.
- **Pages.** A page is a process beside the backend: what it loaded is old, an
  answer comes late, twice overtaken or never, and runs code that does not look at
  where the page is by then; the session it was sent with may have ended. A draft,
  a measured exposure, an SOS must survive that; content must not be shown before
  its warning or its record; a list, an inbox, a history must show what there is.
- **Mock data source.** The workflow and the delivery written a second time, in
  other code, with the same promises to keep; four counts of the same rows that
  must agree; report versions.

## 2. Modules

| module | what it is |
|---|---|
| `AuditorRules` | rows of `cases` and `auditors` as the rules read them, the rules as operators (no variables) |
| `Moderation` | the state machine: an action per handler and per commit of an analysis, and the two jobs from their reads to their commits; its properties |
| `Custody` | abstract specification: in whose hands a case is |
| `ModerationCustody` | `Moderation` implements `Custody` under a refinement mapping |
| `Delivery` | the handoff of a finished case: 10 actions; its properties, the attempt loop as the code writes it, and its refinement of `ResultDelivery` |
| `ResultDelivery` | abstract specification: where a result is, what the customer did, what the Reporter was told |
| `DeliveryProofs` | delivery invariants, the loop and the refinement |
| `MCModeration` | symmetry and bounds for TLC |
| `DocumentedClaims` | statements of comments and documents that the code does not keep |
| `FiniteInduction` | induction over numbers and finite sets, for the proofs |
| `ModerationProofs` | lemmas on the operators; types, queue, completion and delivery; who is given a case is fit for it; resets, holds and SOS alerts; the refinement of `Custody`, a case stays with its owner, parked cases are queued, a release pass is balanced |

The frontend:

| module | what it is |
|---|---|
| `ReviewPlayback` | the player and the exposure it measures, as operators |
| `CaseReview` | a tab on the review of a case: steps, dialogs, draft, session, requests in flight |
| `CaseReviewProofs` | its type correctness and five properties |
| `MockCases` | the cases half of the mock data source; it implements `Custody` |
| `MockCasesProofs` | that it does, and its other properties |
| `Figures` | every count of a report, a dashboard, a client's list, as operators |
| `MockPortal` | deliveries, reports, access and messages of the stand-in; it implements `ResultDelivery` |
| `PortalProofs` | versions, access, records, figures, and the refinement of `ResultDelivery` |
| `QueuePage`, `ReportPage`, `BuddyChat`, `ReporterPages`, `Overview` | pages with requests in flight; `MCPages` composes them |
| `PagesProofs` | these pages show their own, wait only for what is under way, and keep their types |
| `HttpClient` | which session a call carries, what is made of an answer |
| `AppRoutes` | routes behind their guards, two sessions, loads |
| `CaseResults` | the client's actions on results |
| `ManagerDesk` | seven pages of a Manager, each on one subject |
| `ListPages` | eight lists |
| `HistoryPages` | audit history, AI calls, comparisons, timelines; `MCOffice` composes these five |
| `OfficeProofs` | what the five show is true |
| `MCReview`, `MCMock`, `MCPortal`, `MCPages`, `MCOffice` | instances and bounds for TLC |

`Moderation` has ten variables:

| variable | in the code |
|---|---|
| `cases[c]` | a row of `cases`: status, assigned_auditor_id, manager_flag, case_visibility, severity_tier, ai_failure, "analysis_run_id is set", final_outcome; status NULL before the row exists |
| `auditors[a]` | a row of `auditors`: exposure, limit, "last reset before today's 09:00", ticks left of cooldown_ends_at, cooldown_trigger, cooldown_check_in_done |
| `turn` | the order of the latest CASE_ASSIGNED entries (the tie-break of `pick_best`) |
| `queued` | the order of fallback_queued_at, 0 for NULL |
| `analysis` | which commit the case's background thread has reached |
| `breaks[a]` | open break requests, ticks left of the approved one |
| `alerts` | SOS_TRIGGERED audit entries with their status |
| `handoff[c]` | the outcome carried by the case's delivery, NULL without one |
| `pass` | the transaction of the release job: its phase, the cases it has locked and given, the Auditor rows of its session, whom it has reset; `missed` is history: whom others have changed since it read |
| `daily` | the transaction of the daily reset: whom it resets and stamps; `missed` as above |

An action is the whole handler: `CreateReport` contains the daily resets of the
selector, the choice and the parking; `WithdrawRelease` and `ListAvailableCases`
contain the release pass they run; `ResolveCase` the cooldown and the delivery.
A refused request changes nothing and is no step.

Abstractions. Time is relative: a timer is the number of 15-minute ticks left,
rounded up, which is what the rules compare. Times that are only ordered
(last assignment, queued time) are ranks. A score is an integer, 200 times the
code's. Text, notes, transcripts, frames and audit entries nobody reads back are
left out. `breaks` keeps the latest approved break, as `break_ends_at` does.
`DecidedHere`, `Limits` and `Tiers` are the choices the environment makes. The
hold of a parked case (`FALLBACK_HOLD_MINUTES`) is the team's 0, and the
selector is the in-process one.

A handler is atomic, and so is a commit of the analysis. The release job is not:
`PassBegins` locks the waiting cases, `PassPlaces(c)` is one turn of its loop (the
first reads the Auditor rows, which the session's identity map then keeps; loads,
breaks and declined SOS flags are queried anew in every turn), `PassCommits` writes
its rows, `PassFails` rolls back. The daily job is `DailyReads`, `DailyCommits`,
`DailyFails`. Every handler, the clock, the next workday and a restart may come in
between, except what a locked case row makes wait: a handler that changes such a row
(`HandlerStep`), and another pass. An UPDATE writes only columns that differ from what
the session read: `ResetBy` sets exposure to 0 for those it read with some, and the
last reset for those it read due, whatever is in the row by then.

Left out of the jobs: the Auditor rows a flush of the pass has written are locked from
there to its commit, so a handler that writes one waits in the program and not in the
model, which only adds behaviours; the statements one turn makes are taken at one
moment; a tie is decided as if no CASE_ASSIGNED entry were written by others between
the pass's own, which get their place in `turn` at its commit. A pass inside a handler
(`ReleaseWaitingCases`, `ListAvailableCases`, `WithdrawRelease`) reads and commits in
one step.

The analysis session keeps its own values after a commit (`expire_on_commit=False`),
so a failed run, which sets the tier to NULL where it had set it to NULL before,
writes no tier; `AnalysisFinish` says so.

## 3. Custody

`Custody` states what the workflow promises about who answers for a case: it is
unreported, parked, offered, held by one Auditor, with the Manager (who remembers
the Auditor it came from), or returned by a stopped shift. A held case goes to the Manager, ends with its owner's shift, or is
reassigned, and never falls back into a queue; what the Manager has stays there
until a reassignment, the end of a shift included; a release pass gives nothing
but parked cases. (A reassignment may move any reported case to anyone: who asked
for a move is not part of the state.) `ModerationCustody` computes the place from the row, a flag
before an owner and an owner before a visibility, and run `Queue` checks that
every step of `Moderation` is a step of `Custody` or leaves it alone.

### Delivery

`Delivery` continues where `Moderation` ends: `handoff[c]` becomes non-NULL there
in the step that is `CreateDelivery` here, and what happens to the row afterwards
touches no case. A row keeps the status, three counters in place of the list of
attempts (automatic, manual, successful), the time left until next_attempt_at
(negative when overdue), the demo's time-out switch and the customer's action.
`told` is what the public lookup last answered. The endpoint is a column only an
operator writes, so its changes are an external action.

`Advance` is `advance_delivery`: the endpoint is asked as it is now, so either the
first attempt that has fallen due succeeds or all of them fail, and the model
counts them instead of looping. `AdvanceIsTheLoop` compares it with the loop
itself, the recursive function `Rounds`.
`LongPast` bounds how overdue a date gets: beyond it every attempt left is due.

`ResultDelivery` promises that a result goes from its automatic attempts to the
customer or to the Manager and never back, is delivered for good, and that the
customer acts on it and the Reporter hears of it only when it has arrived.

### Review of a case

`CaseReview` has one tab, the server as the page sees it (is the case complete,
flagged, whose is it), and `Slots` requests in flight. A request keeps the token
and the exposure it was sent with and whether its page is still there (`here`);
it is served at one moment, or lost, and answered at another. The answer's
continuation is an action of its own and looks at nothing the code does not look
at. A page that is left keeps its requests: they still write sessionStorage.
`ReviewPlayback` has the player: playing, position, furthest point, pending
sample. Time is in units; `owed` counts what was watched and is the auxiliary
variable of `ExposureIsKept`.

### The stand-in for the backend

Every mock handler is one synchronous `updateDb`, hence one action. `MockCases`
maps its rows to `Custody` exactly as `ModerationCustody` maps the backend's, so
both implementations are held to one promise; `MockPortal` is held to
`ResultDelivery`, the promise `Delivery` keeps. Where the two programs differ, the
module follows the mock's code, and section 4 says what that costs.
`Figures` has the four pieces of code that count cases; `PagesAgree` relates their
answers (what a report, the dashboard, the client's page and the comparison say of
one period).

### Pages

`MCPages` and `MCOffice` hold machines that share nothing: each page is open in a
tab of its own, a behaviour is that of one tab (`tab` never changes) and the
others wait in one of their initial states. A property of several pages is a
conjunction over them. The server's side of a page is only what the page can
tell apart (`QueuePage.place`, `ManagerDesk.record`, `HistoryPages.written`), and
changes by itself: `Moderation` models why.

- `QueuePage`: each load carries what the server knew when it answered; the queue is
  `Mounted`, and polls every 30 seconds, only once "My cases" was loaded; a load after
  each action; take, claim, offer and withdraw are carried out and answered apart; at
  the limit the cases ready or in review go to the Manager.
- `Overview`: figures, people and banner are loaded by timers; the inbox loads
  five lists when its key changes, drops a load overtaken by another, and shows
  them together with the figures of that render. Of the failed deliveries the
  figures list the latest `MAX_FAILED_LISTED` that are not escalated (`FailedOnes`),
  so a delivery leaves the list, or comes back to it, when another one fails, is
  escalated, or is overdue with its escalation.
- `ReportPage`, `BuddyChat`: a note against a release and another Manager; a
  generation counter against late answers.
- `ReporterPages`: a submission whose answer is lost, and a Case ID in a storage that
  another tab writes or that is blocked. A tab of the page, or the Back button, leaves
  a form whose submission is under way (`left`), and its answer saves the Case ID and
  opens the confirmation over whatever is open by then; a reload of the tab ends it.
  The contact page has no state and stands with the lookup; the request for updates
  on the confirmation is left out.
- `AppRoutes`: the tab's address, both sessions, the guards one redirect at a time,
  a sign-in in flight, and loads of several tokens answered in any order;
  `HttpClient` gives the session each of the services' calls carries and what
  `parseJsonOrThrow` makes of each status and body.
- `CaseResults`: at most `MaxSent` actions in flight, carried out and answered
  apart, awaited together as `Promise.all` does; a colleague acts meanwhile.
- `ManagerDesk`: one page of seven, its record on the server and as loaded, form,
  calls in flight, expiry in place (the form is kept) or at a load (it is not), a load
  that fails. The message of a saved limit names the limit of the page's copy
  (`LimitNamed`), as the page does.
- `ListPages`: rows on the server and as loaded, the chosen Client, filter, order,
  sections and the pager with its key; claims and report generation. The sorted rows
  are not a sequence: `RowsAbove` gives a row's place, and a page is the rows whose
  place is in its slice.
- `HistoryPages`: entries written meanwhile, a cursor or an offset, an answer for
  each question in flight, and what was seen since the latest; the history page drops what it shows when it asks, the
  validation page keeps it.

## 4. Runs

| run | instance | checks | distinct states |
|---|---|---|---|
| `Wellbeing` | 1 case, 1 Auditor, limit 1 unit, tiers S3 and S4, 1 SOS alert, 1 break request, no job under way | CompletedIsHandedOff, PendingSosHasAlert, HandoffIsFinal, HoldEndsByManagerOrReview | 1,036,400 |
| `Queue` | 2 cases, 1 Auditor, 1 Super Auditor | QueuedCasesAreFree, ParkedCasesAreQueued, CaseStaysWithOwner, CustodySpec | 273,303 |
| `Balance` | 3 cases, 2 Auditors, units of 12 minutes, the release job | ReleaseIsBalanced | 261,134 |
| `Placement` | 1 case, 1 Auditor, both jobs | TypeOK, ParkedIsPlaced, NewOwnerIsFit, OneResetPerWorkday | 439,980 |
| `Delivery` | 2 deliveries, delays of 2 and 3 ticks, 3 automatic and 2 manual attempts | TypeOK, SentAtMostOnce, NextAttemptIsPlanned, AdvanceIsTheLoop, ManagerTakesOver, PromiseSpec, AttemptsEnd | 269,378 |
| `Review` | 2 requests in flight, 2 sessions, footage of 1 unit, watched once | TypeOK, NothingLeftToResume, ExposureIsKept, SosIsNotForgotten, PlaysInSight, ContentNeedsAcknowledgement | 1,142,645 |
| `MockCases` | 2 cases, 1 Auditor, 1 Super Auditor | CasesAreSound, SosHasAlert, NoCaseToTheUnavailable, CooldownIsServed, FollowsCustody | 205,790 |
| `Portal` | 1 live and 2 past cases, 2 clients, 3 users, 2 days, 2 reports | PortalIsSound, ReportsAreVersioned, ClientsStayHome, RecordIsKept, KeepsPromise | 62,544 |
| `Pages` | 5 tabs, see below | QueueConverges, InboxConverges, PagesShowTheirOwn | 441,087 |
| `Office` | 5 tabs, see below | ShownIsTrue | 877,792 |

**Wellbeing** explores every order of every handler, timer, workday, analysis
outcome and restart for one case, without a bound on how often they happen
(alerts, open break requests and exposure are bounded by `MaxAlerts`,
`MaxRequests`, `MaxExposure`). One case is enough for these properties: they
relate an Auditor's row with its alerts and a case with its delivery, and one
case can be resolved, reopened, closed and flagged again. The limit is reached by
one sample, so the limit, the pin of a stopped shift and the reset all occur. The
constraint `NoJobInFlight` stops where a job has begun: the jobs write neither an
alert, a check-in, an outcome nor a delivery; `Placement`, `Balance` and `Queue` have
them.

**Queue** needs two cases (a pass places several, stopping a shift or reaching
the limit moves several) and both kinds of Auditor. Its three constraints
(`OneAnalysis`, `NoReopening`, `OneWorkday`) cut behaviours that `Wellbeing`
explores: two analyses at a time, a case reopened after an outcome, a second
workday. The release job is under way beside every handler. Cases and Auditors are symmetric: `Init` tries every id order.

**Balance** asks about a pass over several waiting cases, of a handler or of the job,
whatever the load it finds and whatever is committed between the job's reads and its
own commit. `ReleaseIsBalanced` speaks of the Auditors the job has not `missed`:
one whose row, break or cases changed after it read may be given the case although
another is less loaded by then; without that exception TLC finds such a pass. A unit of
12 minutes counts as much in the score as one case and a half: an Auditor with a case
and one with a unit are less than a case apart, so a pass that forgot what it has
placed itself would give both waiting cases to the same one. `OnlyPlacing` leaves out
analysis and review, `NoDailyInFlight` the daily job, which writes no case.
`NothingMissed` stops where the pass has missed somebody: of two Auditors nothing is
claimed from there to its end (the theorem has no such bound).

**Placement** has both jobs with every handler, the clock and new workdays between
their steps, without a constraint. `NewOwnerIsFit` says who may be given a case: fit
as the giving transaction leaves the row; or given by the job's commit, `missed` since
it read, and fit in the row it read. `OneResetPerWorkday` says that exposure falls to 0
only by a due reset that uses itself up, or by the commit of a job that had read the
row due before it was changed. The two exceptions are what the code's unlocked reads
cost; without them neither holds (NobodyUnfitIsGivenACase and ResetOnlyWhenDue below).

`ParkedIsPlaced` is liveness. Its fairness, `FairSpec`, is weak for `PassBegins` (the
scheduler begins a pass every 30 seconds when none is under way) and strong for
`PassPlaces` and `PassCommits` (not every pass fails or is cut off by a restart).
Nothing is assumed of people, of the analysis or of the daily job. It says that a
parked case leaves the queue unless at some time nobody of the pool is fit: with
this fairness the pass may otherwise always come when the one Auditor is on a break.

**Delivery** has the code's delays (4 and 6 seconds, in ticks of 2) and budget. Two
deliveries let one read advance both while a lookup or a retry advances one; a
second manual attempt shows that nothing automatic follows the first. Dates may
be overdue by any amount, so every number of attempts can be due at one read.

`AttemptsEnd` is liveness: its fairness is `WF_vars(Tick)`, time, and
`WF_vars(ListDeliveries)`: no job runs the attempts, but every Manager page
reloads the list of deliveries every 30 seconds (`ManagerLayout.tsx`), and so do
the customer's and the dashboard's reads. With nobody signed in nothing is
delivered. Nothing is assumed of the endpoint, the Manager or the customer, so
the property is that attempts end, not that they succeed.

**Review** has two requests in flight, the fewest with which one overtakes
another (a late proceed over a decline, a sample over an SOS, a password over a
sign-out), and two sessions, so a request of the first is answered in the second.
A second unit of footage, or a third request, added no kind of state we know of.
Slots are symmetric. A tab that was signed out may stop: no deadlock check.

**MockCases** has bounds of the kind `Queue` has, here as guards of every step
of `MCSpec` (`OneReason`, `OneReviewed`, `Together`): one reason at a time that keeps an Auditor from a
case, and of two cases one under review while the other is placed, offered,
claimed. Cases are symmetric. **Portal** has one live case and a past case of each
client, so a period of either has something to count; reports, and what goes
wrong with a delivery, come together only as far as `OneConcern` says.

**Pages**: one case in the queue page, at most two loads and two actions in
flight; a report of at most two revisions; three questions; two reports
submitted, so one can be answered over the confirmation of the other, with up to two
forms left (`MaxLeft`); on the Overview an SOS, a request, a check-in and two failed
deliveries that come up, fail again, are escalated or settled twice (`MaxChanges`), from
nothing or everything waiting, with two rows visible and one failed delivery listed
(`MAX_FAILED_LISTED`), so the second is the one cut off. A page that was left stops, so deadlock is not checked.
Fairness: `WF(Polls)`, the 30-second poll of `FallbackQueue.tsx:174`, and
`SF(RowsArrive)`, a network that does not lose every answer; on the Overview weak
fairness of the timers, of the reads, and of showing what was read, and strong
fairness of the banner's load, which other outcomes of the same poll disable. A
page that is never open again owes nothing, nor one whose queue was never mounted
because "My cases" could not be loaded. `QueueConverges` says that the lists
come to what the server has when it stops changing; `InboxConverges` that a check-in,
or a delivery among the latest failed ones, that stays so is in the inbox at last, one
that is settled, escalated or cut off leaves,
unless the inbox says it could not be read, and that an SOS that waits is on the
banner again and again. `PagesShowTheirOwn` joins what each page promises in every
step: `NewerDataOnly` (report), `AnswersFollowQuestions` (AI Buddy),
`ConfirmsItsOwnReport` (Reporter), the three invariants of `NothingIsAwaitedInVain`,
that what is shown as busy has a request in flight (a row and a switch of the queue,
the release dialog, the AI Buddy's "thinking"), and the type invariants.

**Office**: `ShownIsTrue` is one conjunction per tab, each of several named
properties of its module:

| tab | parts |
|---|---|
| app | `RedirectsSettle`, `EndsItsOwnSession`, `NobodyIsTurnedAway`, `ShownWasServed` |
| results | `NotesStayWithTheirResult`, `FollowedAsDecided`, `ToldWasRecorded` |
| desk | `SeenOnceRecorded`, `SaidIsDone` |
| lists | `NoEmptyPage`, `EveryRowIsListed`, `OnlyTheChosen` |
| history | `ShownAsAsked`, `NothingIsSkipped` |

Besides the mutant in `PROJECT.json`, mutants of each module break it:
`StaffHome` by `StaffHomeOf`, `Suggested` by `SuggestedForAll`, `AllDone` by
`AnyDone`, `OpenResult` by `OpenResultAsItWas`, `Proceed` by `ProceedAtOnce`,
`CurrentPage` by `UncheckedPage`, `IsWaiting` by `IsUnowned`, `InScope` by
`InAnyScope`, `Ask` by `AskKeeping`, `LimitSaved` by `SavedWithoutReload`. The instance: two tokens and one load in
flight over a staff and a client surface; two results, a violation and a closed
case, two actions in flight; two Auditors, two limits, one call and one change by
others on the desk; three rows of two Clients and none, page sizes 1 and 2, one
change of the list; four entries, three of them decisions, read one at a time.
`OneWay`, `OneConcern`, `OneFilter` and `OneQuestion` bound what is tried together.

### What the code says of itself and does not do

Two runs end in a counterexample and are findings in `PROJECT.json`:

| run | what happens |
|---|---|
| `SosIsOpenUntilFollowUp` | completing an S4 case takes an SOS off the open list without a follow-up |
| `SosReachesTheInbox` | an SOS that comes up while the Overview is open is on the banner and never in the inbox: it is not in the key the inbox is loaded by |

More statements of comments, error messages and documents are kept as
definitions. TLC refutes each when it is checked, as PROPERTY or INVARIANT, in the
instance named:

| definition | instance | what happens |
|---|---|---|
| CompletedIsNotAnalysed (`DocumentedClaims`) | 1 case | the last commit of an analysis makes a completed case reviewable |
| CustomerHearsOfClosing (`DocumentedClaims`) | 1 case | a case closed after an earlier outcome is never handed off as closed |
| HeldAuditorGetsNoCase (`DocumentedClaims`) | `SosIsOpenUntilFollowUp.cfg` | claim, take and reassignment ignore a check-in hold once the timer ended |
| StoppedShiftFillsQueue (`DocumentedClaims`) | `SosIsOpenUntilFollowUp.cfg` | a stopped shift's cases are listed in no queue |
| NobodyUnfitIsGivenACase (`DocumentedClaims`) | `Placement.cfg` with `Spec` | the release job gives a case to an Auditor who stopped their shift after it had read their row |
| ResetOnlyWhenDue (`DocumentedClaims`) | `Placement.cfg` with `Spec` | the daily job and an Auditor's own request both find the row due, and the job zeroes what was counted since |
| AnalysisPersistsAState (`DocumentedClaims`, `FairAnalysis`) | 1 case | after an exception or a restart a case stays in AI_PROCESSING |
| DeclinedShowsNothing, LogoutIsFinal (`MCReview`) | `Review.cfg` | a proceed answered after a decline shows the content again; a password answered after signing out restores a session |
| CheckInCanBeLogged (`MCMock`) | `MockCases.cfg` | the mock's S4 check-in is superseded by another cooldown and nothing can log it |
| DeliveredToItsClient, FinalResultIsHeard (`MCPortal`) | `Portal.cfg`, the former with the live case a case of `sn` | the mock delivers every result to CommunityHub; a reopened case keeps its first |
| ReleasedIsWhatWasReviewed (`ReportPage`) | `Pages.cfg` | a note typed, or a draft generated, while the release is under way |
| FailedMeansNoCase (`ReporterPages`) | `Pages.cfg` | the answer of a submission is lost and the page says no case was created |
| HeaderClientIsChosen (`ListPages`) | `Office.cfg` | the report dialog keeps a cancelled choice over the header's Client |
| SavedLimitIsNamed (`ManagerDesk`) | `Office.cfg` | "Exposure limit updated to N min." names the old limit until the load after the save succeeds |
| NewestFirst (`HistoryPages`) | `Office.cfg` | a case's timeline is opened at the cursor of the case before |

## 5. Proofs

The theorems hold for every finite set of cases and Auditors, every limit, and
every bound. They assume `RulesAssumption` and `ModerationAssumption`: the sets of
cases and Auditors are finite, standard and Super Auditors differ, the default
limit is 120 minutes, NULL is none of the values, the choices are subsets of the
code's enumerations. TLC evaluates both in every passing run.

| theorem | statement | argument |
|---|---|---|
| `TypeCorrect` | `Spec => []TypeOK` | one lemma per group of actions, one step per action; row lemmas (`CaseRowColumns`, `AuditorRowColumns`) say what one assignment does to a row |
| `QueuedFree` | `Spec => []QueuedCasesAreFree` | inductive invariant `CaseInv` |
| `CompletedHandedOff` | `Spec => []CompletedIsHandedOff` | inductive invariant `CaseInv` |
| `HandoffFinal` | `Spec => HandoffIsFinal` | `HandoffMoves`: only `HandOff` writes a delivery |
| `NewOwnerFit` | `Spec => NewOwnerIsFit` | `TypeOK` and one lemma per way to get a case; `PassInv` for the job's |
| `ResetsOncePerWorkday` | `Spec => OneResetPerWorkday` | `RowMoves`; `PassInv`, `DailyInv` for the jobs' commits |
| `HoldEnds` | `Spec => HoldEndsByManagerOrReview` | `RowMoves` |
| `SosHasAlert` | `Spec => []PendingSosHasAlert` | inductive with TypeOK, `RowMoves` |
| `CaseStays` | `Spec => CaseStaysWithOwner` | one lemma per group of actions; `CaseInv` for `CreateReport` |
| `ImplementsCustody` | `Spec => CustodySpec` | the place of a row, one step of `Custody` per action |
| `ParkedQueued` | `Spec => []ParkedCasesAreQueued` | inductive invariant `QueueInv` |
| `ReleaseBalanced` | `Spec => ReleaseIsBalanced` | induction over the placements of a handler's pass; `PassEven` for the job's |
| `DeliveriesTyped` | `Spec => []TypeOK` (`Delivery`) | inductive invariant `DeliveryInv` |
| `SentOnce`, `AttemptPlanned` | `Spec => []SentAtMostOnce`, `Spec => []NextAttemptIsPlanned` | `DeliveryInv` |
| `LoopCounted` | `Spec => []AdvanceIsTheLoop` | what has fallen due is a prefix of the attempts left |
| `ManagerHasIt` | `Spec => ManagerTakesOver` | `HandedOver`: a row with a manual attempt is past the automatic ones |
| `KeepsPromise` | `Spec => PromiseSpec` | one step per action, `ToldOfDelivered` |
| `ClockIsPlayback` | a second of the clock is a second of playback (`ReviewPlayback`) | unfolding, `Plus` |
| `TypeCorrect` (`CaseReviewProofs`) | `Spec => []TypeOK` (`CaseReview`) | one lemma per group of actions; lemmas on the player |
| `ReviewsEnd`, `SosGetsOut`, `FootageInSight` | `Spec => []NothingLeftToResume`, `Spec => []SosIsNotForgotten`, `Spec => []PlaysInSight` | inductive invariant `Safe` |
| `WarningComesFirst` | `Spec => ContentNeedsAcknowledgement` | `Safe`, one step per action |
| `ExposureSurvives` | `Spec => []ExposureIsKept` | inductive invariant `Exposed` |
| `SoundCases`, `SosAlerted` | `Spec => []CasesAreSound`, `Spec => []SosHasAlert` (`MockCases`) | inductive invariant `MockInv` |
| `GivenToTheAvailable`, `ServedInFull` | `Spec => NoCaseToTheUnavailable`, `Spec => CooldownIsServed` | `MockInv`, one step per action |
| `KeepsCustody` | `Spec => FollowsCustody` | `MockInv`, the place of a row |
| `VersionsDiffer`, `StayHome` | `Spec => []ReportsAreVersioned`, `Spec => []ClientsStayHome` | inductive invariant `Record` |
| `RecordStays` | `Spec => RecordIsKept` | `Record`: what each action does to reports, access and messages |
| `PromiseKept` | `Spec => KeepsPromise` (`MockPortal`) | `Sending`, one step of `ResultDelivery` per action |
| `PortalSound` | `Spec => []PortalIsSound` | `Bookkept`; the counts agree by bijections |
| `ShowTheirOwn` | `Spec => PagesShowTheirOwn` | an invariant for each page: `QueueInv`, `ReportInv` and `ReleaseInv`, `ChatInv`, `ReporterInv`, `OverviewTypeOK` |
| `ShownTrue` | `Spec => []ShownIsTrue` | an invariant for each tab: `AppInv`, `ResultsInv`, `DeskInv`, `ListInv`, `HistoryInv` |

`CaseInv` joins the two case invariants and adds what neither says: a case not
reported yet has no owner, flag, visibility or outcome. Without that,
`CreateReport`, which writes three of these columns and reads none, could break
both. Every action but two *keeps* each row (`Keeps`: the row stays good and its
outcome stays); `ResolveCase` and `CloseWithoutReassignment` set the outcome and
the delivery together (`FinishedInv`). The release pass is reduced once, in
`ReleasedRow`, to "every row is as it was, or is a waiting one as `_assign`
leaves it", whatever the weighted choice picked.

`RowMoves` says what a step can do to an Auditor's row: it is *quiet* (no
exposure given back but by a due reset, no new SOS, no hold ended) or it is one of
the Auditor's own resolve, an SOS, the Manager's check-in, an alert being worked
on, a job's commit. The three wellbeing theorems read off it.

`PassInv` is what holds of the release job's transaction while others commit around
it: the cases it has locked wait as they did when it locked them; whom it gave a case
was fit in its row; and of an Auditor it has not `missed`, its row differs from
the table's by its own reset only, which was due (`ReadRight`). `DailyInv` says the
same of the daily job. Every action is shown either to leave an Auditor's row, break
and cases alone or to put the Auditor into `missed`. With them the two commits obey
`NewOwnerIsFit` and `OneResetPerWorkday`, each by the first disjunct where nothing was
missed.

`CaseStays` needs `CaseInv` in one place: `CreateReport` writes the owner column
without reading it, and takes the case from nobody because a case not reported
yet has no owner. For `NewOwnerFit` every way to get a case asks a different
question (`CandidateFit`, `ReleasedFit`, `ReviewStepFit`), some of a row on which
the daily reset was applied first; each is shown to imply the same fitness.

The delivery theorems hold for every finite set of deliveries, all delays, every
budget and every bound (`DeliveryAssumption`: delays and budget are positive,
NULL is none of the values). They are about rows: `AdvancedRow`, `ManuallyRow`
and `SoonerRow` say that what an action does to a good row leaves it good and moves
it *forward*, and each action applies one of them to one row or to all.
`DeliveryInv` adds to the invariants that only a delivered row carries an action
and that no row means no attempts. `FewFallDue` bounds the attempts of one read by
the budget left, whatever the delays.

`Safe`, of the review page, joins the three properties with `TypeOK` and what they
rest on: `Alone` (a request that still has its page finds the page mounted, and
while a case loads there is one such request, the load), `Granted` (an accepted
password came with a session) and `HasSession` (a mounted page has a session in
the tab). Without `Alone` a load answered late would put a new page over an SOS
that waits; without `HasSession` a draft could be kept by nobody. They hold for
any finite number of requests in flight, any number of sessions and any length of
footage.

`Record`, of the portal, says that the reports are a list of well-formed rows
(`Listed`), that no version exceeds the number of reports (`Counted`), so a new
report's version is new, that access and messages are well-formed (`Filed`), and the two
properties. It holds for every set of clients, users, cases and periods.

The refinement of `Custody` computes the place of a case from its row. A step moves
nobody (`NobodyMoves`), one case (`OneMoves`), or waiting cases only, and `MovesTo`
gives the row of `Custody`'s step for each place a case moves to. Besides `CaseInv`
it needs `Analysed`: a case under analysis has been reported.

`ParkedCasesAreQueued` is not inductive: a case parked now gets the rank after the
last, which is new only if no rank is past the length of the queue. `QueueInv` adds
that ranks are distinct and none is past the number of ranked cases (`Ordered`).
The balance of a pass is an induction over its placements: whoever is given a case
had, before it, a score no higher than anybody else who is fit, and scores only rise
during the pass. For the job's pass, whose turns are steps, this is an invariant,
`PassEven`: of two Auditors it has not missed, the one given a case is without the last
of them loaded no more than the other. Both inductions, and those below, go through `FiniteInduction`: the
property is given as a set (of numbers, or of subsets), which the library's
induction theorems, whose property is an operator, do not offer.

`AdvanceIsTheLoop`: what has fallen due among the attempts left is a prefix
(attempt k is due only if those before it are), so the loop makes exactly as many
rounds as `Advance` counts, and its function is unique by induction.

`Exposed`, of the review page, counts units: what was watched and not yet reported is
in the player, in the unsent sample, or in a report in flight that may still fail,
each unit a pair of a slot and a number. A step adds, keeps or clears slots.

`MockInv` is types, `RowsOK` (a flagged case has no owner), `SosHeld` (the hold of
an SOS has its alert), `SosFlagged` (so has the flag). The stand-in's release pass
and its sorted lists are recursive functions; their values are given by prefixes.

`Sending` and `CasesStored` are what `Record` is for deliveries and cases: counters
stay under the budget while attempts go on, and a released figure is of rows that
exist. `PortalIsSound` compares counts made in four places; each pair is a bijection
or a disjoint union.

Each of the pages has an invariant of its own. `ReportInv`: at most one load is heard,
and what is shown, what that load carries and what is on the server come in this
order of revisions. `ChatInv`: the conversation alternates, and what is awaited
answers its last question (so an answer that is heard follows it); what is stored
is a prefix of such a conversation. `ReporterInv`: the page opened for a report
carries its Case ID, the pages that the Back button and an answer to a form left
earlier open included; `ReporterTyped` adds to the types that submissions left under
way have room to be answered. `QueueInv` and `ReleaseInv` are types and that what is busy is
under way, both inductive as they stand: an answer that ends a request frees what the
request kept busy, even when the list was loaded anew and the switch unmounted
meanwhile; only a save made to release has the dialog wait for it. The types of a
report need that its figures were generated no more often than it changed.

The five tabs of `MCOffice` have an invariant each (`OfficeInv` joins them): a step
moves one of them and leaves the variables of the others alone.

- `AppInv`: a load's call is one its role may make and its answer is marked as served
  when it was (`LoadFits`); one that is heard carries the present session's token and
  is of the present address (`HeardHere`), so an answer ends no other session. Only
  addresses behind the sign-in are remembered as `from`. `RedirectsSettle` is about
  addresses alone: a redirect leads to one that stays, or to the sign-in, from which
  nobody goes on (`OneRedirect`, `SignInIsLast`); both rest on `RoutesAre`, what the
  table of routes says of any address in it.
- `ResultsInv`: on the results page an action in flight carries no note but its own
  result's, one that follows RCS carries RCS's decision, and one answered with success
  was recorded (`ActionOK`); a remark is of the result whose dialog is open.
- `DeskInv`: a call answered `done` was carried out with success; past the gate the
  access is on record; what is told is in `done`; every limit the server has had is
  there too, so once a load has succeeded the limit named is one that was set
  (`DeskNames`).
- `ListInv` is typing (rows have a severity, the Clients loaded are those served, the
  page is no further than there are rows) and `ListAlerts`: an alert's status is one of
  the three the SOS page has a section for. The properties follow from the order:
  `Before` is total and transitive, so the rows above a row number it, each number
  below the count once (`NumbersAre`, by an injection between sets of one size), and
  the slices hold each number once (`SliceOf`) and, up to the last page, at least one
  each (`PagesOf`). With one Client served there is nothing to choose (`OneChosen`).
- `HistoryInv`: going on to older entries, every entry between the cursor and the
  newest one seen was seen, and what was seen below the cursor is on the cursor's page
  (`EventsSeen`); of the cases decided no later than the newest one seen first, those
  before the offset were seen, though more are recorded meanwhile (`ComparedSeen`);
  what is shown answers the question it is under (`AsAsked`).

These hold for any number of results, actions, Auditors, rows, Clients, entries and
sessions, and every page size, window and limit.

The theorems about the frontend assume what TLC evaluates in the passing runs:
`MockAssumption`, `PortalAssumption`, `NullIsNoRow`, `ReviewAssumption`,
`NullAssumption`, `PlaybackAssumption`, `StoredAssumption`, `QuestionsAssumption`,
`NoNoteAssumption`, `RevisionAssumption`, `ActsAssumption`, `MaxReportsAssumption`,
`ChangesAssumption`, `HistoryAssumption`, `DeskAssumption`, `ListAssumption`,
`PathsAssumption` (bounds are numbers, sets are finite and not empty where something must be in them, NULL and its
like are none of the values, the rows a list may hold have a row's columns).
`GuardsFitTheCalls` compares the table of routes with that of the calls.

The tables of routes are sets of records, and `ListPages` numbers rows instead of
sorting them, because the provers know neither `:>` and `@@` nor the sorting
operators of the community modules.

Only model-checked: `ParkedIsPlaced`, `AttemptsEnd`, `QueueConverges` and
`InboxConverges`, liveness under fairness, which is out of the prover's reach. Every
safety property of a passing run is a theorem.

## 6. Not modelled, and why

Of the backend: the stamps of an escalation and of a connection test (nothing reads
them back), the times recorded with the attempts, the governance log, report
submission before the case row exists and with a remote selector, wellbeing support
requests, sessions and rate limits on the server's side, severity and timeline
arithmetic: planned below. The backend's own handlers for reports, access and client
messages are not modelled; the stand-in's are. Two instances of the backend at
once: handlers, unlike the jobs, are atomic. Chat, labels and lists only read.
Clients of the remote models, ffmpeg, the object store and the migrations are I/O;
their failures appear as the failure path of the analysis.

Of the frontend: the landing site, the product tour and the onboarding form
(presentation; the form keeps nothing), design tokens, charts, evidence panels
and the report sheet (they show what they are given), the block puzzle and the
wellbeing check-in (state of their own that nothing reads), the cooldown page's
timer, the insights page, the customer's connection page and the client's message
form. The last two keep what belongs to another Client and are listed as hazards.
Focus, key handling and media queries are left out everywhere.

Whether an Auditor's several tabs, or several Managers' pages, agree with each
other is only modelled through what others change on the server.

## 7. Plan

Order of work, most important first; each module with its own MC module and runs.

1. `Governance`: run and call life cycles, replayed and conflicting receipts,
   reconciliation, crash; an abstract write-once outcome that it implements.
   Theorem: an outcome, once recorded, never changes.
2. `RowLocks`: two instances, handlers split into read and commit, with and
   without FOR UPDATE.
3. `ReportSubmission`: upload, clean-up, the remote selector's late answer.
4. `Severity`: tiers, segment merging and frame choice as functions, checked
   against reference definitions over bounded inputs.
5. `CustomerPage` and the client's message form; the server's `RateLimit`.
6. The backend's reports, access and messages against the invariants of
   `PortalProofs`.

Theorems to add, with each module above: its invariant, and for `Governance` the
refinement of its write-once outcome.
