# Rex OS in TLA+

This directory holds TLA+ specifications of the parts of Rex OS whose
correctness depends on what happens between two steps: the assistant's action
queue with the cards that drive it and the task tools it runs, the background
job runner with the jobs that raise alerts, the Procore sync and the job around
it, the rows that are computed from other rows, and the project-bound records
behind the HTTP interface. TLC checks them on small instances; TLAPS proves
their safety properties for instances of every size.

Contents: 1 the system, 2 the modules, 3 the action queue, 4 the action cards,
5 the task tools, 6 the job runner and its lock, 7 the alert jobs, 8 the Procore
sync, 9 the Procore job, 10 derived rows, 11 records and access, 12 what is
proved, 13 disagreements, 14 what is not modelled, 15 the plan.

## 1. The system

A FastAPI backend over one Postgres database, several instances of which may
run (Railway), and a React frontend. SQLAlchemy sessions (`app/database.py`,
pool 10 + 5) serve the CRUD services; a second, autocommitting asyncpg pool
(`backend/db.py`) serves the assistant's tools. There is no transaction around
a request: every service commits when it likes, so what other requests see
between two commits is the system's real state space.

| Component | Code | State | Operations | What is hard | What makes it correct |
|---|---|---|---|---|---|
| Action queue | `services/ai/action_queue_service.py`, `repositories/action_queue_repository.py`, `routes/actions.py` | `rex.action_queue` | enqueue, commit, discard, undo | effect and record are two commits; no update looks at the status it overwrites | a row never claims what did not happen; no effect without approval; auto-pass at most once; undo only what was recorded, inside its window |
| Action tools | `services/ai/tools/*` | tasks, notes, RFIs, ... | handler, compensator | stale undo, `MAX + 1` numbers, Procore plus a local write | undo restores what it changed |
| Action cards | `assistant/ChatThread.jsx`, `ActionCard.jsx`, `useAssistantState.js`, `lib/actionsApi.js` | one card per action | show, approve, discard, undo, retry, dismiss | lost responses, a 200 for every outcome | one request at a time; a button never offers what the row refuses |
| Job runner | `jobs/runner.py`, `routes/admin_jobs.py` | advisory locks, `rex.job_runs`, the pool | scheduled and manual runs | several instances, crashes, connections held while waiting for more | one runner per job, true history, no run waits for ever |
| Notifications | `services/notifications.py`, `jobs/*.py` | `rex.notifications`, status columns | upsert, resolve, read, dismiss; nightly jobs | select, then insert against a partial unique index; one transaction beside users' edits | one open alert per user and subject; alerts and statuses of one commit agree |
| Procore sync | `services/connectors/procore/*`, `sync_service.py` | staging, canonical tables, links, cursors, `sync_runs` | sync one resource | a commit per row, one cursor for all projects, overlapping callers | nothing fetched is dropped; the copy converges |
| Procore job | `connectors/procore/scheduler_job.py`, `mapper.py`, `payloads.py` | the same, on one session | every resource in turn | rows a mapper or a table refuses, an aborted transaction | what succeeded is stored; clean rows converge |
| Closeout | `services/closeout.py` | checklists, milestones, warranties | item updates and rollup, evidence, certification, gates | item and rollup are two commits; gates and readiness are two rule sets | counts match items; a gate passes only for work that was done |
| Financials, field ops | `services/financials.py`, `field_ops.py` | budget lines, punch items | rollup and ageing refreshes | read, compute, write without a lock | derived columns are computed from their row |
| Records and access | `dependencies.py`, `services/crud.py`, all `routes/` | fifty tables, memberships | POST, PATCH, GET, list | the check and the write are two steps; a list's join and a route's look-up are written apart | a row stays in the project it was checked in; both readings agree |
| Sessions | `services/auth.py` | sessions | login, logout, purge | expiry between requests | no request passes on what was revoked before it began |
| Chat service | `services/ai/chat_service.py` | conversations, messages | stream | stream cut between two messages | every user message has its answer |
| Migrations | `app/migrate.py` | applied files | apply in order, seed | several instances at start | order, and all or the failed one |
| The rest | storage, e-mail, SQL guard, catalog, read models, pages | one table or none | | little | |

How they interact: the chat stream enqueues actions (`ChatService` calls
`ActionQueueService.enqueue`) and its frames become cards; the cards' buttons
are HTTP requests that run `commit`, `discard` and `undo` concurrently with the
stream and with each other; the tools they run write tables that people edit
through the records' routes and that the sync upserts. The job runner calls each
job's function in its own session; the Procore job calls `sync_resource`, which
the admin endpoint calls too. Jobs write notifications and statuses, which users
read, dismiss and refresh by hand.

The hazards, with file and line, are in `PROJECT.json`.

## 2. The modules

| Module | Models | Uses |
|---|---|---|
| `ActionQueue` | the queue: `enqueue`, `commit`, `discard`, `undo`, `_run_handler` | |
| `ActionCards` | one browser tab on top of the queue; implements it | `ActionQueue` |
| `TaskTools` | the task tools' reads, writes and compensators on `rex.tasks` | `ActionQueue` |
| `JobLock` | what the runner promises its jobs: one inside per lock | |
| `JobRunner` | `run_job_now`, its lock, rows and pool; implements `JobLock` | `JobLock` by refinement |
| `AlertJobs` | the jobs' transactions and the users beside them | `JobLock` |
| `ProcoreSync` | `sync_resource` of one resource, commit by commit | |
| `ProcoreRows` | payload builders, mappers and table constraints, as operators | |
| `ProcoreJob` | one session over a list of resources, beside the assistant | `ProcoreRows` |
| `RowWriters` | how a session loads and flushes rows | |
| `Closeout`, `Refreshes` | checklist and milestones; budget and punch columns | `RowWriters` |
| `DerivedRows` | both behind the same sessions | `Closeout`, `Refreshes` |
| `Tables`, `Payloads`, `Routes` | fifty tables, their bodies, routes and lists, as data | |
| `Records` | users writing and reading those records | `Routes` |
| `MC...` | the instances TLC checks | |
| `ActionQueueProofs`, `JobRunnerProofs`, `AlertJobsProofs`, `ProcoreSyncProofs`, `ProcoreJobProofs`, `DerivedRowsProofs`, `RecordsProofs` | theorems | the module each is named after |
| `QueueClientsProofs` | theorems about both that use the queue | `ActionCards`, `TaskTools`, `ActionQueueProofs` |

A module first declares its parameters and their assumption, then its state,
the helpers, the actions, the specification with and without fairness, and the
properties. Some hold *variants* of a definition (`InsertUnlocks`,
`WarrantyTiersToday`, ...) with a plausible mistake in it. No specification uses
them. Each property fails under one of them, so each says something the code
could get wrong.

Deadlock: requests, presses, runs and edits are finite in the instances, so
most configurations say `CHECK_DEADLOCK FALSE`. `ProcoreSync`, `ProcoreJob` and
`Records` never stop and are checked for deadlock.

## 3. ActionQueue

State: `row` is `rex.action_queue` (status, `requires_approval`,
`committed_at`, whether `result_payload` is set); `pc` and `job` are the
coroutines: the chat stream that enqueued an action, or an HTTP request, with
what it read when it began; `applied` and `reverted` count how often the
handler's and the compensator's effects took place, which no table records;
`now` is the clock, one tick of which is any time up to the undo window.

One action per await that reaches the database or Procore. `Approve`, `Discard`
and `Undo` are the first read of a request with everything before its next
commit; `HandlerApplies`, `HandlerRaises` and `HandlerAppliesThenRaises` are
`spec.handler` (the last is a tool like `answer_rfi` that writes to Procore,
then fails locally); `RecordSuccess`, `RecordRaises` and `RecordFailure` are the
end of `_run_handler`; the `Compensator...`, `FailUndo`, `CloseUndo` and
`CloseOriginal` actions are the end of `undo`. `Cancel` is a coroutine that
never resumes, at any await. Requests that the service refuses change nothing
and are no step. Undo is modelled for actions; the correction rows it inserts
are rows of their own, whose ids no client ever sees except to discard.

| Run | Instance | Shows |
|---|---|---|
| `queue_undo` | one internal action, three requests of any kind, clock 0..3 with a window of 1, symmetric requests; 222 033 states | whatever order undo, discard and approve take, and wherever they are cancelled: `TypeOK`, `NoFalseClaim`, `UndoFollowsRecord`, `UndoInWindow`, `AutoRunsOnce`, `RepeatsAreUnrecorded` |
| `queue_mix` | an internal, an external and an unregistered action, two requests, no clock; 19 088 states | `RunsOnlyWhenApproved` when external actions race too; `StartedIsSettled`: a handler that started is recorded or failed, and `UndoIsSettled`: an undo that began ends as a failed correction row, or as a recorded one with the original undone, both unless cancelled |

Three requests are enough for every pair to overlap while a third comes before
or after; the clock needs one tick inside the window, one on its edge and one
past it. Time plays no part in `queue_mix`.

Fairness: weak fairness of each coroutine's next step. The event loop resumes a
coroutine whose await completed. A call to the database or to Procore completes
or raises, and an exception is one of the outcomes. A call that hangs is not
excluded: the tools' asyncpg pool (`backend/db.py:28`) sets no
`command_timeout`. Its coroutine never resumes, which is `Cancel`, and the
liveness properties end there. Nothing is assumed of requests arriving or of the
clock.

What the code does *not* promise, and the model shows by not stating it: an
action may take effect twice when two approvals overlap, a discard may be
overwritten by the outcome of a running handler, a row may be `failed`
although the effect took place, and any row may be discarded (section 13).
`RepeatsAreUnrecorded` says what the code does promise of repeats: when an action
that took effect can be approved or undone once more, a request that did it has
not written its outcome or never will, because it died.

## 4. ActionCards

`card` is what the reducer holds for each action (state, `committed_at`, busy),
`asked` the request behind each press as client and route see it, `dropped` the
actions for which a response was lost. `Show` is the frame the stream yields
when `enqueue` returned; `Press` a click that the card's buttons offer; `Accept`
and `Refuse` the route and the service's first test; `Answer` the response
(200 for every outcome of the service, 500 when it raised) and `Drop` its loss.
The queue's own actions run underneath.

`cards_tab` (one action, three presses, clock 0..2, responses may be lost,
requests may be cancelled; 390 800 states) checks

- `OnceFromOneTab`: the queue lets two overlapping requests both act; the busy
  flag of the card is what keeps them apart, so an effect happens at most once
  unless a response was lost or a request died;
- `BusyIsOneRequest`, `ApprovalCardIsPending`: the card and the row agree;
- `DrivesTheQueue`: the tab with its cards implements `ActionQueue`'s
  specification, with the queue's variables as refinement mapping;
- `BusyClears`: a busy card becomes usable again unless a response was lost.

Three presses give a retry after a failed approval, or an undo between two
others. Fairness: a request that was sent is received, its coroutine runs on and
a response that is not lost arrives; presses are not assumed.

## 5. TaskTools

The queue with the effects of three of its tools spelled out: `tasks` is
`rex.tasks` by id (project, number, status), `args` what the model passed,
`look` what a handler read, `since` (history) the tasks somebody else wrote
after that. `HandlerReads` and `HandlerWrites` are the two statements of
`create_task` (`MAX(task_number) + 1`, insert), `update_task_status` (the old
status, update) and `delete_task` (the snapshot, delete); `CompensatorWrites` is
the one statement of the undo; `PatchTask` a person's `PATCH /api/tasks`, which
counts as somebody else's write for every worker. The tools' actions
take the queue's `HandlerApplies` or `CompensatorApplies` with them. The other
undoable tools have one of these three shapes.

`tasks` (two task actions, two requests, a project with one task, one edit, two
statuses of which the tool also offers one the table refuses, clock standing
still; 1 066 899 states up to symmetry) checks `LoneUndoRestores`,
`NumberIsTakenOnlyByARace` and `UndoneCreationStaysGone`. Two actions give every
pair of tools on one task; one edit falls anywhere between their steps. The
seed's number is 2, so that numbers have a gap.

## 6. JobRunner and JobLock

A run is a call of `run_job_now`. `pc` follows it through the lock and the three
phases, `rec` is its `job_runs` row, `holders` the runs whose transaction holds
their advisory lock, `lost` those whose lock connection dropped. The pool is not
a variable: the connections a run holds follow from where it is (`Held`), the
request's own for a manual run, `lock_conn`, and the session of phase 2.
`StartTimeout` and `PoolTimeout` are `pool_timeout` expiring: in phase 2 it is
inside the job's `try` and becomes the job's failure, elsewhere it leaves
`run_job_now`. `Dies` is a crash, a cancelled task or a failed statement.

`JobLock` is the promise to the jobs: nobody else is inside from before the
job's function begins until its outcome is recorded, as long as the lock's
connection lives. `StageOf` maps a run's `pc` to its stages.

`jobs` (one job; a manual and a scheduled run on one instance, a scheduled one
on another; a pool of 3; 15 288 states) checks `OneRunner`, `RowTellsTheRun`,
`SkipsOnlyBehindARun`, `CallsEnd` and the refinement `ImplementsLock`. A pool of
3 is the smallest in which two runs hold every connection while both wait for
another (a manual run inside the lock holds two, a run about to record that it
was skipped holds one). Fairness: each run's next await completes or times out,
which the pool's 30 second default timeout and Postgres guarantee; a job's
function is assumed to end. A job that hangs holds its lock for ever: the code
has no timeout for it.

## 7. AlertJobs

The jobs that raise alerts, over `JobLock`. A job is one read-committed
transaction (`txn`): `JobBegins` loads the subjects, `Look` computes a subject's
status and tier and reads who has no open alert, `Raise` inserts the missing
ones, `Clash` is the insert that meets the partial unique index,
`JobCommits` resolves what is stale and commits, `JobRollsBack` is an exception
or a crash. A statement that writes a row or index entry of another open
transaction waits for it. Beside the jobs users mark, dismiss, edit a subject,
join and leave, refresh a warranty's status by hand (`RefreshReads`,
`RefreshWrites`), and days pass. `alert` keeps the open alerts only: a resolved
or dismissed row is never opened again.

The tiers and both status rules are operators over days (`WarrantyTiers`,
`InsuranceTiers`, `DriftTiers`, `AgingTiers`, `JobStatus`, `ServiceStatus`).

`alerts` (two runs of the warranty job, one warranty, an admin and a member,
days 0, 90 and 91 with expiry dates 90 and 200, two user acts; 445 203 states)
checks `ClashesOnlyWithoutLock`, `OneTierPerUser`, `RulesDifferOnLastDay` and
`CommitAgrees`. The days are the edges of the 90 day window and of the expiry;
two acts put an edit and a refresh, or a membership change and a dismissal,
around one transaction. `upsert_notification` itself does not guard against two
transactions; the lock does, which is why the first two properties mention a
lost one.

## 8. ProcoreSync

One resource of one account. `src` is the source's rows, whose content is their
version and also their `updated_at`; `staged`, `canon` and `links` are what
reached the raw table, the canonical table and `connector_mappings`; `cursor` is
`sync_cursors`; `sync` each caller's progress with its `sync_runs` status;
`seen` is history, the newest version any sync fetched. `CursorCol` selects the
kind of resource: `updated_at` (RFIs), `procore_id` (projects, users, vendors)
or none (the five resources of the direct API, which ignores the cursor).
`Fetch`, `Stage`, `Write`, `Link`, `Advance` and `Finish` are the pipeline's
commits, in the code's order; `Stops` is an exception or a crash at any of them.

| Run | Instance | Shows |
|---|---|---|
| `sync_rfis` | one caller, three rows of two projects, one linked late, a page of one, three changes, two failures; 56 680 states | `NothingFetchedIsDropped`: whatever a failed sync fetched stays in front of the cursor; `CursorNeverGoesBack` |
| `sync_direct` | two overlapping callers, two projects, no cursor, two changes, one failure; 42 127 states | `Converges`: the copy reaches the source |
| `sync_starved` | expected to fail: section 13 | |

A page of one row is the smallest that leaves rows behind; three changes let a
row change after it was fetched and after the cursor passed another. The rows
of `sync_rfis` have distinct stamps; rows with one stamp can be cut apart by the
page's end and lost, as those of `sync_starved`. `NothingFetchedIsDropped` needs
a single caller: an overlapping sync can move the cursor past rows a failed one
fetched. Fairness: each caller goes on and the resource is synced again (the
cron is `*/30`), projects are linked eventually, and failures are bounded.

## 9. ProcoreJob and ProcoreRows

`ProcoreRows` says of one source row what the builder, the mapper and the table
make of it: which natural key it gets, whether the mapper raises (a date that is
no date) and whether a constraint refuses the result. A value is reduced to
absent, listed, alias or foreign.

`ProcoreJob` is a session that takes a list of resources one after the other
(`StartRun`, `Fetch`, a row at a time, `FinishRun`). `MapperRefuses` fails the
run; `TableRefuses` also leaves the transaction aborted, so the run cannot even
be marked failed and every later resource of the session fails. `FetchRaises` is
an HTTP error, `Crash` the end of the process. Beside it `ToolProposes` and
`ToolInserts` are the assistant's `create_change_event`, a plain insert into the
table the sync upserts.

`sync_job` (submittals that fit, lack a title or have a garbled date, before two
change events of which two may share a number, one proposal of that number, four
changes, one failure; 68 270 states) checks `SucceededMeansStored`,
`ProcoreWins` and `CleanPartConverges`. One refused row before a clean resource
and one inside it are the two ways to be blocked. Fairness: the session's steps
are weakly fair, and beginning each list strongly so, because the tick comes
again whenever the last session has ended.

## 10. Derived rows

`RowWriters` is SQLAlchemy as the services use it: a session loads a row once
(`Load`), keeps it over several commits (`expire_on_commit` is off) and writes
only the columns that differ from what it loaded (`Flush`); nothing compares the
row with what was loaded. `stale` (history) marks loaded rows another session
has written since.

`Closeout`: a PATCH of an item is `ReadItem`, `ReadParent`, `CommitItem`,
`Count`, `WriteRollup`, any prefix of which may be all that happens (`Dies`);
`AddItem` and `FromTemplate` insert items; `Evaluate` and `Certify` are the
evidence and certification of a milestone; `PostList`, `PatchList` and
`PatchMilestone` are the plain POST and PATCHes. The schemas of a checklist's
POST and PATCH accept its three counters (`schemas/closeout.py:66-75`), so
anybody who may write the checklist can set the percentage without an item
being complete; `byHand` (history) records that it happened. The gates and the
readiness are operators over the rows. `Refreshes`: the rollup of budget lines and the age of punch items, for one row
or the project, beside PATCHes of their inputs.

`derived` (two requests, four calls, a checklist of three items, two milestones,
a budget line and a punch item, symmetric items and requests; 795 328 states)
checks `LoneRollupHeals`, `LoneCertificateIsTrue`, `GatePassedOnce`,
`ReadyMeansGatesAgree` and `LoneRefreshAddsUp`. "Lone" properties are about
requests nobody overlapped on the same row: two that overlap do lose updates,
and a torn rollup stays until the next PATCH of an item. Three items make
thirds, whose percentage is no exact float. Percentages are hundredths, rounded
half to even, as the column stores them. With one budget line the totals of
`LoneRefreshAddsUp` are that line's; for more lines they are proved (section
12).

## 11. Records and access

`Tables`, `Payloads` and `Routes` are data, translated one ORM class, schema and
route file at a time: the references and required columns of each table, what a
body must carry and may re-point, through which references a route finds a row's
project, which level a write needs, and by which joins a list finds the project.
`Records` lets users use them: `Ask` follows the references and checks the
user's level, `Create` and `Update` write what was checked, later; `SetMember`
and `SetCrew` change memberships in between; `Fail` is a refusal or a crash.
`Gets` and `Listed` are what the detail routes and the lists show. A path to the
project has at most three references (`lien_waivers` has three), so `Follow`
names each hop; a row that is missing on the way has no references (`References`,
the 404 of `get_by_id`).

`records` checks `CheckHoldsAtWrite`, `ListAgreesWithGet` and
`RowStaysInItsProject`, with an ordinary user and a VP over two projects, in 25
families of tables that refer to each other; every table is in one. A family
holds one row of each table (two where a move between parents is thinkable),
which is enough for a reference to lead to the wrong project. The proofs
(section 12) are for every family, with any number of rows.

## 12. What is proved

TLAPS checks these for any sets of actions, requests, runs, jobs, instances,
users, subjects, tasks, rows and sessions, any undo window, page and pool size.
Each follows from an inductive invariant, which TLC confirmed on the runs'
instances before it was proved. The assumptions are the named ones on the
constants, which TLC evaluates, and the few hypotheses named below, which stand
in the theorems themselves.

`ActionQueueProofs`: `IInv` is `TypeOK` with `ActionInv` (what a row says about
its effects), `HandlerInv` (who may be inside `_run_handler`, and for what) and
`UndoInv` (what an undo carries from its first read to its last write). The
properties are not inductive alone: that a compensation follows a record needs
to know that an undo which read a result read one that stays. From
`InitEstablishes` and `StepPreserves`, with one step per action: `TypeCorrect`,
`ClaimsAreTrue` (`NoFalseClaim`), `UndoAfterRecord`, `UndoTimely`,
`AutoAtMostOnce`, and the action property `ApprovedBeforeRun`. `RepeatNeedsADebtor` (`RepeatsAreUnrecorded`) is inductive
beside `IInv`: what has to be found after each step is a request that owes its
outcome, and it is the one from before the step unless that step was its own
(`DebtorStays`, `RepeatsPreserved`).

`QueueClientsProofs`, the cards: `CardsImplementQueue` is the refinement. A step of the tab
is a step of the queue because a request that was sent names an action and a
button (`SentInv`); everything proved of the queue then holds under the cards
(`ClaimsAreTrueInATab`, `AutoAtMostOnceInATab`). `TabInv` says where a request
is in the queue given what its press looks like (`Carried`), that the busy flag
stands for one request (`Exclusive`), and that while nothing was lost or died an
effect that is still possible has not happened (`Once`). From it
`OneTabActsOnce` (`OnceFromOneTab`), `OneRequestPerCard` (`BusyIsOneRequest`) and
`OfferedIsPending` (`ApprovalCardIsPending`): `Lone`, that a request at work on
an action is the one its card waits for, carries the argument.

`QueueClientsProofs`, the task tools: `ToolsKeepToTheQueue`, that a step of the task tools is a
step of the queue, so the queue's `IInv` holds under them and is the first half
of `TaskInv`. The other half says of a status change where it stands with a task
nobody else wrote (`StatusInv`: not begun, written, or written back), of a
created task that was compensated that it is gone or was reinserted by the undo
of a deletion (`CreateInv`), and of a number about to be given that it is above
those of all tasks not written since (`NumberInv`). From it `UndoneTasksStayGone`
(`UndoneCreationStaysGone`), and the action properties `UndoRestores`
(`LoneUndoRestores`) and `NumbersAreFresh` (`NumberIsTakenOnlyByARace`). The
proof showed that the history variable did not count a person's PATCH as
somebody else's write in one case; `PatchTask` now writes as `"people"`.

`JobRunnerProofs`: `IInv` adds to the types and the history that whoever is
inside the lock holds it or lost it, that only runs inside hold it, and that no
two holders share a key. From it `Exclusion` (`OneRunner`), `HistoryIsTrue`
(`RowTellsTheRun`), `SkipIsJustified`, `TypeCorrect`, and the refinement
`RunnerImplementsLock` (`ImplementsLock`).

`AlertJobsProofs`: `IInv` is the types, that two runs inside one lock have one
of them exposed, and per run that no other transaction owns what it writes and
that what it found missing is missing still while no lock was lost. From it
`LockKeepsJobsApart`, `OneTierIsOpen`, `CommitsAgree`, and, from the rules
alone, `RulesAgreeElsewhere`.

`ProcoreSyncProofs`: `TypeCorrect` needs `Provenance` (no copy is newer than
where it came from). `IInv` adds that rows are told apart by their mark
(`Apart`), that a sync's page and the place it will move the cursor to lie past
the cursor (`CursorInv`), that the page holds the newest fetched version of its
rows (`PageInv`), and that whatever is pending when a sync is under way it will
still fetch, has on its page, or leaves in front of the place it will move the
cursor to (`Covered`): the advance of the cursor at the end is then safe. From
it `FetchedRowsAreNotDropped` (`NothingFetchedIsDropped`), under two hypotheses the code does not enforce:
`OneCaller`, that nobody else syncs the resource meanwhile (the runner's lock
keeps two ticks apart, but `POST .../sync/{resource_type}` takes no lock), and
`NoTies`, that no two rows share a place on the cursor's axis. TLC finds a
dropped row when either is taken away, so both are needed. Without a cursor
column neither is: `DirectRowsAreNotDropped`. `CursorIsMonotone`
(`CursorNeverGoesBack`) needs `OneCaller` only.

`ProcoreJobProofs`: `IInv` is the types and `Stored` (each row the run has dealt
with is in place). From it `SucceededIsTrue` (`SucceededMeansStored`) and
`SyncIsNeverUndone` (`ProcoreWins`); `TolerantRowsAreAccepted`, about the
operators, says which resources no constraint can refuse.

`DerivedRowsProofs`: every request of the closeout and of the refreshes is a
step of a session (`EveryStepIsARowStep`), and a session's steps keep the rows'
columns and the meaning of `stale` (`RowStepKeeps`); hence `RowsAreCurrent`:
what a session holds is the row as it is, or is marked. A commit of a row that
is not marked then writes exactly what the request computed (`FreshWrite`), from
which follow the properties about lone requests: `RollupHeals`
(`LoneRollupHeals`), `CertificateIsTrue` (`LoneCertificateIsTrue`) and
`RefreshAddsUp` (`LoneRefreshAddsUp`), the last for any finite number of budget
lines. `GateIsEarned` (`GatePassedOnce`) is not inductive: a percentage of 100
may come from a session that loaded it long ago or from a count whose request
has not written it yet, so `PercentInv` says of everyone who knows such a
percentage that it was earned. Two hypotheses stand in these theorems.
`NoneIsNoRow`: the absence of a row is not a row. `ShortList`: the list has
fewer than 20 000 items; from there on `round(completed / total * 100, 2)`
reaches 100 before the last item is complete, and the property is false.
`GradingsAgree` (`ReadyMeansGatesAgree`) holds of any rows whatever.

`RecordsProofs`: facts about the data come first, one step for each of the 57
resources. `ScopesArePinned`: the body of no PATCH sets a reference that a scope
follows, in the row itself or in a row along the way. `ListsAreScopes`: the join
of every list follows the references of the detail routes. Neither has a
hypothesis, so a schema that let a client re-point such a reference, or a list
with another join, would make a step fail. Then behaviours: a step drops no row
and changes no pinned reference (`RowsKept`), so a path that led through stored
rows leads where it led (`FollowStays`). What keeps this from being inductive is
a reference to a row that is not stored yet, which would lead somewhere else
once the row is created. Hence `IInv`: the types, `KeysHold` (every stored
reference is empty or leads to a stored row, which the foreign keys enforce when
a row is written) and `CallsHold` (what a checked write carries is of its table,
and still leads to the project that was checked). The id a client makes up in a
POST is no exception: a check that found a project found the row
(`CheckedPathIsStored`). From it `ChecksHold` (`CheckHoldsAtWrite`),
`RowsStay` (`RowStaysInItsProject`), `ListsAgree` (`ListAgreesWithGet`),
`ReferencesLead` (`KeysHold`) and `TypeCorrect`. No route of these resources
deletes a row; where one did, `RowsKept` would be false. The assistant's
`delete_task` does delete tasks, which `TaskTools` models: no scope leads through
a task, so it moves no other row.

The provers have no induction over data, since the library's induction theorems
take an operator as a parameter. Two facts were needed all the same, and are
proved from a least counterexample under set inclusion, which the library does
provide for sets: that a finite set of numbers has a largest (`Largest`), for
`MAX(task_number)` and the cursor, and that the sum of differences over a finite
set is the difference of the sums (`SumOfDifferences`), for the totals.

Only model-checked: liveness (`StartedIsSettled`, `UndoIsSettled`, `BusyClears`,
`CallsEnd`, `Converges`, `CleanPartConverges`), which is beyond the prover. Every other
property that a passing run checks is stated by a theorem.

## 13. Where documentation and code disagree

One is a run that must fail, `sync_starved`: "ensures no project is starved".
The minimum is over projects that returned rows, so a quiet or newly linked
project is overtaken by the cursor.

These were met while modelling; the models have the code's behaviour and the
properties are stated so as not to deny it.

- `action_queue_service.py:9`, "discard: ... pending_approval → dismissed", also
  `routes/actions.py:7,104` and, of the card's pending branch, the phase 6 design
  (`docs/superpowers/specs/2026-04-21-phase6-commands-approvals-design.md:62`):
  the service (`:181-184`) and its route test no status. A discard sets a row to
  `dismissed` from any status: a committed, failed or undone action then no
  longer says so, and an auto-committed one can no longer be undone.
- `actionsApi.js:3-4`, "Retry after a failure = call approveAction again (re-runs
  the handler ...)": the service commits only a pending row
  (`action_queue_service.py:154`). A retry of an action whose row failed is
  refused with a 200, nothing runs, and the card turns green. It re-runs the
  handler only where the row is pending still: the request died, or it is still
  running and only its response was lost.
- "undoable for 60s": an auto-passed action cancelled between its effect and its
  record has no result, and every undo of it fails.
- `jobs/runner.py:88`, "Cross-instance safe": when the lock's connection drops,
  the job goes on in its own session and another instance runs it too.
- `orchestrator.py:456`, "converges on the new values": projects, users and
  vendors are fetched past the largest `procore_id` seen, so a change of a row
  that was passed is never copied.
- `orchestrator.py:168`, "Both paths upsert": `create_change_event` is a plain
  INSERT and fails on a number that is taken.
- `scheduler_job.py:50`, "failure of one does not affect the others": after a
  constraint refused a row, marking the run failed (`orchestrator.py:394`)
  raises on the aborted transaction, the run stays `running`, and the session's
  later resources fail.
- `orchestrator.py:52`, "Idempotent replay": a project without a number has a
  NULL in its unique key, NULLs are distinct, and a replay adds a row.
- `ChatThread.jsx:56`: "the card flips red". The route answers 200 for a failed
  handler, and the client shows every 200 green. A rejected fetch in
  `handleUndo` leaves its card busy.
- `update_task_status` offers `blocked` and `cancelled`; the CHECK on
  `rex.tasks.status` allows neither.
- `crud.py:79`: `exclude_unset` drops defaults the schema promises
  (`ProjectCreate.status`), and the NOT NULL column refuses the row.
- `closeout.py:976` keeps a claimed warranty claimed, but a refresh or a job
  that loaded the row before the claim writes its status over it; on the last
  day of a warranty the job says `expiring_soon`, the endpoint `expired`.

Smaller observations: an update or a delete of a task that has vanished still
succeeds; undoing a deletion brings back a task whose creation was undone; a
POST of an item rolls nothing up, so a gate stays `pass`; a PATCH of the
checklist may set its percentage, and with it the gate; an overdue milestone
with its evidence raises no readiness issue; several `final_co` milestones would
make `scalar_one_or_none` raise; the link query does not name the account;
several daily logs of a date share a row; a renumbered source row leaves the row
of its old number behind.

## 14. What is not modelled, and why

- Sessions, migrations, chat service, assistant state, storage: planned, below.
- The Exxir adapter returns nothing. Pages, forms, rendering, e-mail and the
  language model are I/O. The SQL guard and the catalog analyse text; the quick
  actions, the portfolio page and the summaries only query.
- Of the tables: value columns, their CHECKs, and references to companies,
  people, templates and accounts. Of the sync: columns no conversion or
  constraint can refuse, and the routes that list connectors and runs. Of the
  tools: the external ones, which are effects of `ActionQueue` only.
- Simplifications inside the modules. Queue: `commit` of a slug that is no
  longer registered (`action_queue_service.py:161-171`), which a registry fixed
  at start never meets; `cards_tab` has an internal action only, so the external
  tools' late failure fires in `queue_mix` and not there; a person touches tasks
  by `PATCH` only. Alerts: `Raise` is the loop of selects and inserts per user in
  one step, and the row that `schedule_snapshot` itself inserts is left out. Sync:
  `ProcoreSync` opens a run, reads the cursor and the projects in one step;
  `ProcoreJob` fetches all projects in one and writes a row with its link in
  another, since `ProcoreSync` has those steps apart; `ProcoreRows` does not tell
  an empty string from a null (`mapper.py:131-135`: an empty date raises, an
  empty title is stored). Closeout: a project has one checklist where the code
  takes the best of several (`closeout.py:648-653,772-774`), and readiness reads
  one state where the code issues several SELECTs (`:759-880`). The milestones,
  budget lines and punch items are fixed sets: their POSTs are not modelled.
- Small hazards seen and left: `admin_jobs.py:38` takes a run for running after
  a crash; the duration of `sync_service.py:74` wraps at a minute;
  `crud.py:79` accepts a second reference into another project; the lists page
  by OFFSET without a total order; a PATCH may set a column to null explicitly.

## 15. The plan

1. `Sessions`: login, logout, purge and membership against requests.
2. `Chat` and the assistant's reducer: the order of frames and messages, and a
   card's patch that meets another conversation.
3. `Migrations`: ordering and restarts on several instances.
4. The action catalog's alias rules, as an algorithm over its data; storage,
   whose file and row are written apart.
