# FoxRunner server in TLA+

FoxRunner runs Selenium scenarios written in a JSON DSL. A Django API accepts
them as jobs, a Celery worker (or a thread of the web process) executes them,
and a command-line scheduler executes them once a day inside time windows. This
directory holds TLA+ models of the parts whose correctness depends on the order
of events, the TLC configurations that check them on small instances, and TLAPS
proofs of theorems that hold for every instance.

- `tlc -workers 2 -config X.cfg M` checks module `M` (the pairs are in the table of
  runs below); `tlapm M.tla` checks the proofs of `M`.
- `PROJECT.json` says, for each definition, which source lines it models, and for
  each property a plausible mistake in the code (an operator called `Bad...`) that
  breaks it. The `Bad...` operators belong to no specification.

Contents: [1 Inventory](#1-inventory), [2 Modules](#2-modules-and-the-code),
[3 Runs](#3-runs), [4 Proofs](#4-proofs), [5 Disagreements](#5-where-the-code-disagrees-with-itself),
[6 Left out](#6-what-is-not-modelled), [7 Plan](#7-plan).

## 1 Inventory

Paths are relative to `src/`. Two facts shape everything on the server side. There
is no `ATOMIC_REQUESTS`: each ORM statement commits on its own unless it is inside
`transaction.atomic`. And there are several processes: gunicorn with two workers,
Celery workers with early acknowledgement and `--pool=solo`, a beat, management
commands, and CLI processes that share JSON files with the server.

| Component | State | Operations | Interacts with | What is hard | What makes it correct |
|---|---|---|---|---|---|
| **Jobs** `ops/services.py`, `ops/runner_bridge.py`, `ops/tasks.py`, `ops/management/commands/reconcile_jobs.py` | tables `jobs`, `job_events`; messages at the broker; revoked task ids of each worker | create, dispatch (Celery or inline thread), execute, step events, cancel, retry, reconcile, prune | engine (runs it), idempotency (guards its creation), retention | four kinds of writers of one row without a lock; decisions on rows read earlier; two writes (row, event) with a fault between; redelivery; death anywhere | a job runs once; the row is coherent; a terminal status is explained by the log; what is over stays over; every job ends |
| **Retention** `ops/services.py`, `ops/tasks.py` | the same tables, audit, notifications | delete by age | jobs | selects, then deletes in batches | deletes nothing that is live |
| **Process lock** `state/store.py` | one lock file, its metadata, open handles | acquire, release, stale recovery | scheduler loop, history file | create-then-write, judge-then-unlink, pid reuse, platform rules for open files | exclusion; a dead holder does not block for ever |
| **Idempotency keys** `foxrunner/idempotency.py` | table of (key, fingerprint, response) | look up, store | every creating endpoint | look-up and insert are apart; death between creation and record | one resource per key; an answer is about its own body |
| **Scheduler loop** `scheduler/service.py`, `cli/__main__.py` | `executed_slots`, `next_execution`, `last_run`, history files | loop, run-next, run-slot, run-scenario | lock, slot planning, network guard, engine, notifier | the choice is as old as the wait; commands without the lock; UTC and local days; one temporary name | once a day, inside the window, no window missed, "running" is true |
| **Slot planning** `scheduler/model.py` | none | draw an execution time, search the next pending slot | scheduler | half-open windows, midnight, executed slots in the search | see scheduler |
| **Execution state files** `state/store.py` | executed slots, next execution, history (append, prune), heartbeat | load, save by rename, append, prune, import into the table | scheduler, system status, retention | rename against append; a lock that is given up after ten tries; half a line after a crash | no entry lost; the file can be read |
| **Scenario engine** `scenarios/runner.py`, `scenarios/engine.py` | the call stack, the context, the browser | hooks, group, repeat, parallel, try, retry, timeout, conditions, `continue_on_error` | operations, job events | exceptions and browsers through nested blocks | hooks, verdict and events tell the truth; no browser left; it ends |
| **Catalog** `catalog/services.py`, `catalog/api.py`, `catalog/permissions.py`, import in `ops/services.py` | tables of scenarios (with their steps), slots, shares, configuration; mirrored `scenarios.json`, `slots.json`; thread locks of each process | create, duplicate, edit, rename, delete, slots, shares, configuration, import; lists and permissions | the CLI and the scheduler read the files | file replaced inside the transaction; locks per scenario and per process for one file of all; reads before the lock; row locks taken before it and kept after it; permissions in three places | one undisturbed write makes file and tables agree; no edit lost; constraints hold; nobody waits for ever; who sees a scenario is answered about it |
| **Graph subscriptions** `ops/graph.py`, `ops/services.py`, `ops/tasks.py` | subscriptions, notifications; the state at Microsoft Graph | create, renew (request and task), delete, receive deliveries, prune | external service, beat | two writers and a remote side; repeated deliveries; NULL in a unique constraint; a secret that is rotated | nothing lapses unnoticed; each delivery stored once; no delivery of a known subscription refused |
| **Rate limit** `foxrunner/rate_limit.py` | Redis sorted set, breaker, in-process window | allow | every endpoint | clock read before the commands; equal timestamps; breaker and fallback | never more than the limit in a window |
| **System status** `ops/services.py` | none (reads heartbeats, pings) | check, fold into one status | beat, worker, Redis, database, scheduler | signs of life that travel through other parts; ages at the boundary | what is gone is reported; no alarm stays |
| **DSL loader and validator** `scenarios/loader.py`, `validator.py`, `schema.py`, `catalog/schemas.py` | none | parse, validate, build | engine, catalog | three checkers of one document, recursive over blocks, and one loader for all rows | what was accepted can be run |
| **Operations** `operations/*.py` | none | Selenium, HTTP, time, notify, context | engine | outside world | - |
| **Network detection** `network/*.py` | none | classify adapters, probe | scheduler | outside world | - |
| **Notifier** `app/notifier.py`, `app/mail.py` | none | send, swallow errors | jobs, scheduler | - | never raises |
| **Accounts** `accounts/*.py` | users, tokens, PushIT targets | register, activate, reset, edit; targets | HTTP layer, mail | saves of whole rows read earlier; two saves of a default target | no column goes back; one default per owner |
| **HTTP layer, settings** `foxrunner/*.py` | none | route, authenticate, paginate | everything | - | - |
| **Command line, scripts** `app/`, `cli/`, `scripts/` | none | parse arguments, supervise | scheduler | - | - |

The hazards, each at its line and with the properties that would catch it, are in
`PROJECT.json`.

## 2 Modules and the code

In every module an action stands for one indivisible effect of the code: one
database transaction, one system call, one call of the engine. Everything a process
does between two such effects is in the action, and where the code reads a value in
one statement and uses it in a later one, the value is a field of the process.

### JobLifecycle, JobLedger

`row` and `events` are the two tables, `queue` the broker, `revoked` the revoked ids a
worker remembers, `req` the web requests, `drv` the executions (a worker, or the thread
that request `r` started), `rec` the `reconcile_jobs` command, `prune` the retention task.

| Code | Actions |
|---|---|
| `enqueue_scenario_job`, `create_job` | `Enqueue` (row and "queued" event in one transaction) |
| dispatch: `delay`, save of `celery_task_id`, "submitted" event | `Delay`, `SetCeleryTaskId`, `SubmittedToCelery` |
| inline: "submitted" event, thread | `SubmittedInline`, `RunJobInline` |
| `cancel_job_for_user`, `mark_job_cancelled` | `FetchForCancel`, `Revoke`, `MarkCancelled` |
| `retry_job_for_user` | `Retry`, then as enqueue |
| the worker and `execute_scenario_job` | `TakeMessage`, `StartRun`, `AnnounceRun`, `StepEvent`, `ScenarioEnds`, `SaveOutcome`, `ReportOutcome`, `StatementFails`, `DriverCrashes` |
| `reconcile_jobs` | `ReconcileScan`, `ReconcileSave`, `ReconcileEvent`, `ReconcileFails` |
| `prune_database_records`, job part | `PruneScan`, `PruneEvents`, `PruneJobs`, `PruneFails` |
| time | `BecomesStale` (JOB_STALE_MINUTES), `BecomesAged` (RETENTION_JOBS_DAYS) |

Data: an event is its type, timestamps are the two booleans `stale` and `aged`, an exit
code is zero, nonzero or none.

`JobLedger` is what a client that polls the job may count on, whoever writes: a status per
job (unborn, live, forgotten), one submission, one start, "success" only after a run that
ended with 0, forgotten only after it was closed. It says little of "failed" and
"cancelled" because the code promises little: they can be written over a live run and be
overwritten by it. `JobLifecycle` defines the refinement mapping (`phaseBar`, `begunBar`,
`passedBar`, `closedBar`) and the property `LedgerSpec`.

### ProcessLock

One action per system call of `acquire`, `_recover_stale_lock` and `release`: `open` with
`O_EXCL`, `write`, `open` for reading, read, the judgement (age, liveness of the pid),
`unlink`. A file is named by the attempt that made it, so an unlinked file that is still
open differs from the one that has its name now. On Windows a file some handle has open
cannot be unlinked; on POSIX it can. `Crash`, `PidComesBack` and `GetsOld` are the world.

### Idempotency

`Receive`, `Get` (look-up: replay, 409 or go on), `Create`, `Store`, `Dies`, for endpoints
whose resource has a client-chosen id (scenarios: a unique constraint stops the second)
and for those where it has none (jobs).

### SlotPlan, Scheduler

`SlotPlan` holds the pure part of `scheduler/model.py`: windows, the draw of an execution
time, the candidate of a day, the search for the next pending slot. `Scheduler` has one
process per loop, run-next command and direct command (run-slot, run-scenario), each
with the variables of its Python frame: `Start`, `StartDirect`, `Plan`, `Gate`, `Wake`,
`Recheck`, `Guard`, `RunEnds`, `RunRaises`, then `mark_executed` as `Load`, `Write`,
`Replace`, then `Report`, `Resume`, and `Ends` for a process that stops anywhere. The
loops exclude each other by `ProcessLock`, of which `Start` uses the guarantee. The clock
moves by `Tick`, only when everybody waits, sleeps or runs a scenario.

### ScenarioEngine

The call stack is a sequence of frames: "list" frames are the loop of
`execute_steps_sequence` (or of a phase of `run_task`) with the browser it holds, "step" frames a
call of `_execute_scenario_step`. `ctl` says whether the top frame goes on, takes a
returned browser or takes an exception. `SkipTop`, `SkipNested`, `Begin`, `LaunchFails`,
`ConditionRaises`, `StepReturns`, `StepRaises`, `ListEnds`, `PhaseEnds` are the loops and the
hooks; `Operate` and `OperateWithout` an operation with and without a browser, with
its timeout; `BlockBegins`, `BlockGoesOn`, `Parallel`, `TryHandles` the blocks;
`AttemptFails` retry and `continue_on_error`. What an operation does to a page is reduced to
its outcome and to the browser it returns. A step is a place in a document (a node of the JSON tree, not its
text), so it belongs to one list of one step or phase: `PlaceAssumption`.

### Catalog

`db` is the committed tables, from primary keys to rows; a request `req[r]` is one transaction
with its uncommitted rows `own` and the values its Python frame has read. A scenario is its
name and the set of edits its definition contains, so a lost edit is visible.

| Code | Actions |
|---|---|
| what each `..._owned_...` function, `create_step`, `update_step`, `delete_step`, `update_catalog_config` and `import_catalog` read and check before the first write | `StartCreate`, `StartDuplicate`, `StartEdit`, `StartRename`, `StartDelete`, `StartConfig`, `StartCreateSlot`, `StartUpdateSlot`, `StartDeleteSlot`, `StartShare`, `StartUnshare`, `StartImport` |
| the statements before a thread lock | `Insert` (`create_scenario`), `Cascade` (slots of a renamed scenario), `Delete` (`delete_scenario`), `Child` (the row of a slot or a share), `Import` (`_apply_catalog_import`) |
| `with _lock_for(...)`, `_CATALOG_CONFIG_LOCK`, `_SLOTS_FILE_LOCK` | `Lock` |
| `scenario.save()`, `cfg.save()` | `Save` |
| `_write_scenarios_file`, `sync_slots_file`, `_write_json_atomic` | `Write` (temporary file), `Replace` (`os.replace`) |
| the end of `transaction.atomic` | `Commit` (deferred foreign keys), `Rollback` |
| a refused document, the audit statement, death of the process | `Fails` |

The database is PostgreSQL at its default isolation, as `Free`, `FreeName`, `View` and
`Statement` say: a statement sees what is committed and its own writes, waits for rows and
unique names that others have written, and updates by primary key whatever the row has become.
`Granted` collects all a request may have to wait for, in the database and at a thread lock: every
step that may wait has it as a guard, and `SomeoneGoesOn` is about it.

### History

One append or one pruning per writer, each system call an action: `Take` or `GiveUp` (the process
lock, or ten tries and none), `OpenAppend` and `CloseAppend` with half the line written between them,
and for a pruning `ReadAll`, `Truncate` (the temporary file), `WriteKept`, `ReplaceFile`; `WriterDies`
anywhere. A file is a number, so an appender that has the
old file open writes where nobody reads. The lock is `ProcessLock`, reduced to what that module shows.
The thread lock of `HistoryStore` belongs to one store and each service builds its own: it
excludes nobody and is not in the model.

### GraphSubscriptions, GraphWebhook

`GraphSubscriptions` has the expiry at Graph (`remote`) and in the table (`row`), requests of
administrators (`PostSubscription`, `Fetch`, `PatchSubscription`, `SaveSubscription`, `DropRemote`,
`EraseRow`, `CutAdmin`) and the renewal task (`ListDue`, `RenewDue`, `SaveDue`, `MissDue`, `CutTask`).
Call and save are apart, and anything may come or die between. `HourPasses` is the beat entry's
interval. `GraphWebhook` is `save_graph_notifications`, item by item and statement by statement:
validation against the row's secret and the environment's, the look-up, the insert; posts
that are repeated until one is answered 200; subscriptions that come and go, the secret's
rotation, retention. A change notification has NULL in the unique constraint, a lifecycle event
has not: the difference is in the model.

### RateLimit, SystemStatus

`RateLimit` is one client and path: a worker reads its clock, then sends trim, add and count to
Redis; a failure disables Redis for that worker for a while and its own window decides. `bucket` is the
worker's deque: `Expired` says where `popleft` stops. What was let in is remembered in `admitted` and
`served`, which nothing trims.
`SystemStatus` has the parts that are up, the signs of life they leave, and the fold into "ok",
"degraded" and "down" for each choice of required parts. Beat's sign is a task: it needs the queue
and a worker that is free.

### Accounts, PushItTargets

`Accounts` is one row and its writers: registration, activation and reset by mailed links, PATCH of
the user and of an administrator. The two PATCHes save every column as they read it, the others
save what they set. `PushItTargets` is the targets of one owner, with the two statements of a save
of a default in one PostgreSQL transaction.

### Access

`owner`, `shares` and `slotOf` are the tables, and each endpoint is one action with its answer
(200, 403, 404, 409, 500). `Listed` and `ListedSlots` are the SQL of the lists, `CodeFor` and `OwnerCode` the
checks of the other endpoints, `Writable` the flag the client is shown: three pieces of code that
decide the same thing.

### Documents

A step is a tree: a function from places (the way from the step down to a child: keys of lists and
positions in them) to a type, the lists that are there, whether the keys its type requires are there and
whether its options can be used. `Valid` is what `validate_scenarios_document` looks at,
`Buildable` what `scenarios/loader.py` accepts. Both functions call themselves for the children of a
block; what they conclude is a formula about all the places they come to (`Reached`), and so are the two
that look for `require_enterprise_network`, one of which walks over raw JSON (`ShownNetwork`). The actions
are the endpoints that write a scenario, a slot or the configuration, and the import.

### MCServices

`Idempotency` and the nine modules from `History` on in one run: the variable `part` says which of them
takes the steps of a behaviour, the others stay where they start. In the code they share rows only
where each module has a part of its own: of the subscriptions (their expiry, their secret) and of the
scenarios (their owner, their definition).

## 3 Runs

"expect violation" runs check one sentence of the repository that the code does not keep
(section 5). All others find no error.

| Run | Module, cfg | What it shows |
|---|---|---|
| jobs_one | `MCJobLifecycle`, `JobLifecycleSafety.cfg` | One job, two requests (so create against cancel, retry or a second cancel), Celery and inline, one worker, one fault, one step event. `RowCoherent`: a row never mixes the columns of two writers. `RunsOnce`. `LogOrdered`. `LedgerSpec`: refinement of `JobLedger`. |
| jobs_two | `MCJobLifecycle`, `JobLifecycleTwo.cfg` | Two jobs: a retry reads one and creates the other; the reconciler and retention work on batches. `SettledStays`: nothing touches a job that is over. |
| jobs_redelivery | `MCJobLifecycle`, `JobLifecycleRedelivery.cfg` | One message delivered twice. `RunsOnce` and `LedgerSpec` no longer hold (two executions write one row); `StatusAnnounced` still does. |
| jobs_liveness | `MCJobLifecycle`, `JobLifecycleLiveness.cfg` | `EveryJobSettles` with one fault anywhere. |
| jobs_cancel_claim | `MCJobLifecycle`, `JobCancelClaim.cfg` | expect violation: `CancelOnlyActive` |
| lock_all | `MCProcessLock`, `ProcessLockAll.cfg` | Three processes, three attempts, both platforms. `WindowsExclusion`; `SurvivorGetsIn`: wherever the others died, the last one gets in without waiting for the timeout. |
| lock_two_holders | `MCProcessLock`, `ProcessLockTwoHolders.cfg` | expect violation: `MutualExclusion` |
| scheduler_days | `MCScheduler`, `SchedulerDays.cfg` | Three slots: one that needs the network, one that overlaps it, a later one on the first day only; days of seven ticks; a loop, a run-next and a direct command, two starts. `NoSecondRun`, `MarksStay`, `NoWindowSleptThrough`, `RunsInWindow`, `RunningIsTrue`. |
| scheduler_west | `MCScheduler`, `SchedulerWest.cfg` | expect violation: `NoSecondRun` |
| engine | `MCScenarioEngine`, `ScenarioRuns.cfg` | 120 scenarios, dry or not. `ReportsAreTrue`: the events of the steps and the verdict of the task say what happened. `HooksInPlace`, `BrowsersQuit`, `RunEnds`. |
| catalog | `MCCatalog`, `CatalogFiles.cfg` | Any two mutations at once, in one process or two, one failure, files that exist or are missing. `TypeOK` contains the constraints of the tables, `FilesMirrorTables`, `EditsSurvive`, `SlotsStay`; `SomeoneGoesOn`: the waits for rows, names, foreign keys and thread locks close one kind of circle only; `RequestsEnd`. |
| services | `MCServices`, `Services.cfg` | Ten modules, a behaviour being one of one of them; the table below says what is checked of each. |

The parts of the run on services:

| Part | Property | What it shows |
|---|---|---|
| `Idempotency` | `AnswersAreReal`, `OneResourcePerKey` | An answer, replayed or not, is about the body of its call; a key makes one resource. |
| `GraphSubscriptions` | `NeverLapses` | Undisturbed rows name subscriptions that are alive, whatever the other rows' errors. |
| `GraphWebhook` | `StoredOnce`, `RefusedOnlyUnknown` | Every item of an accepted batch has one row; rotating the secret refuses nothing. |
| `History` | `HistoryKept` | A line once appended stays, and the file can be read. |
| `Accounts` | `ColumnsKept` | Each column has the value of the last request that set it. |
| `PushItTargets` | `OneDefault` | Never two defaults. |
| `RateLimit` | `WindowBound` | No window of time admits more than the limit, through Redis by all workers together, and on the fallback by one. |
| `SystemStatus` | `StatusIsTrue` | What is gone is reported in time, and the alarm ends. |
| `Access` | `ShownIsAllowed` | Lists, checks and the writable flag agree; nobody changes what is not his. |
| `Documents` | `StoredIsRunnable` | What was accepted can be loaded and planned, and the exceptions. |

The run on the engine covers each ordered pair of six main steps (a retried browser, a
timed `close_browser` that may fail, a conditional step, a try block with catch and
finally, a repeat with an optional child, a tolerant group around parallel), with and
without a before hook and a success hook, always with a failure and a finally hook.

### Bounds and why they are enough

- *Jobs.* A request does one operation and every race in the code is between at most one
  creator, one canceller, one driver, the reconciler and retention. Two requests give
  each pair; one fault is enough because a fault ends the process it meets.
  Two jobs matter only where one operation touches two (retry, batches): `jobs_two`.
  The log is a set of event types, so one step event stands for many. `MaxSteps`,
  `MaxFaults`, `MaxRedeliveries` are the bounds; the proofs assume none of the first two.
- *Lock.* Three processes: a holder, one that judges its file, one that creates
  between the judgement and the unlink. An attempt makes at most one file.
- *Scheduler.* `MaxClock` 10 with days of seven ticks crosses one midnight and enters a
  second day; `MaxStarts` 2 allows either two of the three processes or a restart of one.
  `Lookahead` 2 replaces the days the search looks ahead; the search's limit on the number of
  picks cannot be reached by so few slots.
- *Engine.* `MaxBrowsers` 3: a browser beyond the bound does not start, which the code
  handles as any failed start. Repeats run twice, retries once.

- *Catalog.* Two requests, because every race is between two transactions; two names, so that a
  rename or a create can meet a taken one; one slot and one share, which is what a rename or a
  deletion may carry along. `MaxFaults` is 1. A request inserts at most one scenario.
- *Services* (990 736 states together). *Idempotency*: three calls and two keys allow a replay, a
  conflict and an overlap, one death. *Subscriptions*: two, one request, so a record with an error
  beside one without, and a request that meets the task; five hours with windows of three and one
  missed run allow two rounds of renewal (the theorem has neither bound). *Webhook*: a batch with a change
  notification and a lifecycle event of one subscription, one that
  repeats the second behind an item of another; three posts, two served at once. *History*: three
  writers, so two appends and a pruning or two prunings and an append; one death. *Accounts*: three
  requests, since a save undoes one request between another's read and its save. *Targets*: three
  saves of two targets: two that meet and one after them. *Rate*: two workers, a limit of one in a
  window of two ticks, four ticks, so two windows that overlap; the limit's value does not matter to who
  counts whom. *Status*: one heartbeat may be lost; every age is counted to its cap. *Access*: a
  superuser and two users, two scenarios, one slot. *Documents*: one scenario with one step, which is
  each of `MCSteps`: every kind of leaf, every block around the leaves that tell blocks apart, a block with
  two children, blocks below a parallel or a group, and a leaf with a list nobody looks into.
  The other parts start in one state each, so nothing is multiplied; each action of each module fires.
  `ServicesView` leaves the last answer of `Access` out of the state, which only the step that gives it
  looks at.

`CHECK_DEADLOCK FALSE` in every configuration: each behaviour may really stop: all jobs
settled and pruned, all attempts used, all calls and requests answered, the clock at its bound,
the run of the scenario over.

### Symmetry

Ids of jobs, requests and processes are permuted in safety runs, never in runs with a liveness
property, and not in the run on services.

### Fairness

- *Jobs.* A request, a driver and the retention task go on until they end, fail or die; an idle
  worker takes messages; time passes; `reconcile_jobs` is run repeatedly. The last is what
  the command's docstring asks of the operator: no beat entry runs it, and without it a job
  whose process died stays "running" for ever. Nothing obliges anybody to make requests,
  to prune, or to fail.
- *Lock.* A process inside `acquire` or `release` goes on: neither blocks. When a holder releases
  is its own affair.
- *Engine.* Weak fairness of the whole next-state relation: the engine is sequential, and every
  operation has a timeout of its own.
- *Catalog.* A request that is not waiting for a row, a name or a lock goes on. Weak fairness is
  enough with two requests: what a request waits for is given back when the other ends.
- *Scheduler, services.* Safety only; no fairness is assumed.

### What the exceptions in the properties mean

Several properties name the cases in which they do not hold. Each exception is a fact about
the code, found by TLC when the property was first stated without it:

- `StatusAnnounced`: row and event are two statements, a fault between them leaves the status
  without its event.
- `LogOrdered`: "submitted" is not ordered with the rest, since it is written after the message is out.
- `OneResourcePerKey`: calls that overlap, or die between creation and record, may make two jobs.
- `NoSecondRun`, `MarksStay`: two processes that mark at once lose a mark (the temporary
  file has one fixed name).
- `NoWindowSleptThrough`: the search goes on behind the end of an executed slot: a window that opened
  before that may be over by then, or its draw may be that very second, which is not a candidate.
- `RunningIsTrue`: a process cut off there, run-slot and run-scenario leave "running".
- `ReportsAreTrue`: a browser that does not start leaves its step "started"; children of
  `parallel` report neither start nor end.
- `BrowsersQuit`: a child skipped by its condition makes its block forget the browser; an
  exception that leaves a block or a hook loses the browser started inside.
- `FilesMirrorTables` (`Leaves`): a request that committed while another had uncommitted rows; a
  failure after `os.replace`; a rename or a deletion that carries slots along, and an import,
  which do not write the file concerned. The model writes the temporary file in one action; two
  writers at once could also mix their text in it, and are in the first of these cases.
- `EditsSurvive`, `SlotsStay` (`raced`): the definition, or the slots, were read before the lock and
  somebody committed in between.
- `SomeoneGoesOn`, `RequestsEnd` (`Embraced`): see section 5.
- `NeverLapses` (`disturbed`): somebody renewed the subscription between another's call and its save,
  or the writer died there, or it is being deleted: then the row tells another expiry than Graph.
- `StoredOnce` (`raced`): two posts looked for a change notification before either inserted it; the
  NULL in the constraint lets both rows in.
- `HistoryKept`: two writers at work at once, which takes a process lock that was given up; and half
  a line of a writer that died, which swallows the next line and stops every import and pruning.
- `ColumnsKept` (`undone`): a PATCH saves the whole row and puts back what was set since it read.
- `OneDefault` (`doubled`): under READ COMMITTED the statement that clears the other defaults does not see
  one that is not committed yet.
- `WindowBound` (`overtaken`, ticks): a request whose stamp is older than one that was served before it
  trims and counts another window; requests of one stamp are one member of the set.
- `StatusIsTrue` (`gone`, `calm`): a part with a heartbeat is missed when that is stale, and beat's
  heartbeat waits for a worker that is free.
- `StoredIsRunnable` (`imported`, `halved`, options, `bare`): see section 5.

## 4 Proofs

| Module | Theorem | For which constants |
|---|---|---|
| `JobLifecycleProofs` | `TypeCorrect`: `Spec => [](TypeOK /\ Located)` | all, redelivery included |
| | `SettledStaysHolds`: `Spec => SettledStays`; `StatusAnnouncedHolds`: `Spec => []StatusAnnounced` | all |
| | `RunsOnceHolds`: `Spec => []RunsOnce`; `LogOrderedHolds`: `Spec => LogOrdered` | no redelivery |
| `JobRefinementProofs` | `RowCoherentHolds`: `Spec => []RowCoherent`; `Refinement`: `Spec => LedgerSpec` | no redelivery |
| `SchedulerProofs` | `TypeCorrect`: `Spec => [](TypeOK /\ Roles)`; `RunsInWindowHolds`: `Spec => RunsInWindow`; `NoWindowSleptThroughHolds`, `RunningIsTrueHolds`: the two invariants | all |
| | `MarksStayHolds`: `Spec => []MarksStay`; `NoSecondRunHolds`: `Spec => NoSecondRun` | `UtcOffset <= 0`: at or east of UTC |
| `CatalogProofs` | `TypeCorrect`: `Spec => [](TypeOK /\ Roles)`; `FilesMirrorTablesHolds`, `EditsSurviveHolds`, `SomeoneGoesOnHolds`: the three invariants; `SlotsStayHolds`: `Spec => SlotsStay` | all |
| `ProcessLockProofs` | `Exclusion`: `Spec => []WindowsExclusion` | all |
| `ScenarioEngineProofs` | `TypeCorrect`: `Spec => []TypeOK`; `BrowsersQuitHolds`, `HooksInPlaceHolds`, `ReportsAreTrueHolds`: the three invariants | all |
| `GraphSubscriptionProofs` | `NothingLapses`: `SubsSpec => []NeverLapses` | `MaxMisses + 2 <= Before <= Extension`, `MaxMisses + 3 <= MinAsk` |
| `ServicesProofs` | `AnswersHold`: `Spec => []AnswersAreReal`; `OneResourceHolds`: `Spec => []OneResourcePerKey` (`Idempotency`) | all |
| | `ShownHolds`: `AccessSpec => ShownIsAllowed` | all |
| | `ColumnsHold`: `AccountSpec => []ColumnsKept` | all |
| | `OneDefaultHolds`: `PushSpec => []OneDefault` | all |
| | `StatusHolds`: `StatusSpec => []StatusIsTrue` | all |
| | `HistoryHolds`: `HistorySpec => []HistoryKept` | all |
| | `StoredOnceHolds`: `HookSpec => []StoredOnce`; `RefusedHolds`: `HookSpec => RefusedOnlyUnknown` | all |
| | `WindowHolds`: `RateSpec => []WindowBound` | all |
| | `StoredHolds`: `DocumentSpec => []StoredIsRunnable` | all |
| | `ServicesTyped`: `ServicesSpec => []ServicesTypeOK`; `ServicesHold`: `ServicesSpec =>` each of the twelve properties of the run | those of `NothingLapses` |

The assumptions are those the modules declare, and TLC evaluates them in every run:

- constants are of the right kind and null values are not ids (`ProcessAssumption`, `BoundAssumption`,
  `LockAssumption`, `CallAssumption`, `CatalogAssumption`, `AccessAssumption`, `SchedulerAssumption`,
  `RateAssumption`, `EarlierAssumption`);
- the tables a behaviour starts with keep their constraints (`TablesAssumption`);
- windows lie within their day (`PlanAssumption`); the renewal window leaves room for the missed runs
  (`RenewalAssumption`); signs of life are due before they are stale (`StatusAssumption`);
- a submitted step is a JSON tree (`DocumentAssumption`); a scenario is one the loader builds, and a step has one place in it (`EngineAssumption`, `PlaceAssumption`);
- a batch has an item, and there is one (`WebhookAssumption`: an empty one is answered 200 and leaves
  nothing); there is a user (`AccessAssumption`);
- writers of the history and targets of an owner are finitely many (`WritersAssumption`,
  `TargetsAssumption`): files are numbered up to the count of writers, defaults are counted. No other set
  needs to be finite.

"No redelivery" is `MaxRedeliveries = 0`, stated as
the ASSUME of the theorem: with early acknowledgement the broker delivers once, and
with redelivery the statements are false.

**Jobs.** `TypeOK` alone is not inductive: a save on a row uses the id a process holds, so the id
must be one that was handed out. `Located` says so for every holder (requests, messages,
drivers, reconciler, retention), and the pair is inductive.

`RunsOnce` needs more: the right to run a job travels from the request that created it to a
message or a thread, then to a driver, and exists once. `Exclusive` is the conjunction of
`Creators` (a job has one creating request), `Messages` (one message per job, and none once
it is assigned), `Assignments` (one driver per job, none while it is undelivered) and `Runs`
(a job that may still start has not run). Each of `NextExclusive`'s steps is one action
and treats only the parts the action can disturb; the frame lemma `ExclusiveKept` does the
rest.

`RowCoherent` is not inductive because `SaveOutcome` writes what a driver has kept since the scenario ended.
`ResultInv` adds that the outcome each driver holds is the verdict of its job
(`DriversCoherent`) and that a verdict comes from a run (`VerdictsEarned`). It rests on `Exclusive`:
two executions of one job would mix their outcomes.

`Refinement` maps each step to a step of `JobLedger` or a stutter. The inductive part it adds,
`ForgetInv`, says that retention only holds victims that were closed; that "begun" allows
no second `Begin` is `Exclusive`, that "success" needs `Pass` is `ResultInv`.

`SettledStays` and `StatusAnnounced` hold with redelivery too, on top of `TypeOK /\ Located`.
`SettledStays` is an action property: of each action, that whoever writes a row is one of those
whose absence `Settled` states. `StatusAnnounced` is inductive together with `Threads` (an inline thread
runs only once its request is past its statements). `LogOrdered` looks at what a step adds to
the log (`LogStep`, one disjunct per statement that inserts an event) and needs `LogInv`: who emits
has announced its run, who is still to deliver has not.

**Scheduler.** `Roles` says which commands take which steps. `Timing`: a search never looks back; the
loop wakes up at the second it chose, inside the window, and no second passes until the scenario has
started, because `Tick` waits for whoever computes. `RunsInWindow` follows. `MarkInv`: unless `overlap`
says that two processes were between their check and their mark, what one read of `executed_slots`
is what it overwrites, so every mark is in the file until a later day prunes it; the pruning keeps
today's keys if the UTC date is never ahead of the local one, and that is the only use of `UtcOffset <= 0`.
(West of UTC both theorems are false: run `scheduler_west`.) `SearchInv`: of the windows that opened after
the search began, those it has left behind opened before the end of a slot that is done. The
calendar is what the proofs know of `SlotPlan`: a window lies within its day, the earliest candidate is a
candidate, and nothing is between the probe and it. `PlanAssumption` asks that a window ends before the last
tick of its day, as "23:59" is the last end a slot can have.

**Catalog.** `TypeOK` includes what the database enforces, unique names and foreign keys; `Commit` is
the only action that can break it, and checks it. A *statement lemma* per action (`InsertEnds` to
`CommitEnds`) says what it does to the request that takes it (`Stated`, `Moved`), and everything
below is about these. Four invariants, each resting on the ones before:

- `OwnInv`: a transaction has only written rows its operation reaches (`Reach`), and has written
  one before it writes a file.
- `FileInv`: of a request that has renamed its temporary file and was alone since it wrote it, the file
  is the document of what it will commit (`Undisturbed`); each file is right, or was left behind by a named
  cause, or is the work of a request that is about to commit (`Accounted`). `FilesMirrorTables` is the case
  in which nobody is about to commit. The hard step is a commit of one request between the write of another's
  temporary file and its renaming: the second is then no longer alone.
- `RowInv`: no two transactions have written one row (`Exclusive`: `Free` in every statement), and nobody
  knows the scenario of a creator that has not committed (`Newborn`).
- `EditInv`: unless `raced`, a row that was read is still what was read when the transaction that
  wrote it commits (`EditOf`), so `save()`, which writes the whole row, adds an edit and loses none.
  `EditsSurvive` is its last conjunct; `SlotsStay` needs the two about slots: a
  transaction of `delete_owned_scenario` has no slot among its rows, one that renames only rewrites them.

**Lock.** `LockInv` is `TypeOK`, `OwnAttempt` (an attempt belongs to the process that is in it),
`OwnHandle` (a process that writes or holds has its own file open) and `HolderOpen` (on Windows
the file of a holder has the name, because nobody can unlink a file that is
open). Two holders would have two files under one name.

**Idempotency keys.** `AnswerInv` adds to `AnswersAreReal` that the id a call carries (`Carried`) and the one
a record holds (`Recorded`) are those of a resource made from the body they are compared by. `KeyInv`
adds `Alone` (a key that is not excused is worked on by one call, and by none once it has its record)
and `Creators` (who made a resource stores its answer, or has): without them a second call could not
be told from one whose record is still to come.

**Subscriptions.** `LapseInv` says of each undisturbed subscription that the row, or the one who is about to
write it, has the time Graph keeps (`Told`; `Lasts` is about the time itself): at least `MaxMisses + 1`
hours less the runs missed so far, and two more than `MaxMisses` once the task has seen to it in this hour.
`Unborn` and `TaskOrder` are needed because an id is new when Graph gives it and the task has one
record in hand. The window must leave the task `MaxMisses + 2` hours; the settings of the repository
(24 and 48 hours, an entry every hour) leave it 22 misses. What the theorem does not say is that the task
runs: that is the bound `MaxMisses`.

**Access.** On a catalog whose shares and slots belong to scenarios that exist (`Sound`, the foreign
keys), membership in `Listed` is the condition of `CodeFor` (`ListIsCheck`), so each answer is right
(`RightRead`, `RightOwner` and so on), and each request leaves such a catalog. `RenameScenario` is the
interesting step: a scenario with shares cannot be renamed, and therefore no share is left without one.

**Engine.** The stack is as deep as the document, so `EngineInv` describes it by neighbours. `StackInv`:
lists and steps take turns, a step is the current one of the list below it, a list is one of the block
below it, and no step is on the stack twice (this is where `PlaceAssumption` is used). The other parts speak of a
run in terms of the stack:

- `BrowserInv`: unless the code has lost one (`upset`), an open browser is the one of the frame on top, or is
  being returned, or an exception is on its way to the loop that has it. `FirstInv` is for the main loop, whose
  steps get the browser it started. `PhaseRaises` and `PhaseEnds` quit that one, hence `BrowsersQuit`.
- `ShownInv`: a step that is shown as running or retrying is on the stack or has just left it (`HandInv`), or is
  one whose browser did not start (`Stuck`); one that just left it has the fate its list is about to report
  (`EndedInv`), and `flag`, the swallowed error of the shared context, is never left over (`FlagInv`).
- `PhaseInv`: `Progress` (behind the current step of a phase all went well, ahead nothing has happened), and
  which phases were touched, raised or done: `Won` or `Lost`.

`ReportsAreTrue` and `HooksInPlace` need the last two, and a lemma per action on what it does to the stack.

**Accounts.** A save of a whole row writes what its request read, so `AccountInv` says what that is
(`ReadsTrue`): the intended value of each column that nobody has set since and that was not undone
before. `RowThere`: only an account that exists has links or requests at work on it.

**Targets.** Two defaults take two transactions that have both saved one before either committed. `AllMet`: two
open ones know of each other; `AllWrites`: what a transaction has written; `LeavesOne`: one that has met
nobody has cleared all that is committed. So a commit adds a second default only as `doubled`.

**Status.** `SignsOfLife`: the sign of a part that is gone is at least as old as its absence, so staleness reports
it. `FileAge` and `StampDue` bound the ages from above: the scheduler's by the writes that may be lost in a
row, beat's by the stamp that is due, which was made, is not yet due, or waits in the queue of a free worker.

**History.** `HistoryInv`: half a line is of an appender that is at it, or one that died or met another
(`Halves`, `AtHalf`); two writers at work have met (`Together`); a pruner that met nobody has kept all that is in the
file; the temporary file is never the one an append has open (`TmpApart`). The hard step is `ReplaceFile`: the
lines of those who appended before the pruner read are in what it kept.

**Webhook.** `HookInv`: a request at work has stored every item in front of its own (`Works`), and what it is about
to insert is missing unless somebody else found it missing too (`Missing`, `raced`). `KnownSecrets`: a
row has the secret Graph has, whatever the environment has become, so `Check` accepts it.

**Rate limit.** `Remembered`: what Redis admitted is still in the set, or a request a whole window later has
trimmed it; so a request that was not overtaken counts everything its window admitted. `Own`: the window of a
worker is the end of all it let in, and what is before it is a window old.

**Documents.** `Accepted`: no scenario holds a step the validator would refuse, since each way to write one calls
it. `Checked`: a slot that no import wrote is a window of times, and not an empty one if its ends were compared.
What is left is about one tree: the loader asks at each place what the validator asks, and one thing
more, the options (`LoaderAsks`); no browser is below a `parallel`, because the next place on the way there is a
child of it and the validator refuses a child that is a block (`NextBelow`, `NoBrowserBelow`); and the flag the API shows is
the one the loader computes (`SameNetwork`). All three are about trees of any depth and width without an
induction: what a recursion over children concludes is stated for the places it reaches.

**The services together.** A behaviour of `ServicesSpec` is one of the part that `part` names, while the other parts
stay as they start. `EachStarts` and `EachSteps` say so for each part, and with the theorems above
`ServicesHold` follows by temporal reasoning only. The types of History, Webhook, Access and Rate limit are
wider than what their proofs needed and have lemmas of their own (`HistoryTyped`, `HookTyped`, `AccessTyped`,
`RateTyped`); those of the others are part of their invariants.

**Who waits for whom** (`SomeoneGoesOnHolds`). `WaitInv` adds to the invariants of the catalog what a transaction
has written at each of its steps (`Writes`), that no two of them give one name (`NamesApart`), and that
who gives a name has also changed whoever had it (`NamesTaken`). `SomeoneFree` then orders the waits without
counting anybody: who writes or renames a file waits for nobody; who commits waits only for a rename or
a deletion that is about to commit, and that one waits for nobody since the name its slots refer to is its own;
who saves waits for no row, and for a name only if a create has given it, which then waits for the lock of that
name; the holder of that lock saves, and if it is one of the same process these two are `Embraced`; so
nobody is left to wait for at a thread lock; and when nobody saves or commits, nobody has written
anything another could wait for. That the circle in section 5 is the only one is a result of this
proof: it was found by TLC for two requests, where no third one can close a longer circle.

**Only model-checked.** Liveness (`EveryJobSettles`, `SurvivorGetsIn`, `RunEnds`, `RequestsEnd`): fairness
and ENABLED are beyond the prover. Of `RequestsEnd` the safety part, that there is no deadlock, is the theorem
`SomeoneGoesOnHolds`; that a request which may go on does so is the fairness, and starvation is left to TLC. That a request which is
`Granted` has a step it can take is a statement about ENABLED: each action is total behind its guards, and
`RequestsEnd` would fail if one were not.

## 5 Where the code disagrees with itself

1. **A cancel overwrites a job that is over** (`ops/services.py:403`). `mark_job_cancelled` tests the
   status read before the revoke and saves unconditionally; the docstring and the API promise 409.
   Run `jobs_cancel_claim`: the driver saves "success" between the read and the save.
2. **Two processes hold the lock on POSIX** (`state/store.py:317`). The lock file exists, empty,
   between `os.open` and `os.write`; a second process takes it for a stray one, removes it and
   acquires. Run `lock_two_holders`. On Windows the open handle prevents it: theorem `Exclusion`.
3. **West of UTC a slot runs again** (`state/store.py:56`). Keys carry the local date and are
   pruned by the UTC date, so after UTC midnight `mark_executed` drops the key it
   adds. Run `scheduler_west`.

The others have no run of their own, because the properties of the passing runs already state what
the code does instead:

4. **`on_failure` runs when `steps` did not fail** (`scenarios/runner.py:174`); `SCHEMA.md:243` says
   only when `steps` fails. An exception of `before_steps` or of `on_success` has the same effect,
   and so `HooksInPlace` says it.
5. **Not every mutation reaches the files** (`catalog/services.py:460`, `ops/services.py:1083`).
   `docs/OPERATIONS.md:305` says that scenario, step and slot mutations sync back to both files. A
   rename changes the slots and writes only `scenarios.json`, an import writes neither. After the
   rename of a scenario with slots, `slots.json` names a scenario `scenarios.json` does not have, which the
   command line refuses at its start. `Leaves` lists the cases.
6. **The lock does not serialize read-modify-write** (`catalog/services.py:826`). The docstring of
   `create_step` says it does; the definition is read before `save_scenario_definition` takes the
   lock, so of two edits one is lost. The exception `raced` of `EditsSurvive` is that case.
7. **A thread lock and a row lock in both orders** (`catalog/services.py:311`). Create inserts a name
   and then wants the thread lock of that name; a rename to the same name holds this lock and waits
   for the uncommitted insert. PostgreSQL sees only half of the circle. It needs two threads of one
   process, which `runserver` has and gunicorn's synchronous workers have not. `Embraced`.
8. **An export cannot be imported** (`ops/services.py`, `_export_scenarios_document`). The document has
   neither `schema_version` nor `data`, which the import's validation requires: 422. The model's import takes
   documents that have them.
9. **A pushover without its secret is accepted** (`catalog/services.py:193`). The comment says the secret is
   dropped "so validation flags the missing secret"; `validate_scenarios_document` does not look into
   `data.pushovers`, and every later load of the catalog fails. `StoredIsRunnable`, `"bare"`.
10. **One row stops all runs** (`scenarios/loader.py`). The validator accepts options the loader refuses
    (a negative `retry`, a backoff below 1, a `when` that is not a text, a bad timeout), and the loader
    builds all scenarios at once.
11. **Slots that can never run** (`catalog/schemas.py`). A patch compares `start` and `end` only when it gives
    both, and an import accepts "25:99" and an empty list of days. `StoredIsRunnable`, `halved` and `imported`.
12. **"The target user's visibility"** (`catalog/api.py`). Comments on the endpoints under `/users/{user_id}`
    speak of the scenarios of the target user; the code asks for those of the current one. `Access` has the
    code: the user in the path decides the scope, the one who asks the scenarios.
13. **"Exactly one default"** (`accounts/models.py:86`). Two saves of a default at once leave two.
    `OneDefault`, `doubled`.

## 6 What is not modelled

- Data that no property tells apart: payloads, texts, audit rows, summaries, screenshots and
  artifacts, the notifier (it swallows every error and nothing depends on it).
- Time zones with DST: a zone is a fixed offset. Durations of computations: only waits, sleeps
  and scenarios take time.
- `run_next_for_scenarios`, which is run-next over fewer slots. `last_run`, which nobody reads back.
- The engine assumes what the loader refuses (a repeat has a positive count, children of
  `parallel` are plain operations); `Documents` checks that it does. The fields of the single operations
  are one flag there.
- The outside: Selenium, HTTP, adapters, mail are outcomes. The HTTP layer and the settings are
  read for what the models assume (autocommit, early acknowledgement, one task at a time per worker,
  beat entries) and have no actions of their own.
- Of the catalog: disabled slots. In `Catalog` a request that is refused before it writes changes
  nothing and is not an action; who is refused is the subject of `Access`.
- Of the rate limit: a Redis that loses its data. Of the accounts: sign-in, token lifetimes and
  hashes. Tokens are signed and stateless, and no other state depends on them.
- Network detection, a classification of the output of a system command that is an arbitrary answer
  in `Scheduler`; the operations, which are outcomes in `ScenarioEngine`; the command line and the scripts
  that start and watch processes.

## 7 Plan

Done, in this order: `JobLifecycle` with `JobLedger` (the heart of the server, and the part with the
most unsynchronized writers), `ProcessLock`, `Idempotency`, `SlotPlan` with `Scheduler`,
`ScenarioEngine`, `Catalog`; `GraphSubscriptions`, `GraphWebhook`, `History`, `RateLimit`, `SystemStatus`,
`Accounts`, `PushItTargets`, `Access`, `Documents`; and the proofs above.

Every safety property of the passing runs is proved. What a next version would take up, in order of
weight:

1. **The lock the models share**: `Scheduler` and `History` rely on what `ProcessLock` guarantees (one holder; a dead
   one does not block). The first half is theorem `Exclusion`; an abstract lock that both run against
   would let TLC explore them on POSIX too, where the lock can have two holders.
2. **Catalog on weaker ground**: two files written by two hosts, and disabled slots.
3. **Network classification** as a pure function against a reference, if its rules grow.
