# Verification of the notice service

This directory holds TLA+ models of the notification service in this repository,
the TLC configurations that check them on small instances, and proofs, checked by
TLAPS, of what matters most for every instance. Paths below are relative to the
repository root; `SendQueue!Claim` means a definition of a module here.

The service sends messages (mail, IM robots) for *tasks*: a task is a template, its
channels and receivers, and a trigger, which is a cron expression or a webhook. Any
number of identical replicas run against one MySQL database. Apart from a key file on a
volume nothing else is shared, so what can go wrong between replicas goes wrong between
SQL statements.

## 1. Inventory

| Component | Source | State it keeps | Operations | Module |
| --- | --- | --- | --- | --- |
| Send queue | `internal/service/queue.go`, `internal/repository/send_job_repo.go` | table `send_jobs`; per replica: workers, a renewal goroutine for each running job, recover and cleaner loops, `stopCh` | Enqueue, EnqueueLogRetry, Claim, process, RenewClaim, MarkDone, MarkFailed, RecoverStale, CleanupDoneOlderThan, Start, StopWithTimeout | `SendQueue` |
| Cron firing | `internal/scheduler/scheduler.go`, `lease.go`, lease statements of `internal/repository/task_repo.go` | `tasks.locked_by/locked_at`; per replica: cron entries | a fired entry: dedupe key, Acquire, Enqueue, Release | `CronScheduler` |
| Task registration | `internal/service/task_service.go`, `scheduler.go`, start-up loop of `cmd/server/main.go` | the row in `tasks` with `next_run_at`; per replica: cron entries and the map `taskEntries` | Create, Update, Toggle, BatchToggle, Delete, RegisterTask, UnregisterTask, RefreshNextRun, updateSchedule | `TaskSchedule` |
| Delivery | `internal/service/notification_service.go`, `internal/channel/*` | table `task_logs` | SendTask, sendToChannels, sendOnce, ResendLog | `Delivery` |
| Rate limits | `internal/repository/rate_limit_repo.go`, their use in `webhook_handler.go`, `auth_handler.go`, `auth_service.go` | table `rate_limits`; per replica: denial cache | Allow, LoginLocked, RecordLoginFailure, Reset, Cleanup | `RateLimit` |
| Accounts, login, two factors | `internal/service/user_service.go`, `auth_service.go`, `internal/repository/user_repo.go`, `middleware/auth.go`, `cmd/server/reset_password.go` | table `users`; tokens held by clients | Create, Update, Delete, Disable, Enable, reset, forced two factors, their batch forms; Login, Verify2FA, Setup, Enable, Disable, ChangePassword, Forgot, Logout, the offline command | `UserTable`, `UserAdmin`, `SignIn`, `Accounts` |
| Categories | `internal/service/category_service.go`, `internal/repository/category_repo.go`, the services of channels, templates and tasks | table `categories`, column `category` of three tables | Create, Rename, Delete; Create, Update, Delete, BatchDelete, BatchSetCategory of the rows | `Catalog` |
| Export, import | `internal/service/export_service.go` | none | Export, Import | `Backup` |
| Schedule expressions | `internal/scheduler/yearly_parser.go`, `lunar_parser.go`, `lunar_schedule.go` | none | Parse, Next | `ScheduleExpressions` |
| Life cycle | `cmd/server/main.go`, `internal/database/db.go`, `internal/repository/heartbeat_repo.go`, the key in `internal/config/config.go` | `schema_migrations`, `instance_heartbeats`, the key file | key choice and check, Migrate, heartbeat tick, purges, listen, shutdown | `Startup`, `Lifecycle` |
| The rest | configuration, encryption, rendering, metrics, audit log, dashboard, HTTP handlers, web frontend | none, or rows that are only displayed | | |

How they interact. A cron entry fires on every replica that has the task registered;
the lease and the dedupe key are to let one of them call `Enqueue`. A webhook or a
user calls `Enqueue` too, a webhook after `Allow`. `Enqueue` inserts a row in `send_jobs` and writes the
schedule columns of the task. Workers of all replicas poll the table; the one that
claims a row loads the task, calls the delivery and records the result. Saving a task
writes its row and then calls the scheduler of the *same* replica directly. A login asks
the failure counter first and writes it last. All rows that users edit name a category by
its text; nothing but the services keeps the name valid.

What is hard here, and what makes each component correct:

* **Send queue.** Nothing but single statements protects a job: no transaction, a
  guard (`claimed_by`) in some statements and not in others, and time-outs. Crash
  between any two statements, statements that fail, a replica that stalls longer than
  the claim lives, clocks that differ, a graceful stop in the middle. Correct means: no
  accepted job is lost, none is worked on by two at once, none runs more than
  `QUEUE_MAX_ATTEMPTS` times, `done` means handled, a dead replica's jobs are taken over.
* **Cron firing.** Two guards against duplicates, each with a window: the lease is
  released right after the insert and lasts exactly as long as a minute; the key depends
  on when the database is asked. Correct means: one job for each occurrence, and a crash
  costs a bounded number of occurrences.
* **Task registration.** Three copies of "when does this task fire" (row, cron library,
  `next_run_at`), written one after the other, concurrently, on several replicas. Correct
  means: what fires is what the row says, no entry is lost track of.
* **Delivery.** One run reads task, template and channels by separate statements while users
  edit, switch off and delete them, sends to several targets in nested loops, writes a row
  after each send and ignores that insert's error, and is retried as a whole although its
  targets succeed one by one. Correct means: `done` leaves nobody out by accident or without
  a trace, a success row means a message arrived, a run sends one text, a resend sends what
  the row holds, what is switched off stays silent.
* **Rate limits.** Windows are cut by each replica's clock, cached by each replica and
  deleted by age; a login's check, count and lock are three statements, and an expired lock
  is cleared by a fourth without a guard. Correct means: the limit of a window holds however
  many replicas count, the cache denies nothing the table allows, guesses are bounded.
* **Accounts.** Every request reads rows in one statement and writes in another; an edit
  writes back the whole row it has read. Correct means: an administrator who can sign in is
  left, the password is the one last chosen, a code opens one session, an ended session
  stays ended.
* **Categories, export, import.** Check-then-act over two tables; an import is a long series
  of statements without a transaction, which maps ids on the way. Correct means: names that
  rows use exist, imported rows are tied to each other, no double import, a complete file
  comes back complete.
* **Schedule expressions.** Two calendars that overlap, leaps over years, lists out of order.
  Correct means: `Next` returns the first time of the expression after the one given.
* **Life cycle.** Statements that cannot be repeated, under a lock that ends with a
  connection; a key that is made when there is none; rows stamped with one clock and purged by
  another; three goroutines that end together. Correct means: nobody works on half a schema,
  every replica can read what another encrypted, the living are shown and the dead are not.

`PROJECT.json` lists every hazard with its line.

## 2. Modules

| Module | Models | Role |
| --- | --- | --- |
| `SendQueue` | `queue.go`, `send_job_repo.go` | the queue of any number of replicas |
| `JobContract` | what callers are promised of a job | abstract specification |
| `SendQueueRefinement` | | the mapping from `SendQueue` to `JobContract` |
| `SendQueueProofs` | | theorems about `SendQueue` |
| `CronScheduler` | `scheduler.go`, `lease.go`, lease statements | one task firing on several replicas |
| `Timetable` | what a cron task is to do, as if one clock enqueued it | abstract specification |
| `CronRefinement` | | the mapping from `CronScheduler` to `Timetable` |
| `CronProofs` | | theorems about `CronScheduler` and `ScheduleExpressions` |
| `TaskSchedule`, `TaskScheduleProofs` | `task_service.go`, registration, schedule columns | one task's row, entries and `next_run_at` |
| `Delivery`, `DeliveryProofs` | `notification_service.go`, `QueueService.process`, `task_log_repo.go`, what `internal/channel` may answer | one run of a job, statement by statement and send by send |
| `RateLimit` | `rate_limit_repo.go` and its callers | windows and login locks on several replicas |
| `Limiter` | what callers are promised of a counted request | abstract specification |
| `RateRefinement`, `RateProofs` | | `RateLimit` implements `Limiter`; theorems about `RateLimit` |
| `UserTable` | `user_repo.go`, `middleware/auth.go` | the table `users`, its statements, requests under way |
| `UserAdmin` | `user_service.go`, `user_handler.go` | what administrators ask; extends `UserTable` |
| `SignIn` | `auth_service.go`, `auth_handler.go`, `totp.go`, `reset_password.go` | what users ask; extends `UserTable` |
| `Accounts`, `AccountsProofs` | | composes both: requests interleave between statements |
| `Catalog` | category, channel, template, task services and repositories | categories and the rows that name them |
| `Backup`, `BackupProofs` | `export_service.go` | export and import beside the requests of `Catalog`, which it extends; the theorems are about both |
| `Startup` | `config.go`, `db.go`, `checkEncryptKeyPresence` | a replica until it works |
| `Lifecycle`, `LifecycleProofs` | `cmd/server/main.go`, `heartbeat_repo.go` | a replica from start to end; extends `Startup` |
| `ScheduleExpressions` | the parsers and `Next` | algorithms against a reference definition; the proofs are in `CronProofs` |
| `MC...` | | values of the constants for TLC |

The modules meet at a few operations. `Delivery` takes the queue as `JobContract`
promises it: its `Claim` is the contract's `Run`, `Done` and `Fail` are its `Close`, and
its queue variables change by the contract's actions only. The others meet at `Enqueue`. For
`CronScheduler` it is the pair `EnqueueCheck`, `Insert`; in `SendQueue` it is `EnqueueCheck`,
`Create`; in `TaskSchedule` it is `Enqueue`, `UpdateSchedule`. `ScheduleExpressions` is the
`Planned` set of `CronScheduler`; the lock of `RateLimit` stands before the logins of `SignIn`,
which are only made fewer by it. Each module takes what the others decide (which keys
arrive, when the task is enabled, what is registered, who logs in) as free choice of its
environment, so its results hold whatever the others do.

Mutants (`Name_HowItIsWrong`) stand before the definition they change; they document
which mistake each property would find.

### SendQueue

One SQL statement is one action: MySQL runs a statement atomically, and the code never
puts two of them in a transaction. `pc[w]` says between which two statements worker `w`
is, `cur[w]` which job it holds, `seen[w]` the `attempts` value MarkFailed has read back.
The columns of `send_jobs` are functions of the job. Time stamps are kept as distances
from `NOW()` (`claim_age`, `retry_in`, `idle_age`), which leaves time unbounded and the
state finite; `Tick` advances the database's clock, and `Skew` is what a replica's own
clock adds to `next_retry_at`. A send is one step with one of three outcomes (`SendOK`,
`SendFails`, `SendPanics`). `DBFaults` lets statements fail. `Timely` restricts `Tick`: no
running replica lets a claim that it works on reach the TTL without renewing it. It
separates what the code guarantees always from what it guarantees as long as the
renewal goroutine (every TTL/3) gets through. `Crash` also stands for a drain that times
out. `claims`, `delivered`, `skipped` are history. The process-wide defaults of the
columns are those of the migrations.

### JobContract and its refinement

A job is absent, open, done, failed or deleted. It is run at most `MaxAttempts` times,
closes once, only after a run, and never reopens. `Phase` maps pending and claimed rows
to open; a run begins when the row is claimed. Under `Timely` the queue implements this.

### CronScheduler

Follows one fired entry through `ReadKey` (`SELECT NOW()`, local clock if that fails),
`Acquire`, `EnqueueCheck`, `Insert`, `Release`, on every replica, against `Tick`, `Crash`,
`Toggle` and failing statements. The cron library is external: it starts an entry that is
due, however late, skips it while the last run of it goes on (`SkipIfStillRunning`), and
then waits for the first planned time after its clock. A job remembers the planned time
it was fired for, so that "one job for each occurrence" can be said at all. `scene` is a
course of events looked at, chosen in `Init`: whether fired jobs are prompt (end within the
minute they were fired in), when the clock stops, how many crashes, failing statements and
toggles there may be. One run so looks at prompt replicas for long and at slow ones for a
shorter time; the properties say which of them they are about.

### Timetable and its refinement

Jobs are enqueued for planned times, never before their time. If what enqueues them is prompt, each comes in
its own minute, after all that were enqueued before, and once; some may be left out (how many is
`LossBounded`). `CronRefinement` counts the rows each occurrence has given; `scene.prompt` is the
timetable's `prompt`. The property holds for replicas whose clocks agree.

### TaskSchedule

A request reads the task and then does a list of steps (`CreatePlan`, `UpdatePlan`, ...),
in the code's order; each step is an action and the steps of two requests, of starting
replicas and of runs interleave. The entry ids of the cron library and the map from task
to id are separate, as in `scheduler.go`. `next_run_at` is represented by the expression
it was computed from, so that an old value differs from a new one; `Spent` are expressions
without a future time. `events`, `informed` and `crowded` are history that the
properties' preconditions read.

### Delivery

`run[j].at` says between which two statements the run of job `j` is: `process` has claimed it,
has loaded the task (`loaded`), `SendTask` has read it again (`template`), the template is
rendered and channels are served (`channels`, `addresses`, `logging`), the template was
disabled (`refusing`), or `ResendLog` has read its row (`resending`). `todo` and `left` are the
two loops of `sendToChannels`, `failed` is `lastErr`. A message arrives in `inbox`, a row in
`logs`; both carry job and run, so that "this message of this run" can be said. A send has three
outcomes: accepted, refused, and accepted with an error reported all the same (a time-out, a
failing QUIT). `Interrupt` ends a run between any two steps: a crash, a panic, or a MarkDone or
MarkFailed that is lost. `EnqueueLogRetry` accepts any failed row, as the code does, and the row
stays: a job keeps it in `source`. `plan`, `off`, `untraced` and `since` are history: whom the task
named, what the run found off, which rows it failed to write, what has been off since it began.
`SendJob` and `ResendJob` only bound how many jobs there are of each kind.

### RateLimit

`call[p]` is a request that process `p` serves and between which two statements it is. A counted
request (`Ask`, `Count`, `CountFails`, `SetDenied`) takes its window from the clock of its replica
when it arrives, looks into the replica's cache, and upserts the row of that window, which the
database may do up to `Patience` later; a request whose upsert fails is let through, as both
handlers do, and the upsert may have worked all the same. A login (`ReadLock`, `Clear`, `Test`,
`CountFailure`, `SetLock`, `Reset`) is the chain of LoginLocked, the comparison, and
RecordLoginFailure or Reset; every statement may fail, and its error is ignored, as in the code. The
outcome of the comparison is a choice. `Cleanup` is the `DELETE` of the queue's cleaner. `passed`,
`opened`, `refused`, `tried` and `since` are history. `Keep` is larger than window, time-out and
skew together, as the code's retention is by far; `RateAssumption` says so.

### Limiter and its refinement

A request is decided in one step, for one window: admitted while fewer than `Limit` have been, refused when the
limit of that same window is used up, or let through because the database failed. Each decision falls into the time of its
window, give or take the skew and the patience of a statement. `RateRefinement` maps the history
variables of `RateLimit`; caches, rows, cleaner and logins cannot be seen in them.

### UserTable, UserAdmin, SignIn, Accounts

A row of `users` keeps the columns on which a decision depends. A password, secret or token is
a number that no other has; a session is a user and the second of its issue, accepted as
`middleware.Auth` accepts it. A request is a record that says what is asked, between which two
statements it is, who asks and whom it is about, and holds the row it has read. `UserAdmin` has
one set of actions for the single and the batch form, since a single deletion or reset is a batch
of one in its steps: checks target by target, and the write in one statement (delete, enable,
disable) or target by target (passwords, forced two-factor). `UpdateRead`, `UpdateCount`,
`UpdateWrite` are the edit form. `SignIn` has the first step of a login, the second with both kinds
of code, set-up, and all ways to a new password. `EndsEarly` ends a request at any place: a failing
statement, a lost client, a killed process. `Wrote` keeps the history that the properties'
exceptions need: whose row was written by a request that began before another wrote it (`stale`),
and whether two requests overlapped in a write (`crossed`).

`MayOperate`, `MayTarget` and `MayUpdate` are the checks of the services in the code's order;
`AdminBegins` is `middleware.Auth` with the role check of the router. `named` is whether the first
account is called "admin": only then the code protects it.

### Catalog and Backup

`cats` is the pool by id, `rows` the channels, templates and tasks of all kinds in one sequence. A
writer checks the category in one statement (`Checks`) and writes in another; deletion looks up,
reads, counts and deletes in four (`Delete`); renaming looks up twice and then runs its transaction
as one action (`Renamed`). Updates of rows also carry the API key, which is unique over live and
deleted rows. `Export` reads the three kinds one after the other. `Import` ensures the categories,
then for each entry looks the name up (`Look`), writes the row with mapped ids (`ImportRow`) and, for
a webhook task, writes the old key in a further statement (`KeepKey`), whose failure is only
reported. A look-up that fails does not end the import: `nameExists` drops the error and answers "no such
name" (`Answers`), so the row is inserted beside the one that has the name; such a row is marked `blind`, and
`menu.slips` bounds how many there are. Any other failing statement ends the import (`EndsEarly`).
`met`, `alone` and `beside` are history of what a request overlapped.

### Startup and Lifecycle

A slot is a container, in which one process runs at a time; each start is an instance of its own.
`Startup` has `Load` (the key: from the environment, the file, or new and written at once), `Migrate`
under `GET_LOCK` (`AcquireLock`, `NextFile`, `ExecStmt`, `Record`) with statements that fail when they
are applied twice, and `CheckKey`. Where a scene has `disk`, the key file may be unreadable, which the code takes
for no file, its write may fail or be cut short, and its removal may fail (`Stored`, `Generates`, `CheckKey`):
the code ignores all these errors. `doubtful` is history: the generated keys that `KeyReads` cannot
vouch for, because they were made beside other processes or key files, or taken from a file whose writer had not checked them
yet, or left behind by a start that died before its check or could not remove the file after it. `Lifecycle` has what follows: `StartWork`, the heartbeat goroutine
(`Beat`, `Purges`: write the row, purge, sleep; remove the row when cancelled; each statement may fail), `Listen`, `Signal`, `Defers`,
`Return`, requests, and `Killed` at every place. A unit of time is a heartbeat interval; `Pass`
lets it go on when every living heartbeat has ticked, and ages the rows. `lag` of a scene is how far
the database's clock is ahead of a replica's, in whole intervals. A scene is a deployment: which
slots share an address or a volume, what is migrated, whether the key is configured, and which of
time, requests, key losses, failing disks and failing statements are looked at.

### ScheduleExpressions

`Parse` and `NextTime` follow the code: which form an expression has, what a field denotes, the leap
from year to year with the library's search inside a year, and the scan of the moon's years with its
look-ahead. `Meaning` is the reference: the set of all instants of the calendar that the expression
describes. What the libraries compute (`robfig/cron` within a year, the conversion between calendars) are functions
of the calendar, a constant; the assumptions say of it what the code relies on. `CalendarAssumption`: years have
one length, and the library (five years) does not look further ahead than the scan does (eight). `ExpressionAssumption`:
an expression has one of four shapes. `MoonAssumption`: a year of the moon begins in the sun's year of
its number and ends before the next one begins. `TermAssumption`: a solar term lies in its year. In the run years are short (twelve units), the moon's
year begins inside the sun's and has leap months. The state is one registered expression with the time
last computed; it fires and the process restarts at any time.

## 3. Runs

| Run | Checks | Instance and bounds | States |
| --- | --- | --- | --- |
| `q_steady` | `ExclusiveClaim`, `NoDuplicateDelivery`, `FailedMeansExhausted`, `CleanExit`, `ImplementsContract` | 2 replicas with one worker each (symmetric), 2 jobs, 1 dedupe key, 2 attempts, renewals in time, 1 stop | 530,820 |
| `q_survivor` | `BoundedClaims`, `DoneMeansHandled`, `SurvivorFinishes` | 2 replicas, 1 job, late replicas, failing statements, 1 crash; fairness | 77,337 |
| `c_once` | `LeaseHeld`, `LossBounded`, `KeepsTimetable` | 2 replicas in step; three courses: prompt jobs for 10 ticks (5 occurrences) with 2 crashes and 1 fault; slow jobs for 6 ticks with 1 crash; slow jobs for 6 ticks with 1 fault and 2 toggles | 984,494 |
| `s_tasks` | `NoLeak`, `RegistrationMatches`, `NextRunMatches` | 2 replicas, 2 requests in flight, 2 expressions of which one is spent, 1 crash or failing statement | 630,333 |
| `d_delivery` | `DoneMeansAccounted`, `NoSilentMiss`, `LogsTellTruth`, `SameTextForAll`, `ResendIsFaithful`, `SwitchedOffStaysSilent` | 1 job and 1 resend of two runs each; a mail channel and a robot; a task with both, with two receivers, or with none; 2 texts; 1 edit, 1 failing statement or interruption | 2,746,140 |
| `r_limit` | `LimitKept`, `GuessBudget`, `FreshStart`, `ImplementsLimiter` | 2 replicas with clocks 1 apart, 3 requests at a time, windows of 2, limit 1, a cache of 1 entry, lock after 2 failures; five counted requests, or five logins, or two and one; 1 failing statement | 1,184,806 |
| `a_accounts` | `AdminRemains`, `LastChoiceHolds`, `OneLoginPerCode`, `EndedStaysEnded` | 4 accounts (2 administrators, 1 with two-factor authentication, 1 not yet there), 2 requests at a time and up to 3 of each of ten mixtures of operations, ending at any statement | 1,120,444 |
| `a_reset` | `ResetEndsSessions` is violated | one edit of a password | |
| `k_catalog` | `CategoryKnown`, `LinksOwn`, `NoDoubleImport`, `Restores` | 2 requests at a time of twelve mixtures, a channel, a template and a task, 3 names of categories, an export and imports, ending at any statement; in one mixture 1 failing look-up of a name | 318,702 |
| `l_lifecycle` | `SchemaComplete`, `StuckByCrashOnly`, `KeyReads`, `GoneIsGone`, `PurgesTheDead`, `ZombiesGo` | eleven deployments of 2 containers, 2 files of 2 and 1 statements, up to 3 starts, a window of 3 intervals; in two of them disks fail; fairness | 320,465 |
| `l_drain` | `NoRequestCutOff` is violated | one replica, one request, one signal | |
| `e_expr` | `YearlyNextIsFirst`, `LunarNextIsFirst` | all forms of expressions, asked at every time of a calendar of ten years, fired and restarted; a look-ahead of eight years | 6,980 |

Why these bounds are enough to be interesting. In the queue's runs, jobs meet only at the
dedupe key and in `ORDER BY id LIMIT 1`, hence two jobs in `q_steady` and one in `q_survivor`,
where a job is held by one worker, selected by another, renewed late and taken over; one crash with every
statement failing at will reaches each gap between two statements. (What more than two
workers, more attempts and other backoffs could do is left to the theorems, which have no bounds.) Five
occurrences in `c_once` are enough for a crash, the expired lease and a second crash during the
recovery. In `s_tasks` two requests are the least that interleave; their slots and the replicas
are interchangeable. In `d_delivery` two targets are the least for which a success after a failure can
hide it, once over two channels and once over two receivers of one; two runs are the least for a
retry; the one edit and the one fault fall between any two steps.

Three requests in `r_limit` are one more than the limit and than the replicas: two of them share
a replica, hence its cache, while the third is on the replica with the other clock; the horizon spans three windows, and a lock
that is set, runs out and is set again. In `a_accounts` each mixture brings together the operations that
write the same columns or check the same condition; a third request is needed for what two leave
behind (a token that is used, a session that is tried). Where four statements of a request meet two of another,
two requests show every order; the properties are about pairs by their nature, and their
exceptions (`stale`, `crossed`) count what the code allows. `k_catalog` has one row of each kind
because rows of one kind do not look at each other except for the name and the API key,
which the import brings; its further categories are the targets of a rename or of an edit. In
`l_lifecycle` a file of two statements has an inside, in which a crash sticks, and a border; three starts let both
containers run and one of them run again; a window of three intervals is the shortest
for which a living row can look old by a lag of one. The eleven deployments are named where they are defined (`MCLifecycle`).
`e_expr` has each form the parser knows, with lists, ranges, the month's last day and items that cannot be
read; its moon's years have a leap month in every other year and months of different lengths, and two of its terms lie
before and about the moon's new year.

`SYMMETRY` is used in runs without liveness only. Deadlock is checked in the queue's runs.
It is not in the others: the horizon, the bound on requests or starts, and the bounds on
jobs and edits stop them.

**Fairness of the queue** (`SendQueue!FairSpec`, used by `q_survivor`). The loops poll with tickers
and a send has a time-out, hence weak fairness of the worker's and the recovery's steps and of
the clock. A statement that may fail leads elsewhere when it does, so weak fairness would
let it fail for ever; strong fairness of `ClaimUpdate`, `RecoverRetry` and `RecoverFail` says
that errors do not repeat for ever. `process` gets no such help: a MarkDone or MarkFailed
that fails is lost and the takeover has to finish the job. No fairness for `Start`: no
supervisor restarts a dead replica. Enqueuers, renewals, stops and cleaning need none.

**Fairness of the lifecycle** (`Lifecycle!Spec`, used by `ZombiesGo`). Weak fairness of `Pass`, since time
goes on, and of the heartbeat of each slot, whose ticker fires as long as the process lives. A purge that fails is
logged and tried again with the next tick; strong fairness of `Purges` says that errors do not repeat for ever. Nothing
else is fair: no process has to be started, asked to stop, or to get through its start.

## 4. Findings

Two runs show where the code does other than a comment or the project's README says; the text in `PROJECT.json`
quotes the lines.

* `a_reset`: `Update` of a user is to end the sessions when the password changes. MySQL assigns
  the columns of an UPDATE from left to right, so `password_hash` holds the new value when
  `session_revoked_at` is computed from it: sessions survive the administrator's reset through the
  edit form (`repository/user_repo.go:103`).
* `l_drain`: `main` does not wait for `Shutdown`: `ListenAndServe` returns when it begins, the deferred calls
  close the database, and the process leaves while a request is served (`cmd/server/main.go:345`).
  The deferred calls also stop the scheduler before the queue, contrary to the comment.

Found with a model, and shown by no run now because a run gave way to another question:

* `MarkFailed` announces a compare-and-set, but its second statement has none. A replica that
  stalls beyond the TTL between the two overwrites a job that was taken over.
* The dedupe key is the database's minute, not the occurrence's: replicas whose clocks differ can
  enqueue one occurrence twice. `KeepsTimetable` is therefore about replicas in step.
* A task is registered only on the replica that served the request; if that one crashes, nobody
  fires it until another restarts.
* A failed row of a disabled template holds no content, and its retry sends an empty message
  through a robot, recorded as a success.

Met while modelling, and visible in a single reading. In the queue and the scheduler:

* `Claim` checks `next_retry_at` when it selects, not when it updates; with the defaults there are
  two retries (three attempts), where `README.md:25` promises three.
* `RefreshNextRun` writes NULL to `last_run_at`; every resend is recorded as the first.
* A lunar `Next` starts with the moon's year that has the number of the sun's year
  (`lunar_schedule.go:34`), so what falls in January or February from months 11 and 12 of the
  year before is skipped; a list of both festivals and solar terms may pass over one where the two kinds of
  year overlap; an expression with years misses the first instant of a year it has leapt to (`yearly_parser.go:55`);
  robfig gives up after five years. `YearlyNextIsFirst` and `LunarNextIsFirst` name these as exceptions.

At the start and the end of a replica:

* `GET_LOCK` waits up to 120 s (`db.go:54`), but the DSN's `readTimeout` is 10 s
  (`config.go:385`): a replica that waits longer fails to start.
* A crash inside a migration file stops every later start with a duplicate; the file has to be
  finished by hand (`StuckByCrashOnly` shows that nothing else leads there).
* The key file is written by `Load` before the check that would refuse the key (`config.go:378`);
  the check does not count TOTP secrets. The refused key's file is removed "so that the next start still
  triggers this check" (`main.go:434`), but the error of the removal is ignored: if it fails, the next start takes
  the key for a valid one and works with it beside rows it cannot read.
* A key file that cannot be read counts as none (`config.go:374`): it is overwritten with a new key, and removed
  if that is refused, although the old key may have been good.
* `PurgeSameAddr` runs before the port is bound, so a second process on one address deletes the row of
  the living one, which comes back with its next beat (`main.go:227`, `heartbeat_repo.go:71`).
  `PurgeStale` compares the database's clock with a column that a replica's clock has written.

In the webhook:

* A signature counts as used before the body is parsed and the job inserted (`webhook_handler.go:216`,
  `:107`): a caller whose request fails there has to sign anew.
* A signature is remembered for twice the window from the first delivery on, while the stamp is
  accepted in whole seconds to either side: a message that came as early as it could is forgotten
  up to a second before its stamp ends. The cache is each replica's own and is rebuilt at its limit.

In accounts and the catalogue:

* The last administrator is protected by a count in a statement of its own, and the count includes disabled
  administrators (`user_repo.go:163`). Two requests that overlap can leave none, unless the built-in
  account has its default name.
* Tokens have whole seconds: one issued in the second of a logout survives it.
* `ForceEnable2FA` and the command that resets an account write two statements; a failure between them leaves half.
* The import: a template whose name is taken makes the `TemplateID` of the tasks 0, and the error of
  the validation (`task_service.go:404`) ends the whole import, where `README.md:489` and
  `export_service.go:81` say that conflicts are skipped; the category of a template is dropped (`:127`);
  the export is three readings, so its parts may be of different times.
* `nameExists` drops the error of its count (`export_service.go:225`, `:228`, `:231`): if a look-up fails while
  a file is imported again, the import inserts the row a second time, and no unique index on names is in its way.

## 5. Proofs

`tlapm` checks every theorem below to the last leaf; none takes a fact on trust. The
assumptions are the named ones of the modules (constants are of their types, sets that are
counted are finite, null values are none of the values) and those in the statement. What they ask
beyond types is said below.

**Queue** (`SendQueueProofs`; `QueueAssumption`: TTL and attempts are positive).

* `TypeCorrect`: for any number of replicas, workers, jobs, attempts and any backoff list and skew. One
  lemma for each group of variables; besides types it says that a working worker has a job on a
  running replica and that a row has an owner exactly while it is claimed, which the second,
  unguarded statement of MarkFailed could break.
* `ClaimsBounded`: `Spec => []BoundedClaims`, with crashes, late replicas and failing
  statements. `BoundedClaims` is not inductive: a row may be pending with any number of claims
  behind it. `ClaimBudget` is: claims made, plus claims that may still come (the row is
  pending, or a worker past MarkFailed's count will put it back, maybe after a takeover has
  done so already), never exceed the counted attempts plus one, nor `MaxAttempts`. Each
  "claim to come" is paid for by an attempt counted below the limit. The set `Owed` is
  changed by at most one worker in each step, which is where the finite-set lemmas come in.
* `ExclusiveWhenTimely` and `FailureGuardedWhenTimely`, under `Timely`: from `FreshClaim`, which
  adds to `ExclusiveClaim` that the claim of a running job is never stale, so that RecoverStale
  passes it by; and no other worker can claim a row that is not pending.
* `QueueImplementsContract`, under `Timely`: initial states map to initial states and every
  step to a step of `JobContract` or a stutter. It uses `FreshClaim` (the late write never
  reopens a closed job), `ClaimBudget` (a claim finds a run left) and `ClaimedWasCounted`.
* `DoneIsHandled`, with crashes, late replicas and failing statements (`HandledInv`): a worker that goes to
  mark its job done has sent it or has read that there is nothing to do. What has happened to a job is
  not forgotten (`HistoryGrows`), and no other statement ends a row as done.
* `OneRowPerKey`, under the same conditions (`KeyInv`): rows that are not there yet are blank, and the unique
  index lets `Create` insert no key that a row has. The check before it (`EnqueueCheck`) takes no part in this.
* `StopLeavesNothing`, `FailedIsExhausted` and `NothingSentTwice` are about a queue to which nothing happens (`Steady`:
  replicas renew in time, no statement fails, no replica crashes). Otherwise they are false, and
  are meant to be: the code prefers a second message to none, and an attempt lost with its replica
  counts. Under `Steady` every claimed row is in the hands of a worker
  (`ClaimHasWorker`), hence never stale, and the recovery loop finds nothing. Then each claim ends in one counted
  failure, the run under way excepted (`EachClaimCounts`), so that with `ClaimBudget` a failed row has had
  all its claims; and a job that was sent is done or its worker is about to say so (`SentOnce`), so that nobody
  claims it again. For two jobs of one key, `KeyInv` says that one of them has no row.

**Cron** (`CronProofs`).

* `CronTypeCorrect`, and `LeaseProtects`: a lease protects its holder for its whole length,
  for replicas however slow. Inductive form: inside that time the row carries the holder's
  name *and* time stamp; the time stamp keeps others from taking it and the name keeps
  others from releasing it.
* `OncePerOccurrence`, for clocks in step and prompt jobs: while a job runs, its minute, its
  occurrence and the key it has read are the same minute; then equal occurrences mean equal
  keys and the unique index does the rest.
* `ReplicasKeepTimetable`, for clocks in step: every step maps to a step of `Timetable` or a stutter. A running job's
  occurrence is not ahead of the clock and, if jobs are prompt, neither is a key (`PlanInv`): a new key, being
  free, is later than all others, and so is its occurrence. This contains `OneJobPerOccurrence`, which no run
  checks by itself.
* `LossIsBounded`, for clocks in step, prompt jobs and a lease no longer than a minute (both are 60 s):
  `LossInv` says that some set of occurrences, two for each crash and each fault, accounts for
  every loss. An occurrence that was fired has its job, or is on its way to enqueue, or is in the set (`Covers`), and so
  are the ones an orphaned lease stands in the way of. The set is not a variable of the model: each step that
  loses something picks a larger one.

**Schedule expressions** (`CronProofs`; the assumptions about calendars named in section 2). No induction over data is
needed: a list is ascending if ranks are, an element after a time has a least one, and of a bounded number of
rounds the first successful one is a least element too (`Ascending`, `FirstAfter`).

* `NextIsFirst`: for every expression and time `NextTime` is an instant of `Meaning` after that time, and between them
  lies none but the exceptions; where it finds none, none lies in the years the library looks at, these excepted.
  With years: each round of the search either ends or
  moves to a later year of the list, so its length and two more rounds are enough, and what a leap passes
  over is no time of the expression, except for the instant it lands on, which is the exception the
  properties name. With the moon: the candidates the scan collects in a year are exactly the times written for that year
  of the moon, a later year's lie later, and the look-ahead reaches the first year that has any.
* `EntryInvariant`, `YearlyIsFirst`, `LunarIsFirst`: the time an entry waits for was so computed, from a time of the calendar.
* `FiresOnwards`: an entry that fires waits for a later time than the one it fired at, or for none.
* `ExpressionGivesNext`: if the planned times are the meaning of an expression without exceptions, `NextTime`
  is what `CronScheduler` calls `IsNext`. This ties the two models to each other.

**Task registration** (`TaskScheduleProofs`; `ScheduleAssumption`: there is an expression, the null value is none).
The plans of the requests are taken as sequences: what is left of any of them unregisters as load, remove, forget in
a row and registers as add, store (`Shape`), and some steps never follow others (`Orderly`).

* `ScheduleTypeCorrect`, with the types of the requests under way.
* `NothingLeaks`: the next step of a request says how the entries of its replica stand to the id it holds and
  the id the replica knows (`AtStage`): before remove these are equal, after it nothing is left, after add the only
  entry has the id held; who is going to add without unregistering (`Bare`: Create and a start) finds
  none. Without a request the entries are the known one (`Settled`).
* `RegistrationIsRight`, `NextRunIsRight`: as long as requests have not overlapped, the steps left of the only one determine
  what will be registered (`RegisteredAfter`), what the row will ask for (`PlannedAfter`) and what
  `next_run_at` will be (`NextAfter`), and these agree, since what the request has read is still so
  (`UpToDate`). A request given up at its first write has touched nothing yet; this is where the order "row first,
  then the scheduler" of Update and Toggle is needed, and what BatchToggle and Delete lack.

**Delivery** (`DeliveryProofs`).

* `DeliveryTypeCorrect`: types, and that a run that sends has a channel and an address. Inductive
  form `Placed`: a run that is somewhere has been counted and its job is open, and a resend has a
  row. This is where the check for a mail channel without receivers is needed.
* `ResendsAreFaithful`: the row of a resend is fixed before the job first runs (`Trail`, `Kinds`),
  and only `ResendLog` sends for it.
* `OneTextPerRun`: what the current run has sent is the text it holds, and a run that has sent
  anything is still in its loops (`Current`), where nothing renders again.
* `LogsAreTrue`: a send that waits to be logged as a success has arrived (`Unlogged`).
* `DoneIsAccounted` and `NobodyMissedSilently`, from one invariant, `Cover`: everybody the task named
  has been reached, or was found off and traced, or is still ahead of the run in `todo` or `left`;
  or the run remembers a failure and will not end as done. Each loop step moves its head from
  "ahead" to one of the others; when both lists are empty nothing is ahead.
* `OffIsSilent`: what has been off since the run began is still off (`Silent`), so every gate the
  run has passed was open at that moment and its channel was not in that set.

**Rate limit** (`RateProofs`; `RateAssumption`: a row is kept longer than a window, a request's
patience and the greatest skew together, and a lock is longer than the skew. The code keeps rows for a day
and counts in windows of a minute; with a shorter `Keep` the cleaner would forget a window that is still counted).

* `LimitIsKept`: a request counts in a window that has begun and not yet ended for it (`CountsInTime`);
  until no such request can be left, the row stands, too young for the cleaner, and has counted all that
  passed (`RowsStand`). Count and decision are one statement, so a pass is a count up to the limit.
* `RateImplementsLimiter`: Ask (from the cache), Count and CountFails are the steps of `Limiter`, Tick is its time, all others
  stutter. That a request is admitted only below the limit follows from `RowsStand`; that its window is
  still open, from `CountsInTime`; that a refused window is used up, from `RefusalInv`, the inductive form of the next.
* `NoneRefusedEarly` (`NoEarlyRefusal`, which the refinement contains and no run checks by itself): a window
  that is refused, or waits to be noted, or is in a cache, is used up
  (`UsedUp`), and stays so, since what has been let through is never taken back, not even by the cleaner.
* `RunOutIsForgotten`: while a login that found no lock, or cleared one, is being served and none has run
  out since, its row holds no failure older than that (`FreshInv`). This needs locks longer than the skew: one that
  is set now has run out for no replica.
* `GuessesAreBounded`, for finitely many requests at a time: as long as a login is not locked, wrong credentials tested
  are counted, or about to be counted, or their count has failed; and the counts reach the limit only in
  requests that are about to lock. Once it is locked, each request that is still testing is one of
  those served when the lock came (`GuessInv`, with the cardinalities of these sets of requests).

**Lifecycle** (`LifecycleProofs`; `StartupAssumption`, `LifecycleAssumption`: the window is longer than
two intervals and a lag is at most the window less two. The code beats every 5 s and purges rows after
60 s, twelve intervals).

* `SchemaIsComplete`: a process at a file has found every file before it recorded, one at a statement has
  applied those before it, and one past `Migrate` has seen all (`SchemaInv`). A file is recorded after its statements.
* `OnlyCrashesStick`: a statement of a file that is not recorded was executed by the process that holds the lock and is
  in that file (`Holds`), or a process died there (`LockInv`).
* `EveryKeyReads`, with disks that fail: of the keys that are not doubtful there is one, which all processes and all key
  files have (`OneKey`); who has made it and not checked it yet has nobody with such a key beside it, and no
  other file has its key (`FreshAlone`). What is in the table was encrypted with it, unless it is new and waits for
  the check, which then refuses it (`SealedByKey`, `SealedByFile`). A configured key is the only one as long as
  it is configured (`GivenOnly`).
* `NobodyIsLeftBehind`: a row that is shown has a living heartbeat, which will remove it, or its instance is in
  `unclean` (`RowInv`).
* `TheLivingStay`: a row of a beating instance is at most as old as the difference of the clocks and one interval,
  since time does not go on until every heartbeat has had its tick (`AgeInv`).

**Accounts** (`AccountsProofs`; `TableAssumption`: the first administrator is among the administrators,
who exist at the start). The module first says which columns each statement writes, then what the other
requests may notice of it (`Others`), then goes through the requests.

* `EndedSessionsStayEnded`: nothing moves a time of revocation back and no deleted row becomes live
  (`Later`), so what is ended is older than the time of revocation or has no account (`EndedInv`); whoever holds a token has had a
  row (`KnownInv`), hence a later insert cannot bring it to life.
* `AnAdminRemains`: who asks for an operation that takes a power away is an administrator as long as nobody has
  written their row since (`Asker`), and is not among those the operation is about (`Batch`, `Edit`). If
  no two requests overlap, nobody has. For the account named "admin" the checks of a request exclude it altogether.
* `TheLastChoiceHolds`: the hash that an edit has read is the row's, unless the row was written since (`Edit`).
* `OneLoginForACode`: a code that has completed a login, or is about to, is behind the counter or gone from the
  list of the row (`UsedInv`), and does not come back with a secret, since secrets are new for every set-up (`FreshInv`).
  What a login holds between its check and its write is still in the row, or the row was written since it was
  read (`LoginInv`): of two logins with one code the second writes from an old reading, which the property excepts.

**Catalogue** (`BackupProofs`, about the requests of `Catalog` and `Backup` together; `CatalogAssumption`, `FirstAssumption`:
what is in the tables at the start was made by the services, so its rows have categories and links to rows). The
module first says of which kind a request is and what it may hold at each place (`TypeOK`), then which rows and
categories each step may change (`Steps`). The export builds its file by a recursive function; that such a
function has its entries in its range is shown from the least place where it would not (`Least`, `EntriesOf`).

* `CategoriesStayKnown`: a request that runs beside a removal knows of it (`Beside`). One that knows of none has a
  category of the pool between its check and its write (`Looked`): the steps of all requests but removals and renames
  leave the pool what it was or larger. And who is going to delete a category after counting has no row relying
  on it (`Deletes`), unless its writer knows.
* `ImportsTieTheirOwn`: what rows, files and the maps of running imports refer to is there, and a map leads from the
  ids of the file to rows of that import only (`LinksInv`). No row ever goes, so all of this outlives the steps of others.
* `NothingImportedTwice`: between an import's look-up and its insert the name is on no row of another import,
  unless one of the two began during the other or the look-up failed (`NameFree`).
* `ImportsRestore`: an import that is alone from its start is through with the first entries of its file, has made
  a row of each of them and has it in its map, and the names in its file are on no other rows
  (`UndisturbedInv`). For the tasks this needs the order of the file (`OrderInv`: tasks come last, since the export reads
  them last, so the map is complete when it is used) and for their categories that nobody deletes the first one (`DefaultInv`).

**What the exceptions leave out.** Some properties except the very race their hazard names, because the code
loses it: `NoLeak` two requests for one task on one replica; `NextRunMatches` requests that overlap;
`RegistrationMatches` replicas that did not serve the request; `AdminRemains`, `LastChoiceHolds`, `OneLoginPerCode`
and `CategoryKnown` writes from old readings; `ExclusiveClaim` and `ImplementsContract` late renewals; `KeyReads` doubtful keys;
`NoDoubleImport` failed look-ups and overlapping imports; `YearlyNextIsFirst` and `LunarNextIsFirst` the
times listed in section 4. They do not say that these races are harmless, they say that nothing else breaks the property.
The notes of the hazards in `PROJECT.json` say for each what remains covered.

Only model-checked: `SurvivorFinishes` and `ZombiesGo`, which are liveness under fairness and so out of the prover's
reach. Every other property of a passing run is stated by a theorem.

## 6. Not modelled, and what the models leave out

* Rendering, metrics, the audit log, the dashboard and the rest of the configuration: functions of
  their input, or rows that are written once and only displayed. HTTP decoding, paging, the
  frontend and the generated documentation: no state whose evolution could go wrong. The state-changing
  operations behind the HTTP layer are the services', and are the actions of the modules.
* `SendQueue`: text columns, `vars_json`, logs beyond "a failed one exists", more than one
  candidate for each poll (`Claim` is always called with limit 1), the metrics of the queue.
* `CronScheduler`: registration while running (that is `TaskSchedule`), expressions (that is `ScheduleExpressions`;
  `ExpressionGivesNext` is the bridge).
* `TaskSchedule`: the columns that take no part in scheduling, BatchDelete as a series of Delete, BatchSet*,
  `last_run_at`, the import. At most two requests are in flight; a run is one at a time.
* `Delivery`: rendering and the wire formats (a message is one of the template's contents, a
  channel's answer is one of three outcomes), `retry_count` and the other columns that are only
  displayed, the retention of `task_logs`, batch edits (one statement for many rows), a recovery
  pass that gives up several jobs at once (`GiveUp` takes one).
* `RateLimit`: the signature and the address check of a webhook, which decide about a request from
  that request and the row; the cache of signatures that each replica has passed, a map behind one lock,
  and the key and secret of a task over its edits (`task_service.go:149`).
* `Accounts`: display name and mail address, the expiry of a session by age and of a first step's token,
  the upgrade of secrets stored in the clear. Hashes, signatures and codes are values that are
  equal or not. Time for reset tokens and for codes is one clock.
* `Catalog`, `Backup`: columns that neither name a category, a row or a key; the wording of the import's report.
* `Lifecycle`: what a working replica does (the other modules), the ten seconds of patience of a statement that waits
  for the lock (a start may end at any of its steps instead), panics of the binary outside its goroutines.
* `ScheduleExpressions`: the text of an expression (a sequence of items), the search inside one year and the
  conversion between calendars, which are the libraries'.

## 7. Plan

Done: every part listed above is modelled and checked, and every safety and action property of the passing runs is
proved, with three refinements of abstract specifications. What would say more, in this order:

1. The webhook's cache of signatures and the life of a task's key and secret over edits that overlap.
2. BatchDelete as a series of Delete, and the import, in `TaskSchedule`.
3. One timetable for replicas whose clocks differ, with the number of doubled occurrences as a bound.
