# Verification of the zero-downtime Linux update system

The repository updates fleets of Linux devices: an agent on every device (`orchestrator`)
polls an API server (`api-server`) for the OS image and the applications it should run, stages
and boots the one through bootc, runs the others through podman, and ships its logs and those of its
applications back, where a viewer (`log-tui`) follows them. This directory holds TLA+ models of
the parts where that can go wrong, TLC configurations that check them on small
instances, and TLAPS proofs about all of them for instances of every size.

Paths below are relative to the repository root (`src/` in `PROJECT.json`). A definition
named `Bug...` in a module is a plausible mistake in the definition that follows it; it is used
by nothing and is there to show, when it is substituted, that a property notices.

## 1. Inventory

### The device agent (`orchestrator/`, one tokio process under systemd)

| Component | State | Operations | What makes it hard |
|---|---|---|---|
| OS update loop `loop_os.rs`, `util/bootc_wrapper.rs` | `OsState` (booted, staged, `countdown_started`), the flag `os_upgrade_in_progress`, countdown tasks; bootc's booted / staged / rollback deployments | every poll interval: read bootc status, fetch the target, report it when booted, else stage it and apply at once (immediate) or after a countdown (deferred) | the status is read before a round trip; countdown tasks run beside the loop and are never cancelled; any command can fail; the process or the device can restart at any step; tags move |
| Application loop `loop_apps.rs` | vector of applications, iterator over sorted entries with indices into that vector | every poll interval unless the flag is up: fetch configs, pull images, sort, merge from the back (create, update, remove), report, prune | indices held across awaits while the vector is mutated by `swap_remove`; any step fails and leaves half a pass; restart rebuilds the vector from podman |
| Application lifecycle `application.rs` | a task per container: last state seen, select timeout; a `Notify` and a `JoinHandle` for its removal | inspect, start, wait for a change or a removal, stop, delete, back off | the container changes between inspection and wait; the removal comes at any point; failed stops are only logged |
| Podman wrapper `podman/wrapper.rs` | podman's containers and image store | create, start, stop, delete, wait, pull-if-missing, prune, list at start, follow logs | a container that cannot be inspected is left out of the list |
| Application log registry `podman/log_registry.rs` | a channel of commands, a `StreamMap`, a buffer per application | add and remove streams, collect lines, push on a full batch, a tick or a removal | one task for all; order of pushes and removals; retry after a lost answer |
| Device log shipper `logging.rs` | an unbounded channel of entries and flush requests, a capped buffer | collect, push on a full batch, a tick or a flush | retry after a lost answer, cap only on failure, exits of the process |
| API client and token `api_client.rs`, `util/device_jwt.rs`, `util/tpm.rs` | cached token and expiry | requests, registration on 418 | the expiry is cached before the signature; several tasks share it |
| Ping loop, configuration, start `loop_ping.rs`, `config.rs`, `main.rs` | none of their own | | exit with status 0 when a task ends |

The OS loop and the application loop share the flag; the application loop owns the lifecycle
tasks and talks to each through its `Notify` and `JoinHandle`; the lifecycle tasks register
streams with the log registry; all loops and shippers talk to the server through the API client.

### The API server (`api-server/`, axum over sea-orm, one database connection)

| Component | State | Operations | What makes it hard |
|---|---|---|---|
| Definitions and assignments `api_v1/db/{os_versions,os_assignments,application_configs,application_assignments}.rs` | four append-only tables, `superseded_by` and `deleted_at`; unique indexes on active assignments and configs in PostgreSQL | POST (a transaction), PUT and DELETE (find, insert, update, each its own transaction), lists | administrators' requests interleave between statements; a handler may end between two; indexes are checked before the supersession; SQLite and PostgreSQL sort NULLs differently |
| Catalogue `routes/{tenants,groups,applications,devices,os_versions}.rs` and their tables | a table each, foreign keys, unique columns | list, read, create, change, delete | find and update are two statements; pages are cut from a table that changes |
| Device routes `routes/device/*.rs`, `auth/device.rs` | none | check the token, list the device's assignments, read each definition; write reports row by row | one answer is put together from several moments |
| Registration `routes/register.rs`, `pending_device_registrations.rs` | pending and accepted devices | register, accept | several transactions, repeated requests |
| Authentication and audit `auth/mod.rs`, `audit_context.rs`, `db/mod.rs` | users, `app.audit_user` of the connection, the triggers | upsert and set the user, run the request; drop and create the triggers at start | requests share the connection; creation of the triggers can stop half way |
| Reports, pings `reported_*_assignments.rs`, `pings.rs`, `device_summaries.rs` | a row per report | upsert, list, read, delete | rows are never removed by the device |
| Logs `ts_db/*.rs`, `log_stream.rs`, `routes/logs.rs` | two hypertables, a broadcast channel | insert, publish, stream, list | lagging subscribers, duplicates |

Outside both: `log-tui` (stream tasks and an interface, joined by a queue), `sea-orm-timescale`
(query and migration builders), `bootc-build` (image, systemd unit, greenboot checks), `common` (request types).

### What makes each part correct

* **OS update**: seen from outside the device moves atomically between whole, assigned
  deployments and can return to the one it left; decisions rest on a status that is still true, but for what an upgrade of the tracked tag replaces under the lock;
  a reboot is asked for only with the application loop told to freeze; the cloud is told the truth; a
  healthy assigned version is booted in the end, whatever fails on the way.
* **Application lifecycle**: the container is kept up and its logs are followed in every run of it;
  a removal ends and leaves nothing.
* **Application reconciliation**: indices stay right, nothing still wanted is torn down, what is
  reported runs, what stays assigned is deployed in the end, also beside OS updates.
* **Assignments**: history is append-only and its chains end, a roll-out has no moment without an
  assignment, a device's own assignment wins, an answer is one the device was meant to have, an
  accepted edit reaches the device.
* **Logs**: order within the device's log, at least once, loss only to the cap, a removal or the end of the process; a
  flush waits for what was logged before it; the live tail has no gap but what the channel overwrote.
* **Catalogue, registration, audit**: references hold, a client that walks a list sees what stayed in it, a device is registered
  once and gets in, the log replays the tables, a change is attributed to who made it.
* **Token**: what a request carries is in time when it arrives.

`PROJECT.json` lists every component with its status, and under `hazards` each place where these
could fail in a way a test would hardly reach.

## 2. Modules

| Module | Models | State ↔ code | Actions ↔ code |
|---|---|---|---|
| `AtomicUpgrade` | the abstract promise of an OS update | what a boot shows: running deployment, fallback, names ever assigned | assign, upgrade, roll back |
| `OsUpdate` | `loop_os.rs` with bootc, operator, greenboot, systemd as environment | `pc` is the await point of `try_switch`; `seen` is `OsState` as last read, `want` the fetched target, `timers` / `applies` the countdown tasks asleep / in `bootc.apply()`, `tracked` the name bootc's staged deployment was pulled by, `flag` the atomic, `forgot` a history of what was staged and then hit by a forgetting fault | one action per stretch between two awaits; `...Fails` is the early return of that await; `bootc upgrade --apply` is `UpgradeStages`, if the tracked tag has moved, and then the reboot |
| `AppLifecycle` | `application.rs` with one container | `pc` is the await point of the loop, `permit` the one of the `Notify`, `remover` the application loop inside `remove()` | as above; crashes are actions of the container |
| `AppReconcile` | `loop_apps.rs` with podman | `apps` is the vector, `current` and `target` what the iterator has left, `want` the configs of this pass | one action per item of the merge; update is a removal and a launch |
| `Device` | the process of `main.rs` with both loops | EXTENDS `OsUpdate`, INSTANCE of `AppReconcile` with `frozen <- flag`; `stranded` is a history of a lock whose update failed | an action of one loop, or a start of the process or device, which resets both |
| `Assignments` | the four tables in the database and the requests that read and write them | `db` the rows (ids are positions), `conn` who holds the connection in a transaction, `req` / `ask` the requests in flight | one action per statement |
| `LogBuffer` | what the two shippers share: sizes and what a failed push leaves | constants | |
| `DeviceLog` | `logging.rs` and the exits of `main.rs` | `channel` is `log_rx` (entry numbers, 0 for a flush), `buffer` the shipper's, `phase` where `main` is, `rows` the stored rows | an arm of the shipper's `select!`, or an outcome of the push it awaits |
| `AppLog` | `podman/log_registry.rs` with the containers' logs | `commands` the channel, `streams` the `StreamMap`, `buffers`, `registry` the push awaited | an arm of the `select!`, one push outcome |
| `LogViewer` | the server's broadcast channel, `routes/logs.rs`, `log-tui` | `published` the events, `tasks` one subscription per epoch, `queue` the mpsc to the interface, `shown` / `scroll` / `conn` the screen | subscribe, send, skip; connect, read, fail, abort; a message, a key |
| `LogPath` | `DeviceLog`, `AppLog` and `LogViewer` together | theirs, and the `load` of a behaviour | a stored push publishes its rows; the end of the process takes the registry along |
| `Database` | tables, references, unique columns, users, audit triggers | `tables`, `nextId` (sequences), `session` is `app.audit_user`, `triggers`, `audit` | insert, change and removal with their audit rows; the reconciliation at start |
| `UserApi` | which statements each endpoint runs | none: records of statements | operators only, one per file of `routes` and of `db` |
| `Requests` | requests in flight over the one connection | `req` (middleware, then statements), `todo` calls to come, `walk` a client reading page by page | one action per kind of statement |
| `DeviceToken` | `device_jwt.rs` and the time checks of `auth/device.rs` | `expiresIn`, `token`, what each task carries and for how long | `token()` from the cache or signed anew, a failed signing, a unit of time, a new process |
| `CloudApi` | users and a device at the server; `api_client.rs`, `auth/device.rs`, `register.rs` | EXTENDS `Requests` and `DeviceToken`; `at` what each task waits for | send, authenticate, register on 418, return; disconnects, restarts, lost answers |

The `MC...` modules give the constants values. The `...Proofs` modules hold theorems and proofs.

How they fit together:

* `OsUpdate` implements `AtomicUpgrade` through the mapping `assigned <- everAssigned`.
* `Device` composes `OsUpdate` and `AppReconcile` over the real flag. `AppReconcile` alone takes the flag as raised at any moment and lowered by a new start, which covers more: each loop's own specification is implemented by `Device` (`DeviceImplementsOsUpdate`, `DeviceImplementsAppReconcile`).
* `AppReconcile` treats the removal of an application as the one step that `AppLifecycle` shows it to be (`RemovedIsGone`, `RemovalCompletes`), with its
  failure logged and swallowed.
* `Assignments` produces the targets that `OsUpdate!Assign` and `AppReconcile!Assign` let change at any moment; that a device has at most one config of an application is an
  assumption of `AppReconcile` and the property `OneConfigPerApplication` of `Assignments`.
* `LogPath` joins agent, server and viewer. `CloudApi` joins the agent's client with the server's requests and database.

Abstractions that cross modules: images, names, references and configs are model values; a
reference is its rank in the order of strings, once with and once without tag, since the order is
all that the merge uses. `Assignments` models the OS tables and the application tables by the same actions,
parameterised by the key of the unique index, because the code of the four files is the same but for it. A log entry is the
number of its event, a row the columns that references, filters and uniqueness look at, a time is relative to the device's clock.

### What each run checks

| Run | Instance | Result |
|---|---|---|
| `device` | the OS loop by itself with 4 deployments (factory, two under a moving tag, one unhealthy), 3 assignments, any 2 of 8 kinds of fault; and beside the application loop, below; 337,560 states | `OnlyUpgradesOutdateStatus`, `ApplyIsLocked`, `StagedHasTrigger`, `ReportsOnlyWhatIsBooted`, `RefinesAtomicUpgrade`, `HealthyVersionsConverge`, `ApplicationsConverge` hold: three faults are the only ways to forget a deferred update; freezes, reboots within a pass and rollbacks only delay an application, and only a lock whose update failed keeps it out |
| `app_lifecycle` | 3 faults of 5 kinds, 3 crashes; 2,118 states | `RunningIsFollowed`, `RemovedIsGone`, `KeptAlive`, `RemovalCompletes` hold |
| `app_reconcile` | 3 applications, one with two configs, 2 assignments, 2 faults of 8 kinds, freezes and reboots; 111,322 states | `IndicesStayValid`, `ReportsWhatRuns`, `KeepsWhatIsWanted`, `Converges` hold when the two orders of references agree |
| `app_prefix` | `web` and `web-admin`, no fault | `Converges` violated (finding) |
| `assignments` | two administrators with up to 3 requests, a device in a group, one abandoned request or group move; OS and application tables, PostgreSQL and SQLite; 998,297 states | `HistoryIsKept`, `NoGap`, `OsAnswerIsCurrent`, `OneConfigPerApplication`, `DeviceWinsOnSqlite` hold |
| `config_edit` | one PUT of a config | `EditReachesDevice` violated (finding) |
| `os_repoint` | one PUT of an assignment on PostgreSQL | `RepointIsAccepted` violated (finding) |
| `device_priority` | no edit at all, PostgreSQL | `DeviceWins` violated (finding) |
| `log_path` | eight loads, below; 107,499 states | `NothingIsLost`, `StoredInOrder`, `FlushIsABarrier`, `DuplicatesAreLostAnswers`, `NoLineIsLost`, `ShownMatchesFilter`, `LiveTailIsComplete`, `EveryEntryIsSettled`, `EveryLineIsSettled`, `FatalExitCompletes` hold |
| `log_batches` | one unreachable server, four entries, a server that takes a batch but not a full buffer | `OutagesPass` violated (finding) |
| `cloud_api` | sixteen loads, below; 195,546 states | `LogReplaysTables`, `WalkSeesWhatStays`, `TokensAreInTime`, `ComesOnline` hold |
| `audit_leak` | the same | `ChangesNameTheirUser` violated (finding) |

Every counterexample is short and starts from a state in use. `findings` in `PROJECT.json` quotes the
line of the documentation, comment or test each of them contradicts. Each run also checks its module's type invariant, which
relates control to data where the code does (`want` is empty outside a pass, a push has something to push, every row's references hold).

### What the models say besides

Behaviour met while modelling that no property states, because it is what the code does and a property could only say so or not:

* **A lock is for life.** Nothing but a new process lowers `os_upgrade_in_progress`. When the pull or the apply it was taken for fails, and the
  operator then cancels the update or it was a countdown's, the application loop stays frozen, with no "hardware reboot" (architecture documentation, line 170) to come. `ApplicationsConverge` shows that
  nothing else does it (`stranded`).
* **A freeze is not instant**, as the same line says: the flag is read only as a tick comes, and a pass that is under way goes on to create and remove containers while bootc switches and applies.
* **A deferred update lives in memory.** After a restart of the agent with a deferred version staged, no cycle starts the countdown of line 276 of the
  documentation again: the version is taken to be counting down. So it is after a failed second status and a failed apply. `forgot` marks the three.
* **A container that never starts** keeps its task out of the `select!`, so that `remove()` never returns and the application loop with it. `RemovalCompletes` is checked for containers that start in the end (`Startable`).
* **A version that rolls back** stays assigned and is staged and booted again for ever.
* **An apply is an upgrade.** `bootc upgrade --apply` fetches what the tracked name means at that moment. With a tag that has moved since the staging, what is booted is a newer deployment than the one the
  cycle or the countdown was about. It bears the same, assigned name, so that the abstract promise holds; a cycle that read its status before a countdown's apply did so goes on with a staged deployment that is
  no longer there (`OnlyUpgradesOutdateStatus` says that nothing else can happen to it).
* **A batch is a buffer.** A push sends the whole buffer, up to `log_max_buffer` entries, although `config.example.toml:37` calls `log_max_batch` the
  "Maximum number of log lines sent in a single batch". With the defaults, 10,000 entries, the server refuses it every time: the log of an application then needs more parameters than a statement of PostgreSQL can
  have, and either log, at more than some 209 bytes an entry, exceeds the 2 MB that axum takes in a body (finding, `log_batches`). The instance of `log_path` has these proportions, `MaxBatch <= MaxAccept < MaxBuffer`, so that
  `EveryEntryIsSettled` and `EveryLineIsSettled` promise an end only to entries whose buffer has not outgrown `MaxAccept`.
* **A diagnostic of its own.** When a push of logs is answered 418, `ApiClient::req` warns with `tracing::warn!` under its own target (`api_client.rs:191`), and the layer puts the warning into the channel whose
  contents were being pushed, although `logging.rs:236-237` says: "Skip shipper diagnostics to prevent a feedback loop where API failures generate logs that re-enter the channel and amplify."
  It is one entry per 418 (`PushUnknown`).
* **The log of an application starts over** with every start of the agent, for its first registration follows the whole history; later ones start
  with the present second. When an application is removed its buffer is pushed once, and dropped although the warning says it will be retried.
* **The viewer** skips what a lagging receiver missed without a word, keeps saying "live" after a stream ends in an orderly way, does not reconnect by itself, and lists the first 100 devices.
* **The audit** of a table that is not among the defaults makes the second start of the server fail half way, and a table dropped from the
  configuration keeps its trigger. The requests of devices set no user and are logged under the user of the last request.
* **Registration** leaves its pending row behind when the handler ends before the last statement, or when two tasks register at once, so that a deleted device can come back. Its tenant is a guess, 1.
* **A device whose TPM key changes**, or whose key a PUT wiped, is answered 401 for ever: only 418 makes it register.
* **Two PUTs of one OS version** both append a successor. Reports are written one by one and never removed.
* **Pages**: a row that leaves the list moves the later ones up and hides one. So does one that comes in between the COUNT and the SELECT of a page: a ping, since they are listed newest first, or a
  row that a change brings into a filtered list before the others: the last page the client was told of no longer reaches the end. Otherwise no row is missed (`WalksSeeWhatStays`).

### Bounds

Every bound is a constant. They only stop the environment, never the code: the loops go on for ever, so that liveness is
checked with the environment come to rest.

* `OsUpdate` (the budget `Alone` of `MCDevice`), `AppReconcile`: two faults reach every pair of failures in one update (say a lost
  power and then a failed pull); three assignments reach version, other version, and back or deletion;
  three applications are the least where a removal moves an element over two others. The four images are there for their roles.
* `Device`, with both loops: each behaviour has one of the budgets of `MCBudgets`: two OS assignments, or two of an application (an update), or one fault of the OS loop, or one of the application loop, always with one
  assignment of the other kind under way at the same time. One application is enough for what the loops share, which is the flag and the restarts.
* `Assignments`: two racing requests with a third behind them are the least where a row is superseded by one that was superseded.
  `SYMMETRY` is used for its administrators alone; that run checks no liveness.
* `LogPath`: each behaviour has one of the loads of `MCLoads`, for the product of all three parts would be needlessly large: device log alone with 4 entries and two faults (the buffer outgrows what the server takes and then the cap, a second
  process starts, a fatal exit meets a failing push); application logs alone with two applications and four lines (the buffer of one outgrows what the server takes beside one of the other); both in one process, where an exit takes the buffers of both; each with a viewer behind a
  broadcast channel of one event, so that one more overruns it, and with one key or one broken connection. A batch is 2, a request at most 2, the cap 3: one failed push and an entry behind it make a request too large, with 4 entries one is cut. `log_batches` has the same sizes.
* `CloudApi`: each load of `MCLoads` pits two users against the same tables of a catalogue of two or three rows (with pages of 1 and of 2), or a device that enrols against lost answers, a new process, a
  changed key, a restart of the server with another audit configuration, and a user who deletes the device or accepts it twice; one or two faults. Times are units: a token lives 4, is
  renewed 1 before its end, a request takes at most 1, the leeway is 2, and the server's clock is 2 ahead, which is the most `SkewAssumption` admits, so that an off-by-one shows; the proof covers all others.

### Fairness

* `OsUpdate`: weak fairness of the loop's steps (as one action, so that a failure may always come
  instead, but only `MaxFaults` times), of a sleeping countdown, of an apply and of a reboot in progress: tokio
  polls what is ready, a child process exits, systemd completes a reboot. None on failures, operators, health checks. `Device` has the same, with weak fairness of the pass of `AppReconcile`.
* `AppLifecycle`: weak fairness of the loop, of its finite sleeps and of what podman reports; strong fairness of
  `Notified`, because `select!` picks among ready branches at random and the loop returns to the select for ever.
* `AppReconcile`: weak fairness of the pass. `Converges` is conditional on `Settled`: the flag stays down and the agent knows every container.
* `DeviceLog`: weak fairness of main's straight-line steps and of the end of a push, which has a timeout; strong fairness of the arms that receive and tick, since `select!` picks at random among the ready ones and comes
  back to both for ever. `AppLog` likewise for commands, ticks and pushes. None on events, lines, faults or the viewer.
* `CloudApi`: weak fairness of each task of the agent, which calls at an interval and whose statements the connection serves in order, and of time. None on users.
* `Assignments`: safety only.

Deadlock is checked everywhere but in `AppLifecycle`, whose task ends, in `LogPath` and `DeviceLog`, whose process ends and stays ended, and in `CloudApi`, whose users have no more calls to make.

## 3. What is proved

With TLAPS, for every value of the constants, under the named assumptions of the
modules (null values are distinct from real ones, the factory image exists, every image has a name, bounds are naturals).

* `OsUpdateProofs`. The inductive invariant `Core` is the type invariant, `ApplyIsLocked`, `RebootHasStaged` (whoever may cause a reboot, a
  timer, an apply or a cycle past its switch, has something staged to boot), `StagedIsTracked` (what is staged bears the name bootc tracks) and `OnlyUpgradesOutdateStatus`. They need one another:
  `FetchForceStaged` goes to the apply on the word of a status it read before, and only because that status can be outdated by nothing but an upgrade, which leaves something staged, is there something to boot;
  an upgrade stays with the name only because that name is the one tracked, and runs under the lock because all applies do. From it: `TypeCorrect`, `StatusHoldsButForUpgrades`, `ApplyAlwaysLocked`, and with one more invariant each
  `StagedNeverForgotten` (as long as `forgot` is false), `ReportsTrue`, and, with `NamesWereAssigned`,
  `ImplementsAtomicUpgrade`: initial states map to initial states and each step to a step or a stutter of `AtomicUpgrade`.
* `AppLifecycleProofs`. The invariant is `TypeOK` with four parts: an open stream belongs to a running container; a container
  the loop knows to run is followed; the loop is in its ending only if a removal was asked for; a task that ended did
  so with its container gone and no stream, or swallowed a failure. From it `TypeCorrect`, `Followed`, `RemovalIsClean`.
* `DeviceLogProofs`. For every batch size, cap, request size and number of entries and faults: `DeviceLogTypeCorrect`, `NoEntryDisappears` (`NothingIsLost`), `RowsStayInOrder` (`StoredInOrder`),
  `FlushWaitsForEntries` (`FlushIsABarrier`). The invariant `DeviceLogInv` reads buffer and channel as one queue in the order of events: every event
  is stored, in the queue, dropped or lost, and whatever was dropped is older than whatever is in the queue. That the queue is ordered is what makes a cut at its front, a push of its
  front and a repeated push after a lost answer all keep the rows in order; where the flush request is in the queue is what `FlushIsABarrier` needs.
  `RepeatsAreLostAnswers` (`DuplicatesAreLostAnswers`) adds a bound: an entry is stored at most once more than answers were lost, and one that is still in the queue at most as often as answers were lost.
* `LogPathProofs`. A step of the path is a step of `DeviceLog` or leaves its variables alone, and likewise for `AppLog`, so that what holds of each by itself holds of it beside the others
  (`DeviceLogKeepsItsPromises`). `AppLogInv` accounts for every line read: stored, in the buffer of its own application, cut, or gone with a removal or the process; a buffer exceeds the batch only
  while a push of it is under way (`NoLineDisappears`). `ViewerInv` reads the way to the screen as one sequence: what the newest subscription delivered is older than what waits in the queue, that older than
  what is on the wire, that older than the stream's position, and nothing that matches the filter is missing in between but what the channel overwrote (`TailHasNoGap`); that only messages of the newest epoch
  are taken makes the older tasks harmless (`TailShowsWhatMatches`). `PathTypeCorrect` has the bounds of the screen and the scroll position.
* `AssignmentsProofs`. For any number of administrators, devices, groups and rows, on both databases: `TypeCorrect`, `HistoryStays`, `NoGapOpens`, `OsAnswersAreCurrent`, `AnswersAreUnambiguous`, `DirectAssignmentsWin`.
  The invariant is over what the requests in flight hold: ids of rows that exist, for rows are only added; a row to be superseded older than its successor, which keeps
  the chains free of cycles; a device's list, read in one moment and looked up in later ones, still ordered by preference although rows have been superseded since, and whatever was gone when it was listed is still gone.
* `AppReconcileProofs`. For any number of applications and configs and any faults: `TypeCorrect`, `IndicesAlwaysValid`, `ReportsAreTrue`, `WantedIsKept`. The heart is `CursorIsSound`: the entries still to merge run down in
  the vector, so that `swap_remove` at the first of them only moves what lies behind all others. `MergeIsSound` says that what is wanted is ahead or already merged. `WantedIsKept` needs two hypotheses on the names
  (`OrdersAgree`, `OneApplicationPerImage`): the instance of `app_reconcile` satisfies both and TLC evaluates them there (`MCOrdersAgree`, `MCOneApplicationPerImage`); the instance of `app_prefix` violates the first, and there the code does fail (finding). These theorems are
  about `LoopSpec`, where the process may end at any time for whatever reason; `LoopKeepsItsPromises` is about `Spec`, whose restarts are counted.
* `CloudApiProofs`. First the token alone, for every lifetime, refresh margin, timeout, leeway, drift and admissible skew: `TokenTypeCorrect`, `TokensStayInTime`. The invariant `TokenInv` says that the cached token expires when the
  cached time says, unless a signing failed (`CacheAgrees`), that no request outlives its timeout (`RequestsEnd`), and that a request had at least the refresh margin
  left when it was sent (`InTimeWhenSent`). `SkewAssumption` is the condition under which the constants of the two programs fit together. `CloudImplementsToken` and `CloudTokensStayInTime` carry this over to the tasks of `CloudApi`.
  Then the server, for every catalogue, any number of users and tasks and any calls of the endpoints in `UserApi`: every endpoint's handler is
  shown to be one that the statements of `Requests` can run (`IsHandler`), and every statement, restart and reconciliation of triggers to keep `DbInv`: tables typed, references and unique columns kept, and the log, entry by
  entry, equal to what was done since the last creation of the trigger. From it `CloudTypeCorrect` and `LogIsHistory`. `WalksSeeWhatStays` is about a client that lists page by page. Its invariant
  `WalkInv` counts: a row that stayed and is not seen yet has at least as many rows before it as the pages read so far hold, and between COUNT and SELECT fewer than were counted, or else something before it has
  left or come in. The step needs facts about cardinalities, and that a finite set of rows has a last one, which is shown by the well-foundedness of the subset order, for induction is not at hand.
* `DeviceProofs`. `DeviceImplementsOsUpdate`: a step of `Device` is a step of `OsUpdate` or leaves its variables as they are, the shared flag included; so `DeviceKeepsOsPromises`, all of the above
  about `OsUpdate` beside the application loop. `DeviceImplementsAppReconcile`: a step of `Device` is a step of `AppReconcile`'s `LoopSpec`, or none: the OS loop only ever raises the flag, and whatever ends the
  process is a new start. tlapm does not let a theorem of an instantiated module be cited, so that `AppReconcileProofs` holds inside `Device` is the reader's instantiation of its theorems, not a theorem; the one invariant the
  device's own run checks of it, `DeviceTypeOK`, is therefore proved directly (`DeviceTypeCorrect`), with finiteness of the containers as the strengthening that makes every vector a sequence.

The assumptions on the constants are named in the modules that declare them and evaluated by TLC on each run's instance. Beyond bounds and null values they say: of `AppReconcile` and `Device`, that there are finitely many configs (a device is
assigned finitely many) and that an image's name follows from its reference; of `Assignments`, that the free connection is no client and that the tables start with active rows whose references exist
(`SeedAssumption`); of `CloudApi`, that a behaviour starts from tables that keep the schema's constraints (`LoadAssumption`), that users and tasks call what `UserApi` describes (`LoadAssumption`, `CallAssumption`) and that the
audit is configured with tables there are (`TrackedAssumption`).

Every invariant and action property the runs check is stated by a theorem. Only model-checked are the liveness properties, `HealthyVersionsConverge`, `ApplicationsConverge`, `KeptAlive`, `RemovalCompletes`, `Converges`, `EveryEntryIsSettled`, `EveryLineIsSettled`, `FatalExitCompletes` and `ComesOnline`,
for liveness under fairness and `ENABLED` are beyond the prover.

## 4. What is not modelled, and why

* Reads without consequences: device summaries (a join for display), the routes that read the audit log, time ranges and pages of historic logs.
* Calls into the TPM, hardware identifiers, uptime, configuration and command line, execution of commands, the query and migration builders of `sea-orm-timescale`, rendering in the viewer: I/O or
  formatting, with no state that changes at run time. Log line parsing, request bodies and formatting are abstracted away inside the modelled components.
* The checks of a user's token in `auth/mod.rs` are taken to succeed, and so is the parsing of a device's token and key.
* A request whose client timed out while the server goes on with it: the model drops it at the timeout (`ConnectionLost`), or delivers it and loses the answer.
* Clocks run steadily; a correction of the device's clock backwards is not modelled.
* A `bootc upgrade --apply` whose tag has moved back to what is booted, and which therefore does not reboot, is counted among the failed applies (`ApplyFails`).
* The gaps that refused inserts leave in PostgreSQL's sequences: ids are only compared.
* The time between the stamp of a ping and the statement that stores it (`pings.rs:29`): a ping is stored as the latest.
* A failure counter that only decides when a warning is logged is left out of `AppLifecycle`.
* Panics, and the exit with status 0 when a task ends, after which systemd's `Restart=on-failure` does nothing: not behaviours of the modelled loops.

## 5. Plan

Done: OS update with its abstract specification and proofs; application lifecycle and proofs; application reconciliation; assignments; both loops in one process; the path of the logs and
proofs; catalogue, reports, registration, authentication and audit with the token, and proofs; proofs about assignments and reconciliation. Left:

1. `Fleet`: the assignments of several devices of one group over the answers they get, with `Assignments` as the source of the targets.
2. An abstract registry of applications that `AppLifecycle` implements, so that the removal `AppReconcile` takes as one step is a proved refinement.
