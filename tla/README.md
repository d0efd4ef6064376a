# TLA+ verification of restic-web

restic-web is a web server (`cmd/restic-web`) and a command line tool
(`cmd/restic-webctl`) over one core package (`internal/core`). They share a
PostgreSQL database and run the `restic` program to back up, check, restore and
clean up repositories. This directory holds TLA+ models of that core, the TLC
configurations that check them and the TLAPS proofs about them.

Notation: a path without a directory is in `internal/core`.

## 1. Inventory

| Component | State | Operations | Talks to |
|---|---|---|---|
| Run coordinator (`coordinator.go`) | `active`: repository -> run that holds its slot; `closing`; per run the goroutine `drive`, its context and `stopped` flag | `Start*` (through `startRunAfter`), `drive`, `startFollowUp`, `Stop`, `Shutdown`, `finish` | run store, runner, Docker, event bus |
| Run store (`runstore.go`) | rows `runs` and `run_log_lines`; `live`: the copies of the runs this process drives | `Begin`, `mutate`, `finalize`, `Get`, `ActiveRuns`, `Log`, `AppendSystemLine`, `reconcile`, `prune` | database, event bus |
| Reconcile (`reconcile.go`, `reap_linux.go`) | none | at boot: settle what is left active, kill orphaned children, unlock, restart containers | run store, runner, Docker |
| Runner (`runner.go`, `runner_stdio.go`, `restic.go`) | the restic child and its pipes | one method per restic command | coordinator through `RunSink` |
| Run log and live updates (`broadcaster.go`, `handlers_sse.go`) | subscribers with bounded buffers, `Last-Event-ID` | `publish*`, subscribe, replay and tail | run store, browsers |
| Database backup and restore (`coordinator_db.go`, `dbengine.go`) | the databases in a container, the temporary database, the safety snapshot | `StartRestoreDatabase`, `postgres`, `recoverSwap`, `replace`, roll-back | coordinator, Docker |
| File restore (`coordinator.go`, `restore_target.go`, `docker.go`) | the folder restored over, its containers, the list recorded on the run | resolve the target, stop, record, restore, start again | run store, reconcile, Docker |
| Scheduler (`scheduler.go`) | none of its own but where its tick is; reads jobs, repositories and runs | `tickOnce` | coordinator, run store |
| Authentication (`auth.go`, `login_limiter.go`, `handlers_auth.go`) | password row and its cache, sessions, failure counts | setup, login, change password, logout | database |
| Catalog (`pg_entities.go`, `repo_settings.go`, `handlers_entities.go`, `handlers_docker.go`) | folders, databases, repositories, jobs | create, edit, delete, settings, one-step backups, reference checks | coordinator |
| Web interface (`src/ui/src`) | what each screen has loaded, its streams, its forms | load, reload on events, submit | the HTTP handlers and the two event streams |
| restic-webctl (`cmd/restic-webctl`) | none between commands | the same `App` in a process of its own | database, restic |
| Snapshot browsing (`snapshot_ls.go`) | a small LRU cache | `Get`, `Put` | runner |
| Discovery, validation, speed test, HTTP routing, command output | little or none | reshape data | the components above |

What is hard here, and where it comes from:

* **Several processes, one database.** The coordinator's mutex is local; another
  process is seen only through the rows, and those are written as whole rows
  from a live copy.
* **Hand-over.** A successful backup gives its slot to the retention run before
  it is itself recorded as finished; a finished run may be superseded before it
  releases its slot.
* **Errors that are dropped.** A failing busy query reads as "nothing active", a
  failing status write is ignored, a failing insert may have succeeded, a failing
  read of the last backup reads as "never run".
* **Crashes.** A process may die between any two steps, its restic children and
  the containers it stopped stay as they are, and the next boot has only the rows
  to go by.
* **Stopping.** From the driving process, from another one, and from `Shutdown`,
  against the run's own end.
* **Handlers of several statements.** A check and the write that relies on it are
  separate statements; requests of other tabs, and runs, come between them.
* **Streams.** A browser learns of changes through bounded, unordered, breaking
  connections, and its screens mix them with what they load.
* **Wall-clock decisions.** A tick compares times that it reads one after the other
  while runs end and users edit.

`PROJECT.json` lists each hazard with its line and the properties about it.
What makes each component correct:

* coordinator: no two runs of a process work on one repository; a run keeps its
  slot as long as it has work; a stop frees the repository; nothing starts once
  shutdown began; what is on record implements per-repository serialization;
* run store: a settled record stays settled; a successful backup names its
  successor; log sequence numbers have no gaps or duplicates;
* reconcile: after boot nothing is recorded active that nobody drives, no
  recorded child of an earlier process still runs, and containers that a restore
  had stopped are started;
* live updates: a subscriber gets every log line, or it is known why not; a screen
  that is connected ends up showing what is stored; a follower of the log has
  printed all of it when it stops;
* database restore: what it replaces is kept, and the message says what is there;
* file restore: only what the dialog named is touched, nobody writes there
  meanwhile, and the site comes back;
* scheduler: what is due is started unless others keep its repository busy, and no slot is
  served twice;
* authentication: who is logged in proved the password that is in force;
* catalog: no job without its source and repository; settings do not undo each other.

## 2. Plan

| # | Module | Composes | Abstract specification | Proofs |
|---|---|---|---|---|
| 1 | `Coordinator` (with run store records, reconcile, processes) | coordinator, run store, process lifetimes | `RepositorySerial` | `CoordinatorProofs` |
| 2 | `RunLog` | log writers of two processes, broadcaster, one subscriber, a CLI follower | - | `RunLogProofs` |
| 3 | `DatabaseRestore` | restores, the database server, broken connections, crash and reconcile | - | `DatabaseRestoreProofs` |
| 4 | `LiveView` | runs of a job, the two event streams, the browser's screens | - | `LiveViewProofs` |
| 5 | `Catalog` | the forms of the pages, their handlers, the runs that store and forget snapshots | - | `CatalogProofs` |
| 6 | `Session` | tabs, handlers, sessions, the limiter, a CLI | - | `SessionProofs` |
| 7 | `FileRestore` | dialogs, the plan, Docker, restic, crash and reconcile | - | `FileRestoreProofs` |
| 8 | `Scheduler` | clock, tick, runs, edits, crash and boot | - | `SchedulerProofs` |

The modules that begin with `MC` add to these only values and symmetries for TLC.
`Coordinator` is the centre: the other modules stand beside it and take from it
what they need in one line, that a run holds its repository's slot and has a
record that is active until it ends. Section 6 says what is left out and why.

## 3. The modules

### Coordinator

One module for the coordinator, the records it writes and the processes around
them, because its properties are about exactly these together. Each action is
one critical section of the mutex or one database statement, so that every
interleaving the code allows between them is a behaviour.

| State | Code |
|---|---|
| `row` | the row in `runs`: status, pid (with its start token), follow-up parameter |
| `live` | `RunStore.live`; only the process that drives a run has a copy that lasts, so one copy per run suffices |
| `active`, `shut` | `Coordinator.active` of each process, `closing` and the progress of `Shutdown` |
| `pending` | a start between its checks and its insert, holding the mutex |
| `pc`, `verdict`, `next` | where `drive` stands, what `classifyRun` said, the follow-up it started |
| `stopped`, `signalled` | `activeRun.stopped` with its canceled context; SIGINT or SIGKILL from another process |
| `spawned`, `alive` | the restic children launched so far (the number stands for the pid and its start token) and whether the last one lives |
| `mode`, `todo`, `toStop` | whether a process serves, and the loops of reconcile and `Shutdown` |

| Actions | Code |
|---|---|
| `StartRun`, `StartFollowUp`, `BeginRun`, `BeginFails` | `startRunAfter`: the checks are one step, the insert another, both under the mutex but not atomic towards other processes |
| `SetRunning`, `Spawn`, `RecordPid`, `StepDone`, `ExecReturn`, `NoFollowUp`, `NameFollowUp`, `Finalize`, `DropLive`, `Finish` | `drive` and the runner it calls |
| `StopRequest`, `ShutdownBegin`, `ShutdownStop`, `ShutdownReturn`, `ServerExit` | `Stop`, `Shutdown`, `main` |
| `Crash`, `OrphanExit`, `ServerBoot`, `ReconcileRun`, `ServerServe`, `CliLaunch` | process lifetimes, `reconcile` |

Abstractions: `success_warnings` is folded into `success`, which takes the same
paths. A run's kind is not stored: any run but a follow-up may turn out to be a
backup with retention. Log lines, progress and summaries are left out; those
that write the row write the same live copy as `RecordPid`. `ReconcileRun` reads and
writes a row in one step; the columns that could differ are not read by any
property once the status is `interrupted`. `Stop` reads the status and finds the
handle in one step; a stop that arrives with a stale status finds a run whose
outcome is already classified and changes nothing. The CLI's end is a `Crash`:
it waits for its runs, and only one that has none loses nothing. After the
`MaxCrashes` bound the server cannot exit any more.

### RepositorySerial, MCCoordinator

What callers are promised: a record is accepted only when no unsettled,
unrelieved record owns the repository; a run ends once; a backup that handed
over can only succeed or be interrupted. `Coordinator` maps its rows, its
repositories and the backups with a successor onto it. Records left by a refused
start (`ghost`) are no accepted runs and map to absent ones. `MCCoordinator` adds
the symmetry over runs and repositories, which the safety runs use.

### RunLog

The log of one run, from those who append to those who read. It stands beside
`Coordinator`, which leaves log lines out: the only things the two share are the
terminal status (`final`) and the order in which `drive` logs the outcome and
finalizes. A line is its sequence number.

| State | Code |
|---|---|
| `log` | the rows of `run_log_lines`; their primary key refuses a number twice |
| `logMu`, `seq`, `done` | `runHandle`: its mutex (who holds it), counter and end |
| `at`, `mine`, `calls` | where each call of `Log` or `AppendSystemLine` stands, the number it stored or read, how often it was made |
| `conn`, `ch`, `maxSeq`, `wire` | `handleRunEvents`: its stage, its channel in the broadcaster, its local `maxSeq`, and what it wrote that has not arrived |
| `seen`, `shown` | `useRunStream`: `seenSeq`, equal to the browser's `Last-Event-ID`, and the lines on the screen |
| `follow`, `cur`, `printed` | `runFollowLog` and its cursor |
| `lost`, `foreign`, `outcome`, `unheard` | history: lines of the run refused twice; lines of others stored; the end of the log at the terminal status; lines that no channel will bring to this browser |

| Actions | Code |
|---|---|
| `StartLog`, `InsertStores`, `InsertFails`, `InsertTaken`, `CatchUp` | `Log` and `insertLog`: one statement per action, under `logMu` |
| `Publish` | `publishLog`, after `logMu` is released |
| `AppendRead`, `AppendInsert`, `AppendFails` | `AppendSystemLine`: its one statement reads and inserts, and two of them overlap |
| `Finalize`, `SetDone` | the order of `finalize` |
| `Connect`, `Replay`, `StartTail`, `Deliver`, `Disconnect`, `Receive` | `handleRunEvents` and the browser; `Connect` covers a reconnect with `Last-Event-ID` and a page load |
| `FollowPrint`, `FollowStatus`, `FollowLast` | `runFollowLog` |

A statement that fails may have taken effect (`InsertFails`, `AppendFails`), and
`ReadLog` may return the first lines only, since it does not look at the error that
ends the iteration (`Replay`, `PrintNew`). The backlog is written into the stream
in one step; lines published meanwhile are in the channel already, so nothing is
lost by that. `SKIP_BACKLOG_SEQ` (list screens that want no log) and prune are left
out.

`unheard` makes `SeamExact` precise: a line is put there when it is published while
the stream cannot carry it any more (full channel, a later line went first, or it
was published in another process), and taken out when a backlog brings it. The
property then says that these are the only ways to miss a line: the seam between
backlog and tail is not one.

### DatabaseRestore

Restores of one database, from the busy check to the report. It stands beside
`Coordinator`: a run here has its slot and its record already, and only one thing
of them matters, whether the record is active (`OnRecord`). Each run has a
repository of its own, so the slots do not keep two of them apart. The database
server and what Docker leaves of a command are external to the code and modelled
from how it uses them; the restic side is one statement (`store`) or the input of
an import.

| State | Code |
|---|---|
| `engine`, `db`, `closed` | PostgreSQL or MySQL/MariaDB; the contents of the database ("live") and of each run's temporary one; whether connections to live are refused |
| `stray` | statements of a command that nobody waits for any more, which the server may still execute |
| `pc` | the command the run waits for, the row update it makes, or how it reported |
| `script`, `reply` | what is left of the statements of that command, and its end: answered, non-zero exit (`dbExitError`), or lost (any other error of `dbCommand`) |
| `stopped`, `expired` | the run's context is canceled; the five-minute context of the swap and its recovery is over |
| `wants`, `existed`, `spool`, `safety`, `recorded` | `opts.SafetyBackup`, `meta.Exists`, the dump, the contents of the safety snapshot, the parameters in the row |
| `before`, `left`, `overlapped`, `broken`, `ignored` | history: the database when the run began and when it settled; two restores met; a connection broke; which steps of a recovery failed and were passed over |

| Actions | Code |
|---|---|
| `Check`, `Begin` | `databaseBusy`, then the insert and the first command: two steps, so two restores can both pass |
| `StatementDone`, `StatementRefused` | a command's statements, one by one; a refused one ends the script (`ON_ERROR_STOP`) |
| `DumpCut`, `ImportCut` | the dump tool exits 0 on a dump without its end; restic fails while the client accepts what it got |
| `Lose`, `Abandon`, `StrayStatement` | `dbCommand` gives up because the connection broke or the context is canceled; `killExecCmd` ends the processes, but not the statement the server is at |
| `Proceed` | `StartRestoreDatabase`, `postgres`, `recoverSwap`, `replace`: where success or failure leads from each command |
| `RecordParam` | `mutate` of `safetySnapshot` and `tempDatabase`; its error is dropped |
| `Stop`, `Crash`, `Reconcile` | `Coordinator.Stop`, death of the program, `reconcile` |

What is assumed of the outside: a statement takes effect whole or not at all,
except a MySQL import, which is statement by statement (`part`); psql imports
in one transaction. A command that exits non-zero did not execute the statement it
failed at. A DROP ends the sessions of its database, and on MySQL waits for the
statements that hold its lock. Nobody but these runs creates, drops or renames
these databases, and clients' writes are not modelled: `before` is the database
when the restore began, and a client that writes after the safety dump loses
that, as the code accepts.

### LiveView

What one browser shows of the runs of one job. The lines of a log are `RunLog`'s;
here a message is a run with its status.

| State | Code |
|---|---|
| `status`, `unsent`, `stopAsked` | the row of each run; changes that are stored and not yet published; active runs a stop was asked for |
| `global`, `active` | `LiveProvider`: its event stream (connection and queue) and `activeRuns` |
| `route`, `hook`, `initial`, `list`, `starting` | the screen; `useRunStream` of the job card or the run screen; the run screen's first load; `useFetch` of the list; the pressed button |
| `ask` | a request to start a backup |
| `lost`, `blind`, `behind` | history: what a connection or a full channel lost |

| Actions | Code |
|---|---|
| `ScheduledRun`, `Finalize`, `Restart` | runs that begin, end or are interrupted; the record is stored, not yet published |
| `Publish` | `publishRun`: to the subscribers of the run and to the global ones, dropping at a full channel |
| `GlobalConnect`, `GlobalSnapshot`, `GlobalDeliver`, `GlobalBreak` | `handleEvents` (subscribe, then read the active runs) and `es.onmessage` |
| `HookConnect`, `HookRefused`, `HookDeliver`, `HookBreak` | `handleRunEvents` and `useRunStream` |
| `ListRead`, `ListArrives`, `ListFails`, `InitialLoaded`, `InitialFails` | `useFetch`: the newest load wins; the run screen's first load |
| `Visit`, `RunNow`, `RunAnswered`, `Stop` | what the user does |

`ScreensCurrent` says that the screens show the runs as they are stored once everything
has arrived: the lists, unless a load failed or an event was missed (`ListCurrent`), and
the run's page and the job card, unless a channel overflowed (`StreamedRunCurrent`).

The queue of a stream holds what the handler wrote and what still waits in the
channel. `starting` and `running` are one status. The dashboard's list is the
Activity list under another view. Reloading the page is not an action: it
discards what the browser holds, which is where `Init` starts. A final status write that
is lost though the end is published (`runstore.go:637`) is left out: the row then calls
the run active until a restart, and a list that is loaded shows that.

### Catalog

Folders, databases, repositories and jobs, and the dialogs that edit them. A form
is filled from what its page had loaded, and its handler's statements interleave
with those of other forms and with runs.

| State | Code |
|---|---|
| `sources`, `repos`, `jobs` | the rows; a row is unused, live or deleted |
| `slot`, `snaps` | the run that holds a repository; which jobs have snapshots in it |
| `form` | a dialog or card: what it sends, where its handler stands, what it has read |
| `late`, `moved`, `forgot` | history: jobs for which a backup got its slot after the job was gone; jobs that were given another repository; which job was deleted with its snapshots, and on which repository these were forgotten |

| Actions | Code |
|---|---|
| `Open`, `Cancel`, `Submit`, `Answered`, `AnswerLost`, `Refused` | the pages, the dialogs and their requests |
| `SaveFolder`, `CheckUnused`, `RemoveSource` | the folder and database handlers and stores |
| `CreateRepository`, `ReadStored`, `EditRepository`, `SetSetting`, `RemoveRepository` | the repository handlers; an edit keeps the stored password when none was typed |
| `CheckRefs`, `CreateJob`, `SaveJob`, `CheckIdle`, `RemoveJob` | the job handlers, `JobStore.Create`, `Update`, `Delete` and the foreign keys; what is saved may name another repository and source (`JobUpdate`) |
| `ResolveJob`, `StartBackup`, `StartForgetJob`, `StartResetRepo`, `ResticSucceeds`, `EraseJob`, `RunFails` | the runs that need or change the catalog |
| `FindSource`, `MakeSource`, `QuickJob`, `InsertUnheard`, `Undo` | `CreateQuickJob` with its undo; each of its inserts may take effect though it fails |
| `Crash` | requests and runs are lost |

Names are left out: one in use is one more reason for a statement to be
refused. A repository's place and options are left out; its password stands for
its secrets. A job's schedule and retention are values that a form carries. The forms stand for
every client: the pages change a job's schedule or retention only, while
`PUT /api/jobs/{id}` and `restic-webctl job update` may also give it another
source and repository, at any time, also while a run of it works. A run stays on the
repository its job had when it was resolved, and snapshots stay where they are.
`ForgetTakesAll` therefore promises for a job that never moved that no repository keeps
a snapshot of it, and for any job that the one on which they were forgotten keeps none,
but for what a `late` backup stores.

### Session

| State | Code |
|---|---|
| `row`, `cached`, `unread` | the password row; `AuthStore`'s copy; whether a write passed the copy by |
| `sessions`, `begun`, `proof`, `overtaken` | `SessionManager`; history: the password given for each token, and tokens whose proof was outdated when they were made or kept |
| `fails`, `locked` | `loginLimiter`, of the one client that all tabs are |
| `home`, `cookie`, `view` | the browser of a tab, its cookie, and `AuthProvider` |
| `req` | a tab's request and where its handler stands |
| `cli` | a restic-webctl that has read the row and not written it |

| Actions | Code |
|---|---|
| `LoadPage`, `SubmitSetup`, `SubmitLogin`, `SubmitChange`, `Logout`, `Answered`, `RequestLost` | the tabs |
| `Status`, `RefuseLockedOut`, `CheckLogin`, `CheckSetup`, `StartSession`, `HandleLogout` | the handlers; hashing lies between the check and the session |
| `Admit`, `ChangePassword`, `StoreFails`, `KeepOnly` | a password change: `requireAuth`, the row, the other sessions |
| `TimePasses`, `Expire`, `Restart`, `CliStart`, `CliWrite` | lockout and session lifetimes, a restart, `auth setup` and `auth passwd` |

A password is a word with or without spaces around it: what is typed into a login
is compared as it is, a stored one is trimmed by the web handlers and not by
restic-webctl. A new password that is too short is refused: any may be, since words
have no length here. What `SessionsFollowPassword` excuses (`overtaken`) and `SetupOnlyFirst`
excuses (`unread`) does happen; they say that nothing else leads there.

### FileRestore

| State | Code |
|---|---|
| `disk` | who wrote the file at each path: the site, the n-th restore, or nobody |
| `mount`, `state` | the folder of each container; up, down, or stopped by a restore |
| `dialog` | which folder the open dialog asks containers for, and what it was told |
| `run` | the restore of each repository: request, plan, phase, containers to stop, stopped and refused, those in its parameters (`params`) and those in its row (`noted`) |
| `booting`, `abandoned` | containers that the boot starts; stopped ones nobody will start |

| Actions | Code |
|---|---|
| `OpenDialog`, `CloseDialog`, `ContainersKnown`, `Submit` | `RestoreDialog`, `SnapshotBrowser`, `StartRestoreWith` |
| `PlanRestore` | `planResticRestore`, `planResticRestoreSelection`: target and includes, or a refusal |
| `ListContainers`, `NoteContainer`, `StopContainer`, `StartContainer` | `stopContainersUsing`: each container is recorded before it is stopped and started afterwards; an update of the row may be lost (`mutate` drops its error) and the next one makes up for it |
| `StartRestic`, `ResticWrites`, `ResticDeletes`, `RunFails`, `Finish` | `runner.Restore` and what restic does; the outcome, whose update may be lost: the row stays active until a boot |
| `Restart`, `BootStarts` | death of the program, `reconcile`, which may fail to read the rows or to settle one, and the starts after it |
| `ContainerWrites`, `OutsideActs` | the sites, and other users of Docker |

A path is a sequence: `<<f>>` a backed-up folder, `<<f, x>>` a file in it,
`<<t, f, x>>` what a restore into `t` makes of it. `Plan` is the target and the
filter that `restore_target.go` computes; what restic writes and deletes for them
is external, from how `runner.go` calls it: everything selected is written, and
under `--delete` what the filter covers and the snapshot lacks is removed. Docker
may refuse each call.

### Scheduler

| State | Code |
|---|---|
| `clock` | the time of a repeating week, in units (minutes, say; half hours in the run); moments are distances from now, kept at a horizon when further back than any rule looks |
| `sched`, `saved`, `checkSched`, `since` | the job's schedule and `UpdatedAt`; the check schedule and its `Since` |
| `last`, `checked` | what `backupTiming` and `lastCheckStart` would find |
| `run`, `stale`, `up` | the run that the server drives; what those rows are of that call a run active which nobody drives; whether restic-web runs |
| `at`, `stage`, `late`, `list` | where `tickOnce` stands: the item, the step, how long ago it took the time, the jobs it listed |
| `fired`, `rest`, `served` | history: scheduled starts that crowd, and how long ago the newest was; what a slot has led to |
| `faults`, `events` | failed statements; these and everything else that is bounded |

| Actions | Code |
|---|---|
| `TickBegin`, `ListJobs`, `LookAtJob`, `TimeJob`, `TimeCheck`, `StartDue` | `tickOnce`, one statement at a time |
| `Finish` | a run ends; a successful backup may hand over to its retention run |
| `Request`, `SaveJob`, `SaveCheckSchedule` | users start runs and save settings |
| `Crash`, `Boot` | death; reconcile marks the active rows interrupted, as of now, before the scheduler starts |
| `Advance` | a unit of time passes |

`jobDue` and `checkDue` are the code's, written as "some slot lies between": that a
next slot is not after now. Anything may happen in any order at one moment,
so "the moment of the slot", "the moment the run ended" and "now" do coincide.
Time passes between any two steps, those of a tick too, which decides by the time it
took when it began; `MaxLate` bounds how far that may lie back. A statement may fail at
every place: a read that fails has the meaning the code gives it (no jobs, no backup, no
check, not busy); an insert that fails may have taken effect (`BeginUnheard`,
`runstore.go:604`); a run's last write may be lost (`Finish`, `runstore.go:637`), and so may
a mark at boot. The last three leave a row in `stale`, which keeps the repository
busy until a restart marks it.

What is left out: a clock set back, the change to summer time, a monthly check, several
repositories, deleted jobs, restic-webctl running while the server is down.

`served` counts what a slot has led to: the successful scheduled backups since the
newest slot, the newest save of the job and its newest backup that did not succeed,
whoever started it; and the scheduled checks since the newest time of day. `OncePerSlot`
bounds it by one, and one more for each statement that failed, since a failed read of
the last attempt is taken for none at all.

`fired` counts scheduled starts that crowd: each less than an hour after the one before,
with no slot of the job's calendar and no save of the job between them. `NoRetryStorm`
bounds it in the same way. The slot must be excepted: a backup that failed at 01:15 is
tried again at 02:15, and at 02:30 for its slot.

## 4. The runs

| Run | Instance | Shows |
|---|---|---|
| `restart` | 1 server, 1 repository, 2 runs of up to 2 children, 2 crashes, 1 database error | `ReapedBeforeServing`, `QuiescentMeansFree`, `TerminalIsFinal` |
| `pair` | server and CLI, 2 repositories, 2 runs, 1 database error | `TypeOK`, `ClaimHoldsSlot`, `FollowUpVisible`, `NothingStartsAfterShutdown` |
| `live` | 1 server, 1 repository, 2 runs, 1 crash, fairness | `ImplementsSerial`, `StopFreesRepository`, `ShutdownDrains` |
| `run_log` | the run's output, a stop's line and one line of a CLI; 1 browser with 2 connections, channel of 1, 1 database error, fairness | `LogContiguous`, `LossBounded`, `SeamExact`, `FollowPrintsAll`, `LineGetsThrough` |
| `restore` | 2 restores one after the other, with overlapping checks, either engine, down to what each reports; 2 faults, stops, 1 crash | `NothingLost`, `WholeCopy`, `Truthful`, `TrailOnRecord` |
| `live_view` | 2 runs, channels of 2, 2 loads at once, 1 break, lost load or restart, 1 change of screen, fairness | `TypeOK`, `ActiveRunsTold`, `ScreensCurrent`, `RunPageSettles`, `CardCatchesUp` |
| `catalog` | 1 folder, 1 database, 1 source, 2 repositories, 2 jobs, 2 forms, 1 lost answer, failed undo, unheard insert or crash, any catalog to begin with | `TypeOK`, `References`, `ForgetTakesAll`, `SettersKeepApart`, `QuickLeavesNothing` |
| `session` | 2 tabs, 2 browsers, 2 words, 2 sessions, lockout after 2, 1 lost request, restart or CLI | `TypeOK`, `SessionsFollowPassword`, `SetupOnlyFirst` |
| `file_restore` | 2 repositories, 2 folders, 2 files, 2 containers, 2 restores of one selected path or whole, snapshots of one file, 1 crash, and 1 refusal, lost update or outside act | `TypeOK`, `SitesBroughtBack`, `QuietWhileRestoring`, `TouchesOnlyWhatItSaid`, `RestoredAsTaken` |
| `scheduler` | 1 job (every hour and a half, or daily at half past) and the daily check, half hours, a week of one day of two hours, ticks of up to half an hour, 1 request, edit, failed statement or crash, fairness | `OncePerSlot`, `NoRetryStorm`, `DueIsServed` |
| `restore_swap` | 1 restore, 1 fault | `NeverHalfDone` is violated |
| `job_folder_replaced` | 1 restore of 1 repository, 1 container | `JobFolderReplaced` is violated |

**Bounds.** Two runs on one repository are a hand-over or a contention; that
a third may slip in is covered by the proof of the refinement, which has no bound. Two
children are needed for a pid that belongs to an earlier child. One database error
at every place it can strike covers each dropped error by itself; two crashes
cover a crash during the reconcile after a crash. For the log, three lines by three
appenders reach every collision (a number taken while waiting, the retry and its
loss), a channel of one is full when two lines are under way, and two connections
are a disconnect at any place and the resume. For the database restores, two
faults are a failure and one in the recovery from it; the second run is there for
what the first one left (`stray`) and for the raced busy check. `MaxTogether` is 1
in the run: with 2 the restores overlap, of which nothing is promised. In
`live_view` two runs are the one on screen and its successor, and a channel of two
overflows when three messages are under way. In `catalog` two forms are the two
handlers whose statements interleave; the initial catalogs are all
that one source, two repositories and two jobs can be, moved jobs included, so nothing
has to be built up first; two repositories are the one a job had and the one it has.
There is one password, so that an edit does not undo a new one is shown by the theorem
only. In `session` two tabs are a login beside a change, two setups, or two
failures; two sessions are an old one and a new one. In `file_restore` two
repositories are two restores over one folder, and two files tell what is selected
from what is not; the one crash leaves the rows for a boot, and what a second crash during
the starts of that boot does is covered by the theorem. In `scheduler` the unit is half
an hour, so that a slot, a retry and an interval fall between full hours and between each
other; a day of two hours is the shortest that has times before, at and after the slot.
One event is one thing that comes between the steps of a tick, and a tick may take
half an hour at any of its steps. One job and the check are two that wait for each
other; several jobs are in the theorems, not in `DueIsServed`. Time itself, ticks and the ends of runs are
not bounded, for the state repeats. The proofs of section 5 do not depend on any bound.

**Deadlock** is checked in `scheduler`, where a tick goes on or time passes. Elsewhere nobody has
to start a run, to open a form or to load a page, and ids are finite, so the
system may rest.

**Fairness.** In `live`, weak fairness for every step of `drive`, of a start under
way and of reconcile says that goroutines are scheduled and statements return (they
have a time limit). Taking the mutex (`Finish`, `ShutdownStop`, the poll of
`ShutdownReturn`) is strongly fair: Go's mutex does not starve a waiter. A restic
child ends by itself only when its context is canceled: `resticCommand` sends
SIGINT and `WaitDelay` kills it. A child nobody stops may run for ever. No
fairness is assumed of requests, crashes, signals or database errors, and the
run has no database error: with a lost status write a record stays active until a
restart. In `run_log` a stored line is published, and a stream that is up replays,
tails and delivers, all weakly fair: each of these steps stays enabled until taken
or the connection breaks. Connecting, appending and following are not assumed to
happen. In `live_view` what is stored is published, the browser's `EventSource`
reconnects and delivers, and a request that was sent is answered; runs need not end
and users need not act. In `scheduler` the tick's goroutine goes on, a run ends
(restic's own end is outside the code, and a run that never ends holds its
repository by right), and a server that is down is started again (the service
manager's part); time need not pass.

**What failed statements and a second process cost.** `ImplementsSerial` needs that
no statement fails. With one, TLC finds the behaviour in which the final status
write is lost while the live copy already says the run is over: the next start
passes `HolderYields`, skips the holder's row in the busy query, and two rows are
active, although only one run works (`ClaimHoldsSlot` holds with any number of
errors). `QuiescentMeansFree` and `ReapedBeforeServing` are stated for behaviours
without a database error for the same reason. Beside a second process all of these,
and `TerminalIsFinal`, fail: the busy check and the insert are separate statements
without a constraint between them, so two processes may run on one repository; and
reconcile takes every active row for a dead run, a live `restic-webctl` included,
which then writes its status back over the settled one.

**Disagreements with the text, shown by a run.** (1) `restore_swap`: a swap whose
connection breaks can end with neither database, though `coordinator_db.go:435` has it must
not be left half done: the DROP in flight completes after `recoverSwap` saw the live
database and removed the restored copy. (2) `job_folder_replaced`: the dialog says
that a restore into the job's folder overwrites matching files there; after the folder
of the job was edited the old path is nested in it, and everything else is deleted.

**Seen while modelling, without a run of their own.**

* `Shutdown` may report that all runs finished while a backup that handed its slot
  over is not finalized yet; the next boot marks it interrupted.
* A browser can show a line and never the one before it: `Log` publishes after it
  released its mutex, the handler takes a late lower number for one the backlog
  had, and `Last-Event-ID` is past it. The same happens for a line dropped by a
  full channel (the comment at `broadcaster.go:84` has the subscriber resync from
  the store, but it resumes after the highest number it got) and for one appended
  by another process. `SeamExact` says that there are no other ways.
* The busy check for a database is not atomic with the insert, though `README.md:148`
  of the repository has backups and restores of one database never run at the same time.
* `recoverSwap` takes a look at the live database that failed for "gone"
  (`coordinator_db.go:452`): a swap whose DROP is refused, then a look that is refused,
  end in a report that the database was dropped (`:467`) while it is untouched, and
  still refuses connections, since only the branch for a database that is there
  reopens it. The same follows from the swap's timeout, whose context the recovery
  works under. A reopening that fails is ignored too: the report says "not changed" and
  no client gets in. `Truthful` excuses exactly these two (`ignored`).
* A stop that arrives during the swap does not interrupt it, and the run is recorded as
  canceled although the database was replaced. A stop or failure while the temporary
  database is being created can leave it behind.
* A run whose last event was lost stays in the browser's list of active runs until
  the page is loaded again: the snapshot sent on a reconnect adds runs and removes none.
* The schedule and the retention of a job are two forms of which each sends the
  whole job as its page had it: the later save undoes the earlier one.
* A login verified with the old password may create its session after a password
  change ended the others; a setup in the browser may replace a password that
  restic-webctl wrote beside the running server. `SessionsFollowPassword` and
  `SetupOnlyFirst` excuse exactly these.
* The login limiter counts after hashing, so attempts that overlap are all let in.
  Setup and change store a password without the spaces around it, and the login
  compares what is typed: typed the same way, with spaces, it is refused.
* A container that Docker refuses to start at boot is not tried again. A container that
  is stopped although the update of the row that was to name it failed, which
  `mutate` does not tell its caller (`runstore.go:637`), stays down if the program then
  dies before a later update of that row: `SitesBroughtBack` gives up exactly these, and
  what another crash cuts short.
* A restore that ends starts the containers it had stopped, though another restore
  over the same folder still relies on it: the later one does not stop them, since they
  were down when it listed them.
* A job that is given another repository, which the pages do not offer, leaves its
  snapshots in the one it had. Deleting it "with its snapshots" then forgets those in
  the repository it had when the request was resolved, and nobody asks the others.
* The scheduler counts a canceled or interrupted backup, a manual one included, as a
  failure: an hour after a user stopped it, it is started again although the slot was
  served, and so `OncePerSlot` begins to count anew. A retry does not look at the next
  slot: a job may be started at 02:15, fail or not, and at 02:30 again. A calendar
  schedule that is enabled on a job whose last backup is older than its last slot
  starts at once.
* What is due need not get the repository. Items that the schedule keeps starting can
  hold it for ever: three healthy jobs with a run of an hour every two hours are
  enough, and the check, which is looked at last, waits. Nor does it get past a row that
  calls a run active which nobody drives, because its last write was lost or an insert
  took effect though it was reported as failed, until the server is restarted.
  `DueIsServed` says that these are the only ways.
* `PRODUCTION_READINESS.md:132` has a never-run daily job that is offline across its first
  slot wait for the next day; the code, and `README.md:301`, catch up.

## 5. The proofs

`CoordinatorProofs` proves, for all values of the constants that satisfy the
assumptions of `Coordinator` (the server is a process, the null values are no
members, the bounds are numbers):

* `TypeCorrect`: `Spec => []TypeOK`.
* `ClaimsHoldSlots`, `ClaimsAreExclusive` (no two runs of one process have work
  ahead on one repository). `ClaimHoldsSlot` is not inductive: a
  start that passed its checks could overwrite the slot of a run with work
  ahead. `SlotInv` adds what rules that out: such a run's live copy says it is
  active (so `HolderYields` refuses), and a start under way is for a repository
  on which no run of that process has work ahead. Exclusiveness follows, since a
  slot holds one run.
* `FollowUpsVisible`. `FollowInv` follows the successor from the hand-over
  (`next`) through the live copy to the row, and says that a start on behalf of a
  backup finds that backup still waiting (`PrevWaits`).
* `DoorStaysClosed`: `ShutInv` says no start of the server is under way once
  the door is closed, which makes `NothingStartsAfterShutdown` a step fact.

`SlotInv`, `FollowInv` and `ShutInv` were checked with TLC on the `pair` instance
before they were proved.

`RunLogProofs` proves about `RunLog`, for any number of appenders, lines, errors
and connections:

* `Contiguous`: `LogContiguous`. Inductive as `NumberInv`: the stored numbers are
  exactly `1 .. Top`, the counter is never past `Top`, and a number that
  `AppendSystemLine` read is at most `Top + 1`. `LockInv` (who inserts holds
  `logMu`) keeps the counter from moving under an insert.
* `LossIsBounded`: `LossBounded`. `LossInv` is the account behind it: while the
  counter is behind the log, there is a foreign line not yet matched by a lost
  one; a call that retries after it caught up has paid for one, and loses its line
  only if yet another foreign line came in between.
* `TypeCorrect`: `TypeOK`, of the appenders and of those who read.
* `SeamIsExact`: `SeamExact`, whether lines arrive between the subscription and the
  backlog, and however often the connection breaks and resumes. `SeamExact` alone says
  nothing of what the tail will drop. `QueueInv` does: a queued line that is behind
  `maxSeq`, or behind a line queued before it, is on the screen, on the wire or known
  not to have been carried. `StreamInv` says that the wire ascends, lies above what
  the browser has seen and ends at `maxSeq`, `SeenInv` that what the browser has gone
  past it has shown, or never could.
* `FollowIsComplete`: `FollowPrintsAll`. `FollowInv` says that what is printed is a
  prefix of the log, and that the outcome is a line of it once the terminal status is read.

`DatabaseRestoreProofs` proves `NothingIsLost`: `NothingLost` for any number of
restores, failures, stops and crashes. `IInv` has four parts. `Quiet`: only a run
that waits for a command has one. `Alone`: without an overlap a run on record has
the server to itself, with nothing left over by others. `KeptInv`: while the
run reads, dumps and stores, the database is untouched and its command is one that
only looks; the dump is then what the database was or known to be cut; from the
stored snapshot on, the snapshot is what the database was, and nothing but the
`store` command changes it. The steps fall into three kinds: a command under way
(`CommandKeepsInv`), a run that moves on (`EnterKeepsInv`) and the steps around
them; the case that matters is a run entering a stage that changes the
database, which `AfterReading` shows it can reach from `store` only, or without a
safety backup. `IInv` was checked with TLC first, with overlaps too.

The second part proves what a server to itself and connections that hold make of a
restore:

* `TypeCorrect`: `TypeOK`. `OwnInv` adds that a run sends statements about its own
  temporary database and the live one only, and that a cut dump is never imported.
* `AlwaysAWholeCopy`: `WholeCopy`, and `ReportsAreTrue`: `Truthful`. Both rest on
  `PlaceInv`, which says for each stage what is where: `PlaceBeside` while PostgreSQL
  imports aside, `PlaceSwap` while it swaps and renames (the import is whole and
  waits, or is in place), `PlaceReplace` while MySQL drops, creates and imports, and
  puts back. Each says what may still be in the script of a command and in what a
  command that was given up left running, since the server works that off later.
  `EngineInv` keeps the engines apart. `Truthful` takes two more: `DoorInv`, that
  only a swap, or what is left of one when the program dies, closes live, and that a
  database that is closed is there (`DoorOf`, `Closable`); and `ShutInv`, what each
  stage of the recovery knows about the door and about live (a look that answered
  "no", a reopening that went through), that the copy to be renamed by hand stays, and
  that whoever left live closed is at one of the stages, or passed over one of the
  failures, that `MayBeClosed` names.
* `TrailIsOnRecord`: `TrailOnRecord`. `TrailInv` says that a run whose row does not name
  its temporary database has none and nothing under way that would make one, and one
  whose row does not name its safety snapshot has not changed the database.

These invariants too were checked with TLC on the `restore` instance first.

The second part of `CoordinatorProofs` proves what needs a coordinator that has the
database to itself, under `OneProcess` (`Procs = {Server}`), for any number of runs, repositories
and crashes. `SerialInv` joins `RunOK` (a settled record belongs to a run that is
over, only a run in exec has a child, reconcile's list is of active records), `SlotOK`
(a slot is held by a run of that repository which is being driven), `StartOK` (a start
under way follows a successful backup or nobody and, while no statement has failed,
no record of the repository but that backup's is active once its checks passed) and,
while no statement has failed, `CleanOK` (record and live copy say where the drive
stands, and a dead run that still looks active is about to be reconciled).

* `RecordsStaySettled`: `TerminalIsFinal`; `BootReaps`: `ReapedBeforeServing`;
  `RestFrees`: `QuiescentMeansFree`.
* `ImplementsSerialization`: with `NoFaults` besides, every step of `Coordinator` is a
  step of `RepositorySerial` or a stutter under the refinement mapping.

Both assumptions are needed; section 4 says what a second process and a failed
statement do.

`CatalogProofs` proves `TypeCorrect`, `ReferencesHold`, `ForgetIsComplete`,
`QuickFailsCleanly` and `SettersDoNotUndo`, for any catalog and any number of
forms. `IInv` joins the types of rows, slots and forms (`StoreOK`, `SlotOK`, `FormsOK`)
with what they rely on:

* `FormsOK` says what a form in each phase carries: a quick backup that made a source
  still knows it, and a request whose job was resolved names a repository which that
  job has, or had before it was moved.
* `SnapsOK`: a repository holds snapshots only of its own jobs and of those that were
  moved, and from the forget of a job to its deletion it holds none of it.
* `ForgotOK`: of the backups that work for a job that was deleted with its snapshots,
  only a late one works where they were forgotten, and elsewhere one works only
  for a job that was moved.

`References` and `ForgetTakesAll` are inductive with these. The last two theorems are about
steps, and follow from the types.

`SessionProofs` proves `TypeCorrect`, `LoginsFollowPassword` and `SetupComesFirst`
for any number of tabs, browsers, requests and passwords. `IInv` is the type
invariant by parts, each with what it says of its part: `StoreOK` (the server's copy
of the password is the row unless it is still unread), `LoginOK`, `GuardOK`, `BoundsOK`,
`TabsOK` and `ReqsOK` (what a request under way relies on: one that was verified was
verified against a password, one that changes it showed a token), together with
`SessionsFollowPassword`.

`FileRestoreProofs` proves `TypeCorrect`, `SitesComeBack` and `SitesAreQuiet` for any
folders, files, containers, restores, faults and crashes. `IInv` has, per run, `RunOK`
(what it has stopped it still has to start or was refused, and all of that is in its
parameters) and `Quiet` (from the listing on, the containers of the folder that are up
are yet to be stopped or came up since), and over all runs `AllHeld`: a stopped
container is in the hands of a run, of a row that was left behind or of the boot, or
was given up. It is given up when Docker refused its start, when another crash cut the
starts of a boot short, and when no row names it because the update was lost and no
later one of the run came. What came up since is not told apart by who started it: a
restore that ends starts the containers that another one still relies on.

* `TouchesOnlyWhatIsSaid`: `TouchesOnlyWhatItSaid`. `AllPlanned` says that a run at work
  has a plan made of the snapshot, the target and the selection it was asked for, one
  that was not refused.
* `RestoresAsTaken`: `RestoredAsTaken`. `AllWritten` says that between restic's write and
  the deletions every wanted file is restic's, unless somebody else is known to have
  been at the folder. The lemmas are about paths: what lies within what, and that the
  deletions spare what is wanted. A restore beside this one must be told from a
  container that came up, which is what `NamesDiffer` is assumed for.

`LiveViewProofs` proves `TypeCorrect`, `ActiveRunsAreTold` and `ScreensAreCurrent` for
any number of runs, any size of the channels and any number of connections that break,
loads that are lost and screens that are visited. `IInv` has seven parts.

* `ServerInv`: the runs that have begun are the first ones, and one is active at most.
* `StreamInv` and `ToldInv` are about the global stream. `ActiveRunsTold` is not
  inductive: a message still in the queue can add a row for a run that is over. `ToldInv`
  looks at the last message of each run (`EndsOver`): for a run that is over, with
  nothing unsent or lost, it says so, and the run is listed only if there is such a
  message; for an active run every message says that it is active.
* `ScreenInv` and `WhereInv`: what the screen, its hook and its first load may be; the
  job card follows the first active run, a run's page is of a run that has begun.
* `HookTold`: a hook whose channel did not overflow was told last, or is about to be
  told, what is stored.
* `ListInv`: unless an event is on its way or was missed, only the newest load can end
  as what the list shows, and it does not bring what is stale.

The steps of the queues rest on a few lemmas about data (`Added`, `Taken`,
`WrittenFirst`, `Dropped`: what an append, a delivery, a snapshot put first or a full
channel does to the messages of one run). `Without`, the filter of the rows
(`prev.filter`), is written as what it returns, the rows that remain in their order,
because the provers cannot unfold a recursive filter; `RestIsThere` shows that such a
sequence exists. The parts of `IInv` were checked with TLC on the `live_view` instance.

`SchedulerProofs` proves `TypeCorrect`, `SlotsServedOnce` and `NoStorm` for any number
of jobs, any schedules, any unit of time, any length of a day and a week, and any number
of requests, edits, failing statements, crashes and units offline. Neither count is inductive.
`CountsOK` says more, for each item. `SlotOK` says for each job when one more success would be
one too many: none is to spare while the slot still calls for a backup, while a
scheduled backup is under way, or once the tick has decided to start one on what it
read, and a decision in the making needs two to spare if one is under way. `StartsOK`
says the same of the starts that crowd, `CheckOK` of the check, whose start is what
counts. `IInv` is `TypeOK /\ CountsOK`.

* `FreshIsNotDue` and `FreshCheckIsNotDue`: no schedule makes due what has just had an
  attempt, because slots count strictly after it and a retry waits for an hour, or for
  the whole of a shorter period.
* `TimePasses`, `AgesOfJob`, `FiredLater` and `DueLater`: while time passes inside a tick
  every age grows with it, so that what was due at the tick's time stays so, whatever
  the horizons cut off.
* `AdvanceJob` is the step where a new slot resets the counts, `AdvanceCheck` the one where
  the check's time of day does; `CheckFromLater` has the time from which a check is due
  stand still meanwhile.

`IInv` was checked with TLC first.


A theorem states every invariant and every step property of the passing runs. Only
model-checked are the liveness properties `StopFreesRepository`, `ShutdownDrains`,
`LineGetsThrough`, `RunPageSettles`, `CardCatchesUp` and `DueIsServed`: liveness under
fairness is beyond the prover. The safety behind `RunPageSettles` and `CardCatchesUp`, that
a screen is right once everything of its stream has arrived, is part of `ScreensCurrent`
and proved; what TLC adds is that everything arrives.

## 6. Not modelled

`PROJECT.json` says of each component what is left out. Apart from that:

* **Speed test** (`coordinator_speed.go`): to the coordinator an ordinary run, whose
  steps are timed.
* **Snapshot browsing cache** (`snapshot_ls.go`): a least-recently-used cache of
  listings of immutable snapshots under one mutex; no entry can be stale, and what is
  evicted is read again.
* **Docker discovery** (`discovery.go`): reads the Docker API and reshapes it;
  `FileRestore` takes from it which containers use a folder.
* **A database backup run of its own**: its steps are those of the safety backup in
  `DatabaseRestore`.
* **What is stateless or outside**: Docker's API and restic's own behaviour, argument
  building and output decoding, input validation, HTTP routing, CLI output, layout,
  wording and charts of the UI, the labels of the scheduler
  (`deriveScheduleState`, `scheduleOverdue`), `prune` and the filters of listings.
