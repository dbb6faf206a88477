# A verification of kemo-agent in TLA+

kemo-agent is a personal agent: it talks to people over a terminal, a web page
and message platforms, calls language models, runs tools and subagents, keeps
task plans and scheduled tasks per user, and installs and updates itself.  It is
threaded Python: almost every hard part is a few threads, sometimes several
processes, that share a small store (a SQLite table, a JSON file, a list under
one lock) and do more than one thing between two looks at it.  This directory
models those parts in TLA+, checks them with TLC and proves the most important
invariants with TLAPS.

Paths in this file are relative to the repository root, `src/` there being
`src/` here.  `PROJECT.json` holds the line-by-line correspondence between
definitions and code ("map"), the runs, and the list of hazards.

Contents: [1 Parts of the system](#1-parts-of-the-system) ·
[2 Modules](#2-modules) · [3 Runs](#3-runs) ·
[4 Fairness](#4-fairness) · [5 Proofs](#5-proofs) ·
[6 Disagreements found](#6-disagreements-found) ·
[7 Not modelled](#7-not-modelled) · [8 Plan](#8-plan)

## 1 Parts of the system

How the parts meet: a *conversation* (terminal, web, message platform) runs a
main loop of provider requests and tool batches.  Every request passes the
process-wide *request pool*.  Tool calls run on tool threads and may dispatch
*subagents* to the per-user *scheduler*, whose *ledger* the main loop's
*coordinator* reads back, or start *background jobs*, whose receipts the main loop
waits for.  On the web a *worker* may chain several runs of the main loop into one
*long task*.  Tool calls and user commands also edit *task plans*
and *scheduled tasks*; a plan's executor runs each step as a conversation of its
own, and so does a scheduled task's worker.  *System* scheduled tasks (memory
maintenance and the like) run in whichever process leads.  The *deployer*
replaces the code under all of this and starts it.

### Task plans (`src/run/tasks`, commands in `src/web/services/tasks.py`)

- **State.** One row per plan: status (`pending_approval`, `approved`, `running`,
  `paused`, `completed`, `failed`, `cancelled`), steps with status, dependencies and
  criticality, a revision and earlier revisions.
- **Operations.** Claim, run and finish a plan (`execute_plan`); approve, pause,
  resume, cancel; edit, reset and roll back steps; the `step_done`/`step_fail` tool
  calls; delete; recovery at start; the plan-editing subagent.
- **Interactions.** Executors live in the scheduler thread of the web host and in
  the CLI; the store is shared; a step's conversation may call the plan's own tools.
- **Hard.** Each store update is a transaction, but an executor reads, decides and
  then updates; a subagent writes a draft minutes after it took its snapshot.
- **Correct means.** A completed plan is done; nothing runs before approval; a step
  starts after its dependencies; finished work is not lost; executors return.

### Subagent scheduler and ledger (`src/run/agents`)

- **State.** A ready queue with a turn per conversation space, the table of task
  objects, running and detached threads, the configured limit, and one ledger row
  per owned task.
- **Operations.** Submit, dispatch, execute, cancel, resume another round, prune,
  change the limit, close; the callback that reconciles a child which outlived its
  deadline.
- **Interactions.** Called from tool threads, the coordinator and the web; writes
  the ledger inside its own lock.
- **Hard.** A child that cannot be killed goes on after its task was answered; the
  dispatcher goes home when idle while a submission arrives; an old round's thread
  writes after the new round began.
- **Correct means.** At most `limit` threads (and one serial task); a row never
  says over while its child runs unowned; whoever waits is woken after the ledger
  knows; every accepted task is answered.

### Main task and its children (`task_ledger.py`, `src/run/conversation`)

- **State.** The root row and its attempt, what was delivered and acknowledged.
- **Operations.** Begin an attempt, notify, acknowledge, dispatch, settle,
  complete, fail, cancel.
- **Hard.** Tool threads that reach the scheduler in the wrong attempt; results
  acknowledged by id while the id has moved on to another round.
- **Correct means.** The completion barrier: a main task is completed only when
  no child runs and each result has been shown; after a failure nothing goes on.

### Provider request pool (`src/provider/request_pool.py`, `fairness.py`)

- **State.** A list of tickets, active requests per conversation space, the order
  of turns; a factory that replaces the pool when the limit changes.
- **Correct means.** The limit holds over replacements; no space is passed over
  more than once by another one; a waiting request is served.

### User scheduled tasks (`src/cron`, `src/run/scheduler`)

- **State.** One file per task: status, attempt id, next time, counts, last stop.
- **Operations.** List due tasks, dispatch, claim, execute, finish, revert, the
  watchdog, stop and restart, recovery; pause, resume, cancel, edit, delete and run
  by hand, in the CLI (a second process) and the web.
- **Hard.** A worker that does not stop keeps its slot; every writer must recognise
  the executions it is not part of; a crash leaves `running` behind.
- **Correct means.** Slots are bounded also with late workers; `running` means
  somebody runs it; an interrupted task is not replayed; a run ends.

### System scheduled tasks (`src/cron/scheduler.py`, `runtime_state.py`)

- **State.** A file lock, an in-memory schedule over the one on disk.
- **Hard.** Hand-over of the leadership: the schedule must reach the disk first,
  and the scheduler thread, its worker and the caller of `stop()` may each give the
  lock up; a write that fails is reported and swallowed, and the lock is given up
  all the same.
- **Correct means.** Only the leader runs tasks; a schedule leaves memory for the
  disk before the leadership is given up.

### Deployer (`src/deploy/core`)

- **State.** The installation tree with `version.json` and the installation
  record; a journal with the old contents; the lock.
- **Operations.** Install and update (plan, prepare, journal, replace, delete,
  commit, roll back), recover, start.
- **Hard.** One step of several failing, interrupts, a crash between any two
  writes, files edited by the user at any time.
- **Correct means.** An installation happens wholly or not at all, the application
  never runs on a mixture of releases, and edits are kept unless overwriting was
  asked for.

### Background jobs (`src/run/tools/background_*.py`, `src/plugins/shell`)

- **State.** One JSON record per job: status, the identities of worker and command,
  what was requested of it, whether its receipt was handled; two processes.
- **Operations.** Prepare, spawn and register a worker; launch, watch and finish the
  command; query, cancel and reconcile from the process ids; the inbox of the main
  loop: take receipts, acknowledge, wait, cancel what is pending.
- **Interactions.** Tool threads start and query jobs, the main loop waits for the
  required ones, everybody shares the record only.
- **Hard.** The worker is a process that outlives the host and may die alone, while
  its command, in a session of its own, lives on; a query judges a copy of the
  record that was read before the lock; the deadline passes anywhere in between.
- **Correct means.** A result is kept however many queries judged meanwhile; over
  means over; a command is stopped at its deadline; the wait returns, and the answer
  is delivered after the receipts.

### Web runs and long tasks (`src/web/services/run_*.py`, `chat_stream.py`, `src/run/long_task`)

- **State.** The table of active runs with aliases, one cancel event and guidance
  mailbox per worker, the session lock, the long task's record in the session.
- **Operations.** Register, take the lock, run, decide, activate, count, hand off,
  finish and settle; switch, cancel, poll, guide; leave the stream; host crash.
- **Interactions.** Each chat request has a worker thread that drives the main loop;
  other HTTP threads reach it through the table, its event, its mailbox and the
  record.
- **Hard.** The record, the table and the mailbox change under different locks, and
  the worker decides from a read that is old when it writes; polling clients settle
  what they take for an orphan.
- **Correct means.** An active task has somebody who will settle it and does not
  stay active for ever; a cancelled task gets no further run; a hand-off is not taken
  for an orphan; guidance reported as accepted is read.

The remaining parts (history, memory, message platforms, the app bridge, the source
updater, tools, adapters, configuration, pages) are listed with their reason in
[section 7](#7-not-modelled).

## 2 Modules

| Module | What it is | Code |
|---|---|---|
| `TaskPlan` | one plan, its executors, everything that changes it | `run/tasks`, `web/services/tasks.py` |
| `TaskPlanProofs` | type correctness and all five safety properties of it | |
| `SpaceTurns` | turns over conversation spaces, shared by the next two | `provider/fairness.py` |
| `AgentScheduler` | the subagent scheduler with its ledger rows | `run/agents` |
| `TaskCoordinator` | extends it by the main loop and its barrier | `run/agents/task_ledger.py`, `run/conversation` |
| `SubagentProofs` | type correctness and all safety properties of the last two | |
| `FairRequestPool` | admission of provider requests | `provider/request_pool.py`, `provider/factory.py` |
| `FairRequestPoolProofs` | type correctness, its limit, its queue and the fairness of its turns | |
| `Cron` | user scheduled tasks over scheduler, workers, processes | `cron`, `run/scheduler` |
| `CronProofs` | type correctness and all three safety properties of it | |
| `SystemCron` | leadership and hand-over of system tasks | `cron/scheduler.py`, `run/scheduler/runtime_state.py` |
| `SystemCronProofs` | type correctness and both safety properties of it | |
| `ReleaseFiles` | releases, trees, what an installation must change | `deploy/core/sync.py` |
| `Installation` | abstract: a release is installed in one step | |
| `Deployment` | the deployer, file by file; implements `Installation` | `deploy/core` |
| `DeploymentProofs` | its invariants and the refinement | |
| `BackgroundJobs` | detached commands, their workers and who waits for them | `run/tools/background_*.py`, `plugins/shell` |
| `BackgroundJobsProofs` | type correctness and three safety properties of it | |
| `WebRuns` | the runs of one web conversation and its long task | `web/services`, `run/long_task` |
| `WebRunsProofs` | type correctness and four safety properties of it | |
| `MC…` | constants for TLC, one per component | |

Conventions: a definition has the name of the function it stands for where that
is a possible name.  Definitions whose comment starts with "Mutant" are not part
of the specification: each is a plausible mistake at that place, and swapping it
in must break the property named in `PROJECT.json`.

**One action is what the code does without letting go.**  A block under a lock, or
one store transaction, is one action with all its writes.  What the code does
between two of them, the run of a child, a sleep, a read that is used later, is
where other actions may come in.

### TaskPlan

`plan` is the stored row; `exec[e]` is the control point of the executor `e` with
the plan it read and the step it chose, with the dependencies of that copy (`deps`)
(`ReadPlan`, `Claim`, `Decide`, `MarkRunning`, `Work`,
`PersistResult`, `PauseFailed`, `Finish`, `Halt` follow `execute_plan`).  Every
mutator is `PlanStore.update`, a transaction, hence one action: `Approve`,
`PausePlan`, `ResumePlan`, `CancelPlan`, `EditFields`, `ResetStep`, `StepDone`
(with the separate `AutoCompleteCheck`), `StepFail`, `Rollback`.  Deletion checks
and deletes in two transactions (`DeleteCheck`, `DeleteCommit`).  `Recover` is a
restart of the host.  `BeginDraft`/`CommitDraft`, the plan-editing subagent, are
only in `DraftSpec`.  Commands carry the revision they saw and are refused when it
moved, so each acts on the plan it saw and the number itself is left out.

### AgentScheduler

An `AgentTask` object is `<<task id, run_count>>`, because a resumed task is a new
object under the old id; `tasks` says which one the id names.  `obj`, `pc`, `child`,
`watch` are the object, its executor, the thread of its child and the callback
that waits for that thread.  `record` is the row of the ledger.  The executor is
`Begin`, `RunReturns`/`RunRaises`/`RunStops`/`RunTimesOut`/`RunCancelled`,
`HandlerReturns`/`HandlerRaises`, `Watch`, `EmitSettled`, `Finish`; the dispatcher
`DropCancelled`, `Start`, `WorkerExit`; the callback the three `Reconcile…` and
`LateResult`.  Time is left out: every wait may time out at any moment, an idle
dispatcher may leave when nothing is queued or in flight.

### TaskCoordinator

Extends the scheduler by one main task.  `main` is where the main loop is
(`BeginAttempt`, `RequestProvider`, `Accepted`, `GiveUp`, `BatchEnds`, `WaitEnds`,
`WaitGuided`, `Settled`, `Complete`, `Abort`, `CancelChild`, `Drained`).  A tool
call that dispatches a child (`Dispatch`) reaches the scheduler some time later
(`CallReaches`), possibly in the next attempt, because a tool thread outlives the
timeout of its call.  `delivered` holds the round of each result that is in the
messages, `shown` (an observer) the last one in an accepted request.

### SpaceTurns

The list `_order` never holds a space twice, so it is kept as the relation "at or
before" between its members; `Kept`, `Enrolled`, `Chosen` and `Served` are what
`choose()` and `served()` do to it.  In this form what they do to the places of two
spaces can be read off, and proved, without a recursion over a list.

### FairRequestPool

A ticket is its client.  `Register` looks up or replaces the pool and takes the
ticket under the factory lock, `Poll`/`Grant` is the wait, `GiveUp` cancellation
and timeout, `Release` the end of the request.  The total of the counters is the
number of units `<<space, n>>` with n up to the space's count.  `passed` is an observer.

### Cron

`task[t]` is the file; `listed` the due tasks a scan still walks over; `run[w]` the
worker thread; `sched[p]` the scheduler thread of a process (off, recovered, on).
`Claim`, `Check`, `Work`, `Finish` are a worker, `Watchdog` takes no slot away from
a late one, `Recover` interrupts what a previous process left behind.  Store
updates are atomic.  `Valid` is `_validate_task`: a written file that it refuses
would be lost at the next read, so `TypeOK` says that no such file is written.
`held`, `lost` and `ended` are observers.

### SystemCron

One system task with period 1.  `lease` is the file lock, `shown` the in-memory
schedule with its dirty flag, `disk` the stored time; the scheduler thread, its
worker and the caller of `stop()` each flush (`Flush`: take a snapshot, write it)
and release.  With `Refusals` a write may fail (`Refused`): `flush_persistence` and the
worker's save catch the exception, the schedule stays dirty, and the lease is released
as if it had been saved.  `shown[p].refused` is an observer: the schedule as it is now
could not be written.  Users are abstracted to one run of the task.

### ReleaseFiles, Installation, Deployment

A tree maps each path to a content; release 1 and 2 ship different sets, one of the
files is `version.json`, and the installation record is one more entry.
`Installation` plans a release (`Plan`: what will be written and deleted, as the tree
is then), installs what was planned as a whole (`Install`) or gives it up (`Abandon`),
and lets users edit files at any time (`Edit`).  `Deployment` has a control point for the command that holds the lock:
`PlanInstall`, `WriteJournal`, `Apply` (one file each), `Commit`, `Fail`, `Restore`,
`Restored`, `Return`, `Recover`, `Start`, and `Crash` at any of them.  The
refinement mapping is `Effective` and `Planned`: while the journal says `applying`, what
counts is the saved contents laid over the disk, and a plan is what a command holds
until it commits or ends.  Users edit files (`Edit`) whenever no command is replacing or
restoring any: while nothing runs, also after a crash that the next command will undo,
while the application runs, and in the minutes in which the runtime is prepared.  The
observer `late` holds the files edited since a plan or a journal has covered them.  An application that was started holds the
lock as long as it lives.  `--force` and `--allow-downgrade` are assumed, which only
removes refusals.  Alternating with the older `update.py` is excluded, as
`readme.md:242` and `deploy/README.md` section 6 demand.

### BackgroundJobs

`rec[j]` is the record; process ids are reduced to whether they are registered.
`starter[j]` is the tool call (`Prepare`, `SpawnWorker`, `RegisterWorker`), `worker[j]`
the worker's control point (`WorkerLoad`, `WorkerPopen`, `WorkerLaunched`,
`WorkerMark`, `WorkerPoll`, `WorkerFinish`), `command[j]` the process it launches.
A thread that queries (`Query`, `Judge`, `Settle`) or cancels (`RequestCancel`,
`CancelKill`, then as a query) keeps in `client[c]` what it copied from the record.  The
main loop is `SendRequest`, `Accepted`, `RequestFails`, `BatchEnds`, `SettleShell`,
`CancelWait`; while it waits it queries like anybody else, as `Inbox`.  Time is
one flag per job, `expired`.  The 30 seconds in which a young record is not judged
are modelled as "not before its starter is through", which takes milliseconds, except
by the main loop when the deadline is as short.  A fault is a crash of worker or host,
a start that raises, an error of the worker or a process whose identity cannot be
read.  `shown` and `cut` are observers.

### WebRuns

`longTask` is the record, with `fresh` for "written less than five seconds ago";
`activeRuns` are the keys of the table, pairs of a worker and a run of it, old ones
being aliases; `worker[w]` is the control point of `run_source` with its locals.  The
worker is `TakeLock`, the head of the loop (`Exhausted`, `HeadCancelled`,
`HeadPlanStopped`, `StartRun`), the end of a run (`Complete`, `LastRequest`,
`PlanBoundary` when a tool has created a task plan, `GuardStops`, `LimitHit`, `CancelNoticed`, `RunLeft`, `RunFails`), then `Decide`,
`Activate`, `Count`, `HandOff`, `SetCurrentRun` for the next run or `RecordLast`,
`Finish`, `PutLast` for the last, and `Settle`, `Settling`, `Remove` on its way out.
Controls are `SwitchOn`, `SwitchOff`, `CancelRun` (also a reader who leaves the
stream), `SubmitGuidance`, the cancellation of the task in three steps
(`RequestCancel`, `CancelEvents`, `CancelOrphan`) and the poll in three
(`PollState`, `PollRuns`, `Reconcile`), because each of them lets go of one store
before it looks at the next.  Any time may pass between those three steps, five seconds
(`GraceEnds`) included; `overtaken` is an observer, the polls that are under way and
have not read the record as it is now.  Abstractions: `completed`, `failed` and `interrupted` are
one status, `ended`; the status of a foreground plan is any answer; the gate of
concurrent chats is outside (a request without a slot is refused before it gets
here); a worker that leaves by an exception settles twice in the code, of which the
second finds nothing to do, and once in the model.

## 3 Runs

`tlc -config <cfg> <module>` in this directory.  Deadlock checking is off
wherever the system may rest (nothing due, nobody asks, every bound used up); the
pool never rests and the deployer neither, there it is on.

| Run | Instance | Shows |
|---|---|---|
| `plan_two` | 2 executors, 2 steps, independent or in a chain, 2 outside operations | a plan stored as completed is done although that is written from a stale read (`CompletedMeansDone`); nothing of an unapproved plan executes (`ApprovalGate`); no step but the drafting one takes a completed step back (`CompletedStepsStay`); a step starts only after the dependencies it was chosen with have completed, though it was chosen from an older read (`DependenciesRespected`); executors return (`ExecutorReturns`) |
| `plan_one` | 1 executor, also a chain against the list's order, the drafting subagent | a completed step is lost only to a draft older than its completion (`DraftKeepsWhatItSaw`) |
| `sched_serial` | 2 serial tasks, one without owner, limit 1–2, room for one | the serial lane and the limit with detached children (`ThreadsWithinLimit`); every accepted task is answered (`EveryTaskAnswered`), also when the dispatcher is leaving; `close()` returns (`CloseReturns`) |
| `sched_resume` | 2 tasks of one space, 2 rounds, limit 1 | the row is true, current and its child owned over rounds, detached children and pruning (`RecordTruth`, `RecordCurrent`, `ChildIsOwned`) |
| `coord_live` | 1 child, 2 attempts, late tool calls | the completion barrier (`CompletionBarrier`); nothing executes after a failure (`QuietAfterFailure`); handled means shown (`HandledMeansShown`); the loop returns from its waits (`MainReturns`) and the child's row does not stay live (`NoRowStaysLive`) |
| `pool_live` | 3 requests of 2 spaces, limit 1–2, 2 pools | the limit over replacements of the pool (`RequestsWithinLimit`), no space passed over twice (`PassedAtMostOnce`), every request served (`EveryRequestServed`) |
| `cron_live` | 1 recurring task, host and CLI, 1 slot, 2 workers, 2 user operations, 1 stop or crash | slots (`SlotsHeld`), written files are valid (`TypeOK`), running means executed and ends (`RunningIsExecuted`, `RunEnds`) unless an edit has dropped the attempt id (section 6), no replay of interrupted tasks (`NoReplay`) |
| `system_two` | 2 processes, 2 starts each, 2 occurrences, 1 crash, writes that fail at any time | only the leader runs (`OnlyLeaderRuns`); an unsaved schedule stays with the leader unless writing it was tried in vain (`UnsavedIsLeaders`) |
| `deploy_safe` | 2 releases, 4 files, crash and failure anywhere | atomic installation (`AtomicInstallation`, the abstract specification), never a mixture (`RunningIsWhole`); no step of any command overwrites or deletes what a user has put into a file, unless told to or too late to see it (`EditsKept`) |
| `jobs_live` | 1 required job, a tool thread that queries and cancels, the main loop, 2 faults, 3 requests | a command that ends in time reports its result (`ResultKept`), over is over (`OverIsOver`), commands stop by their deadline (`CommandStops`), the wait returns (`WaitReturns`) and delivery comes after the receipts (`DeliveryWaits`) |
| `web_two` | 2 chat requests, one with a plan, both guided, 1 control, 2 runs per task, 1 fault | an active task has a worker that will settle it (`ActiveIsOwned`); polls leave a hand-off alone unless they are slower than the grace (`HandOffIsLive`); no run follows in a cancelled task (`CancelIsFinal`); a run whose model asks for no more tools ends with its accepted guidance read (`GuidanceRead`) |
| `web_live` | the same without plan and guidance, under fairness | no task stays active for ever, whoever dies (`TaskSettles`) |

The configurations that refute what a document says are listed in section 6.  The
type invariant of every module is proved and not checked again, but for that of
`Cron`, which is a property of its own: it says that no file is written which the
code refuses to read.

**Bounds.** Two steps suffice for a dependency and two executors for every race
between executors, since they only meet in the stored row.  The outside
operations, starts, stops, crashes and claims are counted and bounded; two or
three are enough for "change it, change it back, be late" with the third party in
between, which is what the properties are about.  `MaxRounds` stands for
`MAX_RESUME_ROUNDS` (32), `MaxRetained` for 256 retained tasks, `MaxLimit` for the
largest limit a user configures, `Notified` for the 4 results of one
notification: each is chosen so that its boundary is reached.  Two `Pools` suffice
because an idle pool that was replaced is garbage and may be made anew.
Jobs only meet in the quota and in the four receipts of a request, so one job with
everybody who deals with it has every race of `BackgroundJobs`; the theorems of
section 5 hold for any number.  Two requests of a conversation are one that holds the session lock
and one that takes over from it; `MaxRuns` stands for 128 runs and is reached.
`Deployment` counts nothing: its state space is finite.  Symmetry is used for
executors, workers, children and pools, in runs without liveness only.

## 4 Fairness

- `TaskPlan`: weak fairness of each executor's next step; the run loop has no way
  to stop early.  Nobody has to give it a plan or a user to do anything.
- `AgentScheduler`: dispatcher, submitters, executors and callbacks go on while they
  can (polls have deadlines), and a child ends, because its provider requests and
  tool calls are bounded by their own time limits.  Cancelling, resuming, closing
  and changing limits are never required.
- `TaskCoordinator`: the same, and the main loop while it waits or drains.  A
  provider request or a tool batch may take for ever: no fairness there.
- `FairRequestPool`: a waiting client polls every 0.1 s, so some grant happens if one
  is possible; requests end by their time limits.  Giving up is never required.
- `Cron`: weak fairness of each worker, none of schedulers, users or crashes.
- `BackgroundJobs`: threads and worker processes that are alive go on and time passes
  (`Expire`).  Strong fairness of the main loop's query: `wait()` looks at every
  pending record in each of its rounds, so a record it may look at again and again
  is looked at.  A command may run for ever, starting and cancelling are never
  required.
- `WebRuns`: some worker goes on as long as one can, a run ends (its requests and
  tool calls have time limits), a page that shows a task polls again and again and a
  poll that was begun ends, and five seconds pass (`GraceEnds`): weak fairness of each.
- `SystemCron`, `Deployment`: none, safety only.

## 5 Proofs

The theorems hold for every value of the constants that satisfies the modules'
assumptions.  `tlapm M.tla` checks those of a module `M`; each of the eight takes
seconds to a few minutes.  Every invariant and every action property that a run
checks is the subject of one of them.

**TaskPlanProofs** — any number of steps, executors and operations, for `Spec`
(without the drafting subagent, which really does lose steps, see section 6).
`CompletedMeansDone` is not inductive: `Finish` writes a status that was decided
from an earlier read.  What makes it true is that an executor that has decided on
`completed` saw every step completed and that completed steps stay so.  The
invariant `DoneInv` is `TypeOK`, `Decided` (what an executor holds in its locals),
`NoneSkipped` (nothing skips a step, and no revision to roll back to has one) and
`AllDone`; `KeepStep` proves `CompletedStepsStay` of every action and `AllDoneStep`
uses it.  `ApprovalGate` needs `PendingTarget`: every revision of an unapproved plan
has only pending steps, so a rollback cannot smuggle in executed ones.  With drafts it
would not hold: one that was begun before the approval brings the old status back.
`DependenciesRespected` follows from `Decided`: the dependencies of the chosen step
were completed in the executor's copy, and completed steps stay completed.  It holds
of the dependencies *in that copy*, not of those a user has edited in meanwhile
(section 6).  `DraftKeepsWhatItSaw` is about `DraftSpec`, the drafting subagent
included, and needs the types alone: what the subagent has not seen completed it may
lose, what it has seen its draft keeps, and no other step takes anything back.
Theorems: `PlanTypeCorrect`, `CompletedPlansAreDone`, `CompletedStepsAreKept`,
`UnapprovedPlansRest`, `DependenciesAreRespected`, `DraftsKeepWhatTheySaw`.

**SubagentProofs** — any number of tasks, spaces, rounds and limits.  `IInv` of the
scheduler says what belongs together at each control point of an object: its status
and its threads (`ObjectInv`: what still executes is the object its id names, which
keeps it from being pruned or resumed), its place in the queue (`QueueInv`, `PutInv`
for the moment between the registration and the queue), its round and its row
(`RoundInv`, `RowInv`: the row shows the object unless an emission is still to come,
and says over only of what neither waits nor executes) and the slots (`LimitInv`).
`ThreadStep` is what every step of an executor, a child or a callback has in common,
so `IInv` is proved of that once and of the commands one by one.  Theorems:
`SchedulerTypeCorrect`, `ChildrenAreOwned`, `RowsTellTheTruth`, `RowsAreCurrent`,
`ThreadsAreLimited`.  The coordinator adds `CInv`: its types, that an ended main task
left no child and a completed one no unhandled child (`MainInv`), that only tasks
whose runs keep a checkpoint are resumed (`CheckpointInv`), and that what is
delivered, shown and handled is of rounds that have begun (`ShownInv`).  The barrier
holds because `Complete` looks at the rows in the transaction that writes the status,
and a row that is over is over (`RowStep`).  Theorems: `CoordinatorTypeCorrect`,
`CompletionIsABarrier`, `FailureLeavesNothing`, `HandledChildrenWereShown`.
`HandledMeansLastShown` proves the run's `HandledMeansShown` where no owned child
keeps a checkpoint, as in that run: with resumed children it is false
(`NotificationsFormBarrier` in section 6), and `HandledChildrenWereShown` is what is left.

**FairRequestPoolProofs** — any number of threads, spaces, pools and limits.
`PoolInv`: every ticket is of the pool in use (`OnePool`, since a pool with a ticket is
never idle), its queue holds the waiting clients, each once (`QueueHoldsTheWaiting`),
and its counters count the requests under way (`CountsAreTrue`; a grant adds one unit
to a finite set, a release takes one away).  The limit then is the guard of `Grant`.
`TurnInv` is about fairness: the order of each pool is linear and ends with the
space served last (`TurnTypes`), and of a hungry space s that o has been served
before, o stands behind s and s is not that last one (`Yields`).  Enrolling lets nobody pass a
waiting space but the last borrower (`EnrolledFacts`), serving puts the served one at
the end (`ServedFacts`), and a hungry space is always among the least occupied, so
whoever is chosen before it stands before it.  Theorems: `RequestsAreLimited`,
`TicketsAreOfOnePool`, `NoTicketIsLost`, `OccupancyIsExact`, `PoolTypeCorrect`,
`NobodyIsPassedTwice`, and `BorrowersDoNotRefill`, the sentence of `fairness.py:23`, which
no run checks.

**CronProofs** — any number of tasks, processes, workers and claims.  `RunsLeft`, a
running task has a run left, is what makes every way to end a run a file that the store
accepts; `TypeOK` and `RunningIsExecuted` are inductive with it.  `SlotsHeld` needs that
nobody starts a task by hand in the host (`ManualElsewhere`: what the host runs has a
slot).  That an interrupted task is not run again (`NoReplay`) needs `HeldRests`, what
still executes it can only cancel it, and that rests on `OutlivedAreCancelled`: workers
that outlive the host's scheduler have been told to stop.  Theorems: `CronTypeCorrect`,
`SlotsAreHeld`, `RunningTasksAreExecuted`, `InterruptedStaysInterrupted`.

**SystemCronProofs** — any number of processes, starts, crashes, occurrences and
failing writes.
`OnlyLeaderRuns` and `UnsavedIsLeaders` hold because three parties that may release
the lease (the thread, its worker, `stop()`) do it in a certain order, and `IInv` is
that order: a worker lives under the lease from its dispatch to its release
(`LeaseKept`), who is on the way out has been told to stop and `stop()` goes on only
when the thread is gone (`EndsInOrder`), and once the worker, the only one that
publishes, is gone, whoever flushes holds the newest time or finds nothing to save
(`LastFlushSaves`), so the last flush saves the newest schedule or is refused it:
`UnsavedIsLeaders` speaks of what is `Owed`, unsaved and not refused.  Without that
exemption it is false (`LeadersAlone`, section 6).  `PersistKeeps`, `TakesNewest` and `WritesNewest` say what one
step of a flush does to the schedule.  Theorems: `SystemTypeCorrect`,
`LeaderRunsAlone`, `UnsavedStaysWithLeader`.

**DeploymentProofs** — any releases, files and contents, with edits also while the
runtime is prepared and after a crash.  `DeploymentTypeCorrect` and `EditsAreKept`
assume nothing more, interrupts right after the commit included.  The first says that a
rollback always has an old content for what it restores (`Typed`); the second is about
the files on disk, through transactions, rollbacks and recoveries (`EditsSeen`: an edit
that a plan or journal does not know of is `late`).  The other two assume `Calm`: no
interrupt hits the moment after the commit; section 6 shows that this is needed.
The invariant `IInv` says what the journal guarantees at each control point: the
effective tree is whole (`Recoverable`), nothing is pending between commands
(`NothingPending`), the plan fits the tree until the journal is written
(`PlanFits`), and in the middle of writing or restoring, the entries that are through have
their new or old contents (`HalfApplied`, `HalfRestored`).  `MappedStep` shows that
writing and restoring leave the effective tree alone and that `Commit` is the one
step that installs.  From it: `NeverRunsMixed` and `DeploymentIsAtomic`, the refinement
`Spec => Atomic!Spec`.

**BackgroundJobsProofs** — any number of jobs, clients and requests, hence also the
meeting of several jobs in one inbox, which the run leaves out.  None of the
properties is inductive, because a query decides from a copy of the record that was
read before the lock.  `ThreadInv` says that what a thread has concluded from its
copy is still true when it writes (a worker it takes for gone is gone, a deadline it
saw passed has passed); `JobInv` says what of a job's start, worker, command
and record go together (`StartOrder`, `InTime`), that before the deadline only its
worker or a cancellation ends it (`WorkerEnds`), and that a worker that is gone has
settled its record, taken its command along and written what it said
(`WorkerSettles`, `NoOrphan`, `Completes`).  Both hold until the first fault
(`FaultFree`), as do the properties; faults only add up (`FaultStays`).  `Receipts`
keeps the main loop honest, with or without faults.  Theorems: `JobsTypeCorrect`,
`ResultsAreKept`, `OverJobsAreOver`, `DeliveryComesLast`.

**WebRunsProofs** — any number of requests, controls, runs and faults.  `IInv` speaks
of each worker and of each control.  A worker is between `head` and `put` exactly
while it has the session lock (`Place`), so nobody else writes the record of the task
it continues except to end it (`OtherWorker`); all its runs stay findable by their
old ids (`Aliases`), and the record of a task it continues names one of them
(`Named`): so a poll that has read the record finds a live run, and what a poll has
not found is still not there unless the record was written since (`PollInv`,
`WorkerWrites`).  A poll that was overtaken so finds the record young, unless five
seconds have passed in the middle of it: `HandOffsAreLive` exempts those (`Slow`), and
has to (`GraceProtects`, section 6).  `Told` pairs a cancellation
in the record with an event that is set or about to be set, which works because the
canceller writes the record before it looks for workers and workers are registered
before they decide (`CancelSeen`): `CancelledTasksEnd`.  `Closed` says that a completed run, and
one that is going to be continued, has no mailbox left: `GuidanceIsRead`.  It is about
runs that end because their model asks for no more tools; what other ends leave behind is in
section 6.  `ActiveTasksAreOwned` is inductive with
types and `Place` alone (`OwnedStep`).  Also `RunsTypeCorrect`.

**Only model-checked**: all liveness, for fairness and `ENABLED` are out of the
prover's reach: `ExecutorReturns`, `EveryTaskAnswered`, `CloseReturns`, `MainReturns`,
`NoRowStaysLive`, `EveryRequestServed`, `RunEnds`, `CommandStops`, `WaitReturns` and
`TaskSettles`.  The order of turns in `AgentScheduler` has no theorem of its own: no
property of that module depends on it.

## 6 Disagreements found

Places where a document, a comment or a message of the repository says one thing
and the modelled code does another.  Each is reproduced by `tlc` with the
configuration named (`MCWebRuns_docs` and `MCTaskPlan_only` list several properties, one
of which is to be left uncommented); they are not among the runs of section 3, all of which pass.  Each
property stands at the end of its module or is one of the properties above.

| Configuration | Property refuted | What happens |
|---|---|---|
| `MCTaskCoordinator_resume` | `NotificationsFormBarrier` | `acknowledge` marks a child handled by id, whatever round the delivered result was of.  A child resumed between delivery and acknowledgment is never notified again, and the main task completes without its last result (`task_ledger.py:4` promises a barrier). |
| `MCTaskPlan_only` | `OnlyExecutor` | Pause and resume make a plan claimable while its executor still works on a step; `run/tasks/lifecycle.md:127` speaks of the only executor. |
| `MCTaskPlan_only` | `EditedDependenciesRespected` | A plan is paused while an executor holds a chosen step; an edit gives that step an unfinished dependency and the plan is claimed again.  The first executor, whose check is that the plan runs, starts its old choice; `run/tasks/lifecycle.md:150` says that steps are triggered by their dependencies. |
| `MCTaskPlan_cancel` | `CancelledIsFinal` | Terminal statuses are written without looking again and undo a cancellation. |
| `MCTaskPlan_failed` | `FailedMeansBroken` | An executor declares a plan failed because the running step of another one is not pending. |
| `MCTaskPlan_recover` | `RecoveryLeavesNoneRunning` | The running step of a plan paused before a restart stays running. |
| `MCTaskPlan_delete` | `RunningNotDeleted` | A plan claimed between the status check and the deletion is deleted while it runs. |
| `MCTaskPlan_edit` | `CompletedStepsStay` | The subagent's draft replaces the plan without comparing revisions and takes back a step completed meanwhile. |
| `MCCron_cancel` | `StopIsKept` | A task cancelled in the CLI while it runs is enabled again at the end of its run. |
| `MCCron_edit` | `RunningHasAttempt` | A web edit of a running task without a status drops its attempt id; the run's end is refused as stale and the task stays running. |
| `MCCron_revert` | `StaleAttemptKeepsOut` | `_revert_claim` does not compare attempt ids and overwrites a newer execution's state. |
| `MCCron_replay` | `InterruptedIsOver` | A starting host calls interrupted what a CLI is executing at that moment. |
| `MCSystemCron_overlay` | `LeaderIsCurrent` | A process that leads again goes by the schedule it had in memory when it led before. |
| `MCSystemCron_flush`, with `Refusals = TRUE` | `LeadersAlone` | A schedule that could not be written stays in the memory of a process that does not lead any more: `flush_persistence` and the worker's save swallow the exception (`cron/scheduler.py:447`, `:657`) and the lease is released all the same (`:530`, `:710`).  The next leader goes by the old time, although `run/scheduler/runtime_state.py:6` has schedules written at shutdown. |
| `MCSystemCron_flush` | `HandedOver` | Two threads of one process flush side by side and the older snapshot stays on disk. |
| `MCDeployment_edits` | `OverwrittenOnRequest` | A file edited while the runtime is prepared (minutes) is overwritten or deleted without `--overwrite-modified`, because the plan is not made again; `deploy/README.md:146` and `:234` say that modified files are overwritten on that option and compared before they are deleted.  The same happens to a file edited after a crash in the middle of a transaction: the next command restores what the journal has saved and looks at nothing (`_restore`, `sync.py:142`). |
| `MCDeployment_late` | `RunningIsWhole` | An interrupt right after the journal says committed starts a rollback; if that is killed too, no recovery finishes it. |
| `MCBackgroundJobs_orphan` | `NothingOutlivesItsWorker` | A query that finds the deadline passed terminates the worker before it has registered its command; the command runs on without limit, while `plugins/shell/SKILL.md:28` and `global_knowledge/plugin-development.md:145` say that the timeout bounds every job. |
| `MCWebRuns_docs` | `OnIsOn` | `cancel_requested` of a cancelled task stays in the record with the switch on, so a later request that hits the limit is not continued; `run/long_task/__init__.py:201` speaks of a fresh task for a new request. |
| `MCWebRuns_docs` | `OffIsOff` | A switch turned off after the worker's decision does not keep the next run from starting; `global_knowledge/long-task-runtime.md:53` says it must not. |
| `MCWebRuns_docs` | `LimitReadsGuidance` | A run that hits the limit closes its mailbox with an accepted message in it and does not queue it for the next turn, as `global_knowledge/architecture-overview.md:256` says (also at the last permitted request). |
| `MCWebRuns_docs` | `PlanReadsGuidance` | A run in which a tool has created a task plan closes its mailbox as it is (`tool_batch.py:446`) and completes before the next drain (`provider_exchange.py:769`), at any request, not only the last: an accepted message is neither read nor queued for the next turn, as `global_knowledge/architecture-overview.md:256` says. |
| `MCWebRuns_docs` | `GraceProtects` | A poll that takes five seconds between its lookup of live runs and its write, while a hand-off writes the record, ends a healthy task: `run/long_task/__init__.py:319` says that the grace period protects the hand-off, but only the age of the record is looked at again. |
| `MCWebRuns_docs` | `AdoptionIsLive` | A task adopted by a second worker still names the run of the first until the next count; a poll in between ends it.  The comment at `run_orchestration.py:420` excludes this for hand-offs, where it does hold. |
| `MCWebRuns_docs` | `SettlesOwn` | A worker on its way out settles outside the session lock and may end the task its successor is continuing. |

## 7 Not modelled

Inside modelled components: the raw replacement of a plan over REST, revision
redaction and step lists rewritten by the subagent; result payloads, budgets and
the legacy tool stop of the subagents; failing ledger writes (`queue.py:753`: the row
stays live) and the restart that turns rows
of a dead process into `interrupted` (`task_ledger.py:178`); creation, date ranges and limits of
scheduled tasks, and the read-modify-write race between two processes on one task file (the
lock of `CronStore` is per process); users in a system scan; archives, merged and
protected files, directories, and virtual environments of the deployer; output files
and their limits, listing and pruning of background jobs; the chat gate, session leases,
compression, statistics and the stream's contents of web runs.

Hazards of parts without a module: claims on memory extraction that expire while
their owner works (`run/history/memory_claims.py:159`), and an incoming message
whose reply was sent when the process dies before it is marked (`message/router.py:460`).

The map covers a small share of the repository's lines and will go on to: of its
hundred thousand lines of Python most are adapters between message formats, protocol
models, settings, prompts, pages, single file and network operations, whose
correctness is a matter of data and not of state.  What is stateful, concurrent or
has to survive a crash is concentrated in the parts above and in those planned below.

Components, with the reason:

- *History store*, *memory claims*,
  *message platforms*, *remote app bridge*, *media input queue*, *source updater*:
  stateful and concurrent, planned below.
- *Conversation loop*, *retry budget*, *tool execution*: sequential apart from what
  `TaskCoordinator` has of them.
- *Context selection and compaction*, *provider adapters*, *configuration and prompts*,
  *agent definitions*: conversions of data, tested with fixtures in the repository.
- *Extensions and modules*, *built-in tools*, *knowledge graph*, *gateway status*,
  *infrastructure*, *web pages and authentication*, *entry points*: single calls on
  files, services and code written by others.

## 8 Plan

The order is that of importance: first what every conversation goes through, then
what runs unattended, then what replaces the code itself.  The steps so far:
`TaskPlan`; `SpaceTurns`, `AgentScheduler`, `TaskCoordinator` (which
composes the scheduler with the main loop), `FairRequestPool`; `Cron`,
`SystemCron`; `Installation`, `Deployment`; `BackgroundJobs`; `WebRuns`; and the
proofs of each.

Next, modules:

1. `MemoryClaims` and `HistoryLease`: claims that expire, heartbeats out of order,
   deletion of a session in use.
2. `MessageRouter`: claim, run, reply, completion, crash between any two.
   Abstract specification: a message is answered at most once.
3. Restart of the host in `AgentScheduler`; store updates of two processes in `Cron`.
4. `SourceUpdater` beside `Deployment`; the run journal of the app bridge.

Next, proofs: the refinement of two more abstract specifications, the ledger row of
a task as a small state machine that `AgentScheduler` implements, and a pool of slots
without turns that `FairRequestPool` implements; and what each of the liveness
properties rests on that is an invariant (somebody who can take the next step is
always there).
