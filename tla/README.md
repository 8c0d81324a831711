# Bywaf in TLA+

Bywaf is a shell for security work. Commandlets are chained in pipelines, run in
the foreground or as background jobs, and record everything they do as events in
one SQLite database per project. There is no server: the database is the only
thing that the shell, its background workers, the processes of a pipeline and
other shells share. It is opened in autocommit mode, so every SQL statement is a
transaction of its own, and what a reader of the Python code sees as one function
is, to every other process, a series of separate writes with room in between.
These modules are about that room.

All paths below are relative to `src/bywaf/`.

## 1. Inventory

### 1.1 Components with state that several processes touch

| component | code | state | operations |
|---|---|---|---|
| job lifecycle | `runner/core.py`, `runner/jobs.py`, `runner/background.py`, `db/jobs.py` | a row per job (status, pid), `job.*` events, the worker process | submit, spawn, claim, start, finish, fail, stale sweep |
| job, pipeline and step control | `plugins/runtime/job/control.py`, `plugins/runtime/control/*`, `plugins/runtime/pipeline/actions.py` | the rows and processes of others | cancel, stop, kill, pause, resume, soft and hard, for a job, a step or all jobs of a pipeline |
| cancellation store | `db/runtime_state.py` | requests per job, pipeline, step; variable snapshots | request, check, record, read |
| pipeline execution | `runner/pipeline_steps.py`, `runner/stages/__init__.py`, `runner/context.py` | the stage being run; one process per step in a fan-out | prepare, run a stage, start and join step processes |
| event following | `plugin/services/events.py`, `db/events/*` | the event log; a cursor per follower | publish, fetch, follow, look for the parent's end |
| local ids | `db/runtime.py` | `runtime_entities`: short numbers for durable serials | ensure, backfill, list |
| triggers | `triggers.py`, `db/triggers.py` | a cursor in memory and one in the database, fired keys, service ids | enable, evaluate, fire, start a service, stop services, disable |
| shell loop | `repl/shell.py`, `app.py` | the Runner's memory | start, prompt, exit, shutdown |
| database and project switch | `repl/persistence.py`, `repl/projects.py` | which database the Runner has open | load, switch, stop the old project's jobs |
| plan approval | `runner/plans.py` | `plan.*` and `policy.*` events | request, repair, approve, deny |
| runtime signals | `plugin/signals.py`, `plugins/runtime/control/signals.py` | signal events | request, pending, applied, ignored |
| framework requests | `framework/requests.py`, `framework/process_requests.py` | request events, a cursor and handled ids per shell | request, drain, respond, reset |
| external processes | `plugin/process/*` | a child process, its pipes and its audit events | spawn, stream, run, time out, cancel |
| variables | `varstore.py`, `runner/context.py`, `db/runtime_state.py` | the shell's and the worker's dictionaries, a snapshot per step | set, snapshot, resolve |
| database conversion | `plugins/storage/db/lifecycle.py`, `db/maintenance.py`, `db/support.py` | the database file, its log and its key; the paired artifact database | encrypt, decrypt, rekey |
| artifacts, keys, secrets | `artifacts/*`, `keyring/*`, `secret/*` | files beside rows | record, verify, activate |

The rest of the repository (parsing, completion, rendering, plugin loading, reports, the
scanners themselves) holds no state that outlives a call or is shared; `PROJECT.json`
lists those parts with the reason each is left out.

### 1.2 How they interact

* A shell **calls** the runner, which **writes** a row and **forks** a worker. The
  worker opens the database again and knows the shell only through it.
* Control commands never talk to a worker. They **write** a request that the
  worker reads at its next check, or **signal** the pid that the row names.
* Steps of a fan-out pipeline **poll** the event log. A step's end is an event like
  any other, and its follower has to find it.
* A starting shell **sweeps**: it marks active rows stale whose process it cannot
  see.
* Triggers are evaluated by each shell at each prompt, on the log that everybody
  writes, with cursors that everybody overwrites.
* Commandlets **ask** the shell by request events, to print, to prompt, or to run a
  process; every shell drains them before its next prompt, with a cursor in memory.
* Operators **ask** running commandlets by signal events, which these poll for.
* `db load` and `project use` **replace** the Runner's database under everything
  the Runner and the shell remember. `db encrypt`, `decrypt` and `rekey` replace the
  file under everybody's connections.
* A worker is **forked** with the shell's database handle, passphrase included, and
  builds its variables anew: what it shares with the shell it finds in snapshots.

### 1.3 What is hard here

The hazards are listed in `PROJECT.json` at the lines where they bite. In short:
outcomes written as an event and then a row; status written by id without looking
at the row again; pids that are not recorded yet, or not alive any more, or
zombies; `MAX + 1` by many processes; an empty fetch followed by a check for the
end; cursors moved in a later transaction than the event they stand for, or before
the handler that they stand for has run; memory that belongs to another database;
a generator abandoned by its consumer with a process behind it; lines in a buffer
that `select` does not see; a file replaced in five steps. None of these shows in a
test with one process.

### 1.4 What makes each component correct

* *Jobs*: a status has its evidence; one outcome; a claim happens once and only
  from `queued`; a recorded cancellation cannot be lost; the worker of a killed row runs
  no more; nothing stays active for ever without a process that is held or at work; a
  fan-out finishes after its steps.
* *Local ids*: unique, dense, never reused or changed once shown.
* *Fan-out*: each follower handles its parent's events once, in order, and ends
  after its parent; the job ends after all its steps.
* *Triggers*: no event fires twice in a session or is passed over; a shell starts no
  service beside one that it could see, and stops only services that it started.
* *Framework requests*: none is passed over or handled twice; what a command asked
  for is on the screen before the next prompt.
* *External processes*: none outlives the call that started it, and the exit event
  stands for the whole of its output.
* *Plans and variables*: nothing that needs approval runs without it being on record,
  a denial ends the pipeline; all steps see the variables of the submission.
* *Signals*: a request is answered by the steps it concerns and by no other; a step
  that was ordered to stop comes to rest.
* *Conversion*: no row is lost, and the shell can open what the conversion left.

## 2. Modules

| module | models | extends / instantiates |
|---|---|---|
| `JobContract` | what a session may rely on about a submitted job (abstract) | |
| `JobLifecycle` | jobs, workers and their step processes, control commands, the shutdown of services, the stale sweep | instantiates `JobContract` |
| `JobLifecycleProofs` | theorems about it, the refinement among them | `JobLifecycle` |
| `AliasAllocation` | what local ids promise (abstract) | |
| `RuntimeAliases` | `ensure_runtime_entity` under SQLite's locking | instantiates `AliasAllocation` |
| `StepFanOut` | a pipeline with one process per step, and `follow` | |
| `StepFanOutProofs` | theorems about it | `StepFanOut` |
| `SessionTriggers` | one trigger rule in several shells and databases | |
| `SessionTriggersProofs` | theorems about it | `SessionTriggers` |
| `FrameworkRequests` | what commandlets ask of the shell, and the shell's loop around it | |
| `FrameworkRequestsProofs` | theorems about it | `FrameworkRequests` |
| `ProcessStream` | one external process, streamed or run | |
| `ProcessStreamProofs` | theorems about it | `ProcessStream` |
| `ApprovalGate` | what the approval of plans promises (abstract) | |
| `StepExecution` | the steps of a pipeline: variables, plan, repair, approval, run | instantiates `ApprovalGate` |
| `StepExecutionProofs` | theorems about it, the refinement among them | `StepExecution` |
| `RuntimeSignals` | requests to running steps, and cancel, stop and kill of steps, jobs and pipelines | |
| `RuntimeProofs` | theorems about local ids, the refinement among them, and about signals | `RuntimeAliases`, `RuntimeSignals` |
| `DatabaseConversion` | encrypt, decrypt and rekey with the log, the artifact database and a background job | |
| `DatabaseConversionProofs` | theorems about it | `DatabaseConversion` |

The `.cfg` files give the constants of the instances directly. A definition that a
comment calls *Mutant* is the same code with a plausible slip; it belongs to no
next-state relation, and stands beside the definition it is a slip of so that the
two can be compared. Each checked property fails when its slip takes the place of
the original.

### 2.1 JobContract and JobLifecycle

State, and where it lives in the program: `row` is the `jobs` table (status, and whether
a pid is there), `ledger` the set of `job.*` topics published for a job, `cancels` the
`cancellations` table, `associated` the jobs that `jobs_for_pipeline` would find
(through `command_run_vars`), `proc` the operating system's view of the worker.
`submitter`, `worker`, `op` and `sweep` are program counters with the locals each
function keeps over its writes: a control command keeps the targets and pids it read
(`op[o].todo`, `.pids`), the sweep the rows it selected and the ones it found dead.
`steps` is where the step processes of a fan-out are, which the row does not name.
`lateStages` is history: it counts the stages begun while a request was on record.

One action is one SQL statement, one published event or one signal. So
`Runner.start_background` is `RecordJob`, `PublishRequested`, `SnapshotVariables`,
`SpawnWorker` and `UpdateJobPid`; `JobLifecycle.finish` is the two disjuncts of
`FinishJob`; `mark_stale_jobs` is `SweepSelect`, `SweepProbe` per row, `SweepWrite`
per row. The session, the worker, a step process, an operator or the sweep can die or
raise between any two of them (`SessionCrash`, `WorkerCrash`, `ClaimRaises`,
`StartRaises`, `RunRaises`, `StepDies`, `OperatorCrash`).

A job runs in one of three ways. In the foreground the session is itself the worker
(`submitter` is `entered`, then `inside`): its row names the session's own pid, and a
Ctrl-C leaves the job where it was (`Interrupt`). In the background the worker is a
process of its own. And if every stage of a pipeline of several is a background stage,
that worker starts a process per stage (`FanOut`, `SpawnStep`), each of which checks for
a cancellation, begins its stage and ends it (`CheckStep`, `BeginStep`, `EndStep`), and
waits for all of them (`JoinSteps`; `ExitWorker` waits too, since `multiprocessing` joins
children at exit). No signal for the job reaches the step processes, and no death of the
worker ends them.

Three details of the operating system carry weight. A child that has ended is a
zombie until its parent reaps it, and `os.kill(pid, 0)` succeeds on a zombie
(`ProcessExists`). `multiprocessing` reaps when it starts another child
(`ReapWorker`). SIGSTOP holds a process where it is, and SIGKILL reaches it there
(`Sigkill`).

`JobContract` is what all this amounts to for a session that has submitted a job: the
job is claimed once and only while it is queued, it ends once, it begins stages only
between the two, finishes only after a stage, and begins at most one after its
cancellation was recorded. Or it starts steps instead: only while it works, none passes
its check once the cancellation is on record, and it finishes when all of them are over;
if it is killed or fails, they go on. `ImplementsContract` maps to it with `Phase`,
which reads the ledger, the place of the worker and the row, in this order: the row
alone would not do, since control commands and sweeps write over the status of a job
that runs or has ended. A cancelled, paused or stale row is `over` if its worker has not
claimed it, and `working` if it has.

All jobs of an instance belong to one pipeline: the first creates it, the others
are attached. Two pipelines share nothing in this code except the table.

### 2.2 AliasAllocation and RuntimeAliases

`AliasAllocation` is three lines of meaning: an id is given once, and it is the
next number. `RuntimeAliases` is how `db/runtime.py` does it: a lookup outside any
transaction, `BEGIN IMMEDIATE`, the lookup again, `MAX + 1`, `INSERT`, `COMMIT`.
`writer` is SQLite's write lock. Publishers call it for the serial of the event
they just inserted; listers for every serial they read, oldest first. `Abort`
stands for an error, the busy timeout or the death of the process, all of which
lose the open transaction.

### 2.3 StepFanOut

`a & | b & | c &`: one process per step, a job process that starts and joins them,
and each later step in `ContextEvents.follow(until_parent_done=True)`. `log` is the
event table in id order. The loop of `follow` is `LoopHead` (the cancellation
check), `Fetch` (oldest first, at most `Limit`), `Check` (has the parent
published its end; is the time over). `BeginStep` has the window that
`execute_stage` leaves before its `try`: a step that raises there publishes
nothing. What a fetch returns is said by sets: the oldest `Limit` of the events after
the cursor (`NewEvents`, `Oldest`), as a sequence that lists them (`Lists`).
`drainedTo` is history: the newest id of the database at a follower's last fetch, if
that fetch returned nothing.

### 2.4 SessionTriggers

A shell's record is the Runner's memory (`cursor`, `seen`, `enabled`, `own`) and
the locals of the handler it is in (`after`, `upto`, and `looked`, the number of jobs
there were when it looked for an active service; the row of a job keeps the number that
its starter had). `framework_trigger_fired` is
`Query`, `Scan`, then `PublishFired` and `WriteFired`, or `Advance`;
`start_trigger_action` is `CheckAction` and `StartAction`. Leaving is `Exit`,
`StopServices`, `DisableRead`, `DisableWrite`; dying is `ShellDies`. `LoadDatabase`
changes `db` and nothing else, which is what `load_database` does. How a service
is made to stop is `CommandShutdown` of `JobLifecycle`.

### 2.5 FrameworkRequests

`log` is the request events of each database, `shell` a record of `ShellState`
(`afterId`, `handled`) with the batch that is being handled (`upto`) and the place in
the loop of `repl/shell.py`. `left` counts the drains until the next prompt: the one
inside `execute_repl_commandlet`, the one at the end of the loop's body and the one
before the prompt. An exception in the first is printed and the loop goes on; in the
others it ends the shell (`Raised`). `Take` is cursor and handled set, which the code
moves before the handler runs; `Handle` and `RunProcess` are the handlers by what
they record: shown, refused, run and then published. A *tenure* is a shell's time
with one `EventStore`; `ReplaceStore` is what a commandlet does to it, `ResetCursor`
follows when the commandlet returns and not when it raises, and `UseProject` keeps
the memory of the old database (`alien`). A line of input is one command.

### 2.6 ProcessStream

`ContextProcess.stream` is a generator: its `finally` is `Close`, reached by a
cancellation, a timeout, an error, or a commandlet that stops iterating (`Abandon`).
A pipe has lines that the kernel holds, lines that `readline` has fetched into its
buffer, which `select` does not see, and perhaps half a line, on which `readline`
waits (`Blocked`). `run` waits for the whole process. The child writes, closes its
outputs and exits as it likes, and may ignore SIGTERM (`stubborn`).

### 2.7 ApprovalGate and StepExecution

`ApprovalGate`: decisions are taken once, a step whose plan was requested runs after
an approval, and after a denial nothing runs. `StepExecution` is a pipeline from
`start_background` or `execute` to its last commandlet: `Snapshot` for every step at
submission of a background pipeline, `BuildContext` for each step (which loads the
snapshot or makes it), then `handle_plan_if_needed` as `RequestPlan`,
`PublishPolicy`, `Repair`, and `Approve`, `Deny`, `PromptFails` or `PlanOnlyEnds`.
The worker has variables of its own and no terminal; the shell may set variables, or
switch the project, which clears them, while the worker runs. `marked` are the steps
that the parser marked as background steps: the plan of a step without the mark
prompts, in whatever process it is. A commandlet that sets variables of its own scope
while it runs (`plugins/http/probe`) is not modelled.

### 2.8 RuntimeSignals

The steps of two jobs of one pipeline, the second job attached at any moment. A
commandlet polls (`Poll`) the signal events after the last that it handled, within the
window of the oldest `Limit` events of the database, one of which an earlier job has
left there. An operator's command is `PublishRequest`, then for `cancel` of a step or
pipeline `MarkScope`, then `ListJobs` and a visit per job (`CancelJob`, `KillJob`,
`SuspendJob`, `ResumeJob`). A signal to a zombie is taken and does nothing; to a pid
that is gone it raises, and the command ends there (`Signal`). A job's step looks at the
cancellations and starts in two statements, `CheckStep` and `StartStep`, between which
it is `checked`. A process that is suspended takes no step, and a commandlet in
`ContextProcess.run` (`blocked`, from `RunProgram` to `ProgramEnds`) polls nothing.
`promised` is history: the steps that the operator may take for stopped when the command
has returned. What the commands write to rows is `JobLifecycle`'s part.

### 2.9 DatabaseConversion

`main`, `wal` and `temp` are files with rows and a key; SQLite appears as far as the
conversion needs it: commits are in the log, which is folded into the file by a
checkpoint or by the last connection that closes. A rekey writes all pages under the new
key, to the log while somebody else is connected, so `wal.key` is the passphrase that the
database opens with. `encrypt` and `decrypt` are `Convert`, `Checkpoint`, `Export`,
`UnlinkLog`, `Replace`, `ReplaceStore`; `rekey` is `Rekey` and `AcceptKey`. Each can
raise (`StepRaises`) or be the shell's last (`ShellDies`).

A background job has the passphrase of the shell that forked it, and connects, commits
and closes (or dies) between any two of these steps. Its connection keeps the files it
opened: `cut` off from the log by `UnlinkLog`, then `gone` from the file by `Replace`; or,
if it connected between the two, `astray` on the old file with a log that `Replace` leaves
in place. When that log has rows, or the two sides of a split database both write,
`damaged` is set: SQLite promises nothing then, and the model stops.

## 3. Runs

### 3.1 What holds

* **JobControl** (one job that may be run in each of the three ways, with up to two
  stages or two step processes; two commands out of `cancel`, `kill --hard`, `pause
  --hard` and `resume --hard`; one fault; sweeps): `OutcomeHasEvidence`, `OneOutcome`,
  `KilledIsDead`, `DivertedNeverRuns`, the refinement `ImplementsContract` and, under
  fairness, `EveryJobSettles`. A job is *diverted* when a command or a sweep has written
  over its queued row before its worker claimed it. Two commands are what it takes for
  one command to undo another's mark, or for a second to act on what a first left; one
  fault puts a crash at every point of the submission, the run and the commands. The
  four verbs are the ways to act on a job that differ (a request, a death, a stop and
  its end); the others are in JobPipeline. The types are proved (5.1).
* **JobPipeline** (a foreground job and one attached to its pipeline, two stages
  each, one command out of all nine verbs, one fault): `CancellationStopsStages` and the
  refinement `ImplementsContract`. Two stages are needed for a stage that begins
  after the one whose check had passed, and two jobs for a request that is
  recorded for the pipeline and not for the job.
* **Aliases** (two publishers, one lister, two serials): everything of
  `RuntimeAliases`, its refinement of `AliasAllocation` and `CallsEnd`. Two serials
  and three processes give every order of two allocations around a third process's
  scan. Three serials were also run (7.5 million states) and showed nothing new. The
  types, and that the `UNIQUE` constraints never fire, are not run but proved (5.2).
* **FanOut** (three steps, two events of the first step, batches of one, one fault, the
  third step with a timeout): order and completeness of what is handled
  (`HandledInOrder`, `MissesOnlyTheWindow`), order and finality of the log
  (`CompletesAfterParent`, `FinishedLogIsFinal`), and that followers end. The types are
  proved (5.3). The middle step is both follower and parent. A batch limit of one makes
  every fetch a limited one.
* **TriggersShared** (two shells, one database, two events, one fault):
  `CursorCoversHistory` and `OneServiceAtATime`. Two shells are what the race between a
  look and a start needs, and the second event makes one shell start, or not start, a
  second time. The types are proved (5.4).
* **TriggersMoved** (two shells, two databases, one event in each, two changes of
  database, one fault): `OncePerSession` and `ShutdownSparesOthers`. A shell takes the
  number of its service to a database where the other shell's service has the same
  one; two changes allow to leave and to come back. Lives are one here: what a second
  life adds is proved (5.4).
* **FrameworkRequests** (one shell, two databases, two requests per database and a
  batch of one, two tenures, one fault): `NothingPassedOver`, `OncePerTenure`,
  `OutputBeforePrompt`. Shells share nothing but the log, and other writers to it are
  jobs, so one shell is enough; a batch of one makes a second fetch necessary.
* **ProcessStream** (two pipes of two lines, one fault): `NoOrphan`, `ExitTellsAll`
  and `StopsWhenAsked`. Two lines are what it takes for one to be in `readline`'s
  buffer while the kernel has none.
* **Execution** (two steps, two variables with one value or none, one change, one
  fault): `SubmittedValuesAreSeen`, `RepairsAreUsed` and the refinement
  `ImplementsGate`. Two variables are needed because a step whose snapshot is empty
  makes a new one: a set and an unset variable must meet. The types are proved (5.6).
* **RuntimeSignals** (three steps, the third of an attached job; two commands, a
  window of two events, one fault): `AnswersAreScoped`, `OrdersAreRecorded`,
  `BoundStepsNeverStart`, `RequestsAreAnswered` and `OrdersStopSteps`. `OrdersAreRecorded`
  says what the store and the processes are when a command returns, the other two what
  comes of it: no step that the command was for passes its check, and those that run end
  unless they are held. Suspensions are commands, so two commands give one that is bound
  and one that suspends or resumes. The ids of steps, jobs and pipelines overlap on purpose.
* **Conversion** (two keys, two rows, three conversions, two faults):
  `ConversionKeepsRows` and `SessionOpensFile`. Three conversions allow to encrypt,
  rekey and decrypt; two faults, a failed conversion followed by a death.

### 3.2 What the documentation says and the code does not do

**ArtifactsPaired** ends in a counterexample: a database with an artifact database is
rekeyed, and the artifact database keeps the old passphrase, to be opened with the new one
from then on (`plugins/storage/db/lifecycle.py:82`, `artifacts/store.py:302`); an encryption
(`plugins/storage/db/lifecycle.py:52`) leaves it plaintext in the same way;
`src/USAGE.md:823` says that the two have the same passphrase.

The models contain further behaviours that contradict a document or a comment. The
properties are stated so as to except them, and each exception is named here; no run
is spent on them.

* Status is written by id (`db/jobs.py:86`): `pause` reads a running row, the job
  finishes, `pause` writes `pausing`, and the finished job is listed as active.
* A starting session marks a job stale that has no pid yet and whose worker runs
  (`db/jobs.py:117`; its docstring says "when their recorded process is gone").
* A parent's last events and its end are published between a follower's empty fetch and
  its check, and are never handled (`plugin/services/events.py:186`;
  `docs/plugin_author/commandlet-api.md:753` says they are drained).
  `MissesOnlyTheWindow` says that nothing else is missed.
* A step that raises before the `try` of `execute_stage`
  (`runner/stages/__init__.py:106`) publishes no end, and its follower polls for ever
  (the comment at `plugin/services/events.py:200`). `FollowersStop` speaks of parents
  that have published their end.
* A follower whose invocation is plan-only, or whose plan is not approved, completes
  without following (`runner/stages/__init__.py:125`), whatever its parent still does.
  `CompletesAfterParent` is about followers that run.
* A hard kill of a fan-out job reaches the process that the row names and not its step
  processes (`runner/pipeline_steps.py:103`), which go on to publish, and start stages,
  under a row that says `killed`; `src/USAGE.md:1140` says that `--hard`
  "force-terminates the affected process", `docs/RUNTIME_MODEL.md:193` the same. A hard
  pause of the job leaves them running likewise. `KilledIsDead` is about the worker
  only, `JobContract` says of the steps that a job which did not finish leaves them be,
  and `RuntimeSignals` is about jobs whose steps run in the job's own process.
* A step that has passed its check when a command returns still starts
  (`runner/stages/__init__.py:106`: the check comes before the start, with a whole `cancel`
  possible in between). `CancellationStopsStages` allows one such stage per worker and
  `JobContract` one per step of a fan-out; `BoundStepsNeverStart` speaks of steps that have
  not passed their check.
* A cancelled step that is suspended (SIGSTOP of `pause --hard`,
  `plugins/runtime/control/job_operations.py:36`), or that waits in `ContextProcess.run`
  for a program without a timeout, does not see its cancellation, and goes on when it is
  resumed or the program ends (`Held` in `OrdersStopSteps` and `RequestsAreAnswered`).
* A job stays active for as long as its process is suspended, or in a stage that does not
  end: a service such as the watchdog loops until it is cancelled
  (`plugins/runtime/watchdog/__init__.py:80`). It also stays active under a live shell
  that was interrupted: `execute_foreground_job` catches `Exception`
  (`runner/core.py:121`), which `KeyboardInterrupt` is not, so neither `fail` nor `finish`
  runs, and the sweep sees the shell's own pid alive. The same holds if `start` raises
  there, outside the `try`. `EveryJobSettles` excepts these (`Busy`).
* A second shell writes back the older trigger cursor it read, and the first replays
  events after an orderly restart (`db/triggers.py:51`; docstring `triggers.py:34`).
* After `db load` the trigger cursor of the old database is applied to the new one,
  and passes over events (`repl/persistence.py:59`). `CursorCoversHistory` is checked
  with one database.
* After `db load` a leaving shell looks in the new database for the numbers of the
  services that it started in the old one, and stops what has them there, another
  session's service or a user's job (`repl/persistence.py:59`, `triggers.py:201`; the
  comment at `triggers.py:199` says "Only stop jobs that this session started as
  services"). `ShutdownSparesOthers` excepts these numbers and no others.
* Two shells that both look for an active service before either has started it start one
  each (`triggers.py:103`: the check is there so that a service that is active is not
  started again). `OneServiceAtATime` allows a second copy by another shell that looked
  before the first was there, and no other.
* A command that replaces the `EventStore` resets the request cursor to 0
  (`repl/command/exec.py:69`), and the shell shows the history of the database again,
  runs recorded process requests again included, also when the file is the same one,
  encrypted; a new session starts at the newest event, so that requests are not
  "replayed as fresh UI prompts" (`repl/state.py:90`). `OncePerTenure` is about one
  `EventStore`.
* `project use` keeps that cursor (`repl/projects.py:180`), and requests of the new
  project below it are passed over (`alien` in `NothingPassedOver`).
* The deadline of a streamed process is checked between reads
  (`plugin/process/stream.py:63`), and `readline` on half a line waits beyond it
  (`Blocked` in `StopsWhenAsked`).
* A child that ignores SIGTERM, or whose caller has died, outlives its call:
  `close_stream_process` terminates and waits five seconds, and does not kill
  (`plugin/process/stream.py:96`; its comment at line 91 says "terminate the child so
  process wrappers do not leak subprocesses"). `NoOrphan` excepts the first (`stubborn`)
  and is about calls that end, so not the second.
* `repaired_args or args` (`runner/plans.py:65` and `78`) runs the original arguments
  after an accepted repair to none, which is on record as applied (`emptyApplied`, left
  out of `RepairsAreUsed`); `if existing` (`runner/context.py:145`) takes an empty
  snapshot for a missing one, so a variable that was unset at submission may be seen
  with the worker's value, which `SubmittedValuesAreSeen` excepts.
* If every step of several is a background step, each runs in a process of its own
  (`StepFanOut`), and a denial there ends its own step and no other. `StepExecution`
  starts with the other pipelines only.
* A plan that is only tested, or whose prompt meets no terminal, is requested and
  never decided (`docs/plugin_author/commandlet-api.md:231` lists approval or denial
  among what is recorded). `ImplementsGate` allows it: such a step does not run.
* Signals beyond the oldest 1000 of a database are never seen (`plugin/signals.py:26`;
  `docs/plugin_author/commandlet-api.md:711` says that the framework delivers them).
  `RequestsAreAnswered` is about the window.
* If the new `EventStore` cannot be opened after the file was replaced
  (`plugins/storage/db/lifecycle.py:53`), the shell keeps the old passphrase, and all
  it does fails until it is restarted (`late` in `SessionOpensFile`).
* What a background job commits while a conversion is on its way is lost (`exposed` in
  `ConversionKeepsRows`), although the file is said to be replaced "atomically"
  (`plugins/storage/db/lifecycle.py:49`).
* A job that connects between the removal of the log and `os.replace`
  (`plugins/storage/db/lifecycle.py:181` and `182`) makes a log of the old file, which then
  stands beside the converted one; and a job that was connected when the log was removed
  writes a log of its own beside the shell's if the conversion fails at `os.replace`. Rows
  of everybody may be lost then (`damaged` in both properties of the conversion).
* A rekey goes to the log while a job is connected. If the job then keeps the next
  conversion's checkpoint from folding it, and that conversion fails after removing the
  log, the file has the old passphrase again (`late` in `SessionOpensFile`).

### 3.3 Bounds

All bounds are constants: `MaxCommands`, `MaxFaults`, `MaxStages`, which also bounds the
step processes, and `Given`, the verbs (jobs); `MaxEvents`, `Limit`, `MaxFaults`
(fan-out; `MaxEvents` bounds the first step only, a follower emits at most one event per
event it handles); `MaxEvents`, `MaxJobs`, `MaxLives`, `MaxLoads`, `MaxFaults`
(triggers); `MaxRequests`, `MaxTenures`, `MaxFaults` (requests); `MaxLines`, `MaxFaults`
(processes); `MaxSets`, `MaxFaults` (execution); `MaxOrders`, `MaxFaults` (signals);
`MaxWrites`, `MaxOps`, `MaxFaults` (conversion). `RuntimeAliases` needs none: its state
is finite for finite sets. Every bound is a guard of the action it limits; no state
constraint is used. `CHECK_DEADLOCK FALSE` is set where the system comes to rest: all
jobs have ended and no command is left to give.

## 4. Fairness

* `JobLifecycle`: sessions carry on with a submission they began, workers and step
  processes do what they do between their stages (`Proceed`, `StepProceeds`),
  operators' commands end, sessions keep being started (each sweeps, and reaps its
  children). The first three are processes that the scheduler runs; a suspended
  process is not, and a stage need not end (`EndStage` and `EndStep` are not fair), which is
  why `EveryJobSettles` excepts them (`Busy`).
  The fourth is an assumption about use: if nobody ever starts a session again,
  the row of a worker that died stays active, and the code has no other remedy.
  No command, no error, no Ctrl-C and no crash is fair.
* `RuntimeAliases`: a process goes on with its statements. One that waits at `BEGIN
  IMMEDIATE` gets the lock or gives up, because `sqlite3`'s busy timeout is finite;
  it needs no fairness between waiting processes. Publishing and listing are not
  fair.
* `StepFanOut`: steps run, and the job process starts and joins them. A follower's
  empty poll is a step, so a follower that polls for ever does not violate
  fairness: that it stops has to come from its parent's terminal event.
* `ProcessStream`: the process that makes the call goes on with it. The child is not
  fair, it may write for ever or not at all; nor is the consumer's `Abandon`.
* `RuntimeSignals`: a commandlet that is neither suspended nor waiting for a program
  returns to its polls, for requests and for its cancellation. The author's guide asks
  this of commandlets; nothing forces it. A commandlet need not end by itself (`EndStep`
  is not fair), a program need not end (`ProgramEnds` is not), no step need start, and
  no command need be given or finished: `promised` is what has returned.
* `SessionTriggers`, `FrameworkRequests`, `StepExecution` and `DatabaseConversion` are
  checked for safety only: a shell at its prompt waits for a person.

## 5. Proofs

The theorems hold for every value of the constants that satisfies the module's
assumptions. `JobsAssumption` says that job ids are positive numbers, that the
bounds are numbers and that a foreground job comes before the ones attached to it,
`VerbsAssumption` that the commands given are commands;
`SerialsAssumption` that serials are numbered and listers are processes;
`FanOutAssumption` that a pipeline has a step, a fetch returns at least one event and
only followers have a timeout; `SplitAssumption` that the first job has a step and all
others come after its own.

### 5.1 JobLifecycle

* `Typed`: one lemma per actor (`SubmitTyped`, `WorkTyped`, `StepTyped`, `ControlTyped`,
  `SweepTyped`), one step per action. That a step process moves only itself is
  `StepChanges`, and that it disturbs no job without step processes `StepsLeft`; these two
  are what the other proofs use of it.
* `OutcomesHaveEvidence`: `OutcomeHasEvidence` is not inductive, since the row is
  written by a worker that published earlier. `Published` adds that a worker at
  `finishedPublished` or `failedPublished` has its event in the ledger. Nothing
  takes an event out of the ledger (`EvidenceKept`), and no control command writes
  `finished` or `failed` (`MarkIsControl`).
* `CancellationIsDurable`: the strengthening `LateStageIsLast` says that a worker
  with a late stage has a request against it and is not past its check. A request
  is never withdrawn, so the next check fails.
* `OutcomesAreUnique`: `Phases` ties the outcome topics in the ledger to the
  worker's program counter, and `Unstarted` says what no process has done before
  it is spawned.
* `KillsAreFinal`: between a SIGKILL and the write of `killed` stands any number of
  other steps. `KilledIsDeadNow` extends the property to an operator that is about
  to write; `DeadStaysDead` carries it over the steps of the others. `Unstarted` is
  needed here too: a killed worker must not be spawned later. The theorem is about the
  process that the pid names; the step processes of a fan-out are not in it.
* `DivertedJobsNeverRun`: `DivertedNeverRuns` has a box inside a box, and needs no
  history to be proved: for one job, what `Diverted` implies is itself kept by every
  step. That is `Barred`: the row is recorded and not `queued`, the worker is at a place
  before its claim or after its end (`Off`), and no stage and no step process has begun.
  No step writes `queued` over a recorded row (`StatusKept`, with one lemma per actor),
  and a worker leaves `Off` only by claiming a queued row (`StaysOff`). Why no command
  or sweep writes to a row before it exists is `Known`: targets are collected from
  recorded rows, and only the submitter records one.
* `Implements`: a step of the lifecycle moves at most one job, and every way to move is
  one of those of `JobContract` (`Moves`, `OneMoves`; `NextMoves` has a lemma per
  actor). A write to a row, by whomever, moves a job only from `queued` to `over`.
  `MoveIsContract` then reads the phase before and after each kind of move. It needs
  `Taken`, a worker that is at work on a job has found the row queued and taken it, so
  that no later status makes the job look queued again, and it finishes only after a
  stage, or with steps that it has started and that are all over (`TakenOne`); `Phases`
  for the outcomes; and `LateStageIsLast` for the stage after a cancellation. A step
  process is either started by a worker that works and has begun no stage (`Spawns`), or
  moves by itself (`StepsOn`); steps that are over stay so (`StepsSettle`). That a
  cancellation is never withdrawn is `AskedMoves`.

### 5.2 RuntimeAliases (in `RuntimeProofs`)

`Locked` (a process inside its transaction holds the lock, alone), `Computed` (the
id it computed is above all others and leaves no gap) and density together are
inductive. From them follow `UniqueAndDense`, `NoConflict` and, with one step per
action, the refinement `Implements`: `Commit` is `Allocate`, everything else
stutters. `ShownIds` adds that what a lister holds agrees with the table, `Complete`
that every serial a scan has passed has its id (`Behind`).

### 5.3 StepFanOut

`LogIsFinal`: only a step that has not ended appends to the log (`NextLog`), ended
steps stay ended (`NextPc`), and the job is finished only when all have ended
(`AllEnded`). `CompletionsInOrder`: `CompletesAfterParent` speaks of the log alone
and is not inductive; `SawParentEnd` adds that, without a cancellation, a follower
without a timeout comes to a completion only through `parentDone`, and that its
parent's end is then in the log, where it stays (`TerminalKept`).

`EventsHandledInOrder` and `OnlyTheWindowIsMissed` come from one inductive invariant,
`InOrder`: the types (`TypesHold`), `HandledInOrder`, and `HandsEmpty`, which says that
a follower has no event in hand when it fetches or looks for its parent's end, and that
then no event of its parent lies between its cursor and `drainedTo`. Since the log only
grows, what an id names does not change (`EventsStay`), so a follower that does not fetch
keeps its place whatever the others publish (`KeepsPlace`). For one that fetches,
`FetchReturns` says what a batch is (the events after the cursor up to its last one, which
needs that some event is the newest of a finite set), and `FetchContinues` that such a
batch continues the list of those before (`ListsJoined`).

### 5.4 SessionTriggers

`FiredOnce`: every step of the system leaves a session as it is, begins it, ends it,
or lets it go on with all it has seen (`SessionKept`), and adds at most one fired
event, by a session that was about to fire it (`FiredAfter`). `Remembered` says
that what a session has fired in this life it has seen; `AboutToFire` that what it
is about to fire it has seen and has not fired. Nothing is assumed about cursors,
databases or other shells: it is the memory of the session that prevents a second
firing, and the cursors are not needed for it.

No step takes back what a database holds: events, jobs and fired events stay, and no
job becomes active again (`Grows`). So an event that the rule is through with stays so
(`DoneStays`), and `CursorCoversAll` follows from what each shell knows of its database
(`Sound`): everything up to its cursor, and up to the cursor that it has read and is
about to write back, is done with; what it has seen it has fired, unless it is about to
or is leaving. It assumes `MaxLoads = 0`: a shell that changes its database takes its
cursor along (3.2).

`SparesOthers` assumes nothing. Every number that a shell keeps is that of a service
which it has started in some database (`Owned`): only `StartAction` adds a number
(`OwnGrows`), and rows stay. If the number then names somebody else's job, the service
is in another database. `OneService` assumes that the action is a service, and any
number of shells: for a shell between its look and its start (`Alone`), each copy that
runs is another's and has come since the look, because there was none to be seen;
`BusyBefore` says that only `StartAction` makes a new one.

### 5.5 FrameworkRequests

The inductive invariant is said of one session and its log (`Sound`), so that one
lemma per change of a session serves every action. `Placed` types the record and
bounds the cursor by the log; `Passed` is `NothingPassedOver`; `Owned` says that a
command's requests lie above the beginning of its tenure and inside the log;
`Drained` counts: when one drain is left the cursor has a command's requests behind it,
or has come as far as a whole batch, and at the prompt it has them behind it. With
`2 * Limit >= MaxRequests` this is `OutputBeforePrompt`. `OncePerTenure` is about the
record of effects: `Ordered` says that the records of a tenure are in order, `Acted`
that all those of the current one are at or below the cursor.

### 5.6 StepExecution

`Recorded` ties the plan events of the current step to the place in the protocol and
says of the steps before and after it what `Current` of the gate needs; from it follows
`Implements`, with one step per action (`RequestPlan`, `Repair` and the like stutter).
`Patched` says that patched arguments are at hand if and only if their repair is on
record; the record of a step whose commandlet has run is closed (`RanIsClosed`), so
`RepairsAreUsed` stays true of it.
`Snapshotted` says that once a background pipeline has been submitted the rows of every
step are the shell's variables of that moment, unless these were all unset, and that a
foreground shell keeps its variables while its pipeline runs.

### 5.7 DatabaseConversion

`KeysInv`: the shell's passphrase is the database's except between the replacement of the
file and that of the store, where its target is, and the sidecar has the target's key.
`RowsInv`: committed rows that are not exposed are in the file or its log; from the
checkpoint to the end of the command they are in the file alone, without its log; from
the export to the replacement they are in the sidecar; and while a job is cut off from the
log, whose last close unlinks whatever log is in place, they are in the file. Both are
claimed of a database that is not damaged, and no step repairs one that is.

### 5.8 ProcessStream

`Fits` bounds what is in one pipe by what was written, and leaves room for the line that
a fragment becomes; `Filled` says that no step of the child changes the difference of
the two, nor a closed pipe. `Awaited` says where in the call the child is known to have
ended, and gives `NoOrphan`. For `ExitTellsAll`: as long as a stream may still end well,
the lines published and the lines in the pipe are together the lines written, and a pipe
that has left the selector is closed and empty (`Told`); the request is the first event
(`Headed`); a blocking run attaches its output once (`Attached`); nothing speaks of the
end before the call ends (`Silent`), and after it nothing happens (`EndIsFinal`).

### 5.9 RuntimeSignals (in `RuntimeProofs`)

The code takes the oldest request that is pending and the first job that is listed, and
the model says so with `Min`; that a set of numbers has a smallest member (`Smallest`)
is proved from the well-foundedness of the proper subsets of a finite set.

`AnswersStayScoped`: what a step polls concerns it (`InboxConcerns`), and so does what it
has answered, which lies behind its cursor and in order (`AnswersConcern`). That it passes
over nothing needs two more: no request that concerns it lies between its cursor and
the newest in its inbox without being in the inbox (`InboxFull`), and it has answered those
behind its cursor (`NonePassed`). A request that joins the log disturbs none of them
(`AskingKeeps`): it comes after all that has been polled. `AppliesCovers` and
`CoveredApplies` say that `signal_applies_to_context` agrees with what the command's
target stands for.

`OrdersStayRecorded`: once a request for a step is recorded, or its process has ended, it
stays so (`Lasts`). `Progress` says how far a command in execution has come: beyond
`MarkScope` the scope of `cancel` is marked, and every job that was listed and is not in the
list any more is cancelled or without its process. So when a command returns, what it
promises is bound (`ReturnBinds`); for `cancel` of a pipeline by the mark alone, which is
why a job that was attached after the listing is covered as well.

`BoundStepsStayUnstarted` is a safety half of `OrdersStopSteps`: only `CheckStep` takes a
step past its check, it looks at the cancellations, and the process of a job does not come
back. What `StartStep` does to a step that has passed its check is not in the theorem,
since the code does not look again.

### 5.10 What is only model-checked

Liveness: `EveryJobSettles`, `CallsEnd`, `FollowersStop`, `StopsWhenAsked`,
`RequestsAreAnswered` and `OrdersStopSteps`, since the prover does not reason about
fairness. Every invariant and every action property of the runs is proved, but for
`ArtifactsStayPaired`, which does not hold. Some theorems are stated under an assumption
that a run does not need or meets by its constants: `MaxLoads = 0` for `CursorCoversAll`
and a service for `OneService` (5.4), `2 * Limit >= MaxRequests` (5.5). The types of
`JobLifecycle`, `RuntimeAliases`, `StepFanOut`, `SessionTriggers`, `StepExecution`,
`RuntimeSignals` and `DatabaseConversion`, and `InsertNeverConflicts`, are proved and no
run checks them.

## 6. Not modelled

* The reuse of pids by the operating system. Every pid check in the code would be
  deceived by it; a model would only restate that.
* What commandlets compute, the payload of events, topic policy and validation.
  They appear as a stage that may raise, or an event that may or may not match.
* SQLite itself. Its promises (atomic statements, one writer, a lost transaction
  leaves nothing, the log and its checkpoints) are assumed.
* The trigger rules beyond one: rules share no cursor, and the loop over them has
  no other state.
* Streamed processes that the shell runs on request: the same code as the runs of
  `FrameworkRequests`.
* Plan-only and denied steps of a fan-out: `StepFanOut` and `JobLifecycle` have steps that
  run, fail or die.
* Several commands on one line of input (`FrameworkRequests` takes one), and
  commandlets that change their own variables while they run (`StepExecution`).
* `db new --force`, vacuum, export and import; the contents of artifacts, and their
  verification, which is a query over two databases.
* Keys, secrets, operator state, project archives: files and rows that one process
  writes whole. Cryptography is out of a model checker's reach.
* Parsing, policy, plugin loading, findings, reports, completion, rendering and the
  scanners: functions of their input without state that another process sees. This is
  most of the repository's text, and it is where unit tests do better than a model.

## 7. Plan

What is left, in order of weight:

1. The forced project switch (`repl/projects.py`) composed with jobs, and trigger
   actions composed with the drain of requests.
2. The safety half of `EveryJobSettles` proved: that a settled row of an ended worker
   stays settled once the commands are over.
