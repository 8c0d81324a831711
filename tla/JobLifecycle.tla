--------------------------- MODULE JobLifecycle ---------------------------
(***************************************************************************)
(* The life of a job row and of the process that works on it.              *)
(*                                                                         *)
(* Every SQLite statement of the event store is its own transaction        *)
(* (isolation_level=None), so each action below is one statement, one      *)
(* published event, or one signal; any other process may step in between.  *)
(*                                                                         *)
(*  - the submitting session: Runner.start_background,                     *)
(*    start_attached_pipeline and execute_foreground_job;                  *)
(*  - the worker: run_background_job, or the session itself for a          *)
(*    foreground job;                                                      *)
(*  - the step processes that the worker of a fan-out pipeline starts, one *)
(*    per stage; they are nobody's recorded pid;                           *)
(*  - operators: the control commandlets, over one job or over all jobs of *)
(*    the pipeline, and the shutdown of session services;                  *)
(*  - the stale-job sweep that every starting session runs.                *)
(*                                                                         *)
(* All jobs of the model belong to one pipeline: the first created it, the *)
(* others are attached to it.                                              *)
(***************************************************************************)
EXTENDS Naturals, FiniteSets

CONSTANTS
  Jobs,         \* local job ids, in the order of their rows
  Foreground,   \* the jobs that a session may run in its own process
  Background,   \* the jobs that it may run in a process of their own
  Operators,    \* processes that run control commands
  Given,        \* the control verbs they give, of the Verbs below
  MaxCommands,  \* bound on the control commands given in a behaviour
  MaxFaults,    \* bound on the crashes and errors of a behaviour
  MaxStages,    \* bound on the stages of the pipeline a job runs
  Sweeps        \* whether other sessions start, and sweep, meanwhile

ASSUME JobsAssumption ==
  /\ Jobs \subseteq Nat \ {0}
  /\ Foreground \union Background = Jobs
  \* An attached commandlet runs in the background.
  /\ \A j \in Foreground, k \in Jobs : j <= k
  /\ MaxCommands \in Nat
  /\ MaxFaults \in Nat
  /\ MaxStages \in Nat \ {0}
  /\ Sweeps \in BOOLEAN

VARIABLES
  row,         \* the jobs table: status, and whether a pid is recorded
  ledger,      \* the job.* topics published for each job
  cancels,     \* cancellation_requests: job ids, and Pipeline
  associated,  \* jobs linked to the pipeline by a variable snapshot
  submitter,   \* where the submitting session is
  worker,      \* where the worker is
  stages,      \* pipeline stages begun
  lateStages,  \* history: of those, the ones begun after a cancellation
  steps,       \* where the step processes of a fan-out pipeline are
  proc,        \* the operating system's view of the worker process
  op,          \* what each operator process is doing
  commands,    \* control commands given so far
  faults,      \* crashes and errors so far
  sweep        \* the stale-job sweep in progress

submitterVars == <<submitter, associated>>
workerVars    == <<worker, stages, lateStages, steps>>
operatorVars  == <<op, commands>>
vars == <<row, ledger, cancels, submitterVars, workerVars, proc, operatorVars, faults, sweep>>

-----------------------------------------------------------------------------
Pipeline == 0   \* the pipeline's scope; rows are numbered from 1

ActiveStatus   == {"queued", "claimed", "running", "pausing", "paused", "cancelling"}
TerminalStatus == {"finished", "failed", "killed", "missing", "stale", "cancelled"}
Statuses       == {"none"} \union ActiveStatus \union TerminalStatus
Rows           == [Jobs -> [status : Statuses, pid : BOOLEAN]]

OutcomeTopics == {"job.finished", "job.failed"}
ControlTopics == {"job.pause.requested", "job.resume.requested", "job.stop.requested"}
Topics == OutcomeTopics \union ControlTopics \union
          {"job.requested", "job.claimed", "job.claim.denied", "job.started"}

\* A session that runs the job in its own process is "entered", then "inside" it.
SubmitterState == {"idle", "recorded", "requested", "snapshotted", "spawned",
                   "returned", "dead", "entered", "inside"}
WorkerState == {"none", "boot", "denied", "claimed", "starting", "started", "between",
                "checked", "stage", "spawning", "failing", "failedPublished", "finishing",
                "finishedPublished", "exit", "done", "dead"}
StepIds   == 1 .. MaxStages
StepState == {"none", "boot", "checked", "stage", "over"}
ProcState == {"none", "alive", "stopped", "zombie", "gone"}

Verbs == {"cancel", "stop", "kill", "stopHard", "pause", "pauseHard", "resume",
          "resumeHard", "shutdown"}
ASSUME VerbsAssumption == Given \subseteq Verbs

OperatorState == {"idle", "scope", "announce", "act", "mark", "wait", "force", "missing"}
NoCommand == [pc |-> "idle", verb |-> "cancel", todo |-> {},
              pids |-> {}]
Command == [pc : OperatorState, verb : Verbs, todo : SUBSET Jobs, pids : SUBSET Jobs]

TypeOK ==
  /\ row \in Rows
  /\ ledger \in [Jobs -> SUBSET Topics]
  /\ cancels \subseteq Jobs \union {Pipeline}
  /\ associated \subseteq Jobs
  /\ submitter \in [Jobs -> SubmitterState]
  /\ worker \in [Jobs -> WorkerState]
  /\ stages \in [Jobs -> Nat]
  /\ lateStages \in [Jobs -> Nat]
  /\ steps \in [Jobs -> [StepIds -> StepState]]
  /\ proc \in [Jobs -> ProcState]
  /\ op \in [Operators -> Command]
  /\ commands \in 0 .. MaxCommands
  /\ faults \in 0 .. MaxFaults
  /\ sweep \in [unread : SUBSET Jobs, pids : SUBSET Jobs, stale : SUBSET Jobs]

Init ==
  /\ row = [j \in Jobs |-> [status |-> "none", pid |-> FALSE]]
  /\ ledger = [j \in Jobs |-> {}]
  /\ cancels = {}
  /\ associated = {}
  /\ submitter = [j \in Jobs |-> "idle"]
  /\ worker = [j \in Jobs |-> "none"]
  /\ stages = [j \in Jobs |-> 0]
  /\ lateStages = [j \in Jobs |-> 0]
  /\ steps = [j \in Jobs |-> [i \in StepIds |-> "none"]]
  /\ proc = [j \in Jobs |-> "none"]
  /\ op = [o \in Operators |-> NoCommand]
  /\ commands = 0
  /\ faults = 0
  /\ sweep = [unread |-> {}, pids |-> {}, stale |-> {}]

-----------------------------------------------------------------------------
(* The rows and the processes. *)

Recorded(j) == row[j].status # "none"
Active(j)   == row[j].status \in ActiveStatus
Terminal(j) == row[j].status \in TerminalStatus

\* One more crash or error, within the bound.
Fault == faults < MaxFaults /\ faults' = faults + 1

SetStatus(j, s) == row' = [row EXCEPT ![j].status = s]
Publish(j, t)   == ledger' = [ledger EXCEPT ![j] = @ \union {t}]

\* Mutant: the pipeline's requests are not looked at.
OwnRequestOnly(j) == j \in cancels

\* context.cancelled: a request for the job or for its pipeline.
CancellationRequested(j) == j \in cancels \/ Pipeline \in cancels

\* os.kill(pid, 0) succeeds on a zombie.
ProcessExists(j) == proc[j] \in {"alive", "stopped", "zombie"}
Live(j)          == proc[j] \in {"alive", "stopped"}

\* A job's step processes: not fanned out, and nothing of it running.
NoSteps(j)    == \A i \in StepIds : steps[j][i] = "none"
StepsQuiet(j) == \A i \in StepIds : steps[j][i] \in {"none", "over"}

InForeground(j) == submitter[j] \in {"entered", "inside"}

\* A dead child of a live session stays a zombie until it is reaped.
Ended(j) == IF InForeground(j) \/ submitter[j] = "dead" THEN "gone" ELSE "zombie"

\* SIGKILL ends a live process where it stands and does nothing to a zombie.
Sigkill(j) ==
  IF Live(j)
  THEN /\ proc' = [proc EXCEPT ![j] = Ended(j)]
       /\ worker' = [worker EXCEPT ![j] = IF @ = "done" THEN @ ELSE "dead"]
  ELSE UNCHANGED <<proc, worker>>

-----------------------------------------------------------------------------
(* The submitting session. *)

\* record_job: a background row has no pid yet, a foreground one has the session's.
\* A commandlet can only be attached to a pipeline that is known.
RecordJob(j) ==
  /\ submitter[j] = "idle"
  /\ \A k \in Jobs : k < j => Recorded(k) /\ associated # {}
  /\ \/ /\ j \in Background
        /\ row' = [row EXCEPT ![j] = [status |-> "queued", pid |-> FALSE]]
        /\ submitter' = [submitter EXCEPT ![j] = "recorded"]
        /\ UNCHANGED proc
     \/ /\ j \in Foreground
        /\ row' = [row EXCEPT ![j] = [status |-> "queued", pid |-> TRUE]]
        /\ submitter' = [submitter EXCEPT ![j] = "entered"]
        /\ proc' = [proc EXCEPT ![j] = "alive"]
  /\ UNCHANGED <<ledger, cancels, associated, workerVars, operatorVars, sweep, faults>>

\* requested(): a foreground session then claims its own job.
PublishRequested(j) ==
  /\ \/ /\ submitter[j] = "recorded"
        /\ submitter' = [submitter EXCEPT ![j] = "requested"]
        /\ UNCHANGED worker
     \/ /\ submitter[j] = "entered" /\ proc[j] = "alive"
        /\ submitter' = [submitter EXCEPT ![j] = "inside"]
        /\ worker' = [worker EXCEPT ![j] = "boot"]
  /\ Publish(j, "job.requested")
  /\ UNCHANGED <<row, cancels, associated, stages, lateStages, steps, proc, operatorVars, sweep, faults>>

\* The variable snapshot is also what links the job to its pipeline.
SnapshotVariables(j) ==
  /\ submitter[j] = "requested"
  /\ associated' = associated \union {j}
  /\ submitter' = [submitter EXCEPT ![j] = "snapshotted"]
  /\ UNCHANGED <<row, ledger, cancels, workerVars, proc, operatorVars, sweep, faults>>

SpawnWorker(j) ==
  /\ submitter[j] = "snapshotted"
  /\ proc' = [proc EXCEPT ![j] = "alive"]
  /\ worker' = [worker EXCEPT ![j] = "boot"]
  /\ submitter' = [submitter EXCEPT ![j] = "spawned"]
  /\ UNCHANGED <<row, ledger, cancels, associated, stages, lateStages, steps, operatorVars, sweep, faults>>

UpdateJobPid(j) ==
  /\ submitter[j] = "spawned"
  /\ row' = [row EXCEPT ![j].pid = TRUE]
  /\ submitter' = [submitter EXCEPT ![j] = "returned"]
  /\ UNCHANGED <<ledger, cancels, associated, workerVars, proc, operatorVars, sweep, faults>>

\* The session is killed: its zombies go to init, its workers live on.
SessionCrash(j) ==
  /\ Fault
  /\ submitter[j] \notin {"idle", "dead"} /\ ~ InForeground(j)
  /\ submitter' = [submitter EXCEPT ![j] = "dead"]
  /\ proc' = [proc EXCEPT ![j] = IF @ = "zombie" THEN "gone" ELSE @]
  /\ UNCHANGED <<row, ledger, cancels, associated, workerVars, operatorVars, sweep>>

\* multiprocessing reaps finished children when the session starts another one.
ReapWorker(j) ==
  /\ proc[j] = "zombie"
  /\ proc' = [proc EXCEPT ![j] = "gone"]
  /\ UNCHANGED <<row, ledger, cancels, submitterVars, workerVars, operatorVars, sweep, faults>>

-----------------------------------------------------------------------------
(* The worker. *)

WorkerAt(j, from) == worker[j] = from /\ proc[j] = "alive"
WorkerTo(j, to)   == worker' = [worker EXCEPT ![j] = to]

\* Mutant: an UPDATE by id alone.
ClaimAnyStatus(j) ==
  /\ WorkerAt(j, "boot")
  /\ row' = [row EXCEPT ![j] = [status |-> "claimed", pid |-> TRUE]]
  /\ WorkerTo(j, "claimed")
  /\ UNCHANGED <<ledger, cancels, submitterVars, stages, lateStages, steps, proc, operatorVars, sweep, faults>>

\* claim_job: the status predicate of the UPDATE is the lock.
ClaimJob(j) ==
  /\ WorkerAt(j, "boot")
  /\ IF row[j].status = "queued"
     THEN /\ row' = [row EXCEPT ![j] = [status |-> "claimed", pid |-> TRUE]]
          /\ WorkerTo(j, "claimed")
     ELSE WorkerTo(j, "denied") /\ UNCHANGED row
  /\ UNCHANGED <<ledger, cancels, submitterVars, stages, lateStages, steps, proc, operatorVars, sweep, faults>>

\* Mutant: a denied worker goes on.
DenialIgnored(j) ==
  /\ \/ WorkerAt(j, "claimed") /\ Publish(j, "job.claimed") /\ WorkerTo(j, "starting")
     \/ WorkerAt(j, "denied") /\ Publish(j, "job.claim.denied") /\ WorkerTo(j, "starting")
  /\ UNCHANGED <<row, cancels, submitterVars, stages, lateStages, steps, proc, operatorVars, sweep, faults>>

PublishClaim(j) ==
  /\ \/ WorkerAt(j, "claimed") /\ Publish(j, "job.claimed") /\ WorkerTo(j, "starting")
     \/ WorkerAt(j, "denied") /\ Publish(j, "job.claim.denied") /\ WorkerTo(j, "exit")
  /\ UNCHANGED <<row, cancels, submitterVars, stages, lateStages, steps, proc, operatorVars, sweep, faults>>

\* run_background_job returns quietly when anything up to the claim raises.
ClaimRaises(j) ==
  /\ Fault
  /\ WorkerAt(j, "boot") \/ WorkerAt(j, "claimed") \/ WorkerAt(j, "denied")
  /\ WorkerTo(j, "exit")
  /\ UNCHANGED <<row, ledger, cancels, submitterVars, stages, lateStages, steps, proc,
                 operatorVars, sweep>>

StartJob(j) ==
  /\ \/ WorkerAt(j, "starting") /\ SetStatus(j, "running") /\ WorkerTo(j, "started")
        /\ UNCHANGED ledger
     \/ WorkerAt(j, "started") /\ Publish(j, "job.started") /\ WorkerTo(j, "between")
        /\ UNCHANGED row
  /\ UNCHANGED <<cancels, submitterVars, stages, lateStages, steps, proc, operatorVars, sweep, faults>>

\* start() is inside run_background_job's try, and outside execute_foreground_job's.
StartRaises(j) ==
  /\ Fault
  /\ WorkerAt(j, "starting") \/ WorkerAt(j, "started")
  /\ WorkerTo(j, IF InForeground(j) THEN "exit" ELSE "failing")
  /\ UNCHANGED <<row, ledger, cancels, submitterVars, stages, lateStages, steps, proc,
                 operatorVars, sweep>>

\* build_context links the run to its job; raise_if_cancelled comes before the
\* stage publishes its start.
CheckCancelled(j) ==
  /\ WorkerAt(j, "between")
  /\ stages[j] < MaxStages
  /\ associated' = associated \union {j}
  /\ WorkerTo(j, IF CancellationRequested(j) THEN "failing" ELSE "checked")
  /\ UNCHANGED <<row, ledger, cancels, submitter, stages, lateStages, steps, proc,
                 operatorVars, sweep, faults>>

BeginStage(j) ==
  /\ WorkerAt(j, "checked")
  /\ WorkerTo(j, "stage")
  /\ stages' = [stages EXCEPT ![j] = @ + 1]
  /\ lateStages' = [lateStages EXCEPT ![j] = IF cancels \intersect {j, Pipeline} # {} THEN @ + 1 ELSE @]
  /\ UNCHANGED <<row, ledger, cancels, submitterVars, steps, proc, operatorVars, sweep, faults>>

\* A stage returns its events, or stops its pipeline (context.pipeline.stop).
EndStage(j) ==
  /\ WorkerAt(j, "stage")
  /\ \/ WorkerTo(j, "between") /\ UNCHANGED cancels
     \/ WorkerTo(j, "finishing") /\ cancels' = cancels \union {Pipeline}
  /\ UNCHANGED <<row, ledger, submitterVars, stages, lateStages, steps, proc, operatorVars, sweep, faults>>

\* run_pipeline_step_processes, for a background pipeline of several stages that are
\* all marked &: each stage gets a process of its own.
FanOut(j) ==
  /\ WorkerAt(j, "between")
  /\ stages[j] = 0 /\ MaxStages > 1
  /\ ~ InForeground(j) /\ \A k \in Jobs : j <= k
  /\ WorkerTo(j, "spawning")
  /\ UNCHANGED <<row, ledger, cancels, submitterVars, stages, lateStages, steps, proc,
                 operatorVars, sweep, faults>>

SpawnStep(j, i) ==
  /\ WorkerAt(j, "spawning")
  /\ steps[j][i] = "none"
  /\ \A k \in StepIds : k < i => steps[j][k] # "none"
  /\ steps' = [steps EXCEPT ![j][i] = "boot"]
  /\ UNCHANGED <<row, ledger, cancels, submitterVars, worker, stages, lateStages, proc,
                 operatorVars, sweep, faults>>

\* Mutant: the step processes are not waited for.
StepsNotJoined(j) ==
  /\ WorkerAt(j, "spawning")
  /\ \E i \in StepIds \ {1} : steps[j][i] # "none"
  /\ WorkerTo(j, "finishing")
  /\ UNCHANGED <<row, ledger, cancels, submitterVars, stages, lateStages, steps, proc,
                 operatorVars, sweep, faults>>

\* The joins return whatever the steps' exit codes; a pipeline of several stages has
\* at least two.
JoinSteps(j) ==
  /\ WorkerAt(j, "spawning")
  /\ \E i \in StepIds \ {1} : steps[j][i] # "none"
  /\ StepsQuiet(j)
  /\ WorkerTo(j, "finishing")
  /\ UNCHANGED <<row, ledger, cancels, submitterVars, stages, lateStages, steps, proc,
                 operatorVars, sweep, faults>>

\* A stage, the setup before the first one, or starting a step process raises.
RunRaises(j) ==
  /\ Fault
  /\ WorkerAt(j, "between") \/ WorkerAt(j, "stage") \/ WorkerAt(j, "spawning")
  /\ WorkerTo(j, "failing")
  /\ UNCHANGED <<row, ledger, cancels, submitterVars, stages, lateStages, steps, proc,
                 operatorVars, sweep>>

\* Mutant: a run may return without having begun a stage.
ReturnsAtOnce(j) ==
  /\ WorkerAt(j, "between")
  /\ WorkerTo(j, "finishing")
  /\ UNCHANGED <<row, ledger, cancels, submitterVars, stages, lateStages, steps, proc,
                 operatorVars, sweep, faults>>

RunReturns(j) ==
  /\ WorkerAt(j, "between")
  /\ stages[j] > 0
  /\ WorkerTo(j, "finishing")
  /\ UNCHANGED <<row, ledger, cancels, submitterVars, stages, lateStages, steps, proc,
                 operatorVars, sweep, faults>>

\* fail(): the event first, then the row.
FailJob(j) ==
  /\ \/ WorkerAt(j, "failing") /\ Publish(j, "job.failed") /\ WorkerTo(j, "failedPublished")
        /\ UNCHANGED row
     \/ WorkerAt(j, "failedPublished") /\ SetStatus(j, "failed") /\ WorkerTo(j, "exit")
        /\ UNCHANGED ledger
  /\ UNCHANGED <<cancels, submitterVars, stages, lateStages, steps, proc, operatorVars, sweep, faults>>

\* Mutant: the row first, then the event.
FinishRowFirst(j) ==
  /\ \/ WorkerAt(j, "finishing") /\ SetStatus(j, "finished")
        /\ WorkerTo(j, "finishedPublished") /\ UNCHANGED ledger
     \/ WorkerAt(j, "finishedPublished") /\ Publish(j, "job.finished") /\ WorkerTo(j, "exit")
        /\ UNCHANGED row
  /\ UNCHANGED <<cancels, submitterVars, stages, lateStages, steps, proc, operatorVars, sweep, faults>>

\* finish(): the event first, then the row.
FinishJob(j) ==
  /\ \/ WorkerAt(j, "finishing") /\ Publish(j, "job.finished")
        /\ WorkerTo(j, "finishedPublished") /\ UNCHANGED row
     \/ WorkerAt(j, "finishedPublished") /\ SetStatus(j, "finished") /\ WorkerTo(j, "exit")
        /\ UNCHANGED ledger
  /\ UNCHANGED <<cancels, submitterVars, stages, lateStages, steps, proc, operatorVars, sweep, faults>>

\* Ctrl-C in a foreground session: KeyboardInterrupt is not an Exception, so neither
\* fail() nor finish() runs, and the shell's loop goes on.
Interrupt(j) ==
  /\ Fault
  /\ InForeground(j)
  /\ proc[j] = "alive" /\ worker[j] \notin {"none", "exit", "done", "dead"}
  /\ WorkerTo(j, "exit")
  /\ UNCHANGED <<row, ledger, cancels, submitterVars, stages, lateStages, steps, proc,
                 operatorVars, sweep>>

\* A background worker's process ends, once the children that multiprocessing joins at
\* its exit have; a foreground session goes on or exits.
ExitWorker(j) ==
  /\ WorkerAt(j, "exit")
  /\ StepsQuiet(j)
  /\ WorkerTo(j, "done")
  /\ \/ proc' = [proc EXCEPT ![j] = Ended(j)]
     \/ InForeground(j) /\ UNCHANGED proc
  /\ UNCHANGED <<row, ledger, cancels, submitterVars, stages, lateStages, steps, operatorVars, sweep, faults>>

\* The process dies anywhere: a crash, or an error while recording the outcome.
WorkerCrash(j) ==
  /\ Fault
  /\ Live(j)
  /\ Sigkill(j)
  /\ UNCHANGED <<row, ledger, cancels, submitterVars, stages, lateStages, steps, operatorVars, sweep>>

-----------------------------------------------------------------------------
(* The step processes (run_stage_process).  They are children of the worker that    *)
(* outlive its death, and no signal for the job reaches them.                       *)

StepTo(j, i, from, to) ==
  /\ steps[j][i] = from
  /\ steps' = [steps EXCEPT ![j][i] = to]
  /\ UNCHANGED <<row, ledger, submitterVars, worker, stages, lateStages, proc,
                 operatorVars, sweep>>

\* raise_if_cancelled, as in CheckCancelled.
CheckStep(j, i) ==
  /\ StepTo(j, i, "boot", IF CancellationRequested(j) THEN "over" ELSE "checked")
  /\ UNCHANGED <<cancels, faults>>

BeginStep(j, i) == StepTo(j, i, "checked", "stage") /\ UNCHANGED <<cancels, faults>>

\* Its stage returns, or has stopped the pipeline.
EndStep(j, i) ==
  /\ StepTo(j, i, "stage", "over")
  /\ cancels' = cancels \/ cancels' = cancels \union {Pipeline}
  /\ UNCHANGED faults

\* Its stage, or the setup before it, raises, or the process dies.
StepDies(j, i) ==
  /\ Fault
  /\ \E from \in {"boot", "checked", "stage"} : StepTo(j, i, from, "over")
  /\ UNCHANGED cancels

-----------------------------------------------------------------------------
(* Control commands.  A command first reads the rows of its targets, then      *)
(* works through them in id order with the pids it read.                       *)

At(o, j, pc) == /\ op[o].pc = pc
                /\ j \in op[o].todo
                /\ \A k \in op[o].todo : j <= k

Announced(verb) ==
  CASE verb \in {"pause", "pauseHard"}   -> {"job.pause.requested"}
    [] verb \in {"resume", "resumeHard"} -> {"job.resume.requested"}
    [] verb \in {"stop", "stopHard"}     -> {"job.stop.requested"}
    [] OTHER                             -> {}

\* The status a verb writes once it has acted.
Mark(verb) ==
  CASE verb \in {"cancel", "stop", "shutdown"} -> "cancelling"
    [] verb \in {"kill", "stopHard"}           -> "killed"
    [] verb = "pause"                          -> "pausing"
    [] verb = "pauseHard"                      -> "paused"
    [] OTHER                                   -> "running"

\* The step that opens a verb's work on a target.
Entry(verb) == IF Announced(verb) = {} THEN "act" ELSE "announce"

Give(o, verb, targets, pc) ==
  /\ op[o].pc = "idle"
  /\ commands < MaxCommands
  /\ commands' = commands + 1
  /\ op' = [op EXCEPT ![o] = [pc |-> pc, verb |-> verb, todo |-> targets,
                              pids |-> {k \in targets : row[k].pid}]]
  /\ UNCHANGED <<row, ledger, cancels, submitterVars, workerVars, proc, sweep, faults>>

\* require_job: any recorded job is a legal target, whatever its status.
CommandJob(o, verb, j) ==
  /\ verb # "shutdown"
  /\ Recorded(j)
  /\ Give(o, verb, {j}, Entry(verb))

\* jobs_for_pipeline: every job ever linked to the pipeline, finished ones included.
CommandPipeline(o, verb) ==
  /\ verb # "shutdown"
  /\ associated # {}
  /\ Give(o, verb, associated, IF verb = "cancel" THEN "scope" ELSE Entry(verb))

\* stop_session_services: the active jobs that the session started as services.
CommandShutdown(o, j) ==
  /\ "shutdown" \in Given
  /\ ~ InForeground(j)
  /\ Active(j)
  /\ Give(o, "shutdown", {j}, "act")

OpTo(o, pc) == op' = [op EXCEPT ![o].pc = pc]
NextTarget(o, j) ==
  op' = [op EXCEPT ![o] = IF op[o].todo = {j} THEN NoCommand
                          ELSE [op[o] EXCEPT !.todo = @ \ {j}, !.pc = Entry(op[o].verb)]]
Abandon(o) == op' = [op EXCEPT ![o] = NoCommand]

\* cancel_pipeline records one request for the pipeline before its jobs.
CancelScope(o) ==
  /\ op[o].pc = "scope"
  /\ cancels' = cancels \union {Pipeline}
  /\ OpTo(o, "act")
  /\ UNCHANGED <<row, ledger, submitterVars, workerVars, proc, commands, sweep, faults>>

Announce(o, j) ==
  /\ At(o, j, "announce")
  /\ ledger' = [ledger EXCEPT ![j] = @ \union Announced(op[o].verb)]
  /\ OpTo(o, IF op[o].verb \in {"pause", "resume"} THEN "mark" ELSE "act")
  /\ UNCHANGED <<row, cancels, submitterVars, workerVars, proc, commands, sweep, faults>>

\* request_cancellation
ActCancel(o, j) ==
  /\ At(o, j, "act") /\ op[o].verb \in {"cancel", "stop", "shutdown"}
  /\ cancels' = cancels \union {j}
  /\ OpTo(o, "mark")
  /\ UNCHANGED <<row, ledger, submitterVars, workerVars, proc, commands, sweep, faults>>

\* Mutant: with nothing to signal, the row is marked all the same.
MarkUnsignalled(o, j) == OpTo(o, "mark")

Undelivered(o, j) ==
  IF j \in op[o].pids /\ op[o].verb \in {"kill", "stopHard"}
  THEN OpTo(o, "missing") ELSE Abandon(o)

\* A signal needs the pid that was read to be there and to be a process;
\* otherwise the command raises and its remaining targets are not visited.
ActSignal(o, j) ==
  LET delivered == j \in op[o].pids /\ ProcessExists(j)
  IN  /\ At(o, j, "act")
      /\ \/ /\ delivered
            /\ op[o].verb \in {"kill", "stopHard"}
            /\ Sigkill(j)
            /\ OpTo(o, "mark")
         \/ /\ delivered
            /\ op[o].verb = "pauseHard"
            /\ proc' = [proc EXCEPT ![j] = IF @ = "alive" THEN "stopped" ELSE @]
            /\ OpTo(o, "mark") /\ UNCHANGED worker
         \/ /\ delivered
            /\ op[o].verb = "resumeHard"
            /\ proc' = [proc EXCEPT ![j] = IF @ = "stopped" THEN "alive" ELSE @]
            /\ OpTo(o, "mark") /\ UNCHANGED worker
         \/ /\ ~delivered
            /\ op[o].verb \in {"kill", "stopHard", "pauseHard", "resumeHard"}
            /\ Undelivered(o, j)
            /\ UNCHANGED <<proc, worker>>
      /\ UNCHANGED <<row, ledger, cancels, submitterVars, stages, lateStages, steps, commands, sweep, faults>>

\* kill_job records a process it could not find, then raises.
WriteMissing(o, j) ==
  /\ At(o, j, "missing")
  /\ SetStatus(j, "missing")
  /\ Abandon(o)
  /\ UNCHANGED <<ledger, cancels, submitterVars, workerVars, proc, commands, sweep, faults>>

\* update_job_status or finish_job, whatever the row says by now.
WriteMark(o, j) ==
  /\ At(o, j, "mark")
  /\ SetStatus(j, Mark(op[o].verb))
  /\ IF op[o].verb = "shutdown" /\ j \in op[o].pids
     THEN OpTo(o, "wait") ELSE NextTarget(o, j)
  /\ UNCHANGED <<ledger, cancels, submitterVars, workerVars, proc, commands, sweep, faults>>

\* The grace period of a shutdown: the process is seen to be gone ...
ServiceGone(o, j) ==
  /\ At(o, j, "wait")
  /\ ~ProcessExists(j)
  /\ SetStatus(j, "cancelled")
  /\ NextTarget(o, j)
  /\ UNCHANGED <<ledger, cancels, submitterVars, workerVars, proc, commands, sweep, faults>>

\* ... or the period ends with the process still there.
ServiceTimeout(o, j) ==
  /\ At(o, j, "wait")
  /\ ProcessExists(j)
  /\ Sigkill(j)
  /\ OpTo(o, "force")
  /\ UNCHANGED <<row, ledger, cancels, submitterVars, stages, lateStages, steps, commands, sweep, faults>>

WriteForced(o, j) ==
  /\ At(o, j, "force")
  /\ SetStatus(j, "killed")
  /\ NextTarget(o, j)
  /\ UNCHANGED <<ledger, cancels, submitterVars, workerVars, proc, commands, sweep, faults>>

\* The operator's process dies between two writes.
OperatorCrash(o) ==
  /\ Fault
  /\ op[o].pc # "idle"
  /\ Abandon(o)
  /\ UNCHANGED <<row, ledger, cancels, submitterVars, workerVars, proc, commands, sweep>>

-----------------------------------------------------------------------------
(* mark_stale_jobs: one SELECT, one probe per row, then one UPDATE per row. *)

SweepSelect ==
  /\ Sweeps
  /\ sweep.unread = {} /\ sweep.stale = {}
  /\ \E j \in Jobs : Active(j)
  /\ sweep' = [sweep EXCEPT !.unread = {j \in Jobs : Active(j)},
                            !.pids = {j \in Jobs : Active(j) /\ row[j].pid}]
  /\ UNCHANGED <<row, ledger, cancels, submitterVars, workerVars, proc, operatorVars, faults>>

\* Mutant: a row without a pid is left alone.
ProbeRecordedPids(j) ==
  /\ j \in sweep.unread
  /\ sweep' = [unread |-> sweep.unread \ {j},
               pids |-> sweep.pids \ {j},
               stale |-> IF j \in sweep.pids /\ ~ProcessExists(j) THEN sweep.stale \union {j}
                         ELSE sweep.stale]
  /\ UNCHANGED <<row, ledger, cancels, submitterVars, workerVars, proc, operatorVars, faults>>

SweepProbe(j) ==
  /\ j \in sweep.unread
  /\ sweep' = [unread |-> sweep.unread \ {j},
               pids |-> sweep.pids \ {j},
               stale |-> IF j \in sweep.pids /\ ProcessExists(j) THEN sweep.stale
                         ELSE sweep.stale \union {j}]
  /\ UNCHANGED <<row, ledger, cancels, submitterVars, workerVars, proc, operatorVars, faults>>

SweepWrite(j) ==
  /\ sweep.unread = {} /\ j \in sweep.stale
  /\ SetStatus(j, "stale")
  /\ sweep' = [sweep EXCEPT !.stale = @ \ {j}]
  /\ UNCHANGED <<ledger, cancels, submitterVars, workerVars, proc, operatorVars, faults>>

-----------------------------------------------------------------------------
Submit(j) == RecordJob(j) \/ PublishRequested(j) \/ SnapshotVariables(j)
             \/ SpawnWorker(j) \/ UpdateJobPid(j)

\* What the worker does by itself, once a stage it is in has ended ...
Proceed(j) == \/ ClaimJob(j) \/ PublishClaim(j) \/ StartJob(j)
              \/ CheckCancelled(j) \/ BeginStage(j) \/ RunReturns(j)
              \/ FanOut(j) \/ (\E i \in StepIds : SpawnStep(j, i)) \/ JoinSteps(j)
              \/ FailJob(j) \/ FinishJob(j) \/ ExitWorker(j)

\* ... and what need not happen: a commandlet may run until it is cancelled.
Work(j) == \/ Proceed(j) \/ EndStage(j)
           \/ ClaimRaises(j) \/ StartRaises(j) \/ RunRaises(j) \/ Interrupt(j)

StepProceeds(j) == \E i \in StepIds : CheckStep(j, i) \/ BeginStep(j, i)
Step(j) == StepProceeds(j) \/ \E i \in StepIds : EndStep(j, i) \/ StepDies(j, i)

Order(o) == \E verb \in Given :
              \/ \E j \in Jobs : CommandJob(o, verb, j)
              \/ CommandPipeline(o, verb)

Visit(o, j) == \/ Announce(o, j) \/ ActCancel(o, j)
               \/ ActSignal(o, j) \/ WriteMissing(o, j) \/ WriteMark(o, j)
               \/ ServiceGone(o, j) \/ ServiceTimeout(o, j) \/ WriteForced(o, j)

Control(o) == CancelScope(o) \/ \E j \in Jobs : Visit(o, j)

Sweep == SweepSelect \/ \E j \in Jobs : SweepProbe(j) \/ SweepWrite(j)

Next == \/ \E j \in Jobs : \/ Submit(j) \/ SessionCrash(j) \/ ReapWorker(j)
                           \/ Work(j) \/ WorkerCrash(j) \/ Step(j)
        \/ \E o \in Operators : \/ Order(o)
                                \/ \E j \in Jobs : CommandShutdown(o, j)
                                \/ Control(o) \/ OperatorCrash(o)
        \/ Sweep

Spec == Init /\ [][Next]_vars

(***************************************************************************)
(* Sessions go on with what they began, processes that are not suspended   *)
(* run, operators' commands end, and sessions keep being started (each     *)
(* sweeps) and reap children.  A stage need not end: a service loops until *)
(* it is cancelled, and a commandlet may never look.  Nobody has to give a *)
(* command, and nothing has to raise, be interrupted or crash.             *)
(***************************************************************************)
Fairness ==
  /\ \A j \in Jobs : /\ WF_vars(Submit(j))
                     /\ WF_vars(Proceed(j))
                     /\ WF_vars(StepProceeds(j))
                     /\ WF_vars(ReapWorker(j))
  /\ \A o \in Operators : WF_vars(Control(o))
  /\ WF_vars(Sweep)

FairSpec == Spec /\ Fairness

-----------------------------------------------------------------------------
(* What the lifecycle promises. *)

\* Evidence before status: a row that says finished or failed has the event that
\* says so, whatever crashed and whoever else wrote (JobLifecycle.fail/finish).
OutcomeHasEvidence ==
  \A j \in Jobs : /\ row[j].status = "finished" => "job.finished" \in ledger[j]
                  /\ row[j].status = "failed" => "job.failed" \in ledger[j]

\* A job has one outcome: the ledger never holds both job.finished and job.failed,
\* and none for a worker that was refused the claim, which begins no stage and starts
\* no step process (run_background_job).
OneOutcome ==
  \A j \in Jobs : /\ ~ OutcomeTopics \subseteq ledger[j]
                  /\ "job.claim.denied" \in ledger[j] =>
                       /\ ledger[j] \intersect (OutcomeTopics \union {"job.started"}) = {}
                       /\ stages[j] = 0 /\ NoSteps(j)

\* Cancellation is durable: once a request is recorded, whatever the status column
\* is overwritten with afterwards, a worker begins at most the stage whose check had
\* already passed (execute_stage, request_cancellation).  The step processes of a
\* fan-out check for themselves: several may be past it, see ImplementsContract.
CancellationStopsStages == \A j \in Jobs : lateStages[j] <= 1

\* A job row that says killed has a worker that runs no more: the process that the pid
\* names has ended or given the job up, so it begins nothing, starts no step process and
\* writes no outcome (kill_job, stop_session_services).  It says nothing of the step
\* processes of a fan-out pipeline, which the signal does not reach and which go on.
KilledIsDead == \A j \in Jobs : row[j].status = "killed" => ~ (Live(j) /\ worker[j] # "done")

\* The row has left queued, and the worker has not claimed the job.
Diverted(j) == Recorded(j) /\ worker[j] \in {"none", "boot"} /\ row[j].status # "queued"

\* A job whose row leaves queued before its worker claims it never begins a stage and
\* never fans out: cancelled, paused or swept work does not start late (claim_job).
DivertedNeverRuns == \A j \in Jobs : [](Diverted(j) => [](stages[j] = 0 /\ NoSteps(j)))

\* The places of a worker that has claimed its job and not published its end.
Working == {"claimed", "starting", "started", "between", "checked", "stage", "spawning",
            "failing", "finishing"}

\* How far a job is, whatever its status has been overwritten with.
Phase(j) ==
  IF "job.finished" \in ledger[j] THEN "finished"
  ELSE IF "job.failed" \in ledger[j] THEN "failed"
  ELSE IF worker[j] \in Working THEN "working"
  ELSE IF row[j].status \in {"none", "queued"} THEN row[j].status
  ELSE "over"

PhaseOf == [j \in Jobs |-> Phase(j)]
AskedOf == {j \in Jobs : CancellationRequested(j)}
LateOf  == {j \in Jobs : lateStages[j] > 0}

Contract == INSTANCE JobContract
              WITH Steps <- StepIds, phase <- PhaseOf, begun <- stages, asked <- AskedOf,
                   late <- LateOf

\* Submission, claim, stages, step processes, outcome, commands, sweeps and crashes
\* together keep the plain contract of a job (JobLifecycle, claim_job, execute_stage,
\* run_pipeline_step_processes): a fan-out starts its steps only while the job works,
\* none passes its check once the cancellation is on record, and a job finishes only
\* when all of them are over, while one that is killed or fails leaves them running.
ImplementsContract == Contract!Spec

\* What keeps a job active for as long as it lasts: its process is suspended, or in a
\* stage of its own or of a step process, or it is a live shell that gave the job up
\* (Ctrl-C, an error in start()) or whose finished job a late command marked active.
Busy(j) ==
  \/ proc[j] = "stopped"
  \/ /\ proc[j] = "alive"
     /\ \/ worker[j] = "stage"
        \/ \E i \in StepIds : steps[j][i] = "stage"
        \/ InForeground(j) /\ worker[j] = "done"

\* No job is active for ever without such a reason: each recorded job ends in a terminal
\* status that lasts, by its worker or by a later session's sweep, even where a late
\* control command had made it active again (mark_stale_jobs, JobLifecycle).
EveryJobSettles == \A j \in Jobs : Recorded(j) ~> [](Terminal(j) \/ Busy(j))
=============================================================================
