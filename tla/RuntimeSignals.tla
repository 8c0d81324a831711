---------------------------- MODULE RuntimeSignals ----------------------------
(***************************************************************************)
(* Live control of the steps of a pipeline: the request events of          *)
(* plugins/runtime/control, their inbox in plugin/signals.py, and the      *)
(* commands on a step, a job or the pipeline (target_operations.py,        *)
(* job/control.py, pipeline/actions.py) down to the cancellations.         *)
(*                                                                         *)
(* The steps up to Split are those of the first job; the others belong to  *)
(* a job that is attached to the pipeline while it runs.  The steps of a   *)
(* job run one after the other in its process; those of a fan-out have     *)
(* processes of their own, which a kill or a pause of the job's process    *)
(* does not reach, and are not in this model.  A commandlet polls for      *)
(* requests of its own action ("prune") and for its cancellation, but not  *)
(* while it waits for an external program, and a process that is           *)
(* suspended does nothing.  What the commands write to the rows of jobs is *)
(* in JobLifecycle.                                                        *)
(***************************************************************************)
EXTENDS Integers, Sequences, FiniteSetsExt

CONSTANTS
  Last, Split,   \* the pipeline's steps are 1 .. Last, those of the first job 1 .. Split
  Limit,         \* signal events that an inbox reads at most
  MaxOrders, MaxFaults   \* bounds

ASSUME SplitAssumption == /\ Last \in Nat /\ Split \in 1 .. Last
                          /\ Limit \in Nat /\ MaxOrders \in Nat /\ MaxFaults \in Nat

VARIABLES
  requests,       \* the runtime.signal.requested events, in id order
  cancellations,  \* the scopes of the cancellation requests
  attached,       \* the second job is recorded
  process,        \* per job: its process
  step,           \* per step: where it is, its inbox and its answers
  order,          \* the operator's command
  orders,         \* commands so far
  promised,       \* steps that a command was to stop, once it has returned (history)
  faults

signalsVars == <<requests, cancellations, attached, process, step, order, orders, promised, faults>>

Steps == 1 .. Last
Jobs  == {2, 3}
JobOf(k) == IF k <= Split THEN 2 ELSE 3

\* Ids of steps, pipelines and jobs are numbers of one series each.
Scopes == [type : {"run"}, id : Steps] \union [type : {"job"}, id : Jobs]
            \union [type : {"pipeline"}, id : {1}]

\* A job of earlier in this database, with a request that is there for ever.
Earlier == [type |-> "job", id |-> 1]

\* "pause" is pause, "suspend" pause --hard and "resume" resume --hard; "cancel" also stands
\* for end, "kill" for end --hard and stop --hard, and "stop" for stop.
Verbs == {"signal", "pause", "suspend", "resume", "cancel", "stop", "kill"}

\* What a command asks for.  Nobody polls for the framework's own actions, and whom they
\* are for is left out.
RequestOf(verb, scope) ==
  IF verb = "signal" THEN [scope |-> scope, action |-> "prune"]
                     ELSE [scope |-> Earlier, action |-> "control"]

\* jobs: what is left to visit of the jobs that were listed.
Idle == [pc |-> "idle", verb |-> "signal", scope |-> [type |-> "pipeline", id |-> 1],
         listed |-> {}, jobs |-> {}]

Requests == [scope : Scopes \union {Earlier}, action : {"prune", "control"}]

\* Where a step is: "checked" is past its check of the cancellations, "blocked" in run.
Places == {"waiting", "checked", "running", "blocked", "ended"}
Alive  == {"running", "stopped"}

SignalsTypeOK ==
  /\ requests \in Seq(Requests)
  /\ cancellations \subseteq Scopes
  /\ attached \in BOOLEAN
  /\ process \in [Jobs -> {"running", "stopped", "over"}]
  /\ step \in [Steps -> [at : Places, cursor : 0 .. Len(requests),
                         inbox : SUBSET (1 .. Len(requests)), answers : Seq(1 .. Len(requests))]]
  /\ \A k \in Steps : \A i \in step[k].inbox : i > step[k].cursor
  /\ order \in [pc : {"idle", "mark", "list", "visit"}, verb : Verbs, scope : Scopes,
                listed : SUBSET Jobs, jobs : SUBSET Jobs]
  /\ orders \in 0 .. MaxOrders /\ faults \in 0 .. MaxFaults
  /\ promised \subseteq Steps

SignalsInit ==
  /\ requests = <<[scope |-> Earlier, action |-> "prune"]>>
  /\ cancellations = {}
  /\ attached = FALSE
  /\ process = [j \in Jobs |-> "running"]
  /\ step = [k \in Steps |-> [at |-> "waiting", cursor |-> 0, inbox |-> {}, answers |-> <<>>]]
  /\ order = Idle /\ orders = 0 /\ promised = {} /\ faults = 0

-----------------------------------------------------------------------------
Visible(j)  == j = 2 \/ attached
Running(k)  == step[k].at = "running" /\ process[JobOf(k)] = "running"
Held(k)     == step[k].at = "blocked" \/ process[JobOf(k)] = "stopped"
Going(k)    == step[k].at \in {"running", "blocked"} /\ process[JobOf(k)] \in Alive
StepsOf(j)  == {k \in Steps : JobOf(k) = j}
Fault       == faults < MaxFaults /\ faults' = faults + 1
storeVars   == <<requests, cancellations>>
orderVars   == <<order, orders, promised>>

\* cancellation_requested, for the job, the pipeline and the step of a context.
Cancelled(k) ==
  cancellations \intersect {[type |-> "job", id |-> JobOf(k)],
                            [type |-> "pipeline", id |-> 1],
                            [type |-> "run", id |-> k]} # {}

-----------------------------------------------------------------------------
(* The steps. *)

\* start_attached_pipeline: the job and its snapshots.
Attach ==
  /\ ~ attached /\ attached' = TRUE
  /\ UNCHANGED <<storeVars, process, step, orderVars, faults>>

Due(k) ==
  /\ step[k].at = "waiting" /\ Visible(JobOf(k)) /\ process[JobOf(k)] = "running"
  /\ \A n \in StepsOf(JobOf(k)) : n < k => step[n].at = "ended"

\* The process of the job leaves its pipeline: at its end, or because a stage raised.
Over(k) == process' = [process EXCEPT ![JobOf(k)] = "over"]

\* Mutant: a step starts without a look at the cancellations.
CheckSkipped(k) ==
  /\ Due(k)
  /\ step' = [step EXCEPT ![k].at = "checked"]
  /\ UNCHANGED <<storeVars, attached, process, orderVars, faults>>

\* raise_if_cancelled, before the stage starts and before its try.
CheckStep(k) ==
  /\ Due(k)
  /\ IF Cancelled(k) THEN Over(k) /\ UNCHANGED step
                     ELSE step' = [step EXCEPT ![k].at = "checked"] /\ UNCHANGED process
  /\ UNCHANGED <<storeVars, attached, orderVars, faults>>

\* Mutant: the inbox of a step begins with the newest request.
StartFromNewest(k) ==
  /\ step[k].at = "checked" /\ process[JobOf(k)] = "running"
  /\ step' = [step EXCEPT ![k].at = "running", ![k].cursor = Len(requests)]
  /\ UNCHANGED <<storeVars, attached, process, orderVars, faults>>

\* The stage starts, whatever has been recorded since its check.
StartStep(k) ==
  /\ step[k].at = "checked" /\ process[JobOf(k)] = "running"
  /\ step' = [step EXCEPT ![k].at = "running"]
  /\ UNCHANGED <<storeVars, attached, process, orderVars, faults>>

\* ContextProcess.run, which waits for an external program and may never return.
RunProgram(k) ==
  /\ Running(k)
  /\ step' = [step EXCEPT ![k].at = "blocked"]
  /\ UNCHANGED <<storeVars, attached, process, orderVars, faults>>

ProgramEnds(k) ==
  /\ step[k].at = "blocked" /\ process[JobOf(k)] = "running"
  /\ step' = [step EXCEPT ![k].at = "running"]
  /\ UNCHANGED <<storeVars, attached, process, orderVars, faults>>

\* Mutant: the id is compared, but not what it is the id of.
AppliesById(scope, k) == scope.id \in {k, JobOf(k)} \/ scope.type = "pipeline"

\* signal_applies_to_context.
Applies(scope, k) ==
  \/ scope.type = "run" /\ scope.id = k
  \/ scope.type = "pipeline"
  \/ scope.type = "job" /\ scope.id = JobOf(k)

\* The oldest signal events of the database, whomever they are for.
Window == 1 .. (IF Len(requests) <= Limit THEN Len(requests) ELSE Limit)

\* pending, called with the last request that was handled.
Pending(k) == {i \in Window : /\ i > step[k].cursor
                              /\ Applies(requests[i].scope, k) /\ requests[i].action = "prune"}

Poll(k) ==
  /\ Running(k) /\ step[k].inbox = {} /\ Pending(k) # {}
  /\ step' = [step EXCEPT ![k].inbox = Pending(k)]
  /\ UNCHANGED <<storeVars, attached, process, orderVars, faults>>

\* applied or ignored.
Respond(k) ==
  /\ Running(k) /\ step[k].inbox # {}
  /\ LET i == Min(step[k].inbox) IN
     step' = [step EXCEPT ![k].inbox = @ \ {i}, ![k].cursor = i, ![k].answers = Append(@, i)]
  /\ UNCHANGED <<storeVars, attached, process, orderVars, faults>>

\* The commandlet returns.
EndStep(k) ==
  /\ Running(k)
  /\ step' = [step EXCEPT ![k].at = "ended", ![k].inbox = {}]
  /\ IF k + 1 \in StepsOf(JobOf(k)) THEN UNCHANGED process ELSE Over(k)
  /\ UNCHANGED <<storeVars, attached, orderVars, faults>>

\* The commandlet finds itself cancelled: it raises, or returns as the watchdog does.
StopStep(k) ==
  /\ Running(k) /\ Cancelled(k)
  /\ step' = [step EXCEPT ![k].at = "ended", ![k].inbox = {}]
  /\ Over(k) \/ UNCHANGED process
  /\ UNCHANGED <<storeVars, attached, orderVars, faults>>

ProcessDies(j) ==
  /\ Visible(j) /\ process[j] \in Alive /\ Fault
  /\ process' = [process EXCEPT ![j] = "over"]
  /\ UNCHANGED <<storeVars, attached, step, orderVars>>

-----------------------------------------------------------------------------
(* The commands. *)

OrderTo(where) == order' = [order EXCEPT !.pc = where]

\* The target is resolved from a listing (signal takes no pipeline) and the request is
\* published, before anything is done about it.  cancel marks a step or the pipeline
\* before its jobs (the job of a step does not change, so cancel_run may list it first).
PublishRequest(verb, scope) ==
  /\ order.pc = "idle" /\ orders < MaxOrders
  /\ scope.type = "run" => Visible(JobOf(scope.id))
  /\ scope.type = "job" => Visible(scope.id)
  /\ verb = "signal" => scope.type # "pipeline"
  /\ requests' = Append(requests, RequestOf(verb, scope))
  /\ LET At(where) == order' = [Idle EXCEPT !.pc = where, !.verb = verb, !.scope = scope] IN
     \/ verb \in {"signal", "pause"} /\ UNCHANGED order
     \/ verb = "cancel" /\ scope.type # "job" /\ At("mark")
     \/ verb = "cancel" /\ scope.type = "job" /\ At("list")
     \/ verb \in {"suspend", "resume", "stop", "kill"} /\ At("list")
  /\ orders' = orders + 1
  /\ UNCHANGED <<cancellations, attached, process, step, promised, faults>>

MarkScope ==
  /\ order.pc = "mark"
  /\ cancellations' = cancellations \union {order.scope}
  /\ OrderTo("list")
  /\ UNCHANGED <<requests, attached, process, step, orders, promised, faults>>

\* What a target stands for: a step for itself, a job for its steps, the pipeline for all.
Covered(scope) ==
  CASE scope.type = "run" -> {scope.id} [] scope.type = "job" -> StepsOf(scope.id)
    [] OTHER -> Steps

\* require_job, jobs_for_run, jobs_for_pipeline.
ListJobs ==
  /\ order.pc = "list"
  /\ LET found == {j \in Jobs : Visible(j) /\ Covered(order.scope) \intersect StepsOf(j) # {}} IN
     order' = [order EXCEPT !.pc = "visit", !.listed = found, !.jobs = found]
  /\ UNCHANGED <<storeVars, attached, process, step, orders, promised, faults>>

Visited == [order EXCEPT !.jobs = @ \ {Min(order.jobs)}]

\* Mutant: the job is marked under the id that the operator gave.
CancelTarget ==
  /\ order.pc = "visit" /\ order.jobs # {} /\ order.verb \in {"cancel", "stop"}
  /\ cancellations' = cancellations \union {[type |-> "job", id |-> order.scope.id]}
  /\ order' = Visited
  /\ UNCHANGED <<requests, attached, process, step, orders, promised, faults>>

\* cancel_job.
CancelJob ==
  /\ order.pc = "visit" /\ order.jobs # {} /\ order.verb \in {"cancel", "stop"}
  /\ cancellations' = cancellations \union {[type |-> "job", id |-> Min(order.jobs)]}
  /\ order' = Visited
  /\ UNCHANGED <<requests, attached, process, step, orders, promised, faults>>

\* os.kill on the recorded pid.  A process that has ended takes the signal as long as it is
\* a zombie; once it is reaped the command raises, and the other jobs are not visited.
Signal(j, taken, after) ==
  \/ /\ process[j] \in Alive
     /\ process' = [process EXCEPT ![j] = IF @ \in taken THEN after ELSE @]
     /\ order' = Visited
  \/ /\ process[j] \notin Alive /\ UNCHANGED process
     /\ order' \in {Visited, Idle}

SignalJob(verb, taken, after) ==
  /\ order.pc = "visit" /\ order.jobs # {} /\ order.verb = verb
  /\ Signal(Min(order.jobs), taken, after)
  /\ UNCHANGED <<storeVars, attached, step, orders, promised, faults>>

\* kill_job, and signal_job_process of pause_job and resume_job.
KillJob    == SignalJob("kill", Alive, "over")
SuspendJob == SignalJob("suspend", {"running"}, "stopped")
ResumeJob  == SignalJob("resume", {"stopped"}, "running")

\* The command has returned.  After cancel, stop and kill the operator has read that the
\* target is stopped.
Return ==
  /\ order.pc = "visit" /\ order.jobs = {}
  /\ promised' = promised \union
       {k \in Covered(order.scope) :
          \/ order.verb = "cancel"
          \/ order.verb \in {"stop", "kill"} /\ JobOf(k) \in order.listed}
  /\ order' = Idle
  /\ UNCHANGED <<storeVars, attached, process, step, orders, faults>>

OperatorDies ==
  /\ order.pc # "idle" /\ Fault /\ order' = Idle
  /\ UNCHANGED <<storeVars, attached, process, step, orders, promised>>

RunStep(k) ==
  CheckStep(k) \/ StartStep(k) \/ Poll(k) \/ Respond(k) \/ RunProgram(k) \/ ProgramEnds(k)
    \/ StopStep(k)

Command == MarkScope \/ ListJobs \/ CancelJob \/ KillJob \/ SuspendJob \/ ResumeJob \/ Return

SignalsNext ==
  \/ Attach \/ Command \/ OperatorDies
  \/ \E k \in Steps : RunStep(k) \/ EndStep(k)
  \/ \E j \in Jobs : ProcessDies(j)
  \/ \E verb \in Verbs, scope \in Scopes : PublishRequest(verb, scope)

\* A commandlet that is neither suspended nor waiting for a program returns to its polls.
SignalsFairness == \A k \in Steps : WF_signalsVars(Poll(k) \/ Respond(k)) /\ WF_signalsVars(StopStep(k))

SignalsSpec == SignalsInit /\ [][SignalsNext]_signalsVars /\ SignalsFairness

-----------------------------------------------------------------------------
(* Properties. *)

Answered(k, i) == \E n \in DOMAIN step[k].answers : step[k].answers[n] = i

For(k, i) == /\ i \in DOMAIN requests
             /\ requests[i].action = "prune" /\ k \in Covered(requests[i].scope)

\* A commandlet answers only requests whose target it belongs to, in their order and
\* none of them twice, and of the first Limit requests of the database it passes over
\* none that concerns it (pending, applied, ignored).
AnswersAreScoped ==
  \A k \in Steps :
    /\ \A n \in DOMAIN step[k].answers :
         /\ k \in Covered(requests[step[k].answers[n]].scope)
         /\ \A m \in 1 .. n - 1 : step[k].answers[m] < step[k].answers[n]
    /\ \A i \in 1 .. Limit : For(k, i) /\ i <= step[k].cursor => Answered(k, i)

Unanswered(k) == {i \in 1 .. Limit : For(k, i) /\ ~ Answered(k, i)}

\* Those of the first Limit requests of the database that concern a running step are all
\* answered by it, unless the step ends, is suspended or waits for a program; when it goes
\* on after that, the same holds again.
RequestsAreAnswered ==
  \A k \in Steps : Running(k) ~> Unanswered(k) = {} \/ ~ Going(k) \/ Held(k)

\* A command that has returned has left what stops its steps: each is cancelled, or its
\* process has ended, whichever jobs were attached, suspended, ended or died while it ran.
OrdersAreRecorded ==
  \A k \in promised : Cancelled(k) \/ process[JobOf(k)] \notin Alive

\* Once the command has returned, no step that it was for passes its check any more: not
\* the next one of a pipeline whose stage goes on, and not one whose job is attached or
\* resumed later.  The step of a job that had passed its check before, and was not yet
\* running, may still start.
BoundStepsNeverStart ==
  [][\A k \in promised : step[k].at = "waiting" => step'[k].at = "waiting"]_signalsVars

\* When a command has returned that cancels, stops or kills a step, the step ends for good,
\* or never starts, whatever it polls, and also if its job is attached to a cancelled
\* pipeline later; but for a step that is suspended or waits for a program again and again
\* or for ever.  stop and kill promise this for the jobs that they listed.
OrdersStopSteps ==
  \A k \in Steps : (k \in promised /\ [] ~ Held(k)) ~> [] ~ Going(k)
=============================================================================
