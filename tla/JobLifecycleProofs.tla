------------------------ MODULE JobLifecycleProofs ------------------------
(***************************************************************************)
(* Proofs about JobLifecycle, for any number of jobs, operators, commands, *)
(* faults and stages.                                                      *)
(***************************************************************************)
EXTENDS JobLifecycle, TLAPS

-----------------------------------------------------------------------------
(* Types. *)

(* The three ways a statement changes a row keep it a row. *)
LEMMA RowStatus ==
  ASSUME row \in Rows, NEW j \in Jobs, NEW s \in Statuses, SetStatus(j, s)
  PROVE  row' \in Rows
BY DEF Rows, SetStatus

LEMMA RowPid ==
  ASSUME row \in Rows, NEW j \in Jobs, row' = [row EXCEPT ![j].pid = TRUE]
  PROVE  row' \in Rows
BY DEF Rows

LEMMA RowBoth ==
  ASSUME row \in Rows, NEW j \in Jobs, NEW s \in Statuses, NEW b \in BOOLEAN,
         row' = [row EXCEPT ![j] = [status |-> s, pid |-> b]]
  PROVE  row' \in Rows
BY DEF Rows

(* The statuses the code writes are statuses. *)
LEMMA StatusNames ==
  /\ {"queued", "claimed", "running", "finished", "failed", "killed", "missing",
      "stale", "cancelled", "cancelling"} \subseteq Statuses
  /\ \A verb \in Verbs : Mark(verb) \in Statuses
  /\ \A verb \in Verbs : Announced(verb) \subseteq Topics
BY DEF Statuses, ActiveStatus, TerminalStatus, Mark, Announced, Verbs, Topics, ControlTopics

(* One more fault stays within the bound. *)
LEMMA FaultTyped ==
  ASSUME TypeOK, Fault
  PROVE  faults' \in 0 .. MaxFaults
BY JobsAssumption DEF TypeOK, Fault, JobsAssumption

(* Every variable starts with its type. *)
LEMMA InitTyped == Init => TypeOK
BY JobsAssumption
DEF JobsAssumption, Init, TypeOK, NoCommand, Command, Rows, Statuses, SubmitterState, WorkerState,
    ProcState, OperatorState, Verbs, StepState

(* Moving one step process keeps the types, and moves nothing else. *)
LEMMA StepsMove ==
  ASSUME TypeOK, NEW j \in Jobs, NEW i \in StepIds, NEW s \in StepState,
         steps' = [steps EXCEPT ![j][i] = s]
  PROVE  /\ steps' \in [Jobs -> [StepIds -> StepState]]
         /\ steps'[j][i] = s
         /\ \A k \in StepIds \ {i} : steps'[j][k] = steps[j][k]
         /\ \A k \in Jobs \ {j} : steps'[k] = steps[k]
BY DEF TypeOK

\* What a step process does of itself: it passes its check, begins its stage, or is over.
StepMoves(j, i, s) ==
  \/ /\ steps[j][i] = "boot" /\ s = "checked"
     /\ ~ CancellationRequested(j) /\ UNCHANGED cancels
  \/ steps[j][i] = "checked" /\ s = "stage" /\ UNCHANGED cancels
  \/ steps[j][i] \in {"boot", "checked", "stage"} /\ s = "over"

(* A step process moves itself, may ask for the cancellation of the pipeline, and     *)
(* touches nothing else.                                                              *)
LEMMA StepChanges ==
  ASSUME TypeOK, NEW j \in Jobs, Step(j)
  PROVE  /\ UNCHANGED <<row, ledger, submitterVars, worker, stages, lateStages, proc,
                        operatorVars, sweep>>
         /\ cancels' = cancels \/ cancels' = cancels \union {Pipeline}
         /\ \E i \in StepIds, s \in StepState :
              StepMoves(j, i, s) /\ steps' = [steps EXCEPT ![j][i] = s]
         /\ faults' \in 0 .. MaxFaults
<1>1. ASSUME NEW i \in StepIds,
             CheckStep(j, i) \/ BeginStep(j, i) \/ EndStep(j, i) \/ StepDies(j, i)
      PROVE  /\ UNCHANGED <<row, ledger, submitterVars, worker, stages, lateStages, proc,
                            operatorVars, sweep>>
             /\ cancels' = cancels \/ cancels' = cancels \union {Pipeline}
             /\ \E s \in StepState : StepMoves(j, i, s) /\ steps' = [steps EXCEPT ![j][i] = s]
             /\ faults' \in 0 .. MaxFaults
  <2> USE DEF StepTo, StepMoves, StepState, TypeOK
  <2>1. CASE CheckStep(j, i)  BY <2>1 DEF CheckStep
  <2>2. CASE BeginStep(j, i)  BY <2>2 DEF BeginStep
  <2>3. CASE EndStep(j, i)    BY <2>3 DEF EndStep
  <2>4. CASE StepDies(j, i)   BY <2>4, FaultTyped DEF StepDies
  <2>5. QED BY <1>1, <2>1, <2>2, <2>3, <2>4
<1>2. QED BY <1>1 DEF Step, StepProceeds

(* The steps of a job that has not fanned out, and steps that are over, stay so. *)
LEMMA StepsLeft ==
  ASSUME TypeOK, NEW j \in Jobs, Step(j), NEW k \in Jobs
  PROVE  /\ NoSteps(k)' <=> NoSteps(k)
         /\ StepsQuiet(k) => steps'[k] = steps[k]
<1>1. PICK i \in StepIds, s \in StepState :
        StepMoves(j, i, s) /\ steps' = [steps EXCEPT ![j][i] = s]
  BY StepChanges
<1>2. steps[j][i] \notin {"none", "over"} /\ s # "none"
  BY <1>1 DEF StepMoves
<1>3. QED BY <1>1, <1>2, StepsMove DEF NoSteps, StepsQuiet

LEMMA StepTyped ==
  ASSUME TypeOK, NEW j \in Jobs, Step(j)
  PROVE  TypeOK'
<1>1. steps' \in [Jobs -> [StepIds -> StepState]]
  BY StepChanges, StepsMove
<1>2. QED BY <1>1, StepChanges DEF TypeOK, submitterVars, operatorVars

(* The submitting session's steps keep the types. *)
LEMMA SubmitTyped ==
  ASSUME TypeOK, NEW j \in Jobs,
         Submit(j) \/ SessionCrash(j) \/ ReapWorker(j)
  PROVE  TypeOK'
<1> USE DEF TypeOK, submitterVars, workerVars, operatorVars, SubmitterState,
            WorkerState, ProcState, Topics, Publish
<1>1. CASE RecordJob(j)
  <2>1. row' \in Rows
    BY <1>1, RowBoth, StatusNames DEF RecordJob
  <2>2. QED BY <1>1, <2>1 DEF RecordJob
<1>2. CASE PublishRequested(j)   BY <1>2 DEF PublishRequested
<1>3. CASE SnapshotVariables(j)  BY <1>3 DEF SnapshotVariables
<1>4. CASE SpawnWorker(j)        BY <1>4 DEF SpawnWorker
<1>5. CASE UpdateJobPid(j)       BY <1>5, RowPid DEF UpdateJobPid
<1>6. CASE SessionCrash(j)       BY <1>6, FaultTyped DEF SessionCrash
<1>7. CASE ReapWorker(j)         BY <1>7 DEF ReapWorker
<1>8. QED BY <1>1, <1>2, <1>3, <1>4, <1>5, <1>6, <1>7 DEF Submit

(* A worker's place and a published topic keep their types. *)
LEMMA WorkerMoves ==
  ASSUME TypeOK, NEW j \in Jobs, NEW s \in WorkerState, WorkerTo(j, s)
  PROVE  worker' \in [Jobs -> WorkerState]
BY DEF TypeOK, WorkerTo

LEMMA PublishTyped ==
  ASSUME TypeOK, NEW j \in Jobs, NEW t \in Topics, Publish(j, t)
  PROVE  ledger' \in [Jobs -> SUBSET Topics]
BY DEF TypeOK, Publish

(* The worker's steps keep the types. *)
LEMMA WorkTyped ==
  ASSUME TypeOK, NEW j \in Jobs, Work(j) \/ WorkerCrash(j)
  PROVE  TypeOK'
<1>a. /\ {"claimed", "denied", "starting", "started", "between", "checked", "stage", "spawning",
          "failing", "failedPublished", "finishing", "finishedPublished", "exit", "done"}
            \subseteq WorkerState
      /\ {"job.claimed", "job.claim.denied", "job.started", "job.failed", "job.finished"}
            \subseteq Topics
  BY DEF WorkerState, Topics, OutcomeTopics
<1> USE DEF TypeOK, submitterVars, workerVars, operatorVars
<1>1. CASE ClaimJob(j)
  <2>1. row' \in Rows
    BY <1>1, RowBoth, StatusNames DEF ClaimJob
  <2>2. worker' \in [Jobs -> WorkerState]
    BY <1>1, <1>a, WorkerMoves DEF ClaimJob
  <2>3. QED BY <1>1, <2>1, <2>2 DEF ClaimJob
<1>2. CASE PublishClaim(j)
  <2>1. worker' \in [Jobs -> WorkerState] /\ ledger' \in [Jobs -> SUBSET Topics]
    BY <1>2, <1>a, WorkerMoves, PublishTyped DEF PublishClaim
  <2>2. QED BY <1>2, <2>1 DEF PublishClaim
<1>3. CASE ClaimRaises(j)
  <2>1. worker' \in [Jobs -> WorkerState]
    BY <1>3, <1>a, WorkerMoves DEF ClaimRaises
  <2>2. QED BY <1>3, <2>1, FaultTyped DEF ClaimRaises
<1>4. CASE StartJob(j)
  <2>1. row' \in Rows
    BY <1>4, RowStatus, StatusNames DEF StartJob
  <2>2. worker' \in [Jobs -> WorkerState] /\ ledger' \in [Jobs -> SUBSET Topics]
    BY <1>4, <1>a, WorkerMoves, PublishTyped DEF StartJob
  <2>3. QED BY <1>4, <2>1, <2>2 DEF StartJob
<1>5. CASE StartRaises(j)
  <2>1. worker' \in [Jobs -> WorkerState]
    BY <1>5, <1>a, WorkerMoves DEF StartRaises
  <2>2. QED BY <1>5, <2>1, FaultTyped DEF StartRaises
<1>6. CASE CheckCancelled(j)
  <2>1. worker' \in [Jobs -> WorkerState]
    BY <1>6, <1>a, WorkerMoves DEF CheckCancelled
  <2>2. QED BY <1>6, <2>1 DEF CheckCancelled
<1>7. CASE BeginStage(j)
  <2>1. stages[j] + 1 \in Nat /\ lateStages[j] + 1 \in Nat
    OBVIOUS
  <2>2. stages' \in [Jobs -> Nat] /\ lateStages' \in [Jobs -> Nat]
    BY <2>1, <1>7 DEF BeginStage
  <2>3. worker' \in [Jobs -> WorkerState]
    BY <1>7, <1>a, WorkerMoves DEF BeginStage
  <2>4. QED BY <2>2, <2>3, <1>7 DEF BeginStage
<1>8. CASE EndStage(j)
  <2>1. worker' \in [Jobs -> WorkerState]
    BY <1>8, <1>a, WorkerMoves DEF EndStage
  <2>2. QED BY <1>8, <2>1 DEF EndStage
<1>9. CASE RunRaises(j) \/ Interrupt(j)
  <2>1. worker' \in [Jobs -> WorkerState]
    BY <1>9, <1>a, WorkerMoves DEF RunRaises, Interrupt
  <2>2. QED BY <1>9, <2>1, FaultTyped DEF RunRaises, Interrupt
<1>10. CASE RunReturns(j) \/ FanOut(j) \/ JoinSteps(j)
  <2>1. worker' \in [Jobs -> WorkerState]
    BY <1>10, <1>a, WorkerMoves DEF RunReturns, FanOut, JoinSteps
  <2>2. QED BY <1>10, <2>1 DEF RunReturns, FanOut, JoinSteps
<1>11. CASE FailJob(j)
  <2>1. row' \in Rows
    BY <1>11, RowStatus, StatusNames DEF FailJob
  <2>2. worker' \in [Jobs -> WorkerState] /\ ledger' \in [Jobs -> SUBSET Topics]
    BY <1>11, <1>a, WorkerMoves, PublishTyped DEF FailJob
  <2>3. QED BY <1>11, <2>1, <2>2 DEF FailJob
<1>12. CASE FinishJob(j)
  <2>1. row' \in Rows
    BY <1>12, RowStatus, StatusNames DEF FinishJob
  <2>2. worker' \in [Jobs -> WorkerState] /\ ledger' \in [Jobs -> SUBSET Topics]
    BY <1>12, <1>a, WorkerMoves, PublishTyped DEF FinishJob
  <2>3. QED BY <1>12, <2>1, <2>2 DEF FinishJob
<1>13. CASE ExitWorker(j)
  <2>1. worker' \in [Jobs -> WorkerState]
    BY <1>13, <1>a, WorkerMoves DEF ExitWorker
  <2>2. proc' \in [Jobs -> ProcState]
    BY <1>13 DEF ExitWorker, Ended, ProcState
  <2>3. QED BY <1>13, <2>1, <2>2 DEF ExitWorker
<1>14. CASE WorkerCrash(j)
  <2>1. proc' \in [Jobs -> ProcState] /\ worker' \in [Jobs -> WorkerState]
    BY <1>14 DEF WorkerCrash, Sigkill, Ended, ProcState, WorkerState
  <2>2. QED BY <1>14, <2>1, FaultTyped DEF WorkerCrash
<1>15. ASSUME NEW i \in StepIds, SpawnStep(j, i) PROVE TypeOK'
  <2>1. steps' \in [Jobs -> [StepIds -> StepState]]
    BY <1>15, StepsMove DEF SpawnStep, StepState
  <2>2. QED BY <1>15, <2>1 DEF SpawnStep
<1>16. QED
  BY <1>1, <1>2, <1>3, <1>4, <1>5, <1>6, <1>7, <1>8, <1>9, <1>10, <1>11, <1>12,
     <1>13, <1>14, <1>15 DEF Work, Proceed

(* The ways an operator's program counter moves keep it a command. *)
LEMMA OpTyped ==
  ASSUME TypeOK, NEW o \in Operators,
         \/ \E pc \in OperatorState : OpTo(o, pc)
         \/ \E j \in Jobs : NextTarget(o, j)
         \/ Abandon(o)
  PROVE  op' \in [Operators -> Command]
<1>1. op \in [Operators -> Command]
  BY DEF TypeOK
<1>2. NoCommand \in Command
  BY DEF NoCommand, Command, OperatorState, Verbs
<1>3. CASE \E pc \in OperatorState : OpTo(o, pc)
  BY <1>1, <1>3 DEF OpTo, Command
<1>4. ASSUME NEW j \in Jobs, NextTarget(o, j)
      PROVE  op' \in [Operators -> Command]
  <2>1. Entry(op[o].verb) \in OperatorState
    BY DEF Entry, OperatorState
  <2>2. [op[o] EXCEPT !.todo = @ \ {j}, !.pc = Entry(op[o].verb)] \in Command
    BY <1>1, <2>1 DEF Command
  <2>3. QED BY <1>1, <1>2, <1>4, <2>2 DEF NextTarget
<1>5. CASE Abandon(o)
  BY <1>1, <1>2, <1>5 DEF Abandon
<1>6. QED BY <1>3, <1>4, <1>5

(* A new command is a command. *)
LEMMA GiveTyped ==
  ASSUME TypeOK, NEW o \in Operators, NEW verb \in Verbs, NEW targets \in SUBSET Jobs,
         NEW pc \in OperatorState, Give(o, verb, targets, pc)
  PROVE  TypeOK'
<1>1. [pc |-> pc, verb |-> verb, todo |-> targets,
       pids |-> {k \in targets : row[k].pid}] \in Command
  BY DEF Command
<1>2. op' \in [Operators -> Command]
  BY <1>1 DEF Give, TypeOK
<1>3. commands' \in 0 .. MaxCommands
  BY JobsAssumption DEF Give, TypeOK, JobsAssumption
<1>4. QED BY <1>2, <1>3 DEF Give, TypeOK, submitterVars, workerVars

(* Killing a process keeps the types. *)
LEMMA SigkillTyped ==
  ASSUME TypeOK, NEW j \in Jobs, Sigkill(j)
  PROVE  /\ proc' \in [Jobs -> ProcState]
         /\ worker' \in [Jobs -> WorkerState]
BY DEF TypeOK, Sigkill, Ended, ProcState, WorkerState

(* The operators' steps keep the types. *)
LEMMA ControlTyped ==
  ASSUME TypeOK, NEW o \in Operators,
         \/ Order(o) \/ Control(o) \/ OperatorCrash(o)
         \/ \E j \in Jobs : CommandShutdown(o, j)
  PROVE  TypeOK'
<1> USE DEF submitterVars, workerVars, operatorVars
<1>a. {"idle", "scope", "announce", "act", "mark", "wait", "force", "missing"} \subseteq OperatorState
  BY DEF OperatorState
<1>b. \A verb \in Verbs : Entry(verb) \in OperatorState
  BY DEF Entry, OperatorState
<1>1. ASSUME NEW verb \in Verbs, NEW j \in Jobs, CommandJob(o, verb, j)
      PROVE  TypeOK'
  <2>1. {j} \in SUBSET Jobs
    OBVIOUS
  <2>2. QED BY <1>1, <1>b, <2>1, GiveTyped DEF CommandJob
<1>2. ASSUME NEW verb \in Verbs, CommandPipeline(o, verb)
      PROVE  TypeOK'
  <2>1. associated \in SUBSET Jobs
    BY DEF TypeOK
  <2>2. (IF verb = "cancel" THEN "scope" ELSE Entry(verb)) \in OperatorState
    BY <1>a, <1>b
  <2>3. QED BY <1>2, <2>1, <2>2, GiveTyped DEF CommandPipeline
<1>3. ASSUME NEW j \in Jobs, CommandShutdown(o, j)
      PROVE  TypeOK'
  <2>1. "shutdown" \in Verbs /\ {j} \in SUBSET Jobs
    BY DEF Verbs
  <2>2. QED BY <1>3, <1>a, <2>1, GiveTyped DEF CommandShutdown
<1>4. CASE CancelScope(o)
  BY <1>4, <1>a, OpTyped DEF CancelScope, TypeOK, Pipeline
<1>5. CASE OperatorCrash(o)
  <2>1. op' \in [Operators -> Command]
    BY <1>5, <1>a DEF OperatorCrash, Abandon, TypeOK, NoCommand, Command, Verbs
  <2>2. QED BY <1>5, <2>1, FaultTyped DEF OperatorCrash, TypeOK
<1>6. ASSUME NEW j \in Jobs, Announce(o, j)
      PROVE  TypeOK'
  <2>1. op' \in [Operators -> Command]
    BY <1>6, <1>a, OpTyped DEF Announce
  <2>2. Announced(op[o].verb) \subseteq Topics
    BY StatusNames DEF TypeOK, Command
  <2>3. ledger' \in [Jobs -> SUBSET Topics]
    BY <1>6, <2>2 DEF Announce, TypeOK
  <2>4. QED BY <1>6, <2>1, <2>3 DEF Announce, TypeOK
<1>7. ASSUME NEW j \in Jobs, ActCancel(o, j)
      PROVE  TypeOK'
  BY <1>7, <1>a, OpTyped DEF ActCancel, TypeOK
<1>8. ASSUME NEW j \in Jobs, ActSignal(o, j)
      PROVE  TypeOK'
  <2>1. op' \in [Operators -> Command]
    BY <1>8, <1>a, OpTyped DEF ActSignal, Undelivered
  <2>2. proc' \in [Jobs -> ProcState] /\ worker' \in [Jobs -> WorkerState]
    BY <1>8, SigkillTyped DEF ActSignal, TypeOK, ProcState
  <2>3. QED BY <1>8, <2>1, <2>2 DEF ActSignal, Undelivered, TypeOK
<1>9. ASSUME NEW j \in Jobs, WriteMissing(o, j)
      PROVE  TypeOK'
  <2>1. row' \in Rows
    BY <1>9, RowStatus, StatusNames DEF WriteMissing, TypeOK
  <2>2. QED BY <1>9, <2>1, OpTyped DEF WriteMissing, TypeOK
<1>10. ASSUME NEW j \in Jobs, WriteMark(o, j)
       PROVE  TypeOK'
  <2>1. op[o].verb \in Verbs
    BY DEF TypeOK, Command
  <2>2. row' \in Rows
    BY <1>10, <2>1, RowStatus, StatusNames DEF WriteMark, TypeOK
  <2>3. op' \in [Operators -> Command]
    BY <1>10, <1>a, OpTyped DEF WriteMark
  <2>4. QED BY <1>10, <2>2, <2>3 DEF WriteMark, TypeOK
<1>11. ASSUME NEW j \in Jobs, ServiceGone(o, j)
       PROVE  TypeOK'
  <2>1. row' \in Rows
    BY <1>11, RowStatus, StatusNames DEF ServiceGone, TypeOK
  <2>2. QED BY <1>11, <2>1, OpTyped DEF ServiceGone, TypeOK
<1>12. ASSUME NEW j \in Jobs, ServiceTimeout(o, j)
       PROVE  TypeOK'
  BY <1>12, <1>a, OpTyped, SigkillTyped DEF ServiceTimeout, TypeOK
<1>13. ASSUME NEW j \in Jobs, WriteForced(o, j)
       PROVE  TypeOK'
  <2>1. row' \in Rows
    BY <1>13, RowStatus, StatusNames DEF WriteForced, TypeOK
  <2>2. QED BY <1>13, <2>1, OpTyped DEF WriteForced, TypeOK
<1>14. QED
  BY <1>1, <1>2, <1>3, <1>4, <1>5, <1>6, <1>7, <1>8, <1>9, <1>10, <1>11, <1>12, <1>13,
     VerbsAssumption
  DEF VerbsAssumption, Order, Control, Visit

(* The sweep's steps keep the types. *)
LEMMA SweepTyped ==
  ASSUME TypeOK, Sweep
  PROVE  TypeOK'
<1> USE DEF submitterVars, workerVars, operatorVars
<1>1. CASE SweepSelect
  BY <1>1 DEF SweepSelect, TypeOK
<1>2. ASSUME NEW j \in Jobs, SweepProbe(j)
      PROVE  TypeOK'
  BY <1>2 DEF SweepProbe, TypeOK
<1>3. ASSUME NEW j \in Jobs, SweepWrite(j)
      PROVE  TypeOK'
  <2>1. row' \in Rows
    BY <1>3, RowStatus, StatusNames DEF SweepWrite, TypeOK
  <2>2. QED BY <1>3, <2>1 DEF SweepWrite, TypeOK
<1>4. QED BY <1>1, <1>2, <1>3 DEF Sweep

LEMMA NextTyped ==
  ASSUME TypeOK, [Next]_vars
  PROVE  TypeOK'
<1>1. CASE UNCHANGED vars
  BY <1>1 DEF vars, TypeOK, submitterVars, workerVars, operatorVars
<1>2. CASE Next
  BY <1>2, SubmitTyped, WorkTyped, StepTyped, ControlTyped, SweepTyped DEF Next
<1>3. QED BY <1>1, <1>2

(* TypeOK: every variable keeps its type, whatever the processes do. *)
THEOREM Typed == Spec => []TypeOK
<1>1. TypeOK /\ [Next]_vars => TypeOK'
  BY NextTyped
<1>2. QED BY <1>1, InitTyped, PTL DEF Spec

-----------------------------------------------------------------------------
(* What a statement does to the statuses. *)

LEMMA StatusSet ==
  ASSUME row \in Rows, NEW j \in Jobs, NEW s, SetStatus(j, s), NEW k \in Jobs
  PROVE  row'[k].status = IF k = j THEN s ELSE row[k].status
BY DEF Rows, SetStatus

LEMMA StatusBoth ==
  ASSUME row \in Rows, NEW j \in Jobs, NEW s, NEW b,
         row' = [row EXCEPT ![j] = [status |-> s, pid |-> b]], NEW k \in Jobs
  PROVE  row'[k].status = IF k = j THEN s ELSE row[k].status
BY DEF Rows

LEMMA StatusPid ==
  ASSUME row \in Rows, NEW j \in Jobs, row' = [row EXCEPT ![j].pid = TRUE], NEW k \in Jobs
  PROVE  row'[k].status = row[k].status
BY DEF Rows

(* No control command writes finished or failed. *)
LEMMA MarkIsControl ==
  ASSUME NEW verb \in Verbs
  PROVE  /\ Mark(verb) \notin {"none", "finished", "failed", "queued"}
         /\ Mark(verb) = "killed" => verb \in {"kill", "stopHard"}
BY DEF Mark, Verbs

-----------------------------------------------------------------------------
(* Evidence before status. *)

\* The worker that is about to write an outcome has published it.
Published ==
  \A j \in Jobs : /\ worker[j] = "finishedPublished" => "job.finished" \in ledger[j]
                  /\ worker[j] = "failedPublished" => "job.failed" \in ledger[j]

Evidence == TypeOK /\ OutcomeHasEvidence /\ Published

(* What every step leaves of the evidence: topics are never withdrawn, a worker comes *)
(* to write an outcome by publishing it, and nobody else writes one.                  *)
EvidenceKept ==
  \A j \in Jobs :
    /\ ledger[j] \subseteq ledger'[j]
    /\ worker'[j] = "finishedPublished" =>
         worker[j] = "finishedPublished" \/ "job.finished" \in ledger'[j]
    /\ worker'[j] = "failedPublished" =>
         worker[j] = "failedPublished" \/ "job.failed" \in ledger'[j]
    /\ row'[j].status = "finished" =>
         row[j].status = "finished" \/ worker[j] = "finishedPublished"
    /\ row'[j].status = "failed" =>
         row[j].status = "failed" \/ worker[j] = "failedPublished"

LEMMA SubmitEvidence ==
  ASSUME TypeOK, NEW j \in Jobs, Submit(j) \/ SessionCrash(j) \/ ReapWorker(j)
  PROVE  EvidenceKept
<1> USE DEF EvidenceKept, TypeOK, submitterVars, workerVars, Publish
<1>1. CASE RecordJob(j)
  <2>1. PICK b \in BOOLEAN : row' = [row EXCEPT ![j] = [status |-> "queued", pid |-> b]]
    BY <1>1 DEF RecordJob
  <2>2. \A k \in Jobs : row'[k].status = IF k = j THEN "queued" ELSE row[k].status
    BY <2>1, StatusBoth
  <2>3. QED BY <1>1, <2>2 DEF RecordJob
<1>2. CASE PublishRequested(j)
  BY <1>2 DEF PublishRequested
<1>3. CASE SpawnWorker(j)
  BY <1>3 DEF SpawnWorker
<1>4. CASE UpdateJobPid(j)
  BY <1>4, StatusPid DEF UpdateJobPid
<1>5. CASE SnapshotVariables(j) \/ SessionCrash(j) \/ ReapWorker(j)
  BY <1>5 DEF SnapshotVariables, SessionCrash, ReapWorker
<1>6. QED BY <1>1, <1>2, <1>3, <1>4, <1>5 DEF Submit

LEMMA WorkEvidence ==
  ASSUME TypeOK, NEW j \in Jobs, Work(j) \/ WorkerCrash(j)
  PROVE  EvidenceKept
<1> USE DEF EvidenceKept, TypeOK, submitterVars, workerVars, Publish, WorkerTo, WorkerAt
<1>1. CASE ClaimJob(j)
  <2>a. row' = row \/ row' = [row EXCEPT ![j] = [status |-> "claimed", pid |-> TRUE]]
    BY <1>1 DEF ClaimJob
  <2>1. \A k \in Jobs : row'[k].status \in {row[k].status, "claimed"}
    <3>1. CASE row' = row
      BY <3>1
    <3>2. CASE row' = [row EXCEPT ![j] = [status |-> "claimed", pid |-> TRUE]]
      <4>1. \A k \in Jobs : row'[k].status = IF k = j THEN "claimed" ELSE row[k].status
        BY <3>2, StatusBoth
      <4>2. QED BY <4>1
    <3>3. QED BY <2>a, <3>1, <3>2
  <2>2. \A k \in Jobs : worker'[k] \in {worker[k], "claimed", "denied"}
    BY <1>1 DEF ClaimJob
  <2>3. QED BY <1>1, <2>1, <2>2 DEF ClaimJob
<1>2. CASE PublishClaim(j)
  BY <1>2 DEF PublishClaim
<1>3. CASE StartJob(j)
  BY <1>3, StatusSet DEF StartJob
<1>4. CASE FailJob(j)
  BY <1>4, StatusSet DEF FailJob
<1>5. CASE FinishJob(j)
  BY <1>5, StatusSet DEF FinishJob
<1>6. CASE ClaimRaises(j) \/ StartRaises(j) \/ CheckCancelled(j) \/ BeginStage(j)
  BY <1>6 DEF ClaimRaises, StartRaises, CheckCancelled, BeginStage
<1>7. CASE EndStage(j) \/ RunRaises(j) \/ RunReturns(j) \/ ExitWorker(j)
  BY <1>7 DEF EndStage, RunRaises, RunReturns, ExitWorker
<1>8. CASE WorkerCrash(j)
  BY <1>8 DEF WorkerCrash, Sigkill
<1>9. CASE FanOut(j) \/ JoinSteps(j) \/ Interrupt(j) \/ \E i \in StepIds : SpawnStep(j, i)
  BY <1>9 DEF FanOut, JoinSteps, Interrupt, SpawnStep
<1>10. QED
  BY <1>1, <1>2, <1>3, <1>4, <1>5, <1>6, <1>7, <1>8, <1>9 DEF Work, Proceed

LEMMA ControlEvidence ==
  ASSUME TypeOK, NEW o \in Operators,
         \/ Order(o) \/ Control(o) \/ OperatorCrash(o)
         \/ \E j \in Jobs : CommandShutdown(o, j)
  PROVE  EvidenceKept
<1> USE DEF EvidenceKept, TypeOK, submitterVars, workerVars
<1>1. CASE Order(o) \/ \E j \in Jobs : CommandShutdown(o, j)
  BY <1>1 DEF Order, CommandJob, CommandPipeline, CommandShutdown, Give
<1>2. CASE CancelScope(o) \/ OperatorCrash(o)
  BY <1>2 DEF CancelScope, OperatorCrash
<1>3. ASSUME NEW j \in Jobs, Announce(o, j) \/ ActCancel(o, j)
      PROVE  EvidenceKept
  BY <1>3 DEF Announce, ActCancel
<1>4. ASSUME NEW j \in Jobs, ActSignal(o, j) \/ ServiceTimeout(o, j)
      PROVE  EvidenceKept
  BY <1>4 DEF ActSignal, ServiceTimeout, Sigkill
<1>5. ASSUME NEW j \in Jobs, NEW s \in Statuses, SetStatus(j, s), UNCHANGED <<ledger, worker>>,
             s \notin {"finished", "failed"}
      PROVE  EvidenceKept
  BY <1>5, StatusSet
<1>6. ASSUME NEW j \in Jobs, WriteMissing(o, j) \/ ServiceGone(o, j) \/ WriteForced(o, j)
      PROVE  EvidenceKept
  BY <1>5, <1>6, StatusNames DEF WriteMissing, ServiceGone, WriteForced
<1>7. ASSUME NEW j \in Jobs, WriteMark(o, j)
      PROVE  EvidenceKept
  <2>1. op[o].verb \in Verbs
    BY DEF Command
  <2>2. QED BY <1>5, <1>7, <2>1, StatusNames, MarkIsControl DEF WriteMark
<1>8. QED
  BY <1>1, <1>2, <1>3, <1>4, <1>6, <1>7 DEF Control, Visit

LEMMA SweepEvidence ==
  ASSUME TypeOK, Sweep
  PROVE  EvidenceKept
<1> USE DEF EvidenceKept, TypeOK, submitterVars, workerVars
<1>1. ASSUME NEW j \in Jobs, SweepWrite(j)
      PROVE  EvidenceKept
  BY <1>1, StatusSet DEF SweepWrite
<1>2. QED BY <1>1 DEF Sweep, SweepSelect, SweepProbe

(* OutcomeHasEvidence: a row that says finished or failed has the event that says so. *)
THEOREM OutcomesHaveEvidence == Spec => []OutcomeHasEvidence
<1>1. Init => Evidence
  BY InitTyped DEF Init, Evidence, OutcomeHasEvidence, Published
<1>2. Evidence /\ [Next]_vars => Evidence'
  <2> SUFFICES ASSUME Evidence, [Next]_vars PROVE Evidence'
    OBVIOUS
  <2>1. TypeOK'
    BY NextTyped DEF Evidence
  <2>2. EvidenceKept
    <3>1. CASE UNCHANGED vars
      BY <3>1 DEF vars, workerVars, EvidenceKept
    <3>2. ASSUME NEW j \in Jobs, Step(j) PROVE EvidenceKept
      BY <3>2, StepChanges DEF Evidence, EvidenceKept
    <3>3. CASE Next
      BY <3>2, <3>3, SubmitEvidence, WorkEvidence, ControlEvidence, SweepEvidence
      DEF Next, Evidence
    <3>4. QED BY <3>1, <3>3
  <2>3. QED BY <2>1, <2>2 DEF Evidence, EvidenceKept, OutcomeHasEvidence, Published
<1>3. Evidence => OutcomeHasEvidence
  BY DEF Evidence
<1>4. QED BY <1>1, <1>2, <1>3, PTL DEF Spec

-----------------------------------------------------------------------------
(* Cancellation is durable. *)

\* A stage that began late was the last one.
LateStageIsLast ==
  \A j \in Jobs : /\ lateStages[j] <= 1
                  /\ lateStages[j] > 0 => CancellationRequested(j) /\ worker[j] # "checked"

\* What every step leaves of it: a request is never withdrawn, a worker passes the
\* check only while there is none, and passing it again is what a late stage takes.
CancellationKept ==
  /\ cancels \subseteq cancels'
  /\ \A j \in Jobs :
       /\ worker'[j] = "checked" =>
            worker[j] = "checked" \/ (~ CancellationRequested(j) /\ cancels' = cancels)
       /\ \/ lateStages'[j] = lateStages[j]
          \/ /\ worker[j] = "checked" /\ worker'[j] # "checked"
             /\ CancellationRequested(j)
             /\ lateStages'[j] = lateStages[j] + 1

LEMMA SubmitCancellation ==
  ASSUME TypeOK, NEW j \in Jobs, Submit(j) \/ SessionCrash(j) \/ ReapWorker(j)
  PROVE  CancellationKept
<1> USE DEF CancellationKept, TypeOK, submitterVars, workerVars
<1>1. CASE PublishRequested(j) \/ SpawnWorker(j)
  BY <1>1 DEF PublishRequested, SpawnWorker
<1>2. CASE RecordJob(j) \/ SnapshotVariables(j) \/ UpdateJobPid(j) \/ SessionCrash(j)
           \/ ReapWorker(j)
  BY <1>2 DEF RecordJob, SnapshotVariables, UpdateJobPid, SessionCrash, ReapWorker
<1>3. QED BY <1>1, <1>2 DEF Submit

LEMMA WorkCancellation ==
  ASSUME TypeOK, NEW j \in Jobs, Work(j) \/ WorkerCrash(j)
  PROVE  CancellationKept
<1> USE DEF CancellationKept, TypeOK, submitterVars, workerVars, WorkerTo, WorkerAt
<1>1. CASE ClaimJob(j) \/ PublishClaim(j) \/ ClaimRaises(j) \/ StartJob(j) \/ StartRaises(j)
  BY <1>1 DEF ClaimJob, PublishClaim, ClaimRaises, StartJob, StartRaises
<1>2. CASE CheckCancelled(j)
  BY <1>2 DEF CheckCancelled
<1>3. CASE BeginStage(j)
  BY <1>3 DEF BeginStage, CancellationRequested
<1>4. CASE EndStage(j) \/ RunRaises(j) \/ RunReturns(j) \/ FailJob(j) \/ FinishJob(j)
           \/ ExitWorker(j)
  BY <1>4 DEF EndStage, RunRaises, RunReturns, FailJob, FinishJob, ExitWorker
<1>5. CASE WorkerCrash(j)
  BY <1>5 DEF WorkerCrash, Sigkill
<1>6. CASE FanOut(j) \/ JoinSteps(j) \/ Interrupt(j) \/ \E i \in StepIds : SpawnStep(j, i)
  BY <1>6 DEF FanOut, JoinSteps, Interrupt, SpawnStep
<1>7. QED BY <1>1, <1>2, <1>3, <1>4, <1>5, <1>6 DEF Work, Proceed

LEMMA ControlCancellation ==
  ASSUME TypeOK, NEW o \in Operators,
         \/ Order(o) \/ Control(o) \/ OperatorCrash(o)
         \/ \E j \in Jobs : CommandShutdown(o, j)
  PROVE  CancellationKept
<1> USE DEF CancellationKept, TypeOK, submitterVars, workerVars
<1>1. CASE Order(o) \/ \E j \in Jobs : CommandShutdown(o, j)
  BY <1>1 DEF Order, CommandJob, CommandPipeline, CommandShutdown, Give
<1>2. CASE CancelScope(o) \/ OperatorCrash(o)
  BY <1>2 DEF CancelScope, OperatorCrash
<1>3. ASSUME NEW j \in Jobs, Announce(o, j) \/ ActCancel(o, j) \/ WriteMissing(o, j)
                             \/ WriteMark(o, j) \/ ServiceGone(o, j) \/ WriteForced(o, j)
      PROVE  CancellationKept
  BY <1>3 DEF Announce, ActCancel, WriteMissing, WriteMark, ServiceGone, WriteForced
<1>4. ASSUME NEW j \in Jobs, ActSignal(o, j) \/ ServiceTimeout(o, j)
      PROVE  CancellationKept
  BY <1>4 DEF ActSignal, ServiceTimeout, Sigkill
<1>5. QED BY <1>1, <1>2, <1>3, <1>4 DEF Control, Visit

LEMMA NextCancellation ==
  ASSUME TypeOK, [Next]_vars
  PROVE  CancellationKept
<1>1. CASE UNCHANGED vars
  BY <1>1 DEF vars, workerVars, CancellationKept
<1>2. CASE Sweep
  BY <1>2 DEF Sweep, SweepSelect, SweepProbe, SweepWrite, workerVars, CancellationKept
<1>3. ASSUME NEW j \in Jobs, Step(j) PROVE CancellationKept
  BY <1>3, StepChanges DEF CancellationKept
<1>4. CASE Next
  BY <1>2, <1>3, <1>4, SubmitCancellation, WorkCancellation, ControlCancellation DEF Next
<1>5. QED BY <1>1, <1>4

LEMMA LateStagesAreLast == Spec => [](TypeOK /\ LateStageIsLast)
<1> DEFINE Inv == TypeOK /\ LateStageIsLast
<1>1. Init => Inv
  BY InitTyped DEF Init, LateStageIsLast
<1>2. Inv /\ [Next]_vars => Inv'
  <2> SUFFICES ASSUME Inv, [Next]_vars PROVE Inv'
    OBVIOUS
  <2>1. TypeOK' /\ CancellationKept
    BY NextTyped, NextCancellation
  <2>2. LateStageIsLast'
    BY <2>1, SMTT(60) DEF LateStageIsLast, CancellationKept, TypeOK, CancellationRequested
  <2>3. QED BY <2>1, <2>2
<1>3. QED BY <1>1, <1>2, PTL DEF Spec

(* CancellationStopsStages: whatever overwrites the status column, of a worker's own  *)
(* stages at most the one whose check had already passed begins after a cancellation  *)
(* request.                                                                           *)
THEOREM CancellationIsDurable == Spec => []CancellationStopsStages
<1>1. TypeOK /\ LateStageIsLast => CancellationStopsStages
  BY DEF LateStageIsLast, CancellationStopsStages
<1>2. QED BY <1>1, LateStagesAreLast, PTL

-----------------------------------------------------------------------------
(* Where a job's process and worker can be before the worker has started. *)

Unstarted ==
  \A j \in Jobs :
    /\ submitter[j] = "idle" => proc[j] = "none" /\ worker[j] = "none"
    /\ submitter[j] \in {"recorded", "requested", "snapshotted"} =>
         proc[j] = "none" /\ worker[j] = "none"
    /\ submitter[j] = "entered" => worker[j] = "none" \/ proc[j] \in {"zombie", "gone"}

\* What every step does to processes and workers: a session goes forward, only its own
\* two steps start a process, and a worker that is done or not begun stays so.
ProcessKept ==
  \A j \in Jobs :
    \/ /\ submitter'[j] = submitter[j]
       /\ proc[j] = "none" => proc'[j] = "none"
       /\ proc[j] \in {"zombie", "gone"} => proc'[j] \in {"zombie", "gone"}
       /\ worker[j] = "done" => worker'[j] = "done"
       /\ worker[j] = "none" => worker'[j] = "none" \/ proc'[j] \in {"zombie", "gone"}
       /\ proc[j] = "none" => worker'[j] = worker[j]
    \/ /\ submitter[j] = "idle" /\ submitter'[j] = "recorded"
       /\ UNCHANGED <<proc[j], worker[j]>>
    \/ submitter[j] = "idle" /\ submitter'[j] = "entered" /\ worker'[j] = worker[j]
    \/ /\ submitter[j] = "recorded" /\ submitter'[j] = "requested"
       /\ UNCHANGED <<proc[j], worker[j]>>
    \/ /\ submitter[j] = "entered" /\ submitter'[j] = "inside" /\ proc[j] = "alive"
       /\ proc'[j] = proc[j]
    \/ /\ submitter[j] = "requested" /\ submitter'[j] = "snapshotted"
       /\ UNCHANGED <<proc[j], worker[j]>>
    \/ /\ submitter[j] = "snapshotted" /\ submitter'[j] = "spawned"
    \/ /\ submitter'[j] \in {"returned", "dead"} /\ submitter[j] # "idle"
       /\ worker'[j] = worker[j]
       /\ proc[j] \in {"zombie", "gone"} => proc'[j] \in {"zombie", "gone"}

LEMMA SubmitProcess ==
  ASSUME TypeOK, NEW j \in Jobs, Submit(j) \/ SessionCrash(j) \/ ReapWorker(j)
  PROVE  ProcessKept
<1> USE DEF ProcessKept, TypeOK, submitterVars, workerVars
<1>1. CASE RecordJob(j)          BY <1>1 DEF RecordJob
<1>2. CASE PublishRequested(j)   BY <1>2 DEF PublishRequested
<1>3. CASE SnapshotVariables(j)  BY <1>3 DEF SnapshotVariables
<1>4. CASE SpawnWorker(j)        BY <1>4 DEF SpawnWorker
<1>5. CASE UpdateJobPid(j)       BY <1>5 DEF UpdateJobPid
<1>6. CASE SessionCrash(j)       BY <1>6 DEF SessionCrash
<1>7. CASE ReapWorker(j)         BY <1>7 DEF ReapWorker
<1>8. QED BY <1>1, <1>2, <1>3, <1>4, <1>5, <1>6, <1>7 DEF Submit

LEMMA WorkProcess ==
  ASSUME TypeOK, NEW j \in Jobs, Work(j) \/ WorkerCrash(j)
  PROVE  ProcessKept
<1> USE DEF ProcessKept, TypeOK, submitterVars, workerVars, WorkerTo, WorkerAt
<1>1. CASE ClaimJob(j) \/ PublishClaim(j) \/ ClaimRaises(j) \/ StartJob(j) \/ StartRaises(j)
  BY <1>1 DEF ClaimJob, PublishClaim, ClaimRaises, StartJob, StartRaises
<1>2. CASE CheckCancelled(j) \/ BeginStage(j) \/ EndStage(j) \/ RunRaises(j) \/ RunReturns(j)
  BY <1>2 DEF CheckCancelled, BeginStage, EndStage, RunRaises, RunReturns
<1>3. CASE FailJob(j) \/ FinishJob(j)
  BY <1>3 DEF FailJob, FinishJob
<1>4. CASE ExitWorker(j)
  BY <1>4 DEF ExitWorker, Ended
<1>5. CASE WorkerCrash(j)
  BY <1>5 DEF WorkerCrash, Sigkill, Live, Ended
<1>6. CASE FanOut(j) \/ JoinSteps(j) \/ Interrupt(j) \/ \E i \in StepIds : SpawnStep(j, i)
  BY <1>6 DEF FanOut, JoinSteps, Interrupt, SpawnStep
<1>7. QED BY <1>1, <1>2, <1>3, <1>4, <1>5, <1>6 DEF Work, Proceed

LEMMA ControlProcess ==
  ASSUME TypeOK, NEW o \in Operators,
         \/ Order(o) \/ Control(o) \/ OperatorCrash(o)
         \/ \E j \in Jobs : CommandShutdown(o, j)
  PROVE  ProcessKept
<1> USE DEF ProcessKept, TypeOK, submitterVars, workerVars
<1>1. CASE Order(o) \/ \E j \in Jobs : CommandShutdown(o, j)
  BY <1>1 DEF Order, CommandJob, CommandPipeline, CommandShutdown, Give
<1>2. CASE CancelScope(o) \/ OperatorCrash(o)
  BY <1>2 DEF CancelScope, OperatorCrash
<1>3. ASSUME NEW j \in Jobs, Announce(o, j) \/ ActCancel(o, j) \/ WriteMissing(o, j)
                             \/ WriteMark(o, j) \/ ServiceGone(o, j) \/ WriteForced(o, j)
      PROVE  ProcessKept
  BY <1>3 DEF Announce, ActCancel, WriteMissing, WriteMark, ServiceGone, WriteForced
<1>4. ASSUME NEW j \in Jobs, ActSignal(o, j) \/ ServiceTimeout(o, j)
      PROVE  ProcessKept
  BY <1>4 DEF ActSignal, ServiceTimeout, Sigkill, Live, Ended
<1>5. QED BY <1>1, <1>2, <1>3, <1>4 DEF Control, Visit

LEMMA NextProcess ==
  ASSUME TypeOK, [Next]_vars
  PROVE  ProcessKept
<1>1. CASE UNCHANGED vars
  BY <1>1 DEF vars, submitterVars, workerVars, ProcessKept
<1>2. CASE Sweep
  BY <1>2 DEF Sweep, SweepSelect, SweepProbe, SweepWrite, submitterVars, workerVars, ProcessKept
<1>3. ASSUME NEW j \in Jobs, Step(j) PROVE ProcessKept
  BY <1>3, StepChanges DEF ProcessKept, submitterVars
<1>4. CASE Next
  BY <1>2, <1>3, <1>4, SubmitProcess, WorkProcess, ControlProcess DEF Next
<1>5. QED BY <1>1, <1>4

LEMMA UnstartedKept ==
  ASSUME TypeOK, TypeOK', Unstarted, [Next]_vars
  PROVE  Unstarted'
<1>1. ProcessKept
  BY NextProcess
<1>2. QED BY <1>1 DEF ProcessKept, Unstarted, TypeOK

-----------------------------------------------------------------------------
(* One outcome. *)

\* What the ledger can hold at each place of the worker.
Phases ==
  \A j \in Jobs :
    /\ worker[j] \notin {"finishedPublished", "failedPublished", "exit", "done", "dead"}
         => ledger[j] \intersect OutcomeTopics = {}
    /\ worker[j] = "finishedPublished" => "job.failed" \notin ledger[j]
    /\ worker[j] = "failedPublished" => "job.finished" \notin ledger[j]
    /\ worker[j] \in {"none", "boot", "denied"} =>
         stages[j] = 0 /\ NoSteps(j) /\ "job.started" \notin ledger[j]
    /\ "job.claim.denied" \in ledger[j] => worker[j] \in {"exit", "done", "dead"}
    /\ ~ OutcomeTopics \subseteq ledger[j]
    /\ "job.claim.denied" \in ledger[j] =>
         /\ ledger[j] \intersect (OutcomeTopics \union {"job.started"}) = {}
         /\ stages[j] = 0 /\ NoSteps(j)

LEMMA SubmitPhases ==
  ASSUME TypeOK, Unstarted, Phases, NEW j \in Jobs, Submit(j) \/ SessionCrash(j) \/ ReapWorker(j)
  PROVE  Phases'
<1> USE DEF Phases, TypeOK, NoSteps, submitterVars, workerVars, OutcomeTopics
<1>1. CASE PublishRequested(j)
  BY <1>1 DEF PublishRequested, Publish, Unstarted
<1>2. CASE SpawnWorker(j)
  BY <1>2 DEF SpawnWorker, Unstarted
<1>3. CASE RecordJob(j) \/ SnapshotVariables(j) \/ UpdateJobPid(j) \/ SessionCrash(j)
           \/ ReapWorker(j)
  BY <1>3 DEF RecordJob, SnapshotVariables, UpdateJobPid, SessionCrash, ReapWorker
<1>4. QED BY <1>1, <1>2, <1>3 DEF Submit

LEMMA WorkPhases ==
  ASSUME TypeOK, Phases, NEW j \in Jobs, Work(j) \/ WorkerCrash(j)
  PROVE  Phases'
<1> USE DEF Phases, TypeOK, NoSteps, submitterVars, workerVars, WorkerTo, WorkerAt, Publish,
            OutcomeTopics
<1>1. CASE ClaimJob(j)
  <2>1. worker' \in {[worker EXCEPT ![j] = "claimed"], [worker EXCEPT ![j] = "denied"]}
    BY <1>1 DEF ClaimJob
  <2>2. worker[j] = "boot" /\ UNCHANGED <<ledger, stages, steps>>
    BY <1>1 DEF ClaimJob
  <2>3. QED BY <2>1, <2>2
<1>2. CASE PublishClaim(j)
  <2>1. UNCHANGED <<stages, steps>>
    BY <1>2 DEF PublishClaim
  <2>2. \A k \in Jobs \ {j} : worker'[k] = worker[k] /\ ledger'[k] = ledger[k]
    BY <1>2 DEF PublishClaim
  <2>3. \/ /\ worker[j] = "claimed" /\ worker'[j] = "starting"
           /\ ledger'[j] = ledger[j] \union {"job.claimed"}
        \/ /\ worker[j] = "denied" /\ worker'[j] = "exit"
           /\ ledger'[j] = ledger[j] \union {"job.claim.denied"}
    BY <1>2 DEF PublishClaim
  <2>4. QED BY <2>1, <2>2, <2>3
<1>3. CASE ClaimRaises(j)     BY <1>3 DEF ClaimRaises
<1>4. CASE StartJob(j)        BY <1>4 DEF StartJob
<1>5. CASE StartRaises(j)     BY <1>5 DEF StartRaises
<1>6. CASE CheckCancelled(j)  BY <1>6 DEF CheckCancelled
<1>7. CASE BeginStage(j)      BY <1>7 DEF BeginStage
<1>8. CASE EndStage(j)        BY <1>8 DEF EndStage
<1>9. CASE RunRaises(j)       BY <1>9 DEF RunRaises
<1>10. CASE RunReturns(j)     BY <1>10 DEF RunReturns
<1>11. CASE FailJob(j)        BY <1>11 DEF FailJob
<1>12. CASE FinishJob(j)      BY <1>12 DEF FinishJob
<1>13. CASE ExitWorker(j)     BY <1>13 DEF ExitWorker
<1>14. CASE WorkerCrash(j)    BY <1>14 DEF WorkerCrash, Sigkill
<1>15. CASE FanOut(j) \/ JoinSteps(j)
  BY <1>15 DEF FanOut, JoinSteps
<1>16. CASE Interrupt(j)      BY <1>16 DEF Interrupt
<1>17. ASSUME NEW i \in StepIds, SpawnStep(j, i) PROVE Phases'
  <2>1. \A k \in Jobs \ {j} : steps'[k] = steps[k]
    BY <1>17, StepsMove DEF SpawnStep, StepState
  <2>2. worker[j] = "spawning" /\ UNCHANGED <<worker, ledger, stages>>
    BY <1>17 DEF SpawnStep
  <2>3. QED BY <2>1, <2>2
<1>18. QED
  BY <1>1, <1>2, <1>3, <1>4, <1>5, <1>6, <1>7, <1>8, <1>9, <1>10, <1>11, <1>12,
     <1>13, <1>14, <1>15, <1>16, <1>17 DEF Work, Proceed

LEMMA ControlPhases ==
  ASSUME TypeOK, Phases, NEW o \in Operators,
         \/ Order(o) \/ Control(o) \/ OperatorCrash(o)
         \/ \E j \in Jobs : CommandShutdown(o, j)
  PROVE  Phases'
<1> USE DEF Phases, TypeOK, NoSteps, submitterVars, workerVars
<1>1. CASE Order(o) \/ \E j \in Jobs : CommandShutdown(o, j)
  BY <1>1 DEF Order, CommandJob, CommandPipeline, CommandShutdown, Give
<1>2. CASE CancelScope(o) \/ OperatorCrash(o)
  BY <1>2 DEF CancelScope, OperatorCrash
<1>3. ASSUME NEW j \in Jobs, Announce(o, j)
      PROVE  Phases'
  <2>1. Announced(op[o].verb) \intersect
          (OutcomeTopics \union {"job.started", "job.claim.denied"}) = {}
    BY DEF Announced, OutcomeTopics
  <2>2. QED BY <1>3, <2>1 DEF Announce, OutcomeTopics
<1>4. ASSUME NEW j \in Jobs, ActCancel(o, j) \/ WriteMissing(o, j) \/ WriteMark(o, j)
                             \/ ServiceGone(o, j) \/ WriteForced(o, j)
      PROVE  Phases'
  BY <1>4 DEF ActCancel, WriteMissing, WriteMark, ServiceGone, WriteForced
<1>5. ASSUME NEW j \in Jobs, ActSignal(o, j) \/ ServiceTimeout(o, j)
      PROVE  Phases'
  BY <1>5 DEF ActSignal, ServiceTimeout, Sigkill
<1>6. QED BY <1>1, <1>2, <1>3, <1>4, <1>5 DEF Control, Visit

(* Processes, workers and ledgers keep in step. *)
LEMMA LedgersFollowWorkers == Spec => [](TypeOK /\ Unstarted /\ Phases)
<1> DEFINE Inv == TypeOK /\ Unstarted /\ Phases
<1>1. Init => Inv
  BY InitTyped DEF Init, Unstarted, Phases, NoSteps, OutcomeTopics
<1>2. Inv /\ [Next]_vars => Inv'
  <2> SUFFICES ASSUME Inv, [Next]_vars PROVE Inv'
    OBVIOUS
  <2>1. TypeOK'
    BY NextTyped
  <2>2. Unstarted'
    BY <2>1, UnstartedKept
  <2>3. Phases'
    <3>1. CASE UNCHANGED vars
      BY <3>1 DEF vars, workerVars, Phases, NoSteps
    <3>2. CASE Sweep
      BY <3>2 DEF Sweep, SweepSelect, SweepProbe, SweepWrite, workerVars, Phases, NoSteps
    <3>3. ASSUME NEW j \in Jobs, Step(j) PROVE Phases'
      BY <3>3, StepChanges, StepsLeft DEF Phases
    <3>4. CASE Next
      BY <3>2, <3>3, <3>4, SubmitPhases, WorkPhases, ControlPhases DEF Next
    <3>5. QED BY <3>1, <3>4
  <2>4. QED BY <2>1, <2>2, <2>3
<1>3. QED BY <1>1, <1>2, PTL DEF Spec

(* OneOutcome: no crash, control command or sweep makes a job both finish and fail, or *)
(* gives an outcome, a stage or a step process to a worker that was refused the claim. *)
THEOREM OutcomesAreUnique == Spec => []OneOutcome
<1>1. TypeOK /\ Unstarted /\ Phases => OneOutcome
  BY DEF Phases, OneOutcome
<1>2. QED BY <1>1, LedgersFollowWorkers, PTL

-----------------------------------------------------------------------------
(* Killed is dead. *)

DeadNow(j) == proc[j] \in {"zombie", "gone"} \/ worker[j] = "done"

\* An operator about to write killed has seen the process end.
AboutToKill(o, j) == \/ At(o, j, "mark") /\ op[o].verb \in {"kill", "stopHard"}
                     \/ At(o, j, "force")

KilledIsDeadNow ==
  /\ \A j \in Jobs : row[j].status = "killed" => DeadNow(j)
  /\ \A o \in Operators, j \in Jobs : AboutToKill(o, j) => DeadNow(j)

\* Only an operator about to write killed writes it, and one becomes about to by
\* ending the process.
KillKept ==
  /\ \A j \in Jobs : row'[j].status = "killed" =>
       row[j].status = "killed" \/ \E o \in Operators : AboutToKill(o, j)
  /\ \A o \in Operators, j \in Jobs :
       AboutToKill(o, j)' => AboutToKill(o, j) \/ DeadNow(j)'

LEMMA DeadStaysDead ==
  ASSUME TypeOK, Unstarted, [Next]_vars, NEW j \in Jobs, DeadNow(j)
  PROVE  DeadNow(j)'
<1>1. ProcessKept
  BY NextProcess
<1>2. QED BY <1>1 DEF ProcessKept, Unstarted, DeadNow

LEMMA OthersKill ==
  ASSUME TypeOK, NEW j \in Jobs,
         \/ Submit(j) \/ SessionCrash(j) \/ ReapWorker(j) \/ Work(j) \/ WorkerCrash(j)
         \/ Step(j) \/ Sweep \/ UNCHANGED vars
  PROVE  KillKept
<1>1. UNCHANGED op
  BY StepChanges
     DEF Submit, RecordJob, PublishRequested, SnapshotVariables, SpawnWorker, UpdateJobPid,
         SessionCrash, ReapWorker, Work, Proceed, ClaimJob, PublishClaim, ClaimRaises, StartJob,
         StartRaises, CheckCancelled, BeginStage, EndStage, RunRaises, RunReturns, FailJob,
         FanOut, SpawnStep, JoinSteps, Interrupt, FinishJob, ExitWorker, WorkerCrash, Sweep, SweepSelect, SweepProbe, SweepWrite,
         vars, operatorVars
<1>2. \A k \in Jobs : row'[k].status = "killed" => row[k].status = "killed"
  <2>1. \/ UNCHANGED row
        \/ RecordJob(j) \/ UpdateJobPid(j) \/ ClaimJob(j) \/ StartJob(j) \/ FailJob(j)
        \/ FinishJob(j) \/ \E k \in Jobs : SweepWrite(k)
    BY StepChanges
       DEF Submit, PublishRequested, SnapshotVariables, SpawnWorker, SessionCrash, ReapWorker,
           Work, Proceed, FanOut, SpawnStep, JoinSteps, Interrupt, PublishClaim, ClaimRaises, StartRaises, CheckCancelled, BeginStage, EndStage,
           RunRaises, RunReturns, ExitWorker, WorkerCrash, Sweep, SweepSelect, SweepProbe, vars
  <2>2. CASE RecordJob(j)
    <3>1. PICK b \in BOOLEAN : row' = [row EXCEPT ![j] = [status |-> "queued", pid |-> b]]
      BY <2>2 DEF RecordJob
    <3>2. \A k \in Jobs : row'[k].status = IF k = j THEN "queued" ELSE row[k].status
      BY <3>1, StatusBoth DEF TypeOK
    <3>3. QED BY <3>2
  <2>3. CASE ClaimJob(j)
    <3>1. CASE row[j].status = "queued"
      <4>1. row' = [row EXCEPT ![j] = [status |-> "claimed", pid |-> TRUE]]
        BY <2>3, <3>1 DEF ClaimJob
      <4>2. \A k \in Jobs : row'[k].status = IF k = j THEN "claimed" ELSE row[k].status
        BY <4>1, StatusBoth DEF TypeOK
      <4>3. QED BY <4>2
    <3>2. CASE row[j].status # "queued"
      BY <2>3, <3>2 DEF ClaimJob
    <3>3. QED BY <3>1, <3>2
  <2>4. CASE UpdateJobPid(j)
    BY <2>4, StatusPid DEF UpdateJobPid, TypeOK
  <2>5. CASE StartJob(j) \/ FailJob(j) \/ FinishJob(j)
    BY <2>5, StatusSet DEF StartJob, FailJob, FinishJob, TypeOK
  <2>6. ASSUME NEW k \in Jobs, SweepWrite(k)
        PROVE  \A i \in Jobs : row'[i].status = "killed" => row[i].status = "killed"
    BY <2>6, StatusSet DEF SweepWrite, TypeOK
  <2>7. QED BY <2>1, <2>2, <2>3, <2>4, <2>5, <2>6
<1>3. QED BY <1>1, <1>2 DEF KillKept, AboutToKill, At

(* A step of one operator leaves the others where they were. *)
LEMMA OpToSets ==
  ASSUME TypeOK, NEW o \in Operators, NEW pc, OpTo(o, pc)
  PROVE  /\ op'[o].pc = pc /\ op'[o].verb = op[o].verb /\ op'[o].todo = op[o].todo
         /\ \A p \in Operators \ {o} : op'[p] = op[p]
BY DEF TypeOK, OpTo, Command

LEMMA NextTargetOpens ==
  ASSUME TypeOK, NEW o \in Operators, NEW j, NextTarget(o, j) \/ Abandon(o)
  PROVE  /\ op'[o].pc \in {"idle", "act", "announce"}
         /\ \A p \in Operators \ {o} : op'[p] = op[p]
<1>1. NoCommand.pc = "idle"
  BY DEF NoCommand
<1>2. [op[o] EXCEPT !.todo = @ \ {j}, !.pc = Entry(op[o].verb)].pc \in {"act", "announce"}
  <2>1. op[o] \in Command
    BY DEF TypeOK
  <2>2. Entry(op[o].verb) \in {"act", "announce"}
    BY DEF Entry
  <2>3. QED BY <2>1, <2>2 DEF Command
<1>3. op'[o] = NoCommand \/ op'[o] = [op[o] EXCEPT !.todo = @ \ {j}, !.pc = Entry(op[o].verb)]
  BY DEF TypeOK, NextTarget, Abandon
<1>4. QED BY <1>1, <1>2, <1>3 DEF TypeOK, NextTarget, Abandon

LEMMA ControlKills ==
  ASSUME TypeOK, KilledIsDeadNow, NEW o \in Operators,
         \/ Order(o) \/ Control(o) \/ OperatorCrash(o)
         \/ \E j \in Jobs : CommandShutdown(o, j)
  PROVE  KillKept
<1> USE DEF TypeOK
<1>a. ASSUME NEW p \in Operators, op'[p] = op[p], NEW j \in Jobs, AboutToKill(p, j)'
      PROVE  AboutToKill(p, j)
  BY <1>a DEF AboutToKill, At
<1>b. ASSUME \A p \in Operators \ {o} : op'[p] = op[p],
             \A j \in Jobs : AboutToKill(o, j)' => AboutToKill(o, j) \/ DeadNow(j)',
             \A j \in Jobs : row'[j].status = "killed" =>
               row[j].status = "killed" \/ AboutToKill(o, j)
      PROVE  KillKept
  BY <1>a, <1>b DEF KillKept
<1>c. ASSUME op'[o].pc \notin {"mark", "force"}, NEW j \in Jobs
      PROVE  ~ AboutToKill(o, j)'
  BY <1>c DEF AboutToKill, At
<1>1. ASSUME NEW verb \in Verbs, NEW targets, NEW pc, pc \notin {"mark", "force"},
             Give(o, verb, targets, pc)
      PROVE  KillKept
  BY <1>1, <1>b, <1>c DEF Give
<1>2. CASE Order(o) \/ \E j \in Jobs : CommandShutdown(o, j)
  <2>1. \A verb \in Verbs : Entry(verb) \notin {"mark", "force"}
    BY DEF Entry
  <2>2. "shutdown" \in Verbs
    BY DEF Verbs
  <2>3. ASSUME NEW verb \in Verbs, NEW j \in Jobs, CommandJob(o, verb, j)
        PROVE  KillKept
    BY <1>1, <2>1, <2>3 DEF CommandJob
  <2>4. ASSUME NEW verb \in Verbs, CommandPipeline(o, verb)
        PROVE  KillKept
    <3>1. (IF verb = "cancel" THEN "scope" ELSE Entry(verb)) \notin {"mark", "force"}
      BY <2>1
    <3>2. QED BY <1>1, <2>4, <3>1 DEF CommandPipeline
  <2>5. ASSUME NEW j \in Jobs, CommandShutdown(o, j)
        PROVE  KillKept
    BY <1>1, <2>2, <2>5 DEF CommandShutdown
  <2>6. QED BY <1>2, <2>3, <2>4, <2>5, VerbsAssumption DEF VerbsAssumption, Order
<1>3. CASE CancelScope(o)
  BY <1>3, <1>b, <1>c, OpToSets DEF CancelScope
<1>4. CASE OperatorCrash(o)
  BY <1>4, <1>b, <1>c, NextTargetOpens DEF OperatorCrash
<1>5. ASSUME NEW j \in Jobs, Announce(o, j)
      PROVE  KillKept
  <2>1. OpTo(o, IF op[o].verb \in {"pause", "resume"} THEN "mark" ELSE "act")
    BY <1>5 DEF Announce
  <2>2. \A k \in Jobs : ~ AboutToKill(o, k)'
    BY <2>1, OpToSets DEF AboutToKill, At
  <2>3. QED BY <1>5, <2>1, <2>2, <1>b, OpToSets DEF Announce
<1>6. ASSUME NEW j \in Jobs, ActCancel(o, j)
      PROVE  KillKept
  <2>1. OpTo(o, "mark") /\ op[o].verb \notin {"kill", "stopHard"}
    BY <1>6 DEF ActCancel
  <2>2. \A k \in Jobs : ~ AboutToKill(o, k)'
    BY <2>1, OpToSets DEF AboutToKill, At
  <2>3. QED BY <1>6, <2>1, <2>2, <1>b, OpToSets DEF ActCancel
<1>d. ASSUME NEW j \in Jobs, ProcessExists(j), Sigkill(j)
      PROVE  DeadNow(j)'
  BY <1>d DEF ProcessExists, Sigkill, Live, Ended, DeadNow
<1>e. ASSUME NEW j \in Jobs, NEW pcs, At(o, j, pcs), NEW k \in Jobs, NEW pc, At(o, k, pc)',
             op'[o].todo = op[o].todo
      PROVE  k = j
  <2>1. k \in op[o].todo /\ j \in op[o].todo /\ j <= k /\ k <= j
    BY <1>e DEF At
  <2>2. j \in Nat /\ k \in Nat
    BY JobsAssumption DEF JobsAssumption
  <2>3. QED BY <2>1, <2>2
<1>7. ASSUME NEW j \in Jobs, ActSignal(o, j)
      PROVE  KillKept
  <2>1. CASE op[o].verb \in {"kill", "stopHard"} /\ ProcessExists(j) /\ Sigkill(j) /\ OpTo(o, "mark")
    <3>1. DeadNow(j)'
      BY <2>1, <1>d
    <3>2. \A k \in Jobs : AboutToKill(o, k)' => k = j
      BY <1>7, <1>e, <2>1, OpToSets DEF AboutToKill, ActSignal, Undelivered
    <3>3. QED BY <1>7, <2>1, <3>1, <3>2, <1>b, OpToSets DEF ActSignal, Undelivered
  <2>2. CASE op[o].verb \notin {"kill", "stopHard"} /\ OpTo(o, "mark")
    <3>1. \A k \in Jobs : ~ AboutToKill(o, k)'
      BY <2>2, OpToSets DEF AboutToKill, At
    <3>2. QED BY <1>7, <2>2, <3>1, <1>b, OpToSets DEF ActSignal, Undelivered
  <2>3. CASE OpTo(o, "missing") \/ Abandon(o)
    <3>1. op'[o].pc \notin {"mark", "force"} /\ \A p \in Operators \ {o} : op'[p] = op[p]
      <4>1. CASE OpTo(o, "missing")  BY <4>1, OpToSets
      <4>2. CASE Abandon(o)          BY <4>2, NextTargetOpens
      <4>3. QED BY <2>3, <4>1, <4>2
    <3>2. row' = row
      BY <1>7 DEF ActSignal
    <3>3. QED BY <3>1, <3>2, <1>b, <1>c
  <2>4. QED BY <1>7, <2>1, <2>2, <2>3 DEF ActSignal, Undelivered
<1>8. ASSUME NEW j \in Jobs, ServiceTimeout(o, j)
      PROVE  KillKept
  <2>1. DeadNow(j)' /\ OpTo(o, "force")
    BY <1>8, <1>d DEF ServiceTimeout
  <2>2. \A k \in Jobs : AboutToKill(o, k)' => k = j
    BY <1>8, <1>e, <2>1, OpToSets DEF AboutToKill, ServiceTimeout
  <2>3. QED BY <1>8, <2>1, <2>2, <1>b, OpToSets DEF ServiceTimeout
<1>9. ASSUME NEW j \in Jobs, NEW s, SetStatus(j, s), s = "killed" => AboutToKill(o, j),
             op'[o].pc \notin {"mark", "force"}, \A p \in Operators \ {o} : op'[p] = op[p]
      PROVE  KillKept
  BY <1>9, <1>b, <1>c, StatusSet
<1>10. ASSUME NEW j \in Jobs, WriteMissing(o, j) \/ ServiceGone(o, j) \/ WriteForced(o, j)
       PROVE  KillKept
  BY <1>9, <1>10, NextTargetOpens DEF WriteMissing, ServiceGone, WriteForced, AboutToKill
<1>11. ASSUME NEW j \in Jobs, WriteMark(o, j)
       PROVE  KillKept
  <2>1. op[o].verb \in Verbs
    BY DEF Command
  <2>2. Mark(op[o].verb) = "killed" => AboutToKill(o, j)
    BY <1>11, <2>1, MarkIsControl DEF WriteMark, AboutToKill
  <2>3. op'[o].pc \notin {"mark", "force"} /\ \A p \in Operators \ {o} : op'[p] = op[p]
    <3>1. CASE OpTo(o, "wait")     BY <3>1, OpToSets
    <3>2. CASE NextTarget(o, j)    BY <3>2, NextTargetOpens
    <3>3. QED BY <1>11, <3>1, <3>2 DEF WriteMark
  <2>4. QED BY <1>9, <1>11, <2>2, <2>3 DEF WriteMark
<1>12. QED
  BY <1>2, <1>3, <1>4, <1>5, <1>6, <1>7, <1>8, <1>10, <1>11 DEF Control, Visit

(* KilledIsDead: once a row says killed, the process that its pid names runs no more,  *)
(* or has given the job up: whatever else happens to the row, no stage of its own, no  *)
(* further step process and no outcome comes from it (step processes that a fan-out    *)
(* has already started are not in the statement: the signal does not reach them).      *)
THEOREM KillsAreFinal == Spec => []KilledIsDead
<1> DEFINE Inv == TypeOK /\ Unstarted /\ KilledIsDeadNow
<1>1. Init => Inv
  BY InitTyped DEF Init, Unstarted, KilledIsDeadNow, AboutToKill, At, NoCommand
<1>2. Inv /\ [Next]_vars => Inv'
  <2> SUFFICES ASSUME Inv, [Next]_vars PROVE Inv'
    OBVIOUS
  <2>1. TypeOK' /\ Unstarted'
    BY NextTyped, UnstartedKept
  <2>2. \A j \in Jobs : DeadNow(j) => DeadNow(j)'
    BY DeadStaysDead
  <2>3. KillKept
    <3>1. CASE Jobs = {}
      BY <3>1, ControlKills DEF KillKept
    <3>2. CASE Jobs # {}
      BY <3>2, OthersKill, ControlKills DEF Next
    <3>3. QED BY <3>1, <3>2
  <2>4. KilledIsDeadNow'
    BY <2>2, <2>3 DEF KilledIsDeadNow, KillKept
  <2>5. QED BY <2>1, <2>4
<1>3. Inv => KilledIsDead
  BY DEF KilledIsDeadNow, KilledIsDead, DeadNow, Live
<1>4. QED BY <1>1, <1>2, <1>3, PTL DEF Spec
-----------------------------------------------------------------------------
(* Diverted jobs. *)

\* A job has a row from its submission on, and only recorded jobs are ever targets.
Known ==
  /\ \A j \in Jobs : Recorded(j) <=> submitter[j] # "idle"
  /\ \A j \in associated : Recorded(j)
  /\ \A o \in Operators : \A j \in op[o].todo : Recorded(j)
  /\ \A j \in sweep.unread \union sweep.stale : Recorded(j)

\* What every step does to a status: it leaves it alone, it records a new job as queued,
\* or it writes another status over that of a recorded job.
StatusKept ==
  \A j \in Jobs :
    \/ row'[j].status = row[j].status /\ (submitter'[j] = "idle" <=> submitter[j] = "idle")
    \/ /\ row'[j].status \notin {"none", "queued"}
       /\ Recorded(j) /\ submitter[j] # "idle" /\ submitter'[j] # "idle"
    \/ row'[j].status = "queued" /\ submitter[j] = "idle" /\ submitter'[j] # "idle"

\* Targets are added only when they are recorded.
TargetsKept ==
  /\ \A j \in associated' \ associated : Recorded(j)
  /\ \A o \in Operators : \A j \in op'[o].todo :
       (\E p \in Operators : j \in op[p].todo) \/ j \in associated \/ Recorded(j)
  /\ \A j \in sweep'.unread \union sweep'.stale :
       j \in sweep.unread \union sweep.stale \/ Recorded(j)

LEMMA SubmitStatus ==
  ASSUME TypeOK, Known, Unstarted, NEW j \in Jobs,
         Submit(j) \/ SessionCrash(j) \/ ReapWorker(j)
  PROVE  StatusKept /\ TargetsKept
<1> USE DEF StatusKept, TargetsKept, Known, submitterVars, workerVars, operatorVars, TypeOK
<1>1. CASE RecordJob(j)
  <2>1. \A k \in Jobs : row'[k].status = IF k = j THEN "queued" ELSE row[k].status
    BY <1>1 DEF RecordJob, Rows
  <2>2. submitter[j] = "idle" /\ \E s \in {"recorded", "entered"} :
                                  submitter' = [submitter EXCEPT ![j] = s]
    BY <1>1 DEF RecordJob
  <2>3. QED BY <1>1, <2>1, <2>2 DEF RecordJob
<1>2. CASE UpdateJobPid(j)
  <2>1. \A k \in Jobs : row'[k].status = row[k].status
    BY <1>2, StatusPid DEF UpdateJobPid
  <2>2. QED BY <1>2, <2>1 DEF UpdateJobPid
<1>3. CASE PublishRequested(j)   BY <1>3 DEF PublishRequested
<1>4. CASE SnapshotVariables(j)  BY <1>4 DEF SnapshotVariables
<1>5. CASE SpawnWorker(j)        BY <1>5 DEF SpawnWorker
<1>6. CASE SessionCrash(j)       BY <1>6 DEF SessionCrash
<1>7. CASE ReapWorker(j)         BY <1>7 DEF ReapWorker
<1>8. QED BY <1>1, <1>2, <1>3, <1>4, <1>5, <1>6, <1>7 DEF Submit

LEMMA WorkStatus ==
  ASSUME TypeOK, Known, Unstarted, NEW j \in Jobs, Work(j) \/ WorkerCrash(j)
  PROVE  StatusKept /\ TargetsKept
<1>1. ASSUME worker[j] # "none" PROVE Recorded(j) /\ submitter[j] # "idle"
  BY <1>1 DEF Known, Unstarted
<1>2. ASSUME NEW s \in Statuses \ {"none", "queued"}, SetStatus(j, s),
             Recorded(j), submitter[j] # "idle", UNCHANGED submitter
      PROVE  StatusKept
  <2>1. \A k \in Jobs : row'[k].status = IF k = j THEN s ELSE row[k].status
    BY <1>2, StatusSet DEF TypeOK
  <2>2. QED BY <1>2, <2>1 DEF StatusKept
<1> USE DEF submitterVars, workerVars, operatorVars, TypeOK, WorkerAt
<1>3. CASE ClaimJob(j)
  <2>1. UNCHANGED <<submitter, associated, op, sweep>> /\ Recorded(j) /\ submitter[j] # "idle"
    BY <1>1, <1>3 DEF ClaimJob
  <2>2. CASE UNCHANGED row
    BY <2>1, <2>2 DEF StatusKept, TargetsKept
  <2>3. CASE row' = [row EXCEPT ![j] = [status |-> "claimed", pid |-> TRUE]]
    <3>1. \A k \in Jobs : row'[k].status = IF k = j THEN "claimed" ELSE row[k].status
      BY <2>3, StatusBoth
    <3>2. QED BY <2>1, <3>1 DEF StatusKept, TargetsKept
  <2>4. QED BY <1>3, <2>2, <2>3 DEF ClaimJob
<1>4. CASE PublishClaim(j) \/ ClaimRaises(j) \/ StartRaises(j) \/ BeginStage(j) \/ EndStage(j)
           \/ RunRaises(j) \/ RunReturns(j) \/ ExitWorker(j) \/ WorkerCrash(j)
  BY <1>4 DEF PublishClaim, ClaimRaises, StartRaises, BeginStage, EndStage, RunRaises,
              RunReturns, ExitWorker, WorkerCrash, StatusKept, TargetsKept
<1>5. CASE CheckCancelled(j)
  BY <1>1, <1>5 DEF CheckCancelled, StatusKept, TargetsKept
<1>8. CASE FanOut(j) \/ JoinSteps(j) \/ Interrupt(j) \/ \E i \in StepIds : SpawnStep(j, i)
  BY <1>8 DEF FanOut, JoinSteps, Interrupt, SpawnStep, StatusKept, TargetsKept
<1>6. CASE StartJob(j) \/ FailJob(j) \/ FinishJob(j)
  <2>1. /\ UNCHANGED <<submitter, associated, op, sweep>> /\ Recorded(j) /\ submitter[j] # "idle"
        /\ UNCHANGED row \/ \E s \in {"running", "failed", "finished"} : SetStatus(j, s)
    BY <1>1, <1>6 DEF StartJob, FailJob, FinishJob
  <2>2. StatusKept
    <3>1. CASE UNCHANGED row
      BY <2>1, <3>1 DEF StatusKept
    <3>2. ASSUME NEW s \in {"running", "failed", "finished"}, SetStatus(j, s)
          PROVE  StatusKept
      BY <1>2, <2>1, <3>2, StatusNames
    <3>3. QED BY <2>1, <3>1, <3>2
  <2>3. QED BY <2>1, <2>2 DEF TargetsKept
<1>7. QED BY <1>3, <1>4, <1>5, <1>6, <1>8 DEF Work, Proceed

LEMMA ControlStatus ==
  ASSUME TypeOK, Known, NEW o \in Operators,
         \/ Order(o) \/ Control(o) \/ OperatorCrash(o)
         \/ \E j \in Jobs : CommandShutdown(o, j)
  PROVE  StatusKept /\ TargetsKept
<1>1. ASSUME NEW j \in Jobs, j \in op[o].todo, NEW s \in Statuses \ {"none", "queued"},
             SetStatus(j, s), UNCHANGED submitter
      PROVE  StatusKept
  <2>1. \A k \in Jobs : row'[k].status = IF k = j THEN s ELSE row[k].status
    BY <1>1, StatusSet DEF TypeOK
  <2>2. Recorded(j) /\ submitter[j] # "idle"
    BY <1>1 DEF Known
  <2>3. QED BY <1>1, <2>1, <2>2 DEF StatusKept
<1>2. ASSUME UNCHANGED <<associated, sweep>>,
             \A p \in Operators : op'[p].todo \subseteq op[p].todo \union associated
               \/ \A j \in op'[p].todo : Recorded(j)
      PROVE  TargetsKept
  BY <1>2 DEF TargetsKept
<1>3. ASSUME \/ Abandon(o)
             \/ \E pc \in OperatorState : OpTo(o, pc)
             \/ \E j \in Jobs : NextTarget(o, j)
      PROVE  \A p \in Operators : op'[p].todo \subseteq op[p].todo
  <2>1. op \in [Operators -> Command] /\ NoCommand.todo = {}
    BY DEF TypeOK, NoCommand
  <2>2. CASE Abandon(o)
    BY <2>1, <2>2 DEF Abandon
  <2>3. CASE \E pc \in OperatorState : OpTo(o, pc)
    BY <2>1, <2>3 DEF OpTo, Command
  <2>4. ASSUME NEW j \in Jobs, NextTarget(o, j)
        PROVE  \A p \in Operators : op'[p].todo \subseteq op[p].todo
    <3>1. [op[o] EXCEPT !.todo = @ \ {j}, !.pc = Entry(op[o].verb)].todo = op[o].todo \ {j}
      BY <2>1 DEF Command
    <3>2. QED BY <2>1, <2>4, <3>1 DEF NextTarget
  <2>5. QED BY <1>3, <2>2, <2>3, <2>4
<1>4. ASSUME NEW verb \in Verbs, NEW targets, NEW pc, Give(o, verb, targets, pc),
             \A j \in targets : Recorded(j)
      PROVE  StatusKept /\ TargetsKept
  <2>1. \A p \in Operators : op'[p].todo = op[p].todo \/ op'[p].todo = targets
    BY <1>4 DEF Give, TypeOK
  <2>2. UNCHANGED <<row, submitter, associated, sweep>>
    BY <1>4 DEF Give, submitterVars
  <2>3. QED BY <1>4, <2>1, <2>2 DEF StatusKept, TargetsKept
<1>5. CASE Order(o) \/ \E j \in Jobs : CommandShutdown(o, j)
  <2>1. ASSUME NEW verb \in Verbs, NEW j \in Jobs, CommandJob(o, verb, j)
        PROVE  StatusKept /\ TargetsKept
    BY <1>4, <2>1 DEF CommandJob
  <2>2. ASSUME NEW verb \in Verbs, CommandPipeline(o, verb)
        PROVE  StatusKept /\ TargetsKept
    BY <1>4, <2>2 DEF CommandPipeline, Known
  <2>3. ASSUME NEW j \in Jobs, CommandShutdown(o, j)
        PROVE  StatusKept /\ TargetsKept
    <3>1. Recorded(j) /\ "shutdown" \in Verbs
      BY <2>3 DEF CommandShutdown, Active, ActiveStatus, Recorded, Verbs
    <3>2. QED BY <1>4, <2>3, <3>1 DEF CommandShutdown
  <2>4. QED BY <1>5, <2>1, <2>2, <2>3, VerbsAssumption DEF VerbsAssumption, Order
<1>6. CASE CancelScope(o) \/ OperatorCrash(o)
  <2>1. Abandon(o) \/ \E pc \in OperatorState : OpTo(o, pc)
    BY <1>6 DEF CancelScope, OperatorCrash, OperatorState
  <2>2. UNCHANGED <<row, submitter, associated, sweep>>
    BY <1>6 DEF CancelScope, OperatorCrash, submitterVars
  <2>3. QED BY <1>2, <1>3, <2>1, <2>2 DEF StatusKept
<1>7. ASSUME NEW j \in Jobs, Visit(o, j) PROVE StatusKept /\ TargetsKept
  <2>1. /\ j \in op[o].todo /\ op[o].verb \in Verbs
        /\ UNCHANGED <<submitter, associated, sweep>>
    BY <1>7 DEF Visit, Announce, ActCancel, ActSignal, Undelivered, WriteMissing, WriteMark, ServiceGone,
                ServiceTimeout, WriteForced, At, submitterVars, TypeOK, Command
  <2>2. UNCHANGED row \/ \E s \in Statuses \ {"none", "queued"} : SetStatus(j, s)
    <3>1. CASE Announce(o, j) \/ ActCancel(o, j) \/ ActSignal(o, j) \/ ServiceTimeout(o, j)
      BY <3>1 DEF Announce, ActCancel, ActSignal, ServiceTimeout
    <3>2. CASE WriteMark(o, j)
      BY <2>1, <3>2, MarkIsControl, StatusNames DEF WriteMark
    <3>3. CASE WriteMissing(o, j) \/ ServiceGone(o, j) \/ WriteForced(o, j)
      BY <3>3, StatusNames DEF WriteMissing, ServiceGone, WriteForced
    <3>4. QED BY <1>7, <3>1, <3>2, <3>3 DEF Visit
  <2>3. StatusKept
    BY <1>1, <2>1, <2>2 DEF StatusKept
  <2>4. \/ Abandon(o)
        \/ \E pc \in OperatorState : OpTo(o, pc)
        \/ \E k \in Jobs : NextTarget(o, k)
    BY <1>7 DEF Visit, Announce, ActCancel, ActSignal, Undelivered, WriteMissing, WriteMark, ServiceGone,
                ServiceTimeout, WriteForced, OperatorState
  <2>5. QED BY <1>2, <1>3, <2>1, <2>3, <2>4
<1>8. QED BY <1>5, <1>6, <1>7 DEF Control

LEMMA SweepStatus ==
  ASSUME TypeOK, Known, Sweep
  PROVE  StatusKept /\ TargetsKept
<1> USE DEF submitterVars, operatorVars, TypeOK
<1>1. CASE SweepSelect
  BY <1>1 DEF SweepSelect, StatusKept, TargetsKept, Active, ActiveStatus, Recorded
<1>2. ASSUME NEW j \in Jobs, SweepProbe(j) PROVE StatusKept /\ TargetsKept
  BY <1>2 DEF SweepProbe, StatusKept, TargetsKept
<1>3. ASSUME NEW j \in Jobs, SweepWrite(j) PROVE StatusKept /\ TargetsKept
  <2>1. /\ j \in sweep.stale /\ SetStatus(j, "stale")
        /\ UNCHANGED <<submitter, associated, op>>
    BY <1>3 DEF SweepWrite
  <2>2. \A k \in Jobs : row'[k].status = IF k = j THEN "stale" ELSE row[k].status
    BY <2>1, StatusSet
  <2>3. Recorded(j) /\ submitter[j] # "idle"
    BY <2>1 DEF Known
  <2>4. sweep'.unread = sweep.unread /\ sweep'.stale \subseteq sweep.stale
    BY <1>3 DEF SweepWrite
  <2>5. QED BY <2>1, <2>2, <2>3, <2>4 DEF StatusKept, TargetsKept
<1>4. QED BY <1>1, <1>2, <1>3 DEF Sweep

LEMMA NextStatus ==
  ASSUME TypeOK, Known, Unstarted, [Next]_vars
  PROVE  StatusKept /\ TargetsKept
<1>1. CASE UNCHANGED vars
  BY <1>1 DEF vars, submitterVars, operatorVars, StatusKept, TargetsKept
<1>2. ASSUME NEW j \in Jobs, Step(j) PROVE StatusKept /\ TargetsKept
  BY <1>2, StepChanges DEF StatusKept, TargetsKept, submitterVars, operatorVars
<1>3. CASE Next
  BY <1>2, <1>3, SubmitStatus, WorkStatus, ControlStatus, SweepStatus DEF Next
<1>4. QED BY <1>1, <1>3

LEMMA KnownKept ==
  ASSUME TypeOK, TypeOK', Known, Unstarted, [Next]_vars
  PROVE  Known'
<1>1. StatusKept /\ TargetsKept
  BY NextStatus
<1>2. \A j \in Jobs : Recorded(j) => Recorded(j)'
  BY <1>1 DEF StatusKept, Recorded
<1>3. \A j \in Jobs : Recorded(j)' <=> submitter'[j] # "idle"
  BY <1>1 DEF StatusKept, Recorded, Known
<1>4. \A j \in associated' : Recorded(j)'
  BY <1>1, <1>2 DEF TargetsKept, Known, TypeOK
<1>5. \A o \in Operators : \A j \in op'[o].todo : Recorded(j)'
  BY <1>1, <1>2 DEF TargetsKept, Known, TypeOK, Command
<1>6. \A j \in sweep'.unread \union sweep'.stale : Recorded(j)'
  BY <1>1, <1>2 DEF TargetsKept, Known, TypeOK
<1>7. QED BY <1>3, <1>4, <1>5, <1>6 DEF Known

\* The places of a worker that has not claimed its job, or does nothing any more.
Off == {"none", "boot", "denied", "exit", "done", "dead"}

\* A worker leaves these places only by claiming a queued job, and begins no stage and
\* starts no step process there.
StaysOff ==
  \A j \in Jobs : worker[j] \in Off =>
    /\ stages'[j] = stages[j]
    /\ NoSteps(j) => NoSteps(j)'
    /\ row[j].status # "queued" => worker'[j] \in Off

LEMMA NextStaysOff ==
  ASSUME TypeOK, [Next]_vars
  PROVE  StaysOff
<1> USE DEF StaysOff, Off, TypeOK, NoSteps, workerVars
<1>1. CASE UNCHANGED vars
  BY <1>1 DEF vars
<1>2. CASE Sweep
  BY <1>2 DEF Sweep, SweepSelect, SweepProbe, SweepWrite
<1>3. ASSUME NEW j \in Jobs, Submit(j) \/ SessionCrash(j) \/ ReapWorker(j)
      PROVE  StaysOff
  BY <1>3 DEF Submit, RecordJob, PublishRequested, SnapshotVariables, SpawnWorker,
              UpdateJobPid, SessionCrash, ReapWorker
<1>4. ASSUME NEW j \in Jobs, Work(j) \/ WorkerCrash(j)
      PROVE  StaysOff
  <2> USE DEF WorkerAt, WorkerTo
  <2>1. CASE ClaimJob(j) \/ PublishClaim(j) \/ ClaimRaises(j) \/ StartJob(j) \/ StartRaises(j)
    BY <2>1 DEF ClaimJob, PublishClaim, ClaimRaises, StartJob, StartRaises
  <2>2. CASE CheckCancelled(j) \/ BeginStage(j) \/ EndStage(j) \/ RunRaises(j) \/ RunReturns(j)
    BY <2>2 DEF CheckCancelled, BeginStage, EndStage, RunRaises, RunReturns
  <2>3. CASE FailJob(j) \/ FinishJob(j) \/ ExitWorker(j)
    BY <2>3 DEF FailJob, FinishJob, ExitWorker
  <2>4. CASE WorkerCrash(j)
    BY <2>4 DEF WorkerCrash, Sigkill
  <2>5. CASE FanOut(j) \/ JoinSteps(j) \/ Interrupt(j)
    BY <2>5 DEF FanOut, JoinSteps, Interrupt
  <2>6. ASSUME NEW i \in StepIds, SpawnStep(j, i) PROVE StaysOff
    <3>1. \A k \in Jobs \ {j} : steps'[k] = steps[k]
      BY <2>6, StepsMove DEF SpawnStep, StepState
    <3>2. worker[j] = "spawning" /\ UNCHANGED <<worker, stages>>
      BY <2>6 DEF SpawnStep
    <3>3. QED BY <3>1, <3>2
  <2>7. QED BY <1>4, <2>1, <2>2, <2>3, <2>4, <2>5, <2>6 DEF Work, Proceed
<1>5. ASSUME NEW o \in Operators,
             \/ Order(o) \/ Control(o) \/ OperatorCrash(o)
             \/ \E j \in Jobs : CommandShutdown(o, j)
      PROVE  StaysOff
  <2>1. CASE Order(o) \/ \E j \in Jobs : CommandShutdown(o, j)
    BY <2>1 DEF Order, CommandJob, CommandPipeline, CommandShutdown, Give
  <2>2. CASE CancelScope(o) \/ OperatorCrash(o)
    BY <2>2 DEF CancelScope, OperatorCrash
  <2>3. ASSUME NEW j \in Jobs, Announce(o, j) \/ ActCancel(o, j) \/ WriteMissing(o, j)
                               \/ WriteMark(o, j) \/ ServiceGone(o, j) \/ WriteForced(o, j)
        PROVE  StaysOff
    BY <2>3 DEF Announce, ActCancel, WriteMissing, WriteMark, ServiceGone, WriteForced
  <2>4. ASSUME NEW j \in Jobs, ActSignal(o, j) \/ ServiceTimeout(o, j)
        PROVE  StaysOff
    BY <2>4 DEF ActSignal, ServiceTimeout, Sigkill
  <2>5. QED BY <1>5, <2>1, <2>2, <2>3, <2>4 DEF Control, Visit
<1>6. ASSUME NEW j \in Jobs, Step(j) PROVE StaysOff
  BY <1>6, StepChanges, StepsLeft
<1>7. QED BY <1>1, <1>2, <1>3, <1>4, <1>5, <1>6 DEF Next

(* DivertedNeverRuns: whatever is written over a row that left queued before its      *)
(* worker claimed the job, the status never says queued again, so no claim succeeds,  *)
(* no stage begins and nothing is fanned out.                                         *)
THEOREM DivertedJobsNeverRun == Spec => DivertedNeverRuns
<1> SUFFICES ASSUME NEW j \in Jobs PROVE Spec => [](Diverted(j) => [](stages[j] = 0 /\ NoSteps(j)))
  BY DEF DivertedNeverRuns
<1> DEFINE Inv == TypeOK /\ Unstarted /\ Phases /\ Known
           Barred == /\ Recorded(j) /\ row[j].status # "queued"
                     /\ worker[j] \in Off /\ stages[j] = 0 /\ NoSteps(j)
<1>1. Spec => []Inv
  <2>1. Init => Known
    BY DEF Init, Known, Recorded, NoCommand
  <2>2. Inv /\ [Next]_vars => Known'
    BY NextTyped, KnownKept
  <2>3. QED BY <2>1, <2>2, LedgersFollowWorkers, PTL DEF Spec
<1>2. Inv /\ Diverted(j) => Barred
  BY DEF Diverted, Phases, Off
<1>3. Inv /\ Barred /\ [Next]_vars => Barred'
  <2> SUFFICES ASSUME Inv, Barred, [Next]_vars PROVE Barred'
    OBVIOUS
  <2>1. StatusKept /\ StaysOff
    BY NextStatus, NextStaysOff
  <2>2. Recorded(j)' /\ row'[j].status # "queued"
    BY <2>1 DEF StatusKept, Recorded, Known
  <2>3. worker'[j] \in Off /\ stages'[j] = 0 /\ NoSteps(j)'
    BY <2>1 DEF StaysOff
  <2>4. QED BY <2>2, <2>3
<1>4. Barred => stages[j] = 0 /\ NoSteps(j)
  OBVIOUS
<1>5. QED
  <2> HIDE DEF Inv, Barred
  <2>1. QED BY <1>1, <1>2, <1>3, <1>4, PTL DEF Spec

-----------------------------------------------------------------------------
(* The contract. *)

Outcomes(j) == ledger[j] \intersect OutcomeTopics

\* A worker at these places has not fanned out, and is not about to.
Sequential == {"claimed", "starting", "started", "between", "checked", "stage"}

\* A claimed row never says queued again; who is in a stage has begun one, who fans out
\* has not, and who finishes has begun a stage or started steps, which are over.
TakenOne(j) ==
  /\ worker[j] \notin Off => row[j].status \notin {"none", "queued"}
  /\ worker[j] = "stage" => stages[j] > 0
  /\ worker[j] = "spawning" => stages[j] = 0
  /\ worker[j] \in Sequential => NoSteps(j)
  /\ worker[j] = "finishing" => StepsQuiet(j) /\ (stages[j] > 0 \/ ~ NoSteps(j))

Taken == \A j \in Jobs : TakenOne(j)

\* What one step does to one job: nothing that the contract speaks of, ...
Same(j) ==
  /\ row'[j].status = row[j].status /\ Outcomes(j)' = Outcomes(j)
  /\ worker'[j] = worker[j] /\ stages'[j] = stages[j] /\ lateStages'[j] = lateStages[j]

Rests(j) == Same(j) /\ steps'[j] = steps[j]

Counts(j) == /\ stages'[j] = stages[j] /\ lateStages'[j] = lateStages[j]
             /\ steps'[j] = steps[j]

\* ... it submits or starts it, ...
Submits(j) ==
  /\ row[j].status = "none" /\ row'[j].status = "queued" /\ worker'[j] = worker[j]
  /\ Outcomes(j)' = Outcomes(j) /\ Counts(j) /\ UNCHANGED cancels
  /\ worker[j] = "none"

Starts(j) ==
  /\ worker[j] = "none" /\ worker'[j] = "boot"
  /\ row'[j].status = row[j].status /\ Outcomes(j)' = Outcomes(j) /\ Counts(j)

\* ... it writes another status over that of a recorded job, ...
Marks(j) ==
  /\ row[j].status # "none" /\ row'[j].status \notin {"none", "queued"}
  /\ worker'[j] = worker[j] /\ Outcomes(j)' = Outcomes(j) /\ Counts(j) /\ UNCHANGED cancels

\* ... or it is one of the worker's: it claims, goes on, begins a stage, publishes the end,
\* or is at work no more.
Claims(j) ==
  /\ worker[j] = "boot" /\ row[j].status = "queued"
  /\ worker'[j] = "claimed" /\ row'[j].status = "claimed"
  /\ Outcomes(j)' = Outcomes(j) /\ Counts(j) /\ UNCHANGED cancels

GoesOn(j) ==
  /\ worker[j] \in Working /\ worker'[j] \in Working
  /\ row'[j].status = row[j].status \/ row'[j].status = "running"
  /\ worker'[j] # "stage" /\ (worker'[j] \in Sequential => worker[j] \in Sequential)
  /\ worker'[j] = "spawning" => stages[j] = 0
  /\ worker'[j] = "finishing" => StepsQuiet(j) /\ (stages[j] > 0 \/ ~ NoSteps(j))
  /\ Outcomes(j)' = Outcomes(j) /\ Counts(j)

Begins(j) ==
  /\ worker[j] = "checked" /\ worker'[j] = "stage"
  /\ row'[j].status = row[j].status /\ Outcomes(j)' = Outcomes(j) /\ UNCHANGED cancels
  /\ stages'[j] = stages[j] + 1 /\ steps'[j] = steps[j]
  /\ lateStages'[j] = IF CancellationRequested(j) THEN lateStages[j] + 1 ELSE lateStages[j]

Concludes(j) ==
  /\ \/ /\ worker[j] = "failing" /\ worker'[j] = "failedPublished"
        /\ Outcomes(j)' = Outcomes(j) \union {"job.failed"}
     \/ /\ worker[j] = "finishing" /\ worker'[j] = "finishedPublished"
        /\ Outcomes(j)' = Outcomes(j) \union {"job.finished"}
  /\ row'[j].status = row[j].status /\ Counts(j) /\ UNCHANGED cancels

Leaves(j) ==
  /\ worker'[j] \in {"denied", "exit", "done", "dead"}
  /\ \/ row'[j].status = row[j].status
     \/ worker[j] \notin Off /\ row'[j].status \in {"finished", "failed"}
  /\ worker'[j] = "denied" => row[j].status # "queued"
  /\ Outcomes(j)' = Outcomes(j) /\ Counts(j) /\ UNCHANGED cancels

\* ... or one of its step processes is started, or moves by itself.
Spawns(j) ==
  /\ Same(j) /\ UNCHANGED cancels
  /\ worker[j] = "spawning"
  /\ \E i \in StepIds : steps[j][i] = "none" /\ steps'[j] = [steps[j] EXCEPT ![i] = "boot"]

StepsOn(j) ==
  /\ Same(j)
  /\ \E i \in StepIds, s \in StepState :
       StepMoves(j, i, s) /\ steps'[j] = [steps[j] EXCEPT ![i] = s]

Moves(j) == \/ Spawns(j) \/ StepsOn(j) \/ Rests(j) \/ Submits(j) \/ Starts(j) \/ Marks(j)
            \/ Claims(j) \/ GoesOn(j) \/ Begins(j) \/ Concludes(j) \/ Leaves(j)

\* One step moves one job at most.
OneMoves == \/ \A k \in Jobs : Rests(k)
            \/ \E j \in Jobs : Moves(j) /\ \A k \in Jobs \ {j} : Rests(k)

LEMMA StatusWriteMoves ==
  ASSUME TypeOK, NEW j \in Jobs, Recorded(j), NEW s, s \notin {"none", "queued"}, SetStatus(j, s),
         UNCHANGED <<ledger, worker, stages, lateStages, steps, cancels>>
  PROVE  OneMoves
<1>1. \A k \in Jobs : row'[k].status = IF k = j THEN s ELSE row[k].status
  BY StatusSet DEF TypeOK
<1>2. Marks(j)
  BY <1>1 DEF Marks, Recorded, Outcomes, Counts
<1>3. \A k \in Jobs \ {j} : Rests(k)
  BY <1>1 DEF Rests, Same, Outcomes
<1>4. QED BY <1>2, <1>3 DEF OneMoves, Moves

LEMMA SigkillMoves ==
  ASSUME TypeOK, NEW j \in Jobs, Sigkill(j), UNCHANGED <<row, ledger, stages, lateStages, steps, cancels>>
  PROVE  OneMoves
<1>1. UNCHANGED worker \/ worker' = [worker EXCEPT ![j] = IF @ = "done" THEN @ ELSE "dead"]
  BY DEF Sigkill
<1>2. \A k \in Jobs \ {j} : Rests(k)
  BY <1>1 DEF Rests, Same, Outcomes, TypeOK
<1>3. Rests(j) \/ Leaves(j)
  BY <1>1 DEF Rests, Same, Leaves, Outcomes, Counts, TypeOK
<1>4. QED BY <1>2, <1>3 DEF OneMoves, Moves

LEMMA SubmitMoves ==
  ASSUME TypeOK, Known, Unstarted, NEW j \in Jobs, Submit(j) \/ SessionCrash(j) \/ ReapWorker(j)
  PROVE  OneMoves
<1> USE DEF TypeOK, submitterVars, workerVars, Outcomes
<1>1. CASE RecordJob(j)
  <2>1. UNCHANGED <<ledger, worker, stages, lateStages, steps, cancels>> /\ submitter[j] = "idle"
    BY <1>1 DEF RecordJob
  <2>a. PICK b \in BOOLEAN : row' = [row EXCEPT ![j] = [status |-> "queued", pid |-> b]]
    BY <1>1 DEF RecordJob
  <2>2. \A k \in Jobs : row'[k].status = IF k = j THEN "queued" ELSE row[k].status
    BY <2>a, StatusBoth
  <2>3. row[j].status = "none" /\ worker[j] = "none"
    BY <2>1 DEF Known, Recorded, Unstarted
  <2>4. Submits(j)
    BY <2>1, <2>2, <2>3 DEF Submits, Counts
  <2>5. \A k \in Jobs \ {j} : Rests(k)
    BY <2>1, <2>2 DEF Rests, Same
  <2>6. QED BY <2>4, <2>5 DEF OneMoves, Moves
<1>2. CASE PublishRequested(j)
  <2>1. /\ UNCHANGED <<row, stages, lateStages, steps>> /\ Publish(j, "job.requested")
        /\ \/ UNCHANGED worker
           \/ worker[j] = "none" /\ worker' = [worker EXCEPT ![j] = "boot"]
    BY <1>2 DEF PublishRequested, Unstarted
  <2>2. \A k \in Jobs : Outcomes(k)' = Outcomes(k)
    BY <2>1 DEF Publish, OutcomeTopics
  <2>4. \A k \in Jobs \ {j} : Rests(k)
    BY <2>1, <2>2 DEF Rests, Same
  <2>5. Starts(j) \/ Rests(j)
    BY <2>1, <2>2 DEF Starts, Rests, Same, Counts
  <2>6. QED BY <2>4, <2>5 DEF OneMoves, Moves
<1>3. CASE SpawnWorker(j)
  <2>1. /\ UNCHANGED <<row, stages, lateStages, steps, ledger>>
        /\ worker' = [worker EXCEPT ![j] = "boot"] /\ submitter[j] = "snapshotted"
    BY <1>3 DEF SpawnWorker
  <2>2. worker[j] = "none"
    BY <2>1 DEF Unstarted
  <2>3. \A k \in Jobs \ {j} : Rests(k)
    BY <2>1 DEF Rests, Same
  <2>4. Starts(j)
    BY <2>1, <2>2 DEF Starts, Counts
  <2>5. QED BY <2>3, <2>4 DEF OneMoves, Moves
<1>4. CASE UpdateJobPid(j)
  <2>1. \A k \in Jobs : row'[k].status = row[k].status
    BY <1>4, StatusPid DEF UpdateJobPid
  <2>2. QED BY <1>4, <2>1 DEF UpdateJobPid, Rests, Same, OneMoves
<1>5. CASE SnapshotVariables(j) \/ SessionCrash(j) \/ ReapWorker(j)
  BY <1>5 DEF SnapshotVariables, SessionCrash, ReapWorker, Rests, Same, OneMoves
<1>6. QED BY <1>1, <1>2, <1>3, <1>4, <1>5 DEF Submit

LEMMA WorkMoves ==
  ASSUME TypeOK, Taken, NEW j \in Jobs, Work(j) \/ WorkerCrash(j)
  PROVE  OneMoves
<1> USE DEF TypeOK, submitterVars, workerVars, WorkerAt, WorkerTo
<1>a. ASSUME NEW w, worker' = [worker EXCEPT ![j] = w], UNCHANGED <<ledger, stages, lateStages, steps>>,
             \A k \in Jobs \ {j} : row'[k].status = row[k].status
      PROVE  /\ worker'[j] = w /\ Outcomes(j)' = Outcomes(j) /\ Counts(j)
             /\ \A k \in Jobs \ {j} : Rests(k)
  BY <1>a DEF Outcomes, Counts, Rests, Same
<1>b. ASSUME Moves(j), \A k \in Jobs \ {j} : Rests(k) PROVE OneMoves
  BY <1>b DEF OneMoves
<1>1. CASE ClaimJob(j)
  <2>1. CASE row[j].status = "queued"
    <3>1. /\ row' = [row EXCEPT ![j] = [status |-> "claimed", pid |-> TRUE]]
          /\ worker' = [worker EXCEPT ![j] = "claimed"] /\ worker[j] = "boot"
          /\ UNCHANGED <<ledger, stages, lateStages, steps, cancels>>
      BY <1>1, <2>1 DEF ClaimJob
    <3>2. \A k \in Jobs : row'[k].status = IF k = j THEN "claimed" ELSE row[k].status
      BY <3>1 DEF Rows
    <3>3. QED BY <1>a, <1>b, <2>1, <3>1, <3>2 DEF Claims, Moves
  <2>2. CASE row[j].status # "queued"
    <3>1. /\ worker' = [worker EXCEPT ![j] = "denied"] /\ worker[j] = "boot"
          /\ UNCHANGED <<row, ledger, stages, lateStages, steps, cancels>>
      BY <1>1, <2>2 DEF ClaimJob
    <3>2. QED BY <1>a, <1>b, <2>2, <3>1 DEF Leaves, Moves
  <2>3. QED BY <2>1, <2>2
<1>2. CASE PublishClaim(j)
  <2>1. PICK w \in {"starting", "exit"} :
          /\ worker' = [worker EXCEPT ![j] = w] /\ UNCHANGED <<row, stages, lateStages, steps, cancels>>
          /\ Publish(j, "job.claimed") \/ Publish(j, "job.claim.denied")
          /\ w = "starting" => worker[j] = "claimed"
    BY <1>2 DEF PublishClaim
  <2>2. \A k \in Jobs : Outcomes(k)' = Outcomes(k)
    BY <2>1 DEF Publish, OutcomeTopics, Outcomes
  <2>3. \A k \in Jobs \ {j} : Rests(k)
    BY <2>1, <2>2 DEF Rests, Same
  <2>4. GoesOn(j) \/ Leaves(j)
    BY <2>1, <2>2 DEF GoesOn, Leaves, Working, Sequential, Counts
  <2>5. QED BY <1>b, <2>3, <2>4 DEF Moves
<1>3. CASE ClaimRaises(j) \/ StartRaises(j) \/ RunRaises(j) \/ Interrupt(j)
  <2>1. PICK w \in {"exit", "failing"} :
          /\ worker' = [worker EXCEPT ![j] = w]
          /\ UNCHANGED <<row, ledger, stages, lateStages, steps, cancels>>
          /\ w = "failing" => worker[j] \in {"starting", "started", "between", "stage", "spawning"}
    BY <1>3 DEF ClaimRaises, StartRaises, RunRaises, Interrupt
  <2>2. GoesOn(j) \/ Leaves(j)
    BY <1>a, <2>1 DEF GoesOn, Leaves, Working, Sequential
  <2>3. QED BY <1>a, <1>b, <2>1, <2>2 DEF Moves
<1>c. ASSUME NEW s, SetStatus(j, s)
      PROVE  \A k \in Jobs : row'[k].status = IF k = j THEN s ELSE row[k].status
  BY <1>c, StatusSet
<1>4. CASE StartJob(j)
  <2>1. \/ /\ worker' = [worker EXCEPT ![j] = "started"] /\ worker[j] = "starting"
           /\ SetStatus(j, "running") /\ UNCHANGED <<ledger, stages, lateStages, steps>>
        \/ /\ worker' = [worker EXCEPT ![j] = "between"] /\ worker[j] = "started"
           /\ Publish(j, "job.started") /\ UNCHANGED <<row, stages, lateStages, steps>>
    BY <1>4 DEF StartJob
  <2>2. CASE SetStatus(j, "running") /\ UNCHANGED ledger
    <3>1. row'[j].status = "running" /\ \A k \in Jobs \ {j} : row'[k].status = row[k].status
      BY <2>2, <1>c
    <3>2. worker[j] \in Working /\ \E w \in {"started", "between"} : worker' = [worker EXCEPT ![j] = w]
      BY <2>1 DEF Working
    <3>3. GoesOn(j) /\ \A k \in Jobs \ {j} : Rests(k)
      BY <1>a, <2>1, <2>2, <3>1, <3>2 DEF GoesOn, Working, Sequential
    <3>4. QED BY <1>b, <3>3 DEF Moves
  <2>3. CASE Publish(j, "job.started") /\ UNCHANGED row
    <3>1. \A k \in Jobs : Outcomes(k)' = Outcomes(k)
      BY <2>3 DEF Publish, OutcomeTopics, Outcomes
    <3>2. \A k \in Jobs \ {j} : Rests(k)
      BY <2>1, <2>3, <3>1 DEF Rests, Same
    <3>3. GoesOn(j)
      BY <2>1, <2>3, <3>1 DEF GoesOn, Working, Sequential, Counts
    <3>4. QED BY <1>b, <3>2, <3>3 DEF Moves
  <2>4. QED BY <2>1, <2>2, <2>3
<1>d. ASSUME NEW w \in {"failing", "checked", "between", "spawning", "finishing"},
             worker' = [worker EXCEPT ![j] = w],
             UNCHANGED <<row, ledger, stages, lateStages, steps>>,
             worker[j] \in {"between", "stage", "spawning"},
             w \in {"checked", "between"} => worker[j] \in {"between", "stage"},
             w = "spawning" => stages[j] = 0,
             w = "finishing" => StepsQuiet(j) /\ (stages[j] > 0 \/ ~ NoSteps(j))
      PROVE  OneMoves
  <2>1. GoesOn(j)
    BY <1>a, <1>d DEF GoesOn, Working, Sequential
  <2>2. QED BY <1>a, <1>b, <1>d, <2>1 DEF Moves
<1>e. worker[j] \in Sequential => StepsQuiet(j)
  BY DEF Taken, TakenOne, NoSteps, StepsQuiet
<1>5. CASE CheckCancelled(j)
  BY <1>5, <1>d DEF CheckCancelled
<1>f. CASE EndStage(j) \/ RunReturns(j)
  <2>1. StepsQuiet(j) /\ stages[j] > 0
    BY <1>f, <1>e DEF EndStage, RunReturns, Taken, TakenOne, Sequential
  <2>2. QED BY <1>f, <1>d, <2>1 DEF EndStage, RunReturns
<1>g. CASE FanOut(j)
  BY <1>g, <1>d DEF FanOut
<1>h. CASE JoinSteps(j)
  <2>1. StepsQuiet(j) /\ ~ NoSteps(j)
    BY <1>h DEF JoinSteps, NoSteps
  <2>2. QED BY <1>h, <1>d, <2>1 DEF JoinSteps
<1>6. CASE BeginStage(j)
  <2>1. /\ worker' = [worker EXCEPT ![j] = "stage"] /\ worker[j] = "checked"
        /\ stages' = [stages EXCEPT ![j] = @ + 1] /\ UNCHANGED <<row, ledger, cancels, steps>>
        /\ lateStages' = [lateStages EXCEPT
             ![j] = IF cancels \intersect {j, Pipeline} # {} THEN @ + 1 ELSE @]
    BY <1>6 DEF BeginStage
  <2>2. CancellationRequested(j) <=> cancels \intersect {j, Pipeline} # {}
    BY DEF CancellationRequested
  <2>3. Begins(j)
    BY <2>1, <2>2 DEF Begins, Outcomes
  <2>4. \A k \in Jobs \ {j} : Rests(k)
    BY <2>1 DEF Rests, Same, Outcomes
  <2>5. QED BY <1>b, <2>3, <2>4 DEF Moves
<1>7. ASSUME NEW from, NEW over, NEW topic \in OutcomeTopics, NEW status \in {"finished", "failed"},
             \/ /\ worker[j] = from /\ worker' = [worker EXCEPT ![j] = over]
                /\ Publish(j, topic) /\ UNCHANGED row
             \/ /\ worker[j] = over /\ worker' = [worker EXCEPT ![j] = "exit"]
                /\ SetStatus(j, status) /\ UNCHANGED ledger,
             UNCHANGED <<cancels, stages, lateStages, steps>>,
             \/ topic = "job.failed" /\ from = "failing" /\ over = "failedPublished"
             \/ topic = "job.finished" /\ from = "finishing" /\ over = "finishedPublished"
      PROVE  OneMoves
  <2>1. CASE worker[j] = from /\ worker' = [worker EXCEPT ![j] = over]
             /\ Publish(j, topic) /\ UNCHANGED row
    <3>1. /\ Outcomes(j)' = Outcomes(j) \union {topic}
          /\ \A k \in Jobs \ {j} : Outcomes(k)' = Outcomes(k)
      BY <1>7, <2>1 DEF Publish, Outcomes
    <3>2. Concludes(j)
      BY <1>7, <2>1, <3>1 DEF Concludes, Counts
    <3>3. \A k \in Jobs \ {j} : Rests(k)
      BY <1>7, <2>1, <3>1 DEF Rests, Same
    <3>4. QED BY <1>b, <3>2, <3>3 DEF Moves
  <2>2. CASE worker[j] = over /\ worker' = [worker EXCEPT ![j] = "exit"]
             /\ SetStatus(j, status) /\ UNCHANGED ledger
    <3>1. row'[j].status = status /\ \A k \in Jobs \ {j} : row'[k].status = row[k].status
      BY <2>2, <1>c
    <3>2. worker[j] \notin Off
      BY <1>7, <2>2 DEF Off
    <3>3. Leaves(j) /\ \A k \in Jobs \ {j} : Rests(k)
      BY <1>7, <1>a, <2>2, <3>1, <3>2 DEF Leaves
    <3>4. QED BY <1>b, <3>3 DEF Moves
  <2>3. QED BY <1>7, <2>1, <2>2
<1>8. CASE FailJob(j)
  BY <1>7, <1>8 DEF FailJob, OutcomeTopics
<1>9. CASE FinishJob(j)
  BY <1>7, <1>9 DEF FinishJob, OutcomeTopics
<1>10. CASE ExitWorker(j)
  <2>1. /\ worker' = [worker EXCEPT ![j] = "done"]
        /\ UNCHANGED <<row, ledger, stages, lateStages, steps, cancels>>
    BY <1>10 DEF ExitWorker
  <2>2. QED BY <1>a, <1>b, <2>1 DEF Leaves, Moves
<1>11. CASE WorkerCrash(j)
  <2>1. UNCHANGED <<row, ledger, stages, lateStages, steps, cancels>> /\ Sigkill(j)
    BY <1>11 DEF WorkerCrash
  <2>2. QED BY <2>1, SigkillMoves
<1>12. ASSUME NEW i \in StepIds, SpawnStep(j, i) PROVE OneMoves
  <2>1. /\ UNCHANGED <<row, ledger, worker, stages, lateStages, cancels>>
        /\ worker[j] = "spawning" /\ steps[j][i] = "none"
        /\ steps' = [steps EXCEPT ![j][i] = "boot"]
    BY <1>12 DEF SpawnStep
  <2>2. steps'[j] = [steps[j] EXCEPT ![i] = "boot"] /\ \A k \in Jobs \ {j} : steps'[k] = steps[k]
    BY <2>1
  <2>3. Spawns(j) /\ \A k \in Jobs \ {j} : Rests(k)
    BY <2>1, <2>2 DEF Spawns, Rests, Same, Outcomes
  <2>4. QED BY <1>b, <2>3 DEF Moves
<1>13. QED
  BY <1>1, <1>2, <1>3, <1>4, <1>5, <1>f, <1>g, <1>h, <1>6, <1>8, <1>9, <1>10, <1>11, <1>12
  DEF Work, Proceed

LEMMA ControlMoves ==
  ASSUME TypeOK, Known, NEW o \in Operators,
         \/ Order(o) \/ Control(o) \/ OperatorCrash(o)
         \/ \E j \in Jobs : CommandShutdown(o, j)
  PROVE  OneMoves
<1> USE DEF TypeOK, submitterVars, workerVars
<1>1. CASE \/ Order(o) \/ CancelScope(o) \/ OperatorCrash(o)
           \/ \E j \in Jobs : CommandShutdown(o, j) \/ ActCancel(o, j)
  <2>1. UNCHANGED <<row, ledger, worker, stages, lateStages, steps>>
    BY <1>1 DEF Order, CommandJob, CommandPipeline, CommandShutdown, Give, CancelScope,
                OperatorCrash, ActCancel
  <2>2. QED BY <2>1 DEF OneMoves, Rests, Same, Outcomes
<1>2. ASSUME NEW j \in Jobs, Announce(o, j) PROVE OneMoves
  <2>1. Announced(op[o].verb) \intersect OutcomeTopics = {}
    BY DEF Announced, OutcomeTopics
  <2>2. QED BY <1>2, <2>1 DEF Announce, OneMoves, Rests, Same, Outcomes
<1>3. ASSUME NEW j \in Jobs, ActSignal(o, j) \/ ServiceTimeout(o, j) PROVE OneMoves
  <2>1. /\ UNCHANGED <<row, ledger, stages, lateStages, steps, cancels>>
        /\ Sigkill(j) \/ UNCHANGED worker
    BY <1>3 DEF ActSignal, ServiceTimeout
  <2>2. CASE UNCHANGED worker
    BY <2>1, <2>2 DEF OneMoves, Rests, Same, Outcomes
  <2>3. QED BY <2>1, <2>2, SigkillMoves
<1>4. ASSUME NEW j \in op[o].todo, NEW s, s \notin {"none", "queued"}, SetStatus(j, s),
             UNCHANGED <<ledger, worker, stages, lateStages, steps, cancels>>
      PROVE  OneMoves
  <2>1. j \in Jobs /\ Recorded(j)
    BY <1>4 DEF Known, Command
  <2>2. QED BY <1>4, <2>1, StatusWriteMoves
<1>5. ASSUME NEW j \in Jobs, WriteMissing(o, j) \/ ServiceGone(o, j) \/ WriteForced(o, j)
      PROVE  OneMoves
  BY <1>4, <1>5 DEF WriteMissing, ServiceGone, WriteForced, At
<1>6. ASSUME NEW j \in Jobs, WriteMark(o, j) PROVE OneMoves
  <2>1. op[o].verb \in Verbs
    BY DEF Command
  <2>2. QED BY <1>4, <1>6, <2>1, MarkIsControl DEF WriteMark, At
<1>7. QED BY <1>1, <1>2, <1>3, <1>5, <1>6 DEF Control, Visit

LEMMA NextMoves ==
  ASSUME TypeOK, Known, Unstarted, Taken, [Next]_vars
  PROVE  OneMoves
<1>1. CASE UNCHANGED vars
  BY <1>1 DEF vars, workerVars, OneMoves, Rests, Same, Outcomes
<1>2. CASE Sweep
  <2>1. CASE SweepSelect \/ \E j \in Jobs : SweepProbe(j)
    BY <2>1 DEF SweepSelect, SweepProbe, workerVars, OneMoves, Rests, Same, Outcomes
  <2>2. ASSUME NEW j \in Jobs, SweepWrite(j) PROVE OneMoves
    <3>1. Recorded(j)
      BY <2>2 DEF SweepWrite, Known
    <3>2. QED BY <2>2, <3>1, StatusWriteMoves DEF SweepWrite, workerVars
  <2>3. QED BY <1>2, <2>1, <2>2 DEF Sweep
<1>3. ASSUME NEW j \in Jobs, Step(j) PROVE OneMoves
  <2>1. UNCHANGED <<row, ledger, worker, stages, lateStages>>
    BY <1>3, StepChanges
  <2>2. PICK i \in StepIds, s \in StepState :
          StepMoves(j, i, s) /\ steps' = [steps EXCEPT ![j][i] = s]
    BY <1>3, StepChanges
  <2>3. steps'[j] = [steps[j] EXCEPT ![i] = s] /\ \A k \in Jobs \ {j} : steps'[k] = steps[k]
    BY <2>2 DEF TypeOK
  <2>4. StepsOn(j) /\ \A k \in Jobs \ {j} : Rests(k)
    BY <2>1, <2>2, <2>3 DEF StepsOn, Rests, Same, Outcomes
  <2>5. QED BY <2>4 DEF OneMoves, Moves
<1>4. CASE Next
  BY <1>2, <1>3, <1>4, SubmitMoves, WorkMoves, ControlMoves DEF Next
<1>5. QED BY <1>1, <1>4

(* Steps that are over stay over, and a job that fans out goes on to have done so. *)
LEMMA StepsSettle ==
  ASSUME TypeOK, NEW j \in Jobs, StepsOn(j) \/ Spawns(j)
  PROVE  /\ StepsOn(j) => ~ StepsQuiet(j) /\ ~ NoSteps(j)
         /\ worker[j] \in Sequential \union {"finishing"} => StepsOn(j)
<1>1. StepsOn(j) => ~ StepsQuiet(j) /\ ~ NoSteps(j)
  BY DEF StepsOn, StepMoves, StepsQuiet, NoSteps
<1>2. QED BY <1>1 DEF Spawns, Sequential

LEMMA NextTaken ==
  ASSUME TypeOK, Phases, Taken, OneMoves
  PROVE  Taken'
<1>a. ASSUME NEW j \in Jobs, steps'[j] = steps[j]
      PROVE  (NoSteps(j)' <=> NoSteps(j)) /\ (StepsQuiet(j)' <=> StepsQuiet(j))
  BY <1>a DEF NoSteps, StepsQuiet
<1>1. ASSUME NEW j \in Jobs, Moves(j)
      PROVE  TakenOne(j)'
  <2>0. TakenOne(j)
    BY DEF Taken
  <2> USE DEF TakenOne, Off, Sequential
  <2>1. stages[j] \in Nat
    BY DEF TypeOK
  <2>2. CASE Rests(j) \/ Submits(j) \/ Starts(j) \/ Marks(j)
    BY <1>a, <2>0, <2>2 DEF Rests, Same, Submits, Starts, Marks, Counts
  <2>3. CASE Claims(j)
    <3>1. NoSteps(j)
      BY <2>3 DEF Claims, Phases
    <3>2. QED BY <1>a, <2>3, <3>1 DEF Claims, Counts
  <2>4. CASE GoesOn(j)
    BY <1>a, <2>0, <2>4 DEF GoesOn, Working, Counts
  <2>5. CASE Begins(j)
    BY <1>a, <2>0, <2>1, <2>5 DEF Begins
  <2>6. CASE Concludes(j) \/ Leaves(j)
    BY <2>0, <2>6 DEF Concludes, Leaves
  <2>7. CASE Spawns(j) \/ StepsOn(j)
    <3>1. worker[j] \notin Sequential \union {"finishing"}
      BY <2>0, <2>7, StepsSettle
    <3>2. QED BY <2>0, <2>7, <3>1 DEF Spawns, StepsOn, Same
  <2>8. QED BY <1>1, <2>2, <2>3, <2>4, <2>5, <2>6, <2>7 DEF Moves
<1>2. QED BY <1>1 DEF OneMoves, Moves, Taken

\* The contract sees of a step what it does to the phase of one job, ...
LEMMA PhaseOfRests ==
  ASSUME NEW k \in Jobs, Rests(k) \/ Same(k)
  PROVE  Phase(k)' = Phase(k)
<1>1. /\ "job.finished" \in ledger'[k] <=> "job.finished" \in ledger[k]
      /\ "job.failed" \in ledger'[k] <=> "job.failed" \in ledger[k]
  BY DEF Rests, Same, Outcomes, OutcomeTopics
<1>2. QED BY <1>1 DEF Rests, Same, Phase

\* ... and while nothing but the phase of one job changes, what becomes of it.
LEMMA PhaseMoves ==
  ASSUME NEW j \in Jobs, \A k \in Jobs \ {j} : Rests(k), NEW p, Phase(j)' = p
  PROVE  PhaseOf' = [PhaseOf EXCEPT ![j] = p]
<1>1. \A k \in Jobs \ {j} : Phase(k)' = Phase(k)
  BY PhaseOfRests
<1>2. PhaseOf' = [k \in Jobs |-> IF k = j THEN p ELSE Phase(k)]
  BY <1>1 DEF PhaseOf
<1>3. QED BY <1>2 DEF PhaseOf

LEMMA CountsMove ==
  ASSUME TypeOK, TypeOK', NEW j \in Jobs, \A k \in Jobs \ {j} : Rests(k), Counts(j)
  PROVE  UNCHANGED stages /\ UNCHANGED LateOf /\ UNCHANGED steps
<1>1. \A k \in Jobs : /\ stages'[k] = stages[k] /\ lateStages'[k] = lateStages[k]
                      /\ steps'[k] = steps[k]
  BY DEF Rests, Same, Counts
<1>2. QED BY <1>1 DEF TypeOK, LateOf

LEMMA AskedMoves ==
  ASSUME cancels \subseteq cancels'
  PROVE  /\ AskedOf \subseteq AskedOf' /\ AskedOf' \in SUBSET Jobs
         /\ UNCHANGED cancels => UNCHANGED AskedOf
BY DEF AskedOf, CancellationRequested

LEMMA MoveIsContract ==
  ASSUME TypeOK, TypeOK', Phases, Taken, LateStageIsLast, cancels \subseteq cancels',
         NEW j \in Jobs, Moves(j), \A k \in Jobs \ {j} : Rests(k)
  PROVE  [Contract!Next]_<<PhaseOf, stages, AskedOf, LateOf, steps>>
<1> DEFINE Goal == [Contract!Next]_<<PhaseOf, stages, AskedOf, LateOf, steps>>
<1>a. ASSUME Phase(j)' = Phase(j), Counts(j)
      PROVE  Goal
  <2>1. UNCHANGED PhaseOf
    BY <1>a, PhaseMoves DEF PhaseOf
  <2>2. Contract!Ask
    BY <1>a, <2>1, CountsMove, AskedMoves DEF Contract!Ask, Contract!Asking
  <2>3. QED BY <2>2 DEF Contract!Next
<1>b. ASSUME NEW from, Phase(j) \in from, NEW to, Phase(j)' = to, Counts(j), UNCHANGED cancels
      PROVE  /\ Contract!Become(j, from, to)
             /\ UNCHANGED <<stages, AskedOf, LateOf, steps>>
  <2>1. PhaseOf[j] = Phase(j)
    BY DEF PhaseOf
  <2>2. QED BY <1>b, <2>1, PhaseMoves, CountsMove, AskedMoves DEF Contract!Become
<1>c. ASSUME Outcomes(j)' = Outcomes(j)
      PROVE  /\ "job.finished" \in ledger'[j] <=> "job.finished" \in ledger[j]
             /\ "job.failed" \in ledger'[j] <=> "job.failed" \in ledger[j]
  BY <1>c DEF Outcomes, OutcomeTopics
<1>d. ASSUME worker[j] \in Working \union {"none", "boot", "denied"}
      PROVE  "job.finished" \notin ledger[j] /\ "job.failed" \notin ledger[j]
  BY <1>d DEF Phases, Working, OutcomeTopics
<1>1. CASE Rests(j)
  BY <1>1, <1>a, PhaseOfRests DEF Rests, Same, Counts
<1>2. CASE Submits(j)
  <2>1. Phase(j) = "none" /\ Phase(j)' = "queued"
    BY <1>2, <1>c, <1>d DEF Submits, Phase, Working
  <2>2. Contract!Submit(j)
    BY <1>2, <1>b, <2>1 DEF Submits, Contract!Submit
  <2>3. QED BY <2>2 DEF Contract!Next
<1>3. CASE Starts(j)
  <2>1. Phase(j)' = Phase(j)
    BY <1>3, <1>c DEF Starts, Phase, Working
  <2>2. QED BY <1>3, <1>a, <2>1 DEF Starts
<1>4. CASE Marks(j)
  <2>1. CASE Phase(j) = "queued"
    <3>1. Phase(j)' = "over"
      BY <1>4, <1>c, <2>1 DEF Marks, Phase
    <3>2. Contract!Drop(j)
      BY <1>4, <1>b, <2>1, <3>1 DEF Marks, Contract!Drop
    <3>3. QED BY <3>2 DEF Contract!Next
  <2>2. CASE Phase(j) # "queued"
    <3>1. Phase(j)' = Phase(j)
      BY <1>4, <1>c, <2>2 DEF Marks, Phase
    <3>2. QED BY <1>4, <1>a, <3>1 DEF Marks
  <2>3. QED BY <2>1, <2>2
<1>5. CASE Claims(j)
  <2>1. Phase(j) = "queued" /\ Phase(j)' = "working"
    BY <1>5, <1>c, <1>d DEF Claims, Phase, Working
  <2>2. Contract!Claim(j)
    BY <1>5, <1>b, <2>1 DEF Claims, Contract!Claim
  <2>3. QED BY <2>2 DEF Contract!Next
<1>6. CASE GoesOn(j)
  <2>1. Phase(j)' = Phase(j)
    BY <1>6, <1>c DEF GoesOn, Phase
  <2>2. QED BY <1>6, <1>a, <2>1 DEF GoesOn
<1>7. CASE Begins(j)
  <2>1. Phase(j) = "working" /\ Phase(j)' = Phase(j)
    BY <1>7, <1>c, <1>d DEF Begins, Phase, Working
  <2>2. UNCHANGED PhaseOf /\ PhaseOf[j] = "working"
    BY <2>1, PhaseMoves DEF PhaseOf
  <2>3. lateStages[j] = 0 /\ j \notin LateOf
    BY <1>7 DEF Begins, LateStageIsLast, LateOf, TypeOK
  <2>4. stages' = [stages EXCEPT ![j] = @ + 1]
    <3>1. \A k \in Jobs \ {j} : stages'[k] = stages[k]
      BY DEF Rests, Same
    <3>2. QED BY <1>7, <3>1 DEF Begins, TypeOK
  <2>5. LateOf' = LateOf \union ({j} \intersect AskedOf)
    <3>1. \A k \in Jobs \ {j} : lateStages'[k] = lateStages[k]
      BY DEF Rests, Same
    <3>2. j \in AskedOf <=> CancellationRequested(j)
      BY DEF AskedOf
    <3>3. j \in LateOf' <=> j \in AskedOf
      BY <1>7, <2>3, <3>2 DEF Begins, LateOf
    <3>4. QED BY <2>3, <3>1, <3>3 DEF LateOf
  <2>6. UNCHANGED AskedOf
    BY <1>7, AskedMoves DEF Begins
  <2>a. steps' = steps /\ \A i \in StepIds : steps[j][i] = "none"
    <3>1. \A k \in Jobs : steps'[k] = steps[k]
      BY <1>7 DEF Begins, Rests, Same
    <3>2. NoSteps(j)
      BY <1>7 DEF Begins, Taken, TakenOne, Sequential
    <3>3. QED BY <3>1, <3>2 DEF TypeOK, NoSteps
  <2>7. Contract!Begin(j)
    BY <2>2, <2>3, <2>4, <2>5, <2>6, <2>a DEF Contract!Begin
  <2>8. QED BY <2>7 DEF Contract!Next
<1>8. CASE Concludes(j)
  <2>1. Phase(j) = "working"
    BY <1>8, <1>d DEF Concludes, Phase, Working
  <2>2. CASE worker[j] = "failing"
    <3>1. "job.finished" \notin ledger'[j] /\ "job.failed" \in ledger'[j]
      BY <1>8, <1>d, <2>2 DEF Concludes, Outcomes, OutcomeTopics, Working
    <3>2. Contract!Fail(j)
      BY <1>8, <1>b, <2>1, <3>1 DEF Concludes, Phase, Contract!Fail
    <3>3. QED BY <3>2 DEF Contract!Next
  <2>3. CASE worker[j] = "finishing"
    <3>1. "job.finished" \in ledger'[j]
      BY <1>8, <2>3 DEF Concludes, Outcomes
    <3>2. /\ stages[j] > 0 \/ \E i \in StepIds : steps[j][i] # "none"
          /\ \A i \in StepIds : steps[j][i] \in {"none", "over"}
      BY <2>3 DEF Taken, TakenOne, NoSteps, StepsQuiet
    <3>a. Contract!Become(j, {"working"}, "finished") /\ UNCHANGED <<stages, AskedOf, LateOf, steps>>
      BY <1>8, <1>b, <2>1, <3>1 DEF Concludes, Phase
    <3>b. Contract!Finish(j)
      BY <3>2, <3>a DEF Contract!Finish
    <3>3. QED BY <3>b DEF Contract!Next
  <2>4. QED BY <1>8, <2>2, <2>3 DEF Concludes
<1>9. CASE Leaves(j)
  <2>1. worker'[j] \notin Working
    BY <1>9 DEF Leaves, Working
  <2>2. CASE Phase(j) = "working"
    <3>1. worker[j] \in Working /\ row[j].status \notin {"none", "queued"}
      BY <2>2, <1>9 DEF Phase, Taken, TakenOne, Off, Working
    <3>2. Phase(j)' = "over"
      BY <1>9, <1>c, <1>d, <2>1, <3>1 DEF Leaves, Phase
    <3>3. Contract!Drop(j)
      BY <1>9, <1>b, <2>2, <3>2 DEF Leaves, Contract!Drop
    <3>4. QED BY <3>3 DEF Contract!Next
  <2>3. CASE Phase(j) # "working"
    <3>1. Phase(j)' = Phase(j)
      BY <1>9, <1>c, <2>1, <2>3 DEF Leaves, Phase, Taken, TakenOne
    <3>2. QED BY <1>9, <1>a, <3>1 DEF Leaves
  <2>4. QED BY <2>2, <2>3
<1>e. ASSUME Same(j), NEW i \in StepIds, NEW s \in StepState,
             steps'[j] = [steps[j] EXCEPT ![i] = s]
      PROVE  /\ UNCHANGED <<PhaseOf, stages, LateOf>>
             /\ steps' = [steps EXCEPT ![j][i] = s]
  <2>1. \A k \in Jobs : Phase(k)' = Phase(k)
    BY <1>e, PhaseOfRests
  <2>2. \A k \in Jobs : stages'[k] = stages[k] /\ lateStages'[k] = lateStages[k]
    BY <1>e DEF Rests, Same
  <2>3. \A k \in Jobs \ {j} : steps'[k] = steps[k]
    BY DEF Rests
  <2>4. steps' = [steps EXCEPT ![j][i] = s]
    BY <1>e, <2>3 DEF TypeOK
  <2>5. QED BY <2>1, <2>2, <2>4 DEF PhaseOf, LateOf, TypeOK
<1>10. CASE Spawns(j)
  <2>1. PICK i \in StepIds :
          steps[j][i] = "none" /\ steps'[j] = [steps[j] EXCEPT ![i] = "boot"]
    BY <1>10 DEF Spawns
  <2>2. UNCHANGED <<PhaseOf, stages, LateOf>> /\ steps' = [steps EXCEPT ![j][i] = "boot"]
    BY <1>10, <1>e, <2>1 DEF Spawns, StepState
  <2>3. PhaseOf[j] = "working"
    BY <1>10, <1>d DEF Spawns, PhaseOf, Phase, Working
  <2>4. stages[j] = 0
    BY <1>10 DEF Spawns, Taken, TakenOne
  <2>5. UNCHANGED AskedOf
    BY <1>10, AskedMoves DEF Spawns
  <2>6. Contract!StartStep(j, i)
    BY <2>1, <2>2, <2>3, <2>4, <2>5 DEF Contract!StartStep, Contract!StepTo
  <2>7. QED BY <2>6 DEF Contract!Next
<1>11. CASE StepsOn(j)
  <2>1. PICK i \in StepIds, s \in StepState :
          StepMoves(j, i, s) /\ steps'[j] = [steps[j] EXCEPT ![i] = s]
    BY <1>11 DEF StepsOn
  <2>2. UNCHANGED <<PhaseOf, stages, LateOf>> /\ steps' = [steps EXCEPT ![j][i] = s]
    BY <1>11, <1>e, <2>1 DEF StepsOn
  <2>3. CASE steps[j][i] = "boot" /\ s = "checked" /\ ~ CancellationRequested(j) /\ UNCHANGED cancels
    <3>1. j \notin AskedOf /\ UNCHANGED AskedOf
      BY <2>3, AskedMoves DEF AskedOf
    <3>2. Contract!Clear(j, i)
      BY <2>2, <2>3, <3>1 DEF Contract!Clear, Contract!StepTo
    <3>3. QED BY <3>2 DEF Contract!Next
  <2>4. CASE steps[j][i] = "checked" /\ s = "stage" /\ UNCHANGED cancels
    <3>1. Contract!BeginStep(j, i)
      BY <2>2, <2>4, AskedMoves DEF Contract!BeginStep, Contract!StepTo
    <3>2. QED BY <3>1 DEF Contract!Next
  <2>5. CASE steps[j][i] \in {"boot", "checked", "stage"} /\ s = "over"
    <3>1. Contract!EndStep(j, i)
      BY <2>2, <2>5, AskedMoves DEF Contract!EndStep, Contract!StepTo, Contract!Asking
    <3>2. QED BY <3>1 DEF Contract!Next
  <2>6. QED BY <2>1, <2>3, <2>4, <2>5 DEF StepMoves
<1>12. QED
  BY <1>1, <1>2, <1>3, <1>4, <1>5, <1>6, <1>7, <1>8, <1>9, <1>10, <1>11 DEF Moves

LEMMA RestIsContract ==
  ASSUME TypeOK, TypeOK', cancels \subseteq cancels', \A k \in Jobs : Rests(k)
  PROVE  [Contract!Next]_<<PhaseOf, stages, AskedOf, LateOf, steps>>
<1>1. UNCHANGED PhaseOf
  BY PhaseOfRests DEF PhaseOf
<1>2. UNCHANGED stages /\ UNCHANGED LateOf /\ UNCHANGED steps
  BY DEF Rests, Same, TypeOK, LateOf
<1>3. Contract!Ask
  BY <1>1, <1>2, AskedMoves DEF Contract!Ask, Contract!Asking
<1>4. QED BY <1>3 DEF Contract!Next

(* ImplementsContract: for any jobs, operators, commands, faults and sweeps, the rows,  *)
(* events and workers of the lifecycle are the plain contract of JobContract.           *)
THEOREM Implements == Spec => ImplementsContract
<1> DEFINE Inv == TypeOK /\ Unstarted /\ Phases /\ Known /\ LateStageIsLast /\ Taken
<1>1. Init => Contract!Init
  <2> SUFFICES ASSUME Init PROVE Contract!Init
    OBVIOUS
  <2>1. \A j \in Jobs : Phase(j) = "none"
    BY DEF Init, Phase, Working
  <2>2. PhaseOf = [j \in Jobs |-> "none"] /\ stages = [j \in Jobs |-> 0]
    BY <2>1 DEF PhaseOf, Init
  <2>3. AskedOf = {} /\ LateOf = {}
    BY DEF Init, AskedOf, LateOf, CancellationRequested
  <2>4. steps = [j \in Jobs |-> [i \in StepIds |-> "none"]]
    BY DEF Init
  <2>5. QED BY <2>2, <2>3, <2>4 DEF Contract!Init
<1>2. Spec => []Inv
  <2>1. Init => Known /\ Taken
    BY DEF Init, Known, Taken, TakenOne, Sequential, Off, Recorded, NoCommand
  <2>2. TypeOK /\ Unstarted /\ Phases /\ Known /\ Taken /\ [Next]_vars => Known' /\ Taken'
    BY NextTyped, KnownKept, NextMoves, NextTaken
  <2>3. QED BY <2>1, <2>2, LedgersFollowWorkers, LateStagesAreLast, PTL DEF Spec
<1>3. Inv /\ Inv' /\ [Next]_vars => [Contract!Next]_<<PhaseOf, stages, AskedOf, LateOf, steps>>
  <2> SUFFICES ASSUME Inv, Inv', [Next]_vars
               PROVE  [Contract!Next]_<<PhaseOf, stages, AskedOf, LateOf, steps>>
    OBVIOUS
  <2>1. cancels \subseteq cancels'
    BY NextCancellation DEF CancellationKept
  <2>2. OneMoves
    BY NextMoves
  <2>3. QED BY <2>1, <2>2, MoveIsContract, RestIsContract DEF OneMoves
<1>4. QED
  <2> HIDE DEF Inv
  <2>1. QED BY <1>1, <1>2, <1>3, PTL DEF Spec, ImplementsContract, Contract!Spec

=============================================================================
