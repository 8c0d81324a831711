---------------------------- MODULE StepExecution ----------------------------
(***************************************************************************)
(* The steps of one pipeline from submission to execution: the snapshot of *)
(* the variables (runner/context.py, db/runtime_state.py), and the plan of *)
(* each step with its repair and its approval (runner/plans.py), inside    *)
(* execute_stage.                                                          *)
(*                                                                         *)
(* A foreground pipeline runs in the shell.  A background pipeline is      *)
(* snapshotted by the shell and runs in a worker, which has variables of   *)
(* its own (the defaults of the plugins it discovers) and no terminal; its *)
(* shell goes on and may change variables.  A step carries the mark of a   *)
(* background step only where the line has an &: the last one in a | b &.  *)
(* If all of several steps carry it, the pipeline is one of StepFanOut.    *)
(***************************************************************************)
EXTENDS Integers

CONSTANTS
  Last,          \* the pipeline's steps are 1 .. Last
  Names, Values, \* variables in the scope of a step
  Unset,         \* a variable without a value
  MaxSets, MaxFaults   \* bounds

ASSUME StepsAssumption == Last \in Nat \ {0}
ASSUME UnsetAssumption == Unset \notin Values
ASSUME BoundsAssumption == {MaxSets, MaxFaults} \subseteq Nat

VARIABLES
  mode,       \* "foreground" or "background"
  marked,     \* the steps that are marked as background steps
  pc, step,   \* where the pipeline is
  session,    \* the shell's variables
  defaults,   \* the worker's variables
  rows,       \* per step: the variables in command_run_vars
  submitted,  \* the shell's variables when the pipeline was submitted (history)
  view,       \* per step: the values that its commandlet saw
  inv,        \* the invocation of this step and its plan
  repaired,   \* the arguments of an accepted repair
  events,     \* per step: the plan events
  ran,        \* per step: the arguments that its commandlet ran with
  sets, faults

vars == <<mode, marked, pc, step, session, defaults, rows, submitted, view, inv, repaired,
          events, ran, sets, faults>>

Steps     == 1 .. Last
Store     == [Names -> Values \union {Unset}]
Empty     == [x \in Names |-> Unset]

PC == {"prompt", "snapshot", "spawn", "context", "plan", "policy", "repair", "decide", "run",
       "completed", "failed", "dead"}

\* A plan that needs confirmation, or has warnings; a safe one; no plan() at all.  A
\* repair patches the arguments, possibly to none at all.
Invocation == [planOnly : BOOLEAN, approved : BOOLEAN,
               report : {"confirm", "safe", "none"}, repair : {"none", "patched", "empty"}]

NoInvocation == [planOnly |-> FALSE, approved |-> FALSE, report |-> "none", repair |-> "none"]

\* plan.repair.applied, with the patched arguments or with none, and plan.repair.denied.
Topics == {"requested", "policy", "patchApplied", "emptyApplied", "repairDenied", "approved",
           "denied"}

TypeOK ==
  /\ mode \in {"foreground", "background"} /\ marked \subseteq Steps
  /\ pc \in PC /\ step \in Steps
  /\ {session, defaults, submitted} \subseteq Store
  /\ {rows, view} \subseteq [Steps -> Store]
  /\ inv \in Invocation /\ repaired \in {"none", "patched", "empty"}
  /\ events \in [Steps -> SUBSET Topics]
  /\ ran \in [Steps -> {"no", "original", "patched"}]
  /\ sets \in 0 .. MaxSets /\ faults \in 0 .. MaxFaults

Init ==
  /\ mode \in {"foreground", "background"} /\ marked \in SUBSET Steps
  /\ mode = "background" <=> marked # {}
  /\ marked = Steps => Last = 1
  /\ pc = "prompt" /\ step = 1
  /\ session \in Store /\ defaults \in Store
  /\ submitted = Empty
  /\ rows = [k \in Steps |-> Empty] /\ view = [k \in Steps |-> Empty]
  /\ inv = NoInvocation /\ repaired = "none"
  /\ events = [k \in Steps |-> {}]
  /\ ran = [k \in Steps |-> "no"]
  /\ sets = 0 /\ faults = 0

-----------------------------------------------------------------------------
To(where)   == pc' = where
Fault       == faults < MaxFaults /\ faults' = faults + 1
Has(topic)  == topic \in events[step]
Publish(topic) == events' = [events EXCEPT ![step] = @ \union {topic}]

varVars  == <<session, defaults, rows, submitted, view>>
planVars == <<inv, repaired, events>>
fixed    == <<mode, marked>>

\* set, setg, and switch_project, which clears the shell's variables.  The shell is at
\* its prompt again once start_background has returned.
SetVariable(x, v) ==
  /\ sets < MaxSets /\ session[x] # v
  /\ pc = "prompt" \/ (mode = "background" /\ pc \notin {"snapshot", "spawn"})
  /\ session' = [session EXCEPT ![x] = v]
  /\ sets' = sets + 1
  /\ UNCHANGED <<fixed, pc, step, defaults, rows, submitted, view, planVars, ran, faults>>

-----------------------------------------------------------------------------
(* Submission. *)

Submit ==
  /\ pc = "prompt"
  /\ submitted' = session
  /\ To(IF mode = "background" THEN "snapshot" ELSE "context")
  /\ UNCHANGED <<fixed, step, session, defaults, rows, view, planVars, ran, sets, faults>>

\* ensure_run_var_snapshot: rows that are there already are kept, by whomever they
\* were written; variables without a value have no row.
Ensured(k, store) ==
  [rows EXCEPT ![k] = IF rows[k] = Empty THEN store ELSE rows[k]]

\* Mutant: the worker is started first, and snapshots on its own.
SnapshotSkipped ==
  /\ pc = "snapshot"
  /\ To("spawn")
  /\ UNCHANGED <<fixed, step, varVars, planVars, ran, sets, faults>>

\* start_background snapshots every step before it starts the worker.  Between the rows
\* of the steps nobody else reads them, and if the shell dies there is no worker.
Snapshot ==
  /\ pc = "snapshot"
  /\ rows' = [k \in Steps |-> Ensured(k, session)[k]]
  /\ To("spawn")
  /\ UNCHANGED <<fixed, step, session, defaults, submitted, view, planVars, ran, sets, faults>>

Spawn ==
  /\ pc = "spawn" /\ To("context")
  /\ UNCHANGED <<fixed, step, varVars, planVars, ran, sets, faults>>

-----------------------------------------------------------------------------
(* execute_stage. *)

\* The variables of the process that runs the pipeline.
Own == IF mode = "background" THEN defaults ELSE session

\* ScopedVarStore.get: the snapshot, and where it has no value the process's own.
Effective(snapshot) == [x \in Names |-> IF snapshot[x] = Unset THEN Own[x] ELSE snapshot[x]]

BuildContext ==
  /\ pc = "context"
  /\ rows' = Ensured(step, Own)
  /\ view' = [view EXCEPT ![step] = Effective(rows'[step])]
  /\ inv' \in Invocation /\ repaired' = "none"
  /\ To("plan")
  /\ UNCHANGED <<fixed, step, session, defaults, submitted, events, ran, sets, faults>>

Marked      == step \in marked     \* context.background
HasTerminal == mode = "foreground"

\* The step is over: the pipeline goes on, or ends.
Finish == IF step = Last THEN To("completed") /\ UNCHANGED step
                         ELSE To("context") /\ step' = step + 1

Stop == To("completed") /\ UNCHANGED step
Fail == To("failed") /\ UNCHANGED step

\* No plan, or a safe one: nothing is recorded, and nobody is asked.
MustApprove == inv.report = "confirm"

PlanPasses ==
  /\ pc = "plan"
  /\ \/ inv.planOnly /\ inv.report = "none" /\ Finish
     \/ ~ inv.planOnly /\ ~ MustApprove /\ To("run") /\ UNCHANGED step
  /\ UNCHANGED <<fixed, varVars, planVars, ran, sets, faults>>

RequestPlan ==
  /\ pc = "plan" /\ inv.report # "none" /\ (inv.planOnly \/ MustApprove)
  /\ Publish("requested") /\ To("policy")
  /\ UNCHANGED <<fixed, step, varVars, inv, repaired, ran, sets, faults>>

PublishPolicy ==
  /\ pc = "policy"
  /\ Publish("policy") /\ To("repair")
  /\ UNCHANGED <<fixed, step, varVars, inv, repaired, ran, sets, faults>>

\* The record of an accepted repair.
Applied == IF inv.repair = "empty" THEN "emptyApplied" ELSE "patchApplied"

\* Mutant: the patched arguments are taken before the answer is looked at.
RepairAnyway(answer) ==
  /\ pc = "repair"
  /\ \/ /\ inv.repair # "none" /\ (inv.approved \/ (~ inv.planOnly /\ ~ Marked /\ HasTerminal))
        /\ Publish(IF inv.approved \/ answer = "YES" THEN Applied ELSE "repairDenied")
        /\ repaired' = inv.repair
     \/ /\ inv.repair = "none" \/ (~ inv.approved /\ (inv.planOnly \/ Marked))
        /\ UNCHANGED <<events, repaired>>
  /\ To("decide")
  /\ UNCHANGED <<fixed, step, varVars, inv, ran, sets, faults>>

\* maybe_apply_plan_repair.
Repair(answer) ==
  /\ pc = "repair"
  /\ \/ /\ inv.repair # "none" /\ (inv.approved \/ (~ inv.planOnly /\ ~ Marked /\ HasTerminal))
        /\ IF inv.approved \/ answer = "YES"
           THEN Publish(Applied) /\ repaired' = inv.repair
           ELSE Publish("repairDenied") /\ UNCHANGED repaired
     \/ /\ inv.repair = "none" \/ (~ inv.approved /\ (inv.planOnly \/ Marked))
        /\ UNCHANGED <<events, repaired>>
  /\ To("decide")
  /\ UNCHANGED <<fixed, step, varVars, inv, ran, sets, faults>>

\* input() in a worker: its standard input is empty, and EOFError fails the step.
PromptFails ==
  /\ ~ HasTerminal /\ ~ Marked /\ ~ inv.approved /\ ~ inv.planOnly
  /\ (pc = "repair" /\ inv.repair # "none") \/ pc = "decide"
  /\ Fail
  /\ UNCHANGED <<fixed, varVars, planVars, ran, sets, faults>>

PlanOnlyEnds ==
  /\ pc = "decide" /\ inv.planOnly
  /\ Finish
  /\ UNCHANGED <<fixed, varVars, planVars, ran, sets, faults>>

\* Mutant: an accepted repair stands for the approval.
ApproveRepaired(answer) ==
  /\ pc = "decide" /\ ~ inv.planOnly
  /\ \/ /\ inv.approved \/ (~ Marked /\ HasTerminal /\ answer = "YES")
        /\ Publish("approved")
     \/ Has("patchApplied") /\ UNCHANGED events
  /\ To("run")
  /\ UNCHANGED <<fixed, step, varVars, inv, repaired, ran, sets, faults>>

\* --yes, or the operator's answer; a marked background step without --yes is denied.
Approve(answer) ==
  /\ pc = "decide" /\ ~ inv.planOnly
  /\ inv.approved \/ (~ Marked /\ HasTerminal /\ answer = "YES")
  /\ Publish("approved") /\ To("run")
  /\ UNCHANGED <<fixed, step, varVars, inv, repaired, ran, sets, faults>>

Deny(answer) ==
  /\ pc = "decide" /\ ~ inv.planOnly /\ ~ inv.approved
  /\ Marked \/ (HasTerminal /\ answer = "no")
  /\ Publish("denied") /\ Fail
  /\ UNCHANGED <<fixed, varVars, inv, repaired, ran, sets, faults>>

\* Mutant: the interactive approval returns the arguments as they were typed.
ArgumentsAsTyped == IF repaired = "patched" /\ inv.approved THEN "patched" ELSE "original"

\* repaired_args or args: a repair to no arguments at all is not used.
Arguments == IF repaired = "patched" THEN "patched" ELSE "original"

\* The commandlet returns, stops the pipeline, or raises.
RunCommandlet ==
  /\ pc = "run"
  /\ ran' = [ran EXCEPT ![step] = Arguments]
  /\ Finish \/ Stop \/ Fail
  /\ UNCHANGED <<fixed, varVars, planVars, sets, faults>>

\* plan() or a publication raises; or the process dies.
Raise == /\ pc \in {"context", "plan", "policy", "repair", "decide", "run"} /\ Fault
         /\ Fail
         /\ UNCHANGED <<fixed, varVars, planVars, ran, sets>>

Die == /\ pc \notin {"completed", "failed", "dead"} /\ Fault
       /\ To("dead")
       /\ UNCHANGED <<fixed, step, varVars, planVars, ran, sets>>

Stage ==
  \/ BuildContext \/ PlanPasses \/ RequestPlan \/ PublishPolicy \/ PromptFails \/ PlanOnlyEnds
  \/ RunCommandlet
  \/ \E answer \in {"YES", "no"} : Repair(answer) \/ Approve(answer) \/ Deny(answer)

Next ==
  \/ \E x \in Names, v \in Values \union {Unset} : SetVariable(x, v)
  \/ Submit \/ Snapshot \/ Spawn \/ Stage \/ Raise \/ Die

Spec == Init /\ [][Next]_vars

-----------------------------------------------------------------------------
(* Properties. *)

\* What the plan events of a step say about it.
Verdict(k) ==
  IF "denied" \in events[k] THEN "denied"
  ELSE IF "approved" \in events[k] THEN "approved"
  ELSE IF "requested" \notin events[k] /\ ran[k] # "no" THEN "exempt"
  ELSE "none"

Decisions == [k \in Steps |-> Verdict(k)]
Executed  == [k \in Steps |-> ran[k] # "no"]

Gate == INSTANCE ApprovalGate WITH decision <- Decisions, ran <- Executed

\* The approval protocol implements the gate: no commandlet runs after a plan request
\* without an approval on record, decisions are never revised, and after a denial no
\* step of the pipeline runs; with repairs, --yes, --test, background steps, failures.
ImplementsGate == Gate!Spec

Begun(k) == k < step \/ (k = step /\ pc \notin {"prompt", "snapshot", "spawn", "context"})

\* A variable that had a value when the pipeline was submitted has this value for every
\* step of it, whatever the shell sets meanwhile, and whatever defaults the worker has.
SubmittedValuesAreSeen ==
  \A k \in Steps : Begun(k) /\ pc # "failed" /\ pc # "dead" =>
    \A x \in Names : submitted[x] # Unset => view[k][x] = submitted[x]

\* What the audit says of a repair is what the step runs with: a commandlet runs the
\* patched arguments if and only if an accepted repair of a requested plan is on record.
\* An accepted repair to no arguments at all is excepted: the step then runs the original
\* ones (repaired_args or args, plans.py:65 and 78).
RepairsAreUsed ==
  \A k \in Steps : ran[k] # "no" =>
    (ran[k] = "patched" <=> {"requested", "patchApplied"} \subseteq events[k])
=============================================================================
