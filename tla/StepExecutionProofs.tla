-------------------------- MODULE StepExecutionProofs --------------------------
(***************************************************************************)
(* Proofs about StepExecution, for pipelines of any length, any variables  *)
(* and values, and any bounds.                                             *)
(***************************************************************************)
EXTENDS StepExecution, TLAPS

-----------------------------------------------------------------------------
(* What the operators of the module do. *)

LEMMA EnsuredTyped ==
  ASSUME rows \in [Steps -> Store], NEW k \in Steps, NEW store \in Store
  PROVE  Ensured(k, store) \in [Steps -> Store]
BY DEF Ensured

LEMMA EffectiveTyped ==
  ASSUME TypeOK, NEW snapshot \in Store
  PROVE  Own \in Store /\ Effective(snapshot) \in Store
<1>1. Own \in Store
  BY DEF TypeOK, Own
<1>. QED BY <1>1 DEF Effective, Store

\* The end of a step is the end of the pipeline, or the beginning of the next step.
LEMMA FinishMoves ==
  ASSUME step \in Steps, Finish
  PROVE  \/ pc' = "completed" /\ step' = step
         \/ pc' = "context" /\ step' = step + 1 /\ step' \in Steps
BY StepsAssumption DEF Finish, To, Steps

\* A publication is a topic more for the present step.
LEMMA PublishAdds ==
  ASSUME events \in [Steps -> SUBSET Topics], step \in Steps,
         NEW topic \in Topics, Publish(topic)
  PROVE  /\ events' \in [Steps -> SUBSET Topics]
         /\ events'[step] = events[step] \union {topic}
         /\ \A k \in Steps : k # step => events'[k] = events[k]
BY DEF Publish

-----------------------------------------------------------------------------
(* Types. *)

LEMMA InitTyped == Init => TypeOK
<1> SUFFICES ASSUME Init PROVE TypeOK
  OBVIOUS
<1>1. Empty \in Store
  BY DEF Empty, Store
<1>2. pc \in PC /\ step \in Steps /\ inv \in Invocation
  BY StepsAssumption DEF Init, PC, Steps, NoInvocation, Invocation
<1>3. sets \in 0 .. MaxSets /\ faults \in 0 .. MaxFaults
  BY BoundsAssumption DEF Init
<1>. QED BY <1>1, <1>2, <1>3 DEF Init, TypeOK

LEMMA SetVariableTyped ==
  ASSUME TypeOK, NEW x \in Names, NEW v \in Values \union {Unset}, SetVariable(x, v)
  PROVE  TypeOK'
<1>1. session' \in Store
  BY DEF SetVariable, TypeOK, Store
<1>2. sets' \in 0 .. MaxSets
  BY BoundsAssumption DEF SetVariable, TypeOK
<1>. QED BY <1>1, <1>2 DEF SetVariable, TypeOK, fixed, planVars

LEMMA SubmissionTyped == TypeOK /\ (Submit \/ Snapshot \/ Spawn) => TypeOK'
<1> SUFFICES ASSUME TypeOK, Submit \/ Snapshot \/ Spawn PROVE TypeOK'
  OBVIOUS
<1>1. CASE Submit
  BY <1>1 DEF Submit, To, TypeOK, PC, fixed, planVars
<1>2. CASE Snapshot
  <2>1. rows' \in [Steps -> Store]
    BY <1>2, EnsuredTyped DEF Snapshot, TypeOK
  <2>. QED BY <1>2, <2>1 DEF Snapshot, To, TypeOK, PC, fixed, planVars
<1>3. CASE Spawn
  BY <1>3 DEF Spawn, To, TypeOK, PC, fixed, varVars, planVars
<1>. QED BY <1>1, <1>2, <1>3

LEMMA StageTyped == TypeOK /\ Stage => TypeOK'
<1> SUFFICES ASSUME TypeOK, Stage PROVE TypeOK'
  OBVIOUS
<1>0. step \in Steps /\ pc \in PC /\ events \in [Steps -> SUBSET Topics]
  BY DEF TypeOK
<1>f. Finish => pc' \in PC /\ step' \in Steps
  BY <1>0, FinishMoves DEF PC
<1>p. ASSUME NEW topic \in Topics, Publish(topic)
      PROVE  events' \in [Steps -> SUBSET Topics]
  BY <1>0, <1>p, PublishAdds
<1>1. CASE BuildContext
  <2>1. rows' \in [Steps -> Store]
    BY <1>0, <1>1, EnsuredTyped, EffectiveTyped DEF BuildContext, TypeOK, Store
  <2>2. rows'[step] \in Store
    BY <1>0, <2>1
  <2>3. view' \in [Steps -> Store]
    BY <1>0, <1>1, <2>2, EffectiveTyped DEF BuildContext, TypeOK
  <2>. QED BY <1>1, <2>1, <2>3 DEF BuildContext, To, TypeOK, PC, fixed
<1>2. CASE PlanPasses
  <2>1. pc' \in PC /\ step' \in Steps
    BY <1>0, <1>2, <1>f DEF PlanPasses, To, PC
  <2>. QED BY <1>2, <2>1 DEF PlanPasses, TypeOK, fixed, varVars, planVars
<1>3. CASE RequestPlan \/ PublishPolicy
  <2>1. events' \in [Steps -> SUBSET Topics]
    BY <1>3, <1>p DEF RequestPlan, PublishPolicy, Topics
  <2>. QED BY <1>3, <2>1 DEF RequestPlan, PublishPolicy, To, TypeOK, PC, fixed, varVars
<1>4. CASE PromptFails
  BY <1>4 DEF PromptFails, Fail, To, TypeOK, PC, fixed, varVars, planVars
<1>5. CASE PlanOnlyEnds
  BY <1>5, <1>f DEF PlanOnlyEnds, TypeOK, fixed, varVars, planVars
<1>6. CASE RunCommandlet
  <2>1. ran' \in [Steps -> {"no", "original", "patched"}]
    BY <1>6 DEF RunCommandlet, Arguments, TypeOK
  <2>2. pc' \in PC /\ step' \in Steps
    BY <1>0, <1>6, <1>f DEF RunCommandlet, Stop, Fail, To, PC
  <2>. QED BY <1>6, <2>1, <2>2 DEF RunCommandlet, TypeOK, fixed, varVars, planVars
<1>7. ASSUME NEW answer \in {"YES", "no"}, Repair(answer) PROVE TypeOK'
  <2>1. inv.repair \in {"none", "patched", "empty"}
    BY DEF TypeOK, Invocation
  <2>2. repaired' \in {"none", "patched", "empty"}
    BY <1>7, <2>1 DEF Repair, TypeOK
  <2>3. events' \in [Steps -> SUBSET Topics]
    BY <1>0, <1>7, <1>p DEF Repair, Applied, Topics
  <2>. QED BY <1>7, <2>2, <2>3 DEF Repair, To, TypeOK, PC, fixed, varVars
<1>8. ASSUME NEW answer \in {"YES", "no"}, Approve(answer) \/ Deny(answer) PROVE TypeOK'
  <2>1. events' \in [Steps -> SUBSET Topics]
    BY <1>8, <1>p DEF Approve, Deny, Topics
  <2>. QED BY <1>8, <2>1 DEF Approve, Deny, Fail, To, TypeOK, PC, fixed, varVars
<1>. QED BY <1>1, <1>2, <1>3, <1>4, <1>5, <1>6, <1>7, <1>8 DEF Stage

LEMMA NextTyped == TypeOK /\ [Next]_vars => TypeOK'
<1> SUFFICES ASSUME TypeOK, [Next]_vars PROVE TypeOK'
  OBVIOUS
<1>1. ASSUME NEW x \in Names, NEW v \in Values \union {Unset}, SetVariable(x, v)
      PROVE  TypeOK'
  BY <1>1, SetVariableTyped
<1>2. CASE Submit \/ Snapshot \/ Spawn
  BY <1>2, SubmissionTyped
<1>3. CASE Stage
  BY <1>3, StageTyped
<1>4. CASE Raise \/ Die
  <2>1. faults' \in 0 .. MaxFaults
    BY <1>4, BoundsAssumption DEF Raise, Die, Fault, TypeOK
  <2>. QED BY <1>4, <2>1 DEF Raise, Die, Fail, To, TypeOK, PC, fixed, varVars, planVars
<1>5. CASE UNCHANGED vars
  BY <1>5 DEF vars, TypeOK
<1>. QED BY <1>1, <1>2, <1>3, <1>4, <1>5 DEF Next

\* Every reachable state is typed, for pipelines of any length and all values.
THEOREM Typed == Spec => []TypeOK
BY InitTyped, NextTyped, PTL DEF Spec

-----------------------------------------------------------------------------
(* The plan events follow the program counter. *)

\* What is on record about the present step at each place of handle_plan_if_needed; steps
\* to come have no record, and a denial ends the pipeline.
Recorded ==
  /\ \A k \in Steps : k > step => events[k] = {} /\ ran[k] = "no"
  /\ pc # "failed" => \A k \in Steps : "denied" \notin events[k]
  /\ pc \notin {"completed", "failed", "dead"} => ran[step] = "no"
  /\ pc \in {"prompt", "snapshot", "spawn", "context", "plan"} => events[step] = {}
  /\ pc \in {"policy", "repair", "decide"} =>
       "requested" \in events[step] /\ "approved" \notin events[step]
  /\ pc = "run" => events[step] = {} \/ {"requested", "approved"} \subseteq events[step]

\* Patched arguments are at hand if and only if their repair was accepted on record.
Patched ==
  /\ pc \in {"plan", "policy", "repair"} =>
       repaired = "none" /\ "patchApplied" \notin events[step]
  /\ pc \in {"decide", "run"} =>
       (repaired = "patched" <=> {"requested", "patchApplied"} \subseteq events[step])

Inv == TypeOK /\ Recorded /\ Patched

LEMMA InitInv == Init => Inv
<1> SUFFICES ASSUME Init PROVE Recorded /\ Patched
  BY InitTyped DEF Inv
<1>. QED BY StepsAssumption DEF Init, Recorded, Patched, Steps

\* A step that is over leaves its record, and the next one has none.
LEMMA FinishRecorded ==
  ASSUME TypeOK, Recorded, Finish, UNCHANGED events,
         pc # "failed",
         \A k \in Steps : k > step => ran'[k] = ran[k]
  PROVE  Recorded'
<1>0. step \in Steps /\ Steps \subseteq Int
  BY DEF TypeOK, Steps
<1>1. CASE pc' = "completed" /\ step' = step
  BY <1>0, <1>1 DEF Recorded
<1>2. CASE pc' = "context" /\ step' = step + 1 /\ step' \in Steps
  BY <1>0, <1>2 DEF Recorded
<1>. QED BY <1>0, <1>1, <1>2, FinishMoves

LEMMA StageRecorded == Inv /\ Stage => Recorded'
<1> SUFFICES ASSUME Inv, Stage PROVE Recorded'
  OBVIOUS
<1>0. step \in Steps /\ Steps \subseteq Int /\ events \in [Steps -> SUBSET Topics]
      /\ TypeOK /\ Recorded
  BY DEF Inv, TypeOK, Steps
<1>p. ASSUME NEW topic \in Topics, Publish(topic)
      PROVE  /\ events'[step] = events[step] \union {topic}
             /\ \A k \in Steps : k # step => events'[k] = events[k]
  BY <1>0, <1>p, PublishAdds
<1>1. CASE BuildContext
  BY <1>0, <1>1 DEF BuildContext, To, Recorded
<1>2. CASE PlanPasses
  <2>1. CASE Finish
    BY <1>0, <1>2, <2>1, FinishRecorded DEF PlanPasses, planVars
  <2>2. CASE To("run") /\ UNCHANGED step
    BY <1>0, <1>2, <2>2 DEF PlanPasses, To, planVars, Recorded
  <2>. QED BY <1>2, <2>1, <2>2 DEF PlanPasses
<1>3. CASE RequestPlan
  <2>1. Publish("requested")
    BY <1>3 DEF RequestPlan
  <2>. QED BY <1>0, <1>3, <1>p, <2>1 DEF RequestPlan, To, Recorded, Topics
<1>4. CASE PublishPolicy
  <2>1. Publish("policy")
    BY <1>4 DEF PublishPolicy
  <2>. QED BY <1>0, <1>4, <1>p, <2>1 DEF PublishPolicy, To, Recorded, Topics
<1>5. CASE PromptFails
  BY <1>0, <1>5 DEF PromptFails, Fail, To, planVars, Recorded
<1>6. CASE PlanOnlyEnds
  BY <1>0, <1>6, FinishRecorded DEF PlanOnlyEnds, planVars
<1>7. CASE RunCommandlet
  <2>1. ran' = [ran EXCEPT ![step] = Arguments] /\ UNCHANGED events /\ pc = "run"
    BY <1>7 DEF RunCommandlet, planVars
  <2>2. \A k \in Steps : k > step => ran'[k] = ran[k]
    BY <1>0, <2>1 DEF TypeOK
  <2>3. CASE Finish
    BY <1>0, <2>1, <2>2, <2>3, FinishRecorded
  <2>4. CASE Stop \/ Fail
    BY <1>0, <2>1, <2>2, <2>4 DEF Stop, Fail, To, Recorded
  <2>. QED BY <1>7, <2>3, <2>4 DEF RunCommandlet
<1>8. ASSUME NEW answer \in {"YES", "no"}, Repair(answer) PROVE Recorded'
  <2>1. CASE Publish("patchApplied") \/ Publish("emptyApplied")
    BY <1>0, <1>8, <1>p, <2>1 DEF Repair, To, Recorded, Topics
  <2>2. CASE Publish("repairDenied")
    BY <1>0, <1>8, <1>p, <2>2 DEF Repair, To, Recorded, Topics
  <2>3. CASE UNCHANGED events
    BY <1>0, <1>8, <2>3 DEF Repair, To, Recorded
  <2>. QED BY <1>8, <2>1, <2>2, <2>3 DEF Repair, Applied
<1>9. ASSUME NEW answer \in {"YES", "no"}, Approve(answer) PROVE Recorded'
  <2>1. Publish("approved")
    BY <1>9 DEF Approve
  <2>. QED BY <1>0, <1>9, <1>p, <2>1 DEF Approve, To, Recorded, Topics
<1>10. ASSUME NEW answer \in {"YES", "no"}, Deny(answer) PROVE Recorded'
  <2>1. Publish("denied")
    BY <1>10 DEF Deny
  <2>. QED BY <1>0, <1>10, <1>p, <2>1 DEF Deny, Fail, To, Recorded, Topics
<1>. QED
  BY <1>1, <1>2, <1>3, <1>4, <1>5, <1>6, <1>7, <1>8, <1>9, <1>10 DEF Stage

LEMMA StagePatched == Inv /\ Stage => Patched'
<1> SUFFICES ASSUME Inv, Stage PROVE Patched'
  OBVIOUS
<1>0. step \in Steps /\ events \in [Steps -> SUBSET Topics] /\ Recorded /\ Patched
  BY DEF Inv, TypeOK
<1>f. Finish => pc' \notin {"plan", "policy", "repair", "decide", "run"}
  BY <1>0, FinishMoves
<1>p. ASSUME NEW topic \in Topics, Publish(topic)
      PROVE  events'[step] = events[step] \union {topic}
  BY <1>0, <1>p, PublishAdds
<1>1. CASE BuildContext
  BY <1>0, <1>1 DEF BuildContext, To, Recorded, Patched
<1>2. CASE PlanPasses
  BY <1>0, <1>2, <1>f DEF PlanPasses, To, planVars, Patched
<1>3. CASE RequestPlan \/ PublishPolicy
  <2>1. Publish("requested") \/ Publish("policy")
    BY <1>3 DEF RequestPlan, PublishPolicy
  <2>. QED BY <1>0, <1>3, <1>p, <2>1 DEF RequestPlan, PublishPolicy, To, Patched, Topics
<1>4. CASE PromptFails \/ PlanOnlyEnds \/ RunCommandlet
  BY <1>4, <1>f DEF PromptFails, PlanOnlyEnds, RunCommandlet, Stop, Fail, To, Patched
<1>5. ASSUME NEW answer \in {"YES", "no"}, Repair(answer) PROVE Patched'
  <2>1. pc = "repair" /\ pc' = "decide" /\ step' = step /\ repaired = "none"
    BY <1>0, <1>5 DEF Repair, To, Patched
  <2>2. ASSUME Publish(Applied), repaired' = inv.repair, inv.repair # "none" PROVE Patched'
    <3>1. CASE inv.repair = "empty"
      BY <1>0, <1>p, <2>1, <2>2, <3>1 DEF Applied, Recorded, Patched, Topics
    <3>2. CASE inv.repair = "patched"
      BY <1>0, <1>p, <2>1, <2>2, <3>2 DEF Applied, Recorded, Patched, Topics
    <3>3. inv.repair \in {"none", "patched", "empty"}
      BY DEF Inv, TypeOK, Invocation
    <3>. QED BY <2>2, <3>1, <3>2, <3>3
  <2>3. CASE Publish("repairDenied") /\ UNCHANGED repaired
    BY <1>0, <1>p, <2>1, <2>3 DEF Patched, Topics
  <2>4. CASE UNCHANGED <<events, repaired>>
    BY <1>0, <2>1, <2>4 DEF Patched
  <2>. QED BY <1>5, <2>2, <2>3, <2>4 DEF Repair
<1>6. ASSUME NEW answer \in {"YES", "no"}, Approve(answer) PROVE Patched'
  <2>1. Publish("approved") /\ pc = "decide"
    BY <1>6 DEF Approve
  <2>. QED BY <1>0, <1>6, <1>p, <2>1 DEF Approve, To, Patched, Topics
<1>7. ASSUME NEW answer \in {"YES", "no"}, Deny(answer) PROVE Patched'
  BY <1>7 DEF Deny, Fail, To, Patched
<1>. QED BY <1>1, <1>2, <1>3, <1>4, <1>5, <1>6, <1>7 DEF Stage

LEMMA NextInv == Inv /\ [Next]_vars => Inv'
<1> SUFFICES ASSUME Inv, [Next]_vars PROVE Recorded' /\ Patched'
  BY NextTyped DEF Inv
<1>0. step \in Steps /\ Recorded /\ Patched
  BY DEF Inv, TypeOK
<1>1. ASSUME NEW x \in Names, NEW v \in Values \union {Unset}, SetVariable(x, v)
      PROVE  Recorded' /\ Patched'
  BY <1>0, <1>1 DEF SetVariable, planVars, Recorded, Patched
<1>2. CASE Submit \/ Snapshot \/ Spawn
  BY <1>0, <1>2 DEF Submit, Snapshot, Spawn, To, planVars, Recorded, Patched
<1>3. CASE Stage
  BY <1>3, StageRecorded, StagePatched
<1>4. CASE Raise \/ Die
  BY <1>0, <1>4 DEF Raise, Die, Fail, To, planVars, Recorded, Patched
<1>5. CASE UNCHANGED vars
  BY <1>0, <1>5 DEF vars, Recorded, Patched
<1>. QED BY <1>1, <1>2, <1>3, <1>4, <1>5 DEF Next

-----------------------------------------------------------------------------
(* The record of repairs. *)

\* The record of a step whose commandlet has run does not change any more.
LEMMA RanIsClosed ==
  ASSUME Inv, [Next]_vars, NEW k \in Steps, ran[k] # "no"
  PROVE  events'[k] = events[k]
<1>0. step \in Steps /\ events \in [Steps -> SUBSET Topics] /\ Recorded
  BY DEF Inv, TypeOK
<1>1. ASSUME NEW topic \in Topics, Publish(topic), pc \in {"plan", "policy", "repair", "decide"}
      PROVE  events'[k] = events[k]
  <2>1. k # step
    BY <1>0, <1>1 DEF Recorded
  <2>. QED BY <1>0, <1>1, <2>1, PublishAdds
<1>2. \/ UNCHANGED events
      \/ \E topic \in Topics : Publish(topic) /\ pc \in {"plan", "policy", "repair", "decide"}
  BY DEF Next, vars, SetVariable, Submit, Snapshot, Spawn, Stage, BuildContext, PlanPasses,
         RequestPlan, PublishPolicy, PromptFails, PlanOnlyEnds, RunCommandlet, Repair,
         Applied, Approve, Deny, Raise, Die, planVars, Topics
<1>. QED BY <1>1, <1>2

\* RepairsAreUsed: what a commandlet runs with and the record of its repair agree when it
\* runs, however the approval of the plan came about, and neither changes after it.
LEMMA NextRepair == Inv /\ RepairsAreUsed /\ [Next]_vars => RepairsAreUsed'
<1> SUFFICES ASSUME Inv, RepairsAreUsed, [Next]_vars PROVE RepairsAreUsed'
  OBVIOUS
<1>0. step \in Steps /\ events \in [Steps -> SUBSET Topics] /\ Patched
      /\ ran \in [Steps -> {"no", "original", "patched"}]
  BY DEF Inv, TypeOK
<1>2. CASE RunCommandlet
  <2>1. ran' = [ran EXCEPT ![step] = Arguments] /\ UNCHANGED events /\ pc = "run"
    BY <1>2 DEF RunCommandlet, planVars
  <2>2. Arguments = "patched" <=> {"requested", "patchApplied"} \subseteq events[step]
    BY <1>0, <2>1 DEF Arguments, Patched
  <2>. QED BY <1>0, <2>1, <2>2 DEF RepairsAreUsed
<1>3. CASE ~ RunCommandlet
  <2>1. UNCHANGED ran
    BY <1>3 DEF Next, vars, SetVariable, Submit, Snapshot, Spawn, Stage, BuildContext,
           PlanPasses, RequestPlan, PublishPolicy, PromptFails, PlanOnlyEnds, Repair,
           Approve, Deny, Raise, Die
  <2>. QED BY <2>1, RanIsClosed DEF RepairsAreUsed
<1>. QED BY <1>2, <1>3

\* A commandlet runs with the patched arguments if and only if the audit has an accepted
\* repair that patched them, for pipelines of any length.
THEOREM RepairsAreOnRecord == Spec => []RepairsAreUsed
<1>1. Init => RepairsAreUsed
  BY DEF Init, RepairsAreUsed
<1>. QED BY <1>1, InitInv, NextInv, NextRepair, PTL DEF Spec

-----------------------------------------------------------------------------
(* The refinement of ApprovalGate. *)

\* What is not on record, and what did not run, has the verdict that it had.
LEMMA VerdictKept ==
  ASSUME NEW k \in Steps, events'[k] = events[k], ran'[k] = ran[k]
  PROVE  Verdict(k)' = Verdict(k)
BY DEF Verdict

\* Before its decision the present step has no verdict, nor has a step to come.
LEMMA Undecided ==
  ASSUME Inv, pc \notin {"completed", "failed", "dead"},
         pc = "run" => events[step] = {}
  PROVE  Verdict(step) = "none" /\ "approved" \notin events[step]
BY DEF Inv, TypeOK, PC, Recorded, Verdict

\* The present step of the pipeline is the gate's current step.
LEMMA StepIsCurrent ==
  ASSUME Inv, pc \notin {"completed", "failed", "dead"}
  PROVE  Gate!Current(step)
<1>0. step \in Steps /\ ~ Executed[step]
  BY DEF Inv, TypeOK, Recorded, Executed
<1>1. \A k \in Steps : Decisions[k] # "denied"
  BY DEF Inv, Recorded, Decisions, Verdict
<1>2. \A k \in Steps : k > step => Decisions[k] = "none" /\ ~ Executed[k]
  BY DEF Inv, Recorded, Decisions, Verdict, Executed
<1>. QED BY <1>0, <1>1, <1>2 DEF Gate!Current, Gate!Denied

\* A change of one verdict.
LEMMA DecisionsMove ==
  ASSUME NEW k \in Steps, NEW CONSTANT d, Verdict(k)' = d,
         \A n \in Steps : n # k => Verdict(n)' = Verdict(n)
  PROVE  Decisions' = [Decisions EXCEPT ![k] = d]
<1>1. Decisions' = [n \in Steps |-> Verdict(n)']
  BY DEF Decisions
<1>2. \A n \in Steps : Verdict(n)' = IF n = k THEN d ELSE Verdict(n)
  OBVIOUS
<1>. QED BY <1>1, <1>2 DEF Decisions

LEMMA StageIsGate == Inv /\ Stage => [Gate!Next]_<<Decisions, Executed>>
<1> SUFFICES ASSUME Inv, Stage, ~ UNCHANGED <<Decisions, Executed>> PROVE Gate!Next
  OBVIOUS
<1>0. step \in Steps /\ Recorded /\ events \in [Steps -> SUBSET Topics]
      /\ ran \in [Steps -> {"no", "original", "patched"}]
  BY DEF Inv, TypeOK
<1>u. ~ UNCHANGED <<events, ran>>
  <2>1. ASSUME UNCHANGED <<events, ran>> PROVE UNCHANGED <<Decisions, Executed>>
    <3>1. \A k \in Steps : Verdict(k)' = Verdict(k)
      BY <2>1, VerdictKept
    <3>. QED BY <2>1, <3>1 DEF Decisions, Executed
  <2>. QED BY <2>1
<1>p. ASSUME NEW topic \in Topics, Publish(topic), UNCHANGED ran
      PROVE  /\ events'[step] = events[step] \union {topic}
             /\ \A k \in Steps : k # step => Verdict(k)' = Verdict(k)
             /\ Executed' = Executed
  BY <1>0, <1>p, PublishAdds, VerdictKept DEF Executed
<1>q. ASSUME NEW topic \in {"requested", "policy", "patchApplied", "emptyApplied",
                             "repairDenied"},
             Publish(topic), UNCHANGED <<step, ran>>, pc \in {"plan", "policy", "repair"}
      PROVE  FALSE
  <2>1. Verdict(step) = "none" /\ "approved" \notin events[step]
    BY <1>q, Undecided
  <2>2. "denied" \notin events[step] /\ ran[step] = "no"
    BY <1>0, <1>q DEF Recorded
  <2>3. events'[step] = events[step] \union {topic}
    BY <1>q, <1>p DEF Topics
  <2>4. Verdict(step)' = "none"
    BY <1>q, <2>1, <2>2, <2>3 DEF Verdict
  <2>5. \A k \in Steps : Verdict(k)' = Verdict(k)
    BY <1>p, <1>q, <2>1, <2>4 DEF Topics
  <2>. QED BY <1>p, <1>q, <2>5 DEF Decisions, Topics
<1>1. CASE BuildContext \/ PlanPasses \/ PromptFails \/ PlanOnlyEnds
  BY <1>1, <1>u DEF BuildContext, PlanPasses, PromptFails, PlanOnlyEnds, planVars
<1>2. CASE RequestPlan \/ PublishPolicy
  BY <1>2, <1>q DEF RequestPlan, PublishPolicy
<1>3. ASSUME NEW answer \in {"YES", "no"}, Repair(answer) PROVE FALSE
  BY <1>3, <1>q, <1>u DEF Repair, Applied
<1>4. ASSUME NEW answer \in {"YES", "no"}, Approve(answer) PROVE Gate!Next
  <2>1. Publish("approved") /\ UNCHANGED <<step, ran>> /\ pc = "decide"
    BY <1>4 DEF Approve
  <2>2. Gate!Current(step) /\ Verdict(step) = "none" /\ "denied" \notin events[step]
    BY <1>0, <2>1, StepIsCurrent, Undecided DEF Recorded
  <2>3. Verdict(step)' = "approved"
    BY <1>p, <2>1, <2>2 DEF Verdict, Topics
  <2>4. Decisions' = [Decisions EXCEPT ![step] = "approved"] /\ Executed' = Executed
    BY <1>0, <1>p, <2>1, <2>3, DecisionsMove DEF Topics
  <2>5. Gate!Decide(step, "approved")
    BY <1>0, <2>2, <2>4 DEF Gate!Decide, Decisions
  <2>. QED BY <1>0, <2>5 DEF Gate!Next
<1>5. ASSUME NEW answer \in {"YES", "no"}, Deny(answer) PROVE Gate!Next
  <2>1. Publish("denied") /\ UNCHANGED <<step, ran>> /\ pc = "decide"
    BY <1>5 DEF Deny, Fail
  <2>2. Gate!Current(step) /\ Verdict(step) = "none"
    BY <2>1, StepIsCurrent, Undecided
  <2>3. Verdict(step)' = "denied"
    BY <1>p, <2>1 DEF Verdict, Topics
  <2>4. Decisions' = [Decisions EXCEPT ![step] = "denied"] /\ Executed' = Executed
    BY <1>0, <1>p, <2>1, <2>3, DecisionsMove DEF Topics
  <2>5. Gate!Decide(step, "denied")
    BY <1>0, <2>2, <2>4 DEF Gate!Decide, Decisions
  <2>. QED BY <1>0, <2>5 DEF Gate!Next
<1>6. CASE RunCommandlet
  <2>0. PICK k \in Steps : k = step
    BY <1>0
  <2>1. UNCHANGED events /\ ran' = [ran EXCEPT ![k] = Arguments] /\ pc = "run"
        /\ Arguments \in {"original", "patched"}
    BY <1>6, <2>0 DEF RunCommandlet, planVars, Arguments
  <2>2. Gate!Current(k) /\ "denied" \notin events[k] /\ ran[k] = "no"
    BY <1>0, <2>0, <2>1, StepIsCurrent DEF Recorded
  <2>3. ran'[k] # "no" /\ \A n \in Steps : n # k => ran'[n] = ran[n]
    BY <1>0, <2>1
  <2>4. Executed' = [Executed EXCEPT ![k] = TRUE]
    <3>1. Executed' = [n \in Steps |-> IF n = k THEN TRUE ELSE ran[n] # "no"]
      BY <2>3 DEF Executed
    <3>. QED BY <3>1 DEF Executed
  <2>5. \A n \in Steps : n # k => Verdict(n)' = Verdict(n)
    BY <2>1, <2>3, VerdictKept
  <2>6. CASE events[k] = {}
    <3>1. Verdict(k) = "none" /\ Verdict(k)' = "exempt"
      BY <2>1, <2>2, <2>3, <2>6 DEF Verdict
    <3>2. Decisions' = [Decisions EXCEPT ![k] = "exempt"]
      BY <2>5, <3>1, DecisionsMove
    <3>3. Gate!RunExempt(k)
      BY <2>2, <2>4, <3>1, <3>2 DEF Gate!RunExempt, Decisions
    <3>. QED BY <3>3 DEF Gate!Next
  <2>7. CASE "approved" \in events[k]
    <3>1. Verdict(k) = "approved" /\ Verdict(k)' = "approved"
      BY <2>1, <2>2, <2>7 DEF Verdict
    <3>2. \A n \in Steps : Verdict(n)' = Verdict(n)
      BY <2>5, <3>1
    <3>3. UNCHANGED Decisions
      BY <3>2 DEF Decisions
    <3>4. Gate!RunApproved(k)
      BY <2>2, <2>4, <3>1, <3>3 DEF Gate!RunApproved, Decisions
    <3>. QED BY <3>4 DEF Gate!Next
  <2>. QED BY <1>0, <2>0, <2>1, <2>6, <2>7 DEF Recorded
<1>. QED BY <1>1, <1>2, <1>3, <1>4, <1>5, <1>6 DEF Stage

LEMMA NextIsGate == Inv /\ [Next]_vars => [Gate!Next]_<<Decisions, Executed>>
<1> SUFFICES ASSUME Inv, [Next]_vars PROVE [Gate!Next]_<<Decisions, Executed>>
  OBVIOUS
<1>1. CASE Stage
  BY <1>1, StageIsGate
<1>2. CASE ~ Stage
  <2>1. UNCHANGED <<events, ran>>
    BY <1>2 DEF Next, vars, SetVariable, Submit, Snapshot, Spawn, Raise, Die, planVars
  <2>2. \A k \in Steps : Verdict(k)' = Verdict(k)
    BY <2>1, VerdictKept
  <2>. QED BY <2>1, <2>2 DEF Decisions, Executed
<1>. QED BY <1>1, <1>2

\* The approval protocol, with plan-only and background steps, repairs, failures and deaths,
\* is the plain gate: decided once, run after it was decided, and nothing after a denial.
THEOREM Implements == Spec => ImplementsGate
<1>1. Init => Gate!Init
  BY DEF Init, Gate!Init, Decisions, Executed, Verdict
<1>. QED BY <1>1, InitInv, NextInv, NextIsGate, PTL DEF Spec, ImplementsGate, Gate!Spec

-----------------------------------------------------------------------------
(* The variables of the steps. *)

Before == {"prompt", "snapshot"}

\* A foreground pipeline runs while its shell waits; in the background the rows are there
\* before the worker is.  An empty snapshot is taken for none, but then there is no value
\* to lose.
Snapshotted ==
  /\ pc = "prompt" => step = 1 /\ \A k \in Steps : rows[k] = Empty
  /\ pc = "snapshot" => /\ mode = "background" /\ session = submitted
                        /\ \A k \in Steps : rows[k] = Empty
  /\ mode = "foreground" /\ pc \notin {"prompt", "dead"} =>
       session = submitted /\ \A k \in Steps : rows[k] \in {Empty, submitted}
  /\ mode = "background" /\ pc \notin Before \union {"dead"} /\ submitted # Empty =>
       \A k \in Steps : rows[k] = submitted

\* Whatever process executes a step, it sees the submitted value where there is one.
LEMMA EffectiveIsSubmitted ==
  ASSUME TypeOK, Snapshotted, pc = "context", NEW x \in Names, submitted[x] # Unset
  PROVE  Effective(Ensured(step, Own)[step])[x] = submitted[x]
<1>0. step \in Steps /\ rows \in [Steps -> Store] /\ submitted \in Store
      /\ mode \in {"foreground", "background"}
  BY DEF TypeOK
<1>1. submitted # Empty
  BY DEF Empty
<1>2. Ensured(step, Own)[step] = submitted
  BY <1>0, <1>1 DEF Ensured, Snapshotted, Own, Before
<1>. QED BY <1>2 DEF Effective

LEMMA NextSnapshotted == TypeOK /\ Snapshotted /\ [Next]_vars => Snapshotted'
<1> SUFFICES ASSUME TypeOK, Snapshotted, [Next]_vars PROVE Snapshotted'
  OBVIOUS
<1>0. step \in Steps /\ rows \in [Steps -> Store] /\ mode \in {"foreground", "background"}
  BY DEF TypeOK
<1>1. ASSUME NEW x \in Names, NEW v \in Values \union {Unset}, SetVariable(x, v)
      PROVE  Snapshotted'
  BY <1>0, <1>1 DEF SetVariable, fixed, Snapshotted, Before
<1>2. CASE Submit
  BY <1>0, <1>2 DEF Submit, To, fixed, Snapshotted, Before
<1>3. CASE Snapshot
  <2>1. \A k \in Steps : rows'[k] = session
    BY <1>0, <1>3 DEF Snapshot, Ensured, Snapshotted
  <2>. QED BY <1>3, <2>1 DEF Snapshot, To, fixed, Snapshotted, Before
<1>4. CASE BuildContext
  <2>1. \A k \in Steps : rows'[k] = IF k = step /\ rows[k] = Empty THEN Own ELSE rows[k]
    BY <1>0, <1>4 DEF BuildContext, Ensured
  <2>. QED BY <1>0, <1>4, <2>1 DEF BuildContext, To, fixed, Own, Snapshotted, Before
<1>5. CASE Stage /\ ~ BuildContext
  <2>1. UNCHANGED <<rows, session, submitted, mode>> /\ pc \notin Before \union {"dead"}
    BY <1>5 DEF Stage, PlanPasses, RequestPlan, PublishPolicy, PromptFails, PlanOnlyEnds,
                RunCommandlet, Repair, Approve, Deny, fixed, varVars, Before
  <2>2. pc' \notin Before
    BY <1>0, <1>5, FinishMoves
       DEF Stage, PlanPasses, RequestPlan, PublishPolicy, PromptFails, PlanOnlyEnds,
           RunCommandlet, Repair, Approve, Deny, Stop, Fail, To, Before
  <2>. QED BY <2>1, <2>2 DEF Snapshotted, Before
<1>6. CASE Spawn \/ Raise \/ Die
  BY <1>6 DEF Spawn, Raise, Die, Fail, To, fixed, varVars, Snapshotted, Before
<1>7. CASE UNCHANGED vars
  BY <1>7 DEF vars, Snapshotted
<1>. QED BY <1>1, <1>2, <1>3, <1>4, <1>5, <1>6, <1>7 DEF Next

LEMMA NextSeen ==
  TypeOK /\ Snapshotted /\ SubmittedValuesAreSeen /\ [Next]_vars => SubmittedValuesAreSeen'
<1> SUFFICES ASSUME TypeOK, Snapshotted, SubmittedValuesAreSeen, [Next]_vars
             PROVE  SubmittedValuesAreSeen'
  OBVIOUS
<1>0. step \in Steps /\ view \in [Steps -> Store] /\ Steps \subseteq Int
  BY DEF TypeOK, Steps
<1>1. CASE BuildContext
  <2>1. \A x \in Names : submitted[x] # Unset => view'[step][x] = submitted[x]
    <3>1. view'[step] = Effective(Ensured(step, Own)[step])
      BY <1>0, <1>1 DEF BuildContext, Effective, Own
    <3>. QED BY <1>1, <3>1, EffectiveIsSubmitted DEF BuildContext
  <2>2. \A k \in Steps : k # step => view'[k] = view[k]
    BY <1>0, <1>1 DEF BuildContext
  <2>. QED BY <1>0, <1>1, <2>1, <2>2 DEF BuildContext, To, SubmittedValuesAreSeen, Begun
<1>2. CASE ~ BuildContext
  <2>1. CASE Submit
    <3>1. \A k \in Steps : ~ Begun(k)'
      BY <2>1 DEF Submit, To, Snapshotted, Begun, Steps
    <3>. QED BY <3>1 DEF SubmittedValuesAreSeen
  <2>2. CASE ~ Submit
    <3>1. UNCHANGED <<view, submitted>>
      BY <1>2, <2>2
         DEF Next, vars, SetVariable, Snapshot, Spawn, Stage, PlanPasses, RequestPlan,
             PublishPolicy, PromptFails, PlanOnlyEnds, RunCommandlet, Repair, Approve, Deny,
             Raise, Die, varVars
    <3>2. \A k \in Steps : Begun(k)' /\ pc' # "failed" /\ pc' # "dead" =>
            Begun(k) /\ pc # "failed" /\ pc # "dead"
      BY <1>0, <1>2, <2>2, FinishMoves
         DEF Next, vars, SetVariable, Snapshot, Spawn, Stage, PlanPasses, RequestPlan,
             PublishPolicy, PromptFails, PlanOnlyEnds, RunCommandlet, Repair, Approve, Deny,
             Raise, Die, Stop, Fail, To, Begun
    <3>. QED BY <3>1, <3>2 DEF SubmittedValuesAreSeen
  <2>. QED BY <2>1, <2>2
<1>. QED BY <1>1, <1>2

\* A variable that had a value at the submission has it for every step, whatever the shell
\* sets meanwhile and whatever defaults the worker has.
THEOREM SubmittedAreSeen == Spec => []SubmittedValuesAreSeen
<1>1. Init => Snapshotted
  BY DEF Init, Snapshotted, Before
<1>2. Init => SubmittedValuesAreSeen
  BY StepsAssumption DEF Init, SubmittedValuesAreSeen, Begun, Steps
<1>. QED BY <1>1, <1>2, InitTyped, NextTyped, NextSnapshotted, NextSeen, PTL DEF Spec
=============================================================================
