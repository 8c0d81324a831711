----------------------------- MODULE JobContract -----------------------------
(***************************************************************************)
(* What a session may rely on once it has submitted jobs: a job is claimed *)
(* once and only while it is queued, it has one end, it begins stages only *)
(* between the two, and at most one after its cancellation was recorded.   *)
(* Instead of stages of its own it may start steps, each of which begins   *)
(* only if it looked for a cancellation before one was recorded; it        *)
(* finishes when all of them are over, and any other end leaves them be.   *)
(***************************************************************************)
EXTENDS Naturals

CONSTANTS
  Jobs,
  Steps

VARIABLES
  phase,  \* per job: "none", "queued", "working", "finished", "failed" or "over"
  begun,  \* per job: the stages it has begun
  asked,  \* the jobs whose cancellation is on record
  late,   \* the jobs that have begun a stage since
  steps   \* per job and step: "none", "boot", "checked", "stage" or "over"

Init == /\ phase = [j \in Jobs |-> "none"] /\ begun = [j \in Jobs |-> 0]
        /\ asked = {} /\ late = {}
        /\ steps = [j \in Jobs |-> [i \in Steps |-> "none"]]

Become(j, from, to) == phase[j] \in from /\ phase' = [phase EXCEPT ![j] = to]

Submit(j) == Become(j, {"none"}, "queued") /\ UNCHANGED <<begun, asked, late, steps>>

Claim(j) == Become(j, {"queued"}, "working") /\ UNCHANGED <<begun, asked, late, steps>>

\* Work that is cancelled, paused or swept before its claim, or lost after it.
Drop(j) == Become(j, {"queued", "working"}, "over") /\ UNCHANGED <<begun, asked, late, steps>>

Begin(j) ==
  /\ phase[j] = "working" /\ j \notin late
  /\ \A i \in Steps : steps[j][i] = "none"
  /\ begun' = [begun EXCEPT ![j] = @ + 1]
  /\ late' = late \union ({j} \intersect asked)
  /\ UNCHANGED <<phase, asked, steps>>

Fail(j) == Become(j, {"working"}, "failed") /\ UNCHANGED <<begun, asked, late, steps>>

\* A job that has begun nothing has not finished.
Finish(j) == /\ begun[j] > 0 \/ \E i \in Steps : steps[j][i] # "none"
             /\ \A i \in Steps : steps[j][i] \in {"none", "over"}
             /\ Become(j, {"working"}, "finished") /\ UNCHANGED <<begun, asked, late, steps>>

\* A cancellation is never withdrawn; one of the pipeline is one of all its jobs.
Asking == asked' \in SUBSET Jobs /\ asked \subseteq asked'

Ask == Asking /\ UNCHANGED <<phase, begun, late, steps>>

StepTo(j, i, from, to) ==
  /\ steps[j][i] \in from
  /\ steps' = [steps EXCEPT ![j][i] = to]
  /\ UNCHANGED <<phase, begun, late>>

StartStep(j, i) == /\ phase[j] = "working" /\ begun[j] = 0
                   /\ StepTo(j, i, {"none"}, "boot") /\ UNCHANGED asked

Clear(j, i) == j \notin asked /\ StepTo(j, i, {"boot"}, "checked") /\ UNCHANGED asked

BeginStep(j, i) == StepTo(j, i, {"checked"}, "stage") /\ UNCHANGED asked

\* A stage may ask for the cancellation of its pipeline as it ends.
EndStep(j, i) == StepTo(j, i, {"boot", "checked", "stage"}, "over") /\ Asking

Next == \/ Ask
        \/ \E j \in Jobs : \/ Submit(j) \/ Claim(j) \/ Drop(j) \/ Begin(j) \/ Fail(j) \/ Finish(j)
                           \/ \E i \in Steps : \/ StartStep(j, i) \/ Clear(j, i)
                                               \/ BeginStep(j, i) \/ EndStep(j, i)

Spec == Init /\ [][Next]_<<phase, begun, asked, late, steps>>
=============================================================================
