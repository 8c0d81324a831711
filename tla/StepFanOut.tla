----------------------------- MODULE StepFanOut -----------------------------
(***************************************************************************)
(* A pipeline whose every step runs in its own process ("a & | b & | c &"):*)
(* run_pipeline_step_processes, run_stage_process and execute_stage, with  *)
(* each later step following the events of the step before it through      *)
(* ContextEvents.follow(until_parent_done=True).                           *)
(*                                                                         *)
(* The event log is the only thing the processes share.  Its ids are the   *)
(* positions of the sequence: SQLite assigns them in commit order.         *)
(***************************************************************************)
EXTENDS Naturals, Sequences, FiniteSets

CONSTANTS
  Length,      \* number of steps of the pipeline
  MaxEvents,   \* bound on the events the first step emits
  Limit,       \* events that one fetch returns at most
  Timed,       \* the followers that were given a timeout
  MaxFaults    \* bound on errors and crashes

ASSUME FanOutAssumption ==
  /\ Length \in Nat \ {0} /\ MaxEvents \in Nat /\ Limit \in Nat \ {0}
  /\ Timed \subseteq 2 .. Length /\ MaxFaults \in Nat

Steps     == 1 .. Length
Followers == 2 .. Length

VARIABLES
  log,        \* events and terminal lifecycle events, in id order
  pc,         \* where each step's process is
  cursor,     \* the id after which a follower fetches
  batch,      \* ids it has fetched and not handled yet
  handled,    \* ids its commandlet has handled
  drainedTo,  \* history: the newest id at its last fetch, if that returned nothing
  job,        \* the job process that starts the steps and joins them
  cancelled,  \* a cancellation of the job or of its pipeline is recorded
  faults      \* errors and crashes so far

readerVars == <<cursor, batch, handled, drainedTo>>
vars == <<log, pc, readerVars, job, cancelled, faults>>

Kinds == {"event", "completed", "failed"}
PC == {"none", "boot", "work", "head", "fetch", "check", "parentDone", "complete", "fail",
       "exit", "unstarted", "dead"}
Ended == {"exit", "unstarted", "dead"}

TypeOK ==
  /\ log \in Seq([step : Steps, kind : Kinds])
  /\ pc \in [Steps -> PC]
  /\ cursor \in [Followers -> 0 .. Len(log)]
  /\ batch \in [Followers -> Seq(1 .. Len(log))]
  /\ handled \in [Followers -> Seq(1 .. Len(log))]
  /\ drainedTo \in [Followers -> 0 .. Len(log)]
  /\ job \in {"running", "finished", "failed", "dead"}
  /\ cancelled \in BOOLEAN
  /\ faults \in 0 .. MaxFaults

Init ==
  /\ log = <<>>
  /\ pc = [i \in Steps |-> "none"]
  /\ cursor = [i \in Followers |-> 0]
  /\ batch = [i \in Followers |-> <<>>]
  /\ handled = [i \in Followers |-> <<>>]
  /\ drainedTo = [i \in Followers |-> 0]
  /\ job = "running"
  /\ cancelled = FALSE
  /\ faults = 0

-----------------------------------------------------------------------------
To(i, where)  == pc' = [pc EXCEPT ![i] = where]
PublishAs(i, kind) == log' = Append(log, [step |-> i, kind |-> kind])
Fault         == faults < MaxFaults /\ faults' = faults + 1

\* The ids of step i's events among the first n of the log.
EventsOf(i, n) == {k \in 1 .. n : log[k].step = i /\ log[k].kind = "event"}

\* The parent's events that a follower has not fetched.
NewEvents(i) == {k \in EventsOf(i - 1, Len(log)) : k > cursor[i]}

\* s lists the ids of S, oldest first.
Lists(s, S) == /\ {s[n] : n \in DOMAIN s} = S
               /\ \A n \in DOMAIN s : \A m \in 1 .. n - 1 : s[m] < s[n]

\* Mutant: any event of the step counts.
AnyEventIsTerminal(i) == \E k \in DOMAIN log : log[k].step = i

\* Mutant: only success is looked for.
CompletedOnly(i) == \E k \in DOMAIN log : log[k] = [step |-> i, kind |-> "completed"]

\* command_run_terminal: the step has published completed or failed.
CommandRunTerminal(i) == \E k \in DOMAIN log : log[k].step = i /\ log[k].kind # "event"

Emitted(i) == Cardinality(EventsOf(i, Len(log)))

-----------------------------------------------------------------------------
(* The job process. *)

StartStep(i) ==
  /\ job = "running"
  /\ pc[i] = "none" /\ \A k \in 1 .. i - 1 : pc[k] # "none"
  /\ To(i, "boot")
  /\ UNCHANGED <<log, readerVars, job, cancelled, faults>>

\* Mutant: only the last step is joined.
JoinLast ==
  /\ job = "running"
  /\ pc[Length] \in Ended
  /\ job' = "finished"
  /\ UNCHANGED <<log, pc, readerVars, cancelled, faults>>

\* The joins return, whatever the exit codes, and the job finishes.
JoinSteps ==
  /\ job = "running"
  /\ \A i \in Steps : pc[i] \in Ended
  /\ job' = "finished"
  /\ UNCHANGED <<log, pc, readerVars, cancelled, faults>>

\* Recording a step's variables or starting its process raises: the job fails without
\* joining the steps it has started.
SpawnRaises ==
  /\ Fault
  /\ job = "running" /\ \E i \in Steps : pc[i] = "none"
  /\ job' = "failed"
  /\ UNCHANGED <<log, pc, readerVars, cancelled>>

\* A hard kill reaches the job's process only: its steps are not daemons.
JobDies ==
  /\ Fault
  /\ job = "running"
  /\ job' = "dead"
  /\ UNCHANGED <<log, pc, readerVars, cancelled>>

\* request_cancellation, by an operator.
Cancel ==
  /\ ~ cancelled
  /\ cancelled' = TRUE
  /\ UNCHANGED <<log, pc, readerVars, job, faults>>

-----------------------------------------------------------------------------
(* execute_stage. *)

\* Up to publishing its start a step may raise, and a cancelled one does: nothing is
\* published then.
BeginStep(i) ==
  /\ pc[i] = "boot"
  /\ \/ /\ ~ cancelled
        /\ To(i, IF i = 1 THEN "work" ELSE "head")
        /\ UNCHANGED faults
     \/ /\ cancelled /\ To(i, "unstarted") /\ UNCHANGED faults
     \/ /\ Fault /\ To(i, "unstarted")
  /\ UNCHANGED <<log, readerVars, job, cancelled>>

\* The first step's commandlet emits an event, or returns.
Produce(i) ==
  /\ i = 1 /\ pc[i] = "work"
  /\ \/ Emitted(i) < MaxEvents /\ PublishAs(i, "event") /\ UNCHANGED pc
     \/ To(i, "complete") /\ UNCHANGED log
  /\ UNCHANGED <<readerVars, job, cancelled, faults>>

\* A follower's commandlet handles the next event of the batch, with or without an
\* event of its own, and asks for more when there is none.
Handle(i) ==
  /\ i \in Followers /\ pc[i] = "work"
  /\ IF batch[i] = <<>>
     THEN To(i, "head") /\ UNCHANGED <<log, batch, handled>>
     ELSE /\ handled' = [handled EXCEPT ![i] = Append(@, Head(batch[i]))]
          /\ batch' = [batch EXCEPT ![i] = Tail(@)]
          /\ PublishAs(i, "event") \/ UNCHANGED log
          /\ UNCHANGED pc
  /\ UNCHANGED <<cursor, drainedTo, job, cancelled, faults>>

\* The commandlet raises: by itself, or from raise_if_cancelled.
Raise(i) ==
  /\ pc[i] \in {"work", "head", "fetch", "check"}
  /\ \/ Fault
     \/ cancelled /\ pc[i] = "work" /\ UNCHANGED faults
  /\ To(i, "fail")
  /\ UNCHANGED <<log, readerVars, job, cancelled>>

\* context.pipeline.stop: the pipeline is cancelled and the step completes.
StopPipeline(i) ==
  /\ pc[i] = "work"
  /\ cancelled' = TRUE
  /\ To(i, "complete")
  /\ UNCHANGED <<log, readerVars, job, faults>>

\* publish_command_run_lifecycle("completed" or "failed"); the process exits.
EndStep(i) ==
  /\ \/ pc[i] \in {"complete", "parentDone"} /\ PublishAs(i, "completed")
     \/ pc[i] = "fail" /\ PublishAs(i, "failed")
  /\ To(i, "exit")
  /\ UNCHANGED <<readerVars, job, cancelled, faults>>

StepDies(i) ==
  /\ Fault
  /\ pc[i] \notin {"none"} \union Ended
  /\ To(i, "dead")
  /\ UNCHANGED <<log, readerVars, job, cancelled>>

-----------------------------------------------------------------------------
(* ContextEvents.follow. *)

LoopHead(i) ==
  /\ pc[i] = "head"
  /\ To(i, IF cancelled THEN "complete" ELSE "fetch")
  /\ drainedTo' = [drainedTo EXCEPT ![i] = 0]
  /\ UNCHANGED <<log, cursor, batch, handled, job, cancelled, faults>>

\* Mutant: ORDER BY id DESC.
Newest(E) ==
  {some \in SUBSET E :
     /\ \A k \in some, n \in E \ some : k > n
     /\ Cardinality(some) = IF Cardinality(E) < Limit THEN Cardinality(E) ELSE Limit}

\* The oldest of the events E, as many as one fetch returns.
Oldest(E) ==
  {some \in SUBSET E :
     /\ \A k \in some, n \in E \ some : k < n
     /\ Cardinality(some) = IF Cardinality(E) < Limit THEN Cardinality(E) ELSE Limit}

\* Mutant: the cursor moves to the newest event there is, not to the newest returned.
FetchToNewest(i) ==
  /\ pc[i] = "fetch"
  /\ IF NewEvents(i) = {}
     THEN /\ drainedTo' = [drainedTo EXCEPT ![i] = Len(log)]
          /\ To(i, "check") /\ UNCHANGED <<cursor, batch>>
     ELSE \E some \in Oldest(NewEvents(i)) : \E events \in [1 .. Cardinality(some) -> some] :
            /\ Lists(events, some)
            /\ cursor' = [cursor EXCEPT ![i] = Len(log)]
            /\ batch' = [batch EXCEPT ![i] = events]
            /\ To(i, "work") /\ UNCHANGED drainedTo
  /\ UNCHANGED <<log, handled, job, cancelled, faults>>

\* ORDER BY id ASC LIMIT: the oldest events after the cursor, which moves to the last.
Fetch(i) ==
  /\ pc[i] = "fetch"
  /\ IF NewEvents(i) = {}
     THEN /\ drainedTo' = [drainedTo EXCEPT ![i] = Len(log)]
          /\ To(i, "check") /\ UNCHANGED <<cursor, batch>>
     ELSE \E some \in Oldest(NewEvents(i)) : \E events \in [1 .. Cardinality(some) -> some] :
            /\ Lists(events, some)
            /\ cursor' = [cursor EXCEPT ![i] = events[Len(events)]]
            /\ batch' = [batch EXCEPT ![i] = events]
            /\ To(i, "work") /\ UNCHANGED drainedTo
  /\ UNCHANGED <<log, handled, job, cancelled, faults>>

\* Nothing was fetched: is the parent done, or the time over?  If not, sleep.
Check(i) ==
  /\ pc[i] = "check"
  /\ \/ CommandRunTerminal(i - 1) /\ To(i, "parentDone")
     \/ ~ CommandRunTerminal(i - 1) /\ To(i, "head")
     \/ ~ CommandRunTerminal(i - 1) /\ i \in Timed /\ To(i, "complete")
  /\ UNCHANGED <<log, readerVars, job, cancelled, faults>>

Follow(i) == i \in Followers /\ (LoopHead(i) \/ Fetch(i) \/ Check(i))

-----------------------------------------------------------------------------
Run(i) == BeginStep(i) \/ Produce(i) \/ Handle(i) \/ Follow(i) \/ EndStep(i)

Next == \/ \E i \in Steps : StartStep(i) \/ Run(i) \/ Raise(i) \/ StopPipeline(i) \/ StepDies(i)
        \/ JoinSteps \/ SpawnRaises \/ JobDies \/ Cancel

Spec == Init /\ [][Next]_vars

\* The job and the steps run; nobody has to cancel, and nothing has to go wrong.
Fairness == /\ \A i \in Steps : WF_vars(StartStep(i)) /\ WF_vars(Run(i))
            /\ WF_vars(JoinSteps)

FairSpec == Spec /\ Fairness

-----------------------------------------------------------------------------
\* What a follower has handled and fetched is what its parent emitted up to its
\* cursor: in order, nothing twice and nothing skipped by a limited batch or by the
\* events others interleave (follow, fetch).
HandledInOrder ==
  \A i \in Followers : Lists(handled[i] \o batch[i], EventsOf(i - 1, cursor[i]))

\* When a follower finds its parent done, it has handled everything that its parent had
\* published before its last fetch: what it misses was published between that fetch and
\* the check for the end (follow).
MissesOnlyTheWindow ==
  \A i \in Followers : pc[i] = "parentDone" => Lists(handled[i], EventsOf(i - 1, drainedTo[i]))

\* A follower that completes without a cancellation or a timeout does so after its
\* parent's terminal event, so that the steps complete in pipeline order (follow).
CompletesAfterParent ==
  ~ cancelled =>
    \A i \in Followers \ Timed : \A k \in DOMAIN log :
      log[k] = [step |-> i, kind |-> "completed"] =>
        \E m \in 1 .. k - 1 : log[m].step = i - 1 /\ log[m].kind # "event"

\* The job is finished only when no step can publish any more: the log is final
\* (run_pipeline_step_processes waits for every step).
FinishedLogIsFinal == [][job = "finished" => UNCHANGED log]_vars

\* Followers stop: a step whose parent published completed or failed comes to its end
\* (command_run_terminal), however many events are still to be handled.
FollowersStop ==
  \A i \in Followers :
    (/\ pc[i] # "none"
     /\ \E k \in DOMAIN log : log[k].step = i - 1 /\ log[k].kind \in {"completed", "failed"})
      ~> pc[i] \in Ended
=============================================================================
