--------------------------- MODULE SessionTriggers ---------------------------
(***************************************************************************)
(* One trigger rule, evaluated at every prompt of every shell: triggers.py *)
(* and db/triggers.py.  A shell keeps a cursor in memory and one in the    *)
(* database it has open; shells may have the same database open, and a     *)
(* shell may change its database (db load, project use).                   *)
(*                                                                         *)
(* The log is the events of the rule's topic, numbered in order.  An event *)
(* either satisfies the rule's predicates on its payload or does not, and  *)
(* belongs to a job: the rule wants that job active and not its own action.*)
(***************************************************************************)
EXTENDS Integers, Sequences

CONSTANTS
  Shells,
  Databases,
  Service,     \* action_mode = "service"; "background" or "foreground" otherwise
  Limit,       \* events that one query returns at most
  MaxEvents, MaxJobs, MaxLives, MaxLoads, MaxFaults   \* bounds

ASSUME TriggersAssumption ==
  /\ Service \in BOOLEAN /\ Limit \in Nat \ {0}
  /\ {MaxEvents, MaxJobs, MaxLives, MaxLoads, MaxFaults} \subseteq Nat

VARIABLES
  log,         \* per database: the events of the topic
  jobs,        \* per database: the job rows, and how many jobs the starter of one had seen
  state,       \* per database: trigger_state.last_event_id
  fired,       \* per database: the framework.trigger.fired events
  shell,       \* per shell: the Runner's memory
  lives,       \* per shell: how often it was started
  loads, faults

vars == <<log, jobs, state, fired, shell, lives, loads, faults>>

NoCursor == -1

\* Where a shell is.  "prompt" is read_logical_input.
PC == {"off", "prompt", "enable", "query", "scan", "publish", "write", "advance", "action",
       "start", "stop", "disable", "disableWrite"}

Runner == [pc : PC, db : Databases,
           cursor : Nat \union {NoCursor},   \* trigger_event_cursors
           seen : SUBSET Nat,                \* fired_session_trigger_events
           enabled : BOOLEAN,                \* enabled_session_triggers
           own : SUBSET Nat,                 \* session_service_job_ids
           after : Nat, upto : Nat,          \* locals of the handlers
          looked : Nat]                     \* the jobs that start_trigger_action has seen

NewRunner(d) == [pc |-> "off", db |-> d, cursor |-> NoCursor, seen |-> {}, enabled |-> FALSE,
                 own |-> {}, after |-> 0, upto |-> 0, looked |-> 0]

TypeOK ==
  /\ log \in [Databases -> Seq([match : BOOLEAN, job : Nat \ {0}])]
  /\ \A d \in Databases : \A k \in DOMAIN log[d] : log[d][k].job \in DOMAIN jobs[d]
  /\ jobs \in [Databases -> Seq([by : Shells \union {"user"}, active : BOOLEAN, looked : Nat])]
  /\ state \in [Databases -> Nat]
  /\ fired \in [Databases -> Seq([event : Nat \ {0}, by : Shells, life : Nat])]
  /\ shell \in [Shells -> Runner]
  /\ \A s \in Shells : shell[s].pc = "off" => shell[s] = NewRunner(shell[s].db)
  /\ lives \in [Shells -> 0 .. MaxLives]
  /\ loads \in 0 .. MaxLoads /\ faults \in 0 .. MaxFaults

Init ==
  /\ log = [d \in Databases |-> <<>>]
  /\ jobs = [d \in Databases |-> <<>>]
  /\ state = [d \in Databases |-> 0]
  /\ fired = [d \in Databases |-> <<>>]
  /\ shell \in [Shells -> {NewRunner(d) : d \in Databases}]
  /\ lives = [s \in Shells |-> 0]
  /\ loads = 0 /\ faults = 0

-----------------------------------------------------------------------------
Db(s)         == shell[s].db
At(s, where)  == shell[s].pc = where
Become(s, r)  == shell' = [shell EXCEPT ![s] = r]
To(s, where)  == Become(s, [shell[s] EXCEPT !.pc = where])

Cursor(s) == IF shell[s].cursor = NoCursor THEN state[Db(s)] ELSE shell[s].cursor

\* update_trigger_state: last_event_id is overwritten, whatever it was.
UpdateTriggerState(s, last) == state' = [state EXCEPT ![Db(s)] = last]

IsService(d, j) == jobs[d][j].by \in Shells
Active(d, j)    == jobs[d][j].active

\* trigger_matches.
Matches(d, k) ==
  LET event == log[d][k] IN event.match /\ Active(d, event.job) /\ ~ IsService(d, event.job)

-----------------------------------------------------------------------------
(* The jobs of a database, which run beside the shells. *)

Submit(d) ==
  /\ Len(jobs[d]) < MaxJobs
  /\ jobs' = [jobs EXCEPT ![d] = Append(@, [by |-> "user", active |-> TRUE, looked |-> 0])]
  /\ UNCHANGED <<log, state, fired, shell, lives, loads, faults>>

Emit(d, j, match) ==
  /\ Len(log[d]) < MaxEvents
  /\ Active(d, j)
  /\ log' = [log EXCEPT ![d] = Append(@, [match |-> match, job |-> j])]
  /\ UNCHANGED <<jobs, state, fired, shell, lives, loads, faults>>

End(d, j) ==
  /\ Active(d, j)
  /\ jobs' = [jobs EXCEPT ![d][j].active = FALSE]
  /\ UNCHANGED <<log, state, fired, shell, lives, loads, faults>>

-----------------------------------------------------------------------------
(* start_default_services, at startup and before each prompt. *)

StartShell(s) ==
  /\ At(s, "off") /\ lives[s] < MaxLives
  /\ lives' = [lives EXCEPT ![s] = @ + 1]
  /\ To(s, "enable")
  /\ UNCHANGED <<log, jobs, state, fired, loads, faults>>

Prompt(s) ==
  /\ At(s, "prompt")
  /\ To(s, IF shell[s].enabled THEN "query" ELSE "enable")
  /\ UNCHANGED <<log, jobs, state, fired, lives, loads, faults>>

\* enable_session_trigger reads the cursor, and then writes back what it read.
EnableRead(s) ==
  /\ At(s, "enable") /\ ~ shell[s].enabled
  /\ LET last == state[Db(s)]
     IN  Become(s, [shell[s] EXCEPT !.enabled = TRUE, !.after = last,
                                    !.cursor = IF last # 0 /\ @ = NoCursor THEN last ELSE @])
  /\ UNCHANGED <<log, jobs, state, fired, lives, loads, faults>>

EnableWrite(s) ==
  /\ At(s, "enable") /\ shell[s].enabled
  /\ UpdateTriggerState(s, shell[s].after)
  /\ To(s, "query")
  /\ UNCHANGED <<log, jobs, fired, lives, loads, faults>>

\* framework_trigger_fired: the oldest events after the cursor.
Query(s) ==
  LET after == Cursor(s)
      last  == Len(log[Db(s)])
  IN  /\ At(s, "query")
      /\ Become(s, [shell[s] EXCEPT !.pc = "scan", !.after = after,
                                    !.upto = IF last <= after THEN after
                                             ELSE IF last <= after + Limit THEN last
                                             ELSE after + Limit])
      /\ UNCHANGED <<log, jobs, state, fired, lives, loads, faults>>

\* The first of them that matches, if any, ends the walk.
Scan(s) ==
  LET r       == shell[s]
      hits    == {k \in r.after + 1 .. r.upto : k \notin r.seen /\ Matches(r.db, k)}
      isFirst(k) == \A other \in hits : k <= other
  IN  /\ At(s, "scan")
      /\ \/ \E k \in hits : /\ isFirst(k)
                            /\ Become(s, [r EXCEPT !.pc = "publish", !.upto = k,
                                                   !.seen = @ \union {k}])
         \/ /\ hits = {}
            /\ Become(s, [r EXCEPT !.pc = IF r.upto # r.after THEN "advance" ELSE "prompt",
                                   !.cursor = r.upto])
      /\ UNCHANGED <<log, jobs, state, fired, lives, loads, faults>>

\* Mutant: a publish that is tried again after it has been done.
PublishRetried(s) ==
  /\ At(s, "publish")
  /\ fired' = [fired EXCEPT ![Db(s)] =
                 Append(@, [event |-> shell[s].upto, by |-> s, life |-> lives[s]])]
  /\ To(s, "write") \/ UNCHANGED shell
  /\ UNCHANGED <<log, jobs, state, lives, loads, faults>>

PublishFired(s) ==
  /\ At(s, "publish")
  /\ fired' = [fired EXCEPT ![Db(s)] =
                 Append(@, [event |-> shell[s].upto, by |-> s, life |-> lives[s]])]
  /\ To(s, "write")
  /\ UNCHANGED <<log, jobs, state, lives, loads, faults>>

\* Mutant: the high-water mark of the topic instead of the fired event.
WriteLatest(s) ==
  /\ At(s, "write")
  /\ UpdateTriggerState(s, Len(log[Db(s)]))
  /\ Become(s, [shell[s] EXCEPT !.pc = "action", !.cursor = Len(log[Db(s)])])
  /\ UNCHANGED <<log, jobs, fired, lives, loads, faults>>

WriteFired(s) ==
  /\ At(s, "write")
  /\ UpdateTriggerState(s, shell[s].upto)
  /\ Become(s, [shell[s] EXCEPT !.pc = "action", !.cursor = shell[s].upto])
  /\ UNCHANGED <<log, jobs, fired, lives, loads, faults>>

Advance(s) ==
  /\ At(s, "advance")
  /\ UpdateTriggerState(s, shell[s].upto)
  /\ To(s, "prompt")
  /\ UNCHANGED <<log, jobs, fired, lives, loads, faults>>

\* Mutant: no look at the active jobs.
ActUnchecked(s) ==
  /\ At(s, "action")
  /\ Become(s, [shell[s] EXCEPT !.pc = "start", !.looked = Len(jobs[Db(s)])])
  /\ UNCHANGED <<log, jobs, state, fired, lives, loads, faults>>

\* start_trigger_action: a service is started only when none is seen active.
CheckAction(s) ==
  /\ At(s, "action")
  /\ LET d == Db(s)
         running == \E j \in DOMAIN jobs[d] : IsService(d, j) /\ Active(d, j)
     IN  IF Service /\ running
         THEN To(s, "prompt")
         ELSE Become(s, [shell[s] EXCEPT !.pc = "start", !.looked = Len(jobs[d])])
  /\ UNCHANGED <<log, jobs, state, fired, lives, loads, faults>>

StartAction(s) ==
  LET job == Len(jobs[Db(s)]) + 1
  IN  /\ At(s, "start")
      /\ jobs' = [jobs EXCEPT ![Db(s)] =
                    Append(@, [by |-> s, active |-> TRUE, looked |-> shell[s].looked])]
      /\ Become(s, [shell[s] EXCEPT !.pc = "prompt", !.looked = 0,
                                    !.own = IF Service THEN @ \union {job} ELSE @])
      /\ UNCHANGED <<log, state, fired, lives, loads, faults>>

-----------------------------------------------------------------------------
(* The rest of the shell's life. *)

\* load_database: only the Runner's db changes.
LoadDatabase(s, d) ==
  /\ At(s, "prompt") /\ d # Db(s)
  /\ loads < MaxLoads /\ loads' = loads + 1
  /\ Become(s, [shell[s] EXCEPT !.db = d])
  /\ UNCHANGED <<log, jobs, state, fired, lives, faults>>

\* Leaving the loop, or an error raised in it, leads to shutdown_runner.
Exit(s) ==
  /\ \/ At(s, "prompt") /\ UNCHANGED faults
     \/ /\ shell[s].pc \in {"enable", "query", "scan", "publish", "write", "advance", "action",
                            "start"}
        /\ faults < MaxFaults /\ faults' = faults + 1
  /\ To(s, "stop")
  /\ UNCHANGED <<log, jobs, state, fired, lives, loads>>

\* Mutant: every active service job is stopped.
StopAllServices(s) ==
  /\ At(s, "stop")
  /\ jobs' = [jobs EXCEPT ![Db(s)] =
                [j \in DOMAIN @ |-> IF IsService(Db(s), j) THEN [@[j] EXCEPT !.active = FALSE]
                                                       ELSE @[j]]]
  /\ IF shell[s].enabled THEN To(s, "disable") ELSE Become(s, NewRunner(Db(s)))
  /\ UNCHANGED <<log, state, fired, lives, loads, faults>>

\* stop_session_services; how a job is stopped is JobLifecycle's subject.
StopServices(s) ==
  /\ At(s, "stop")
  /\ jobs' = [jobs EXCEPT ![Db(s)] =
                [j \in DOMAIN @ |-> IF j \in shell[s].own THEN [@[j] EXCEPT !.active = FALSE]
                                                    ELSE @[j]]]
  /\ IF shell[s].enabled THEN To(s, "disable") ELSE Become(s, NewRunner(Db(s)))
  /\ UNCHANGED <<log, state, fired, lives, loads, faults>>

\* disable_session_triggers: the cursor is read and written back.
DisableRead(s) ==
  /\ At(s, "disable")
  /\ Become(s, [shell[s] EXCEPT !.pc = "disableWrite", !.after = state[Db(s)]])
  /\ UNCHANGED <<log, jobs, state, fired, lives, loads, faults>>

DisableWrite(s) ==
  /\ At(s, "disableWrite")
  /\ UpdateTriggerState(s, shell[s].after)
  /\ Become(s, NewRunner(Db(s)))
  /\ UNCHANGED <<log, jobs, fired, lives, loads, faults>>

\* The process dies, and with it all that the Runner remembers.
ShellDies(s) ==
  /\ ~ At(s, "off")
  /\ faults < MaxFaults /\ faults' = faults + 1
  /\ Become(s, NewRunner(Db(s)))
  /\ UNCHANGED <<log, jobs, state, fired, lives, loads>>

-----------------------------------------------------------------------------
Next ==
  \/ \E d \in Databases : Submit(d) \/ \E j \in DOMAIN jobs[d] : End(d, j)
                                       \/ \E match \in BOOLEAN : Emit(d, j, match)
  \/ \E s \in Shells :
       \/ StartShell(s) \/ Prompt(s) \/ EnableRead(s) \/ EnableWrite(s)
       \/ Query(s) \/ Scan(s) \/ PublishFired(s) \/ WriteFired(s) \/ Advance(s)
       \/ CheckAction(s) \/ StartAction(s)
       \/ \E d \in Databases : LoadDatabase(s, d)
       \/ Exit(s) \/ StopServices(s) \/ DisableRead(s) \/ DisableWrite(s) \/ ShellDies(s)

Spec == Init /\ [][Next]_vars

-----------------------------------------------------------------------------
\* One shell fires no event of a database twice in one life (framework_trigger_fired).
OncePerSession ==
  \A d \in Databases : \A i, j \in DOMAIN fired[d] : fired[d][i] = fired[d][j] => i = j

\* The durable cursor passes over no event the rule should have fired on: each one up to
\* it has been fired, does not match, or belongs to a job that has ended.  The fired
\* event is published before the cursor moves (framework_trigger_fired).
CursorCoversHistory ==
  \A d \in Databases : \A k \in 1 .. state[d] :
    \/ \E i \in DOMAIN fired[d] : fired[d][i].event = k
    \/ k \in DOMAIN log[d] /\ ~ Matches(d, k)

\* Two copies of the service run at once only when two shells have both looked before either
\* of them started one: the later copy is another shell's, and that shell had looked before
\* the earlier one was there (start_trigger_action, whose look and start are two steps).
OneServiceAtATime ==
  \A d \in Databases : \A i, j \in DOMAIN jobs[d] :
    (i < j /\ IsService(d, i) /\ IsService(d, j) /\ Active(d, i) /\ Active(d, j)) =>
      jobs[d][i].by # jobs[d][j].by /\ jobs[d][j].looked < i

\* The number is that of a service which shell s has started in another database than d.
StartedElsewhere(s, d, j) ==
  \E e \in Databases \ {d} : j \in DOMAIN jobs[e] /\ jobs[e][j].by = s

\* "Only stop jobs that this session started as services": what a leaving shell stops,
\* it has started.  The exception is a shell that has changed its database, which looks in
\* the new one for the numbers of the services it started in the old one
\* (stop_session_services, load_database).
ShutdownSparesOthers ==
  [][\A s \in Shells : StopServices(s) =>
       \A j \in DOMAIN jobs[Db(s)] :
         Active(Db(s), j) /\ jobs[Db(s)][j].by # s /\ ~ StartedElsewhere(s, Db(s), j)
           => Active(Db(s), j)']_vars
=============================================================================
