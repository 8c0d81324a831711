-------------------------- MODULE FrameworkRequests --------------------------
(***************************************************************************)
(* What commandlets ask of the shell: framework/requests.py and            *)
(* framework/process_requests.py, as drained by repl/shell.py.             *)
(*                                                                         *)
(* A request is an event; foreground commands and background jobs publish  *)
(* it, and every shell that has the database open drains it: it takes the  *)
(* requests above its cursor, at most Limit at a time, and handles each.   *)
(* Cursor and handled ids are the shell's memory.  A commandlet may give   *)
(* the shell another EventStore, of another database (db load) or of the   *)
(* same one (db encrypt, decrypt, rekey), and then the memory is reset;    *)
(* the builtin project use replaces the EventStore and keeps the memory.   *)
(***************************************************************************)
EXTENDS Integers, Sequences

CONSTANTS
  Shells, Databases,
  Limit,                               \* requests that one fetch returns at most
  MaxRequests, MaxTenures, MaxFaults   \* bounds

ASSUME LimitAssumption == Limit \in Nat \ {0}
ASSUME BoundsAssumption == {MaxRequests, MaxTenures, MaxFaults} \subseteq Nat

VARIABLES
  log,       \* per database: the request events, in id order
  effects,   \* per shell: what this session did about requests
  shell,     \* per shell: ShellState, and where the loop is
  faults

vars == <<log, effects, shell, faults>>

\* A request that is displayed, one that is refused, a process that its commandlet
\* runs itself (handled), and a process that the shell is to run.
Kinds == {"display", "invalid", "handled", "process"}

\* The loop of a shell.  "drain" is process_framework_requests.
PC == {"off", "prompt", "command", "drain", "process"}

\* A tenure is a shell's time with one EventStore.  left: the drains before the next
\* prompt, with the current one.  replaced: the command has replaced the EventStore.
\* alien: the memory belongs to another database.  start and mine are history: the
\* newest request at the beginning of the tenure, the current command's requests.
Session == [pc : PC, db : Databases, tenure : Nat, afterId : Nat, handled : SUBSET Nat,
            left : 0 .. 3, upto : Nat, replaced : BOOLEAN, alien : BOOLEAN,
            start : Nat, mine : SUBSET Nat]

Effect == [db : Databases, event : Nat, what : {"ran", "done", "denied"}, tenure : Nat]

Off(d, tenure) == [pc |-> "off", db |-> d, tenure |-> tenure, afterId |-> 0, handled |-> {},
                   left |-> 0, upto |-> 0, replaced |-> FALSE, alien |-> FALSE,
                   start |-> 0, mine |-> {}]

TypeOK ==
  /\ log \in [Databases -> Seq(Kinds)]
  /\ effects \in [Shells -> Seq(Effect)]
  /\ shell \in [Shells -> Session]
  /\ \A s \in Shells :
       LET r == shell[s] IN
       /\ r.pc = "off" => r = Off(r.db, r.tenure)
       /\ r.pc = "process" => r.afterId \in r.handled /\ log[r.db][r.afterId] = "process"
       /\ r.pc # "command" => ~ r.replaced
       /\ r.left = 0 <=> r.pc \in {"off", "prompt", "command"}
  /\ faults \in 0 .. MaxFaults

Init ==
  /\ log = [d \in Databases |-> <<>>]
  /\ effects = [s \in Shells |-> <<>>]
  /\ shell \in [Shells -> {Off(d, 0) : d \in Databases}]
  /\ faults = 0

-----------------------------------------------------------------------------
Larger(a, b)  == IF a >= b THEN a ELSE b
Smaller(a, b) == IF a <= b THEN a ELSE b

At(s, where) == shell[s].pc = where
Become(s, r) == shell' = [shell EXCEPT ![s] = r]
Log(s)       == log[shell[s].db]

\* What the shell does after n more drains: each begins with a fetch.
Draining(r, n) == [r EXCEPT !.pc = IF n = 0 THEN "prompt" ELSE "drain", !.left = n, !.upto = 0]

Fault == faults < MaxFaults /\ faults' = faults + 1

Request(d, kind) == /\ Len(log[d]) < MaxRequests
                    /\ log' = [log EXCEPT ![d] = Append(@, kind)]

Did(s, k, what) ==
  effects' = [effects EXCEPT ![s] =
                Append(@, [db |-> shell[s].db, event |-> k, what |-> what,
                           tenure |-> shell[s].tenure])]

\* A background job's request; the shells find it at their next drain.
JobRequests(d, kind) == Request(d, kind) /\ UNCHANGED <<effects, shell, faults>>

\* A session that looks at no request up to the newest.
Begun(d, tenure, newest) == [Off(d, tenure) EXCEPT !.pc = "drain", !.afterId = newest,
                                                   !.start = newest]

\* new_shell_state: the requests that are there already are not for this session.
Start(s) ==
  /\ At(s, "off") /\ shell[s].tenure < MaxTenures
  /\ Become(s, Draining(Begun(shell[s].db, shell[s].tenure + 1, Len(Log(s))), 1))
  /\ effects' = [effects EXCEPT ![s] = <<>>]
  /\ UNCHANGED <<log, faults>>

-----------------------------------------------------------------------------
(* process_framework_requests. *)

\* Mutant: a fetch returns the newest requests and not the oldest.
FetchNewest(s) ==
  /\ At(s, "drain") /\ shell[s].upto = 0
  /\ Len(Log(s)) > shell[s].afterId
  /\ Become(s, [shell[s] EXCEPT !.upto = Len(Log(s)),
                                !.afterId = Larger(shell[s].afterId, Len(Log(s)) - Limit)])
  /\ UNCHANGED <<log, effects, faults>>

Fetch(s) ==
  /\ At(s, "drain") /\ shell[s].upto = 0
  /\ Len(Log(s)) > shell[s].afterId
  /\ Become(s, [shell[s] EXCEPT !.upto = Smaller(Len(Log(s)), shell[s].afterId + Limit)])
  /\ UNCHANGED <<log, effects, faults>>

\* Request k is the next one of the batch.
InBatch(s, k) == At(s, "drain") /\ k = shell[s].afterId + 1 /\ k <= shell[s].upto

\* Cursor and handled set move before the handler runs.
Take(r, k) == [r EXCEPT !.afterId = Larger(r.afterId, k), !.handled = r.handled \union {k}]

Skip(s, k) ==
  /\ InBatch(s, k)
  /\ k \in shell[s].handled \/ Log(s)[k] = "handled"
  /\ Become(s, Take(shell[s], k))
  /\ UNCHANGED <<log, effects, faults>>

\* The display handlers publish what they did; a refusal is published too.
Handle(s, k) ==
  /\ InBatch(s, k) /\ k \notin shell[s].handled
  /\ \/ Log(s)[k] = "display" /\ Did(s, k, "done")
     \/ Log(s)[k] = "invalid" /\ Did(s, k, "denied")
  /\ Become(s, Take(shell[s], k))
  /\ UNCHANGED <<log, faults>>

\* Mutant: the cursor and the handled set are left to the end of the handler.
RunProcessFirst(s, k) ==
  /\ InBatch(s, k) /\ k \notin shell[s].handled /\ Log(s)[k] = "process"
  /\ Did(s, k, "ran")
  /\ \/ Become(s, Take(shell[s], k)) /\ UNCHANGED faults
     \/ Fault /\ Become(s, Draining(shell[s], 2))
  /\ UNCHANGED log

\* handle_process_run_request: the process runs, or what it raises is the reason of a
\* denial.
RunProcess(s, k) ==
  /\ InBatch(s, k) /\ k \notin shell[s].handled /\ Log(s)[k] = "process"
  /\ \/ /\ Did(s, k, "ran")
        /\ Become(s, [Take(shell[s], k) EXCEPT !.pc = "process"])
        /\ UNCHANGED faults
     \/ /\ Fault /\ Did(s, k, "denied")
        /\ Become(s, Take(shell[s], k))
  /\ UNCHANGED log

\* The transcript is attached and the result published.
PublishRun(s) ==
  /\ At(s, "process")
  /\ Did(s, shell[s].afterId, "done")
  /\ Become(s, [shell[s] EXCEPT !.pc = "drain"])
  /\ UNCHANGED <<log, faults>>

\* A handler raises with the request taken: the database is locked, the pager or the
\* artifact store fails.  In the drain inside a command (left = 3) dispatch_repl_line
\* prints the error and the loop goes on; elsewhere the exception ends the shell.
Raised(r) == IF r.left = 3 THEN Draining(r, 2) ELSE Off(r.db, r.tenure)

HandlerRaises(s, k) ==
  /\ \/ /\ At(s, "process") /\ k = shell[s].afterId
        /\ Become(s, Raised([shell[s] EXCEPT !.pc = "drain"]))
     \/ /\ InBatch(s, k) /\ k \notin shell[s].handled /\ Log(s)[k] \in {"display", "invalid"}
        /\ Become(s, Raised(Take(shell[s], k)))
  /\ Fault
  /\ UNCHANGED <<log, effects>>

DrainEnds(s) ==
  /\ At(s, "drain")
  /\ IF shell[s].upto = 0 THEN shell[s].afterId >= Len(Log(s))
                          ELSE shell[s].afterId >= shell[s].upto
  /\ Become(s, Draining(shell[s], shell[s].left - 1))
  /\ UNCHANGED <<log, effects, faults>>

-----------------------------------------------------------------------------
(* A line of input: execute_repl_commandlet, or a builtin. *)

Given(r) == [r EXCEPT !.pc = "command", !.mine = {}]

Command(s) ==
  /\ At(s, "prompt")
  /\ Become(s, Given(shell[s]))
  /\ UNCHANGED <<log, effects, faults>>

CommandRequests(s, kind) ==
  /\ At(s, "command")
  /\ Request(shell[s].db, kind)
  /\ Become(s, [shell[s] EXCEPT !.mine = @ \union {Len(Log(s)) + 1}])
  /\ UNCHANGED <<effects, faults>>

\* The shell goes on with another EventStore and the memory it has.
Moved(r, d) == [r EXCEPT !.db = d, !.tenure = r.tenure + 1, !.alien = TRUE, !.mine = {}]

\* replace_active_store, by db load and db new (another database) or by db encrypt,
\* decrypt and rekey (the same one).
ReplaceStore(s, d) ==
  /\ At(s, "command") /\ ~ shell[s].replaced /\ shell[s].tenure < MaxTenures
  /\ Become(s, [Moved(shell[s], d) EXCEPT !.replaced = TRUE])
  /\ UNCHANGED <<log, effects, faults>>

\* Mutant: the cursor is set to the newest event, as it is in a new session.
ResetToNewest(r) ==
  [r EXCEPT !.afterId = Len(log[r.db]), !.handled = {}, !.alien = FALSE,
            !.start = Len(log[r.db])]

\* reset_framework_request_cursor.
ResetCursor(r) == [r EXCEPT !.afterId = 0, !.handled = {}, !.alien = FALSE, !.start = 0]

CommandReturns(s) ==
  /\ At(s, "command")
  /\ LET r == [shell[s] EXCEPT !.replaced = FALSE] IN
     Become(s, Draining(IF shell[s].replaced THEN ResetCursor(r) ELSE r, 3))
  /\ UNCHANGED <<log, effects, faults>>

\* Mutant: the command's failure leaves the mark of the replacement.
CommandRaisesOnly(s) ==
  /\ At(s, "command") /\ Fault
  /\ Become(s, Draining(shell[s], 2))
  /\ UNCHANGED <<log, effects>>

\* The command's exception passes the reset and the first drain.
CommandRaises(s) ==
  /\ At(s, "command") /\ Fault
  /\ Become(s, Draining([shell[s] EXCEPT !.replaced = FALSE], 2))
  /\ UNCHANGED <<log, effects>>

\* switch_project.
UseProject(s, d) ==
  /\ At(s, "prompt") /\ d # shell[s].db /\ shell[s].tenure < MaxTenures
  /\ Become(s, Draining(Moved(shell[s], d), 2))
  /\ UNCHANGED <<log, effects, faults>>

Exit(s) ==
  /\ At(s, "prompt")
  /\ Become(s, Off(shell[s].db, shell[s].tenure))
  /\ UNCHANGED <<log, effects, faults>>

ShellDies(s) ==
  /\ ~ At(s, "off") /\ Fault
  /\ Become(s, Off(shell[s].db, shell[s].tenure))
  /\ UNCHANGED <<log, effects>>

-----------------------------------------------------------------------------
Drain(s) ==
  \/ Fetch(s) \/ PublishRun(s) \/ DrainEnds(s)
  \/ \E k \in 1 .. MaxRequests :
       Skip(s, k) \/ Handle(s, k) \/ RunProcess(s, k) \/ HandlerRaises(s, k)

Line(s) ==
  \/ Start(s) \/ Command(s) \/ CommandReturns(s) \/ CommandRaises(s) \/ Exit(s) \/ ShellDies(s)
  \/ \E kind \in Kinds : CommandRequests(s, kind)
  \/ \E d \in Databases : ReplaceStore(s, d) \/ UseProject(s, d)

Next ==
  \/ \E d \in Databases, kind \in Kinds : JobRequests(d, kind)
  \/ \E s \in Shells : Drain(s) \/ Line(s)

Spec == Init /\ [][Next]_vars

-----------------------------------------------------------------------------
(* Properties. *)

\* The cursor passes over no request.  Every request between the beginning of the tenure
\* and the cursor was taken for handling, whatever batches it came in, whoever published
\* it, and although a handler that raises abandons the rest of its batch.
NothingPassedOver ==
  \A s \in Shells : ~ At(s, "off") /\ ~ shell[s].alien =>
    \A k \in shell[s].start + 1 .. shell[s].afterId : k \in shell[s].handled

\* A session does nothing twice about a request as long as it keeps its EventStore: no
\* process is run again and no output printed again after a handler has raised, and
\* requests are handled in the order of their ids.
OncePerTenure ==
  \A s \in Shells : \A i, j \in DOMAIN effects[s] :
    i < j /\ effects[s][i].tenure = effects[s][j].tenure =>
      \/ effects[s][i].event < effects[s][j].event
      \/ /\ effects[s][i].event = effects[s][j].event
         /\ effects[s][i].what = "ran" /\ effects[s][j].what = "done"

\* What a foreground command asked for is handled before the next prompt, also when
\* the command failed or loaded a database.  The drains that follow a command fetch twice
\* at least, so this is said for as many requests as two fetches return.
OutputBeforePrompt ==
  2 * Limit >= MaxRequests =>
  \A s \in Shells : At(s, "prompt") /\ ~ shell[s].alien => shell[s].mine \subseteq shell[s].handled
=============================================================================
