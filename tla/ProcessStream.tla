---------------------------- MODULE ProcessStream ----------------------------
(***************************************************************************)
(* An external process run for a commandlet: plugin/process/context.py and *)
(* plugin/process/stream.py.                                               *)
(*                                                                         *)
(* ContextProcess.stream is a generator: it reads the child's two pipes    *)
(* line by line, publishes each line and yields it, and the commandlet may *)
(* stop iterating.  ContextProcess.run blocks until the child has ended.   *)
(*                                                                         *)
(* A pipe holds lines that the kernel has, lines that readline has     *)
(* fetched and not returned yet (select does not see these), and perhaps   *)
(* the beginning of a line.                                                *)
(***************************************************************************)
EXTENDS Integers, Sequences, FiniteSets

CONSTANTS
  MaxLines,    \* bound: lines that the child writes to one pipe
  MaxFaults    \* bound

ASSUME BoundsAssumption == {MaxLines, MaxFaults} \subseteq Nat

VARIABLES
  mode,        \* "stream" or "run"
  pc,          \* where the commandlet's process is in the call
  child,       \* the external process
  stubborn,    \* it ignores SIGTERM
  pipe,        \* per output: what is in the pipe
  written,     \* per output: lines written so far (history)
  registered,  \* outputs in the selector
  ready,       \* what select returned and was not read yet
  cancelled, expired,   \* a cancellation is recorded; the deadline has passed
  events,      \* the topics of the published events, in order
  faults

vars == <<mode, pc, child, stubborn, pipe, written, registered, ready, cancelled, expired,
          events, faults>>

Outputs == {"stdout", "stderr"}

PC == {"call", "requested", "started", "loop", "read", "yield", "wait", "close", "terminated",
       "leaving", "leavingWell", "running", "attach", "publish", "returned", "raised", "dead"}

Ended == pc \in {"returned", "raised", "dead"}

\* fetched: in readline's buffer.  eof: the child has closed its end.
Pipe == [kernel : 0 .. MaxLines, fetched : 0 .. MaxLines,
         fragment : {"none", "kernel", "fetched"}, eof : BOOLEAN]

Topics == {"requested", "started", "stdout", "stderr", "exited", "attached", "run"}

TypeOK ==
  /\ mode \in {"stream", "run"} /\ pc \in PC
  /\ child \in {"none", "running", "zombie", "reaped"}
  /\ (pc = "call" \/ pc = "requested" \/ pc = "started") => child = "none"
  /\ pipe \in [Outputs -> Pipe]
  /\ \A o \in Outputs : pipe[o].eof => pipe[o].fragment = "none"
  /\ written \in [Outputs -> 0 .. MaxLines]
  /\ registered \subseteq Outputs /\ ready \subseteq registered
  /\ stubborn \in BOOLEAN /\ cancelled \in BOOLEAN /\ expired \in BOOLEAN
  /\ events \in Seq(Topics)
  /\ faults \in 0 .. MaxFaults

Init ==
  /\ mode \in {"stream", "run"} /\ stubborn \in BOOLEAN
  /\ pc = "call" /\ child = "none"
  /\ pipe = [o \in Outputs |-> [kernel |-> 0, fetched |-> 0, fragment |-> "none", eof |-> FALSE]]
  /\ written = [o \in Outputs |-> 0]
  /\ registered = {} /\ ready = {}
  /\ cancelled = FALSE /\ expired = FALSE
  /\ events = <<>> /\ faults = 0

-----------------------------------------------------------------------------
Publish(topic) == events' = Append(events, topic)
Fault          == faults < MaxFaults /\ faults' = faults + 1

childVars == <<child, pipe, written>>
askVars   == <<cancelled, expired>>
loopVars  == <<registered, ready>>
fixed     == <<mode, stubborn>>

(* The child. *)

\* A whole line, which completes a fragment; or a piece of one.
WithLine(p)  == [p EXCEPT !.kernel = p.kernel + 1, !.fragment = "none"]
WithPiece(p) == [p EXCEPT !.fragment = "kernel"]

Write(o) ==
  /\ child = "running" /\ ~ pipe[o].eof /\ written[o] < MaxLines
  /\ \/ /\ written' = [written EXCEPT ![o] = @ + 1]
        /\ pipe' = [pipe EXCEPT ![o] = WithLine(pipe[o])]
     \/ /\ pipe[o].fragment # "kernel"
        /\ pipe' = [pipe EXCEPT ![o] = WithPiece(pipe[o])]
        /\ UNCHANGED written
  /\ UNCHANGED <<fixed, pc, child, loopVars, askVars, events, faults>>

\* The end of a pipe turns a fragment into a last line.
Last(p)   == IF p.fragment = "none" THEN 0 ELSE 1
Hangup(p) == [kernel |-> p.kernel + Last(p), fetched |-> p.fetched,
              fragment |-> "none", eof |-> TRUE]

CountFragment(o) == written[o] + Last(pipe[o])

CloseOutput(o) ==
  /\ child = "running" /\ ~ pipe[o].eof
  /\ pipe' = [pipe EXCEPT ![o] = Hangup(pipe[o])]
  /\ written' = [written EXCEPT ![o] = CountFragment(o)]
  /\ UNCHANGED <<fixed, pc, child, loopVars, askVars, events, faults>>

EndAs(state) ==
  /\ child' = state
  /\ pipe' = [o \in Outputs |-> Hangup(pipe[o])]
  /\ written' = [o \in Outputs |-> CountFragment(o)]

ChildExits ==
  /\ child = "running" /\ EndAs("zombie")
  /\ UNCHANGED <<fixed, pc, loopVars, askVars, events, faults>>

Cancel == /\ ~ cancelled /\ ~ Ended /\ cancelled' = TRUE
          /\ UNCHANGED <<fixed, pc, childVars, loopVars, expired, events, faults>>
Expire == /\ ~ expired /\ ~ Ended /\ pc # "call" /\ expired' = TRUE
          /\ UNCHANGED <<fixed, pc, childVars, loopVars, cancelled, events, faults>>

-----------------------------------------------------------------------------
(* Both calls publish the request before anything is started. *)

To(where) == pc' = where

Request ==
  /\ pc = "call"
  /\ Publish("requested") /\ To("requested")
  /\ UNCHANGED <<fixed, childVars, loopVars, askVars, faults>>

PublishStarted ==
  /\ pc = "requested" /\ mode = "stream"
  /\ Publish("started") /\ To("started")
  /\ UNCHANGED <<fixed, childVars, loopVars, askVars, faults>>

\* popen_process_argv, and the selector over both pipes.
Spawn ==
  /\ \/ pc = "started" /\ To("loop") /\ registered' = Outputs
     \/ pc = "requested" /\ mode = "run" /\ To("running") /\ UNCHANGED registered
  /\ child' = "running"
  /\ UNCHANGED <<fixed, pipe, written, ready, askVars, events, faults>>

SpawnRaises ==
  /\ pc = "started" \/ (pc = "requested" /\ mode = "run")
  /\ Fault /\ To("raised")
  /\ UNCHANGED <<fixed, childVars, loopVars, askVars, events>>

-----------------------------------------------------------------------------
(* stream_process_chunks. *)

\* Leaving the loop, for whatever reason, is through close_stream_process.
Leave == To("close") /\ ready' = {} /\ UNCHANGED registered

\* Mutant: the check for a cancellation stands outside the try block.
CancelledOutside ==
  /\ pc = "loop" /\ registered # {} /\ cancelled
  /\ To("raised")
  /\ UNCHANGED <<fixed, childVars, loopVars, askVars, events, faults>>

Cancelled ==
  /\ pc = "loop" /\ registered # {} /\ cancelled
  /\ Leave
  /\ UNCHANGED <<fixed, childVars, askVars, events, faults>>

TimedOut ==
  /\ pc = "loop" /\ registered # {} /\ ~ cancelled /\ expired
  /\ Leave
  /\ IF child = "running" THEN EndAs("zombie") ELSE UNCHANGED childVars
  /\ UNCHANGED <<fixed, askVars, events, faults>>

Readable(o) == pipe[o].kernel > 0 \/ pipe[o].fragment = "kernel" \/ pipe[o].eof

Select ==
  /\ pc = "loop" /\ registered # {} /\ ~ cancelled /\ ~ expired
  /\ ready' = {o \in registered : Readable(o)}
  /\ To("read")
  /\ UNCHANGED <<fixed, childVars, registered, askVars, events, faults>>

\* readline returns a fetched line, else it fetches what the kernel has.  Without a
\* whole line or the end of the pipe it waits, and the loop with it.
Lines(o)   == pipe[o].kernel + pipe[o].fetched
Blocked(o) == pc = "read" /\ o \in ready /\ Lines(o) = 0 /\ ~ pipe[o].eof

TakeLine(p) ==
  IF p.fetched > 0 THEN [p EXCEPT !.fetched = p.fetched - 1]
  ELSE [p EXCEPT !.fetched = p.kernel - 1, !.kernel = 0,
                 !.fragment = IF p.fragment = "none" THEN "none" ELSE "fetched"]

ReadLine(o) ==
  /\ pc = "read" /\ o \in ready /\ Lines(o) > 0
  /\ pipe' = [pipe EXCEPT ![o] = TakeLine(pipe[o])]
  /\ ready' = ready \ {o}
  /\ Publish(o) /\ To("yield")
  /\ UNCHANGED <<fixed, child, written, registered, askVars, faults>>

\* Mutant: a pipe that the child has closed is unregistered with lines left to return.
AtHangup(o) == pipe[o].eof /\ pipe[o].kernel = 0

\* An empty line is the end of the pipe.
AtEof(o) == pipe[o].eof /\ Lines(o) = 0

\* Mutant: the pipe stays among the ready ones.
UnregisterOnly(o) ==
  /\ pc = "read" /\ o \in ready /\ AtEof(o)
  /\ registered' = registered \ {o}
  /\ UNCHANGED <<fixed, pc, childVars, ready, askVars, events, faults>>

Unregister(o) ==
  /\ pc = "read" /\ o \in ready /\ AtEof(o)
  /\ registered' = registered \ {o} /\ ready' = ready \ {o}
  /\ UNCHANGED <<fixed, pc, childVars, askVars, events, faults>>

\* The commandlet asks for the next line, or has seen enough, or raises.
Resume == /\ pc = "yield" /\ To("read")
          /\ UNCHANGED <<fixed, childVars, loopVars, askVars, events, faults>>
Abandon == /\ pc = "yield" /\ Leave
           /\ UNCHANGED <<fixed, childVars, askVars, events, faults>>

NextRound ==
  /\ pc = "read" /\ ready = {} /\ To("loop")
  /\ UNCHANGED <<fixed, childVars, loopVars, askVars, events, faults>>

LoopEnds ==
  /\ pc = "loop" /\ registered = {} /\ To("wait")
  /\ UNCHANGED <<fixed, childVars, loopVars, askVars, events, faults>>

\* process.wait(timeout=1): the return code, or TimeoutExpired.
WaitChild ==
  /\ pc = "wait"
  /\ \/ child = "zombie" /\ child' = "reaped" /\ To("leavingWell") /\ UNCHANGED loopVars
     \/ child = "running" /\ Leave /\ UNCHANGED child
  /\ UNCHANGED <<fixed, pipe, written, askVars, events, faults>>

\* close_stream_process: a child that runs is terminated and waited for.
Close ==
  /\ pc = "close"
  /\ \/ child = "zombie" /\ child' = "reaped" /\ To("leaving") /\ UNCHANGED <<pipe, written>>
     \/ child = "running" /\ ~ stubborn /\ EndAs("zombie") /\ To("terminated")
     \/ child = "running" /\ stubborn /\ To("terminated") /\ UNCHANGED childVars
  /\ UNCHANGED <<fixed, loopVars, askVars, events, faults>>

\* process.wait(timeout=5) raises for a child that lives on.
WaitTerminated ==
  /\ pc = "terminated"
  /\ IF child = "zombie" THEN child' = "reaped" ELSE UNCHANGED child
  /\ To("leaving")
  /\ UNCHANGED <<fixed, pipe, written, loopVars, askVars, events, faults>>

LeaveStream ==
  /\ \/ pc = "leaving" /\ To("raised") /\ UNCHANGED events
     \/ pc = "leavingWell" /\ Publish("exited") /\ To("returned")
  /\ UNCHANGED <<fixed, childVars, loopVars, askVars, faults>>

-----------------------------------------------------------------------------
(* run: subprocess.run waits for both pipes and the child, and on a timeout kills it and *)
(* waits.                                                                                *)

RunEnds ==
  /\ pc = "running" /\ child = "zombie"
  /\ child' = "reaped" /\ To("attach")
  /\ UNCHANGED <<fixed, pipe, written, loopVars, askVars, events, faults>>

\* Mutant: the child is asked to terminate.
RunTerminates ==
  /\ pc = "running" /\ child = "running" /\ expired /\ ~ stubborn
  /\ EndAs("reaped") /\ To("raised")
  /\ UNCHANGED <<fixed, loopVars, askVars, events, faults>>

RunTimesOut ==
  /\ pc = "running" /\ child = "running" /\ expired
  /\ EndAs("reaped") /\ To("raised")
  /\ UNCHANGED <<fixed, loopVars, askVars, events, faults>>

AttachOutput ==
  /\ pc = "attach"
  /\ Publish("attached") /\ To("publish")
  /\ UNCHANGED <<fixed, childVars, loopVars, askVars, faults>>

\* check_returncode raises after the result is published.
PublishResult ==
  /\ pc = "publish"
  /\ Publish("run") /\ (To("returned") \/ To("raised"))
  /\ UNCHANGED <<fixed, childVars, loopVars, askVars, faults>>

-----------------------------------------------------------------------------
(* Failures of the commandlet's own process. *)

\* An event or the artifact cannot be written.
PublishRaises ==
  /\ \/ pc \in {"call", "attach", "publish", "leavingWell"} /\ To("raised")
        /\ UNCHANGED <<pipe, loopVars>>
     \/ pc = "requested" /\ mode = "stream" /\ To("raised")
        /\ UNCHANGED <<pipe, loopVars>>
     \/ \E o \in ready : /\ pc = "read" /\ Lines(o) > 0
                         /\ pipe' = [pipe EXCEPT ![o] = TakeLine(pipe[o])]
                         /\ Leave
  /\ Fault
  /\ UNCHANGED <<fixed, child, written, askVars, events>>

ProcessDies ==
  /\ ~ Ended /\ Fault /\ To("dead")
  /\ UNCHANGED <<fixed, childVars, loopVars, askVars, events>>

Child == ChildExits \/ \E o \in Outputs : Write(o) \/ CloseOutput(o)

Chunks == Select \/ NextRound \/ Resume \/ \E o \in Outputs : ReadLine(o) \/ Unregister(o)

Call ==
  \/ Request \/ PublishStarted \/ Spawn \/ Chunks \/ Cancelled \/ TimedOut \/ LoopEnds
  \/ WaitChild \/ Close \/ WaitTerminated \/ LeaveStream
  \/ RunEnds \/ RunTimesOut \/ AttachOutput \/ PublishResult

Next ==
  \/ Child \/ Cancel \/ Expire \/ Call
  \/ Abandon \/ SpawnRaises \/ PublishRaises \/ ProcessDies

Fairness == WF_vars(Call)

Spec == Init /\ [][Next]_vars /\ Fairness

-----------------------------------------------------------------------------
(* Properties. *)

\* The external process does not outlive the call: however the call ends (a timeout, a
\* cancellation, a commandlet that stops reading, an event that cannot be written), the
\* child has ended and was reaped, unless it ignores SIGTERM or the commandlet's own
\* process died.
NoOrphan ==
  pc \in {"returned", "raised"} => child \in {"none", "reaped"} \/ stubborn

Count(topic) == Cardinality({i \in DOMAIN events : events[i] = topic})

\* process.exited and process.run are statements about the whole of the process: the
\* child has ended, nothing is published later, and all lines that it wrote are events
\* (or, for a blocking run, its output is an artifact).
ExitTellsAll ==
  \A i \in DOMAIN events : events[i] \in {"exited", "run"} =>
    /\ i = Len(events) /\ child = "reaped" /\ events[1] = "requested"
    /\ IF events[i] = "run" THEN Count("attached") = 1
       ELSE \A o \in Outputs : Count(o) = written[o]

\* A stream that is cancelled, and any call whose deadline has passed, comes to an end
\* whatever the child does, as long as the commandlet reads on.  The exception is
\* readline waiting for the rest of a line.
StopsWhenAsked ==
  expired \/ (cancelled /\ mode = "stream") ~> Ended \/ \E o \in Outputs : Blocked(o)
=============================================================================
