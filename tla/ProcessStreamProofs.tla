-------------------------- MODULE ProcessStreamProofs --------------------------
(***************************************************************************)
(* Theorems about ProcessStream, for any number of lines and faults.       *)
(***************************************************************************)
EXTENDS ProcessStream, FiniteSetTheorems, TLAPS

-----------------------------------------------------------------------------
(* Pipes. *)

\* Lines in a pipe were written, and there is room for the line that a fragment becomes.
Fits(p, w) ==
  /\ p \in Pipe /\ w \in 0 .. MaxLines
  /\ p.kernel + p.fetched <= w
  /\ p.fragment # "none" => w < MaxLines /\ ~ p.eof

LEMMA PipeFields ==
  ASSUME NEW p \in Pipe
  PROVE  /\ p.kernel \in 0 .. MaxLines /\ p.fetched \in 0 .. MaxLines /\ p.eof \in BOOLEAN
         /\ p.fragment \in {"none", "kernel", "fetched"}
BY DEF Pipe

LEMMA LineFits ==
  ASSUME NEW p, NEW w, Fits(p, w), w < MaxLines, ~ p.eof
  PROVE  /\ Fits(WithLine(p), w + 1)
         /\ WithLine(p).kernel + WithLine(p).fetched = p.kernel + p.fetched + 1
         /\ WithLine(p).eof = p.eof
<1>1. /\ WithLine(p).kernel = p.kernel + 1 /\ WithLine(p).fetched = p.fetched
      /\ WithLine(p).fragment = "none" /\ WithLine(p).eof = p.eof
  BY DEF WithLine, Fits, Pipe
<1>2. p.kernel + 1 \in 0 .. MaxLines
  BY PipeFields, BoundsAssumption DEF Fits
<1>3. WithLine(p) \in Pipe
  BY <1>2 DEF WithLine, Fits, Pipe
<1>. QED BY <1>1, <1>2, <1>3, PipeFields, BoundsAssumption DEF Fits

LEMMA PieceFits ==
  ASSUME NEW p, NEW w, Fits(p, w), w < MaxLines, ~ p.eof
  PROVE  /\ Fits(WithPiece(p), w)
         /\ WithPiece(p).kernel = p.kernel /\ WithPiece(p).fetched = p.fetched
         /\ WithPiece(p).eof = p.eof
BY DEF WithPiece, Fits, Pipe

LEMMA HangupFits ==
  ASSUME NEW p, NEW w, Fits(p, w)
  PROVE  /\ Fits(Hangup(p), w + Last(p))
         /\ Hangup(p).kernel + Hangup(p).fetched = p.kernel + p.fetched + Last(p)
         /\ Hangup(p).eof
         /\ p.eof => Last(p) = 0
<1>1. /\ Hangup(p).kernel = p.kernel + Last(p) /\ Hangup(p).fetched = p.fetched
      /\ Hangup(p).fragment = "none" /\ Hangup(p).eof = TRUE
  BY DEF Hangup
<1>2. Last(p) \in {0, 1} /\ (p.eof => Last(p) = 0) /\ (Last(p) = 1 => w < MaxLines)
  BY DEF Last, Fits
<1>3. p.kernel + Last(p) \in 0 .. MaxLines /\ w + Last(p) \in 0 .. MaxLines
  BY <1>2, PipeFields, BoundsAssumption DEF Fits
<1>4. Hangup(p) \in Pipe
  BY <1>3, PipeFields DEF Hangup, Fits, Pipe
<1>. QED BY <1>1, <1>2, <1>3, <1>4, PipeFields, BoundsAssumption DEF Fits

LEMMA TakeFits ==
  ASSUME NEW p, NEW w, Fits(p, w), p.kernel + p.fetched > 0
  PROVE  /\ Fits(TakeLine(p), w)
         /\ TakeLine(p).kernel + TakeLine(p).fetched = p.kernel + p.fetched - 1
         /\ TakeLine(p).eof = p.eof
<1>0. p \in Pipe BY DEF Fits
<1>1. CASE p.fetched > 0
  <2>1. /\ TakeLine(p).kernel = p.kernel /\ TakeLine(p).fetched = p.fetched - 1
        /\ TakeLine(p).fragment = p.fragment /\ TakeLine(p).eof = p.eof
    BY <1>0, <1>1 DEF TakeLine, Pipe
  <2>2. p.fetched - 1 \in 0 .. MaxLines
    BY <1>0, <1>1, PipeFields, BoundsAssumption
  <2>3. TakeLine(p) \in Pipe
    BY <1>0, <1>1, <2>2 DEF TakeLine, Pipe
  <2>. QED BY <1>0, <2>1, <2>2, <2>3, PipeFields, BoundsAssumption DEF Fits
<1>2. CASE ~ p.fetched > 0
  <2>1. /\ TakeLine(p).kernel = 0 /\ TakeLine(p).fetched = p.kernel - 1
        /\ TakeLine(p).fragment = (IF p.fragment = "none" THEN "none" ELSE "fetched")
        /\ TakeLine(p).eof = p.eof
    BY <1>0, <1>2 DEF TakeLine, Pipe
  <2>2. p.kernel - 1 \in 0 .. MaxLines /\ p.fetched = 0
    BY <1>0, <1>2, PipeFields, BoundsAssumption
  <2>3. TakeLine(p) \in Pipe
    BY <1>0, <1>2, <2>2, BoundsAssumption DEF TakeLine, Pipe
  <2>. QED BY <1>0, <2>1, <2>2, <2>3, PipeFields, BoundsAssumption DEF Fits
<1>. QED BY <1>1, <1>2

LEMMA FitsNumbers ==
  ASSUME NEW p, NEW w, Fits(p, w)
  PROVE  p.kernel \in Nat /\ p.fetched \in Nat /\ w \in Nat
<1>1. p \in Pipe /\ w \in 0 .. MaxLines
  BY DEF Fits
<1>. QED BY <1>1, PipeFields, BoundsAssumption

\* What the child does to a pipe p with w lines written: the lines that are in it, less the
\* lines that were written, are as many as before, and a closed pipe is left alone.
Settled(p, q) == p.eof => q.eof /\ q.kernel + q.fetched = p.kernel + p.fetched

Filled(p, w, q, v) ==
  /\ Fits(q, v) /\ Settled(p, q)
  /\ q.kernel + q.fetched - v = p.kernel + p.fetched - w

LEMMA FilledBy ==
  ASSUME NEW p, NEW w, NEW q, NEW v, Fits(p, w), Fits(q, v), Settled(p, q), NEW n \in Nat,
         v = w + n, q.kernel + q.fetched = p.kernel + p.fetched + n
  PROVE  Filled(p, w, q, v)
<1>1. q.kernel + q.fetched - v = p.kernel + p.fetched - w
  BY FitsNumbers
<1>. QED BY <1>1 DEF Filled

LEMMA Filling ==
  ASSUME NEW p, NEW w, Fits(p, w)
  PROVE  /\ Filled(p, w, p, w)
         /\ Filled(p, w, Hangup(p), w + Last(p))
         /\ w < MaxLines /\ ~ p.eof =>
              Filled(p, w, WithLine(p), w + 1) /\ Filled(p, w, WithPiece(p), w)
<1>0. p.kernel \in Nat /\ p.fetched \in Nat /\ w \in Nat
  BY FitsNumbers
<1>1. Last(p) \in Nat
  BY DEF Last
<1>2. Filled(p, w, p, w)
  <2>1. Settled(p, p)
    BY DEF Settled
  <2>2. w = w + 0 /\ p.kernel + p.fetched = p.kernel + p.fetched + 0
    BY <1>0
  <2>. QED BY <2>1, <2>2, FilledBy
<1>3. Filled(p, w, Hangup(p), w + Last(p))
  <2>1. /\ Fits(Hangup(p), w + Last(p))
        /\ Hangup(p).kernel + Hangup(p).fetched = p.kernel + p.fetched + Last(p)
    BY HangupFits
  <2>2. Settled(p, Hangup(p))
    <3>1. SUFFICES ASSUME p.eof
                   PROVE  /\ Hangup(p).eof
                          /\ Hangup(p).kernel + Hangup(p).fetched = p.kernel + p.fetched
      BY DEF Settled
    <3>2. Last(p) = 0 /\ Hangup(p).eof
      BY <3>1, HangupFits
    <3>. QED BY <1>0, <2>1, <3>2
  <2>. QED BY <1>1, <2>1, <2>2, FilledBy
<1>4. ASSUME w < MaxLines, ~ p.eof
      PROVE  Filled(p, w, WithLine(p), w + 1) /\ Filled(p, w, WithPiece(p), w)
  <2>1. Settled(p, WithLine(p)) /\ Settled(p, WithPiece(p))
    BY <1>4 DEF Settled
  <2>2. /\ Fits(WithLine(p), w + 1)
        /\ WithLine(p).kernel + WithLine(p).fetched = p.kernel + p.fetched + 1
    BY <1>4, LineFits
  <2>3. /\ Fits(WithPiece(p), w)
        /\ WithPiece(p).kernel + WithPiece(p).fetched = p.kernel + p.fetched + 0
    <3>1. /\ Fits(WithPiece(p), w) /\ WithPiece(p).kernel = p.kernel
          /\ WithPiece(p).fetched = p.fetched
      BY <1>4, PieceFits
    <3>. QED BY <1>0, <3>1
  <2>. QED BY <1>0, <2>1, <2>2, <2>3, FilledBy
<1>. QED BY <1>2, <1>3, <1>4

-----------------------------------------------------------------------------
(* Types. *)

Pipes == /\ pipe \in [Outputs -> Pipe] /\ written \in [Outputs -> 0 .. MaxLines]
         /\ \A o \in Outputs : Fits(pipe[o], written[o])

Inv == TypeOK /\ Pipes

LEMMA InitInv == Init => Inv
<1> SUFFICES ASSUME Init PROVE Inv
  OBVIOUS
<1> DEFINE p == [kernel |-> 0, fetched |-> 0, fragment |-> "none", eof |-> FALSE]
<1>1. p \in Pipe /\ Fits(p, 0) /\ 0 \in 0 .. MaxLines /\ ~ p.eof
  BY BoundsAssumption DEF Pipe, Fits
<1>2. \A o \in Outputs : pipe[o] = p /\ written[o] = 0
  BY DEF Init
<1>3. pipe \in [Outputs -> Pipe] /\ written \in [Outputs -> 0 .. MaxLines]
  BY <1>1 DEF Init
<1>. HIDE DEF p
<1>4. Pipes
  BY <1>1, <1>2, <1>3 DEF Pipes
<1>5. faults \in 0 .. MaxFaults /\ events \in Seq(Topics)
  BY BoundsAssumption DEF Init
<1>. QED BY <1>1, <1>2, <1>3, <1>4, <1>5 DEF Init, Inv, TypeOK, PC

\* What a step of the child, or the end of it, does to both pipes.
AllFilled == /\ Pipes'
             /\ \A o \in Outputs : Filled(pipe[o], written[o], pipe'[o], written'[o])

LEMMA WriteFills ==
  ASSUME Pipes, NEW o \in Outputs, Write(o)
  PROVE  AllFilled
<1> DEFINE p == pipe[o]
           w == written[o]
<1>0. Fits(p, w) /\ w < MaxLines /\ ~ p.eof /\ \A x \in Outputs : Fits(pipe[x], written[x])
  BY DEF Pipes, Write
<1>1. CASE written' = [written EXCEPT ![o] = @ + 1] /\ pipe' = [pipe EXCEPT ![o] = WithLine(p)]
  <2>1. Filled(p, w, WithLine(p), w + 1)
    BY <1>0, Filling
  <2>2. /\ pipe'[o] = WithLine(p) /\ written'[o] = w + 1
        /\ \A x \in Outputs : x # o => pipe'[x] = pipe[x] /\ written'[x] = written[x]
    BY <1>1 DEF Pipes
  <2>3. WithLine(p) \in Pipe /\ w + 1 \in 0 .. MaxLines
    BY <2>1 DEF Filled, Fits
  <2>4. pipe' \in [Outputs -> Pipe] /\ written' \in [Outputs -> 0 .. MaxLines]
    BY <1>1, <2>3 DEF Pipes
  <2>5. \A x \in Outputs : Filled(pipe[x], written[x], pipe'[x], written'[x])
    BY <1>0, <2>1, <2>2, Filling
  <2>. QED BY <2>4, <2>5 DEF AllFilled, Pipes, Filled
<1>2. CASE UNCHANGED written /\ pipe' = [pipe EXCEPT ![o] = WithPiece(p)]
  <2>1. Filled(p, w, WithPiece(p), w)
    BY <1>0, Filling
  <2>2. /\ pipe'[o] = WithPiece(p) /\ written' = written
        /\ \A x \in Outputs : x # o => pipe'[x] = pipe[x]
    BY <1>2 DEF Pipes
  <2>3. WithPiece(p) \in Pipe
    BY <2>1 DEF Filled, Fits
  <2>4. pipe' \in [Outputs -> Pipe] /\ written' \in [Outputs -> 0 .. MaxLines]
    BY <1>2, <2>3 DEF Pipes
  <2>5. \A x \in Outputs : Filled(pipe[x], written[x], pipe'[x], written'[x])
    BY <1>0, <2>1, <2>2, Filling
  <2>. QED BY <2>4, <2>5 DEF AllFilled, Pipes, Filled
<1>. QED BY <1>1, <1>2 DEF Write

LEMMA CloseOutputFills ==
  ASSUME Pipes, NEW o \in Outputs, CloseOutput(o)
  PROVE  AllFilled
<1> DEFINE p == pipe[o]
           w == written[o]
<1>0. \A x \in Outputs : Fits(pipe[x], written[x])
  BY DEF Pipes
<1>1. Filled(p, w, Hangup(p), w + Last(p))
  BY <1>0, Filling
<1>2. /\ pipe'[o] = Hangup(p) /\ written'[o] = w + Last(p)
      /\ \A x \in Outputs : x # o => pipe'[x] = pipe[x] /\ written'[x] = written[x]
  BY DEF Pipes, CloseOutput, CountFragment
<1>3. Hangup(p) \in Pipe /\ w + Last(p) \in 0 .. MaxLines
  BY <1>1 DEF Filled, Fits
<1>4. pipe' \in [Outputs -> Pipe] /\ written' \in [Outputs -> 0 .. MaxLines]
  BY <1>3 DEF Pipes, CloseOutput, CountFragment
<1>5. \A x \in Outputs : Filled(pipe[x], written[x], pipe'[x], written'[x])
  BY <1>0, <1>1, <1>2, Filling
<1>. QED BY <1>4, <1>5 DEF AllFilled, Pipes, Filled

LEMMA EndFills ==
  ASSUME Pipes, NEW state, EndAs(state)
  PROVE  AllFilled
<1>1. \A x \in Outputs : Filled(pipe[x], written[x], Hangup(pipe[x]), written[x] + Last(pipe[x]))
  BY Filling DEF Pipes
<1>2. \A x \in Outputs : pipe'[x] = Hangup(pipe[x]) /\ written'[x] = written[x] + Last(pipe[x])
  BY DEF EndAs, CountFragment
<1>3. \A x \in Outputs : Hangup(pipe[x]) \in Pipe /\ written[x] + Last(pipe[x]) \in 0 .. MaxLines
  BY <1>1 DEF Filled, Fits
<1>4. pipe' \in [Outputs -> Pipe] /\ written' \in [Outputs -> 0 .. MaxLines]
  BY <1>3 DEF EndAs, CountFragment
<1>. QED BY <1>1, <1>2, <1>4 DEF AllFilled, Pipes, Filled

LEMMA KeepFills == Pipes /\ UNCHANGED <<pipe, written>> => AllFilled
BY Filling DEF Pipes, AllFilled

\* readline takes a line out of one pipe.
LEMMA TakeTakes ==
  ASSUME Pipes, NEW o \in Outputs, Lines(o) > 0,
         pipe' = [pipe EXCEPT ![o] = TakeLine(pipe[o])], UNCHANGED written
  PROVE  /\ Pipes' /\ pipe'[o].kernel + pipe'[o].fetched = pipe[o].kernel + pipe[o].fetched - 1
         /\ pipe'[o].eof = pipe[o].eof
         /\ \A x \in Outputs : x # o => pipe'[x] = pipe[x]
<1> DEFINE q == TakeLine(pipe[o])
<1>1. /\ Fits(q, written[o]) /\ q.eof = pipe[o].eof
      /\ q.kernel + q.fetched = pipe[o].kernel + pipe[o].fetched - 1
  BY TakeFits DEF Pipes, Lines
<1>. HIDE DEF q
<1>2. pipe' = [pipe EXCEPT ![o] = q]
  BY DEF q
<1>3. q \in Pipe
  BY <1>1 DEF Fits
<1>4. pipe'[o] = q /\ \A x \in Outputs : x # o => pipe'[x] = pipe[x]
  BY <1>2 DEF Pipes
<1>5. pipe' \in [Outputs -> Pipe]
  BY <1>2, <1>3 DEF Pipes
<1>6. \A x \in Outputs : Fits(pipe'[x], written[x])
  BY <1>1, <1>4 DEF Pipes
<1>. QED BY <1>1, <1>4, <1>5, <1>6 DEF Pipes

\* The rest of the types.
Others ==
  /\ mode \in {"stream", "run"} /\ pc \in PC
  /\ child \in {"none", "running", "zombie", "reaped"}
  /\ (pc = "call" \/ pc = "requested" \/ pc = "started") => child = "none"
  /\ registered \subseteq Outputs /\ ready \subseteq registered
  /\ stubborn \in BOOLEAN /\ cancelled \in BOOLEAN /\ expired \in BOOLEAN
  /\ events \in Seq(Topics)
  /\ faults \in 0 .. MaxFaults

LEMMA OthersAndPipes == Inv <=> Others /\ Pipes
<1>1. Pipes => \A o \in Outputs : pipe[o].eof => pipe[o].fragment = "none"
  BY DEF Pipes, Fits
<1>. QED BY <1>1 DEF Inv, TypeOK, Others, Pipes

\* A published topic is a topic.
LEMMA PublishTyped ==
  ASSUME events \in Seq(Topics), NEW topic \in Topics, Publish(topic)
  PROVE  events' \in Seq(Topics)
BY DEF Publish

LEMMA FaultTyped == faults \in 0 .. MaxFaults /\ Fault => faults' \in 0 .. MaxFaults
BY BoundsAssumption DEF Fault

LEMMA StepPipes == Inv /\ [Next]_vars => Pipes'
<1> SUFFICES ASSUME Inv, [Next]_vars PROVE Pipes'
  OBVIOUS
<1>0. Pipes
  BY DEF Inv
<1> USE DEF AllFilled
<1>1. UNCHANGED <<pipe, written>> => Pipes'
  BY <1>0, KeepFills
<1>2. CASE Child
  BY <1>0, <1>2, WriteFills, CloseOutputFills, EndFills DEF Child, ChildExits
<1>3. CASE Cancel \/ Expire \/ Abandon \/ SpawnRaises \/ ProcessDies
  BY <1>1, <1>3 DEF Cancel, Expire, Abandon, SpawnRaises, ProcessDies, childVars
<1>4. CASE Request \/ PublishStarted \/ Spawn \/ Cancelled \/ LoopEnds \/ WaitChild
           \/ WaitTerminated \/ LeaveStream \/ RunEnds \/ AttachOutput \/ PublishResult
  <2>1. CASE WaitTerminated
    BY <1>1, <2>1 DEF WaitTerminated
  <2>2. CASE Request \/ PublishStarted \/ Spawn \/ Cancelled \/ LoopEnds \/ WaitChild
             \/ LeaveStream \/ RunEnds \/ AttachOutput \/ PublishResult
    BY <1>1, <2>2 DEF Request, PublishStarted, Spawn, Cancelled, LoopEnds, WaitChild,
       LeaveStream, RunEnds, AttachOutput, PublishResult, childVars
  <2>. QED BY <1>4, <2>1, <2>2
<1>5. CASE TimedOut \/ Close \/ RunTimesOut
  BY <1>0, <1>1, <1>5, EndFills DEF TimedOut, Close, RunTimesOut, childVars
<1>6. CASE Chunks
  <2>1. ASSUME NEW o \in Outputs, ReadLine(o) PROVE Pipes'
    BY <1>0, <2>1, TakeTakes DEF ReadLine
  <2>2. ASSUME NEW o \in Outputs, Unregister(o) PROVE Pipes'
    BY <1>1, <2>2 DEF Unregister, childVars
  <2>. QED BY <1>1, <1>6, <2>1, <2>2 DEF Chunks, Select, NextRound, Resume, childVars
<1>7. CASE PublishRaises
  <2>1. ASSUME NEW o \in ready, Lines(o) > 0, pipe' = [pipe EXCEPT ![o] = TakeLine(pipe[o])],
               UNCHANGED written
        PROVE  Pipes'
    <3>1. o \in Outputs
      BY DEF Inv, TypeOK
    <3>. QED BY <1>0, <2>1, <3>1, TakeTakes
  <2>. QED BY <1>1, <1>7, <2>1 DEF PublishRaises
<1>8. CASE UNCHANGED vars
  BY <1>1, <1>8 DEF vars
<1>. QED BY <1>2, <1>3, <1>4, <1>5, <1>6, <1>7, <1>8 DEF Next, Call

LEMMA StepOthers == Inv /\ [Next]_vars => Others'
<1> SUFFICES ASSUME Others, [Next]_vars PROVE Others'
  BY OthersAndPipes
<1> USE DEF Others, To, PC, Topics, fixed, childVars, loopVars, askVars
<1>1. CASE Child
  BY <1>1 DEF Child, Write, CloseOutput, ChildExits, EndAs
<1>2. CASE Cancel \/ Expire
  BY <1>2 DEF Cancel, Expire
<1>3. CASE Abandon
  BY <1>3 DEF Abandon, Leave
<1>4. CASE SpawnRaises \/ ProcessDies
  BY <1>4, FaultTyped DEF SpawnRaises, ProcessDies
<1>5. CASE PublishRaises
  BY <1>5, FaultTyped DEF PublishRaises, Leave
<1>6. CASE Request \/ PublishStarted \/ AttachOutput \/ PublishResult \/ LeaveStream
  BY <1>6, PublishTyped DEF Request, PublishStarted, AttachOutput, PublishResult, LeaveStream
<1>7. CASE Spawn
  BY <1>7 DEF Spawn
<1>8. CASE Cancelled \/ TimedOut
  BY <1>8 DEF Cancelled, TimedOut, Leave, EndAs
<1>9. CASE LoopEnds \/ WaitChild \/ WaitTerminated \/ RunEnds
  BY <1>9 DEF LoopEnds, WaitChild, WaitTerminated, RunEnds, Leave
<1>10. CASE Close \/ RunTimesOut
  BY <1>10 DEF Close, RunTimesOut, EndAs
<1>11. CASE Chunks
  <2>1. ASSUME NEW o \in Outputs, ReadLine(o) PROVE Others'
    <3>1. events' \in Seq(Topics)
      BY <2>1, PublishTyped DEF ReadLine, Outputs
    <3>. QED BY <2>1, <3>1 DEF ReadLine
  <2>2. ASSUME NEW o \in Outputs, Unregister(o) PROVE Others'
    BY <2>2 DEF Unregister
  <2>. QED BY <1>11, <2>1, <2>2 DEF Chunks, Select, NextRound, Resume
<1>12. CASE UNCHANGED vars
  BY <1>12 DEF vars
<1>. QED BY <1>1, <1>2, <1>3, <1>4, <1>5, <1>6, <1>7, <1>8, <1>9, <1>10, <1>11, <1>12
         DEF Next, Call

LEMMA StepInv == Inv /\ [Next]_vars => Inv'
<1> SUFFICES ASSUME Inv, [Next]_vars PROVE Inv'
  OBVIOUS
<1>1. Pipes' /\ Others'
  BY StepPipes, StepOthers
<1>2. Pipes' => \A o \in Outputs : pipe'[o].eof => pipe'[o].fragment = "none"
  BY DEF Pipes, Fits
<1>. QED BY <1>1, <1>2 DEF Inv, TypeOK, Others, Pipes

\* Every reachable state is typed, and the lines in a pipe were written.
THEOREM Always == Spec => []Inv
BY InitInv, StepInv, PTL DEF Spec

\* TypeOK: the call, the child and its pipes keep their types in every reachable state.
THEOREM Typed == Spec => []TypeOK
<1>1. Inv => TypeOK
  BY DEF Inv
<1>. QED BY <1>1, Always, PTL

-----------------------------------------------------------------------------
(* NoOrphan. *)

\* On every way out of the call the child is awaited before the call ends, but for one that
\* has been asked to terminate and does not.
Awaited ==
  /\ pc \in {"attach", "publish", "leavingWell"} => child = "reaped"
  /\ pc \in {"returned", "raised"} => child \in {"none", "reaped"} \/ stubborn
  /\ pc = "leaving" => child = "reaped" \/ stubborn
  /\ pc = "terminated" => child = "zombie" \/ stubborn

LEMMA StepAwaited == Inv /\ Awaited /\ [Next]_vars => Awaited'
<1> SUFFICES ASSUME Inv, Awaited, [Next]_vars PROVE Awaited'
  OBVIOUS
<1>0. pc \in {"call", "requested", "started"} => child = "none"
  BY DEF Inv, TypeOK
<1> USE DEF Awaited, To, fixed, childVars
<1>1. CASE Child
  BY <1>1 DEF Child, Write, CloseOutput, ChildExits, EndAs
<1>2. CASE Cancel \/ Expire \/ Abandon \/ SpawnRaises \/ ProcessDies \/ PublishRaises
  BY <1>0, <1>2 DEF Cancel, Expire, Abandon, SpawnRaises, ProcessDies, PublishRaises, Leave
<1>3. CASE Request \/ PublishStarted \/ AttachOutput \/ PublishResult \/ LeaveStream \/ Spawn
  BY <1>3 DEF Request, PublishStarted, AttachOutput, PublishResult, LeaveStream, Spawn
<1>4. CASE Chunks \/ Cancelled \/ TimedOut \/ LoopEnds
  BY <1>4 DEF Chunks, Select, NextRound, Resume, ReadLine, Unregister, Cancelled, TimedOut,
     LoopEnds, Leave
<1>5. CASE WaitChild \/ Close \/ WaitTerminated \/ RunEnds \/ RunTimesOut
  BY <1>5 DEF WaitChild, Close, WaitTerminated, RunEnds, RunTimesOut, Leave, EndAs
<1>6. CASE UNCHANGED vars
  BY <1>6 DEF vars
<1>. QED BY <1>1, <1>2, <1>3, <1>4, <1>5, <1>6 DEF Next, Call

\* NoOrphan: the child does not outlive the call (close_stream_process, and subprocess.run).
THEOREM NoOrphans == Spec => []NoOrphan
<1>1. Init => Awaited
  BY DEF Init, Awaited
<1>2. Awaited => NoOrphan
  BY DEF Awaited, NoOrphan
<1>. QED BY <1>1, <1>2, Always, StepAwaited, PTL DEF Spec

-----------------------------------------------------------------------------
(* ExitTellsAll. *)

Places(s, t) == {i \in DOMAIN s : s[i] = t}

LEMMA CountAppended ==
  ASSUME NEW s \in Seq(Topics), NEW topic \in Topics, NEW t
  PROVE  /\ Cardinality(Places(s, t)) \in Nat
         /\ Cardinality(Places(Append(s, topic), t)) =
              IF t = topic THEN Cardinality(Places(s, t)) + 1 ELSE Cardinality(Places(s, t))
<1> DEFINE n == Len(s) + 1
<1>1. n \in Nat /\ Len(s) \in Nat /\ DOMAIN s = 1 .. Len(s)
      /\ DOMAIN Append(s, topic) = 1 .. n /\ Append(s, topic)[n] = topic
      /\ \A i \in 1 .. Len(s) : Append(s, topic)[i] = s[i]
  OBVIOUS
<1>2. IsFiniteSet(Places(s, t)) /\ n \notin Places(s, t)
  <2>1. IsFiniteSet(1 .. Len(s))
    BY <1>1, FS_Interval
  <2>2. Places(s, t) \in SUBSET (1 .. Len(s))
    BY <1>1 DEF Places
  <2>3. n \notin 1 .. Len(s)
    BY <1>1
  <2>. QED BY <2>1, <2>2, <2>3, FS_Subset
<1>3. CASE t = topic
  <2>1. Places(Append(s, topic), t) = Places(s, t) \union {n}
    BY <1>1, <1>3 DEF Places
  <2>. QED BY <1>2, <1>3, <2>1, FS_AddElement, FS_CardinalityType
<1>4. CASE t # topic
  <2>1. Places(Append(s, topic), t) = Places(s, t)
    BY <1>1, <1>4 DEF Places
  <2>. QED BY <1>2, <1>4, <2>1, FS_CardinalityType
<1>. QED BY <1>3, <1>4

\* One topic more, at the end.
LEMMA PublishCounts ==
  ASSUME events \in Seq(Topics), NEW topic \in Topics, Publish(topic)
  PROVE  /\ Len(events) \in Nat /\ Len(events') = Len(events) + 1
         /\ events'[Len(events')] = topic
         /\ \A i \in 1 .. Len(events) : events'[i] = events[i]
         /\ \A t \in Topics : /\ Count(t) \in Nat
                              /\ Count(t)' = IF t = topic THEN Count(t) + 1 ELSE Count(t)
<1>1. events' = Append(events, topic)
  BY DEF Publish
<1>2. \A t \in Topics : Count(t) = Cardinality(Places(events, t))
                        /\ Count(t)' = Cardinality(Places(events', t))
  BY DEF Count, Places
<1>3. \A t \in Topics :
        /\ Count(t) \in Nat
        /\ Count(t)' = IF t = topic THEN Count(t) + 1 ELSE Count(t)
  BY <1>1, <1>2, CountAppended
<1>. QED BY <1>1, <1>3

LEMMA KeepCounts ==
  ASSUME events \in Seq(Topics), UNCHANGED events
  PROVE  \A t \in Topics : Count(t) \in Nat /\ Count(t)' = Count(t)
<1>1. \A t \in Topics : Count(t) = Cardinality(Places(events, t))
  BY DEF Count, Places
<1>2. \A t \in Topics : Count(t) \in Nat
  BY <1>1, CountAppended
<1>. QED BY <1>2 DEF Count

\* The request is published before anything else.
Headed ==
  /\ pc = "call" => events = <<>>
  /\ pc \notin {"call", "raised", "dead"} => Len(events) >= 1 /\ events[1] = "requested"

LEMMA StepHeaded == Inv /\ Headed /\ [Next]_vars => Headed'
<1> SUFFICES ASSUME Inv, Headed, [Next]_vars PROVE Headed'
  OBVIOUS
<1>0. events \in Seq(Topics)
  BY DEF Inv, TypeOK
<1> USE DEF Headed, To
<1>1. ASSUME NEW topic \in Topics, Publish(topic), pc \notin {"call", "raised", "dead"},
             pc' # "call"
      PROVE  Headed'
  <2>1. Len(events) \in Nat /\ Len(events') = Len(events) + 1
        /\ \A i \in 1 .. Len(events) : events'[i] = events[i]
    BY <1>0, <1>1, PublishCounts
  <2>. QED BY <1>1, <2>1
<1>2. CASE Request
  <2>1. Len(events') = 1 /\ events'[1] = "requested"
    BY <1>2 DEF Request, Publish
  <2>. QED BY <1>2, <2>1 DEF Request
<1>3. CASE PublishStarted \/ AttachOutput \/ PublishResult \/ LeaveStream
  BY <1>1, <1>3 DEF PublishStarted, AttachOutput, PublishResult, LeaveStream, Topics
<1>4. CASE Chunks
  <2>1. ASSUME NEW o \in Outputs, ReadLine(o) PROVE Headed'
    BY <1>1, <2>1 DEF ReadLine, Topics, Outputs
  <2>. QED BY <1>4, <2>1 DEF Chunks, Select, NextRound, Resume, Unregister
<1>5. CASE Child \/ Cancel \/ Expire \/ Abandon \/ SpawnRaises \/ PublishRaises \/ ProcessDies
  BY <1>5 DEF Child, Write, CloseOutput, ChildExits, Cancel, Expire, Abandon, SpawnRaises,
     PublishRaises, ProcessDies, Leave
<1>6. CASE Spawn \/ Cancelled \/ TimedOut \/ LoopEnds \/ WaitChild \/ Close
           \/ WaitTerminated \/ RunEnds \/ RunTimesOut
  BY <1>6 DEF Spawn, Cancelled, TimedOut, LoopEnds, WaitChild, Close, WaitTerminated, RunEnds,
     RunTimesOut, Leave
<1>7. CASE UNCHANGED vars
  BY <1>7 DEF vars
<1>. QED BY <1>2, <1>3, <1>4, <1>5, <1>6, <1>7 DEF Next, Call

\* As long as the stream may still end well, every line that was written is an event or in
\* the pipe; a pipe leaves the selector when it is closed and empty.
Telling == pc \notin {"close", "terminated", "leaving", "raised", "dead"}

Told ==
  /\ Telling => \A o \in Outputs : Count(o) + Lines(o) = written[o]
  /\ pc \in {"loop", "read", "yield", "wait", "leavingWell"} =>
       \A o \in Outputs \ registered : pipe[o].eof /\ Lines(o) = 0
  /\ pc \in {"wait", "leavingWell"} => registered = {}

LEMMA LinesNumbers ==
  ASSUME Pipes
  PROVE  \A o \in Outputs : Lines(o) \in Nat /\ written[o] \in Nat
BY FitsNumbers DEF Pipes, Lines

\* The child and the end of the child leave the sum as it is.
LEMMA FilledTold ==
  ASSUME Inv, Told, AllFilled, UNCHANGED <<events, registered>>,
         \/ pc' = pc
         \/ pc' \notin {"loop", "read", "yield", "wait", "leavingWell"} /\ (Telling' => Telling)
  PROVE  Told'
<1>1. /\ \A o \in Outputs : Lines(o) \in Nat /\ written[o] \in Nat
      /\ \A o \in Outputs : Lines(o)' \in Nat /\ written'[o] \in Nat
  <2>1. Pipes /\ Pipes'
    BY DEF Inv, AllFilled
  <2>2. \A o \in Outputs : Lines(o)' \in Nat /\ written'[o] \in Nat
    BY <2>1, FitsNumbers DEF Pipes, Lines
  <2>. QED BY <2>1, <2>2, LinesNumbers
<1>2. \A o \in Outputs : /\ Lines(o)' - written'[o] = Lines(o) - written[o]
                         /\ pipe[o].eof => pipe'[o].eof /\ Lines(o)' = Lines(o)
  <2>. SUFFICES ASSUME NEW o \in Outputs
       PROVE  /\ Lines(o)' - written'[o] = Lines(o) - written[o]
              /\ pipe[o].eof => pipe'[o].eof /\ Lines(o)' = Lines(o)
    OBVIOUS
  <2>1. /\ Lines(o) = pipe[o].kernel + pipe[o].fetched
        /\ Lines(o)' = pipe'[o].kernel + pipe'[o].fetched
    BY DEF Lines
  <2>2. Filled(pipe[o], written[o], pipe'[o], written'[o])
    BY DEF AllFilled
  <2>3. Settled(pipe[o], pipe'[o])
    BY <2>2 DEF Filled
  <2>4. pipe[o].eof => pipe'[o].eof /\ Lines(o)' = Lines(o)
    BY <2>1, <2>3, Zenon DEF Settled
  <2>5. pipe'[o].kernel + pipe'[o].fetched - written'[o]
          = pipe[o].kernel + pipe[o].fetched - written[o]
    BY <2>2, Zenon DEF Filled
  <2>6. Lines(o)' - written'[o] = Lines(o) - written[o]
    <3>1. /\ pipe[o].kernel \in Nat /\ pipe[o].fetched \in Nat /\ written[o] \in Nat
          /\ pipe'[o].kernel \in Nat /\ pipe'[o].fetched \in Nat /\ written'[o] \in Nat
      BY FitsNumbers DEF Inv, AllFilled, Pipes
    <3>. QED BY <2>1, <2>5, <3>1
  <2>. QED BY <2>4, <2>6
<1>3. \A o \in Outputs : Count(o) \in Nat /\ Count(o)' = Count(o)
  BY KeepCounts DEF Inv, TypeOK, Outputs, Topics
<1>4. Telling' => Telling
  BY DEF Telling
<1>5. ASSUME Telling', NEW o \in Outputs PROVE Count(o)' + Lines(o)' = written'[o]
  <2>1. Count(o) + Lines(o) = written[o]
    BY <1>4, <1>5 DEF Told
  <2>2. Lines(o)' - written'[o] = Lines(o) - written[o] /\ Count(o)' = Count(o)
    BY <1>2, <1>3
  <2>. QED BY <1>1, <1>3, <2>1, <2>2
<1>. QED BY <1>2, <1>5 DEF Told

LEMMA StepTold == Inv /\ Told /\ [Next]_vars => Told'
<1> SUFFICES ASSUME Inv, Told, [Next]_vars PROVE Told'
  OBVIOUS
<1>0. Pipes /\ events \in Seq(Topics) /\ ready \subseteq registered /\ Outputs \subseteq Topics
  BY DEF Inv, TypeOK, Outputs, Topics
<1>1. UNCHANGED <<pipe, written>> => AllFilled
  BY <1>0, KeepFills
\* The call goes on, and the pipes are left alone.
<1>2. ASSUME UNCHANGED <<pipe, written, registered>>, Telling' => Telling,
             \A o \in Outputs : Count(o)' = Count(o),
             pc' \in {"loop", "read", "yield"} => pc \in {"loop", "read", "yield"},
             pc' = "wait" => pc \in {"loop", "wait"} /\ registered = {},
             pc' = "leavingWell" => pc \in {"wait", "leavingWell"}
      PROVE  Told'
  <2>1. \A o \in Outputs : Lines(o)' = Lines(o)
    BY <1>2 DEF Lines
  <2>. QED BY <1>2, <2>1 DEF Told
<1>3. UNCHANGED events => \A o \in Outputs : Count(o)' = Count(o)
  BY <1>0, KeepCounts
<1>4. ASSUME NEW topic \in Topics \ Outputs, Publish(topic)
      PROVE  \A o \in Outputs : Count(o)' = Count(o)
  BY <1>0, <1>4, PublishCounts
<1> USE DEF To, fixed, childVars, loopVars
<1>5. CASE Child
  <2>1. AllFilled
    BY <1>0, <1>5, WriteFills, CloseOutputFills, EndFills DEF Child, ChildExits
  <2>. QED BY <1>5, <2>1, FilledTold DEF Child, Write, CloseOutput, ChildExits
<1>6. CASE TimedOut \/ Close \/ RunTimesOut
  <2>1. AllFilled
    BY <1>0, <1>1, <1>6, EndFills DEF TimedOut, Close, RunTimesOut
  <2>. QED BY <1>6, <2>1, FilledTold DEF TimedOut, Close, RunTimesOut, Leave, Telling
<1>7. CASE Cancel \/ Expire
  <2>1. UNCHANGED <<pc, pipe, written, registered, events>>
    BY <1>7 DEF Cancel, Expire
  <2>. QED BY <1>2, <1>3, <2>1, <1>1, FilledTold
<1>8. CASE Request \/ PublishStarted \/ AttachOutput \/ PublishResult \/ LeaveStream
  <2>1. \A o \in Outputs : Count(o)' = Count(o)
    BY <1>3, <1>4, <1>8 DEF Request, PublishStarted, AttachOutput, PublishResult, LeaveStream,
       Topics, Outputs
  <2>. QED BY <1>2, <1>8, <2>1 DEF Request, PublishStarted, AttachOutput, PublishResult,
           LeaveStream, Telling
<1>9. CASE Spawn
  <2>1. pipe' = pipe /\ written' = written /\ Telling /\ \A o \in Outputs : Count(o)' = Count(o)
    BY <1>3, <1>9 DEF Spawn, Telling
  <2>2. \A o \in Outputs : Lines(o)' = Lines(o)
    BY <2>1 DEF Lines
  <2>3. pc' = "running" \/ (pc' = "loop" /\ registered' = Outputs)
    BY <1>9 DEF Spawn
  <2>. QED BY <2>1, <2>2, <2>3 DEF Told
<1>10. CASE Cancelled \/ LoopEnds \/ WaitChild \/ WaitTerminated \/ RunEnds
  BY <1>2, <1>3, <1>10 DEF Cancelled, LoopEnds, WaitChild, WaitTerminated, RunEnds, Leave, Telling
<1>11. CASE Select \/ NextRound \/ Resume
  BY <1>2, <1>3, <1>11 DEF Select, NextRound, Resume, Telling
<1>12. ASSUME NEW o \in Outputs, ReadLine(o) PROVE Told'
  <2>1. /\ pipe'[o].kernel + pipe'[o].fetched = pipe[o].kernel + pipe[o].fetched - 1
        /\ pipe'[o].eof = pipe[o].eof /\ \A x \in Outputs : x # o => pipe'[x] = pipe[x]
    BY <1>0, <1>12, TakeTakes DEF ReadLine
  <2>2. /\ Lines(o)' = Lines(o) - 1 /\ \A x \in Outputs : x # o => Lines(x)' = Lines(x)
        /\ written' = written /\ pc = "read" /\ pc' = "yield" /\ o \in registered
        /\ registered' = registered
    <3>1. Lines(o)' = Lines(o) - 1
      <4>1. Lines(o)' = pipe'[o].kernel + pipe'[o].fetched
        BY DEF Lines
      <4>2. Lines(o) = pipe[o].kernel + pipe[o].fetched
        BY DEF Lines
      <4>3. pipe'[o].kernel + pipe'[o].fetched = pipe[o].kernel + pipe[o].fetched - 1
        BY <2>1
      <4>4. Pipes'
        BY <1>0, <1>12, TakeTakes DEF ReadLine
      <4>5. /\ pipe[o].kernel \in Nat /\ pipe[o].fetched \in Nat
            /\ pipe'[o].kernel \in Nat /\ pipe'[o].fetched \in Nat
        BY <1>0, <4>4, FitsNumbers DEF Pipes
      <4>. QED BY <4>1, <4>2, <4>3, <4>5
    <3>2. ASSUME NEW x \in Outputs, x # o PROVE Lines(x)' = Lines(x)
      <4>1. pipe'[x] = pipe[x]
        BY <2>1, <3>2
      <4>. QED BY <4>1, Zenon DEF Lines
    <3>3. /\ written' = written /\ pc = "read" /\ pc' = "yield" /\ o \in registered
          /\ registered' = registered
      BY <1>0, <1>12 DEF ReadLine
    <3>. QED BY <3>1, <3>2, <3>3
  <2>3. /\ Count(o)' = Count(o) + 1 /\ Count(o) \in Nat
        /\ \A x \in Outputs : x # o => Count(x)' = Count(x)
    BY <1>0, <1>12, PublishCounts DEF ReadLine
  <2>4. \A x \in Outputs : Count(x) + Lines(x) = written[x]
    BY <2>2 DEF Told, Telling
  <2>5. Lines(o) \in Nat
    BY <1>0, LinesNumbers
  <2>6. \A x \in Outputs : Count(x)' + Lines(x)' = written'[x]
    <3>1. Count(o)' + Lines(o)' = written'[o]
      BY <2>2, <2>3, <2>4, <2>5
    <3>. QED BY <2>2, <2>3, <2>4, <3>1
  <2>7. \A x \in Outputs \ registered : pipe'[x].eof /\ Lines(x)' = 0
    BY <2>1, <2>2 DEF Told
  <2>. QED BY <2>2, <2>6, <2>7 DEF Told
<1>13. ASSUME NEW o \in Outputs, Unregister(o) PROVE Told'
  <2>1. /\ pipe' = pipe /\ written' = written /\ pc = "read" /\ pc' = "read"
        /\ registered' = registered \ {o} /\ pipe[o].eof /\ Lines(o) = 0
        /\ \A x \in Outputs : Count(x)' = Count(x)
    BY <1>3, <1>13 DEF Unregister, AtEof
  <2>2. \A x \in Outputs : Lines(x)' = Lines(x)
    BY <2>1 DEF Lines
  <2>. QED BY <2>1, <2>2 DEF Told, Telling
<1>14. CASE PublishRaises \/ SpawnRaises \/ ProcessDies \/ Abandon
  <2>1. ~ Telling' /\ pc' \notin {"loop", "read", "yield", "wait", "leavingWell"}
    BY <1>14 DEF PublishRaises, SpawnRaises, ProcessDies, Abandon, Leave, Telling
  <2>. QED BY <2>1 DEF Told
<1>15. CASE UNCHANGED vars
  BY <1>2, <1>3, <1>15 DEF vars, Telling, Told
<1>. QED BY <1>5, <1>6, <1>7, <1>8, <1>9, <1>10, <1>11, <1>12, <1>13, <1>14, <1>15
         DEF Next, Call, Chunks

\* A blocking run attaches the output once.
Attached ==
  /\ pc \in {"call", "requested", "running", "attach"} => Count("attached") = 0
  /\ pc = "publish" => Count("attached") = 1

LEMMA StepAttached == Inv /\ Attached /\ [Next]_vars => Attached'
<1> SUFFICES ASSUME Inv, Attached, [Next]_vars PROVE Attached'
  OBVIOUS
<1>0. events \in Seq(Topics) /\ "attached" \in Topics /\ "requested" \in Topics
  BY DEF Inv, TypeOK, Topics
<1>1. UNCHANGED events => Count("attached")' = Count("attached")
  BY <1>0, KeepCounts
<1> USE DEF Attached, To
<1>2. CASE Request
  <2>1. Count("attached")' = Count("attached")
    BY <1>0, <1>2, PublishCounts DEF Request
  <2>. QED BY <1>2, <2>1 DEF Request
<1>3. CASE AttachOutput
  <2>1. Count("attached")' = Count("attached") + 1
    BY <1>0, <1>3, PublishCounts DEF AttachOutput
  <2>. QED BY <1>3, <2>1 DEF AttachOutput
<1>4. CASE Spawn \/ RunEnds
  BY <1>1, <1>4 DEF Spawn, RunEnds
<1>5. CASE Child \/ Cancel \/ Expire
  <2>1. pc' = pc /\ events' = events
    BY <1>5 DEF Child, Write, CloseOutput, ChildExits, Cancel, Expire
  <2>. QED BY <1>1, <2>1
<1>6. CASE PublishStarted \/ Chunks \/ Cancelled \/ TimedOut \/ LoopEnds \/ WaitChild \/ Close
           \/ WaitTerminated \/ LeaveStream \/ RunTimesOut \/ PublishResult \/ Abandon
           \/ SpawnRaises \/ PublishRaises \/ ProcessDies
  <2>1. pc' \notin {"call", "requested", "running", "attach", "publish"}
    BY <1>6 DEF PublishStarted, Chunks, Select, NextRound, Resume, ReadLine, Unregister,
       Cancelled, TimedOut, LoopEnds, WaitChild, Close, WaitTerminated, LeaveStream, RunTimesOut,
       PublishResult, Abandon, SpawnRaises, PublishRaises, ProcessDies, Leave
  <2>. QED BY <2>1
<1>7. CASE UNCHANGED vars
  BY <1>1, <1>7 DEF vars
<1>. QED BY <1>2, <1>3, <1>4, <1>5, <1>6, <1>7 DEF Next, Call

\* Nothing is said of the end before the call ends.
Closing == {"exited", "run"}
Quiet   == \A i \in DOMAIN events : events[i] \notin Closing

Silent == pc \notin {"returned", "raised"} => Quiet

\* A call that has ended, and whose child was reaped, changes nothing.
LEMMA EndIsFinal ==
  ASSUME Next, pc \in {"returned", "raised"}, child = "reaped"
  PROVE  FALSE
<1>1. ~ Child
  BY DEF Child, Write, CloseOutput, ChildExits
<1>2. ~ Cancel /\ ~ Expire /\ ~ ProcessDies
  BY DEF Cancel, Expire, ProcessDies, Ended
<1>3. ~ Call
  BY DEF Call, Chunks, Request, PublishStarted, Spawn, Select, NextRound, Resume, ReadLine,
     Unregister, Cancelled, TimedOut, LoopEnds, WaitChild, Close, WaitTerminated, LeaveStream,
     RunEnds, RunTimesOut, AttachOutput, PublishResult
<1>4. ~ Abandon /\ ~ SpawnRaises /\ ~ PublishRaises
  BY DEF Abandon, SpawnRaises, PublishRaises
<1>. QED BY <1>1, <1>2, <1>3, <1>4 DEF Next

\* The steps that publish something else, or nothing.
LEMMA StaysQuiet ==
  ASSUME Inv, Quiet,
         UNCHANGED events \/ \E topic \in Topics \ Closing : Publish(topic)
  PROVE  Quiet'
<1>0. events \in Seq(Topics)
  BY DEF Inv, TypeOK
<1>1. CASE UNCHANGED events
  BY <1>1 DEF Quiet
<1>2. ASSUME NEW topic \in Topics \ Closing, Publish(topic) PROVE Quiet'
  <2>1. /\ Len(events) \in Nat /\ Len(events') = Len(events) + 1
        /\ events'[Len(events')] = topic /\ \A i \in 1 .. Len(events) : events'[i] = events[i]
    BY <1>0, <1>2, PublishCounts
  <2>2. DOMAIN events' = 1 .. Len(events') /\ DOMAIN events = 1 .. Len(events)
    BY <1>0, <1>2 DEF Publish
  <2>. QED BY <1>2, <2>1, <2>2 DEF Quiet
<1>. QED BY <1>1, <1>2

\* The step that ends the call well.
LEMMA LastWord ==
  ASSUME Inv, Quiet, Headed, pc \notin {"call", "raised", "dead"},
         NEW topic \in Closing, Publish(topic), UNCHANGED <<child, written>>, child = "reaped",
         topic = "run" => Count("attached") = 1,
         topic = "exited" => \A o \in Outputs : Count(o) = written[o]
  PROVE  ExitTellsAll'
<1>0. events \in Seq(Topics) /\ topic \in Topics /\ Outputs \subseteq Topics
      /\ "attached" \in Topics /\ Outputs \cap Closing = {} /\ "attached" \notin Closing
  BY DEF Inv, TypeOK, Topics, Outputs, Closing
<1>1. /\ Len(events) \in Nat /\ Len(events') = Len(events) + 1
      /\ events'[Len(events')] = topic /\ \A i \in 1 .. Len(events) : events'[i] = events[i]
  BY <1>0, PublishCounts
<1>2. DOMAIN events' = 1 .. Len(events') /\ DOMAIN events = 1 .. Len(events)
  BY <1>0 DEF Publish
<1>3. \A t \in Topics \ Closing : Count(t)' = Count(t)
  BY <1>0, PublishCounts
<1>4. events'[1] = "requested"
  BY <1>1 DEF Headed
<1>5. Count("attached")' = Count("attached") /\ \A o \in Outputs : Count(o)' = Count(o)
  BY <1>0, <1>3
<1>6. ASSUME NEW i \in DOMAIN events', events'[i] \in Closing
      PROVE  i = Len(events') /\ events'[i] = topic
  BY <1>1, <1>2, <1>6 DEF Quiet
<1>. QED BY <1>4, <1>5, <1>6 DEF ExitTellsAll, Closing

LEMMA StepTells ==
  Inv /\ Awaited /\ Headed /\ Told /\ Attached /\ Silent /\ ExitTellsAll /\ [Next]_vars
    => Silent' /\ ExitTellsAll'
<1> SUFFICES ASSUME Inv, Awaited, Headed, Told, Attached, Silent, ExitTellsAll, [Next]_vars
             PROVE  Silent' /\ ExitTellsAll'
  OBVIOUS
<1>1. Quiet' => Silent' /\ ExitTellsAll'
  BY DEF Quiet, Silent, ExitTellsAll, Closing
<1>2. CASE UNCHANGED vars
  <2>1. UNCHANGED <<pc, child, written, events>>
    BY <1>2 DEF vars
  <2>2. Silent'
    BY <2>1 DEF Silent, Quiet
  <2>3. ExitTellsAll'
    BY <2>1 DEF ExitTellsAll, Count
  <2>. QED BY <2>2, <2>3
<1>3. CASE Next /\ ~ Quiet
  <2>1. pc \in {"returned", "raised"} /\ child = "reaped"
    BY <1>3 DEF Silent, Quiet, ExitTellsAll, Closing
  <2>. QED BY <1>3, <2>1, EndIsFinal
<1>4. CASE Quiet /\ LeaveStream
  <2>1. CASE pc = "leavingWell"
    <3>1. \A o \in Outputs : Count(o) = written[o]
      <4>1. \A o \in Outputs : Count(o) + Lines(o) = written[o] /\ Lines(o) = 0
        BY <2>1 DEF Told, Telling
      <4>2. \A o \in Outputs : Count(o) \in Nat
        BY CountAppended DEF Inv, TypeOK, Outputs, Topics, Count, Places
      <4>. QED BY <4>1, <4>2
    <3>2. Publish("exited") /\ pc' = "returned" /\ UNCHANGED <<child, written>>
      BY <1>4, <2>1 DEF LeaveStream, To, childVars
    <3>3. child = "reaped"
      BY <2>1 DEF Awaited
    <3>4. ExitTellsAll'
      BY <1>4, <2>1, <3>1, <3>2, <3>3, LastWord DEF Closing
    <3>. QED BY <3>2, <3>4 DEF Silent
  <2>2. CASE pc # "leavingWell"
    BY <1>1, <1>4, <2>2, StaysQuiet DEF LeaveStream
  <2>. QED BY <2>1, <2>2
<1>5. CASE Quiet /\ PublishResult
  <2>1. Publish("run") /\ pc' \in {"returned", "raised"} /\ UNCHANGED <<child, written>>
    BY <1>5 DEF PublishResult, To, childVars
  <2>2. pc = "publish" /\ child = "reaped" /\ Count("attached") = 1
    BY <1>5 DEF PublishResult, Awaited, Attached
  <2>3. ExitTellsAll'
    BY <1>5, <2>1, <2>2, LastWord DEF Closing
  <2>. QED BY <2>1, <2>3 DEF Silent
<1>6. CASE Quiet /\ (Request \/ PublishStarted \/ AttachOutput \/ \E o \in Outputs : ReadLine(o))
  <2>1. \E topic \in Topics \ Closing : Publish(topic)
    BY <1>6 DEF Request, PublishStarted, AttachOutput, ReadLine, Topics, Closing, Outputs
  <2>. QED BY <1>1, <1>6, <2>1, StaysQuiet
<1>7. CASE /\ Quiet
           /\ \/ Child \/ Cancel \/ Expire \/ Abandon \/ SpawnRaises \/ PublishRaises
              \/ ProcessDies \/ Spawn \/ Cancelled \/ TimedOut \/ LoopEnds \/ WaitChild \/ Close
              \/ WaitTerminated \/ RunEnds \/ RunTimesOut \/ Select \/ NextRound \/ Resume
              \/ \E o \in Outputs : Unregister(o)
  <2>1. UNCHANGED events
    BY <1>7 DEF Child, Write, CloseOutput, ChildExits, Cancel, Expire, Abandon, SpawnRaises,
       PublishRaises, ProcessDies, Spawn, Cancelled, TimedOut, LoopEnds, WaitChild, Close,
       WaitTerminated, RunEnds, RunTimesOut, Select, NextRound, Resume, Unregister
  <2>. QED BY <1>1, <1>7, <2>1, StaysQuiet
<1>. QED BY <1>2, <1>3, <1>4, <1>5, <1>6, <1>7 DEF Next, Call, Chunks

\* ExitTellsAll: process.exited and process.run are published last, of a child that was reaped,
\* and all its lines are events by then (or its output is attached): stream_process_chunks and
\* ContextProcess.run.
THEOREM ExitTells == Spec => []ExitTellsAll
<1>1. Init => Headed /\ Told /\ Attached /\ Silent /\ ExitTellsAll /\ Awaited
  <2> SUFFICES ASSUME Init PROVE Headed /\ Told /\ Attached /\ Silent /\ ExitTellsAll /\ Awaited
    OBVIOUS
  <2>1. events = <<>> /\ pc = "call" /\ \A o \in Outputs : Lines(o) = 0 /\ written[o] = 0
    BY DEF Init, Lines
  <2>2. \A t : Count(t) = 0
    <3>1. \A t : {i \in DOMAIN events : events[i] = t} = {}
      BY <2>1
    <3>. QED BY <3>1, FS_EmptySet DEF Count
  <2>3. Headed /\ Attached
    BY <2>1, <2>2 DEF Headed, Attached
  <2>4. Told
    BY <2>1, <2>2 DEF Told
  <2>5. Silent /\ ExitTellsAll
    BY <2>1 DEF Silent, Quiet, ExitTellsAll
  <2>. QED BY <2>1, <2>3, <2>4, <2>5 DEF Awaited
<1>. QED BY <1>1, Always, StepAwaited, StepHeaded, StepTold, StepAttached, StepTells, PTL DEF Spec
=============================================================================
