------------------------ MODULE SessionTriggersProofs ------------------------
(***************************************************************************)
(* Proofs about SessionTriggers, for any shells, databases and bounds.     *)
(***************************************************************************)
EXTENDS SessionTriggers, TLAPS

-----------------------------------------------------------------------------
(* Types. *)

Event == [match : BOOLEAN, job : Nat \ {0}]
Job   == [by : Shells \union {"user"}, active : BOOLEAN, looked : Nat]
Fired == [event : Nat, by : Shells, life : Nat]

(* The types of what the databases and the shells hold. *)
Typed ==
  /\ log \in [Databases -> Seq(Event)]
  /\ jobs \in [Databases -> Seq(Job)]
  /\ state \in [Databases -> Nat]
  /\ fired \in [Databases -> Seq(Fired)]
  /\ shell \in [Shells -> Runner]
  /\ lives \in [Shells -> Nat]

(* A new runner is a runner that knows nothing. *)
LEMMA NewRunnerTyped ==
  ASSUME NEW d \in Databases
  PROVE  NewRunner(d) \in Runner
BY DEF NewRunner, Runner, PC, NoCursor

LEMMA InitTyped == Init => Typed
<1> SUFFICES ASSUME Init PROVE Typed
  OBVIOUS
<1>1. shell \in [Shells -> Runner]
  <2>1. {NewRunner(d) : d \in Databases} \subseteq Runner
    BY NewRunnerTyped
  <2>2. QED BY <2>1 DEF Init
<1>2. lives \in [Shells -> Nat]
  BY DEF Init
<1>3. QED BY <1>1, <1>2 DEF Init, Typed

(* The ways an action changes a shell's record keep it a runner. *)
LEMMA BecomeTyped ==
  ASSUME shell \in [Shells -> Runner], NEW s \in Shells, NEW r \in Runner, Become(s, r)
  PROVE  shell' \in [Shells -> Runner]
BY DEF Become

LEMMA ToTyped ==
  ASSUME shell \in [Shells -> Runner], NEW s \in Shells, NEW where \in PC, To(s, where)
  PROVE  shell' \in [Shells -> Runner]
<1>1. [shell[s] EXCEPT !.pc = where] \in Runner
  BY DEF Runner
<1>2. QED BY <1>1, BecomeTyped DEF To

LEMMA CursorTyped ==
  ASSUME Typed, NEW s \in Shells
  PROVE  /\ Db(s) \in Databases /\ state[Db(s)] \in Nat
         /\ Cursor(s) \in Nat /\ Len(log[Db(s)]) \in Nat
         /\ shell[s].upto \in Nat /\ shell[s].after \in Nat
<1>1. /\ shell[s].db \in Databases /\ shell[s].cursor \in Nat \union {NoCursor}
      /\ shell[s].upto \in Nat /\ shell[s].after \in Nat
  BY DEF Typed, Runner
<1>2. state[Db(s)] \in Nat /\ log[Db(s)] \in Seq(Event)
  BY <1>1 DEF Typed, Db
<1>3. Cursor(s) \in Nat
  BY <1>1, <1>2 DEF Cursor
<1>4. QED BY <1>1, <1>2, <1>3 DEF Db

(* Enabling, querying and scanning keep the runners typed. *)
LEMMA EvaluateTyped ==
  ASSUME Typed, NEW s \in Shells, EnableRead(s) \/ Query(s) \/ Scan(s)
  PROVE  shell' \in [Shells -> Runner]
<1>0. shell \in [Shells -> Runner] /\ shell[s] \in Runner
  BY DEF Typed
<1>1. CASE EnableRead(s)
  <2> DEFINE last == state[Db(s)]
             c == IF last # 0 /\ shell[s].cursor = NoCursor THEN last ELSE shell[s].cursor
             r == [shell[s] EXCEPT !.enabled = TRUE, !.after = last, !.cursor = c]
  <2>1. c \in Nat \union {NoCursor} /\ last \in Nat
    BY <1>0, CursorTyped DEF Runner
  <2>2. r \in Runner
    <3> HIDE DEF c, last
    <3> QED BY <2>1, <1>0 DEF Runner
  <2>3. Become(s, r)
    BY <1>1 DEF EnableRead
  <2>4. QED BY <2>2, <2>3, <1>0, BecomeTyped
<1>2. CASE Query(s)
  <2> DEFINE last == Len(log[Db(s)])
             u == IF last <= Cursor(s) THEN Cursor(s)
                  ELSE IF last <= Cursor(s) + Limit THEN last ELSE Cursor(s) + Limit
             r == [shell[s] EXCEPT !.pc = "scan", !.after = Cursor(s), !.upto = u]
  <2>1. u \in Nat /\ Cursor(s) \in Nat
    BY CursorTyped, TriggersAssumption DEF TriggersAssumption
  <2>2. r \in Runner
    <3>1. "scan" \in PC
      BY DEF PC
    <3> HIDE DEF u
    <3>2. QED BY <2>1, <3>1, <1>0 DEF Runner
  <2>3. Become(s, r)
    BY <1>2 DEF Query
  <2>4. QED BY <2>2, <2>3, <1>0, BecomeTyped
<1>3. CASE Scan(s)
  <2>1. ASSUME NEW k \in shell[s].after + 1 .. shell[s].upto
        PROVE  [shell[s] EXCEPT !.pc = "publish", !.upto = k, !.seen = @ \union {k}] \in Runner
    <3>1. k \in Nat
      BY CursorTyped
    <3>2. "publish" \in PC
      BY DEF PC
    <3>3. QED BY <1>0, <3>1, <3>2 DEF Runner
  <2>2. ASSUME NEW where \in {"advance", "prompt"}
        PROVE  [shell[s] EXCEPT !.pc = where, !.cursor = shell[s].upto] \in Runner
    <3>1. where \in PC
      BY DEF PC
    <3>2. QED BY <1>0, <3>1, CursorTyped DEF Runner
  <2>3. \/ \E k \in shell[s].after + 1 .. shell[s].upto :
              Become(s, [shell[s] EXCEPT !.pc = "publish", !.upto = k, !.seen = @ \union {k}])
        \/ \E where \in {"advance", "prompt"} :
              Become(s, [shell[s] EXCEPT !.pc = where, !.cursor = shell[s].upto])
    BY <1>3 DEF Scan
  <2>4. QED BY <1>0, <2>1, <2>2, <2>3, BecomeTyped
<1>4. QED BY <1>1, <1>2, <1>3

(* A look at the active jobs leads back to the prompt or, with what was seen, to the start. *)
Looks(s) == [shell[s] EXCEPT !.pc = "start", !.looked = Len(jobs[Db(s)])]

LEMMA Checked ==
  ASSUME NEW s \in Shells, CheckAction(s)
  PROVE  To(s, "prompt") \/ Become(s, Looks(s))
<1>1. CASE Service /\ \E j \in DOMAIN jobs[Db(s)] : IsService(Db(s), j) /\ Active(Db(s), j)
  BY <1>1 DEF CheckAction
<1>2. CASE ~ (Service /\ \E j \in DOMAIN jobs[Db(s)] : IsService(Db(s), j) /\ Active(Db(s), j))
  BY <1>2 DEF CheckAction, Looks
<1>. QED BY <1>1, <1>2

(* What the actions of shell s do to the shells' records. *)
LEMMA ShellTyped ==
  ASSUME Typed, NEW s \in Shells,
         \/ StartShell(s) \/ Prompt(s) \/ EnableRead(s) \/ EnableWrite(s)
         \/ Query(s) \/ Scan(s) \/ PublishFired(s) \/ WriteFired(s) \/ Advance(s)
         \/ CheckAction(s) \/ StartAction(s) \/ \E d \in Databases : LoadDatabase(s, d)
         \/ Exit(s) \/ StopServices(s) \/ DisableRead(s) \/ DisableWrite(s) \/ ShellDies(s)
  PROVE  shell' \in [Shells -> Runner]
<1>0. /\ shell \in [Shells -> Runner] /\ shell[s] \in Runner
      /\ {"prompt", "enable", "query", "write", "action", "start", "stop", "disable",
          "disableWrite"} \subseteq PC
  BY DEF Typed, PC
<1>1. CASE StartShell(s) \/ EnableWrite(s) \/ PublishFired(s) \/ Advance(s) \/ Exit(s)
  BY <1>0, <1>1, ToTyped DEF StartShell, EnableWrite, PublishFired, Advance, Exit
<1>2. CASE Prompt(s)
  <2>1. \E where \in PC : To(s, where)
    <3>1. CASE shell[s].enabled
      BY <1>0, <1>2, <3>1 DEF Prompt
    <3>2. CASE ~ shell[s].enabled
      BY <1>0, <1>2, <3>2 DEF Prompt
    <3>3. QED BY <3>1, <3>2
  <2>2. QED BY <1>0, <2>1, ToTyped
<1>11. CASE CheckAction(s)
  <2>1. Looks(s).looked \in Nat /\ Looks(s) \in Runner
    <3>1. Len(jobs[Db(s)]) \in Nat
      BY CursorTyped DEF Typed
    <3>. QED BY <1>0, <3>1 DEF Runner, Looks
  <2>. QED BY <1>0, <1>11, <2>1, Checked, ToTyped, BecomeTyped
<1>3. CASE EnableRead(s) \/ Query(s) \/ Scan(s)
  BY <1>3, EvaluateTyped
<1>4. CASE WriteFired(s)
  <2>1. [shell[s] EXCEPT !.pc = "action", !.cursor = shell[s].upto] \in Runner
    BY <1>0, CursorTyped DEF Runner
  <2>2. QED BY <1>0, <1>4, <2>1, BecomeTyped DEF WriteFired
<1>5. CASE StartAction(s)
  <2> DEFINE job == Len(jobs[Db(s)]) + 1
             mine == IF Service THEN shell[s].own \union {job} ELSE shell[s].own
  <2>1. mine \in SUBSET Nat
    <3>1. job \in Nat
      BY CursorTyped DEF Typed
    <3>2. shell[s].own \in SUBSET Nat
      BY <1>0 DEF Runner
    <3> HIDE DEF job
    <3>3. QED BY <3>1, <3>2
  <2>2. Become(s, [shell[s] EXCEPT !.pc = "prompt", !.looked = 0, !.own = mine])
    BY <1>5 DEF StartAction
  <2> HIDE DEF mine
  <2>3. [shell[s] EXCEPT !.pc = "prompt", !.looked = 0, !.own = mine] \in Runner
    BY <1>0, <2>1 DEF Runner
  <2>4. QED BY <1>0, <2>2, <2>3, BecomeTyped
<1>6. ASSUME NEW d \in Databases, LoadDatabase(s, d)
      PROVE  shell' \in [Shells -> Runner]
  <2>1. [shell[s] EXCEPT !.db = d] \in Runner
    BY <1>0 DEF Runner
  <2>2. QED BY <1>0, <1>6, <2>1, BecomeTyped DEF LoadDatabase
<1>7. CASE StopServices(s)
  BY <1>0, <1>7, ToTyped, BecomeTyped, NewRunnerTyped, CursorTyped DEF StopServices
<1>8. CASE DisableRead(s)
  <2>1. [shell[s] EXCEPT !.pc = "disableWrite", !.after = state[Db(s)]] \in Runner
    BY <1>0, CursorTyped DEF Runner
  <2>2. QED BY <1>0, <1>8, <2>1, BecomeTyped DEF DisableRead
<1>9. CASE DisableWrite(s) \/ ShellDies(s)
  BY <1>0, <1>9, BecomeTyped, NewRunnerTyped, CursorTyped DEF DisableWrite, ShellDies
<1>10. QED BY <1>1, <1>2, <1>3, <1>4, <1>5, <1>6, <1>7, <1>8, <1>9, <1>11

(* Events of jobs keep their types. *)
LEMMA JobsTyped ==
  ASSUME Typed, NEW d \in Databases,
         \/ Submit(d)
         \/ \E j \in DOMAIN jobs[d] : End(d, j) \/ \E match \in BOOLEAN : Emit(d, j, match)
  PROVE  Typed'
<1> USE DEF Typed
<1>1. CASE Submit(d)
  <2>1. [by |-> "user", active |-> TRUE, looked |-> 0] \in Job
    BY DEF Job
  <2>2. Append(jobs[d], [by |-> "user", active |-> TRUE, looked |-> 0]) \in Seq(Job)
    BY <2>1
  <2>3. jobs' \in [Databases -> Seq(Job)]
    BY <1>1, <2>2 DEF Submit
  <2>4. QED BY <1>1, <2>3 DEF Submit
<1>2. ASSUME NEW j \in DOMAIN jobs[d], End(d, j)
      PROVE  Typed'
  <2>1. [jobs[d][j] EXCEPT !.active = FALSE] \in Job
    <3>1. jobs[d][j] \in Job
      OBVIOUS
    <3>2. QED BY <3>1 DEF Job
  <2>2. [jobs[d] EXCEPT ![j] = [jobs[d][j] EXCEPT !.active = FALSE]] \in Seq(Job)
    BY <2>1
  <2>3. jobs' = [jobs EXCEPT ![d] = [jobs[d] EXCEPT ![j] = [jobs[d][j] EXCEPT !.active = FALSE]]]
    BY <1>2 DEF End
  <2>4. jobs' \in [Databases -> Seq(Job)]
    BY <2>2, <2>3
  <2>5. QED BY <1>2, <2>4 DEF End
<1>3. ASSUME NEW j \in DOMAIN jobs[d], NEW match \in BOOLEAN, Emit(d, j, match)
      PROVE  Typed'
  <2>1. [match |-> match, job |-> j] \in Event
    <3>1. j \in Nat \ {0}
      OBVIOUS
    <3>2. QED BY <3>1 DEF Event
  <2>2. Append(log[d], [match |-> match, job |-> j]) \in Seq(Event)
    BY <2>1
  <2>3. log' \in [Databases -> Seq(Event)]
    BY <1>3, <2>2 DEF Emit
  <2>4. QED BY <1>3, <2>3 DEF Emit
<1>4. QED BY <1>1, <1>2, <1>3

(* What a shell does to its database keeps the types too. *)
LEMMA ShellStepTyped ==
  ASSUME Typed, NEW s \in Shells,
         \/ StartShell(s) \/ Prompt(s) \/ EnableRead(s) \/ EnableWrite(s)
         \/ Query(s) \/ Scan(s) \/ PublishFired(s) \/ WriteFired(s) \/ Advance(s)
         \/ CheckAction(s) \/ StartAction(s) \/ \E d \in Databases : LoadDatabase(s, d)
         \/ Exit(s) \/ StopServices(s) \/ DisableRead(s) \/ DisableWrite(s) \/ ShellDies(s)
  PROVE  Typed'
<1>0. shell' \in [Shells -> Runner]
  BY ShellTyped
<1> USE <1>0 DEF Typed
<1>1. CASE StartShell(s)
  BY <1>1 DEF StartShell
<1>2. CASE \/ Prompt(s) \/ EnableRead(s) \/ Query(s) \/ Scan(s) \/ CheckAction(s)
           \/ (\E d \in Databases : LoadDatabase(s, d)) \/ Exit(s) \/ DisableRead(s) \/ ShellDies(s)
  BY <1>2 DEF Prompt, EnableRead, Query, Scan, CheckAction, LoadDatabase, Exit, DisableRead,
              ShellDies
<1>3. CASE EnableWrite(s) \/ WriteFired(s) \/ Advance(s) \/ DisableWrite(s)
  BY <1>3, CursorTyped DEF EnableWrite, WriteFired, Advance, DisableWrite, UpdateTriggerState
<1>4. CASE PublishFired(s)
  <2>1. [event |-> shell[s].upto, by |-> s, life |-> lives[s]] \in Fired
    BY CursorTyped DEF Fired
  <2>2. Append(fired[Db(s)], [event |-> shell[s].upto, by |-> s, life |-> lives[s]]) \in Seq(Fired)
    BY <2>1, CursorTyped
  <2>3. fired' \in [Databases -> Seq(Fired)]
    BY <1>4, <2>2 DEF PublishFired
  <2>4. QED BY <1>4, <2>3 DEF PublishFired
<1>5. CASE StartAction(s)
  <2>1. [by |-> s, active |-> TRUE, looked |-> shell[s].looked] \in Job
    BY <1>0 DEF Job, Runner
  <2>2. Append(jobs[Db(s)], [by |-> s, active |-> TRUE, looked |-> shell[s].looked]) \in Seq(Job)
    BY <2>1, CursorTyped
  <2>3. jobs' \in [Databases -> Seq(Job)]
    BY <1>5, <2>2 DEF StartAction
  <2>4. QED BY <1>5, <2>3 DEF StartAction
<1>6. CASE StopServices(s)
  <2> DEFINE d == Db(s)
             stopped(j) == IF j \in shell[s].own THEN [jobs[d][j] EXCEPT !.active = FALSE]
                                                 ELSE jobs[d][j]
  <2>1. jobs[d] \in Seq(Job) /\ d \in Databases
    BY CursorTyped
  <2>2. \A j \in DOMAIN jobs[d] : stopped(j) \in Job
    <3> SUFFICES ASSUME NEW j \in DOMAIN jobs[d] PROVE stopped(j) \in Job
      OBVIOUS
    <3>1. jobs[d][j] \in Job
      BY <2>1
    <3>2. [jobs[d][j] EXCEPT !.active = FALSE] \in Job
      BY <3>1 DEF Job
    <3>3. QED BY <3>1, <3>2
  <2>3. [j \in DOMAIN jobs[d] |-> stopped(j)] \in Seq(Job)
    <3> HIDE DEF stopped
    <3>1. DOMAIN jobs[d] = 1 .. Len(jobs[d]) /\ Len(jobs[d]) \in Nat
      BY <2>1
    <3>2. QED BY <2>2, <3>1
  <2>4. jobs' = [jobs EXCEPT ![d] = [j \in DOMAIN jobs[d] |-> stopped(j)]]
    BY <1>6 DEF StopServices
  <2>5. jobs' \in [Databases -> Seq(Job)]
    <3> HIDE DEF stopped
    <3>1. QED BY <2>1, <2>3, <2>4
  <2>6. QED BY <1>6, <2>5 DEF StopServices
<1>7. QED BY <1>1, <1>2, <1>3, <1>4, <1>5, <1>6

LEMMA NextTyped ==
  ASSUME Typed, [Next]_vars
  PROVE  Typed'
<1>1. CASE UNCHANGED vars
  BY <1>1 DEF vars, Typed
<1>2. CASE Next
  BY <1>2, JobsTyped, ShellStepTyped DEF Next
<1>3. QED BY <1>1, <1>2

-----------------------------------------------------------------------------
(* One session fires an event once. *)

\* What a session has fired it remembers, and what it is about to fire it has not fired.
Remembered ==
  \A d \in Databases : \A i \in DOMAIN fired[d] :
    LET f == fired[d][i] IN
    /\ f.life <= lives[f.by]
    /\ f.life = lives[f.by] /\ shell[f.by].pc # "off" => f.event \in shell[f.by].seen

AboutToFire ==
  \A s \in Shells : shell[s].pc = "publish" =>
    /\ shell[s].upto \in shell[s].seen
    /\ \A d \in Databases : \A i \in DOMAIN fired[d] :
         fired[d][i].by = s /\ fired[d][i].life = lives[s] => fired[d][i].event # shell[s].upto

\* What any step leaves of a session: it begins, ends, or goes on and forgets nothing.
SessionKept(s) ==
  \/ shell'[s] = shell[s] /\ lives'[s] = lives[s]
  \/ /\ shell[s].pc = "off" /\ shell'[s].pc # "publish"
     /\ lives'[s] = lives[s] + 1
  \/ shell'[s].pc = "off" /\ lives'[s] = lives[s]
  \/ /\ shell[s].pc # "off" /\ lives'[s] = lives[s]
     /\ shell[s].seen \subseteq shell'[s].seen
     /\ shell'[s].pc = "publish" =>
          shell'[s].upto \notin shell[s].seen /\ shell'[s].upto \in shell'[s].seen

(* Only a session at "publish" adds to the fired events, one record at a time, and it *)
(* is then past it.                                                                   *)
FiredKept ==
  \/ UNCHANGED fired
  \/ \E s \in Shells : PublishFired(s)

(* The other sessions do not notice what session s does. *)
LEMMA OthersKept ==
  ASSUME Typed, NEW s \in Shells, NEW r, Become(s, r), lives' = lives
  PROVE  /\ \A o \in Shells \ {s} : SessionKept(o)
         /\ shell'[s] = r
BY DEF Typed, Become, SessionKept

(* An action that only moves a live session's program counter forgets nothing. *)
LEMMA ToKept ==
  ASSUME Typed, NEW s \in Shells, NEW where, where # "publish", To(s, where), lives' = lives,
         shell[s].pc # "off"
  PROVE  \A o \in Shells : SessionKept(o)
<1>1. shell[s] \in Runner
  BY DEF Typed
<1>2. /\ \A o \in Shells \ {s} : SessionKept(o)
      /\ shell'[s] = [shell[s] EXCEPT !.pc = where]
  BY OthersKept DEF To
<1>3. shell'[s].pc = where /\ shell'[s].seen = shell[s].seen
  BY <1>1, <1>2 DEF Runner
<1>4. SessionKept(s)
  BY <1>3 DEF SessionKept
<1>5. QED BY <1>2, <1>4

(* An action that makes a fresh runner of a session ends it. *)
LEMMA NewKept ==
  ASSUME Typed, NEW s \in Shells, Become(s, NewRunner(Db(s))), lives' = lives
  PROVE  \A o \in Shells : SessionKept(o)
<1>1. /\ \A o \in Shells \ {s} : SessionKept(o)
      /\ shell'[s] = NewRunner(Db(s))
  BY OthersKept
<1>2. SessionKept(s)
  BY <1>1 DEF NewRunner, SessionKept
<1>3. QED BY <1>1, <1>2

(* Every action of a shell keeps the sessions. *)
LEMMA ShellKept ==
  ASSUME Typed, NEW s \in Shells,
         \/ StartShell(s) \/ Prompt(s) \/ EnableRead(s) \/ EnableWrite(s)
         \/ Query(s) \/ Scan(s) \/ PublishFired(s) \/ WriteFired(s) \/ Advance(s)
         \/ CheckAction(s) \/ StartAction(s) \/ \E d \in Databases : LoadDatabase(s, d)
         \/ Exit(s) \/ StopServices(s) \/ DisableRead(s) \/ DisableWrite(s) \/ ShellDies(s)
  PROVE  \A o \in Shells : SessionKept(o)
<1>0. shell[s] \in Runner /\ lives \in [Shells -> Nat]
  BY DEF Typed
<1>1. CASE StartShell(s)
  <2>1. \A o \in Shells \ {s} : shell'[o] = shell[o] /\ lives'[o] = lives[o]
    BY <1>1 DEF StartShell, To, Become, Typed
  <2>2. shell'[s] = [shell[s] EXCEPT !.pc = "enable"] /\ lives'[s] = lives[s] + 1
    BY <1>0, <1>1 DEF StartShell, To, Become, Typed
  <2>3. shell'[s].pc = "enable"
    BY <1>0, <2>2 DEF Runner
  <2>4. SessionKept(s)
    BY <1>1, <2>2, <2>3 DEF SessionKept, StartShell, At
  <2>5. QED BY <2>1, <2>4 DEF SessionKept
<1>2. CASE EnableWrite(s) \/ PublishFired(s) \/ Advance(s) \/ Exit(s)
  BY <1>2, ToKept DEF EnableWrite, PublishFired, Advance, Exit, At
<1>3. CASE Prompt(s)
  <2>1. CASE shell[s].enabled
    BY <1>3, <2>1, ToKept DEF Prompt, At
  <2>2. CASE ~ shell[s].enabled
    BY <1>3, <2>2, ToKept DEF Prompt, At
  <2>3. QED BY <2>1, <2>2
<1>5. ASSUME NEW r, Become(s, r), r.seen = shell[s].seen, r.pc # "publish",
             shell[s].pc # "off", lives' = lives
      PROVE  \A o \in Shells : SessionKept(o)
  BY <1>5, OthersKept DEF SessionKept
<1>6. CASE EnableRead(s)
  <2> DEFINE c == IF state[Db(s)] # 0 /\ shell[s].cursor = NoCursor THEN state[Db(s)]
                                                                 ELSE shell[s].cursor
             r == [shell[s] EXCEPT !.enabled = TRUE, !.after = state[Db(s)], !.cursor = c]
  <2>1. Become(s, r) /\ shell[s].pc = "enable" /\ lives' = lives
    BY <1>6 DEF EnableRead, At
  <2> HIDE DEF c
  <2>2. r.seen = shell[s].seen /\ r.pc = shell[s].pc
    BY <1>0 DEF Runner
  <2>3. QED BY <2>1, <2>2, <1>5
<1>7. CASE Query(s)
  <2> DEFINE last == Len(log[Db(s)])
             u == IF last <= Cursor(s) THEN Cursor(s)
                  ELSE IF last <= Cursor(s) + Limit THEN last ELSE Cursor(s) + Limit
             r == [shell[s] EXCEPT !.pc = "scan", !.after = Cursor(s), !.upto = u]
  <2>1. Become(s, r) /\ shell[s].pc = "query" /\ lives' = lives
    BY <1>7 DEF Query, At
  <2> HIDE DEF u
  <2>2. r.seen = shell[s].seen /\ r.pc = "scan"
    BY <1>0 DEF Runner
  <2>3. QED BY <2>1, <2>2, <1>5
<1>8. CASE Scan(s)
  <2>1. ASSUME NEW k, k \notin shell[s].seen,
               Become(s, [shell[s] EXCEPT !.pc = "publish", !.upto = k, !.seen = @ \union {k}])
        PROVE  \A o \in Shells : SessionKept(o)
    <3>1. shell[s].pc = "scan" /\ lives' = lives
      BY <1>8 DEF Scan, At
    <3>2. /\ \A o \in Shells \ {s} : SessionKept(o)
          /\ shell'[s] = [shell[s] EXCEPT !.pc = "publish", !.upto = k, !.seen = @ \union {k}]
      BY <2>1, <3>1, OthersKept
    <3>3. shell'[s].upto = k /\ shell'[s].seen = shell[s].seen \union {k}
      BY <1>0, <3>2 DEF Runner
    <3>4. SessionKept(s)
      BY <2>1, <3>1, <3>3 DEF SessionKept
    <3>5. QED BY <3>2, <3>4
  <2>2. ASSUME NEW where \in {"advance", "prompt"},
               Become(s, [shell[s] EXCEPT !.pc = where, !.cursor = shell[s].upto])
        PROVE  \A o \in Shells : SessionKept(o)
    <3>1. shell[s].pc = "scan" /\ lives' = lives
      BY <1>8 DEF Scan, At
    <3> DEFINE r == [shell[s] EXCEPT !.pc = where, !.cursor = shell[s].upto]
    <3>2. r.seen = shell[s].seen /\ r.pc = where
      BY <1>0 DEF Runner
    <3>3. QED BY <2>2, <3>1, <3>2, <1>5
  <2>3. \/ \E k \in shell[s].after + 1 .. shell[s].upto :
              /\ k \notin shell[s].seen
              /\ Become(s, [shell[s] EXCEPT !.pc = "publish", !.upto = k, !.seen = @ \union {k}])
        \/ \E where \in {"advance", "prompt"} :
              Become(s, [shell[s] EXCEPT !.pc = where, !.cursor = shell[s].upto])
    BY <1>8 DEF Scan
  <2>4. QED BY <2>1, <2>2, <2>3
<1>4. CASE CheckAction(s)
  <2>1. Looks(s).seen = shell[s].seen /\ Looks(s).pc = "start"
    BY <1>0 DEF Runner, Looks
  <2>2. shell[s].pc = "action" /\ lives' = lives
    BY <1>4 DEF CheckAction, At
  <2>. QED BY <1>4, <1>5, <2>1, <2>2, Checked, ToKept
<1>9. CASE WriteFired(s)
  <2> DEFINE r == [shell[s] EXCEPT !.pc = "action", !.cursor = shell[s].upto]
  <2>1. r.seen = shell[s].seen /\ r.pc = "action"
    BY <1>0 DEF Runner
  <2>2. QED BY <1>5, <1>9, <2>1 DEF WriteFired, At
<1>10. CASE StartAction(s)
  <2> DEFINE mine == IF Service THEN shell[s].own \union {Len(jobs[Db(s)]) + 1} ELSE shell[s].own
             r == [shell[s] EXCEPT !.pc = "prompt", !.looked = 0, !.own = mine]
  <2>1. Become(s, r) /\ shell[s].pc = "start" /\ lives' = lives
    BY <1>10 DEF StartAction, At
  <2> HIDE DEF mine
  <2>2. r.seen = shell[s].seen /\ r.pc = "prompt"
    BY <1>0 DEF Runner
  <2>3. QED BY <1>5, <2>1, <2>2
<1>11. ASSUME NEW d \in Databases, LoadDatabase(s, d)
       PROVE  \A o \in Shells : SessionKept(o)
  <2> DEFINE r == [shell[s] EXCEPT !.db = d]
  <2>1. r.seen = shell[s].seen /\ r.pc = shell[s].pc
    BY <1>0 DEF Runner
  <2>2. QED BY <1>5, <1>11, <2>1 DEF LoadDatabase, At
<1>12. CASE StopServices(s)
  BY <1>12, ToKept, NewKept DEF StopServices, At
<1>13. CASE DisableRead(s)
  <2> DEFINE r == [shell[s] EXCEPT !.pc = "disableWrite", !.after = state[Db(s)]]
  <2>1. r.seen = shell[s].seen /\ r.pc = "disableWrite"
    BY <1>0 DEF Runner
  <2>2. QED BY <1>5, <1>13, <2>1 DEF DisableRead, At
<1>14. CASE DisableWrite(s) \/ ShellDies(s)
  BY <1>14, NewKept DEF DisableWrite, ShellDies
<1>15. QED BY <1>1, <1>2, <1>3, <1>4, <1>6, <1>7, <1>8, <1>9, <1>10, <1>11, <1>12, <1>13, <1>14

(* Every step keeps the sessions and the fired events. *)
LEMMA NextKept ==
  ASSUME Typed, [Next]_vars
  PROVE  FiredKept /\ \A o \in Shells : SessionKept(o)
<1>1. ASSUME NEW s \in Shells,
         \/ StartShell(s) \/ Prompt(s) \/ EnableRead(s) \/ EnableWrite(s)
         \/ Query(s) \/ Scan(s) \/ PublishFired(s) \/ WriteFired(s) \/ Advance(s)
         \/ CheckAction(s) \/ StartAction(s) \/ \E d \in Databases : LoadDatabase(s, d)
         \/ Exit(s) \/ StopServices(s) \/ DisableRead(s) \/ DisableWrite(s) \/ ShellDies(s)
      PROVE  FiredKept
  BY <1>1 DEF FiredKept, StartShell, Prompt, EnableRead, EnableWrite, Query, Scan, WriteFired,
              Advance, CheckAction, StartAction, LoadDatabase, Exit, StopServices, DisableRead,
              DisableWrite, ShellDies
<1>2. ASSUME NEW d \in Databases,
             \/ Submit(d)
             \/ \E j \in DOMAIN jobs[d] : End(d, j) \/ \E match \in BOOLEAN : Emit(d, j, match)
      PROVE  UNCHANGED <<fired, shell, lives>>
  BY <1>2 DEF Submit, End, Emit
<1>3. UNCHANGED <<fired, shell, lives>> => FiredKept /\ \A o \in Shells : SessionKept(o)
  BY DEF FiredKept, SessionKept
<1>4. QED BY <1>1, <1>2, <1>3, ShellKept DEF Next, vars

(* The record that PublishFired adds. *)
LEMMA Publication ==
  ASSUME Typed, NEW s \in Shells, PublishFired(s)
  PROVE  /\ shell[s].pc = "publish" /\ shell'[s].pc = "write" /\ lives' = lives
         /\ shell'[s].seen = shell[s].seen
         /\ \A o \in Shells \ {s} : shell'[o] = shell[o]
         /\ \A d \in Databases \ {Db(s)} : fired'[d] = fired[d]
         /\ Db(s) \in Databases
         /\ fired'[Db(s)] = Append(fired[Db(s)],
                                   [event |-> shell[s].upto, by |-> s, life |-> lives[s]])
<1>1. shell[s] \in Runner /\ Db(s) \in Databases
  BY CursorTyped DEF Typed
<1>2. shell'[s] = [shell[s] EXCEPT !.pc = "write"] /\ \A o \in Shells \ {s} : shell'[o] = shell[o]
  BY DEF PublishFired, To, Become, Typed
<1>3. shell'[s].pc = "write" /\ shell'[s].seen = shell[s].seen
  BY <1>1, <1>2 DEF Runner
<1>4. QED BY <1>1, <1>2, <1>3 DEF PublishFired, At, Typed

(* What the fired events are after a step: the old ones, and at most one by a session *)
(* that was about to fire it.                                                         *)
LEMMA FiredAfter ==
  ASSUME Typed, FiredKept, NEW d \in Databases, NEW i \in DOMAIN fired'[d]
  PROVE  \/ i \in DOMAIN fired[d] /\ fired'[d][i] = fired[d][i]
         \/ \E s \in Shells :
              /\ PublishFired(s) /\ d = Db(s)
              /\ i = Len(fired[d]) + 1
              /\ fired'[d][i] = [event |-> shell[s].upto, by |-> s, life |-> lives[s]]
<1>1. CASE UNCHANGED fired
  BY <1>1
<1>2. ASSUME NEW s \in Shells, PublishFired(s), d = Db(s)
      PROVE  \/ i \in DOMAIN fired[d] /\ fired'[d][i] = fired[d][i]
             \/ /\ i = Len(fired[d]) + 1
                /\ fired'[d][i] = [event |-> shell[s].upto, by |-> s, life |-> lives[s]]
  <2>1. fired[d] \in Seq(Fired)
    BY DEF Typed
  <2>2. fired'[d] = Append(fired[d], [event |-> shell[s].upto, by |-> s, life |-> lives[s]])
    BY <1>2, Publication
  <2>3. QED BY <2>1, <2>2
<1>3. ASSUME NEW s \in Shells, PublishFired(s), d # Db(s)
      PROVE  i \in DOMAIN fired[d] /\ fired'[d][i] = fired[d][i]
  BY <1>3, Publication
<1>4. QED BY <1>1, <1>2, <1>3 DEF FiredKept

LEMMA FiredTyped ==
  ASSUME Typed, NEW d \in Databases, NEW i \in DOMAIN fired[d]
  PROVE  fired[d][i] \in Fired
BY DEF Typed

LEMMA NextRemembered ==
  ASSUME Typed, Remembered, AboutToFire, [Next]_vars
  PROVE  Remembered'
<1> SUFFICES ASSUME NEW d \in Databases, NEW i \in DOMAIN fired'[d]
             PROVE  LET f == fired'[d][i] IN
                    /\ f.life <= lives'[f.by]
                    /\ f.life = lives'[f.by] /\ shell'[f.by].pc # "off" => f.event \in shell'[f.by].seen
  BY DEF Remembered
<1>0. FiredKept /\ \A o \in Shells : SessionKept(o)
  BY NextKept
<1>1. CASE i \in DOMAIN fired[d] /\ fired'[d][i] = fired[d][i]
  <2> DEFINE f == fired[d][i]
  <2>1. f.by \in Shells /\ f.life \in Nat /\ lives[f.by] \in Nat
    BY <1>1, FiredTyped DEF Fired, Typed
  <2>2. /\ f.life <= lives[f.by]
        /\ f.life = lives[f.by] /\ shell[f.by].pc # "off" => f.event \in shell[f.by].seen
    BY <1>1 DEF Remembered
  <2>3. SessionKept(f.by)
    BY <1>0, <2>1
  <2> HIDE DEF f
  <2>4. /\ f.life <= lives'[f.by]
        /\ f.life = lives'[f.by] /\ shell'[f.by].pc # "off" => f.event \in shell'[f.by].seen
    BY <2>1, <2>2, <2>3 DEF SessionKept
  <2>5. QED BY <1>1, <2>4 DEF f
<1>2. ASSUME NEW s \in Shells, PublishFired(s),
             fired'[d][i] = [event |-> shell[s].upto, by |-> s, life |-> lives[s]]
      PROVE  LET f == fired'[d][i] IN
             /\ f.life <= lives'[f.by]
             /\ f.life = lives'[f.by] /\ shell'[f.by].pc # "off" => f.event \in shell'[f.by].seen
  <2>1. shell[s].upto \in shell[s].seen
    BY <1>2, Publication DEF AboutToFire
  <2>2. lives[s] \in Nat
    BY DEF Typed
  <2>3. QED BY <1>2, <2>1, <2>2, Publication
<1>3. QED BY <1>0, <1>1, <1>2, FiredAfter

LEMMA NextAboutToFire ==
  ASSUME Typed, Remembered, AboutToFire, [Next]_vars
  PROVE  AboutToFire'
<1> SUFFICES ASSUME NEW s \in Shells, shell'[s].pc = "publish"
             PROVE  /\ shell'[s].upto \in shell'[s].seen
                    /\ \A d \in Databases : \A i \in DOMAIN fired'[d] :
                         fired'[d][i].by = s /\ fired'[d][i].life = lives'[s]
                           => fired'[d][i].event # shell'[s].upto
  BY DEF AboutToFire
<1>0. FiredKept /\ SessionKept(s) /\ lives[s] \in Nat
  BY NextKept DEF Typed
<1>1. \/ shell'[s] = shell[s]
      \/ /\ shell[s].pc # "off" /\ lives'[s] = lives[s]
         /\ shell'[s].upto \notin shell[s].seen /\ shell'[s].upto \in shell'[s].seen
  BY <1>0 DEF SessionKept
<1>2. lives'[s] = lives[s]
  BY <1>0 DEF SessionKept
<1>3. shell'[s].upto \in shell'[s].seen
  BY <1>1 DEF AboutToFire
<1>4. ASSUME NEW d \in Databases, NEW i \in DOMAIN fired'[d],
             fired'[d][i].by = s, fired'[d][i].life = lives'[s]
      PROVE  fired'[d][i].event # shell'[s].upto
  <2>1. CASE i \in DOMAIN fired[d] /\ fired'[d][i] = fired[d][i]
    <3>1. CASE shell'[s] = shell[s]
      BY <1>2, <1>4, <2>1, <3>1 DEF AboutToFire
    <3>2. CASE shell[s].pc # "off" /\ shell'[s].upto \notin shell[s].seen
      BY <1>2, <1>4, <2>1, <3>2 DEF Remembered
    <3>3. QED BY <1>1, <3>1, <3>2
  <2>2. ASSUME NEW o \in Shells, PublishFired(o),
               fired'[d][i] = [event |-> shell[o].upto, by |-> o, life |-> lives[o]]
        PROVE  FALSE
    <3>1. o = s
      BY <1>4, <2>2
    <3>2. QED BY <2>2, <3>1, Publication
  <2>3. QED BY <1>0, <2>1, <2>2, FiredAfter
<1>5. QED BY <1>3, <1>4

LEMMA NextOnce ==
  ASSUME Typed, Remembered, AboutToFire, OncePerSession, [Next]_vars
  PROVE  OncePerSession'
<1> SUFFICES ASSUME NEW d \in Databases, NEW i \in DOMAIN fired'[d], NEW j \in DOMAIN fired'[d],
                    fired'[d][i] = fired'[d][j]
             PROVE  i = j
  BY DEF OncePerSession
<1>0. FiredKept
  BY NextKept
<1> DEFINE old(k) == k \in DOMAIN fired[d] /\ fired'[d][k] = fired[d][k]
           new(s, k) == /\ PublishFired(s) /\ k = Len(fired[d]) + 1
                        /\ fired'[d][k] = [event |-> shell[s].upto, by |-> s, life |-> lives[s]]
<1>1. \A k \in DOMAIN fired'[d] : old(k) \/ \E s \in Shells : new(s, k)
  BY <1>0, FiredAfter
<1>2. ASSUME NEW k \in DOMAIN fired'[d], NEW l \in DOMAIN fired'[d], NEW s \in Shells,
             old(k), new(s, l)
      PROVE  fired'[d][k] # fired'[d][l]
  <2>1. ~ (fired[d][k].by = s /\ fired[d][k].life = lives[s] /\ fired[d][k].event = shell[s].upto)
    BY <1>2, Publication DEF AboutToFire
  <2>2. QED BY <1>2, <2>1
<1>3. CASE old(i) /\ old(j)
  BY <1>3 DEF OncePerSession
<1>4. CASE (\E s \in Shells : new(s, i)) /\ (\E s \in Shells : new(s, j))
  BY <1>4
<1>5. QED
  <2> HIDE DEF old, new
  <2>1. QED BY <1>1, <1>2, <1>3, <1>4

(* OncePerSession: no shell fires an event of a database twice in one of its lives, *)
(* whatever it does with its databases, whatever dies and whoever writes cursors.   *)
THEOREM FiredOnce == Spec => []OncePerSession
<1> DEFINE Inv == Typed /\ Remembered /\ AboutToFire /\ OncePerSession
<1>1. Init => Inv
  <2> SUFFICES ASSUME Init PROVE Inv
    OBVIOUS
  <2>1. Typed
    BY InitTyped
  <2>2. \A d \in Databases : fired[d] = <<>>
    BY DEF Init
  <2>3. \A s \in Shells : shell[s].pc = "off"
    <3>1. \A d \in Databases : NewRunner(d).pc = "off"
      BY DEF NewRunner
    <3>2. \A s \in Shells : \E d \in Databases : shell[s] = NewRunner(d)
      BY DEF Init
    <3>3. QED BY <3>1, <3>2
  <2>4. Remembered /\ OncePerSession
    BY <2>2 DEF Remembered, OncePerSession
  <2>5. AboutToFire
    BY <2>3 DEF AboutToFire
  <2>6. QED BY <2>1, <2>4, <2>5
<1>2. Inv /\ [Next]_vars => Inv'
  BY NextTyped, NextRemembered, NextAboutToFire, NextOnce
<1>3. QED BY <1>1, <1>2, PTL DEF Spec

-----------------------------------------------------------------------------
(* The steps, and what none of them takes back. *)

Actions(s) ==
  \/ StartShell(s) \/ Prompt(s) \/ EnableRead(s) \/ EnableWrite(s)
  \/ Query(s) \/ Scan(s) \/ PublishFired(s) \/ WriteFired(s) \/ Advance(s)
  \/ CheckAction(s) \/ StartAction(s)
  \/ Exit(s) \/ StopServices(s) \/ DisableRead(s) \/ DisableWrite(s) \/ ShellDies(s)

Submission(d) ==
  Submit(d) \/ \E j \in DOMAIN jobs[d] : End(d, j) \/ \E match \in BOOLEAN : Emit(d, j, match)

\* The steps of Next: of a job, of a shell, or of a shell that changes its database.
LEMMA Steps ==
  ASSUME [Next]_vars
  PROVE  \/ UNCHANGED vars
         \/ \E d \in Databases : Submission(d)
         \/ \E s \in Shells : Actions(s) \/ \E d \in Databases : LoadDatabase(s, d)
BY DEF Next, Submission, Actions

Still == loads = 0 /\ MaxLoads = 0

(* Without loads a step is a step of a job or of a shell. *)
LEMMA StillSteps ==
  ASSUME Still, [Next]_vars
  PROVE  /\ Still'
         /\ \/ UNCHANGED vars
            \/ \E d \in Databases : Submission(d)
            \/ \E s \in Shells : Actions(s)
<1>1. ASSUME NEW s \in Shells, NEW d \in Databases PROVE ~ LoadDatabase(s, d)
  BY DEF Still, LoadDatabase
<1>2. \/ UNCHANGED vars
      \/ \E d \in Databases : Submission(d)
      \/ \E s \in Shells : Actions(s)
  BY <1>1 DEF Next, Submission, Actions
<1>3. ASSUME NEW d \in Databases, Submission(d) PROVE loads' = loads
  BY <1>3 DEF Submission, Submit, End, Emit
<1>4. ASSUME NEW s \in Shells, Actions(s) PROVE loads' = loads
  BY <1>4 DEF Actions, StartShell, Prompt, EnableRead, EnableWrite, Query, Scan, PublishFired,
     WriteFired, Advance, CheckAction, StartAction, Exit, StopServices, DisableRead, DisableWrite,
     ShellDies
<1>5. UNCHANGED vars => loads' = loads
  BY DEF vars
<1>. QED BY <1>2, <1>3, <1>4, <1>5 DEF Still

\* What any step leaves of a database: nothing is taken back, and no job becomes active.
Grows(d) ==
  /\ Len(log[d]) <= Len(log'[d]) /\ \A k \in DOMAIN log[d] : log'[d][k] = log[d][k]
  /\ \A k \in DOMAIN log[d] : k \in DOMAIN log'[d]
  /\ \A j \in DOMAIN jobs[d] : /\ j \in DOMAIN jobs'[d] /\ jobs'[d][j].by = jobs[d][j].by
                               /\ jobs'[d][j].looked = jobs[d][j].looked
                               /\ jobs'[d][j].active => jobs[d][j].active
  /\ \A i \in DOMAIN fired[d] : i \in DOMAIN fired'[d] /\ fired'[d][i] = fired[d][i]

LEMMA Appending ==
  ASSUME NEW S, NEW q \in Seq(S), NEW x
  PROVE  /\ Len(q) <= Len(Append(q, x)) /\ DOMAIN Append(q, x) = DOMAIN q \union {Len(q) + 1}
         /\ \A k \in DOMAIN q : k \in DOMAIN Append(q, x) /\ Append(q, x)[k] = q[k]
         /\ Append(q, x)[Len(q) + 1] = x
OBVIOUS

LEMMA NothingGrows ==
  ASSUME Typed, NEW d \in Databases, log'[d] = log[d], jobs'[d] = jobs[d], fired'[d] = fired[d]
  PROVE  Grows(d)
<1>1. Len(log[d]) \in Nat
  BY DEF Typed
<1>. QED BY <1>1 DEF Grows

LEMMA NextGrows ==
  ASSUME Typed, [Next]_vars, NEW d \in Databases
  PROVE  Grows(d)
<1>0. log[d] \in Seq(Event) /\ jobs[d] \in Seq(Job) /\ fired[d] \in Seq(Fired)
      /\ Len(log[d]) \in Nat
  BY DEF Typed
<1>1. ASSUME NEW x, log' = [log EXCEPT ![d] = Append(log[d], x)], UNCHANGED <<jobs, fired>>
      PROVE  Grows(d)
  <2>1. log'[d] = Append(log[d], x)
    BY <1>1 DEF Typed
  <2>. QED BY <1>0, <1>1, <2>1, Appending DEF Grows
<1>2. ASSUME NEW x, jobs' = [jobs EXCEPT ![d] = Append(jobs[d], x)], UNCHANGED <<log, fired>>
      PROVE  Grows(d)
  <2>1. jobs'[d] = Append(jobs[d], x)
    BY <1>2 DEF Typed
  <2>. QED BY <1>0, <1>2, <2>1, Appending DEF Grows
<1>3. ASSUME NEW x, fired' = [fired EXCEPT ![d] = Append(fired[d], x)], UNCHANGED <<log, jobs>>
      PROVE  Grows(d)
  <2>1. fired'[d] = Append(fired[d], x)
    BY <1>3 DEF Typed
  <2>. QED BY <1>0, <1>3, <2>1, Appending DEF Grows
<1>4. ASSUME NEW x \in Databases \ {d}, Submission(x) PROVE Grows(d)
  BY <1>4, NothingGrows DEF Submission, Submit, End, Emit, Typed
<1>5. CASE Submission(d)
  <2>1. CASE Submit(d)
    BY <1>2, <2>1 DEF Submit
  <2>2. ASSUME NEW j \in DOMAIN jobs[d], End(d, j) PROVE Grows(d)
    <3>1. jobs'[d] = [jobs[d] EXCEPT ![j] = [jobs[d][j] EXCEPT !.active = FALSE]]
      BY <2>2 DEF End, Typed
    <3>2. DOMAIN jobs'[d] = DOMAIN jobs[d]
      BY <3>1
    <3>3. ASSUME NEW i \in DOMAIN jobs[d]
          PROVE  /\ jobs'[d][i].by = jobs[d][i].by /\ jobs'[d][i].looked = jobs[d][i].looked
                 /\ jobs'[d][i].active => jobs[d][i].active
      <4>1. CASE i # j
        BY <3>1, <4>1
      <4>2. CASE i = j
        <5>1. jobs'[d][i] = [jobs[d][j] EXCEPT !.active = FALSE] /\ jobs[d][j] \in Job
          BY <1>0, <3>1, <4>2
        <5>. QED BY <4>2, <5>1 DEF Job
      <4>. QED BY <4>1, <4>2
    <3>4. log' = log /\ fired' = fired
      BY <2>2 DEF End
    <3>. QED BY <1>0, <3>2, <3>3, <3>4 DEF Grows
  <2>3. ASSUME NEW j \in DOMAIN jobs[d], NEW match \in BOOLEAN, Emit(d, j, match)
        PROVE  Grows(d)
    BY <1>1, <2>3 DEF Emit
  <2>. QED BY <1>5, <2>1, <2>2, <2>3 DEF Submission
<1>6. ASSUME NEW s \in Shells, Actions(s) PROVE Grows(d)
  <2>1. CASE PublishFired(s) /\ Db(s) = d
    BY <1>3, <2>1 DEF PublishFired
  <2>2. CASE PublishFired(s) /\ Db(s) # d
    BY <2>2, NothingGrows DEF PublishFired, Typed
  <2>3. CASE StartAction(s) /\ Db(s) = d
    BY <1>2, <2>3 DEF StartAction
  <2>4. CASE StartAction(s) /\ Db(s) # d
    BY <2>4, NothingGrows DEF StartAction, Typed
  <2>5. CASE StopServices(s) /\ Db(s) # d
    BY <2>5, NothingGrows DEF StopServices, Typed
  <2>6. CASE StopServices(s) /\ Db(s) = d
    <3> DEFINE stopped(j) == IF j \in shell[s].own THEN [jobs[d][j] EXCEPT !.active = FALSE]
                                                   ELSE jobs[d][j]
    <3>1. jobs'[d] = [j \in DOMAIN jobs[d] |-> stopped(j)]
      BY <2>6 DEF StopServices, Typed
    <3>2. \A j \in DOMAIN jobs[d] : /\ stopped(j).by = jobs[d][j].by
                                    /\ stopped(j).looked = jobs[d][j].looked
                                    /\ stopped(j).active => jobs[d][j].active
      <4>1. \A j \in DOMAIN jobs[d] : jobs[d][j] \in Job
        BY <1>0
      <4>. QED BY <4>1 DEF Job
    <3>. HIDE DEF stopped
    <3>3. log' = log /\ fired' = fired
      BY <2>6 DEF StopServices
    <3>. QED BY <1>0, <3>1, <3>2, <3>3 DEF Grows
  <2>7. CASE \/ StartShell(s) \/ Prompt(s) \/ EnableRead(s) \/ EnableWrite(s) \/ Query(s)
             \/ Scan(s) \/ WriteFired(s) \/ Advance(s) \/ CheckAction(s) \/ Exit(s)
             \/ DisableRead(s) \/ DisableWrite(s) \/ ShellDies(s)
    BY <2>7, NothingGrows DEF StartShell, Prompt, EnableRead, EnableWrite, Query, Scan,
       WriteFired, Advance, CheckAction, Exit, DisableRead, DisableWrite, ShellDies
  <2>. QED BY <1>6, <2>1, <2>2, <2>3, <2>4, <2>5, <2>6, <2>7 DEF Actions
<1>7. CASE UNCHANGED vars \/ \E s \in Shells, x \in Databases : LoadDatabase(s, x)
  BY <1>7, NothingGrows DEF vars, LoadDatabase
<1>. QED BY <1>4, <1>5, <1>6, <1>7, Steps

EventsHaveJobs ==
  \A d \in Databases : \A k \in DOMAIN log[d] : log[d][k].job \in DOMAIN jobs[d]

LEMMA NextEventsHaveJobs ==
  ASSUME Typed, EventsHaveJobs, [Next]_vars
  PROVE  EventsHaveJobs'
<1>. SUFFICES ASSUME NEW d \in Databases, NEW k \in DOMAIN log'[d]
              PROVE  log'[d][k].job \in DOMAIN jobs'[d]
  BY DEF EventsHaveJobs
<1>0. Grows(d) /\ log[d] \in Seq(Event)
  BY NextGrows DEF Typed
<1>1. CASE k \in DOMAIN log[d]
  BY <1>0, <1>1 DEF EventsHaveJobs, Grows
<1>2. CASE k \notin DOMAIN log[d]
  <2>1. PICK j \in DOMAIN jobs[d], match \in BOOLEAN : Emit(d, j, match)
    <3>1. log'[d] # log[d]
      BY <1>2
    <3>2. ASSUME NEW x \in Databases, Submission(x), x # d PROVE log'[d] = log[d]
      BY <3>2 DEF Submission, Submit, End, Emit, Typed
    <3>3. Submission(d)
      BY <3>1, <3>2, Steps DEF vars, Actions, LoadDatabase, StartShell, Prompt, EnableRead, EnableWrite,
         Query, Scan, PublishFired, WriteFired, Advance, CheckAction, StartAction, Exit,
         StopServices, DisableRead, DisableWrite, ShellDies
    <3>. QED BY <3>1, <3>3 DEF Submission, Submit, End
  <2>2. log'[d] = Append(log[d], [match |-> match, job |-> j])
    BY <2>1 DEF Emit, Typed
  <2>3. log'[d][k] = [match |-> match, job |-> j]
    BY <1>0, <1>2, <2>2, Appending
  <2>. QED BY <1>0, <2>1, <2>3 DEF Grows
<1>. QED BY <1>1, <1>2

-----------------------------------------------------------------------------
(* The type invariant. *)

Loads(s) == \E d \in Databases : LoadDatabase(s, d)

\* Where the actions of a shell lead it.
LEMMA Moves ==
  ASSUME Typed, NEW s \in Shells, Actions(s) \/ Loads(s)
  PROVE  /\ shell'[s].pc = "start" => CheckAction(s)
         /\ shell'[s].pc = "off" => shell'[s] = NewRunner(shell'[s].db)
         /\ shell'[s].pc = "publish" => shell'[s].upto # 0
<1> DEFINE Goal == /\ shell'[s].pc = "start" => CheckAction(s)
                   /\ shell'[s].pc = "off" => shell'[s] = NewRunner(shell'[s].db)
                   /\ shell'[s].pc = "publish" => shell'[s].upto # 0
<1>0. shell[s] \in Runner /\ shell[s].after \in Nat
  BY CursorTyped DEF Typed
<1>a. ASSUME NEW x, Become(s, x) PROVE shell'[s] = x
  BY <1>a DEF Become, Typed
<1>b. ASSUME NEW where, To(s, where) PROVE shell'[s].pc = where
  BY <1>0, <1>a, <1>b DEF To, Runner
<1>1. CASE StartShell(s) \/ EnableWrite(s) \/ PublishFired(s) \/ Advance(s) \/ Exit(s)
  <2>1. \E where \in {"enable", "query", "write", "prompt", "stop"} : To(s, where)
    BY <1>1 DEF StartShell, EnableWrite, PublishFired, Advance, Exit
  <2>. QED BY <1>b, <2>1
<1>2. CASE Prompt(s)
  <2>1. shell'[s].pc = IF shell[s].enabled THEN "query" ELSE "enable"
    BY <1>b, <1>2 DEF Prompt
  <2>. QED BY <2>1
<1>3. CASE CheckAction(s)
  <2>1. Looks(s).pc = "start"
    BY <1>0 DEF Looks, Runner
  <2>2. shell'[s].pc \in {"prompt", "start"}
    BY <1>3, <1>a, <1>b, <2>1, Checked
  <2>. QED BY <1>3, <2>2
<1>4. ASSUME NEW x, Become(s, x), x.pc \notin {"start", "off", "publish"} PROVE Goal
  BY <1>4, <1>a
<1>5. CASE EnableRead(s)
  <2>1. PICK last, c : /\ Become(s, [shell[s] EXCEPT !.enabled = TRUE, !.after = last, !.cursor = c])
                       /\ shell[s].pc = "enable"
    BY <1>5 DEF EnableRead, At
  <2>2. [shell[s] EXCEPT !.enabled = TRUE, !.after = last, !.cursor = c].pc = "enable"
    BY <1>0, <2>1 DEF Runner
  <2>. QED BY <1>4, <2>1, <2>2
<1>6. CASE Query(s)
  <2>1. PICK a, u : Become(s, [shell[s] EXCEPT !.pc = "scan", !.after = a, !.upto = u])
    BY <1>6 DEF Query
  <2>2. [shell[s] EXCEPT !.pc = "scan", !.after = a, !.upto = u].pc = "scan"
    BY <1>0 DEF Runner
  <2>. QED BY <1>4, <2>1, <2>2
<1>7. CASE Scan(s)
  <2>1. ASSUME NEW k \in shell[s].after + 1 .. shell[s].upto,
               Become(s, [shell[s] EXCEPT !.pc = "publish", !.upto = k, !.seen = @ \union {k}])
        PROVE  Goal
    <3>1. shell'[s] = [shell[s] EXCEPT !.pc = "publish", !.upto = k, !.seen = @ \union {k}]
      BY <1>a, <2>1
    <3>2. shell'[s].pc = "publish" /\ shell'[s].upto = k
      BY <1>0, <3>1 DEF Runner
    <3>3. k # 0
      BY <1>0, CursorTyped
    <3>. QED BY <3>2, <3>3
  <2>2. ASSUME NEW where \in {"advance", "prompt"},
               Become(s, [shell[s] EXCEPT !.pc = where, !.cursor = shell[s].upto])
        PROVE  Goal
    <3>1. [shell[s] EXCEPT !.pc = where, !.cursor = shell[s].upto].pc = where
      BY <1>0 DEF Runner
    <3>. QED BY <1>4, <2>2, <3>1
  <2>3. \/ \E k \in shell[s].after + 1 .. shell[s].upto :
              Become(s, [shell[s] EXCEPT !.pc = "publish", !.upto = k, !.seen = @ \union {k}])
        \/ \E where \in {"advance", "prompt"} :
              Become(s, [shell[s] EXCEPT !.pc = where, !.cursor = shell[s].upto])
    BY <1>7 DEF Scan
  <2>. HIDE DEF Goal
  <2>4. Goal
    BY <2>1, <2>2, <2>3
  <2>. QED BY <2>4 DEF Goal
<1>8. CASE WriteFired(s)
  <2>1. [shell[s] EXCEPT !.pc = "action", !.cursor = shell[s].upto].pc = "action"
    BY <1>0 DEF Runner
  <2>. QED BY <1>4, <1>8, <2>1 DEF WriteFired
<1>9. CASE StartAction(s)
  <2>1. PICK mine : Become(s, [shell[s] EXCEPT !.pc = "prompt", !.looked = 0, !.own = mine])
    BY <1>9 DEF StartAction
  <2>2. [shell[s] EXCEPT !.pc = "prompt", !.looked = 0, !.own = mine].pc = "prompt"
    BY <1>0 DEF Runner
  <2>. QED BY <1>4, <2>1, <2>2
<1>10. CASE StopServices(s) \/ DisableWrite(s) \/ ShellDies(s)
  <2>1. To(s, "disable") \/ Become(s, NewRunner(Db(s)))
    BY <1>10 DEF StopServices, DisableWrite, ShellDies
  <2>2. shell'[s].pc = "disable" \/ shell'[s] = NewRunner(Db(s))
    BY <1>a, <1>b, <2>1
  <2>3. NewRunner(Db(s)).pc = "off" /\ NewRunner(Db(s)).db = Db(s)
    BY DEF NewRunner
  <2>. QED BY <2>2, <2>3
<1>11. CASE DisableRead(s)
  <2>1. [shell[s] EXCEPT !.pc = "disableWrite", !.after = state[Db(s)]].pc = "disableWrite"
    BY <1>0 DEF Runner
  <2>. QED BY <1>4, <1>11, <2>1 DEF DisableRead
<1>12. CASE Loads(s)
  <2>1. PICK d \in Databases : LoadDatabase(s, d)
    BY <1>12 DEF Loads
  <2>2. [shell[s] EXCEPT !.db = d].pc = "prompt"
    BY <1>0, <2>1 DEF Runner, LoadDatabase, At
  <2>. QED BY <1>4, <2>1, <2>2 DEF LoadDatabase
<1>. QED BY <1>1, <1>2, <1>3, <1>5, <1>6, <1>7, <1>8, <1>9, <1>10, <1>11, <1>12 DEF Actions

LEMMA OthersStay ==
  ASSUME Typed, NEW s \in Shells, [Next]_vars, ~ Actions(s), ~ Loads(s)
  PROVE  shell'[s] = shell[s]
<1>1. ASSUME NEW o \in Shells, Actions(o) \/ Loads(o), o # s PROVE shell'[s] = shell[s]
  BY <1>1 DEF Actions, Loads, LoadDatabase, StartShell, Prompt, EnableRead, EnableWrite, Query,
     Scan, PublishFired, WriteFired, Advance, CheckAction, StartAction, Exit, StopServices,
     DisableRead, DisableWrite, ShellDies, To, Become, Typed
<1>2. ASSUME NEW d \in Databases, Submission(d) PROVE shell' = shell
  BY <1>2 DEF Submission, Submit, End, Emit
<1>. QED BY <1>1, <1>2, Steps DEF vars, Loads

LEMMA StartIsChecked ==
  ASSUME Typed, NEW s \in Shells, [Next]_vars, shell'[s] # shell[s], shell'[s].pc = "start"
  PROVE  CheckAction(s)
BY OthersStay, Moves

\* What TypeOK says beyond Typed.
Rest ==
  /\ \A s \in Shells : shell[s].pc = "off" => shell[s] = NewRunner(shell[s].db)
  /\ \A s \in Shells : shell[s].pc = "publish" => shell[s].upto # 0
  /\ \A d \in Databases : \A i \in DOMAIN fired[d] : fired[d][i].event # 0
  /\ \A s \in Shells : lives[s] <= MaxLives
  /\ loads \in 0 .. MaxLoads /\ faults \in 0 .. MaxFaults

LEMMA NextRest ==
  ASSUME Typed, Rest, [Next]_vars
  PROVE  Rest'
<1>1. ASSUME NEW s \in Shells
      PROVE  /\ shell'[s].pc = "off" => shell'[s] = NewRunner(shell'[s].db)
             /\ shell'[s].pc = "publish" => shell'[s].upto # 0
  BY Moves, OthersStay DEF Rest
<1>2. ASSUME NEW d \in Databases, NEW i \in DOMAIN fired'[d] PROVE fired'[d][i].event # 0
  <2>1. FiredKept
    BY NextKept
  <2>2. ASSUME NEW s \in Shells, PublishFired(s),
               fired'[d][i] = [event |-> shell[s].upto, by |-> s, life |-> lives[s]]
        PROVE  fired'[d][i].event # 0
    BY <2>2, Publication DEF Rest
  <2>. QED BY <2>1, <2>2, FiredAfter DEF Rest
<1>3. (\A s \in Shells : lives'[s] <= MaxLives)
  <2>1. ASSUME NEW s \in Shells, StartShell(s), NEW o \in Shells PROVE lives'[o] <= MaxLives
    <3>1. lives[s] \in Nat /\ lives[o] <= MaxLives /\ lives[s] < MaxLives /\ MaxLives \in Nat
      BY <2>1, TriggersAssumption DEF Typed, StartShell, Rest, TriggersAssumption
    <3>2. lives'[o] = IF o = s THEN lives[s] + 1 ELSE lives[o]
      BY <2>1 DEF StartShell, Typed
    <3>. QED BY <3>1, <3>2
  <2>2. CASE \A s \in Shells : ~ StartShell(s)
    <3>1. lives' = lives
      BY <2>2, Steps DEF vars, Submission, Submit, End, Emit, Actions, LoadDatabase, Prompt,
         EnableRead, EnableWrite, Query, Scan, PublishFired, WriteFired, Advance, CheckAction,
         StartAction, Exit, StopServices, DisableRead, DisableWrite, ShellDies
    <3>. QED BY <3>1 DEF Rest
  <2>. QED BY <2>1, <2>2
<1>4. loads' \in 0 .. MaxLoads
  <2>1. loads' = loads \/ (loads < MaxLoads /\ loads' = loads + 1)
    BY Steps DEF vars, Submission, Submit, End, Emit, Actions, LoadDatabase, StartShell, Prompt,
       EnableRead, EnableWrite, Query, Scan, PublishFired, WriteFired, Advance, CheckAction,
       StartAction, Exit, StopServices, DisableRead, DisableWrite, ShellDies
  <2>. QED BY <2>1, TriggersAssumption DEF Rest, TriggersAssumption
<1>5. faults' \in 0 .. MaxFaults
  <2>1. faults' = faults \/ (faults < MaxFaults /\ faults' = faults + 1)
    BY Steps DEF vars, Submission, Submit, End, Emit, Actions, LoadDatabase, StartShell, Prompt,
       EnableRead, EnableWrite, Query, Scan, PublishFired, WriteFired, Advance, CheckAction,
       StartAction, Exit, StopServices, DisableRead, DisableWrite, ShellDies
  <2>. QED BY <2>1, TriggersAssumption DEF Rest, TriggersAssumption
<1>. QED BY <1>1, <1>2, <1>3, <1>4, <1>5 DEF Rest

LEMMA Retyped ==
  ASSUME NEW S, NEW R, NEW q \in Seq(S), \A i \in DOMAIN q : q[i] \in R
  PROVE  q \in Seq(R)
<1>1. DOMAIN q = 1 .. Len(q) /\ Len(q) \in Nat /\ q = [i \in 1 .. Len(q) |-> q[i]]
  OBVIOUS
<1>. QED BY <1>1

LEMMA RestIsTypeOK ==
  ASSUME Typed, EventsHaveJobs, Rest
  PROVE  TypeOK
<1>1. \A d \in Databases : fired[d] \in Seq([event : Nat \ {0}, by : Shells, life : Nat])
  <2>. SUFFICES ASSUME NEW d \in Databases
                PROVE  fired[d] \in Seq([event : Nat \ {0}, by : Shells, life : Nat])
    OBVIOUS
  <2>1. fired[d] \in Seq(Fired)
    BY DEF Typed
  <2>2. ASSUME NEW i \in DOMAIN fired[d]
        PROVE  fired[d][i] \in [event : Nat \ {0}, by : Shells, life : Nat]
    <3>1. fired[d][i] \in Fired /\ fired[d][i].event # 0
      BY <2>1 DEF Rest
    <3>2. PICK f \in Fired : f = fired[d][i]
      BY <3>1
    <3>3. f = [event |-> f.event, by |-> f.by, life |-> f.life]
          /\ f.event \in Nat \ {0} /\ f.by \in Shells /\ f.life \in Nat
      BY <3>1, <3>2 DEF Fired
    <3>. QED BY <3>2, <3>3, Zenon
  <2>. QED BY <2>1, <2>2, Retyped
<1>2. fired \in [Databases -> Seq([event : Nat \ {0}, by : Shells, life : Nat])]
  BY <1>1 DEF Typed
<1>3. lives \in [Shells -> 0 .. MaxLives]
  BY TriggersAssumption DEF Typed, Rest, TriggersAssumption
<1>. QED BY <1>2, <1>3 DEF Typed, EventsHaveJobs, Rest, TypeOK, Event, Job

\* TypeOK, whatever the shells do with their databases.
THEOREM Types == Spec => []TypeOK
<1> DEFINE Inv == Typed /\ EventsHaveJobs /\ Rest
<1>1. Init => Inv
  <2> SUFFICES ASSUME Init PROVE EventsHaveJobs /\ Rest
    BY InitTyped
  <2>1. \A s \in Shells : shell[s] = NewRunner(shell[s].db) /\ shell[s].pc = "off"
    <3>1. ASSUME NEW s \in Shells
          PROVE  shell[s] = NewRunner(shell[s].db) /\ shell[s].pc = "off"
      <4>1. PICK d \in Databases : shell[s] = NewRunner(d)
        BY DEF Init
      <4>. QED BY <4>1 DEF NewRunner
    <3>. QED BY <3>1
  <2>2. EventsHaveJobs
    BY DEF Init, EventsHaveJobs
  <2>3. Rest
    BY <2>1, TriggersAssumption DEF Init, Rest, TriggersAssumption
  <2>. QED BY <2>2, <2>3
<1>2. Inv /\ [Next]_vars => Inv'
  BY NextTyped, NextEventsHaveJobs, NextRest
<1>3. Inv => TypeOK
  BY RestIsTypeOK
<1>. QED BY <1>1, <1>2, <1>3, PTL DEF Spec

-----------------------------------------------------------------------------
(* The cursor, as long as no shell changes its database. *)

\* An event that the rule is through with, and events up to n that it is through with.
Fires(d, k)  == \E i \in DOMAIN fired[d] : fired[d][i].event = k
Done(d, k)   == Fires(d, k) \/ (k \in DOMAIN log[d] /\ ~ Matches(d, k))
Covers(d, n) == \A k \in 1 .. n : Done(d, k)

LEMMA DoneStays ==
  ASSUME EventsHaveJobs, NEW d \in Databases, Grows(d)
  PROVE  /\ \A k : Fires(d, k) => Fires(d, k)'
         /\ \A k : Done(d, k) => Done(d, k)'
         /\ \A n : Covers(d, n) => Covers(d, n)'
<1>1. ASSUME NEW k, Fires(d, k) PROVE Fires(d, k)'
  BY <1>1 DEF Fires, Grows
<1>2. ASSUME NEW k, Done(d, k) PROVE Done(d, k)'
  <2>1. CASE k \in DOMAIN log[d] /\ ~ Matches(d, k)
    <3>1. /\ k \in DOMAIN log'[d] /\ log'[d][k] = log[d][k] /\ log[d][k].job \in DOMAIN jobs[d]
      BY <2>1 DEF Grows, EventsHaveJobs
    <3>2. /\ jobs'[d][log[d][k].job].by = jobs[d][log[d][k].job].by
          /\ jobs'[d][log[d][k].job].active => jobs[d][log[d][k].job].active
      BY <3>1 DEF Grows
    <3>3. ~ Matches(d, k)'
      BY <2>1, <3>1, <3>2 DEF Matches, Active, IsService
    <3>. QED BY <3>1, <3>3 DEF Done
  <2>. QED BY <1>1, <1>2, <2>1 DEF Done
<1>3. ASSUME NEW n, Covers(d, n) PROVE Covers(d, n)'
  BY <1>2, <1>3 DEF Covers
<1>. QED BY <1>1, <1>2, <1>3

\* What a shell that remembers r knows of its database.
Leaving == {"stop", "disable", "disableWrite"}

Sound(r) ==
  /\ r.cursor # NoCursor => Covers(r.db, r.cursor)
  /\ Covers(r.db, r.after)
  /\ r.pc \in {"write", "advance"} => Covers(r.db, r.upto)
  /\ r.pc = "publish" => Covers(r.db, r.upto - 1)
  /\ r.pc = "scan" => r.upto <= r.after \/ r.upto <= Len(log[r.db])
  /\ r.pc \notin Leaving =>
       \A k \in r.seen : Fires(r.db, k) \/ (r.pc = "publish" /\ k = r.upto)

LEMMA SoundStays ==
  ASSUME Typed, Typed', EventsHaveJobs, NEW r \in Runner, Sound(r),
         Grows(r.db)
  PROVE  Sound(r)'
<1>0. /\ r.db \in Databases /\ r.upto \in Nat
      /\ Len(log[r.db]) \in Nat /\ Len(log'[r.db]) \in Nat
  <2>1. r.db \in Databases /\ r.upto \in Nat
    BY DEF Runner
  <2>2. log \in [Databases -> Seq(Event)] /\ log' \in [Databases -> Seq(Event)]
    BY DEF Typed
  <2>3. log[r.db] \in Seq(Event) /\ log'[r.db] \in Seq(Event)
    BY <2>1, <2>2
  <2>. QED BY <2>1, <2>3
<1>1. /\ \A k : Fires(r.db, k) => Fires(r.db, k)'
      /\ \A n : Covers(r.db, n) => Covers(r.db, n)'
  BY <1>0, DoneStays
<1>2. /\ r.cursor # NoCursor => Covers(r.db, r.cursor)'
      /\ Covers(r.db, r.after)'
      /\ r.pc \in {"write", "advance"} => Covers(r.db, r.upto)'
      /\ r.pc = "publish" => Covers(r.db, r.upto - 1)'
  BY <1>1 DEF Sound
<1>3. r.pc = "scan" => r.upto <= r.after \/ r.upto <= Len(log'[r.db])
  <2>1. CASE r.upto <= Len(log[r.db])
    <3>1. Len(log[r.db]) <= Len(log'[r.db])
      BY DEF Grows
    <3>. QED BY <1>0, <2>1, <3>1
  <2>. QED BY <2>1 DEF Sound
<1>4. r.pc \notin Leaving =>
        \A k \in r.seen : Fires(r.db, k)' \/ (r.pc = "publish" /\ k = r.upto)
  BY <1>1 DEF Sound
<1>. QED BY <1>2, <1>3, <1>4 DEF Sound

LEMMA NewIsSound ==
  ASSUME NEW d \in Databases
  PROVE  Sound(NewRunner(d))
BY DEF Sound, NewRunner, Covers, NoCursor, Leaving

\* Only the place changes, and to one that asks nothing new.
LEMMA ToIsSound ==
  ASSUME NEW r, NEW q, Sound(r), q.db = r.db, q.cursor = r.cursor, q.after = r.after,
         q.upto = r.upto, q.seen = r.seen,
         q.pc \notin {"write", "advance", "publish", "scan"},
         q.pc \in Leaving \/ r.pc \notin Leaving \union {"publish"}
  PROVE  Sound(q)
<1>1. q.pc \notin Leaving => \A k \in q.seen : Fires(q.db, k)
  BY DEF Sound
<1>. QED BY <1>1 DEF Sound

Session == Typed /\ EventsHaveJobs /\ (\A d \in Databases : Covers(d, state[d]))
           /\ \A s \in Shells : Sound(shell[s])

LEMMA CursorCovers ==
  ASSUME Session, NEW s \in Shells
  PROVE  Covers(Db(s), Cursor(s))
<1>1. Db(s) \in Databases /\ shell[s].db = Db(s)
  BY CursorTyped DEF Session, Db
<1>. QED BY <1>1 DEF Session, Sound, Cursor

\* Everything that the walk passes over is done with, and the first hit is what it stops at.
LEMMA ScanSound ==
  ASSUME Session, NEW s \in Shells, NEW q \in Runner, Scan(s), q = shell'[s]
  PROVE  Sound(q)
<1> DEFINE r == shell[s]
           hits == {k \in r.after + 1 .. r.upto : k \notin r.seen /\ Matches(r.db, k)}
<1>0. r \in Runner /\ Sound(r) /\ r.db \in Databases /\ r.pc = "scan"
      /\ r.after \in Nat /\ r.upto \in Nat /\ Len(log[r.db]) \in Nat
  BY CursorTyped DEF Session, Typed, Db, Scan, At
<1>a. ASSUME NEW x, Become(s, x) PROVE q = x
  BY <1>a DEF Become, Session, Typed
<1>1. \A k \in r.seen : Fires(r.db, k)
  BY <1>0 DEF Sound, Leaving
\* The walk to n has met no hit.
<1>2. ASSUME NEW n \in Nat, n <= r.upto, \A k \in 1 .. n : k \notin hits
      PROVE  Covers(r.db, n)
  <2>. SUFFICES ASSUME NEW k \in 1 .. n PROVE Done(r.db, k)
    BY DEF Covers
  <2>1. CASE k <= r.after
    BY <1>0, <2>1 DEF Sound, Covers
  <2>2. CASE k > r.after
    <3>1. k \in r.after + 1 .. r.upto /\ k \notin hits
      BY <1>0, <1>2, <2>2
    <3>2. k \in DOMAIN log[r.db]
      <4>1. r.upto <= Len(log[r.db])
        BY <1>0, <1>2, <2>2 DEF Sound
      <4>2. log[r.db] \in Seq(Event)
        BY <1>0 DEF Session, Typed
      <4>. QED BY <1>0, <1>2, <4>1, <4>2
    <3>3. k \in r.seen \/ ~ Matches(r.db, k)
      BY <3>1
    <3>. QED BY <1>1, <3>2, <3>3 DEF Done
  <2>. QED BY <1>0, <2>1, <2>2
<1>3. ASSUME NEW k \in hits, \A other \in hits : k <= other,
             Become(s, [r EXCEPT !.pc = "publish", !.upto = k, !.seen = @ \union {k}])
      PROVE  Sound(q)
  <2>1. k \in Nat /\ k - 1 \in Nat /\ k - 1 <= r.upto
    BY <1>0
  <2>2. \A x \in 1 .. k - 1 : x \notin hits
    BY <1>0, <1>3, <2>1
  <2>3. Covers(r.db, k - 1)
    BY <1>2, <2>1, <2>2
  <2>4. q = [r EXCEPT !.pc = "publish", !.upto = k, !.seen = r.seen \union {k}]
    BY <1>3, <1>a
  <2>. HIDE DEF r, hits
  <2>5. /\ q.pc = "publish" /\ q.after = r.after /\ q.db = r.db
        /\ q.seen = r.seen \union {k} /\ q.cursor = r.cursor /\ q.upto = k
    BY <1>0, <2>4 DEF Runner
  <2>6. \A x \in q.seen : Fires(q.db, x) \/ x = q.upto
    BY <1>1, <2>5
  <2>. QED BY <1>0, <2>3, <2>5, <2>6 DEF Sound
<1>4. ASSUME hits = {}, NEW where \in {"advance", "prompt"},
             Become(s, [r EXCEPT !.pc = where, !.cursor = r.upto])
      PROVE  Sound(q)
  <2>1. Covers(r.db, r.upto)
    BY <1>0, <1>2, <1>4
  <2>2. q = [r EXCEPT !.pc = where, !.cursor = r.upto]
    BY <1>4, <1>a
  <2>. HIDE DEF r, hits
  <2>3. /\ q.pc = where /\ q.after = r.after /\ q.db = r.db
        /\ q.seen = r.seen /\ q.cursor = r.upto /\ q.upto = r.upto
    BY <1>0, <2>2 DEF Runner
  <2>4. \A x \in q.seen : Fires(q.db, x)
    BY <1>1, <2>3
  <2>. QED BY <1>0, <1>4, <2>1, <2>3, <2>4 DEF Sound
<1>5. \/ \E k \in hits : /\ \A other \in hits : k <= other
                         /\ Become(s, [r EXCEPT !.pc = "publish", !.upto = k, !.seen = @ \union {k}])
      \/ /\ hits = {}
         /\ \E where \in {"advance", "prompt"} : Become(s, [r EXCEPT !.pc = where, !.cursor = r.upto])
  BY DEF Scan
<1>. QED BY <1>3, <1>4, <1>5

LEMMA ShellSound ==
  ASSUME Session, NEW s \in Shells, NEW q \in Runner, q = shell'[s],
         Actions(s), ~ PublishFired(s), ~ StartAction(s)
  PROVE  Sound(q)
<1> DEFINE r == shell[s]
<1>0. r \in Runner /\ Sound(r) /\ r.db = Db(s) /\ Db(s) \in Databases
  BY CursorTyped DEF Session, Typed, Db
<1>a. ASSUME NEW x, Become(s, x) PROVE q = x
  BY <1>a DEF Become, Session, Typed
<1>b. ASSUME NEW where \in PC, q = [r EXCEPT !.pc = where]
      PROVE  /\ q.pc = where /\ q.db = r.db /\ q.cursor = r.cursor /\ q.after = r.after
             /\ q.upto = r.upto /\ q.seen = r.seen
  BY <1>0, <1>b DEF Runner
<1>8. CASE CheckAction(s)
  <2>1. r.pc = "action"
    BY <1>8 DEF CheckAction, At
  <2>2. q = [r EXCEPT !.pc = "prompt"] \/ q = Looks(s)
    BY <1>8, <1>a, Checked DEF To
  <2>3. /\ q.pc \in {"prompt", "start"} /\ q.db = r.db /\ q.cursor = r.cursor
        /\ q.after = r.after /\ q.upto = r.upto /\ q.seen = r.seen
    BY <1>0, <2>2 DEF Runner, Looks
  <2>. HIDE DEF r
  <2>. QED BY <1>0, <2>1, <2>3, ToIsSound DEF Leaving
<1>1. CASE StartShell(s) \/ EnableWrite(s) \/ Advance(s) \/ Exit(s) \/ Prompt(s)
  <2>1. PICK where \in {"enable", "query", "prompt", "stop"} :
          /\ To(s, where)
          /\ where = "stop" \/ r.pc \in {"off", "prompt", "enable", "advance"}
    <3>1. CASE Prompt(s)
      <4>1. CASE r.enabled
        BY <3>1, <4>1 DEF Prompt, At
      <4>2. CASE ~ r.enabled
        BY <3>1, <4>2 DEF Prompt, At
      <4>. QED BY <4>1, <4>2
    <3>3. CASE StartShell(s) \/ EnableWrite(s) \/ Advance(s) \/ Exit(s)
      BY <3>3 DEF StartShell, EnableWrite, Advance, Exit, At
    <3>. QED BY <1>1, <3>1, <3>3
  <2>2. q = [r EXCEPT !.pc = where]
    BY <1>a, <2>1 DEF To
  <2>3. where \in PC /\ where \notin {"write", "advance", "publish", "scan"}
        /\ (where \in Leaving \/ r.pc \notin Leaving \union {"publish"})
    BY <2>1 DEF PC, Leaving
  <2>. HIDE DEF r
  <2>. QED BY <1>0, <1>b, <2>2, <2>3, ToIsSound
<1>2. CASE StopServices(s) \/ DisableWrite(s) \/ ShellDies(s)
  <2>1. To(s, "disable") \/ Become(s, NewRunner(Db(s)))
    BY <1>2 DEF StopServices, DisableWrite, ShellDies
  <2>2. CASE To(s, "disable")
    <3>1. q = [r EXCEPT !.pc = "disable"]
      BY <1>a, <2>2 DEF To
    <3>2. "disable" \in PC /\ "disable" \in Leaving
      BY DEF PC, Leaving
    <3>. HIDE DEF r
    <3>. QED BY <1>0, <1>b, <3>1, <3>2, ToIsSound
  <2>. QED BY <1>a, <1>0, <2>1, <2>2, NewIsSound
<1>3. CASE DisableRead(s)
  <2>1. q = [r EXCEPT !.pc = "disableWrite", !.after = state[Db(s)]]
    BY <1>a, <1>3 DEF DisableRead
  <2>2. /\ q.pc = "disableWrite" /\ q.after = state[Db(s)] /\ q.db = r.db
        /\ q.cursor = r.cursor
    BY <1>0, <2>1 DEF Runner
  <2>3. Covers(q.db, q.after)
    BY <1>0, <2>2 DEF Session
  <2>. HIDE DEF r
  <2>. QED BY <1>0, <2>2, <2>3 DEF Sound, Leaving
<1>4. CASE EnableRead(s)
  <2> DEFINE last == state[Db(s)]
             c == IF last # 0 /\ r.cursor = NoCursor THEN last ELSE r.cursor
  <2>1. q = [r EXCEPT !.enabled = TRUE, !.after = last, !.cursor = c] /\ r.pc = "enable"
    BY <1>a, <1>4 DEF EnableRead, At
  <2>2. Covers(Db(s), last)
    BY <1>0 DEF Session
  <2>3. c = last \/ c = r.cursor
    OBVIOUS
  <2>. HIDE DEF c, last, r
  <2>4. /\ q.pc = "enable" /\ q.after = last /\ q.cursor = c /\ q.db = r.db
        /\ q.seen = r.seen
    BY <1>0, <2>1 DEF Runner
  <2>5. \A k \in q.seen : Fires(q.db, k)
    BY <1>0, <2>1, <2>4 DEF Sound, Leaving
  <2>. QED BY <1>0, <2>2, <2>3, <2>4, <2>5 DEF Sound
<1>5. CASE Query(s)
  <2> DEFINE last == Len(log[Db(s)])
             a == Cursor(s)
             u == IF last <= a THEN a ELSE IF last <= a + Limit THEN last ELSE a + Limit
  <2>1. q = [r EXCEPT !.pc = "scan", !.after = a, !.upto = u] /\ r.pc = "query"
    BY <1>a, <1>5 DEF Query, At
  <2>2. Covers(Db(s), a)
    BY CursorCovers
  <2>3. u <= a \/ u <= last
    BY CursorTyped, TriggersAssumption DEF TriggersAssumption, Session
  <2>4. last = Len(log[Db(s)])
    OBVIOUS
  <2>. HIDE DEF a, last, u, r
  <2>5. /\ q.pc = "scan" /\ q.after = a /\ q.upto = u /\ q.db = r.db
        /\ q.seen = r.seen /\ q.cursor = r.cursor
    BY <1>0, <2>1 DEF Runner
  <2>6. \A k \in q.seen : Fires(q.db, k)
    BY <1>0, <2>1, <2>5 DEF Sound, Leaving
  <2>7. q.upto <= q.after \/ q.upto <= Len(log[q.db])
    BY <1>0, <2>3, <2>4, <2>5
  <2>. QED BY <1>0, <2>2, <2>5, <2>6, <2>7 DEF Sound
<1>6. CASE WriteFired(s)
  <2>1. q = [r EXCEPT !.pc = "action", !.cursor = r.upto] /\ r.pc = "write"
    BY <1>a, <1>6 DEF WriteFired, At
  <2>. HIDE DEF r
  <2>2. /\ q.pc = "action" /\ q.after = r.after /\ q.db = r.db
        /\ q.seen = r.seen /\ q.cursor = r.upto
    BY <1>0, <2>1 DEF Runner
  <2>3. \A k \in q.seen : Fires(q.db, k)
    BY <1>0, <2>1, <2>2 DEF Sound, Leaving
  <2>. QED BY <1>0, <2>1, <2>2, <2>3 DEF Sound
<1>7. CASE Scan(s)
  BY <1>7, <1>a, ScanSound
<1>. QED BY <1>1, <1>2, <1>3, <1>4, <1>5, <1>6, <1>7, <1>8 DEF Actions

\* The two actions of a shell that write to the database what they remember.
LEMMA PublishSound ==
  ASSUME Session, Session => Typed', NEW s \in Shells, NEW q \in Runner, q = shell'[s],
         PublishFired(s), Grows(Db(s))
  PROVE  Sound(q)'
<1>a. PICK r \in Runner, d \in Databases : r = shell[s] /\ d = Db(s)
  BY CursorTyped DEF Session, Typed
<1>0. /\ r \in Runner /\ Sound(r) /\ r.db = d /\ d \in Databases /\ r.pc = "publish"
      /\ r.upto \in Nat /\ EventsHaveJobs /\ fired[d] \in Seq(Fired)
  BY <1>a, CursorTyped, Publication DEF Session, Typed, Db
<1>1. q = [r EXCEPT !.pc = "write"]
  BY <1>a DEF PublishFired, To, Become, Session, Typed
<1>2. /\ q.pc = "write" /\ q.db = d /\ q.cursor = r.cursor /\ q.after = r.after
      /\ q.upto = r.upto /\ q.seen = r.seen
  BY <1>0, <1>1 DEF Runner
<1>3. fired'[d] = Append(fired[d], [event |-> r.upto, by |-> s, life |-> lives[s]])
  BY <1>a, Publication DEF Session
<1>4. Fires(d, r.upto)'
  <2>1. Len(fired[d]) + 1 \in DOMAIN fired'[d] /\ fired'[d][Len(fired[d]) + 1].event = r.upto
    BY <1>0, <1>3, Appending
  <2>. QED BY <2>1 DEF Fires
<1>5. Grows(d)
  BY <1>a
<1>6. /\ \A k : Fires(d, k) => Fires(d, k)'
      /\ \A n : Covers(d, n) => Covers(d, n)'
  BY <1>0, <1>5, DoneStays
<1>7. Covers(d, r.upto)'
  <2>1. Covers(d, r.upto - 1)'
    BY <1>0, <1>6 DEF Sound
  <2>2. ASSUME NEW k \in 1 .. r.upto PROVE Done(d, k)'
    <3>1. CASE k = r.upto
      BY <1>4, <3>1 DEF Done
    <3>2. CASE k # r.upto
      <4>1. k \in 1 .. r.upto - 1
        BY <1>0, <3>2
      <4>. QED BY <2>1, <4>1 DEF Covers
    <3>. QED BY <3>1, <3>2
  <2>. QED BY <2>2 DEF Covers
<1>8. \A k \in r.seen : Fires(d, k)'
  BY <1>0, <1>4, <1>6 DEF Sound, Leaving
<1>10. /\ r.cursor # NoCursor => Covers(d, r.cursor)'
       /\ Covers(d, r.after)'
  BY <1>0, <1>6 DEF Sound
<1>. QED BY <1>2, <1>7, <1>8, <1>10 DEF Sound

LEMMA StartSound ==
  ASSUME Session, NEW s \in Shells, NEW q \in Runner, q = shell'[s],
         StartAction(s), Grows(Db(s))
  PROVE  Sound(q)'
<1>a. PICK r \in Runner, d \in Databases : r = shell[s] /\ d = Db(s)
  BY CursorTyped DEF Session, Typed
<1>0. /\ r \in Runner /\ Sound(r) /\ r.db = d /\ d \in Databases /\ r.pc = "start"
      /\ EventsHaveJobs
  BY <1>a, CursorTyped DEF Session, Typed, Db, StartAction, At
<1>1. PICK mine : q = [r EXCEPT !.pc = "prompt", !.looked = 0, !.own = mine]
  BY <1>a DEF StartAction, Become, Session, Typed
<1>5. Grows(d)
  BY <1>a
<1>6. /\ q.pc = "prompt" /\ q.db = d /\ q.cursor = r.cursor /\ q.after = r.after
      /\ q.seen = r.seen
  BY <1>0, <1>1 DEF Runner
<1>7. /\ \A k : Fires(d, k) => Fires(d, k)'
      /\ \A n : Covers(d, n) => Covers(d, n)'
  BY <1>0, <1>5, DoneStays
<1>8. \A k \in r.seen : Fires(d, k)'
  BY <1>0, <1>7 DEF Sound, Leaving
<1>10. /\ r.cursor # NoCursor => Covers(d, r.cursor)'
       /\ Covers(d, r.after)'
  BY <1>0, <1>7 DEF Sound
<1>. QED BY <1>6, <1>8, <1>10 DEF Sound

LEMMA NextSound ==
  ASSUME Session, Still, [Next]_vars, NEW s \in Shells
  PROVE  Sound(shell[s])'
<1>0. Typed /\ Typed' /\ EventsHaveJobs
  BY NextTyped DEF Session
<1>1. PICK q \in Runner : q = shell'[s]
  BY <1>0 DEF Typed
<1>2. Grows(q.db) /\ Grows(Db(s))
  <2>1. q.db \in Databases /\ Db(s) \in Databases
    BY <1>0, CursorTyped DEF Runner
  <2>. QED BY <1>0, <2>1, NextGrows
<1>3. Sound(q)'
  <2>1. CASE Actions(s) /\ ~ PublishFired(s) /\ ~ StartAction(s)
    <3>1. Sound(q)
      BY <1>1, <2>1, ShellSound
    <3>. QED BY <1>0, <1>2, <3>1, SoundStays
  <2>2. CASE PublishFired(s)
    BY <1>0, <1>1, <1>2, <2>2, PublishSound
  <2>3. CASE StartAction(s)
    BY <1>1, <1>2, <2>3, StartSound
  <2>4. CASE ~ Actions(s)
    <3>1. ASSUME NEW o \in Shells, Actions(o), o # s PROVE shell'[s] = shell[s]
      BY <1>0, <3>1 DEF Actions, StartShell, Prompt, EnableRead, EnableWrite, Query, Scan,
         PublishFired, WriteFired, Advance, CheckAction, StartAction, Exit, StopServices,
         DisableRead, DisableWrite, ShellDies, To, Become, Typed
    <3>2. ASSUME NEW d \in Databases, Submission(d) PROVE shell' = shell
      BY <3>2 DEF Submission, Submit, End, Emit
    <3>3. q = shell[s]
      BY <1>1, <2>4, <3>1, <3>2, StillSteps DEF vars
    <3>. QED BY <1>0, <1>2, <3>3, SoundStays DEF Session
  <2>. QED BY <2>1, <2>2, <2>3, <2>4
<1>4. \A x : x = shell'[s] => (Sound(x)' => Sound(shell[s])')
  BY DEF Sound
<1>. QED BY <1>1, <1>3, <1>4

LEMMA NextCovered ==
  ASSUME Session, Still, [Next]_vars, NEW d \in Databases
  PROVE  Covers(d, state[d])'
<1>0. Typed /\ EventsHaveJobs /\ Grows(d)
  BY NextGrows DEF Session
<1>1. \A n : Covers(d, n) => Covers(d, n)'
  BY <1>0, DoneStays
<1>2. PICK n : n = state'[d]
  OBVIOUS
<1>3. Covers(d, n)
  <2>1. CASE state'[d] = state[d]
    BY <1>2, <2>1 DEF Session
  <2>2. ASSUME NEW s \in Shells, Db(s) = d, EnableWrite(s) \/ DisableWrite(s) PROVE Covers(d, n)
    <3>1. n = shell[s].after
      BY <1>0, <1>2, <2>2 DEF EnableWrite, DisableWrite, UpdateTriggerState, Typed
    <3>. QED BY <2>2, <3>1 DEF Session, Sound, Db
  <2>3. ASSUME NEW s \in Shells, Db(s) = d, WriteFired(s) \/ Advance(s) PROVE Covers(d, n)
    <3>1. n = shell[s].upto /\ shell[s].pc \in {"write", "advance"}
      BY <1>0, <1>2, <2>3 DEF WriteFired, Advance, At, UpdateTriggerState, Typed
    <3>. QED BY <2>3, <3>1 DEF Session, Sound, Db
  <2>4. CASE state'[d] # state[d]
    <3>1. ASSUME NEW x \in Databases, Submission(x) PROVE state' = state
      BY <3>1 DEF Submission, Submit, End, Emit
    <3>2. PICK s \in Shells : Actions(s)
      BY <2>4, <3>1, StillSteps DEF vars
    <3>3. EnableWrite(s) \/ DisableWrite(s) \/ WriteFired(s) \/ Advance(s)
      BY <2>4, <3>2 DEF Actions, StartShell, Prompt, EnableRead, Query, Scan, PublishFired,
         CheckAction, StartAction, Exit, StopServices, DisableRead, ShellDies
    <3>4. Db(s) = d
      BY <1>0, <2>4, <3>3 DEF EnableWrite, DisableWrite, WriteFired, Advance,
         UpdateTriggerState, Typed
    <3>. QED BY <2>2, <2>3, <3>3, <3>4
  <2>. QED BY <2>1, <2>4
<1>4. \A x : x = state'[d] => (Covers(d, x)' => Covers(d, state[d])')
  BY DEF Covers
<1>. QED BY <1>1, <1>2, <1>3, <1>4

LEMMA StillAlways ==
  ASSUME MaxLoads = 0
  PROVE  Spec => [](Session /\ Still)
<1>1. Init => Session /\ Still
  <2> SUFFICES ASSUME Init PROVE Session /\ Still
    OBVIOUS
  <2>1. Typed /\ Still
    BY InitTyped DEF Init, Still
  <2>2. ASSUME NEW s \in Shells PROVE Sound(shell[s])
    <3>1. PICK d \in Databases : shell[s] = NewRunner(d)
      BY DEF Init
    <3>. QED BY <3>1, NewIsSound
  <2>3. EventsHaveJobs /\ \A d \in Databases : Covers(d, state[d])
    BY DEF Init, EventsHaveJobs, Covers
  <2>. QED BY <2>1, <2>2, <2>3 DEF Session
<1>2. Session /\ Still /\ [Next]_vars => (Session /\ Still)'
  <2> SUFFICES ASSUME Session, Still, [Next]_vars PROVE (Session /\ Still)'
    OBVIOUS
  <2>1. Typed' /\ EventsHaveJobs' /\ Still'
    BY NextTyped, NextEventsHaveJobs, StillSteps DEF Session
  <2>2. (\A d \in Databases : Covers(d, state[d]))' /\ (\A s \in Shells : Sound(shell[s]))'
    BY NextSound, NextCovered
  <2>. QED BY <2>1, <2>2 DEF Session
<1>. QED BY <1>1, <1>2, PTL DEF Spec

\* CursorCoversHistory: for any number of shells at one database, whatever they leave undone
\* or die of, the durable cursor passes over no event that the rule should have fired on, as
\* long as none of them changes its database (update_trigger_state, framework_trigger_fired).
THEOREM CursorCoversAll ==
  ASSUME MaxLoads = 0
  PROVE  Spec => []CursorCoversHistory
<1>1. Session => CursorCoversHistory
  BY DEF Session, CursorCoversHistory, Covers, Done, Fires
<1>. QED BY <1>1, StillAlways, PTL

-----------------------------------------------------------------------------
(* What a leaving shell stops, whatever its databases. *)

\* The numbers that a shell keeps are those of services which it has started somewhere.
Owned ==
  \A s \in Shells : \A j \in shell[s].own :
    \E d \in Databases : j \in DOMAIN jobs[d] /\ jobs[d][j].by = s

\* Only the start of a service adds a number.
LEMMA OwnGrows ==
  ASSUME Typed, NEW s \in Shells, [Next]_vars, NEW j \in shell'[s].own, j \notin shell[s].own
  PROVE  /\ StartAction(s) /\ Db(s) \in Databases
         /\ j \in DOMAIN jobs'[Db(s)] /\ jobs'[Db(s)][j].by = s
<1>0. shell[s] \in Runner /\ Db(s) \in Databases
  BY CursorTyped DEF Typed
<1>a. ASSUME NEW x, Become(s, x) PROVE shell'[s] = x
  BY <1>a DEF Become, Typed
<1>1. ASSUME NEW x, Become(s, x), x.own \subseteq shell[s].own PROVE FALSE
  BY <1>1, <1>a
<1>2. ASSUME NEW where, To(s, where) PROVE FALSE
  <2>1. [shell[s] EXCEPT !.pc = where].own = shell[s].own
    BY <1>0 DEF Runner
  <2>. QED BY <1>1, <1>2, <2>1 DEF To
<1>3. NewRunner(Db(s)).own = {}
  BY DEF NewRunner
<1>4. CASE \/ StartShell(s) \/ EnableWrite(s) \/ PublishFired(s) \/ Advance(s) \/ Exit(s)
           \/ StopServices(s) \/ DisableWrite(s) \/ ShellDies(s)
  <2>1. (\E where : To(s, where)) \/ Become(s, NewRunner(Db(s)))
    BY <1>4 DEF StartShell, EnableWrite, PublishFired, Advance, Exit, StopServices, DisableWrite,
       ShellDies
  <2>. QED BY <1>1, <1>2, <1>3, <2>1
<1>5. CASE Prompt(s)
  BY <1>2, <1>5 DEF Prompt
<1>6. CASE CheckAction(s)
  <2>1. Looks(s).own = shell[s].own
    BY <1>0 DEF Runner, Looks
  <2>. QED BY <1>1, <1>2, <1>6, <2>1, Checked
<1>7. CASE EnableRead(s)
  <2>1. PICK last, c : Become(s, [shell[s] EXCEPT !.enabled = TRUE, !.after = last, !.cursor = c])
    BY <1>7 DEF EnableRead
  <2>2. [shell[s] EXCEPT !.enabled = TRUE, !.after = last, !.cursor = c].own = shell[s].own
    BY <1>0 DEF Runner
  <2>. QED BY <1>1, <2>1, <2>2
<1>8. CASE Query(s)
  <2>1. PICK a, u : Become(s, [shell[s] EXCEPT !.pc = "scan", !.after = a, !.upto = u])
    BY <1>8 DEF Query
  <2>2. [shell[s] EXCEPT !.pc = "scan", !.after = a, !.upto = u].own = shell[s].own
    BY <1>0 DEF Runner
  <2>. QED BY <1>1, <2>1, <2>2
<1>9. CASE Scan(s)
  <2>1. ASSUME NEW k, NEW x,
               Become(s, [shell[s] EXCEPT !.pc = "publish", !.upto = k, !.seen = x])
        PROVE  FALSE
    <3>1. [shell[s] EXCEPT !.pc = "publish", !.upto = k, !.seen = x].own = shell[s].own
      BY <1>0 DEF Runner
    <3>. QED BY <1>1, <2>1, <3>1
  <2>2. ASSUME NEW where, NEW c, Become(s, [shell[s] EXCEPT !.pc = where, !.cursor = c])
        PROVE  FALSE
    <3>1. [shell[s] EXCEPT !.pc = where, !.cursor = c].own = shell[s].own
      BY <1>0 DEF Runner
    <3>. QED BY <1>1, <2>2, <3>1
  <2>. QED BY <1>9, <2>1, <2>2 DEF Scan
<1>10. CASE WriteFired(s)
  <2>1. PICK c : Become(s, [shell[s] EXCEPT !.pc = "action", !.cursor = c])
    BY <1>10 DEF WriteFired
  <2>2. [shell[s] EXCEPT !.pc = "action", !.cursor = c].own = shell[s].own
    BY <1>0 DEF Runner
  <2>. QED BY <1>1, <2>1, <2>2
<1>11. CASE DisableRead(s)
  <2>1. PICK c : Become(s, [shell[s] EXCEPT !.pc = "disableWrite", !.after = c])
    BY <1>11 DEF DisableRead
  <2>2. [shell[s] EXCEPT !.pc = "disableWrite", !.after = c].own = shell[s].own
    BY <1>0 DEF Runner
  <2>. QED BY <1>1, <2>1, <2>2
<1>12. CASE Loads(s)
  <2>1. PICK d \in Databases : Become(s, [shell[s] EXCEPT !.db = d])
    BY <1>12 DEF Loads, LoadDatabase
  <2>2. [shell[s] EXCEPT !.db = d].own = shell[s].own
    BY <1>0 DEF Runner
  <2>. QED BY <1>1, <2>1, <2>2
<1>13. CASE StartAction(s)
  <2> DEFINE job == Len(jobs[Db(s)]) + 1
  <2>1. PICK mine : /\ mine \subseteq shell[s].own \union {job}
                    /\ Become(s, [shell[s] EXCEPT !.pc = "prompt", !.looked = 0, !.own = mine])
    <3>1. (IF Service THEN shell[s].own \union {job} ELSE shell[s].own)
            \subseteq shell[s].own \union {job}
      OBVIOUS
    <3>. QED BY <1>13, <3>1 DEF StartAction
  <2>2. [shell[s] EXCEPT !.pc = "prompt", !.looked = 0, !.own = mine].own = mine
    BY <1>0 DEF Runner
  <2>3. j = job
    BY <1>a, <2>1, <2>2
  <2>4. jobs'[Db(s)] = Append(jobs[Db(s)], [by |-> s, active |-> TRUE, looked |-> shell[s].looked])
        /\ jobs[Db(s)] \in Seq(Job)
    BY <1>0, <1>13 DEF StartAction, Typed
  <2>5. job \in DOMAIN jobs'[Db(s)] /\ jobs'[Db(s)][job].by = s
    BY <2>4, Appending
  <2>. QED BY <1>0, <1>13, <2>3, <2>5
<1>14. Actions(s) \/ Loads(s)
  BY OthersStay
<1>. QED BY <1>4, <1>5, <1>6, <1>7, <1>8, <1>9, <1>10, <1>11, <1>12, <1>13, <1>14 DEF Actions

LEMMA NextOwned ==
  ASSUME Typed, Owned, [Next]_vars
  PROVE  Owned'
<1>1. ASSUME NEW s \in Shells, NEW j \in shell'[s].own
      PROVE  \E d \in Databases : j \in DOMAIN jobs'[d] /\ jobs'[d][j].by = s
  <2>1. CASE j \in shell[s].own
    <3>1. PICK d \in Databases : j \in DOMAIN jobs[d] /\ jobs[d][j].by = s
      BY <2>1 DEF Owned
    <3>. QED BY <3>1, NextGrows DEF Grows
  <2>. QED BY <2>1, OwnGrows
<1>. QED BY <1>1 DEF Owned

\* ShutdownSparesOthers: what a leaving shell stops it has started, for any shells, databases,
\* lives and changes of database, but for the numbers of the services that it started in
\* another database (stop_session_services).
THEOREM SparesOthers == Spec => ShutdownSparesOthers
<1> DEFINE Inv == Typed /\ Owned
           Spares == \A s \in Shells : StopServices(s) =>
                       \A j \in DOMAIN jobs[Db(s)] :
                         Active(Db(s), j) /\ jobs[Db(s)][j].by # s
                           /\ ~ StartedElsewhere(s, Db(s), j) => Active(Db(s), j)'
<1>1. Init => Inv
  <2> SUFFICES ASSUME Init, NEW s \in Shells PROVE shell[s].own = {}
    BY InitTyped DEF Owned
  <2>1. PICK d \in Databases : shell[s] = NewRunner(d)
    BY DEF Init
  <2>. QED BY <2>1 DEF NewRunner
<1>2. Inv /\ [Next]_vars => Inv'
  BY NextTyped, NextOwned
<1>3. Inv => Spares
  <2> SUFFICES ASSUME Inv, NEW s \in Shells, StopServices(s), NEW j \in DOMAIN jobs[Db(s)],
                      Active(Db(s), j), jobs[Db(s)][j].by # s, ~ StartedElsewhere(s, Db(s), j)
               PROVE  Active(Db(s), j)'
    OBVIOUS
  <2>1. j \notin shell[s].own /\ Db(s) \in Databases
    BY CursorTyped DEF Owned, StartedElsewhere
  <2>2. jobs'[Db(s)][j] = jobs[Db(s)][j]
    BY <2>1 DEF StopServices, Typed
  <2>3. shell'[s].db = Db(s)
    <3>1. shell[s] \in Runner
      BY DEF Typed
    <3>2. shell'[s] = [shell[s] EXCEPT !.pc = "disable"] \/ shell'[s] = NewRunner(Db(s))
      BY DEF StopServices, To, Become, Typed
    <3>. QED BY <3>1, <3>2 DEF Runner, NewRunner, Db
  <2>4. jobs'[shell'[s].db][j].active
    BY <2>2, <2>3 DEF Active
  <2>. QED BY <2>4 DEF Active, Db
<1>. QED BY <1>1, <1>2, <1>3, PTL DEF Spec, ShutdownSparesOthers

-----------------------------------------------------------------------------
(* Copies of the service, whatever the shells and their databases. *)

Busy(d, j) == j \in DOMAIN jobs[d] /\ IsService(d, j) /\ Active(d, j)

\* A shell that is about to start a copy has started none that runs, and those that run
\* have come since it looked.
Alone ==
  \A s \in Shells : At(s, "start") =>
    /\ shell[s].looked <= Len(jobs[Db(s)])
    /\ \A j : Busy(Db(s), j) => jobs[Db(s)][j].by # s /\ shell[s].looked < j

\* A service is started by StartAction, and by nothing else.
LEMMA BusyBefore ==
  ASSUME Typed, "user" \notin Shells, [Next]_vars, NEW d \in Databases, NEW j, Busy(d, j)'
  PROVE  \/ /\ Busy(d, j)
            /\ jobs'[d][j].by = jobs[d][j].by /\ jobs'[d][j].looked = jobs[d][j].looked
         \/ \E s \in Shells :
              /\ StartAction(s) /\ Db(s) = d /\ j = Len(jobs[d]) + 1
              /\ jobs'[d][j].by = s /\ jobs'[d][j].looked = shell[s].looked
<1>0. Grows(d) /\ jobs[d] \in Seq(Job)
  BY NextGrows DEF Typed
<1>1. j \in DOMAIN jobs'[d] /\ jobs'[d][j].by \in Shells /\ jobs'[d][j].active
  BY DEF Busy, IsService, Active
<1>2. CASE j \in DOMAIN jobs[d]
  BY <1>0, <1>1, <1>2 DEF Grows, Busy, IsService, Active
<1>3. CASE j \notin DOMAIN jobs[d]
  <2>1. CASE Submit(d)
    <3>1. jobs'[d] = Append(jobs[d], [by |-> "user", active |-> TRUE, looked |-> 0])
      BY <2>1 DEF Submit, Typed
    <3>2. jobs'[d][j] = [by |-> "user", active |-> TRUE, looked |-> 0]
      BY <1>0, <1>1, <1>3, <3>1, Appending
    <3>. QED BY <1>1, <3>2
  <2>2. ASSUME NEW i \in DOMAIN jobs[d], End(d, i) PROVE FALSE
    <3>1. DOMAIN jobs'[d] = DOMAIN jobs[d]
      BY <2>2 DEF End, Typed
    <3>. QED BY <1>1, <1>3, <3>1
  <2>3. ASSUME NEW s \in Shells, StartAction(s), Db(s) = d
        PROVE  j = Len(jobs[d]) + 1 /\ jobs'[d][j].by = s /\ jobs'[d][j].looked = shell[s].looked
    <3>1. jobs'[d] = Append(jobs[d], [by |-> s, active |-> TRUE, looked |-> shell[s].looked])
      BY <2>3 DEF StartAction, Typed
    <3>2. j = Len(jobs[d]) + 1
      BY <1>0, <1>1, <1>3, <3>1, Appending
    <3>3. jobs'[d][j] = [by |-> s, active |-> TRUE, looked |-> shell[s].looked]
      BY <1>0, <3>1, <3>2, Appending
    <3>. QED BY <3>2, <3>3
  <2>4. ASSUME NEW s \in Shells, StopServices(s), Db(s) = d PROVE FALSE
    <3>1. DOMAIN jobs'[d] = DOMAIN jobs[d]
      BY <2>4 DEF StopServices, Typed
    <3>. QED BY <1>1, <1>3, <3>1
  <2>5. jobs'[d] # jobs[d]
    BY <1>1, <1>3
  <2>6. Submission(d) \/ \E s \in Shells : Actions(s)
    <3>1. ASSUME NEW x \in Databases, Submission(x), x # d PROVE jobs'[d] = jobs[d]
      BY <3>1 DEF Submission, Submit, End, Emit, Typed
    <3>. QED BY <2>5, <3>1, Steps DEF vars, LoadDatabase
  <2>7. CASE Submission(d)
    BY <2>1, <2>2, <2>5, <2>7 DEF Submission, Emit
  <2>8. CASE ~ Submission(d)
    <3>1. PICK s \in Shells : StartAction(s) \/ StopServices(s)
      BY <2>5, <2>6, <2>8 DEF Actions, StartShell, Prompt, EnableRead, EnableWrite, Query, Scan,
         PublishFired, WriteFired, Advance, CheckAction, Exit, DisableRead, DisableWrite,
         ShellDies
    <3>2. Db(s) = d
      BY <2>5, <3>1 DEF StartAction, StopServices, Typed
    <3>. QED BY <2>3, <2>4, <3>1, <3>2
  <2>. QED BY <2>7, <2>8
<1>. QED BY <1>2, <1>3

LEMMA NextAlone ==
  ASSUME Typed, "user" \notin Shells, Service, OneServiceAtATime, Alone, [Next]_vars
  PROVE  OneServiceAtATime' /\ Alone'
<1>1. \A d \in Databases : /\ Grows(d) /\ jobs[d] \in Seq(Job) /\ jobs'[d] \in Seq(Job)
                          /\ Len(jobs[d]) \in Nat /\ DOMAIN jobs[d] = 1 .. Len(jobs[d])
                          /\ Len(jobs'[d]) \in Nat /\ DOMAIN jobs'[d] = 1 .. Len(jobs'[d])
  BY NextTyped, NextGrows DEF Typed
<1>2. \A s \in Shells : shell[s] \in Runner /\ Db(s) \in Databases /\ shell[s].looked \in Nat
  BY CursorTyped DEF Typed, Runner
<1>3. ASSUME NEW d \in Databases, NEW i, NEW j, Busy(d, i)', Busy(d, j)', i < j
      PROVE  jobs'[d][i].by # jobs'[d][j].by /\ jobs'[d][j].looked < i
  <2>1. i \in Nat /\ j \in Nat /\ (Busy(d, j) => i # Len(jobs[d]) + 1)
    BY <1>1, <1>3 DEF Busy
  <2>2. CASE Busy(d, j)
    <3>1. /\ Busy(d, i) /\ jobs'[d][i].by = jobs[d][i].by
          /\ jobs'[d][j].by = jobs[d][j].by /\ jobs'[d][j].looked = jobs[d][j].looked
      BY <1>1, <1>3, <2>1, <2>2, BusyBefore DEF Busy, Grows
    <3>. QED BY <1>3, <2>2, <3>1 DEF OneServiceAtATime, Busy
  <2>3. CASE ~ Busy(d, j)
    <3>1. PICK s \in Shells : /\ StartAction(s) /\ Db(s) = d /\ j = Len(jobs[d]) + 1
                              /\ jobs'[d][j].by = s /\ jobs'[d][j].looked = shell[s].looked
      BY <1>3, <2>3, BusyBefore
    <3>2. Busy(d, i) /\ jobs'[d][i].by = jobs[d][i].by
      <4>1. i # Len(jobs[d]) + 1
        BY <1>1, <1>3, <2>1, <3>1
      <4>. QED BY <1>3, <4>1, BusyBefore
    <3>3. jobs[d][i].by # s /\ shell[s].looked < i
      BY <3>1, <3>2 DEF Alone, StartAction
    <3>. QED BY <3>1, <3>2, <3>3
  <2>. QED BY <2>2, <2>3
<1>4. OneServiceAtATime'
  BY <1>3 DEF OneServiceAtATime, Busy
<1>5. ASSUME NEW s \in Shells, At(s, "start")', NEW d \in Databases, d = shell'[s].db
      PROVE  /\ shell'[s].looked <= Len(jobs'[d])
             /\ \A j : Busy(d, j)' => jobs'[d][j].by # s /\ shell'[s].looked < j
  <2>1. CASE shell'[s] = shell[s]
    <3>1. d = Db(s)
      BY <1>5, <2>1 DEF Db
    <3>2. At(s, "start") /\ ~ StartAction(s)
      <4>1. At(s, "start") /\ shell'[s].pc # "prompt"
        BY <1>5, <2>1 DEF At
      <4>2. ASSUME StartAction(s) PROVE shell'[s].pc = "prompt"
        <5>1. PICK mine : shell'[s] = [shell[s] EXCEPT !.pc = "prompt", !.looked = 0, !.own = mine]
          BY <4>2 DEF StartAction, Become, Typed
        <5>. QED BY <1>2, <5>1 DEF Runner
      <4>. QED BY <4>1, <4>2
    <3>3. shell[s].looked <= Len(jobs[d]) /\ Len(jobs[d]) <= Len(jobs'[d])
      <4>1. shell[s].looked <= Len(jobs[d])
        BY <3>1, <3>2 DEF Alone
      <4>2. CASE Len(jobs[d]) = 0
        BY <1>1, <4>1, <4>2
      <4>3. CASE Len(jobs[d]) # 0
        <5>1. Len(jobs[d]) \in DOMAIN jobs[d]
          BY <1>1, <4>3
        <5>2. Len(jobs[d]) \in DOMAIN jobs'[d]
          BY <1>1, <5>1 DEF Grows
        <5>. QED BY <1>1, <4>1, <5>2
      <4>. QED BY <4>2, <4>3
    <3>4. ASSUME NEW j, Busy(d, j)' PROVE jobs'[d][j].by # s /\ shell[s].looked < j
      <4>1. CASE Busy(d, j) /\ jobs'[d][j].by = jobs[d][j].by
        BY <3>1, <3>2, <4>1 DEF Alone
      <4>2. ASSUME NEW t \in Shells, StartAction(t), j = Len(jobs[d]) + 1, jobs'[d][j].by = t
            PROVE  jobs'[d][j].by # s /\ shell[s].looked < j
        <5>1. shell[s].looked < Len(jobs[d]) + 1
          BY <1>1, <1>2, <3>3
        <5>. QED BY <3>2, <4>2, <5>1
      <4>. QED BY <3>4, <4>1, <4>2, BusyBefore
    <3>6. shell'[s].looked <= Len(jobs'[d])
      BY <1>1, <1>2, <2>1, <3>3
    <3>. QED BY <2>1, <3>4, <3>6
  <2>2. CASE shell'[s] # shell[s]
    <3>1. CheckAction(s)
      BY <1>5, <2>2, StartIsChecked DEF At
    <3>2. ~ \E j \in DOMAIN jobs[Db(s)] : IsService(Db(s), j) /\ Active(Db(s), j)
      <4>1. ASSUME \E j \in DOMAIN jobs[Db(s)] : IsService(Db(s), j) /\ Active(Db(s), j)
            PROVE  FALSE
        <5>1. To(s, "prompt")
          BY <3>1, <4>1 DEF CheckAction
        <5>2. shell'[s].pc = "prompt"
          BY <1>2, <5>1 DEF To, Become, Typed, Runner
        <5>. QED BY <1>5, <5>2 DEF At
      <4>. QED BY <4>1
    <3>3. shell'[s] = Looks(s)
      <4>1. ASSUME To(s, "prompt") PROVE shell'[s].pc = "prompt"
        BY <1>2, <4>1 DEF To, Become, Typed, Runner
      <4>2. Become(s, Looks(s))
        BY <1>5, <3>1, <4>1, Checked DEF At
      <4>. QED BY <4>2 DEF Become, Typed
    <3>4. d = Db(s) /\ shell'[s].looked = Len(jobs[Db(s)])
      BY <1>2, <1>5, <3>3 DEF Looks, Runner, Db
    <3>5. jobs' = jobs
      BY <3>1 DEF CheckAction
    <3>6. shell'[s].looked <= Len(jobs'[d])
      BY <1>1, <1>2, <3>4, <3>5
    <3>7. \A j : ~ Busy(d, j)'
      BY <3>2, <3>4, <3>5 DEF Busy, IsService, Active
    <3>. QED BY <3>6, <3>7
  <2>. QED BY <2>1, <2>2
<1>6. Alone'
  <2>. SUFFICES ASSUME NEW s \in Shells, At(s, "start")'
                PROVE  /\ shell'[s].looked <= Len(jobs'[Db(s)'])
                       /\ \A j : Busy(Db(s), j)' => jobs'[Db(s)'][j].by # s /\ shell'[s].looked < j
    BY DEF Alone
  <2>1. PICK d \in Databases : d = shell'[s].db /\ Db(s)' = d
    BY NextTyped DEF Db, Typed, Runner
  <2>2. \A j : Busy(Db(s), j)' <=> Busy(d, j)'
    BY <2>1 DEF Busy, IsService, Active, Db
  <2>. QED BY <1>5, <2>1, <2>2
<1>. QED BY <1>4, <1>6

\* OneServiceAtATime: whatever the shells, their databases and their lives, two copies of the
\* service run at once only when two shells have both looked before either of them started
\* one (start_trigger_action).
THEOREM OneService ==
  ASSUME Service, "user" \notin Shells
  PROVE  Spec => []OneServiceAtATime
<1> DEFINE Inv == Typed /\ OneServiceAtATime /\ Alone
<1>1. Init => Inv
  <2> SUFFICES ASSUME Init PROVE OneServiceAtATime /\ Alone
    BY InitTyped
  <2>1. \A d \in Databases : DOMAIN jobs[d] = {}
    BY DEF Init
  <2>2. ASSUME NEW s \in Shells PROVE ~ At(s, "start")
    <3>1. PICK d \in Databases : shell[s] = NewRunner(d)
      BY DEF Init
    <3>. QED BY <3>1 DEF NewRunner, At
  <2>. QED BY <2>1, <2>2 DEF OneServiceAtATime, Alone
<1>2. Inv /\ [Next]_vars => Inv'
  BY NextTyped, NextAlone
<1>. QED BY <1>1, <1>2, PTL DEF Spec
=============================================================================
