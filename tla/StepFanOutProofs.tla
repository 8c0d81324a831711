-------------------------- MODULE StepFanOutProofs --------------------------
(***************************************************************************)
(* Proofs about StepFanOut, for a pipeline of any length, any batch limit, *)
(* any number of events and of faults.                                     *)
(***************************************************************************)
EXTENDS StepFanOut, FiniteSetTheorems, SequenceTheorems, TLAPS

-----------------------------------------------------------------------------
(* The part of the types that these proofs rest on. *)

Record == [step : Steps, kind : Kinds]

Typed == /\ log \in Seq(Record)
         /\ pc \in [Steps -> PC]

(* What a step does to the log: nothing, or one more event of a running step. *)
Appended(i, kind) == log' = Append(log, [step |-> i, kind |-> kind])

LogKept ==
  \/ UNCHANGED log
  \/ \E i \in Steps, kind \in Kinds : pc[i] \notin Ended /\ Appended(i, kind)

LEMMA InitTyped == Init => Typed
BY DEF Init, Typed, PC

(* Every step appends at most one event, and only a step that has not ended does. *)
LEMMA NextLog ==
  ASSUME Typed, [Next]_vars
  PROVE  LogKept
<1> USE DEF LogKept, Appended, Kinds, Ended, PublishAs
<1>1. ASSUME NEW i \in Steps, Produce(i) \/ Handle(i) \/ EndStep(i)
      PROVE  LogKept
  BY <1>1 DEF Produce, Handle, EndStep
<1>2. ASSUME NEW i \in Steps,
             StartStep(i) \/ BeginStep(i) \/ Follow(i) \/ Raise(i) \/ StopPipeline(i) \/ StepDies(i)
      PROVE  LogKept
  BY <1>2 DEF StartStep, BeginStep, Follow, LoopHead, Fetch, Check, Raise, StopPipeline, StepDies
<1>3. CASE JoinSteps \/ SpawnRaises \/ JobDies \/ Cancel \/ UNCHANGED vars
  BY <1>3 DEF JoinSteps, SpawnRaises, JobDies, Cancel, vars
<1>4. QED BY <1>1, <1>2, <1>3 DEF Next, Run

(* Where a step's process may go from where it is. *)
LEMMA NextPc ==
  ASSUME Typed, [Next]_vars
  PROVE  /\ pc' \in [Steps -> PC]
         /\ \A i \in Steps : pc[i] \in Ended => pc'[i] = pc[i]
<1> DEFINE Goal == /\ pc' \in [Steps -> PC]
                   /\ \A i \in Steps : pc[i] \in Ended => pc'[i] = pc[i]
<1> USE DEF Typed, To, PC, Ended
<1>1. ASSUME NEW i \in Steps, Produce(i) \/ Handle(i) \/ EndStep(i) \/ StartStep(i) \/ BeginStep(i)
      PROVE  Goal
  BY <1>1 DEF Produce, Handle, EndStep, StartStep, BeginStep
<1>2. ASSUME NEW i \in Steps, Follow(i) \/ Raise(i) \/ StopPipeline(i) \/ StepDies(i)
      PROVE  Goal
  BY <1>2 DEF Follow, LoopHead, Fetch, Check, Raise, StopPipeline, StepDies
<1>3. CASE JoinSteps \/ SpawnRaises \/ JobDies \/ Cancel \/ UNCHANGED vars
  BY <1>3 DEF JoinSteps, SpawnRaises, JobDies, Cancel, vars
<1>4. QED BY <1>1, <1>2, <1>3 DEF Next, Run

LEMMA NextTyped ==
  ASSUME Typed, [Next]_vars
  PROVE  Typed'
<1>1. log' \in Seq(Record)
  <2>1. CASE UNCHANGED log
    BY <2>1 DEF Typed
  <2>2. ASSUME NEW i \in Steps, NEW kind \in Kinds, Appended(i, kind)
        PROVE  log' \in Seq(Record)
    <3>1. [step |-> i, kind |-> kind] \in Record
      BY DEF Record
    <3>2. QED BY <3>1, <2>2 DEF Typed, Appended
  <2>3. QED BY <2>1, <2>2, NextLog DEF LogKept
<1>2. QED BY <1>1, NextPc DEF Typed

-----------------------------------------------------------------------------
(* The log is final when the job has finished. *)

AllEnded == job = "finished" => \A i \in Steps : pc[i] \in Ended

(* The job finishes when it has joined every step, and ended steps stay ended. *)
LEMMA NextAllEnded ==
  ASSUME Typed, AllEnded, [Next]_vars
  PROVE  AllEnded'
<1>1. job' = "finished" => job = "finished" \/ JoinSteps
  <2>1. ASSUME NEW i \in Steps, Produce(i) \/ Handle(i) \/ EndStep(i) \/ StartStep(i) \/ BeginStep(i)
        PROVE  job' = job
    BY <2>1 DEF Produce, Handle, EndStep, StartStep, BeginStep
  <2>2. ASSUME NEW i \in Steps, Follow(i) \/ Raise(i) \/ StopPipeline(i) \/ StepDies(i)
        PROVE  job' = job
    BY <2>2 DEF Follow, LoopHead, Fetch, Check, Raise, StopPipeline, StepDies
  <2>3. CASE SpawnRaises \/ JobDies \/ Cancel \/ UNCHANGED vars
    BY <2>3 DEF SpawnRaises, JobDies, Cancel, vars
  <2>4. QED BY <2>1, <2>2, <2>3 DEF Next, Run
<1>2. job' = "finished" => \A i \in Steps : pc[i] \in Ended
  BY <1>1 DEF AllEnded, JoinSteps
<1>3. QED BY <1>2, NextPc DEF AllEnded

(* FinishedLogIsFinal: nothing is published once the job is marked finished. *)
THEOREM LogIsFinal == Spec => FinishedLogIsFinal
<1> DEFINE Inv == Typed /\ AllEnded
<1>1. Init => Inv
  BY InitTyped DEF Init, AllEnded
<1>2. Inv /\ [Next]_vars => Inv'
  BY NextTyped, NextAllEnded
<1>3. Inv /\ [Next]_vars => [job = "finished" => UNCHANGED log]_vars
  BY NextLog DEF AllEnded, LogKept
<1>4. QED BY <1>1, <1>2, <1>3, PTL DEF Spec, FinishedLogIsFinal

-----------------------------------------------------------------------------
(* Steps complete in pipeline order. *)

\* A follower that may complete has seen its parent's end, which stays in the log; it
\* comes to a completion otherwise only by a cancellation or a timeout.
SawParentEnd ==
  ~ cancelled => \A i \in Followers \ Timed :
    /\ pc[i] # "complete"
    /\ pc[i] = "parentDone" => CommandRunTerminal(i - 1)

(* A terminal event that is in the log stays there. *)
LEMMA TerminalKept ==
  ASSUME Typed, LogKept, NEW i \in Steps, CommandRunTerminal(i)
  PROVE  CommandRunTerminal(i)'
<1>1. CASE UNCHANGED log
  BY <1>1 DEF CommandRunTerminal
<1>2. ASSUME NEW s \in Steps, NEW kind \in Kinds, Appended(s, kind)
      PROVE  CommandRunTerminal(i)'
  <2>1. PICK k \in DOMAIN log : log[k].step = i /\ log[k].kind # "event"
    BY DEF CommandRunTerminal
  <2>2. k \in DOMAIN log' /\ log'[k] = log[k]
    BY <1>2 DEF Typed, Appended
  <2>3. QED BY <2>1, <2>2 DEF CommandRunTerminal
<1>3. QED BY <1>1, <1>2 DEF LogKept

(* What each step leaves of SawParentEnd: the ways into the two states. *)
LEMMA NextCompletes ==
  ASSUME Typed, [Next]_vars
  PROVE  /\ cancelled' = cancelled \/ cancelled' = TRUE
         /\ ~ cancelled' => \A i \in Followers \ Timed :
              /\ pc'[i] = "complete" => pc[i] = "complete"
              /\ pc'[i] = "parentDone" => pc[i] = "parentDone" \/ CommandRunTerminal(i - 1)
<1> DEFINE Goal == /\ cancelled' = cancelled \/ cancelled' = TRUE
                   /\ ~ cancelled' => \A i \in Followers \ Timed :
                        /\ pc'[i] = "complete" => pc[i] = "complete"
                        /\ pc'[i] = "parentDone" => pc[i] = "parentDone" \/ CommandRunTerminal(i - 1)
<1>0. Followers \subseteq Steps /\ 1 \notin Followers
  BY FanOutAssumption DEF FanOutAssumption, Followers, Steps
<1> USE <1>0 DEF Typed, To
<1>1. ASSUME NEW i \in Steps, Produce(i) \/ Handle(i) \/ EndStep(i) \/ StartStep(i) \/ BeginStep(i)
      PROVE  Goal
  BY <1>1 DEF Produce, Handle, EndStep, StartStep, BeginStep
<1>2. ASSUME NEW i \in Steps, Follow(i)
      PROVE  Goal
  <2>1. CASE LoopHead(i)
    <3>1. CASE cancelled
      BY <2>1, <3>1 DEF LoopHead
    <3>2. CASE ~ cancelled
      <4>1. To(i, "fetch") /\ cancelled' = cancelled
        BY <2>1, <3>2 DEF LoopHead
      <4>2. QED BY <4>1
    <3>3. QED BY <3>1, <3>2
  <2>2. CASE Fetch(i)
    <3>1. (To(i, "check") \/ To(i, "work")) /\ cancelled' = cancelled
      BY <2>2 DEF Fetch
    <3>2. QED BY <3>1
  <2>3. CASE Check(i)
    <3>1. \/ To(i, "parentDone") /\ CommandRunTerminal(i - 1)
          \/ To(i, "head")
          \/ To(i, "complete") /\ i \in Timed
      BY <2>3 DEF Check
    <3>2. cancelled' = cancelled
      BY <2>3 DEF Check
    <3>3. QED BY <3>1, <3>2
  <2>4. QED BY <1>2, <2>1, <2>2, <2>3 DEF Follow
<1>3. ASSUME NEW i \in Steps, Raise(i) \/ StopPipeline(i) \/ StepDies(i)
      PROVE  Goal
  BY <1>3 DEF Raise, StopPipeline, StepDies
<1>4. CASE JoinSteps \/ SpawnRaises \/ JobDies \/ Cancel \/ UNCHANGED vars
  BY <1>4 DEF JoinSteps, SpawnRaises, JobDies, Cancel, vars
<1>5. QED BY <1>1, <1>2, <1>3, <1>4 DEF Next, Run

(* A completion is published from one of the two states only. *)
LEMMA NextCompletion ==
  ASSUME Typed, [Next]_vars, NEW i \in Followers, Appended(i, "completed")
  PROVE  pc[i] \in {"complete", "parentDone"} /\ cancelled' = cancelled
<1>0. /\ Len(log') = Len(log) + 1
      /\ log'[Len(log) + 1] = [step |-> i, kind |-> "completed"]
      /\ Len(log) \in Nat
  BY FanOutAssumption DEF Typed, Appended, FanOutAssumption, Followers, Steps
<1>1. ASSUME UNCHANGED log PROVE FALSE
  BY <1>0, <1>1
<1>2. ASSUME NEW s \in Steps, NEW kind \in Kinds, Appended(s, kind)
      PROVE  s = i /\ kind = "completed"
  <2>1. log'[Len(log) + 1] = [step |-> s, kind |-> kind]
    BY <1>2, <1>0 DEF Typed, Appended
  <2>2. [step |-> s, kind |-> kind].step = i /\ [step |-> s, kind |-> kind].kind = "completed"
    BY <2>1, <1>0
  <2>3. QED BY <2>2
<1>3. ASSUME NEW s \in Steps, EndStep(s)
      PROVE  pc[i] \in {"complete", "parentDone"} /\ cancelled' = cancelled
  <2>1. "completed" \in Kinds /\ "failed" \in Kinds
    BY DEF Kinds
  <2>2. CASE pc[s] \in {"complete", "parentDone"} /\ Appended(s, "completed")
    BY <2>1, <2>2, <1>2, <1>3 DEF EndStep
  <2>3. CASE Appended(s, "failed")
    <3>1. "failed" = "completed"
      BY <2>1, <2>3, <1>2
    <3>2. QED BY <3>1
  <2>4. QED BY <1>3, <2>2, <2>3 DEF EndStep, PublishAs, Appended
<1>4. ASSUME NEW s \in Steps, Produce(s) \/ Handle(s)
      PROVE  FALSE
  <2>1. "event" \in Kinds
    BY DEF Kinds
  <2>2. UNCHANGED log \/ Appended(s, "event")
    BY <1>4 DEF Produce, Handle, PublishAs, Appended
  <2>3. ASSUME Appended(s, "event") PROVE FALSE
    <3>1. "event" = "completed"
      BY <2>1, <2>3, <1>2
    <3>2. QED BY <3>1
  <2>4. QED BY <1>1, <2>2, <2>3
<1>5. ASSUME NEW s \in Steps,
             StartStep(s) \/ BeginStep(s) \/ Follow(s) \/ Raise(s) \/ StopPipeline(s) \/ StepDies(s)
      PROVE  FALSE
  <2>1. UNCHANGED log
    BY <1>5 DEF StartStep, BeginStep, Follow, LoopHead, Fetch, Check, Raise, StopPipeline, StepDies
  <2>2. QED BY <1>1, <2>1
<1>6. ASSUME JoinSteps \/ SpawnRaises \/ JobDies \/ Cancel \/ UNCHANGED vars PROVE FALSE
  <2>1. UNCHANGED log
    BY <1>6 DEF JoinSteps, SpawnRaises, JobDies, Cancel, vars
  <2>2. QED BY <1>1, <2>1
<1>7. QED BY <1>3, <1>4, <1>5, <1>6 DEF Next, Run

LEMMA NextSaw ==
  ASSUME Typed, SawParentEnd, [Next]_vars
  PROVE  SawParentEnd'
<1> SUFFICES ASSUME ~ cancelled', NEW i \in Followers \ Timed
             PROVE  /\ pc'[i] # "complete"
                    /\ pc'[i] = "parentDone" => CommandRunTerminal(i - 1)'
  BY DEF SawParentEnd
<1>1. ~ cancelled
  BY NextCompletes
<1>2. pc'[i] # "complete"
  BY <1>1, NextCompletes DEF SawParentEnd
<1>3. ASSUME pc'[i] = "parentDone" PROVE CommandRunTerminal(i - 1)'
  <2>1. CommandRunTerminal(i - 1)
    BY <1>1, <1>3, NextCompletes DEF SawParentEnd
  <2>2. i - 1 \in Steps
    BY FanOutAssumption DEF FanOutAssumption, Followers, Steps
  <2>3. QED BY <2>1, <2>2, NextLog, TerminalKept
<1>4. QED BY <1>2, <1>3

LEMMA NextOrder ==
  ASSUME Typed, SawParentEnd, CompletesAfterParent, [Next]_vars
  PROVE  CompletesAfterParent'
<1> SUFFICES ASSUME ~ cancelled', NEW i \in Followers \ Timed, NEW k \in DOMAIN log',
                    log'[k] = [step |-> i, kind |-> "completed"]
             PROVE  \E m \in 1 .. k - 1 : log'[m].step = i - 1 /\ log'[m].kind # "event"
  BY DEF CompletesAfterParent
<1>1. ~ cancelled
  BY NextCompletes
<1>2. ASSUME k \in DOMAIN log, log'[k] = log[k],
             \A m \in DOMAIN log : log'[m] = log[m]
      PROVE  \E m \in 1 .. k - 1 : log'[m].step = i - 1 /\ log'[m].kind # "event"
  <2>1. PICK m \in 1 .. k - 1 : log[m].step = i - 1 /\ log[m].kind # "event"
    BY <1>1, <1>2 DEF CompletesAfterParent
  <2>2. m \in DOMAIN log
    BY <1>2 DEF Typed
  <2>3. QED BY <1>2, <2>1, <2>2
<1>3. CASE UNCHANGED log
  BY <1>2, <1>3
<1>4. ASSUME NEW s \in Steps, NEW kind \in Kinds, Appended(s, kind)
      PROVE  \E m \in 1 .. k - 1 : log'[m].step = i - 1 /\ log'[m].kind # "event"
  <2>1. /\ DOMAIN log = 1 .. Len(log) /\ DOMAIN log' = 1 .. Len(log) + 1
        /\ Len(log) \in Nat
        /\ \A m \in DOMAIN log : log'[m] = log[m]
        /\ log'[Len(log) + 1] = [step |-> s, kind |-> kind]
    BY <1>4 DEF Typed, Appended
  <2>2. CASE k \in DOMAIN log
    BY <2>1, <2>2, <1>2
  <2>3. CASE k = Len(log) + 1
    <3>1. [step |-> s, kind |-> kind].step = i /\ [step |-> s, kind |-> kind].kind = "completed"
      BY <2>1, <2>3
    <3>2. Appended(i, "completed")
      BY <1>4, <3>1
    <3>3. pc[i] \in {"complete", "parentDone"}
      BY <3>2, NextCompletion
    <3>4. CommandRunTerminal(i - 1)
      BY <1>1, <3>3 DEF SawParentEnd
    <3>5. PICK m \in DOMAIN log : log[m].step = i - 1 /\ log[m].kind # "event"
      BY <3>4 DEF CommandRunTerminal
    <3>6. m \in 1 .. k - 1
      BY <2>1, <2>3, <3>5
    <3>7. QED BY <2>1, <3>5, <3>6
  <2>4. QED BY <2>1, <2>2, <2>3
<1>5. QED BY <1>3, <1>4, NextLog DEF LogKept

(* CompletesAfterParent: without a cancellation or a timeout, a follower's completion *)
(* comes after its parent's terminal event.                                           *)
THEOREM CompletionsInOrder == Spec => []CompletesAfterParent
<1> DEFINE Inv == Typed /\ SawParentEnd /\ CompletesAfterParent
<1>1. Init => Inv
  <2>1. Followers \subseteq Steps
    BY FanOutAssumption DEF FanOutAssumption, Followers, Steps
  <2>2. QED BY <2>1, InitTyped DEF Init, SawParentEnd, CompletesAfterParent
<1>2. Inv /\ [Next]_vars => Inv'
  BY NextTyped, NextSaw, NextOrder
<1>3. QED BY <1>1, <1>2, PTL DEF Spec
-----------------------------------------------------------------------------
(* Lists of ids. *)

(* A list of the older ids, followed by one of the newer, lists them all. *)
LEMMA ListsJoined ==
  ASSUME NEW s \in Seq(Nat), NEW t \in Seq(Nat), NEW S, NEW T,
         Lists(s, S), Lists(t, T), \A k \in S, n \in T : k < n
  PROVE  Lists(s \o t, S \union T)
<1> DEFINE st == s \o t
<1>1. /\ Len(s) \in Nat /\ Len(t) \in Nat
      /\ DOMAIN s = 1 .. Len(s) /\ DOMAIN t = 1 .. Len(t)
      /\ DOMAIN st = 1 .. Len(s) + Len(t)
      /\ \A n \in 1 .. Len(s) : st[n] = s[n]
      /\ \A n \in 1 .. Len(t) : st[Len(s) + n] = t[n]
  OBVIOUS
<1>2. \A n \in DOMAIN st : n \in DOMAIN s \/ \E m \in DOMAIN t : n = Len(s) + m
  <2> SUFFICES ASSUME NEW n \in 1 .. Len(s) + Len(t), n \notin 1 .. Len(s)
               PROVE  \E m \in 1 .. Len(t) : n = Len(s) + m
    BY <1>1
  <2>1. n - Len(s) \in 1 .. Len(t) /\ n = Len(s) + (n - Len(s))
    BY <1>1
  <2>2. QED BY <2>1
<1> HIDE DEF st
<1>3. \A k \in S \union T : \E n \in DOMAIN st : st[n] = k
  <2>1. ASSUME NEW k \in S PROVE \E n \in DOMAIN st : st[n] = k
    <3>1. PICK n \in DOMAIN s : s[n] = k
      BY DEF Lists
    <3>2. n \in DOMAIN st /\ st[n] = k
      BY <1>1, <3>1
    <3>3. QED BY <3>2
  <2>2. ASSUME NEW k \in T PROVE \E n \in DOMAIN st : st[n] = k
    <3>1. PICK n \in DOMAIN t : t[n] = k
      BY DEF Lists
    <3>2. Len(s) + n \in DOMAIN st /\ st[Len(s) + n] = k
      BY <1>1, <3>1
    <3>3. QED BY <3>2
  <2>3. QED BY <2>1, <2>2
<1>4. \A n \in DOMAIN st : st[n] \in S \union T
  BY <1>1, <1>2 DEF Lists
<1>5. ASSUME NEW n \in DOMAIN st, NEW m \in 1 .. n - 1 PROVE st[m] < st[n]
  <2>1. CASE n \in DOMAIN s
    BY <1>1, <2>1 DEF Lists
  <2>2. ASSUME NEW k \in DOMAIN t, n = Len(s) + k PROVE st[m] < st[n]
    <3>1. CASE m \in DOMAIN s
      <4>1. s[m] \in S /\ t[k] \in T
        BY <3>1 DEF Lists
      <4>2. QED BY <1>1, <2>2, <3>1, <4>1
    <3>2. CASE m \notin DOMAIN s
      <4>1. m - Len(s) \in 1 .. k - 1
        BY <1>1, <2>2, <3>2
      <4>2. t[m - Len(s)] < t[k]
        BY <4>1 DEF Lists
      <4>3. m = Len(s) + (m - Len(s)) /\ m - Len(s) \in 1 .. Len(t)
        BY <1>1, <2>2, <4>1
      <4>4. QED BY <1>1, <2>2, <4>2, <4>3
    <3>3. QED BY <3>1, <3>2
  <2>3. QED BY <1>2, <2>1, <2>2
<1>6. QED BY <1>3, <1>4, <1>5 DEF Lists, st

(* The last of a list is the newest. *)
LEMMA LastIsNewest ==
  ASSUME NEW s \in Seq(Nat), NEW S, Lists(s, S), s # <<>>
  PROVE  s[Len(s)] \in S /\ \A k \in S : k <= s[Len(s)]
<1>1. Len(s) \in DOMAIN s /\ DOMAIN s = 1 .. Len(s) /\ Len(s) \in Nat
  OBVIOUS
<1>2. s[Len(s)] \in S /\ s[Len(s)] \in Nat
  BY <1>1 DEF Lists
<1>3. ASSUME NEW k \in S PROVE k <= s[Len(s)]
  <2>1. PICK n \in DOMAIN s : s[n] = k
    BY DEF Lists
  <2>2. CASE n = Len(s)
    BY <1>2, <2>1, <2>2
  <2>3. CASE n # Len(s)
    <3>1. n \in 1 .. Len(s) - 1 /\ s[n] \in Nat
      BY <1>1, <2>3
    <3>2. s[n] < s[Len(s)]
      BY <1>1, <3>1 DEF Lists
    <3>3. QED BY <1>2, <2>1, <3>1, <3>2
  <2>4. QED BY <2>2, <2>3
<1>4. QED BY <1>2, <1>3

(* Moving the head of one sequence to the end of another leaves the two together alike. *)
LEMMA MoveHead ==
  ASSUME NEW s \in Seq(Nat), NEW t \in Seq(Nat), t # <<>>
  PROVE  Append(s, Head(t)) \o Tail(t) = s \o t
<1>1. Head(t) \in Nat /\ Tail(t) \in Seq(Nat) /\ <<Head(t)>> \in Seq(Nat)
  BY HeadTailProperties
<1>2. Append(s, Head(t)) = s \o <<Head(t)>>
  BY <1>1, AppendIsConcat
<1>3. (s \o <<Head(t)>>) \o Tail(t) = s \o (<<Head(t)>> \o Tail(t))
  BY <1>1, ConcatAssociative
<1>4. <<Head(t)>> \o Tail(t) = t
  BY HeadTailProperties
<1>5. QED BY <1>2, <1>3, <1>4
-----------------------------------------------------------------------------
(* What a step does to the followers' cursors, batches and handled ids. *)

\* Where a follower has no event in hand, and where it looks for its parent's end.
Empty  == {"none", "boot", "head", "fetch", "check", "parentDone"}
Asking == {"check", "parentDone"}

(* An event comes into a follower's hands by Fetch and leaves them by Handle. *)
ReadersKept ==
  /\ UNCHANGED readerVars
  /\ \A i \in Followers :
       /\ pc'[i] \in Empty => pc[i] \in Empty \/ batch[i] = <<>>
       /\ pc'[i] \in Asking => pc[i] \in Asking

LEMMA NextReaders ==
  ASSUME Typed, [Next]_vars
  PROVE  \/ ReadersKept
         \/ \E i \in Followers : LoopHead(i) \/ Fetch(i) \/ (Handle(i) /\ batch[i] # <<>>)
<1> DEFINE Goal == \/ ReadersKept
                   \/ \E i \in Followers :
                        LoopHead(i) \/ Fetch(i) \/ (Handle(i) /\ batch[i] # <<>>)
<1>0. Followers \subseteq Steps
  BY FanOutAssumption DEF FanOutAssumption, Followers, Steps
<1> USE <1>0 DEF Typed, To, Empty, Asking, ReadersKept, readerVars, Ended
<1>1. ASSUME NEW i \in Steps, Produce(i) \/ EndStep(i) \/ StartStep(i) \/ BeginStep(i)
      PROVE  ReadersKept
  <2>1. CASE Produce(i)    BY <2>1 DEF Produce
  <2>2. CASE EndStep(i)    BY <2>2 DEF EndStep
  <2>3. CASE StartStep(i)  BY <2>3 DEF StartStep
  <2>4. CASE BeginStep(i)
    <3>1. pc[i] = "boot" /\ UNCHANGED readerVars
      BY <2>4 DEF BeginStep
    <3>2. \E where \in PC : To(i, where) /\ where \notin Asking
      BY <2>4 DEF BeginStep, PC
    <3>3. PICK where \in PC : To(i, where) /\ where \notin Asking
      BY <3>2
    <3>4. QED BY <3>1, <3>3
  <2>5. QED BY <1>1, <2>1, <2>2, <2>3, <2>4
<1>2. ASSUME NEW i \in Steps, Raise(i) \/ StopPipeline(i) \/ StepDies(i)
      PROVE  ReadersKept
  BY <1>2 DEF Raise, StopPipeline, StepDies
<1>3. ASSUME NEW i \in Steps, Handle(i)
      PROVE  Goal
  <2>1. CASE batch[i] = <<>>
    <3>1. To(i, "head") /\ UNCHANGED readerVars
      BY <1>3, <2>1 DEF Handle
    <3>2. QED BY <2>1, <3>1
  <2>2. QED BY <1>3, <2>1 DEF Handle
<1>4. ASSUME NEW i \in Followers, Check(i)
      PROVE  ReadersKept
  <2>1. pc[i] = "check" /\ UNCHANGED readerVars
    BY <1>4 DEF Check
  <2>2. To(i, "parentDone") \/ To(i, "head") \/ To(i, "complete")
    BY <1>4 DEF Check
  <2>3. QED BY <2>1, <2>2
<1>5. CASE JoinSteps \/ SpawnRaises \/ JobDies \/ Cancel \/ UNCHANGED vars
  BY <1>5 DEF JoinSteps, SpawnRaises, JobDies, Cancel, vars
<1>6. QED BY <1>1, <1>2, <1>3, <1>4, <1>5 DEF Next, Run, Follow

(* The ids of a step's events up to a known id do not change when the log grows. *)
LEMMA EventsStay ==
  ASSUME Typed, LogKept, NEW n \in 0 .. Len(log), NEW s
  PROVE  /\ n \in 0 .. Len(log')
         /\ EventsOf(s, n)' = EventsOf(s, n)
<1>1. Len(log) \in Nat /\ DOMAIN log = 1 .. Len(log)
  BY DEF Typed
<1>2. CASE UNCHANGED log
  BY <1>2 DEF EventsOf
<1>3. ASSUME NEW i \in Steps, NEW kind \in Kinds, Appended(i, kind)
      PROVE  /\ n \in 0 .. Len(log')
             /\ EventsOf(s, n)' = EventsOf(s, n)
  <2>1. Len(log') = Len(log) + 1 /\ \A k \in 1 .. n : log'[k] = log[k]
    BY <1>1, <1>3 DEF Typed, Appended
  <2>2. EventsOf(s, n)' = EventsOf(s, n)
    BY <2>1 DEF EventsOf
  <2>3. QED BY <1>1, <2>1, <2>2
<1>4. QED BY <1>2, <1>3 DEF LogKept

LEMMA EventIds ==
  ASSUME NEW i, NEW n \in Nat, NEW k \in EventsOf(i, n)
  PROVE  k \in Nat /\ 1 <= k /\ k <= n
BY DEF EventsOf

LEMMA EventsUpTo ==
  ASSUME NEW i, NEW m \in Nat, NEW n \in Nat, m <= n
  PROVE  EventsOf(i, m) = {k \in EventsOf(i, n) : k <= m}
<1>1. \A k \in 1 .. m : k \in 1 .. n /\ k <= m
  OBVIOUS
<1>2. \A k \in 1 .. n : k <= m => k \in 1 .. m
  OBVIOUS
<1>3. QED BY <1>1, <1>2 DEF EventsOf

(* What a fetch returns: ids of the parent's events after the cursor, of which it leaves *)
(* out none that is older than one it returns.                                           *)
LEMMA FetchReturns ==
  ASSUME TypeOK, NEW i \in Followers, NewEvents(i) # {},
         NEW some \in Oldest(NewEvents(i)),
         NEW events \in [1 .. Cardinality(some) -> some], Lists(events, some)
  PROVE  /\ events \in Seq(1 .. Len(log)) /\ events # <<>>
         /\ events[Len(events)] \in 1 .. Len(log) /\ events[Len(events)] \in some
         /\ some \subseteq NewEvents(i)
         /\ \A k \in NewEvents(i) : k \in some <=> k <= events[Len(events)]
<1> DEFINE new == NewEvents(i)
<1>1. new \subseteq 1 .. Len(log) /\ Len(log) \in Nat
  BY DEF NewEvents, EventsOf, TypeOK
<1>2. IsFiniteSet(1 .. Len(log))
  BY <1>1, FS_Interval
<1>3. IsFiniteSet(new)
  BY <1>1, <1>2, FS_Subset
<1>4. some \subseteq new /\ \A k \in some, n \in new \ some : k < n
  BY DEF Oldest
<1>5. IsFiniteSet(some)
  BY <1>3, <1>4, FS_Subset
<1>6. Cardinality(some) \in Nat /\ Cardinality(new) \in Nat /\ Cardinality(new) # 0
  BY <1>3, <1>5, FS_CardinalityType, FS_EmptySet
<1>7. Cardinality(some) # 0
  BY <1>6, FanOutAssumption DEF Oldest, FanOutAssumption
<1>8. events \in Seq(some) /\ Len(events) = Cardinality(some) /\ events # <<>>
  BY <1>6, <1>7
<1>9. events \in Seq(1 .. Len(log)) /\ events \in Seq(Nat)
  BY <1>1, <1>4, <1>8, SeqMonotonic
<1>10. events[Len(events)] \in some /\ \A k \in some : k <= events[Len(events)]
  BY <1>8, <1>9, LastIsNewest
<1>11. some = {k \in new : k <= events[Len(events)]}
  <2>1. ASSUME NEW k \in new, k <= events[Len(events)], k \notin some PROVE FALSE
    <3>1. events[Len(events)] < k
      BY <1>4, <1>10, <2>1
    <3>2. k \in Nat /\ events[Len(events)] \in Nat
      BY <1>1, <1>4, <1>10
    <3>3. QED BY <2>1, <3>1, <3>2
  <2>2. QED BY <1>4, <1>10, <2>1
<1>12. \A k \in new : k \in some <=> k <= events[Len(events)]
  BY <1>11
<1>13. QED BY <1>1, <1>4, <1>8, <1>9, <1>10, <1>12

-----------------------------------------------------------------------------
(* Types. *)

LEMMA TypedOfTypeOK == TypeOK => Typed
BY DEF TypeOK, Typed, Record

(* The variables that no follower's reading touches. *)
LEMMA NextRest ==
  ASSUME TypeOK, [Next]_vars
  PROVE  /\ job' \in {"running", "finished", "failed", "dead"}
         /\ cancelled' \in BOOLEAN
         /\ faults' \in 0 .. MaxFaults
<1> DEFINE Goal == /\ job' \in {"running", "finished", "failed", "dead"}
                   /\ cancelled' \in BOOLEAN
                   /\ faults' \in 0 .. MaxFaults
<1>1. /\ job \in {"running", "finished", "failed", "dead"}
      /\ cancelled \in BOOLEAN
      /\ faults \in 0 .. MaxFaults
  BY DEF TypeOK
<1>2. ASSUME Fault PROVE faults' \in 0 .. MaxFaults
  BY <1>1, <1>2, FanOutAssumption DEF Fault, FanOutAssumption
<1>3. ASSUME NEW i \in Steps, Produce(i) \/ EndStep(i) \/ StartStep(i) \/ Handle(i)
      PROVE  Goal
  BY <1>1, <1>3 DEF Produce, EndStep, StartStep, Handle
<1>4. ASSUME NEW i \in Steps, Raise(i) \/ StopPipeline(i) \/ StepDies(i) \/ BeginStep(i)
      PROVE  Goal
  BY <1>1, <1>2, <1>4 DEF Raise, StopPipeline, StepDies, BeginStep
<1>5. ASSUME NEW i \in Steps, Follow(i)
      PROVE  Goal
  BY <1>1, <1>5 DEF Follow, LoopHead, Fetch, Check
<1>6. CASE JoinSteps \/ SpawnRaises \/ JobDies \/ Cancel \/ UNCHANGED vars
  BY <1>1, <1>2, <1>6 DEF JoinSteps, SpawnRaises, JobDies, Cancel, vars
<1>7. QED BY <1>3, <1>4, <1>5, <1>6 DEF Next, Run

(* The followers' variables keep their types while the log grows. *)
LEMMA NextReaderTypes ==
  ASSUME TypeOK, LogKept, [Next]_vars
  PROVE  /\ cursor' \in [Followers -> 0 .. Len(log')]
         /\ batch' \in [Followers -> Seq(1 .. Len(log'))]
         /\ handled' \in [Followers -> Seq(1 .. Len(log'))]
         /\ drainedTo' \in [Followers -> 0 .. Len(log')]
<1>1. Typed
  BY TypedOfTypeOK
<1>2. Len(log) \in Nat /\ Len(log') \in Nat /\ Len(log) <= Len(log')
  <2>1. CASE UNCHANGED log
    BY <1>1, <2>1 DEF Typed
  <2>2. ASSUME NEW i \in Steps, NEW kind \in Kinds, Appended(i, kind)
        PROVE  Len(log) \in Nat /\ Len(log') = Len(log) + 1
    BY <1>1, <2>2 DEF Typed, Appended
  <2>3. QED BY <2>1, <2>2 DEF LogKept
<1>3. 0 .. Len(log) \subseteq 0 .. Len(log') /\ 1 .. Len(log) \subseteq 1 .. Len(log')
  BY <1>2
<1>4. \A s \in Seq(1 .. Len(log)) : s \in Seq(1 .. Len(log'))
  BY <1>3, SeqMonotonic
<1> DEFINE Old(c, b, h, d) ==
             /\ c \in [Followers -> 0 .. Len(log)] /\ d \in [Followers -> 0 .. Len(log)]
             /\ b \in [Followers -> Seq(1 .. Len(log))] /\ h \in [Followers -> Seq(1 .. Len(log))]
<1>5. Old(cursor, batch, handled, drainedTo)
  BY DEF TypeOK
<1>6. Old(cursor', batch', handled', drainedTo')
  <2>1. CASE ReadersKept
    BY <1>5, <2>1 DEF ReadersKept, readerVars
  <2>2. ASSUME NEW i \in Followers, LoopHead(i)
        PROVE  Old(cursor', batch', handled', drainedTo')
    BY <1>2, <1>5, <2>2 DEF LoopHead
  <2>3. ASSUME NEW i \in Followers, Fetch(i)
        PROVE  Old(cursor', batch', handled', drainedTo')
    <3>1. CASE NewEvents(i) = {}
      <4>1. /\ drainedTo' = [drainedTo EXCEPT ![i] = Len(log)]
            /\ UNCHANGED <<cursor, batch, handled>>
        BY <2>3, <3>1 DEF Fetch
      <4>2. Len(log) \in 0 .. Len(log)
        BY <1>2
      <4>3. QED BY <1>5, <4>1, <4>2
    <3>2. CASE NewEvents(i) # {}
      <4>1. PICK some \in Oldest(NewEvents(i)) :
              \E events \in [1 .. Cardinality(some) -> some] :
                /\ Lists(events, some)
                /\ cursor' = [cursor EXCEPT ![i] = events[Len(events)]]
                /\ batch' = [batch EXCEPT ![i] = events]
        BY <2>3, <3>2 DEF Fetch
      <4>2. PICK events \in [1 .. Cardinality(some) -> some] :
                /\ Lists(events, some)
                /\ cursor' = [cursor EXCEPT ![i] = events[Len(events)]]
                /\ batch' = [batch EXCEPT ![i] = events]
        BY <4>1
      <4>3. events \in Seq(1 .. Len(log)) /\ events[Len(events)] \in 1 .. Len(log)
        BY <3>2, <4>2, FetchReturns
      <4>4. UNCHANGED <<handled, drainedTo>>
        BY <2>3, <3>2 DEF Fetch
      <4>5. events[Len(events)] \in 0 .. Len(log)
        BY <1>2, <4>3
      <4>6. QED BY <1>5, <4>2, <4>3, <4>4, <4>5
    <3>3. QED BY <3>1, <3>2
  <2>4. ASSUME NEW i \in Followers, Handle(i), batch[i] # <<>>
        PROVE  Old(cursor', batch', handled', drainedTo')
    <3>1. batch[i] \in Seq(1 .. Len(log)) /\ handled[i] \in Seq(1 .. Len(log))
      BY <1>5
    <3>2. Head(batch[i]) \in 1 .. Len(log) /\ Tail(batch[i]) \in Seq(1 .. Len(log))
      BY <2>4, <3>1, HeadTailProperties
    <3>3. Append(handled[i], Head(batch[i])) \in Seq(1 .. Len(log))
      BY <3>1, <3>2, AppendProperties
    <3>4. /\ handled' = [handled EXCEPT ![i] = Append(handled[i], Head(batch[i]))]
          /\ batch' = [batch EXCEPT ![i] = Tail(batch[i])]
          /\ UNCHANGED <<cursor, drainedTo>>
      BY <2>4 DEF Handle
    <3>5. QED BY <1>5, <3>2, <3>3, <3>4
  <2>5. QED BY <1>1, <2>1, <2>2, <2>3, <2>4, NextReaders
<1>7. QED BY <1>3, <1>4, <1>6

LEMMA NextTypeOK ==
  ASSUME TypeOK, [Next]_vars
  PROVE  TypeOK'
<1>1. Typed
  BY TypedOfTypeOK
<1>2. Typed' /\ LogKept
  BY <1>1, NextTyped, NextLog
<1>3. QED BY <1>2, NextRest, NextReaderTypes DEF TypeOK, Typed, Record

LEMMA InitTypeOK == Init => TypeOK
<1> SUFFICES ASSUME Init PROVE TypeOK
  OBVIOUS
<1>1. log = <<>> /\ Len(log) = 0 /\ 0 \in 0 .. Len(log)
  BY DEF Init
<1>2. /\ cursor \in [Followers -> 0 .. Len(log)]
      /\ drainedTo \in [Followers -> 0 .. Len(log)]
  BY <1>1 DEF Init
<1>3. /\ batch \in [Followers -> Seq(1 .. Len(log))]
      /\ handled \in [Followers -> Seq(1 .. Len(log))]
  BY DEF Init
<1>4. pc \in [Steps -> PC]
  BY DEF Init, PC
<1>5. faults \in 0 .. MaxFaults
  BY FanOutAssumption DEF FanOutAssumption, Init
<1>6. log \in Seq([step : Steps, kind : Kinds])
  BY InitTyped DEF Typed, Record
<1>7. job \in {"running", "finished", "failed", "dead"} /\ cancelled \in BOOLEAN
  BY DEF Init
<1>8. QED BY <1>2, <1>3, <1>4, <1>5, <1>6, <1>7 DEF TypeOK

(* TypeOK: every variable keeps its type; in particular no follower's cursor or batch *)
(* ever names an event that is not in the log.                                        *)
THEOREM TypesHold == Spec => []TypeOK
<1>1. TypeOK /\ [Next]_vars => TypeOK'
  BY NextTypeOK
<1>2. QED BY <1>1, InitTypeOK, PTL DEF Spec
-----------------------------------------------------------------------------
(* Followers handle their parent's events in order. *)

\* A follower that fetches, or looks for its parent's end, has no event in hand, and when
\* its last fetch returned nothing there was no event beyond its cursor.
HandsEmpty ==
  \A i \in Followers :
    /\ pc[i] \in Empty => batch[i] = <<>>
    /\ pc[i] \in Asking => EventsOf(i - 1, drainedTo[i]) = EventsOf(i - 1, cursor[i])

InOrder == TypeOK /\ HandsEmpty /\ HandledInOrder

(* A follower that does not fetch keeps its place, whatever the others publish. *)
LEMMA KeepsPlace ==
  ASSUME TypeOK, LogKept, NEW i \in Followers, cursor'[i] = cursor[i],
         Lists(handled[i] \o batch[i], EventsOf(i - 1, cursor[i])),
         handled'[i] \o batch'[i] = handled[i] \o batch[i]
  PROVE  Lists(handled[i] \o batch[i], EventsOf(i - 1, cursor[i]))'
<1>1. PICK c \in 0 .. Len(log) : c = cursor[i]
  BY DEF TypeOK
<1>2. EventsOf(i - 1, c)' = EventsOf(i - 1, c)
  BY TypedOfTypeOK, EventsStay
<1>3. EventsOf(i - 1, cursor[i])' = EventsOf(i - 1, c)'
  BY <1>1
<1>4. EventsOf(i - 1, cursor[i])' = EventsOf(i - 1, cursor[i])
  BY <1>1, <1>2, <1>3
<1>5. QED BY <1>4 DEF Lists

(* A follower that looks for its parent's end keeps what it knows of its last fetch. *)
LEMMA KeepsDrained ==
  ASSUME TypeOK, LogKept, NEW i \in Followers, cursor'[i] = cursor[i],
         drainedTo'[i] = drainedTo[i],
         EventsOf(i - 1, drainedTo[i]) = EventsOf(i - 1, cursor[i])
  PROVE  (EventsOf(i - 1, drainedTo[i]) = EventsOf(i - 1, cursor[i]))'
<1>1. PICK c \in 0 .. Len(log) : c = cursor[i]
  BY DEF TypeOK
<1>2. PICK d \in 0 .. Len(log) : d = drainedTo[i]
  BY DEF TypeOK
<1>3. EventsOf(i - 1, c)' = EventsOf(i - 1, c) /\ EventsOf(i - 1, d)' = EventsOf(i - 1, d)
  BY TypedOfTypeOK, EventsStay
<1>4. QED BY <1>1, <1>2, <1>3 DEF EventsOf

(* Fetched events continue the list of those before. *)
LEMMA FetchContinues ==
  ASSUME TypeOK, NEW i \in Followers, Fetch(i), NewEvents(i) # {},
         Lists(handled[i], EventsOf(i - 1, cursor[i]))
  PROVE  Lists(handled[i] \o batch[i], EventsOf(i - 1, cursor[i]))'
<1>1. PICK some \in Oldest(NewEvents(i)) :
        \E events \in [1 .. Cardinality(some) -> some] :
          /\ Lists(events, some)
          /\ cursor' = [cursor EXCEPT ![i] = events[Len(events)]]
          /\ batch' = [batch EXCEPT ![i] = events]
  BY DEF Fetch
<1>2. PICK events \in [1 .. Cardinality(some) -> some] :
          /\ Lists(events, some)
          /\ cursor' = [cursor EXCEPT ![i] = events[Len(events)]]
          /\ batch' = [batch EXCEPT ![i] = events]
  BY <1>1
<1>3. UNCHANGED <<log, handled>>
  BY DEF Fetch
<1>4. /\ events \in Seq(1 .. Len(log)) /\ events # <<>>
      /\ events[Len(events)] \in 1 .. Len(log) /\ events[Len(events)] \in some
      /\ some \subseteq NewEvents(i)
      /\ \A k \in NewEvents(i) : k \in some <=> k <= events[Len(events)]
  BY <1>2, FetchReturns
<1>5. cursor'[i] = events[Len(events)] /\ batch'[i] = events /\ handled'[i] = handled[i]
  BY <1>2, <1>3 DEF TypeOK
<1>6. cursor[i] \in 0 .. Len(log) /\ Len(log) \in Nat
  BY DEF TypeOK
<1>7. handled[i] \in Seq(1 .. Len(log))
  BY DEF TypeOK
<1>8. handled[i] \in Seq(Nat) /\ events \in Seq(Nat)
  <2>1. 1 .. Len(log) \subseteq Nat
    BY <1>6
  <2>2. QED BY <1>4, <1>7, <2>1, SeqMonotonic
<1>9. \A k \in EventsOf(i - 1, cursor[i]), n \in some : k < n
  <2>1. ASSUME NEW k \in EventsOf(i - 1, cursor[i]), NEW n \in some PROVE k < n
    <3>0. cursor[i] \in Nat
      BY <1>6
    <3>1. k \in Nat /\ k <= cursor[i]
      BY <2>1, <3>0, EventIds
    <3>2. n \in EventsOf(i - 1, Len(log)) /\ n > cursor[i]
      BY <1>4 DEF NewEvents
    <3>3. n \in Nat
      BY <1>6, <3>2, EventIds
    <3>4. QED BY <3>0, <3>1, <3>2, <3>3
  <2>2. QED BY <2>1
<1>10. Lists(handled[i] \o events, EventsOf(i - 1, cursor[i]) \union some)
  BY <1>2, <1>8, <1>9, ListsJoined
<1>11. events[Len(events)] > cursor[i]
  BY <1>4 DEF NewEvents
<1>12. EventsOf(i - 1, cursor[i]) \union some = EventsOf(i - 1, events[Len(events)])
  <2> DEFINE last == events[Len(events)]
  <2>1. /\ last \in Nat /\ last <= Len(log) /\ Len(log) \in Nat
        /\ cursor[i] \in Nat /\ cursor[i] <= Len(log) /\ cursor[i] < last
    <3>1. last \in 1 .. Len(log)
      BY <1>4
    <3>2. last > cursor[i]
      BY <1>11
    <3> HIDE DEF last
    <3>3. QED BY <1>6, <3>1, <3>2
  <2>2. some = {k \in EventsOf(i - 1, Len(log)) : k > cursor[i] /\ k <= last}
    BY <1>4 DEF NewEvents
  <2> HIDE DEF last
  <2>3. EventsOf(i - 1, cursor[i]) = {k \in EventsOf(i - 1, Len(log)) : k <= cursor[i]}
    BY <1>6, <2>1, EventsUpTo
  <2>4. EventsOf(i - 1, last) = {k \in EventsOf(i - 1, Len(log)) : k <= last}
    BY <1>6, <2>1, EventsUpTo
  <2>5. \A k \in EventsOf(i - 1, Len(log)) : k \in Nat
    BY <1>6, EventIds
  <2>6. EventsOf(i - 1, cursor[i]) \union some = EventsOf(i - 1, last)
    BY <2>1, <2>2, <2>3, <2>4, <2>5
  <2>7. QED BY <2>6 DEF last
<1>13. EventsOf(i - 1, cursor[i])' = EventsOf(i - 1, events[Len(events)])
  BY <1>3, <1>5 DEF EventsOf
<1>14. QED BY <1>5, <1>10, <1>12, <1>13 DEF Lists

(* Handling an event moves it from the batch to what has been handled. *)
LEMMA HandleMoves ==
  ASSUME TypeOK, NEW i \in Followers, Handle(i), batch[i] # <<>>
  PROVE  handled'[i] \o batch'[i] = handled[i] \o batch[i]
<1>1. handled[i] \in Seq(1 .. Len(log)) /\ batch[i] \in Seq(1 .. Len(log)) /\ Len(log) \in Nat
  BY DEF TypeOK
<1>2. handled[i] \in Seq(Nat) /\ batch[i] \in Seq(Nat)
  BY <1>1, SeqMonotonic
<1>3. handled'[i] = Append(handled[i], Head(batch[i])) /\ batch'[i] = Tail(batch[i])
  BY DEF Handle, TypeOK
<1>4. QED BY <1>2, <1>3, MoveHead

(* What a step does to one follower: it keeps its place, or it fetches. *)
LEMMA NextPlace ==
  ASSUME InOrder, [Next]_vars, NEW i \in Followers
  PROVE  \/ cursor'[i] = cursor[i] /\ handled'[i] \o batch'[i] = handled[i] \o batch[i]
         \/ Fetch(i) /\ NewEvents(i) # {} /\ batch[i] = <<>>
<1> DEFINE Goal == \/ cursor'[i] = cursor[i] /\ handled'[i] \o batch'[i] = handled[i] \o batch[i]
                   \/ Fetch(i) /\ NewEvents(i) # {} /\ batch[i] = <<>>
<1>0. TypeOK /\ Typed
  BY TypedOfTypeOK DEF InOrder
<1>1. CASE ReadersKept
  BY <1>1 DEF ReadersKept, readerVars
<1>2. ASSUME NEW p \in Followers, LoopHead(p) PROVE Goal
  BY <1>2 DEF LoopHead
<1>3. ASSUME NEW p \in Followers, Fetch(p) PROVE Goal
  <2>1. pc[p] \in Empty /\ UNCHANGED handled
    BY <1>3 DEF Fetch, Empty
  <2>2. batch[p] = <<>>
    BY <2>1 DEF InOrder, HandsEmpty
  <2>3. CASE NewEvents(p) = {}
    BY <1>3, <2>3 DEF Fetch
  <2>4. CASE NewEvents(p) # {} /\ p # i
    <3>1. cursor'[i] = cursor[i] /\ batch'[i] = batch[i]
      BY <1>0, <1>3, <2>4 DEF Fetch, TypeOK
    <3>2. QED BY <2>1, <3>1
  <2>5. QED BY <1>3, <2>2, <2>3, <2>4
<1>4. ASSUME NEW p \in Followers, Handle(p), batch[p] # <<>> PROVE Goal
  <2>1. UNCHANGED cursor
    BY <1>4 DEF Handle
  <2>2. CASE p = i
    BY <1>0, <1>4, <2>1, <2>2, HandleMoves
  <2>3. CASE p # i
    BY <1>0, <1>4, <2>1, <2>3 DEF Handle, TypeOK
  <2>4. QED BY <2>2, <2>3
<1>5. QED BY <1>0, <1>1, <1>2, <1>3, <1>4, NextReaders

LEMMA NextInOrder ==
  ASSUME InOrder, [Next]_vars
  PROVE  HandledInOrder'
<1>1. TypeOK /\ LogKept
  BY TypedOfTypeOK, NextLog DEF InOrder
<1>2. ASSUME NEW i \in Followers
      PROVE  Lists(handled[i] \o batch[i], EventsOf(i - 1, cursor[i]))'
  <2>1. Lists(handled[i] \o batch[i], EventsOf(i - 1, cursor[i]))
    BY DEF InOrder, HandledInOrder
  <2>2. CASE cursor'[i] = cursor[i] /\ handled'[i] \o batch'[i] = handled[i] \o batch[i]
    BY <1>1, <2>1, <2>2, KeepsPlace
  <2>3. CASE Fetch(i) /\ NewEvents(i) # {} /\ batch[i] = <<>>
    <3>1. handled[i] \o batch[i] = handled[i]
      BY <1>1, <2>3, ConcatEmptySeq DEF TypeOK
    <3>2. QED BY <1>1, <2>1, <2>3, <3>1, FetchContinues
  <2>4. QED BY <2>2, <2>3, NextPlace
<1>3. QED BY <1>2 DEF HandledInOrder

(* A fetch that returns nothing has met every event that there is. *)
LEMMA NothingLeft ==
  ASSUME TypeOK, NEW i \in Followers, NewEvents(i) = {}
  PROVE  EventsOf(i - 1, Len(log)) = EventsOf(i - 1, cursor[i])
<1>1. cursor[i] \in 0 .. Len(log) /\ Len(log) \in Nat
  BY DEF TypeOK
<1>2. QED BY <1>1 DEF NewEvents, EventsOf

LEMMA NextHandsEmpty ==
  ASSUME InOrder, [Next]_vars
  PROVE  HandsEmpty'
<1>0. TypeOK /\ Typed /\ LogKept /\ Followers \subseteq Steps
  BY TypedOfTypeOK, NextLog, FanOutAssumption
  DEF InOrder, FanOutAssumption, Followers, Steps
<1>1. SUFFICES ASSUME NEW i \in Followers
               PROVE  /\ pc'[i] \in Empty => batch'[i] = <<>>
                      /\ pc'[i] \in Asking =>
                           (EventsOf(i - 1, drainedTo[i]) = EventsOf(i - 1, cursor[i]))'
  BY DEF HandsEmpty
<1> DEFINE Goal == /\ pc'[i] \in Empty => batch'[i] = <<>>
                   /\ pc'[i] \in Asking =>
                        (EventsOf(i - 1, drainedTo[i]) = EventsOf(i - 1, cursor[i]))'
<1>2. /\ pc[i] \in Empty => batch[i] = <<>>
      /\ pc[i] \in Asking => EventsOf(i - 1, drainedTo[i]) = EventsOf(i - 1, cursor[i])
  BY DEF InOrder, HandsEmpty
<1>3. ASSUME cursor'[i] = cursor[i], drainedTo'[i] = drainedTo[i], batch'[i] = batch[i],
             pc'[i] \in Empty => pc[i] \in Empty \/ batch[i] = <<>>,
             pc'[i] \in Asking => pc[i] \in Asking
      PROVE  Goal
  BY <1>0, <1>2, <1>3, KeepsDrained
<1>4. CASE ReadersKept
  BY <1>3, <1>4 DEF ReadersKept, readerVars
<1>5. ASSUME NEW p \in Followers \ {i}, LoopHead(p) \/ Fetch(p) \/ Handle(p) PROVE Goal
  <2>1. /\ pc'[i] = pc[i] /\ cursor'[i] = cursor[i] /\ drainedTo'[i] = drainedTo[i]
        /\ batch'[i] = batch[i]
    BY <1>0, <1>5 DEF LoopHead, Fetch, Handle, To, TypeOK
  <2>2. QED BY <1>3, <2>1
<1>6. CASE LoopHead(i)
  <2>1. pc[i] \in Empty /\ batch' = batch /\ pc'[i] \in {"complete", "fetch"}
    BY <1>0, <1>6 DEF LoopHead, To, Empty, Typed
  <2>2. QED BY <1>2, <2>1 DEF Asking
<1>7. CASE Fetch(i) /\ NewEvents(i) = {}
  <2>1. /\ pc[i] \in Empty /\ UNCHANGED <<log, batch, cursor>>
        /\ drainedTo'[i] = Len(log)
    BY <1>0, <1>7 DEF Fetch, Empty, TypeOK
  <2>2. EventsOf(i - 1, Len(log)) = EventsOf(i - 1, cursor[i])
    BY <1>0, <1>7, NothingLeft
  <2>3. (EventsOf(i - 1, drainedTo[i]) = EventsOf(i - 1, cursor[i]))'
    BY <2>1, <2>2 DEF EventsOf
  <2>4. QED BY <1>2, <2>1, <2>3
<1>8. CASE Fetch(i) /\ NewEvents(i) # {}
  <2>1. To(i, "work")
    BY <1>8 DEF Fetch
  <2>2. pc'[i] = "work"
    BY <1>0, <2>1 DEF To, Typed
  <2>3. QED BY <2>2 DEF Empty, Asking
<1>9. CASE Handle(i) /\ batch[i] # <<>>
  <2>1. pc' = pc /\ pc[i] = "work"
    BY <1>9 DEF Handle
  <2>2. QED BY <2>1 DEF Empty, Asking
<1>10. QED
  BY <1>0, <1>4, <1>5, <1>6, <1>7, <1>8, <1>9, NextReaders

LEMMA InitInOrder == Init => InOrder
<1> SUFFICES ASSUME Init PROVE InOrder
  OBVIOUS
<1>1. TypeOK
  BY InitTypeOK
<1>2. /\ log = <<>> /\ Len(log) = 0
      /\ \A i \in Followers : /\ pc[i] = "none" /\ cursor[i] = 0
                              /\ batch[i] = <<>> /\ handled[i] = <<>>
  BY FanOutAssumption DEF FanOutAssumption, Init, Followers, Steps
<1>3. \A i \in Followers : handled[i] \o batch[i] = <<>>
  BY <1>2
<1>4. \A i \in Followers : EventsOf(i - 1, cursor[i]) = {}
  BY <1>2 DEF EventsOf
<1>5. HandsEmpty
  BY <1>2 DEF HandsEmpty, Asking
<1>6. Lists(<<>>, {})
  BY DEF Lists
<1>7. QED BY <1>1, <1>3, <1>4, <1>5, <1>6 DEF InOrder, HandledInOrder

(* The inductive invariant from which the next two follow: types, order, and nothing   *)
(* left behind by a follower that has its hands empty.                                 *)
THEOREM FollowersInOrder == Spec => []InOrder
<1>1. InOrder /\ [Next]_vars => InOrder'
  <2>1. InOrder /\ [Next]_vars => TypeOK'
    BY NextTypeOK DEF InOrder
  <2>2. QED BY <2>1, NextInOrder, NextHandsEmpty DEF InOrder
<1>2. QED BY <1>1, InitInOrder, PTL DEF Spec

(* HandledInOrder: for a pipeline of any length and any batch limit, what a follower  *)
(* has handled and has in hand is what its parent emitted up to its cursor.           *)
THEOREM EventsHandledInOrder == Spec => []HandledInOrder
<1>1. InOrder => HandledInOrder
  BY DEF InOrder
<1>2. QED BY <1>1, FollowersInOrder, PTL

(* MissesOnlyTheWindow: a follower that finds its parent done has handled everything  *)
(* that its parent had published before the follower's last fetch.                    *)
THEOREM OnlyTheWindowIsMissed == Spec => []MissesOnlyTheWindow
<1>1. InOrder => MissesOnlyTheWindow
  <2> SUFFICES ASSUME InOrder, NEW i \in Followers, pc[i] = "parentDone"
               PROVE  Lists(handled[i], EventsOf(i - 1, drainedTo[i]))
    BY DEF MissesOnlyTheWindow
  <2>1. /\ batch[i] = <<>>
        /\ EventsOf(i - 1, drainedTo[i]) = EventsOf(i - 1, cursor[i])
    BY DEF InOrder, HandsEmpty, Empty, Asking
  <2>2. handled[i] \o batch[i] = handled[i]
    BY <2>1, ConcatEmptySeq DEF InOrder, TypeOK
  <2>3. Lists(handled[i] \o batch[i], EventsOf(i - 1, cursor[i]))
    BY DEF InOrder, HandledInOrder
  <2>4. QED BY <2>1, <2>2, <2>3
<1>2. QED BY <1>1, FollowersInOrder, PTL
=============================================================================
