------------------------ MODULE FrameworkRequestsProofs ------------------------
(***************************************************************************)
(* Proofs about FrameworkRequests, for any shells and databases, any size  *)
(* of a fetch, and any bounds.                                             *)
(***************************************************************************)
EXTENDS FrameworkRequests, TLAPS

-----------------------------------------------------------------------------
(* What is said of one session, with the log of its database.  An action changes one      *)
(* session, or lets a log grow, so every fact below has to be shown for one record only.  *)

\* Where a session is, and what it has in hand.
Placed(r, l) ==
  /\ r \in Session
  /\ r.pc = "off" => r = Off(r.db, r.tenure)
  /\ r.pc = "process" => /\ r.afterId \in r.handled
                         /\ r.afterId \in 1 .. Len(l) /\ l[r.afterId] = "process"
  /\ r.pc # "command" => ~ r.replaced
  /\ r.left = 0 <=> r.pc \in {"off", "prompt", "command"}
  /\ r.upto <= Len(l)
  /\ r.pc \notin {"drain", "process"} => r.upto = 0

\* What the cursor has passed was taken.
Passed(r) ==
  r.pc # "off" /\ ~ r.alien => \A k \in r.start + 1 .. r.afterId : k \in r.handled

\* A command's requests are in the log, and in this tenure.
Owned(r, l) ==
  /\ ~ r.alien => r.start <= Len(l)
  /\ \A k \in r.mine : k \in 1 .. Len(l) /\ (~ r.alien => k > r.start)

Covered(r, n) == \A k \in r.mine : k <= n

\* How far the drains have come.  A drain that begins at the cursor n comes to n + Limit,
\* or to the end of what a command had asked for.
Drained(r) ==
  2 * Limit >= MaxRequests /\ ~ r.alien =>
    /\ r.pc = "prompt" => Covered(r, r.afterId)
    /\ r.left = 1 /\ r.upto = 0 => Covered(r, r.afterId) \/ r.afterId >= Limit
    /\ r.left = 1 /\ r.upto > 0 => Covered(r, r.upto)
    /\ r.left \in {2, 3} /\ r.upto > 0 => Covered(r, r.upto) \/ r.upto >= Limit

Sound(r, l) == Placed(r, l) /\ Passed(r) /\ Owned(r, l) /\ Drained(r)

Logs == /\ log \in [Databases -> Seq(Kinds)]
        /\ \A d \in Databases : Len(log[d]) <= MaxRequests

Inv == Logs /\ shell \in [Shells -> Session] /\ \A s \in Shells : Sound(shell[s], Log(s))

-----------------------------------------------------------------------------
(* Frames. *)

LEMMA SessionFields ==
  ASSUME NEW r \in Session
  PROVE  /\ r.pc \in PC /\ r.db \in Databases /\ r.tenure \in Nat /\ r.afterId \in Nat
         /\ r.handled \subseteq Nat /\ r.left \in 0 .. 3 /\ r.upto \in Nat
         /\ r.replaced \in BOOLEAN /\ r.alien \in BOOLEAN /\ r.start \in Nat
         /\ r.mine \subseteq Nat
BY DEF Session

\* A log that grows disturbs nobody.
LEMMA SoundAppended ==
  ASSUME NEW r, NEW l \in Seq(Kinds), NEW kind \in Kinds, Sound(r, l)
  PROVE  Sound(r, Append(l, kind))
<1>1. Len(Append(l, kind)) = Len(l) + 1 /\ Len(l) \in Nat
  OBVIOUS
<1>2. \A k \in 1 .. Len(l) : Append(l, kind)[k] = l[k]
  OBVIOUS
<1>3. Placed(r, Append(l, kind))
  BY <1>1, <1>2, SessionFields DEF Sound, Placed
<1>4. Owned(r, Append(l, kind))
  BY <1>1, SessionFields DEF Sound, Placed, Owned
<1>. QED BY <1>3, <1>4 DEF Sound

\* An action of one session that leaves the logs alone.
LEMMA OneSession ==
  ASSUME Inv, UNCHANGED log, NEW s \in Shells, NEW r, Become(s, r), Sound(r, log[r.db])
  PROVE  Inv'
<1>1. r \in Session
  BY DEF Sound, Placed
<1>2. shell' \in [Shells -> Session]
  BY <1>1 DEF Inv, Become
<1>3. \A t \in Shells : shell'[t] = IF t = s THEN r ELSE shell[t]
  BY DEF Inv, Become
<1>4. \A t \in Shells : Sound(shell'[t], log'[shell'[t].db])
  BY <1>3 DEF Inv, Log
<1>5. Logs'
  BY DEF Inv, Logs
<1>. QED BY <1>2, <1>4, <1>5 DEF Inv, Log

LEMMA RequestGrows ==
  ASSUME Logs, NEW d \in Databases, NEW kind \in Kinds, Request(d, kind)
  PROVE  /\ Logs'
         /\ \A c \in Databases : log'[c] = IF c = d THEN Append(log[c], kind) ELSE log[c]
<1>1. log[d] \in Seq(Kinds) /\ Len(Append(log[d], kind)) = Len(log[d]) + 1
      /\ Append(log[d], kind) \in Seq(Kinds)
  BY DEF Logs
<1>2. log' \in [Databases -> Seq(Kinds)]
  BY <1>1 DEF Logs, Request
<1>3. \A c \in Databases : log'[c] = IF c = d THEN Append(log[c], kind) ELSE log[c]
  BY DEF Logs, Request
<1>4. Len(log[d]) < MaxRequests /\ MaxRequests \in Nat /\ Len(log[d]) \in Nat
  BY <1>1, BoundsAssumption DEF Request
<1>5. \A c \in Databases : Len(log'[c]) <= MaxRequests
  <2>0. log'[d] = Append(log[d], kind)
    BY <1>3
  <2>1. Len(log'[d]) <= MaxRequests
    BY <1>1, <1>4, <2>0
  <2>. QED BY <1>3, <2>1 DEF Logs
<1>. QED BY <1>2, <1>3, <1>5 DEF Logs

-----------------------------------------------------------------------------
(* The changes of a session. *)

LEMMA DrainingSound ==
  ASSUME NEW l \in Seq(Kinds), NEW r \in Session, NEW n \in 0 .. 3, ~ r.replaced,
         r.pc # "off", Passed(r), Owned(r, l),
         n = 0 => (2 * Limit >= MaxRequests /\ ~ r.alien => Covered(r, r.afterId)),
         n = 1 => (2 * Limit >= MaxRequests /\ ~ r.alien =>
                     Covered(r, r.afterId) \/ r.afterId >= Limit)
  PROVE  Sound(Draining(r, n), l)
<1> DEFINE q == Draining(r, n)
<1>1. q \in Session
  BY DEF Draining, Session, PC
<1>2. /\ q.pc = (IF n = 0 THEN "prompt" ELSE "drain") /\ q.left = n /\ q.upto = 0
      /\ q.afterId = r.afterId /\ q.handled = r.handled /\ q.replaced = r.replaced
      /\ q.alien = r.alien /\ q.start = r.start /\ q.mine = r.mine
  BY DEF Draining, Session
<1>3. Len(l) \in Nat
  OBVIOUS
<1>. HIDE DEF q
<1>4. Placed(q, l)
  BY <1>1, <1>2, <1>3 DEF Placed
<1>5. Passed(q)
  BY <1>2 DEF Passed
<1>6. Owned(q, l)
  BY <1>2 DEF Owned
<1>7. Drained(q)
  BY <1>2 DEF Drained, Covered
<1>. QED BY <1>4, <1>5, <1>6, <1>7 DEF Sound, q

LEMMA OffSound ==
  ASSUME NEW l \in Seq(Kinds), NEW d \in Databases, NEW tenure \in Nat
  PROVE  Sound(Off(d, tenure), l)
<1> DEFINE q == Off(d, tenure)
<1>1. q \in Session
  BY DEF Off, Session, PC
<1>2. /\ q.pc = "off" /\ q.db = d /\ q.tenure = tenure /\ q.left = 0 /\ q.upto = 0
      /\ ~ q.replaced /\ q.start = 0 /\ q.mine = {}
  BY DEF Off
<1>3. Len(l) \in Nat
  OBVIOUS
<1>. HIDE DEF q
<1>4. Placed(q, l)
  BY <1>1, <1>2, <1>3 DEF Placed, q
<1>. QED BY <1>2, <1>3, <1>4 DEF Sound, Passed, Owned, Drained, Covered, q

\* Taking the next request of a batch.
LEMMA TakeFields ==
  ASSUME NEW r \in Session, NEW k \in Nat, k = r.afterId + 1
  PROVE  LET q == Take(r, k) IN
         /\ q \in Session /\ q.afterId = k /\ q.handled = r.handled \union {k}
         /\ q.pc = r.pc /\ q.db = r.db /\ q.tenure = r.tenure /\ q.left = r.left
         /\ q.upto = r.upto /\ q.replaced = r.replaced /\ q.alien = r.alien
         /\ q.start = r.start /\ q.mine = r.mine
<1>1. Larger(r.afterId, k) = k
  BY SessionFields DEF Larger
<1>2. Take(r, k) = [r EXCEPT !.afterId = k, !.handled = r.handled \union {k}]
  BY <1>1, Zenon DEF Take
<1>3. r.handled \union {k} \subseteq Nat
  BY SessionFields
<1>4. Take(r, k) \in Session
  BY <1>2, <1>3 DEF Session
<1>. QED BY <1>2, <1>4 DEF Session

LEMMA TakeSound ==
  ASSUME NEW r, NEW l \in Seq(Kinds), Sound(r, l), NEW k \in Nat,
         k = r.afterId + 1, k <= r.upto, r.pc = "drain"
  PROVE  Sound(Take(r, k), l)
<1> DEFINE q == Take(r, k)
<1>0. r \in Session /\ r.upto \in Nat /\ r.afterId \in Nat /\ r.start \in Nat
  BY SessionFields DEF Sound, Placed
<1>1. /\ q \in Session /\ q.afterId = k /\ q.handled = r.handled \union {k}
      /\ q.pc = r.pc /\ q.left = r.left /\ q.upto = r.upto /\ q.replaced = r.replaced
      /\ q.alien = r.alien /\ q.start = r.start /\ q.mine = r.mine
  BY <1>0, TakeFields
<1>. HIDE DEF q
<1>2. Placed(q, l)
  BY <1>1 DEF Sound, Placed
<1>3. Passed(q)
  BY <1>0, <1>1 DEF Sound, Passed
<1>4. Owned(q, l)
  BY <1>1 DEF Sound, Owned
<1>5. Drained(q)
  BY <1>0, <1>1 DEF Sound, Drained, Covered
<1>. QED BY <1>2, <1>3, <1>4, <1>5 DEF Sound, q

\* A session at the beginning: the log is behind it.
LEMMA BegunFields ==
  ASSUME NEW d \in Databases, NEW tenure \in Nat, NEW newest \in Nat
  PROVE  LET q == Begun(d, tenure, newest) IN
         /\ q \in Session /\ q.pc = "drain" /\ q.db = d /\ q.tenure = tenure
         /\ q.afterId = newest /\ q.start = newest /\ q.handled = {} /\ q.mine = {}
         /\ ~ q.replaced /\ ~ q.alien
<1>1. Off(d, tenure) \in Session
  BY DEF Off, Session, PC
<1>2. LET r == Off(d, tenure) IN
      /\ r.db = d /\ r.tenure = tenure /\ r.handled = {} /\ r.mine = {}
      /\ ~ r.replaced /\ ~ r.alien
  BY DEF Off
<1>3. PICK r \in Session : r = Off(d, tenure)
  BY <1>1
<1>4. Begun(d, tenure, newest) =
        [r EXCEPT !.pc = "drain", !.afterId = newest, !.start = newest]
  BY <1>3, Zenon DEF Begun
<1>5. Begun(d, tenure, newest) \in Session
  BY <1>4 DEF Session, PC
<1>. QED BY <1>2, <1>3, <1>4, <1>5 DEF Session

LEMMA GivenFields ==
  ASSUME NEW r \in Session
  PROVE  LET q == Given(r) IN
         /\ q \in Session /\ q.pc = "command" /\ q.mine = {} /\ q.db = r.db
         /\ q.tenure = r.tenure /\ q.afterId = r.afterId /\ q.handled = r.handled
         /\ q.left = r.left /\ q.upto = r.upto /\ q.replaced = r.replaced
         /\ q.alien = r.alien /\ q.start = r.start
BY DEF Given, Session, PC

LEMMA MovedFields ==
  ASSUME NEW r \in Session, NEW d \in Databases
  PROVE  LET q == Moved(r, d) IN
         /\ q \in Session /\ q.db = d /\ q.tenure = r.tenure + 1 /\ q.alien /\ q.mine = {}
         /\ q.pc = r.pc /\ q.afterId = r.afterId /\ q.handled = r.handled
         /\ q.left = r.left /\ q.upto = r.upto /\ q.replaced = r.replaced
         /\ q.start = r.start
<1>1. PICK t \in Nat : t = r.tenure + 1
  BY SessionFields
<1>2. Moved(r, d) = [r EXCEPT !.db = d, !.tenure = t, !.alien = TRUE, !.mine = {}]
  BY <1>1, Zenon DEF Moved
<1>3. Moved(r, d) \in Session
  BY <1>2 DEF Session
<1>. QED BY <1>1, <1>2, <1>3 DEF Session

LEMMA ResetFields ==
  ASSUME NEW r \in Session
  PROVE  LET q == ResetCursor(r) IN
         /\ q \in Session /\ q.afterId = 0 /\ q.handled = {} /\ ~ q.alien /\ q.start = 0
         /\ q.pc = r.pc /\ q.db = r.db /\ q.tenure = r.tenure /\ q.left = r.left
         /\ q.upto = r.upto /\ q.replaced = r.replaced /\ q.mine = r.mine
BY DEF ResetCursor, Session

LEMMA DrainingFields ==
  ASSUME NEW r \in Session, NEW n \in 0 .. 3
  PROVE  LET q == Draining(r, n) IN
         /\ q \in Session /\ q.pc = (IF n = 0 THEN "prompt" ELSE "drain") /\ q.left = n
         /\ q.upto = 0 /\ q.afterId = r.afterId /\ q.handled = r.handled
         /\ q.replaced = r.replaced /\ q.alien = r.alien /\ q.start = r.start
         /\ q.mine = r.mine /\ q.db = r.db /\ q.tenure = r.tenure
BY DEF Draining, Session, PC

\* The end of a process, and the end of a command.
LEMMA BackFields ==
  ASSUME NEW r \in Session
  PROVE  LET q == [r EXCEPT !.pc = "drain"] IN
         /\ q \in Session /\ q.pc = "drain" /\ q.db = r.db /\ q.tenure = r.tenure
         /\ q.afterId = r.afterId /\ q.handled = r.handled /\ q.left = r.left
         /\ q.upto = r.upto /\ q.replaced = r.replaced /\ q.alien = r.alien
         /\ q.start = r.start /\ q.mine = r.mine
BY DEF Session, PC

LEMMA UnmarkedFields ==
  ASSUME NEW r \in Session
  PROVE  LET q == [r EXCEPT !.replaced = FALSE] IN
         /\ q \in Session /\ ~ q.replaced /\ q.pc = r.pc /\ q.db = r.db
         /\ q.tenure = r.tenure /\ q.afterId = r.afterId /\ q.handled = r.handled
         /\ q.left = r.left /\ q.upto = r.upto /\ q.alien = r.alien
         /\ q.start = r.start /\ q.mine = r.mine
BY DEF Session

-----------------------------------------------------------------------------
(* The drain. *)

LEMMA SessionSound ==
  ASSUME Inv, NEW s \in Shells
  PROVE  /\ shell[s] \in Session /\ Log(s) \in Seq(Kinds) /\ Sound(shell[s], Log(s))
         /\ Log(s) = log[shell[s].db] /\ Len(Log(s)) \in Nat /\ Len(Log(s)) <= MaxRequests
<1>1. shell[s] \in Session /\ Sound(shell[s], Log(s))
  BY DEF Inv
<1>2. shell[s].db \in Databases
  BY <1>1, SessionFields
<1>. QED BY <1>1, <1>2 DEF Inv, Logs, Log

LEMMA FetchInv ==
  ASSUME Inv, NEW s \in Shells, Fetch(s)
  PROVE  Inv'
<1>1. PICK r \in Session : r = shell[s]
  BY SessionSound
<1>2. PICK l \in Seq(Kinds) : l = Log(s)
  BY SessionSound
<1>3. Sound(r, l) /\ l = log[r.db] /\ Len(l) \in Nat /\ Len(l) <= MaxRequests
  BY <1>1, <1>2, SessionSound
<1>4. /\ r.pc = "drain" /\ r.upto = 0 /\ Len(l) > r.afterId /\ r.afterId \in Nat
      /\ r.left \in 0 .. 3 /\ r.mine \subseteq Nat
  BY <1>1, <1>2, SessionFields DEF Fetch, At
<1>5. PICK u \in Nat : u = Smaller(Len(l), r.afterId + Limit)
  BY <1>3, <1>4, LimitAssumption DEF Smaller
<1>6. u <= Len(l) /\ u > 0 /\ (u = Len(l) \/ u = r.afterId + Limit)
  BY <1>3, <1>4, <1>5, LimitAssumption DEF Smaller
<1>7. PICK q : q = [r EXCEPT !.upto = u]
  OBVIOUS
<1>8. /\ q \in Session /\ q.upto = u /\ q.pc = r.pc /\ q.db = r.db /\ q.afterId = r.afterId
      /\ q.handled = r.handled /\ q.left = r.left /\ q.replaced = r.replaced
      /\ q.alien = r.alien /\ q.start = r.start /\ q.mine = r.mine
  BY <1>7 DEF Session
<1>9. Placed(q, l) /\ Passed(q) /\ Owned(q, l)
  BY <1>3, <1>4, <1>6, <1>8 DEF Sound, Placed, Passed, Owned
<1>10. Drained(q)
  <2>1. SUFFICES ASSUME 2 * Limit >= MaxRequests, ~ r.alien
                 PROVE  /\ r.left = 1 => Covered(q, u)
                        /\ r.left \in {2, 3} => Covered(q, u) \/ u >= Limit
    BY <1>4, <1>6, <1>8 DEF Drained
  <2>2. u = Len(l) => Covered(q, u)
    BY <1>3, <1>8 DEF Sound, Owned, Covered
  <2>3. CASE u = r.afterId + Limit
    <3>1. u >= Limit
      BY <1>4, <2>3, LimitAssumption
    <3>2. Covered(r, r.afterId) => Covered(q, u)
      BY <1>4, <1>8, <2>3, LimitAssumption DEF Covered
    <3>3. r.afterId >= Limit => u >= Len(l)
      BY <1>3, <1>4, <2>1, <2>3, LimitAssumption, BoundsAssumption
    <3>4. r.left = 1 => Covered(r, r.afterId) \/ r.afterId >= Limit
      BY <1>3, <1>4, <2>1 DEF Sound, Drained
    <3>. QED BY <1>3, <1>6, <2>2, <3>1, <3>2, <3>3, <3>4
  <2>. QED BY <1>6, <2>2, <2>3
<1>11. Become(s, q) /\ UNCHANGED log
  BY <1>1, <1>2, <1>5, <1>7 DEF Fetch
<1>. QED BY <1>3, <1>8, <1>9, <1>10, <1>11, OneSession DEF Sound

\* The batch's next request, skipped, handled, or given to a process.
LEMMA BatchInv ==
  ASSUME Inv, NEW s \in Shells, NEW k \in 1 .. MaxRequests,
         Skip(s, k) \/ Handle(s, k) \/ RunProcess(s, k)
  PROVE  Inv'
<1>1. PICK r \in Session : r = shell[s]
  BY SessionSound
<1>2. PICK l \in Seq(Kinds) : l = Log(s)
  BY SessionSound
<1>3. Sound(r, l) /\ l = log[r.db] /\ Len(l) \in Nat
  BY <1>1, <1>2, SessionSound
<1>4. /\ r.pc = "drain" /\ k = r.afterId + 1 /\ k <= r.upto /\ k \in Nat
      /\ UNCHANGED log
  BY <1>1, BoundsAssumption DEF Skip, Handle, RunProcess, InBatch, At
<1>5. PICK q \in Session : q = Take(r, k)
  BY <1>4, TakeFields
<1>6. Sound(q, l) /\ q.db = r.db /\ q.pc = "drain"
      /\ q.afterId = k /\ q.handled = r.handled \union {k}
  BY <1>3, <1>4, <1>5, TakeSound, TakeFields
<1>7. CASE Become(s, q)
  BY <1>3, <1>4, <1>6, <1>7, OneSession
<1>8. CASE Become(s, [q EXCEPT !.pc = "process"]) /\ l[k] = "process"
  <2>1. PICK t : t = [q EXCEPT !.pc = "process"]
    OBVIOUS
  <2>2. /\ t \in Session /\ t.pc = "process" /\ t.db = q.db /\ t.afterId = q.afterId
        /\ t.handled = q.handled /\ t.left = q.left /\ t.upto = q.upto
        /\ t.replaced = q.replaced /\ t.alien = q.alien /\ t.start = q.start
        /\ t.mine = q.mine
    BY <2>1 DEF Session, PC
  <2>3. Placed(t, l)
    <3>1. r.upto <= Len(l) /\ r.upto \in Nat
      BY <1>3, SessionFields DEF Sound, Placed
    <3>2. k \in 1 .. Len(l)
      BY <1>3, <1>4, <3>1
    <3>. QED BY <1>6, <1>8, <2>2, <3>2 DEF Sound, Placed
  <2>4. Passed(t) /\ Owned(t, l) /\ Drained(t)
    BY <1>6, <2>2 DEF Sound, Passed, Owned, Drained, Covered
  <2>. QED BY <1>3, <1>4, <1>6, <1>8, <2>1, <2>2, <2>3, <2>4, OneSession DEF Sound
<1>. QED BY <1>1, <1>2, <1>5, <1>7, <1>8 DEF Skip, Handle, RunProcess

\* The session in the drain again, with a request handled.
LEMMA BackSound ==
  ASSUME NEW r \in Session, NEW l \in Seq(Kinds), Sound(r, l), r.pc = "process"
  PROVE  Sound([r EXCEPT !.pc = "drain"], l)
<1>1. PICK q \in Session : q = [r EXCEPT !.pc = "drain"]
  BY BackFields
<1>2. /\ q.pc = "drain" /\ q.db = r.db /\ q.afterId = r.afterId /\ q.handled = r.handled
      /\ q.left = r.left /\ q.upto = r.upto /\ q.replaced = r.replaced /\ q.alien = r.alien
      /\ q.start = r.start /\ q.mine = r.mine
  BY <1>1, BackFields
<1>3. Placed(q, l) /\ Passed(q) /\ Owned(q, l) /\ Drained(q)
  BY <1>2 DEF Sound, Placed, Passed, Owned, Drained, Covered
<1>. QED BY <1>1, <1>3 DEF Sound

LEMMA PublishRunInv ==
  ASSUME Inv, NEW s \in Shells, PublishRun(s)
  PROVE  Inv'
<1>1. PICK r \in Session : r = shell[s]
  BY SessionSound
<1>2. Sound(r, log[r.db]) /\ log[r.db] \in Seq(Kinds) /\ r.pc = "process"
  BY <1>1, SessionSound DEF PublishRun, At
<1>3. PICK q : q = [r EXCEPT !.pc = "drain"]
  OBVIOUS
<1>4. Sound(q, log[q.db])
  BY <1>2, <1>3, BackSound, BackFields
<1>. QED BY <1>1, <1>3, <1>4, OneSession DEF PublishRun

\* A handler that raises in a command leaves two drains; elsewhere the shell is gone.
LEMMA RaisedSound ==
  ASSUME NEW r \in Session, NEW l \in Seq(Kinds), Sound(r, l), r.pc = "drain"
  PROVE  Raised(r).db = r.db /\ Sound(Raised(r), l)
<1>1. CASE r.left = 3
  <2>1. Sound(Draining(r, 2), l)
    BY DrainingSound DEF Sound, Placed
  <2>2. Draining(r, 2).db = r.db
    BY DrainingFields
  <2>. QED BY <1>1, <2>1, <2>2 DEF Raised
<1>2. CASE r.left # 3
  <2>1. Sound(Off(r.db, r.tenure), l)
    BY OffSound, SessionFields
  <2>2. Off(r.db, r.tenure).db = r.db
    BY DEF Off
  <2>. QED BY <1>2, <2>1, <2>2 DEF Raised
<1>. QED BY <1>1, <1>2

LEMMA HandlerRaisesInv ==
  ASSUME Inv, NEW s \in Shells, NEW k \in 1 .. MaxRequests, HandlerRaises(s, k)
  PROVE  Inv'
<1>1. PICK r \in Session : r = shell[s]
  BY SessionSound
<1>2. PICK l \in Seq(Kinds) : l = Log(s)
  BY SessionSound
<1>3. Sound(r, l) /\ l = log[r.db] /\ UNCHANGED log
  BY <1>1, <1>2, SessionSound DEF HandlerRaises
<1>4. CASE At(s, "process") /\ Become(s, Raised([r EXCEPT !.pc = "drain"]))
  <2>1. PICK q \in Session : q = [r EXCEPT !.pc = "drain"]
    BY BackFields
  <2>2. Sound(q, l) /\ q.pc = "drain" /\ q.db = r.db
    BY <1>1, <1>3, <1>4, <2>1, BackSound, BackFields DEF At
  <2>. QED BY <1>3, <1>4, <2>1, <2>2, RaisedSound, OneSession
<1>5. CASE InBatch(s, k) /\ Become(s, Raised(Take(r, k)))
  <2>1. k = r.afterId + 1 /\ k <= r.upto /\ k \in Nat /\ r.pc = "drain"
    BY <1>1, <1>5, BoundsAssumption DEF InBatch, At
  <2>2. PICK q \in Session : q = Take(r, k)
    BY <2>1, TakeFields
  <2>3. Sound(q, l) /\ q.pc = "drain" /\ q.db = r.db
    BY <1>3, <2>1, <2>2, TakeSound, TakeFields
  <2>. QED BY <1>3, <1>5, <2>2, <2>3, RaisedSound, OneSession
<1>. QED BY <1>1, <1>4, <1>5 DEF HandlerRaises

LEMMA DrainEndsInv ==
  ASSUME Inv, NEW s \in Shells, DrainEnds(s)
  PROVE  Inv'
<1>1. PICK r \in Session : r = shell[s]
  BY SessionSound
<1>2. PICK l \in Seq(Kinds) : l = Log(s)
  BY SessionSound
<1>3. Sound(r, l) /\ l = log[r.db] /\ Len(l) \in Nat
  BY <1>1, <1>2, SessionSound
<1>4. /\ r.pc = "drain" /\ r.left \in 1 .. 3 /\ r.afterId \in Nat /\ r.upto \in Nat
      /\ ~ r.replaced /\ r.mine \subseteq Nat
  BY <1>1, <1>3, SessionFields DEF DrainEnds, At, Sound, Placed
<1>5. PICK n \in 0 .. 2 : n = r.left - 1
  BY <1>4
<1>6. IF r.upto = 0 THEN r.afterId >= Len(l) ELSE r.afterId >= r.upto
  BY <1>1, <1>2 DEF DrainEnds
<1>7. r.upto = 0 => Covered(r, r.afterId)
  BY <1>3, <1>4, <1>6 DEF Sound, Owned, Covered
<1>8. Covered(r, r.upto) /\ r.upto # 0 => Covered(r, r.afterId)
  BY <1>4, <1>6 DEF Covered
<1>9. r.upto >= Limit /\ r.upto # 0 => r.afterId >= Limit
  BY <1>4, <1>6, LimitAssumption
<1>10. n = 0 => (2 * Limit >= MaxRequests /\ ~ r.alien => Covered(r, r.afterId))
  BY <1>3, <1>4, <1>5, <1>7, <1>8 DEF Sound, Drained
<1>11. n = 1 => (2 * Limit >= MaxRequests /\ ~ r.alien =>
                   Covered(r, r.afterId) \/ r.afterId >= Limit)
  BY <1>3, <1>4, <1>5, <1>7, <1>8, <1>9 DEF Sound, Drained
<1>12. Sound(Draining(r, n), l) /\ Draining(r, n).db = r.db
  BY <1>3, <1>4, <1>10, <1>11, DrainingSound, DrainingFields DEF Sound
<1>. QED BY <1>1, <1>3, <1>5, <1>12, OneSession DEF DrainEnds

-----------------------------------------------------------------------------
(* The lines of a session. *)

LEMMA StartInv ==
  ASSUME Inv, NEW s \in Shells, Start(s)
  PROVE  Inv'
<1>1. /\ shell[s].db \in Databases /\ shell[s].tenure + 1 \in Nat
      /\ Log(s) \in Seq(Kinds) /\ Len(Log(s)) \in Nat /\ Log(s) = log[shell[s].db]
  BY SessionSound, SessionFields
<1>2. PICK q \in Session : q = Begun(shell[s].db, shell[s].tenure + 1, Len(Log(s)))
  BY <1>1, BegunFields
<1>3. /\ q.pc = "drain" /\ q.db = shell[s].db /\ q.afterId = Len(Log(s))
      /\ q.start = Len(Log(s)) /\ q.mine = {} /\ ~ q.replaced /\ ~ q.alien
  BY <1>1, <1>2, BegunFields
<1>4. Passed(q) /\ Owned(q, Log(s)) /\ Covered(q, q.afterId)
  BY <1>1, <1>3 DEF Passed, Owned, Covered
<1>5. Sound(Draining(q, 1), Log(s)) /\ Draining(q, 1).db = q.db
  BY <1>1, <1>3, <1>4, DrainingSound, DrainingFields
<1>. QED BY <1>1, <1>2, <1>3, <1>5, OneSession DEF Start

LEMMA CommandInv ==
  ASSUME Inv, NEW s \in Shells, Command(s)
  PROVE  Inv'
<1>1. PICK r \in Session : r = shell[s]
  BY SessionSound
<1>2. Sound(r, log[r.db]) /\ r.pc = "prompt"
  BY <1>1, SessionSound DEF Command, At
<1>3. PICK q \in Session : q = Given(r)
  BY GivenFields
<1>4. /\ q.pc = "command" /\ q.mine = {} /\ q.db = r.db /\ q.afterId = r.afterId
      /\ q.handled = r.handled /\ q.left = r.left /\ q.upto = r.upto
      /\ q.replaced = r.replaced /\ q.alien = r.alien /\ q.start = r.start
  BY <1>3, GivenFields
<1>5. Sound(q, log[q.db])
  BY <1>2, <1>4 DEF Sound, Placed, Passed, Owned, Drained
<1>. QED BY <1>1, <1>3, <1>5, OneSession DEF Command

LEMMA CommandRequestsInv ==
  ASSUME Inv, NEW s \in Shells, NEW kind \in Kinds, CommandRequests(s, kind)
  PROVE  Inv'
<1>1. PICK r \in Session : r = shell[s]
  BY SessionSound
<1>2. PICK d \in Databases : d = r.db
  BY SessionFields
<1>3. PICK l \in Seq(Kinds) : l = log[d]
  BY <1>1, <1>2, SessionSound
<1>4. /\ Sound(r, l) /\ r.pc = "command" /\ Request(d, kind) /\ Len(l) \in Nat
      /\ Become(s, [r EXCEPT !.mine = @ \union {Len(l) + 1}])
  BY <1>1, <1>2, <1>3, SessionSound DEF CommandRequests, At
<1>5. Logs' /\ \A c \in Databases : log'[c] = IF c = d THEN Append(log[c], kind) ELSE log[c]
  BY <1>4, RequestGrows DEF Inv
<1>6. PICK q : q = [r EXCEPT !.mine = @ \union {Len(l) + 1}]
  OBVIOUS
<1>7. /\ q \in Session /\ q.mine = r.mine \union {Len(l) + 1} /\ q.pc = r.pc /\ q.db = r.db
      /\ q.afterId = r.afterId /\ q.handled = r.handled /\ q.left = r.left
      /\ q.upto = r.upto /\ q.replaced = r.replaced /\ q.alien = r.alien
      /\ q.start = r.start
  <2>1. r.mine \union {Len(l) + 1} \subseteq Nat
    BY <1>4, SessionFields
  <2>. QED BY <1>6, <2>1 DEF Session
<1>8. Sound(q, Append(l, kind))
  <2>1. Len(Append(l, kind)) = Len(l) + 1
    OBVIOUS
  <2>2. r.start \in Nat /\ r.upto \in Nat /\ r.mine \subseteq Nat
    BY SessionFields
  <2>3. Placed(q, Append(l, kind))
    BY <1>4, <1>7, <2>1, <2>2 DEF Sound, Placed
  <2>4. Passed(q) /\ Drained(q)
    BY <1>4, <1>7 DEF Sound, Placed, Passed, Drained
  <2>5. Owned(q, Append(l, kind))
    BY <1>4, <1>7, <2>1, <2>2 DEF Sound, Owned
  <2>. QED BY <2>3, <2>4, <2>5 DEF Sound
<1>9. shell' \in [Shells -> Session]
      /\ \A t \in Shells : shell'[t] = IF t = s THEN q ELSE shell[t]
  BY <1>4, <1>6, <1>7 DEF Become, Inv
<1>10. ASSUME NEW t \in Shells PROVE Sound(shell'[t], log'[shell'[t].db])
  <2>1. CASE t = s
    BY <1>2, <1>3, <1>5, <1>7, <1>8, <1>9, <2>1
  <2>2. CASE t # s
    <3>1. Sound(shell[t], log[shell[t].db]) /\ log[shell[t].db] \in Seq(Kinds)
          /\ shell[t].db \in Databases
      BY SessionSound, SessionFields
    <3>2. Sound(shell[t], Append(log[shell[t].db], kind))
      BY <3>1, SoundAppended
    <3>. QED BY <1>5, <1>9, <2>2, <3>1, <3>2
  <2>. QED BY <2>1, <2>2
<1>. QED BY <1>5, <1>9, <1>10 DEF Inv, Log

LEMMA ReplaceStoreInv ==
  ASSUME Inv, NEW s \in Shells, NEW d \in Databases, ReplaceStore(s, d)
  PROVE  Inv'
<1>1. PICK r \in Session : r = shell[s]
  BY SessionSound
<1>2. Sound(r, log[r.db]) /\ r.pc = "command"
  BY <1>1, SessionSound DEF ReplaceStore, At
<1>3. PICK q \in Session : q = Moved(r, d)
  BY MovedFields
<1>4. /\ q.db = d /\ q.alien /\ q.mine = {} /\ q.pc = r.pc /\ q.left = r.left
      /\ q.upto = r.upto
  BY <1>3, MovedFields
<1>5. PICK t \in Session : t = [q EXCEPT !.replaced = TRUE]
  BY DEF Session
<1>6. /\ t.db = d /\ t.alien /\ t.mine = {} /\ t.pc = "command" /\ t.left = q.left
      /\ t.upto = q.upto
  BY <1>2, <1>4, <1>5 DEF Session
<1>7. Len(log[d]) \in Nat
  BY DEF Inv, Logs
<1>8. Sound(t, log[t.db])
  BY <1>2, <1>4, <1>6, <1>7 DEF Sound, Placed, Passed, Owned, Drained
<1>. QED BY <1>1, <1>3, <1>5, <1>8, OneSession DEF ReplaceStore

\* A command that returned or failed, after it may have replaced the database.
LEMMA CommandEndsInv ==
  ASSUME Inv, NEW s \in Shells, CommandReturns(s) \/ CommandRaises(s)
  PROVE  Inv'
<1>1. PICK r \in Session : r = shell[s]
  BY SessionSound
<1>2. PICK l \in Seq(Kinds) : l = Log(s)
  BY SessionSound
<1>3. Sound(r, l) /\ l = log[r.db] /\ r.pc = "command"
  BY <1>1, <1>2, SessionSound DEF CommandReturns, CommandRaises, At
<1>4. PICK q \in Session : q = [r EXCEPT !.replaced = FALSE]
  BY UnmarkedFields
<1>5. /\ ~ q.replaced /\ q.pc = r.pc /\ q.db = r.db /\ q.afterId = r.afterId
      /\ q.handled = r.handled /\ q.alien = r.alien /\ q.start = r.start /\ q.mine = r.mine
  BY <1>4, UnmarkedFields
<1>6. Passed(q) /\ Owned(q, l)
  BY <1>3, <1>5 DEF Sound, Passed, Owned
<1>7. ASSUME NEW n \in {2, 3}, Become(s, Draining(q, n)), UNCHANGED log PROVE Inv'
  <2>1. Sound(Draining(q, n), l) /\ Draining(q, n).db = r.db
    BY <1>3, <1>5, <1>6, DrainingSound, DrainingFields
  <2>. QED BY <1>3, <1>7, <2>1, OneSession
<1>8. ASSUME Become(s, Draining(ResetCursor(q), 3)), UNCHANGED log PROVE Inv'
  <2>1. PICK t \in Session : t = ResetCursor(q)
    BY ResetFields
  <2>2. /\ t.afterId = 0 /\ ~ t.alien /\ t.start = 0 /\ t.pc = q.pc /\ t.db = q.db
        /\ ~ t.replaced /\ t.mine = q.mine
    BY <1>5, <2>1, ResetFields
  <2>3. Passed(t) /\ Owned(t, l)
    BY <1>6, <2>2 DEF Passed, Owned
  <2>4. Sound(Draining(t, 3), l) /\ Draining(t, 3).db = r.db
    BY <1>3, <1>5, <2>2, <2>3, DrainingSound, DrainingFields
  <2>. QED BY <1>3, <1>8, <2>1, <2>4, OneSession
<1>. QED BY <1>1, <1>4, <1>7, <1>8 DEF CommandReturns, CommandRaises

LEMMA UseProjectInv ==
  ASSUME Inv, NEW s \in Shells, NEW d \in Databases, UseProject(s, d)
  PROVE  Inv'
<1>1. PICK r \in Session : r = shell[s]
  BY SessionSound
<1>2. Sound(r, log[r.db]) /\ r.pc = "prompt"
  BY <1>1, SessionSound DEF UseProject, At
<1>3. PICK q \in Session : q = Moved(r, d)
  BY MovedFields
<1>4. /\ q.db = d /\ q.alien /\ q.mine = {} /\ q.pc = r.pc /\ ~ q.replaced
  BY <1>2, <1>3, MovedFields DEF Sound, Placed
<1>5. Passed(q) /\ Owned(q, log[d])
  BY <1>4 DEF Passed, Owned
<1>6. log[d] \in Seq(Kinds)
  BY DEF Inv, Logs
<1>7. Sound(Draining(q, 2), log[d]) /\ Draining(q, 2).db = d
  BY <1>2, <1>4, <1>5, <1>6, DrainingSound, DrainingFields
<1>. QED BY <1>1, <1>3, <1>7, OneSession DEF UseProject

LEMMA LeaveInv ==
  ASSUME Inv, NEW s \in Shells, Exit(s) \/ ShellDies(s)
  PROVE  Inv'
<1>1. shell[s].db \in Databases /\ shell[s].tenure \in Nat /\ Log(s) \in Seq(Kinds)
      /\ Log(s) = log[shell[s].db]
  BY SessionSound, SessionFields
<1>2. PICK q : q = Off(shell[s].db, shell[s].tenure)
  OBVIOUS
<1>3. Sound(q, log[q.db])
  BY <1>1, <1>2, OffSound DEF Off
<1>. QED BY <1>2, <1>3, OneSession DEF Exit, ShellDies

LEMMA JobRequestsInv ==
  ASSUME Inv, NEW d \in Databases, NEW kind \in Kinds, JobRequests(d, kind)
  PROVE  Inv'
<1>1. Logs' /\ \A c \in Databases : log'[c] = IF c = d THEN Append(log[c], kind) ELSE log[c]
  BY RequestGrows DEF JobRequests, Inv
<1>2. ASSUME NEW t \in Shells PROVE Sound(shell[t], log'[shell[t].db])
  <2>1. Sound(shell[t], log[shell[t].db]) /\ log[shell[t].db] \in Seq(Kinds)
        /\ shell[t].db \in Databases
    BY SessionSound, SessionFields
  <2>2. Sound(shell[t], Append(log[shell[t].db], kind))
    BY <2>1, SoundAppended
  <2>. QED BY <1>1, <2>1, <2>2
<1>. QED BY <1>1, <1>2 DEF Inv, Log, JobRequests

LEMMA InitInv == Init => Inv
<1> SUFFICES ASSUME Init PROVE Inv
  OBVIOUS
<1>1. Logs
  BY BoundsAssumption DEF Init, Logs
<1>2. ASSUME NEW s \in Shells PROVE shell[s] \in Session /\ Sound(shell[s], Log(s))
  <2>1. PICK d \in Databases : shell[s] = Off(d, 0)
    BY DEF Init
  <2>2. Off(d, 0).db = d /\ log[d] \in Seq(Kinds)
    BY <1>1 DEF Off, Logs
  <2>3. Sound(Off(d, 0), log[d])
    BY <2>2, OffSound
  <2>. QED BY <2>1, <2>2, <2>3 DEF Log, Sound, Placed
<1>3. shell \in [Shells -> Session]
  BY <1>2 DEF Init
<1>. QED BY <1>1, <1>2, <1>3 DEF Inv

LEMMA NextInv == Inv /\ [Next]_vars => Inv'
<1> SUFFICES ASSUME Inv, [Next]_vars PROVE Inv'
  OBVIOUS
<1>1. ASSUME NEW d \in Databases, NEW kind \in Kinds, JobRequests(d, kind) PROVE Inv'
  BY <1>1, JobRequestsInv
<1>2. ASSUME NEW s \in Shells, Drain(s) PROVE Inv'
  BY <1>2, FetchInv, PublishRunInv, DrainEndsInv, BatchInv, HandlerRaisesInv DEF Drain
<1>3. ASSUME NEW s \in Shells, Line(s) PROVE Inv'
  BY <1>3, StartInv, CommandInv, CommandEndsInv, LeaveInv, CommandRequestsInv,
     ReplaceStoreInv, UseProjectInv DEF Line
<1>4. CASE UNCHANGED vars
  BY <1>4 DEF vars, Inv, Logs, Log
<1>. QED BY <1>1, <1>2, <1>3, <1>4 DEF Next

-----------------------------------------------------------------------------
(* The theorems. *)

\* No request between the beginning of a tenure and the cursor was passed over.
THEOREM NothingIsPassedOver == Spec => []NothingPassedOver
<1>1. Inv => NothingPassedOver
  BY DEF Inv, Sound, Passed, NothingPassedOver, At
<1>. QED BY <1>1, InitInv, NextInv, PTL DEF Spec

\* What a command asked for is handled at the next prompt, however many requests a fetch
\* returns, as long as two fetches are enough for all.
THEOREM OutputIsBeforePrompt == Spec => []OutputBeforePrompt
<1>1. Inv => OutputBeforePrompt
  <2> SUFFICES ASSUME Inv, 2 * Limit >= MaxRequests, NEW s \in Shells, At(s, "prompt"),
                      ~ shell[s].alien, NEW k \in shell[s].mine
               PROVE  k \in shell[s].handled
    BY DEF OutputBeforePrompt
  <2>1. /\ Sound(shell[s], Log(s)) /\ k \in Nat /\ shell[s].afterId \in Nat
        /\ shell[s].start \in Nat
    BY SessionSound, SessionFields
  <2>2. k <= shell[s].afterId
    BY <2>1 DEF Sound, Drained, Covered, At
  <2>3. k > shell[s].start
    BY <2>1 DEF Sound, Owned
  <2>4. k \in shell[s].start + 1 .. shell[s].afterId
    BY <2>1, <2>2, <2>3
  <2>. QED BY <2>1, <2>4 DEF Sound, Passed, At
<1>. QED BY <1>1, InitInv, NextInv, PTL DEF Spec

-----------------------------------------------------------------------------
(* What a session has done, in the order of its requests. *)

\* Effects of the present tenure are about requests that the cursor has reached, and about
\* the request in hand there is no more than that its process ran.
Acted(r, done) ==
  \A i \in DOMAIN done :
    /\ done[i].tenure <= r.tenure
    /\ done[i].tenure = r.tenure /\ r.pc # "off" =>
         /\ done[i].event <= r.afterId /\ ~ r.replaced
         /\ r.pc = "process" /\ done[i].event = r.afterId => done[i].what = "ran"

Precedes(a, b) == \/ a.event < b.event
                  \/ a.event = b.event /\ a.what = "ran" /\ b.what = "done"

Ordered(done) == \A i, j \in DOMAIN done :
                   i < j /\ done[i].tenure = done[j].tenure => Precedes(done[i], done[j])

Records ==
  /\ effects \in [Shells -> Seq(Effect)]
  /\ \A s \in Shells : Acted(shell[s], effects[s]) /\ Ordered(effects[s])

LEMMA EffectFields ==
  ASSUME NEW done \in Seq(Effect), NEW i \in DOMAIN done
  PROVE  done[i].event \in Nat /\ done[i].tenure \in Nat
<1>1. done[i] \in Effect
  OBVIOUS
<1>. QED BY <1>1 DEF Effect

LEMMA OrderedAppended ==
  ASSUME NEW done \in Seq(Effect), NEW e \in Effect, Ordered(done),
         \A i \in DOMAIN done : done[i].tenure = e.tenure => Precedes(done[i], e)
  PROVE  Ordered(Append(done, e))
<1>1. DOMAIN done = 1 .. Len(done) /\ Len(done) \in Nat
  OBVIOUS
<1>2. DOMAIN Append(done, e) = 1 .. Len(done) + 1
  OBVIOUS
<1>3. \A i \in 1 .. Len(done) : Append(done, e)[i] = done[i]
  OBVIOUS
<1>4. Append(done, e)[Len(done) + 1] = e
  OBVIOUS
<1> SUFFICES ASSUME NEW i \in 1 .. Len(done) + 1, NEW j \in 1 .. Len(done) + 1, i < j,
                    Append(done, e)[i].tenure = Append(done, e)[j].tenure
             PROVE  Precedes(Append(done, e)[i], Append(done, e)[j])
  BY <1>2 DEF Ordered
<1>5. CASE j = Len(done) + 1
  BY <1>1, <1>3, <1>4, <1>5
<1>6. CASE j \in 1 .. Len(done)
  BY <1>1, <1>3, <1>6 DEF Ordered
<1>. QED BY <1>1, <1>5, <1>6

\* A step of a session that does nothing about a request.
LEMMA StepRecords ==
  ASSUME Inv, Records, NEW s \in Shells, NEW q, Become(s, q), UNCHANGED effects,
         Acted(q, effects[s])
  PROVE  Records'
BY DEF Inv, Records, Become

\* A step that does something about one.
LEMMA DidRecords ==
  ASSUME Inv, Records, NEW s \in Shells, NEW q, Become(s, q), NEW k \in Nat,
         NEW what \in {"ran", "done", "denied"}, Did(s, k, what),
         q.tenure = shell[s].tenure, q.pc \in {"drain", "process"}, ~ q.replaced,
         shell[s].pc # "off", q.afterId = k,
         shell[s].pc = "process" => what = "done" /\ shell[s].afterId = k,
         shell[s].pc # "process" => shell[s].afterId < k,
         q.pc = "process" => what = "ran"
  PROVE  Records'
<1>1. PICK r \in Session : r = shell[s]
  BY SessionSound
<1>2. r.db \in Databases /\ r.tenure \in Nat /\ r.afterId \in Nat
  BY SessionFields
<1>3. PICK done \in Seq(Effect) : done = effects[s]
  BY DEF Records
<1>4. PICK e : e = [db |-> r.db, event |-> k, what |-> what, tenure |-> r.tenure]
  OBVIOUS
<1>5. e \in Effect /\ e.event = k /\ e.what = what /\ e.tenure = r.tenure
  BY <1>2, <1>4 DEF Effect
<1>6. effects' = [effects EXCEPT ![s] = Append(done, e)]
  BY <1>1, <1>3, <1>4 DEF Did
<1>7. Acted(r, done) /\ Ordered(done)
  BY <1>1, <1>3 DEF Records
<1>8. DOMAIN done = 1 .. Len(done) /\ Len(done) \in Nat
      /\ \A i \in DOMAIN done : done[i].event \in Nat /\ done[i].tenure \in Nat
  BY EffectFields
<1>9. \A i \in DOMAIN done : done[i].tenure = e.tenure => Precedes(done[i], e)
  BY <1>1, <1>2, <1>5, <1>7, <1>8 DEF Acted, Precedes
<1>10. Ordered(Append(done, e))
  BY <1>5, <1>7, <1>9, OrderedAppended
<1>11. Acted(q, Append(done, e))
  <2>1. \A i \in DOMAIN done :
          done[i].tenure <= q.tenure /\ (done[i].tenure = q.tenure => done[i].event <= k)
    BY <1>1, <1>2, <1>7, <1>8 DEF Acted
  <2>2. q.pc = "process" =>
          \A i \in DOMAIN done : done[i].tenure = q.tenure => done[i].event < k
    BY <1>1, <1>2, <1>7, <1>8 DEF Acted
  <2>3. DOMAIN Append(done, e) = 1 .. Len(done) + 1
    OBVIOUS
  <2>4. \A i \in 1 .. Len(done) : Append(done, e)[i] = done[i]
    OBVIOUS
  <2>5. Append(done, e)[Len(done) + 1] = e
    OBVIOUS
  <2> SUFFICES ASSUME NEW i \in 1 .. Len(done) + 1
               PROVE  LET d == Append(done, e)[i] IN
                      /\ d.tenure <= q.tenure
                      /\ d.tenure = q.tenure /\ q.pc # "off" =>
                           /\ d.event <= q.afterId /\ ~ q.replaced
                           /\ q.pc = "process" /\ d.event = q.afterId => d.what = "ran"
    BY <2>3 DEF Acted
  <2>6. CASE i = Len(done) + 1
    BY <1>1, <1>2, <1>5, <2>5, <2>6
  <2>7. CASE i \in 1 .. Len(done)
    BY <1>8, <2>1, <2>2, <2>4, <2>7
  <2>. QED BY <1>8, <2>6, <2>7
<1>12. Append(done, e) \in Seq(Effect)
  BY <1>5
<1>13. effects' \in [Shells -> Seq(Effect)]
  BY <1>6, <1>12 DEF Records
<1>14. \A t \in Shells : /\ effects'[t] = (IF t = s THEN Append(done, e) ELSE effects[t])
                         /\ shell'[t] = (IF t = s THEN q ELSE shell[t])
  BY <1>6 DEF Records, Inv, Become
<1>15. \A t \in Shells : Acted(shell'[t], effects'[t]) /\ Ordered(effects'[t])
  BY <1>10, <1>11, <1>14 DEF Records
<1>. QED BY <1>13, <1>15 DEF Records

\* The session goes on in its tenure, or is gone.
LEMMA ActedKept ==
  ASSUME NEW done \in Seq(Effect), NEW r \in Session, NEW q \in Session, Acted(r, done),
         q.tenure = r.tenure,
         \/ q.pc = "off"
         \/ /\ r.pc # "off" /\ q.pc # "process" /\ q.afterId >= r.afterId
            /\ ~ q.replaced
  PROVE  Acted(q, done)
<1>1. \A i \in DOMAIN done : done[i].event \in Nat
  BY EffectFields
<1>2. r.afterId \in Nat /\ q.afterId \in Nat
  BY SessionFields
<1>. QED BY <1>1, <1>2 DEF Acted

\* The session is in a tenure in which it has done nothing.
LEMMA ActedAfresh ==
  ASSUME NEW done \in Seq(Effect), NEW r \in Session, NEW q \in Session, Acted(r, done),
         q.tenure > r.tenure \/ (q.tenure = r.tenure /\ r.replaced /\ r.pc # "off")
  PROVE  Acted(q, done)
<1>1. \A i \in DOMAIN done : done[i].tenure \in Nat
  BY EffectFields
<1>2. r.tenure \in Nat /\ q.tenure \in Nat
  BY SessionFields
<1>. QED BY <1>1, <1>2 DEF Acted

\* What a drain does about requests.
LEMMA DrainRecords ==
  ASSUME Inv, Records, NEW s \in Shells, Drain(s)
  PROVE  Records'
<1>1. PICK r \in Session : r = shell[s]
  BY SessionSound
<1>2. PICK done \in Seq(Effect) : done = effects[s]
  BY DEF Records
<1>3. Acted(r, done) /\ Sound(r, Log(s)) /\ r.afterId \in Nat /\ r.tenure \in Nat
      /\ r.left \in 0 .. 3 /\ r.upto \in Nat /\ r.db \in Databases
  BY <1>1, <1>2, SessionSound, SessionFields DEF Records
<1>k. ASSUME NEW q \in Session, Become(s, q), UNCHANGED effects, q.tenure = r.tenure,
             \/ q.pc = "off"
             \/ /\ r.pc # "off" /\ q.pc # "process" /\ q.afterId >= r.afterId
                /\ ~ q.replaced
      PROVE  Records'
  BY <1>1, <1>2, <1>3, <1>k, ActedKept, StepRecords
<1>4. CASE Fetch(s)
  <2>1. PICK u \in Nat : u = Smaller(Len(Log(s)), r.afterId + Limit)
    BY <1>3, LimitAssumption, SessionSound DEF Smaller
  <2>2. PICK q \in Session : q = [r EXCEPT !.upto = u]
    BY DEF Session
  <2>3. /\ q.pc = "drain" /\ r.pc = "drain" /\ q.afterId = r.afterId
        /\ q.tenure = r.tenure /\ ~ q.replaced
    BY <1>1, <1>3, <1>4, <2>2 DEF Fetch, At, Session, Sound, Placed
  <2>4. Become(s, q) /\ UNCHANGED effects
    BY <1>1, <1>4, <2>1, <2>2 DEF Fetch
  <2>. QED BY <1>3, <1>k, <2>3, <2>4
<1>5. CASE PublishRun(s)
  <2>1. PICK q \in Session : q = [r EXCEPT !.pc = "drain"]
    BY BackFields
  <2>2. /\ q.pc = "drain" /\ q.tenure = r.tenure /\ q.afterId = r.afterId /\ ~ q.replaced
        /\ r.pc = "process"
    BY <1>1, <1>3, <1>5, <2>1, BackFields DEF PublishRun, At, Sound, Placed
  <2>. QED BY <1>1, <1>3, <1>5, <2>1, <2>2, DidRecords DEF PublishRun
<1>6. CASE DrainEnds(s)
  <2>1. PICK n \in 0 .. 3 : n = r.left - 1 /\ r.pc = "drain" /\ ~ r.replaced
    BY <1>1, <1>3, <1>6 DEF DrainEnds, At, Sound, Placed
  <2>2. PICK q \in Session : q = Draining(r, n)
    BY DrainingFields
  <2>3. q.tenure = r.tenure /\ q.pc # "process" /\ q.afterId = r.afterId /\ ~ q.replaced
    BY <2>1, <2>2, DrainingFields
  <2>. QED BY <1>1, <1>3, <1>6, <1>k, <2>1, <2>2, <2>3 DEF DrainEnds
<1>r. ASSUME NEW x \in Session, x.tenure = r.tenure, x.afterId >= r.afterId, ~ x.replaced,
             r.pc # "off"
      PROVE  /\ Raised(x) \in Session /\ Raised(x).tenure = r.tenure
             /\ \/ Raised(x).pc = "off"
                \/ /\ Raised(x).pc # "process" /\ Raised(x).afterId >= r.afterId
                   /\ ~ Raised(x).replaced
  <2>1. CASE x.left = 3
    BY <1>r, <2>1, DrainingFields DEF Raised
  <2>2. CASE x.left # 3
    <3>1. Off(x.db, x.tenure) \in Session /\ Off(x.db, x.tenure).tenure = x.tenure
          /\ Off(x.db, x.tenure).pc = "off"
      BY SessionFields DEF Off, Session, PC
    <3>. QED BY <1>r, <2>2, <3>1 DEF Raised
  <2>. QED BY <2>1, <2>2
<1>7. ASSUME NEW k \in 1 .. MaxRequests,
             Skip(s, k) \/ Handle(s, k) \/ RunProcess(s, k) \/ HandlerRaises(s, k)
      PROVE  Records'
  <2>1. CASE InBatch(s, k)
    <3>1. k = r.afterId + 1 /\ r.pc = "drain" /\ k \in Nat /\ ~ r.replaced
      BY <1>1, <1>3, <2>1, BoundsAssumption DEF InBatch, At, Sound, Placed
    <3>2. PICK q \in Session : q = Take(r, k)
      BY <3>1, TakeFields
    <3>3. /\ q.pc = "drain" /\ q.tenure = r.tenure /\ q.afterId = k /\ ~ q.replaced
      BY <3>1, <3>2, TakeFields
    <3>4. CASE Skip(s, k)
      BY <1>1, <1>3, <1>k, <3>1, <3>2, <3>3, <3>4 DEF Skip
    <3>5. ASSUME NEW what \in {"done", "denied"}, Did(s, k, what), Become(s, q)
          PROVE  Records'
      BY <1>1, <1>3, <3>1, <3>3, <3>5, DidRecords
    <3>6. CASE Handle(s, k)
      BY <1>1, <3>2, <3>5, <3>6 DEF Handle
    <3>7. CASE RunProcess(s, k)
      <4>1. PICK t \in Session : t = [q EXCEPT !.pc = "process"]
        BY DEF Session, PC
      <4>2. /\ t.pc = "process" /\ t.tenure = q.tenure /\ t.afterId = k /\ ~ t.replaced
        BY <3>3, <4>1 DEF Session
      <4>3. Did(s, k, "ran") /\ Become(s, t) => Records'
        BY <1>1, <1>3, <3>1, <3>3, <4>2, DidRecords
      <4>. QED BY <1>1, <3>2, <3>5, <3>7, <4>1, <4>3 DEF RunProcess
    <3>8. CASE HandlerRaises(s, k)
      <4>1. Become(s, Raised(q)) /\ UNCHANGED effects
        BY <1>1, <2>1, <3>2, <3>8 DEF HandlerRaises, InBatch, At
      <4>. QED BY <1>3, <1>k, <1>r, <3>1, <3>3, <4>1
    <3>. QED BY <1>7, <3>4, <3>6, <3>7, <3>8
  <2>2. CASE At(s, "process") /\ HandlerRaises(s, k)
    <3>1. PICK q \in Session : q = [r EXCEPT !.pc = "drain"]
      BY BackFields
    <3>2. q.tenure = r.tenure /\ q.afterId = r.afterId /\ ~ q.replaced /\ r.pc = "process"
      BY <1>1, <1>3, <2>2, <3>1, BackFields DEF At, Sound, Placed
    <3>3. Become(s, Raised(q)) /\ UNCHANGED effects
      BY <1>1, <2>2, <3>1 DEF HandlerRaises, InBatch, At
    <3>. QED BY <1>3, <1>k, <1>r, <3>2, <3>3
  <2>. QED BY <1>7, <2>1, <2>2 DEF Skip, Handle, RunProcess, HandlerRaises
<1>. QED BY <1>4, <1>5, <1>6, <1>7, Drain(s) DEF Drain

\* A line of input does nothing about requests, and a new session has done nothing.
LEMMA LineRecords ==
  ASSUME Inv, Records, NEW s \in Shells, Line(s)
  PROVE  Records'
<1>1. PICK r \in Session : r = shell[s]
  BY SessionSound
<1>2. PICK done \in Seq(Effect) : done = effects[s]
  BY DEF Records
<1>3. Acted(r, done) /\ Sound(r, Log(s)) /\ r.afterId \in Nat /\ r.tenure \in Nat
      /\ r.db \in Databases
  BY <1>1, <1>2, SessionSound, SessionFields DEF Records
<1>k. ASSUME NEW q \in Session, Become(s, q), UNCHANGED effects, q.tenure = r.tenure,
             \/ q.pc = "off"
             \/ /\ r.pc # "off" /\ q.pc # "process" /\ q.afterId >= r.afterId
                /\ ~ q.replaced
      PROVE  Records'
  BY <1>1, <1>2, <1>3, <1>k, ActedKept, StepRecords
<1>a. ASSUME NEW q \in Session, Become(s, q), UNCHANGED effects,
             q.tenure > r.tenure \/ (q.tenure = r.tenure /\ r.replaced /\ r.pc # "off")
      PROVE  Records'
  BY <1>1, <1>2, <1>3, <1>a, ActedAfresh, StepRecords
<1>4. CASE Start(s)
  <2>1. effects' = [effects EXCEPT ![s] = <<>>]
    BY <1>4 DEF Start
  <2>2. \A q : Acted(q, <<>>) /\ Ordered(<<>>)
    BY DEF Acted, Ordered
  <2>3. effects' \in [Shells -> Seq(Effect)]
        /\ \A t \in Shells : effects'[t] = IF t = s THEN <<>> ELSE effects[t]
    BY <2>1 DEF Records
  <2>4. \A t \in Shells : t # s => shell'[t] = shell[t]
    BY <1>4 DEF Start, Become, Inv
  <2>. QED BY <2>2, <2>3, <2>4 DEF Records
<1>5. CASE Command(s)
  <2>1. PICK q \in Session : q = Given(r)
    BY GivenFields
  <2>2. /\ q.pc = "command" /\ r.pc = "prompt" /\ q.tenure = r.tenure /\ ~ q.replaced
        /\ q.afterId = r.afterId
    BY <1>1, <1>3, <1>5, <2>1, GivenFields DEF Command, At, Sound, Placed
  <2>. QED BY <1>1, <1>3, <1>5, <1>k, <2>1, <2>2 DEF Command
<1>6. ASSUME NEW kind \in Kinds, CommandRequests(s, kind) PROVE Records'
  <2>1. PICK n \in Nat : n = Len(Log(s)) + 1
    BY SessionSound
  <2>2. PICK q \in Session : q = [r EXCEPT !.mine = @ \union {n}]
    BY SessionFields DEF Session
  <2>3. /\ q.pc = "command" /\ r.pc = "command" /\ q.tenure = r.tenure
        /\ q.replaced = r.replaced /\ q.afterId = r.afterId
    BY <1>1, <1>6, <2>2 DEF CommandRequests, At, Session
  <2>4. Become(s, q) /\ UNCHANGED effects
    BY <1>1, <1>6, <2>1, <2>2 DEF CommandRequests
  <2>. QED BY <1>3, <1>k, <1>a, <2>3, <2>4
<1>7. ASSUME NEW d \in Databases, ReplaceStore(s, d) \/ UseProject(s, d) PROVE Records'
  <2>1. PICK q \in Session : q = Moved(r, d)
    BY MovedFields
  <2>2. q.tenure > r.tenure
    BY <1>3, <2>1, MovedFields
  <2>3. PICK t \in Session : t = [q EXCEPT !.replaced = TRUE]
    BY DEF Session
  <2>4. t.tenure = q.tenure
    BY <2>3 DEF Session
  <2>5. Draining(q, 2) \in Session /\ Draining(q, 2).tenure = q.tenure
    BY DrainingFields
  <2>. QED BY <1>1, <1>7, <1>a, <2>1, <2>2, <2>3, <2>4, <2>5 DEF ReplaceStore, UseProject
<1>8. CASE CommandReturns(s) \/ CommandRaises(s)
  <2>1. PICK q \in Session : q = [r EXCEPT !.replaced = FALSE]
    BY UnmarkedFields
  <2>2. q.tenure = r.tenure /\ q.afterId = r.afterId /\ ~ q.replaced /\ r.pc = "command"
    BY <1>1, <1>8, <2>1, UnmarkedFields DEF CommandReturns, CommandRaises, At
  <2>3. ASSUME NEW n \in {2, 3}, Become(s, Draining(q, n)), UNCHANGED effects PROVE Records'
    <3>1. /\ Draining(q, n) \in Session /\ Draining(q, n).tenure = r.tenure
          /\ Draining(q, n).pc # "process" /\ Draining(q, n).afterId = r.afterId
          /\ ~ Draining(q, n).replaced
      BY <2>2, DrainingFields
    <3>. QED BY <1>3, <1>k, <2>2, <2>3, <3>1
  <2>4. ASSUME Become(s, Draining(ResetCursor(q), 3)), UNCHANGED effects, r.replaced
        PROVE  Records'
    <3>1. ResetCursor(q) \in Session /\ ResetCursor(q).tenure = r.tenure
      BY <2>2, ResetFields
    <3>2. Draining(ResetCursor(q), 3) \in Session
          /\ Draining(ResetCursor(q), 3).tenure = r.tenure
      BY <3>1, DrainingFields
    <3>. QED BY <1>a, <2>2, <2>4, <3>2
  <2>. QED BY <1>1, <1>8, <2>1, <2>3, <2>4 DEF CommandReturns, CommandRaises
<1>9. CASE Exit(s) \/ ShellDies(s)
  <2>1. PICK q : q = Off(r.db, r.tenure)
    OBVIOUS
  <2>2. q \in Session /\ q.pc = "off" /\ q.tenure = r.tenure
    BY <1>3, <2>1 DEF Off, Session, PC
  <2>. QED BY <1>1, <1>9, <1>k, <2>1, <2>2 DEF Exit, ShellDies
<1>. QED BY <1>4, <1>5, <1>6, <1>7, <1>8, <1>9, Line(s) DEF Line

LEMMA InitRecords == Init => Records
<1> SUFFICES ASSUME Init PROVE Records
  OBVIOUS
<1>1. \A q : Acted(q, <<>>) /\ Ordered(<<>>)
  BY DEF Acted, Ordered
<1>. QED BY <1>1 DEF Init, Records

LEMMA NextRecords == Inv /\ Records /\ [Next]_vars => Records'
<1> SUFFICES ASSUME Inv, Records, [Next]_vars PROVE Records'
  OBVIOUS
<1>1. CASE UNCHANGED <<shell, effects>>
  BY <1>1 DEF Records
<1>2. ASSUME NEW s \in Shells, Drain(s) \/ Line(s) PROVE Records'
  BY <1>2, DrainRecords, LineRecords
<1>. QED BY <1>1, <1>2 DEF Next, JobRequests, vars

\* A session does nothing twice about a request as long as it keeps its EventStore, and
\* what it does is in the order of the requests.
THEOREM OnceInTenure == Spec => []OncePerTenure
<1>1. Records => OncePerTenure
  BY DEF Records, Ordered, Precedes, OncePerTenure
<1>. QED BY <1>1, InitRecords, InitInv, NextInv, NextRecords, PTL DEF Spec

\* Every reachable state is typed: no mark of a replacement outlives its command, and the
\* process in hand is one that was asked for and taken.
THEOREM Typed == Spec => []TypeOK
<1>1. Init => faults \in 0 .. MaxFaults
  BY BoundsAssumption DEF Init
<1>2. faults \in 0 .. MaxFaults /\ [Next]_vars => (faults \in 0 .. MaxFaults)'
  <2> SUFFICES ASSUME faults \in 0 .. MaxFaults, [Next]_vars
               PROVE  faults' \in 0 .. MaxFaults
    OBVIOUS
  <2>1. faults' = faults \/ Fault
    BY DEF Next, vars, JobRequests, Drain, Line, Fetch, Skip, Handle, RunProcess, PublishRun,
           HandlerRaises, DrainEnds, Start, Command, CommandRequests, ReplaceStore,
           CommandReturns, CommandRaises, UseProject, Exit, ShellDies
  <2>. QED BY <2>1, BoundsAssumption DEF Fault
<1>3. Inv /\ Records /\ faults \in 0 .. MaxFaults => TypeOK
  BY DEF Inv, Logs, Records, Sound, Placed, Log, TypeOK
<1>. QED BY <1>1, <1>2, <1>3, InitRecords, InitInv, NextInv, NextRecords, PTL DEF Spec
=============================================================================
