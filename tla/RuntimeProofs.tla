--------------------------- MODULE RuntimeProofs ---------------------------
(***************************************************************************)
(* Proofs about RuntimeAliases, for any processes and serials, and about   *)
(* RuntimeSignals, for any steps, any split between two jobs and bounds.   *)
(* The two specifications share no variable.                               *)
(***************************************************************************)
EXTENDS RuntimeAliases, RuntimeSignals, WellFoundedInduction, FiniteSetTheorems,
        SequenceTheorems, TLAPS

-----------------------------------------------------------------------------
(* Aliases. *)

InTransaction(p) == pc[p] \in {"recheck", "max", "insert", "commit"}

\* The write lock: whoever is inside a transaction is the only writer.
Locked == \A p \in Processes : InTransaction(p) => writer = {p}

\* Inside the transaction nothing that was read can change: the serial still has no
\* row, and the id computed is the next one.
Computed ==
  \A p \in Processes :
    /\ pc[p] \in {"max", "insert", "commit"} =>
         \A s \in Serials : (s \in todo[p] /\ \A t \in todo[p] : s <= t) => table[s] = 0
    /\ pc[p] \in {"insert", "commit"} =>
         /\ next[p] \in Nat \ {0}
         /\ next[p] \in {table[t] + 1 : t \in Serials}
         /\ \A t \in Serials : table[t] < next[p]

\* What a backfill has behind it has an id; what it lists is nothing more to do.
Behind ==
  \A p \in Processes :
    /\ pc[p] # "idle" => \A s \in scan[p] : s \in todo[p] \/ table[s] # 0
    /\ pc[p] = "list" => todo[p] = {}

LEMMA InitTyped == Init => TypeOK
BY DEF Init, TypeOK, PC

(* Every variable keeps its type. *)
LEMMA NextTyped ==
  ASSUME TypeOK, [Next]_vars
  PROVE  TypeOK'
<1> USE DEF TypeOK, PC, To
<1>1. CASE UNCHANGED vars
  BY <1>1 DEF vars
<1>2. ASSUME NEW p \in Processes, NEW s \in Serials, Publish(p, s)
      PROVE  TypeOK'
  BY <1>2 DEF Publish
<1>3. ASSUME NEW p \in Processes, Backfill(p) \/ BeginImmediate(p) \/ ListAliases(p) \/ Abort(p)
      PROVE  TypeOK'
  BY <1>3 DEF Backfill, BeginImmediate, ListAliases, Abort
<1>4. ASSUME NEW p \in Processes, ReadMax(p)
      PROVE  TypeOK'
  BY <1>4 DEF ReadMax
<1>5. ASSUME NEW p \in Processes, NEW s \in Serials, Ensured(p, s)
      PROVE  pc' \in [Processes -> PC] /\ todo' \in [Processes -> SUBSET Serials]
  BY <1>5 DEF Ensured
<1>6. ASSUME NEW p \in Processes, NEW s \in Serials, Lookup(p, s) \/ Recheck(p, s)
      PROVE  TypeOK'
  BY <1>5, <1>6 DEF Lookup, Recheck
<1>7. ASSUME NEW p \in Processes, NEW s \in Serials, Insert(p, s) \/ Commit(p, s)
      PROVE  TypeOK'
  BY <1>5, <1>7 DEF Insert, Commit
<1>8. QED BY <1>1, <1>2, <1>3, <1>4, <1>6, <1>7 DEF Next, Step

\* TypeOK: the table and the calls of ensure_runtime_entity are typed, for any processes and
\* serials.
THEOREM Typed == Spec => []TypeOK
BY InitTyped, NextTyped, PTL DEF Spec

(* Only the holder of the lock is inside a transaction. *)
LEMMA NextLocked ==
  ASSUME TypeOK, Locked, [Next]_vars
  PROVE  Locked'
<1> USE DEF TypeOK, Locked, InTransaction, To
<1>1. CASE UNCHANGED vars
  BY <1>1 DEF vars
<1>2. ASSUME NEW p \in Processes, NEW s \in Serials, Publish(p, s)
      PROVE  Locked'
  BY <1>2 DEF Publish
<1>3. ASSUME NEW p \in Processes, Backfill(p) \/ ReadMax(p) \/ ListAliases(p)
      PROVE  Locked'
  BY <1>3 DEF Backfill, ReadMax, ListAliases
<1>4. ASSUME NEW p \in Processes, BeginImmediate(p) \/ Abort(p)
      PROVE  Locked'
  BY <1>4 DEF BeginImmediate, Abort
<1>5. ASSUME NEW p \in Processes, NEW s \in Serials, Lookup(p, s) \/ Insert(p, s)
      PROVE  Locked'
  BY <1>5 DEF Lookup, Insert, Ensured, At
<1>6. ASSUME NEW p \in Processes, writer = {p}, writer' = {}, NEW where,
             where \in {"list", "lookup", "idle"}, To(p, where)
      PROVE  Locked'
  BY <1>6
<1>7. ASSUME NEW p \in Processes, NEW s \in Serials, Commit(p, s)
      PROVE  Locked'
  BY <1>6, <1>7 DEF Commit, Ensured, At
<1>8. ASSUME NEW p \in Processes, NEW s \in Serials, Recheck(p, s)
      PROVE  Locked'
  <2>1. CASE table[s] # 0
    BY <1>6, <1>8, <2>1 DEF Recheck, Ensured, At
  <2>2. CASE table[s] = 0
    BY <1>8, <2>2 DEF Recheck, At
  <2>3. QED BY <2>1, <2>2
<1>9. QED BY <1>1, <1>2, <1>3, <1>4, <1>5, <1>7, <1>8 DEF Next, Step

(* Two processes are never inside a transaction together. *)
LEMMA Alone ==
  ASSUME Locked, NEW p \in Processes, NEW q \in Processes, InTransaction(p), InTransaction(q)
  PROVE  p = q
BY DEF Locked

(* What was read inside the transaction stays true inside it. *)
LEMMA NextComputed ==
  ASSUME TypeOK, Locked, Computed, [Next]_vars
  PROVE  Computed'
<1> USE DEF TypeOK, Computed, To
<1>1. CASE UNCHANGED vars
  BY <1>1 DEF vars
<1>2. ASSUME NEW p \in Processes, NEW s \in Serials, Publish(p, s)
      PROVE  Computed'
  BY <1>2 DEF Publish
<1>3. ASSUME NEW p \in Processes, Backfill(p) \/ BeginImmediate(p) \/ ListAliases(p) \/ Abort(p)
      PROVE  Computed'
  BY <1>3 DEF Backfill, BeginImmediate, ListAliases, Abort
<1>4. ASSUME NEW p \in Processes, ReadMax(p)
      PROVE  Computed'
  BY <1>4 DEF ReadMax
<1>5. ASSUME NEW p \in Processes, NEW s \in Serials, Lookup(p, s)
      PROVE  Computed'
  BY <1>5 DEF Lookup, Ensured
<1>6. ASSUME NEW p \in Processes, NEW s \in Serials, Recheck(p, s)
      PROVE  Computed'
  <2>1. \A t \in Serials : (t \in todo[p] /\ \A u \in todo[p] : t <= u) => t = s
    BY <1>6, SerialsAssumption DEF SerialsAssumption, Recheck, At
  <2>2. QED BY <1>6, <2>1 DEF Recheck, Ensured
<1>7. ASSUME NEW p \in Processes, NEW s \in Serials, Insert(p, s)
      PROVE  Computed'
  BY <1>7 DEF Insert, At
<1>8. ASSUME NEW p \in Processes, NEW s \in Serials, Commit(p, s)
      PROVE  Computed'
  <2>1. \A q \in Processes \ {p} : ~ InTransaction(q)
    BY <1>8, Alone DEF Commit, At, InTransaction
  <2>2. \A q \in Processes : pc'[q] \notin {"max", "insert", "commit"}
    BY <1>8, <2>1 DEF Commit, Ensured, InTransaction
  <2>3. QED BY <2>2
<1>9. QED BY <1>1, <1>2, <1>3, <1>4, <1>5, <1>6, <1>7, <1>8 DEF Next, Step

(* The inductive invariant. *)
Inv == TypeOK /\ Locked /\ Computed /\ IdsAreUniqueAndDense

LEMMA InitInv == Init => Inv
BY InitTyped DEF Init, Inv, Locked, InTransaction, Computed, IdsAreUniqueAndDense

(* The id computed under the lock is the abstract allocation's next number. *)
LEMMA ComputedIsNext ==
  ASSUME Inv, NEW p \in Processes, NEW s \in Serials, Commit(p, s)
  PROVE  Abstract!Allocate(s)
<1>1. /\ table[s] = 0
      /\ next[p] \in {table[t] + 1 : t \in Serials}
      /\ \A t \in Serials : table[t] < next[p]
  BY DEF Inv, Computed, Commit, At
<1>2. PICK u \in Serials : next[p] = table[u] + 1
  BY <1>1
<1>3. \A i \in 1 .. next[p] - 1 : \E t \in Serials : table[t] = i
  BY <1>2 DEF Inv, TypeOK, IdsAreUniqueAndDense
<1>4. Abstract!IsNext(next[p])
  BY <1>1, <1>3 DEF Abstract!IsNext
<1>5. table' = [table EXCEPT ![s] = next[p]]
  BY DEF Commit
<1>6. QED BY <1>1, <1>4, <1>5 DEF Abstract!Allocate

(* Every step allocates the next number or leaves the table alone. *)
LEMMA StepAllocates ==
  ASSUME Inv, [Next]_vars
  PROVE  [Abstract!Next]_table
<1>1. CASE UNCHANGED vars
  BY <1>1 DEF vars
<1>2. ASSUME NEW p \in Processes, NEW s \in Serials, Commit(p, s)
      PROVE  Abstract!Next
  BY <1>2, ComputedIsNext DEF Abstract!Next
<1>3. CASE Next
  BY <1>2, <1>3 DEF Next, Step, Publish, Backfill, BeginImmediate, ReadMax, ListAliases, Abort,
                    Lookup, Recheck, Insert
<1>4. QED BY <1>1, <1>3

(* Plain allocation keeps the ids unique and without gaps. *)
LEMMA AllocationDense ==
  ASSUME TypeOK, IdsAreUniqueAndDense, NEW s \in Serials, Abstract!Allocate(s)
  PROVE  IdsAreUniqueAndDense'
<1>1. PICK n \in {table[t] + 1 : t \in Serials} :
        Abstract!IsNext(n) /\ table' = [table EXCEPT ![s] = n]
  BY DEF Abstract!Allocate
<1>2. n \in Nat \ {0} /\ table[s] = 0
  BY <1>1 DEF TypeOK, Abstract!Allocate
<1>3. \A t \in Serials : table'[t] = IF t = s THEN n ELSE table[t]
  BY <1>1 DEF TypeOK
<1>4. \A t \in Serials : table[t] < n
  BY <1>1 DEF Abstract!IsNext
<1>5. ASSUME NEW t \in Serials, NEW u \in Serials, table'[t] = table'[u], table'[t] # 0
      PROVE  t = u
  BY <1>2, <1>3, <1>4, <1>5 DEF TypeOK, IdsAreUniqueAndDense
<1>6. ASSUME NEW t \in Serials, NEW i \in 1 .. table'[t]
      PROVE  \E u \in Serials : table'[u] = i
  <2>1. CASE i = n
    BY <1>3, <2>1
  <2>2. CASE i # n
    <3>1. i \in 1 .. n - 1
      BY <1>2, <1>3, <1>4, <1>6, <2>2 DEF TypeOK
    <3>2. PICK u \in Serials : table[u] = i
      BY <1>1, <3>1 DEF Abstract!IsNext
    <3>3. u # s
      BY <1>2, <3>1, <3>2
    <3>4. QED BY <1>3, <3>2, <3>3
  <2>3. QED BY <2>1, <2>2
<1>7. QED BY <1>5, <1>6 DEF IdsAreUniqueAndDense

LEMMA NextInv ==
  ASSUME Inv, [Next]_vars
  PROVE  Inv'
<1>1. TypeOK' /\ Locked' /\ Computed'
  BY NextTyped, NextLocked, NextComputed DEF Inv
<1>2. IdsAreUniqueAndDense'
  <2>1. CASE UNCHANGED table
    BY <2>1 DEF Inv, IdsAreUniqueAndDense
  <2>2. CASE \E s \in Serials : Abstract!Allocate(s)
    BY <2>2, AllocationDense DEF Inv
  <2>3. QED BY <2>1, <2>2, StepAllocates DEF Abstract!Next
<1>3. QED BY <1>1, <1>2 DEF Inv

(* IdsAreUniqueAndDense: no two serials share an id, and no id is skipped, whatever *)
(* process dies or raises in its transaction.                                       *)
THEOREM UniqueAndDense == Spec => []IdsAreUniqueAndDense
<1>1. Inv /\ [Next]_vars => Inv'
  BY NextInv
<1>2. Inv => IdsAreUniqueAndDense
  BY DEF Inv
<1>3. QED BY <1>1, <1>2, InitInv, PTL DEF Spec

(* InsertNeverConflicts: the UNIQUE constraints never fire under the lock. *)
THEOREM NoConflict == Spec => []InsertNeverConflicts
<1>1. Inv /\ [Next]_vars => Inv'
  BY NextInv
<1>2. Inv => InsertNeverConflicts
  BY DEF Inv, TypeOK, Computed, InsertNeverConflicts, At
<1>3. QED BY <1>1, <1>2, InitInv, PTL DEF Spec

(* ImplementsAllocation: ensure_runtime_entity, with its unlocked lookup, its lock and *)
(* its aborts, is plain allocation of the next number.                                 *)
THEOREM Implements == Spec => ImplementsAllocation
<1>1. Inv /\ [Next]_vars => Inv'
  BY NextInv
<1>2. Init => Abstract!Init
  BY DEF Init, Abstract!Init
<1>3. Inv /\ [Next]_vars => [Abstract!Next]_table
  BY StepAllocates
<1>4. QED BY <1>1, <1>2, <1>3, InitInv, PTL DEF Spec, ImplementsAllocation, Abstract!Spec

(* ShownIdsStayValid: an id read off a listing keeps naming its serial. *)
THEOREM ShownIds == Spec => []ShownIdsStayValid
<1> DEFINE Shown == Inv /\ ShownIdsStayValid
<1>1. Init => Shown
  BY InitInv DEF Init, ShownIdsStayValid
<1>2. Shown /\ [Next]_vars => Shown'
  <2> SUFFICES ASSUME Shown, [Next]_vars PROVE Shown'
    OBVIOUS
  <2>1. Inv'
    BY NextInv
  <2>2. \A s \in Serials : table[s] # 0 => table'[s] = table[s]
    BY StepAllocates DEF Inv, TypeOK, Abstract!Next, Abstract!Allocate
  <2>3. UNCHANGED shown \/ \E p \in Processes : ListAliases(p)
    BY DEF Next, Step, Publish, Backfill, BeginImmediate, ReadMax, Abort, Lookup, Recheck,
           Insert, Commit, vars
  <2>4. ASSUME UNCHANGED shown
        PROVE  ShownIdsStayValid'
    BY <2>2, <2>4 DEF Inv, TypeOK, ShownIdsStayValid
  <2>5. ASSUME NEW p \in Processes, ListAliases(p)
        PROVE  ShownIdsStayValid'
    BY <2>5 DEF ListAliases, ShownIdsStayValid, Inv, TypeOK
  <2>6. QED BY <2>1, <2>3, <2>4, <2>5
<1>3. QED BY <1>1, <1>2, PTL DEF Spec

(* BackfillIsComplete: a listing has an id for every serial its backfill read. *)
THEOREM Complete == Spec => []BackfillIsComplete
<1> DEFINE Done == Inv /\ Behind
<1>1. Init => Done
  BY InitInv DEF Init, Behind
<1>2. Done /\ [Next]_vars => Done'
  <2> SUFFICES ASSUME Done, [Next]_vars PROVE Done'
    OBVIOUS
  <2>1. Inv'
    BY NextInv
  <2>2. \A s \in Serials : table[s] # 0 => table'[s] # 0
    BY StepAllocates DEF Inv, TypeOK, Abstract!Next, Abstract!Allocate
  <2> USE DEF Behind, Inv, TypeOK, To
  <2>3. ASSUME UNCHANGED vars
        PROVE  Behind'
    BY <2>3 DEF vars
  <2>4. ASSUME NEW p \in Processes, NEW s \in Serials, Publish(p, s)
        PROVE  Behind'
    BY <2>4 DEF Publish
  <2>5. ASSUME NEW p \in Processes, Backfill(p) \/ BeginImmediate(p) \/ ReadMax(p)
                                   \/ ListAliases(p) \/ Abort(p)
        PROVE  Behind'
    BY <2>5 DEF Backfill, BeginImmediate, ReadMax, ListAliases, Abort
  <2>6. ASSUME NEW p \in Processes, NEW s \in Serials, Lookup(p, s) \/ Recheck(p, s) \/ Insert(p, s)
        PROVE  Behind'
    BY <2>6 DEF Lookup, Recheck, Insert, Ensured, At
  <2>7. ASSUME NEW p \in Processes, NEW s \in Serials, Commit(p, s)
        PROVE  Behind'
    <3>1. table'[s] # 0
      BY <2>7 DEF Commit, At, Computed
    <3>2. QED BY <2>2, <2>7, <3>1 DEF Commit, Ensured, At
  <2>8. Behind'
    BY <2>3, <2>4, <2>5, <2>6, <2>7 DEF Next, Step
  <2>9. QED BY <2>1, <2>8
<1>3. Done => BackfillIsComplete
  BY DEF Behind, BackfillIsComplete, Inv, TypeOK
<1>4. QED BY <1>1, <1>2, <1>3, PTL DEF Spec

-----------------------------------------------------------------------------
(* The smallest of some numbers, by induction on the finite set of those below one. *)

LEMMA Smallest ==
  ASSUME NEW S \in SUBSET Nat, S # {}
  PROVE  \E m \in S : \A k \in S : m <= k
<1> DEFINE Below(x) == {y \in S : y < x}
           T == {Below(x) : x \in S}
           R == StrictSubsetOrdering(S)
           F == FiniteSubsetsOf(S)
<1>0. \A x \in S : x \in Nat
  OBVIOUS
<1>1. T \subseteq F
  <2> SUFFICES ASSUME NEW x \in S PROVE Below(x) \in F
    OBVIOUS
  <2>1. x \in Nat
    BY <1>0
  <2>2. \A y \in S : y < x => y \in 0 .. x
    BY <1>0, <2>1
  <2>3. Below(x) \subseteq 0 .. x
    BY <2>2
  <2>4. IsFiniteSet(0 .. x)
    BY <2>1, FS_Interval
  <2>5. IsFiniteSet(Below(x))
    BY <2>3, <2>4, FS_Subset
  <2>6. QED BY <2>5 DEF FiniteSubsetsOf
<1>2. IsWellFoundedOn(R, F)
  BY FS_StrictSubsetOrderingWellFounded
<1>3. T # {}
  OBVIOUS
<1>4. \E t \in T : \A u \in T : ~ (<<u, t>> \in R)
  <2> HIDE DEF T, R, F
  <2>1. QED BY <1>1, <1>2, <1>3, WFMin, Zenon
<1>5. PICK m \in S : \A k \in S : ~ (<<Below(k), Below(m)>> \in R)
  BY <1>4
<1>6. ASSUME NEW k \in S, ~ (m <= k) PROVE FALSE
  <2>1. k < m /\ ~ (k < k)
    BY <1>0, <1>6
  <2>2. \A y \in S : y < k => y < m
    BY <1>0, <2>1
  <2>3. Below(k) \subseteq Below(m)
    BY <2>2
  <2>4. k \in Below(m) /\ k \notin Below(k)
    BY <2>1
  <2>5. Below(k) # Below(m)
    BY <2>4
  <2>6. Below(k) \in SUBSET S /\ Below(m) \in SUBSET S
    OBVIOUS
  <2> HIDE DEF Below
  <2>7. <<Below(k), Below(m)>> \in R
    BY <2>3, <2>5, <2>6 DEF StrictSubsetOrdering
  <2>8. QED BY <1>5, <2>7
<1>7. QED BY <1>6

LEMMA MinIsSmallest ==
  ASSUME NEW S \in SUBSET Nat, S # {}
  PROVE  Min(S) \in S /\ \A k \in S : Min(S) <= k
BY Smallest DEF Min

-----------------------------------------------------------------------------
(* Signals: the types. *)

Place(n) == [at : Places, cursor : 0 .. n,
             inbox : SUBSET (1 .. n), answers : Seq(1 .. n)]

\* What a request, a step's place and the operator's command become.
LEMMA JobsAreNumbers ==
  /\ Jobs \subseteq Nat
  /\ \A k \in Steps : JobOf(k) \in Jobs
  /\ \A scope \in Scopes : Covered(scope) \subseteq Steps
  /\ Idle \in [pc : {"idle", "mark", "list", "visit"}, verb : Verbs, scope : Scopes,
               listed : SUBSET Jobs, jobs : SUBSET Jobs]
  /\ Idle.pc = "idle"
<1>1. \A scope \in Scopes : Covered(scope) \subseteq Steps
  BY DEF Covered, Scopes, StepsOf
<1>2. QED BY <1>1 DEF Jobs, JobOf, Idle, Verbs, Scopes

LEMMA InitSignalsTyped == SignalsInit => SignalsTypeOK
<1> SUFFICES ASSUME SignalsInit PROVE SignalsTypeOK
  OBVIOUS
<1>1. requests \in Seq(Requests) /\ Len(requests) = 1
  BY DEF SignalsInit, Requests, Earlier
<1>2. step \in [Steps -> Place(Len(requests))] /\ \A k \in Steps : step[k].inbox = {}
  BY <1>1 DEF SignalsInit, Place, Places
<1>3. orders \in 0 .. MaxOrders /\ faults \in 0 .. MaxFaults
  BY SplitAssumption DEF SignalsInit, SplitAssumption
<1>4. order \in [pc : {"idle", "mark", "list", "visit"}, verb : Verbs, scope : Scopes,
                 listed : SUBSET Jobs, jobs : SUBSET Jobs]
  BY JobsAreNumbers DEF SignalsInit
<1>5. QED BY <1>1, <1>2, <1>3, <1>4 DEF SignalsInit, SignalsTypeOK, Place

\* What any step of the system leaves of a step's inbox and answers.
Rests(k) == /\ step'[k].cursor = step[k].cursor /\ step'[k].answers = step[k].answers
            /\ step'[k].inbox \in {step[k].inbox, {}}
Polls(k) == /\ step'[k].cursor = step[k].cursor /\ step'[k].answers = step[k].answers
            /\ step'[k].inbox = Pending(k)
Responds(k) == /\ step[k].inbox # {}
               /\ step'[k].cursor = Min(step[k].inbox)
               /\ step'[k].answers = Append(step[k].answers, Min(step[k].inbox))
               /\ step'[k].inbox = step[k].inbox \ {Min(step[k].inbox)}

LEMMA PendingIsNew ==
  ASSUME SignalsTypeOK, NEW k \in Steps
  PROVE  /\ Pending(k) \subseteq 1 .. Len(requests)
         /\ \A i \in Pending(k) : i > step[k].cursor /\ Applies(requests[i].scope, k)
<1>1. Window \subseteq 1 .. Len(requests)
  <2>1. Len(requests) \in Nat /\ Limit \in Nat
    BY SplitAssumption DEF SplitAssumption, SignalsTypeOK
  <2>2. QED BY <2>1 DEF Window
<1>2. QED BY <1>1 DEF Pending

LEMMA InboxMin ==
  ASSUME SignalsTypeOK, NEW k \in Steps, step[k].inbox # {}
  PROVE  /\ Min(step[k].inbox) \in step[k].inbox
         /\ \A i \in step[k].inbox : Min(step[k].inbox) <= i
<1>1. step[k].inbox \in SUBSET Nat
  BY DEF SignalsTypeOK
<1>2. QED BY <1>1, MinIsSmallest

LEMMA StepMoves ==
  ASSUME SignalsTypeOK, NEW k \in Steps, RunStep(k) \/ EndStep(k)
  PROVE  /\ step' \in [Steps -> Place(Len(requests))]
         /\ \A p \in Steps \ {k} : step'[p] = step[p]
         /\ Rests(k) \/ Polls(k) \/ Responds(k)
<1>1. step \in [Steps -> Place(Len(requests))]
  BY DEF SignalsTypeOK, Place
<1>2. CASE UNCHANGED step
  BY <1>1, <1>2 DEF Rests
<1>3. ASSUME NEW where \in Places, step' = [step EXCEPT ![k].at = where]
      PROVE  /\ step' \in [Steps -> Place(Len(requests))]
             /\ \A p \in Steps \ {k} : step'[p] = step[p]
             /\ Rests(k)
  BY <1>1, <1>3 DEF Rests, Place
<1>4. CASE step' = [step EXCEPT ![k].at = "ended", ![k].inbox = {}]
  BY <1>1, <1>4 DEF Rests, Place, Places
<1>5. CASE Poll(k)
  <2>1. Pending(k) \in SUBSET (1 .. Len(requests))
    BY PendingIsNew
  <2>2. step' = [step EXCEPT ![k].inbox = Pending(k)]
    BY <1>5 DEF Poll
  <2>3. QED BY <1>1, <2>1, <2>2 DEF Polls, Place
<1>6. CASE Respond(k)
  <2>1. PICK i : i = Min(step[k].inbox)
    OBVIOUS
  <2>2. /\ step[k].inbox # {}
        /\ step' = [step EXCEPT ![k].inbox = @ \ {i}, ![k].cursor = i, ![k].answers = Append(@, i)]
    BY <1>6, <2>1 DEF Respond
  <2>3. i \in step[k].inbox
    BY <2>1, <2>2, InboxMin
  <2>4. i \in 1 .. Len(requests) /\ Len(requests) \in Nat
    BY <1>1, <2>3 DEF Place, SignalsTypeOK
  <2>5. Append(step[k].answers, i) \in Seq(1 .. Len(requests))
    BY <1>1, <2>4, AppendProperties DEF Place
  <2>6. step' \in [Steps -> Place(Len(requests))]
    BY <1>1, <2>2, <2>4, <2>5 DEF Place
  <2>7. /\ \A p \in Steps \ {k} : step'[p] = step[p]
        /\ step'[k].cursor = i /\ step'[k].answers = Append(step[k].answers, i)
        /\ step'[k].inbox = step[k].inbox \ {i}
    BY <1>1, <2>2 DEF Place
  <2>8. QED BY <2>1, <2>2, <2>6, <2>7 DEF Responds
<1>7. {"checked", "running", "blocked"} \subseteq Places
  BY DEF Places
<1>8. QED BY <1>2, <1>3, <1>4, <1>5, <1>6, <1>7
          DEF RunStep, CheckStep, StartStep, RunProgram, ProgramEnds, StopStep, EndStep

\* The log of requests stays, or grows by one.
Asked == UNCHANGED requests \/ \E r \in Requests : requests' = Append(requests, r)

LEMMA AskedGrows ==
  ASSUME SignalsTypeOK, Asked
  PROVE  /\ requests' \in Seq(Requests)
         /\ Len(requests) \in Nat /\ Len(requests') \in Nat /\ Len(requests) <= Len(requests')
         /\ \A i \in 1 .. Len(requests) : requests'[i] = requests[i]
<1>1. requests \in Seq(Requests) /\ Len(requests) \in Nat
  BY DEF SignalsTypeOK
<1>2. CASE UNCHANGED requests
  BY <1>1, <1>2
<1>3. ASSUME NEW r \in Requests, requests' = Append(requests, r)
      PROVE  /\ requests' \in Seq(Requests) /\ Len(requests') = Len(requests) + 1
             /\ \A i \in 1 .. Len(requests) : requests'[i] = requests[i]
  BY <1>1, <1>3, AppendProperties
<1>4. QED BY <1>1, <1>2, <1>3 DEF Asked

LEMMA PlacesGrow ==
  ASSUME NEW m \in Nat, NEW n \in Nat, m <= n
  PROVE  Place(m) \subseteq Place(n)
<1>1. 0 .. m \subseteq 0 .. n /\ 1 .. m \subseteq 1 .. n
  OBVIOUS
<1>2. Seq(1 .. m) \subseteq Seq(1 .. n)
  BY <1>1, SeqMonotonic
<1>3. QED BY <1>1, <1>2 DEF Place

LEMMA SignalsMove ==
  ASSUME SignalsTypeOK, [SignalsNext]_signalsVars
  PROVE  \/ UNCHANGED step /\ Asked
         \/ UNCHANGED requests /\ \E k \in Steps : RunStep(k) \/ EndStep(k)
<1>1. CASE UNCHANGED signalsVars
  BY <1>1 DEF signalsVars, Asked
<1>2. CASE Attach \/ Command \/ OperatorDies \/ \E j \in Jobs : ProcessDies(j)
  BY <1>2 DEF Attach, Command, OperatorDies, ProcessDies, MarkScope, ListJobs, CancelJob,
              KillJob, SuspendJob, ResumeJob, SignalJob, Return, storeVars, Asked
<1>3. ASSUME NEW k \in Steps, RunStep(k) \/ EndStep(k) PROVE UNCHANGED requests
  BY <1>3 DEF RunStep, CheckStep, StartStep, RunProgram, ProgramEnds, Poll, Respond, StopStep,
              EndStep, storeVars
<1>4. ASSUME NEW verb \in Verbs, NEW scope \in Scopes, PublishRequest(verb, scope)
      PROVE  UNCHANGED step /\ Asked
  BY <1>4 DEF PublishRequest, Asked, Requests, RequestOf
<1>5. QED BY <1>1, <1>2, <1>3, <1>4 DEF SignalsNext

LEMMA NextStepTyped ==
  ASSUME SignalsTypeOK, [SignalsNext]_signalsVars
  PROVE  /\ requests' \in Seq(Requests)
         /\ step' \in [Steps -> Place(Len(requests'))]
         /\ \A k \in Steps : \A i \in step'[k].inbox : i > step'[k].cursor
<1>1. step \in [Steps -> Place(Len(requests))]
  BY DEF SignalsTypeOK, Place
<1>2. CASE UNCHANGED step /\ Asked
  <2>1. /\ requests' \in Seq(Requests)
        /\ Place(Len(requests)) \subseteq Place(Len(requests'))
    BY <1>2, AskedGrows, PlacesGrow
  <2>2. QED BY <1>1, <1>2, <2>1 DEF SignalsTypeOK
<1>3. ASSUME UNCHANGED requests, NEW k \in Steps, RunStep(k) \/ EndStep(k)
      PROVE  /\ requests' \in Seq(Requests)
             /\ step' \in [Steps -> Place(Len(requests'))]
             /\ \A p \in Steps : \A i \in step'[p].inbox : i > step'[p].cursor
  <2>1. /\ step' \in [Steps -> Place(Len(requests))]
        /\ \A p \in Steps \ {k} : step'[p] = step[p]
        /\ Rests(k) \/ Polls(k) \/ Responds(k)
    BY <1>3, StepMoves
  <2>2. ASSUME NEW i \in step'[k].inbox PROVE i > step'[k].cursor
    <3>1. CASE Rests(k)
      BY <2>2, <3>1 DEF Rests, SignalsTypeOK
    <3>2. CASE Polls(k)
      BY <2>2, <3>2, PendingIsNew DEF Polls
    <3>3. CASE Responds(k)
      <4>1. i \in step[k].inbox /\ i # Min(step[k].inbox) /\ Min(step[k].inbox) \in step[k].inbox
        BY <2>2, <3>3, InboxMin DEF Responds
      <4>2. Min(step[k].inbox) <= i
        BY <3>3, <4>1, InboxMin
      <4>3. i \in Nat /\ Min(step[k].inbox) \in Nat
        BY <1>1, <4>1 DEF Place
      <4>4. QED BY <3>3, <4>1, <4>2, <4>3 DEF Responds
    <3>4. QED BY <2>1, <3>1, <3>2, <3>3
  <2>3. requests' \in Seq(Requests) /\ Len(requests') = Len(requests)
    BY <1>3 DEF SignalsTypeOK
  <2>4. QED BY <2>1, <2>2, <2>3 DEF SignalsTypeOK
<1>4. QED BY <1>2, <1>3, SignalsMove

OrderRecords == [pc : {"idle", "mark", "list", "visit"}, verb : Verbs, scope : Scopes,
                 listed : SUBSET Jobs, jobs : SUBSET Jobs]

\* The job that a command visits next.
LEMMA VisitedIsJob ==
  ASSUME SignalsTypeOK, order.jobs # {}
  PROVE  /\ Min(order.jobs) \in order.jobs /\ Min(order.jobs) \in Jobs
         /\ [type |-> "job", id |-> Min(order.jobs)] \in Scopes
<1>1. order.jobs \in SUBSET Nat /\ order.jobs \subseteq Jobs
  BY JobsAreNumbers DEF SignalsTypeOK
<1>2. Min(order.jobs) \in order.jobs
  BY <1>1, MinIsSmallest
<1>3. QED BY <1>1, <1>2 DEF Scopes

LEMMA OrderFields ==
  ASSUME SignalsTypeOK
  PROVE  /\ order \in OrderRecords
         /\ \A where \in {"idle", "mark", "list", "visit"} : OrderTo(where) =>
              /\ order' \in OrderRecords
              /\ order'.pc = where /\ order'.verb = order.verb /\ order'.scope = order.scope
              /\ order'.listed = order.listed /\ order'.jobs = order.jobs
         /\ order.jobs # {} =>
              /\ Visited \in OrderRecords
              /\ Visited.pc = order.pc /\ Visited.verb = order.verb
              /\ Visited.scope = order.scope /\ Visited.listed = order.listed
              /\ Visited.jobs = order.jobs \ {Min(order.jobs)}
<1>1. order \in OrderRecords
  BY DEF SignalsTypeOK, OrderRecords
<1>2. QED BY <1>1 DEF OrderRecords, OrderTo, Visited

\* What the commands do to the operator's place.
LEMMA PublishedOrder ==
  ASSUME SignalsTypeOK, NEW verb \in Verbs, NEW scope \in Scopes, PublishRequest(verb, scope)
  PROVE  /\ order' \in OrderRecords
         /\ \/ UNCHANGED order
            \/ /\ order'.pc \in {"mark", "list"} /\ order'.verb = verb /\ order'.scope = scope
               /\ verb = "cancel" => (order'.pc = "mark" <=> scope.type # "job")
               /\ verb # "cancel" => order'.pc = "list"
<1>1. order \in OrderRecords
  BY OrderFields
<1>2. ASSUME NEW where \in {"mark", "list"},
             order' = [Idle EXCEPT !.pc = where, !.verb = verb, !.scope = scope]
      PROVE  /\ order' \in OrderRecords
             /\ order'.pc = where /\ order'.verb = verb /\ order'.scope = scope
  BY <1>2, JobsAreNumbers DEF Idle, OrderRecords
<1>3. \/ UNCHANGED order
      \/ \E where \in {"mark", "list"} :
           /\ order' = [Idle EXCEPT !.pc = where, !.verb = verb, !.scope = scope]
           /\ verb = "cancel" => (where = "mark" <=> scope.type # "job")
           /\ verb # "cancel" => where = "list"
  BY DEF PublishRequest
<1>4. QED BY <1>1, <1>2, <1>3

LEMMA ListedOrder ==
  ASSUME SignalsTypeOK, ListJobs
  PROVE  /\ order' \in OrderRecords
         /\ order'.pc = "visit" /\ order'.verb = order.verb /\ order'.scope = order.scope
         /\ order'.jobs = order'.listed
         /\ order'.listed = {j \in Jobs : Visible(j) /\ Covered(order.scope) \intersect StepsOf(j) # {}}
<1> DEFINE found == {j \in Jobs : Visible(j) /\ Covered(order.scope) \intersect StepsOf(j) # {}}
<1>1. order \in OrderRecords
  BY OrderFields
<1>2. order' = [order EXCEPT !.pc = "visit", !.listed = found, !.jobs = found]
  BY DEF ListJobs
<1>3. found \in SUBSET Jobs
  OBVIOUS
<1> HIDE DEF found
<1>4. /\ order' \in OrderRecords
      /\ order'.pc = "visit" /\ order'.verb = order.verb /\ order'.scope = order.scope
      /\ order'.jobs = found /\ order'.listed = found
  BY <1>1, <1>2, <1>3 DEF OrderRecords
<1>5. QED BY <1>4 DEF found

(* kill, suspend and resume signal the process of the job that they visit. *)
LEMMA SignalKinds ==
  ASSUME KillJob \/ SuspendJob \/ ResumeJob
  PROVE  \E verb \in Verbs, taken \in SUBSET Alive, after \in Alive \union {"over"} :
           /\ SignalJob(verb, taken, after)
           /\ verb = "kill" => taken = Alive /\ after = "over"
           /\ verb \in {"kill", "suspend", "resume"}
BY DEF KillJob, SuspendJob, ResumeJob, Verbs, Alive

LEMMA NextCommandTyped ==
  ASSUME SignalsTypeOK, [SignalsNext]_signalsVars
  PROVE  /\ cancellations' \subseteq Scopes
         /\ attached' \in BOOLEAN
         /\ process' \in [Jobs -> {"running", "stopped", "over"}]
         /\ order' \in OrderRecords
         /\ orders' \in 0 .. MaxOrders /\ faults' \in 0 .. MaxFaults
         /\ promised' \subseteq Steps
<1> DEFINE Goal == /\ cancellations' \subseteq Scopes
                   /\ attached' \in BOOLEAN
                   /\ process' \in [Jobs -> {"running", "stopped", "over"}]
                   /\ order' \in OrderRecords
                   /\ orders' \in 0 .. MaxOrders /\ faults' \in 0 .. MaxFaults
                   /\ promised' \subseteq Steps
<1>0. /\ cancellations \subseteq Scopes
      /\ attached \in BOOLEAN
      /\ process \in [Jobs -> {"running", "stopped", "over"}]
      /\ order \in OrderRecords
      /\ orders \in 0 .. MaxOrders /\ faults \in 0 .. MaxFaults
      /\ promised \subseteq Steps
  BY DEF SignalsTypeOK, OrderRecords
<1>1. CASE UNCHANGED signalsVars
  BY <1>0, <1>1 DEF signalsVars
<1>2. ASSUME Fault PROVE faults' \in 0 .. MaxFaults
  BY <1>0, <1>2, SplitAssumption DEF Fault, SplitAssumption
<1>3. CASE Attach
  BY <1>0, <1>3 DEF Attach, storeVars, orderVars
<1>4. ASSUME NEW k \in Steps, RunStep(k) \/ EndStep(k) PROVE Goal
  <2>1. JobOf(k) \in Jobs
    BY JobsAreNumbers
  <2>2. UNCHANGED process \/ process' = [process EXCEPT ![JobOf(k)] = "over"]
    BY <1>4 DEF RunStep, CheckStep, StartStep, RunProgram, ProgramEnds, Poll, Respond, StopStep,
                EndStep, Over
  <2>3. process' \in [Jobs -> {"running", "stopped", "over"}]
    BY <1>0, <2>1, <2>2
  <2>4. UNCHANGED <<cancellations, attached, order, orders, promised, faults>>
    BY <1>4 DEF RunStep, CheckStep, StartStep, RunProgram, ProgramEnds, Poll, Respond, StopStep,
                EndStep, storeVars, orderVars
  <2>5. QED BY <1>0, <2>3, <2>4
<1>5. ASSUME NEW j \in Jobs, ProcessDies(j) PROVE Goal
  BY <1>0, <1>2, <1>5 DEF ProcessDies, storeVars, orderVars
<1>6. ASSUME NEW verb \in Verbs, NEW scope \in Scopes, PublishRequest(verb, scope) PROVE Goal
  <2>1. order' \in OrderRecords
    BY <1>6, PublishedOrder
  <2>2. orders' \in 0 .. MaxOrders
    BY <1>0, <1>6, SplitAssumption DEF PublishRequest, SplitAssumption
  <2>3. UNCHANGED <<cancellations, attached, process, promised, faults>>
    BY <1>6 DEF PublishRequest
  <2>4. QED BY <1>0, <2>1, <2>2, <2>3
<1>7. Idle \in OrderRecords
  BY JobsAreNumbers DEF OrderRecords
<1>8. CASE OperatorDies
  BY <1>0, <1>2, <1>7, <1>8 DEF OperatorDies, storeVars
<1>9. CASE MarkScope
  <2>1. order.scope \in Scopes /\ order' \in OrderRecords
    BY <1>9, OrderFields DEF MarkScope, OrderRecords
  <2>2. QED BY <1>0, <1>9, <2>1 DEF MarkScope
<1>10. CASE ListJobs
  <2>1. order' \in OrderRecords
    BY <1>10, ListedOrder
  <2>2. QED BY <1>0, <1>10, <2>1 DEF ListJobs, storeVars
<1>11. CASE CancelJob
  <2>1. Visited \in OrderRecords /\ [type |-> "job", id |-> Min(order.jobs)] \in Scopes
    BY <1>11, OrderFields, VisitedIsJob DEF CancelJob
  <2>2. QED BY <1>0, <1>11, <2>1 DEF CancelJob
<1>12. CASE KillJob \/ SuspendJob \/ ResumeJob
  <2>1. PICK verb \in Verbs, taken \in SUBSET Alive, after \in Alive \union {"over"} :
          SignalJob(verb, taken, after)
    BY <1>12, SignalKinds
  <2>2. \/ UNCHANGED process
        \/ \E j \in Jobs : process' = [process EXCEPT ![j] = IF @ \in taken THEN after ELSE @]
    BY <2>1, VisitedIsJob DEF SignalJob, Signal
  <2>3. Visited \in OrderRecords
    BY <2>1, OrderFields DEF SignalJob
  <2>4. order' \in OrderRecords
    BY <1>7, <2>1, <2>3 DEF SignalJob, Signal
  <2>5. after \in {"running", "stopped", "over"}
    BY DEF Alive
  <2>6. process' \in [Jobs -> {"running", "stopped", "over"}]
    BY <1>0, <2>2, <2>5
  <2>7. QED BY <1>0, <2>1, <2>4, <2>6 DEF SignalJob, storeVars
<1>13. CASE Return
  <2>1. Covered(order.scope) \subseteq Steps
    BY <1>0, JobsAreNumbers DEF OrderRecords
  <2>2. promised' \subseteq Steps
    BY <1>0, <1>13, <2>1 DEF Return
  <2>3. QED BY <1>0, <1>7, <1>13, <2>2 DEF Return, storeVars
<1>14. QED BY <1>1, <1>3, <1>4, <1>5, <1>6, <1>8, <1>9, <1>10, <1>11, <1>12, <1>13
           DEF SignalsNext, Command

LEMMA NextSignalsTyped ==
  ASSUME SignalsTypeOK, [SignalsNext]_signalsVars
  PROVE  SignalsTypeOK'
BY NextStepTyped, NextCommandTyped DEF SignalsTypeOK, Place, OrderRecords

(* SignalsTypeOK: requests, steps and commands are typed; in particular the inbox of a *)
(* step never holds a request that it has answered, or one that is not in the log.     *)
THEOREM SignalsTyped == SignalsSpec => []SignalsTypeOK
<1>1. SignalsTypeOK /\ [SignalsNext]_signalsVars => SignalsTypeOK'
  BY NextSignalsTyped
<1>2. QED BY <1>1, InitSignalsTyped, PTL DEF SignalsSpec
-----------------------------------------------------------------------------
(* Signals: answers. *)

\* What a step has answered lies behind its cursor, in order, and concerned it; what it
\* has in hand concerns it, too.
InboxConcerns(k) == \A i \in step[k].inbox : Applies(requests[i].scope, k)

AnswersConcern(k) ==
  \A n \in DOMAIN step[k].answers :
    /\ step[k].answers[n] <= step[k].cursor
    /\ Applies(requests[step[k].answers[n]].scope, k)
    /\ \A m \in 1 .. n - 1 : step[k].answers[m] < step[k].answers[n]

\* No request that concerns the step lies between its cursor and what it has in hand, and
\* it has answered all those behind its cursor.
InboxFull(k) ==
  \A i \in 1 .. Limit :
    For(k, i) /\ i > step[k].cursor /\ (\E j \in step[k].inbox : i <= j) => i \in step[k].inbox

NonePassed(k) == \A i \in 1 .. Limit : For(k, i) /\ i <= step[k].cursor => Answered(k, i)

Scoped ==
  SignalsTypeOK /\ \A k \in Steps : /\ InboxConcerns(k) /\ AnswersConcern(k)
                                    /\ InboxFull(k) /\ NonePassed(k)

LEMMA AppliesCovers ==
  ASSUME NEW k \in Steps, NEW scope \in Scopes \union {Earlier}, Applies(scope, k)
  PROVE  k \in Covered(scope)
<1>1. CASE scope.type = "run"
  BY <1>1 DEF Applies, Covered
<1>2. CASE scope.type = "job"
  BY <1>2 DEF Applies, Covered, StepsOf
<1>3. CASE scope.type = "pipeline"
  BY <1>3 DEF Covered
<1>4. QED BY <1>1, <1>2, <1>3 DEF Applies

LEMMA CoveredApplies ==
  ASSUME NEW k \in Steps, NEW scope \in Scopes \union {Earlier}, k \in Covered(scope)
  PROVE  Applies(scope, k)
<1>1. scope.type \in {"run", "job", "pipeline"}
  BY DEF Scopes, Earlier
<1>2. CASE scope.type = "run"
  BY <1>2 DEF Applies, Covered
<1>3. CASE scope.type = "job"
  BY <1>3 DEF Applies, Covered, StepsOf
<1>4. CASE scope.type = "pipeline"
  BY <1>4 DEF Applies
<1>5. QED BY <1>1, <1>2, <1>3, <1>4

LEMMA StepFields ==
  ASSUME SignalsTypeOK, NEW k \in Steps
  PROVE  /\ Len(requests) \in Nat /\ requests \in Seq(Requests)
         /\ step[k].cursor \in 0 .. Len(requests)
         /\ step[k].inbox \subseteq 1 .. Len(requests)
         /\ step[k].answers \in Seq(1 .. Len(requests))
         /\ \A n \in DOMAIN step[k].answers : step[k].answers[n] \in 1 .. Len(requests)
         /\ \A i \in step[k].inbox : i > step[k].cursor
BY ElementOfSeq DEF SignalsTypeOK

LEMMA InitScoped == SignalsInit => Scoped
<1> SUFFICES ASSUME SignalsInit PROVE Scoped
  OBVIOUS
<1>1. \A k \in Steps : step[k].inbox = {} /\ step[k].answers = <<>>
  BY DEF SignalsInit
<1>2. \A k \in Steps : InboxConcerns(k) /\ AnswersConcern(k) /\ InboxFull(k)
  BY <1>1 DEF InboxConcerns, AnswersConcern, InboxFull
<1>3. \A k \in Steps : step[k].cursor = 0
  BY DEF SignalsInit
<1>4. \A k \in Steps : NonePassed(k)
  BY <1>3, SplitAssumption DEF NonePassed, SplitAssumption
<1>5. QED BY <1>2, <1>4, InitSignalsTyped DEF Scoped

(* A request that joins the log changes no answer. *)
LEMMA AskingKeeps ==
  ASSUME Scoped, Asked, UNCHANGED step, NEW k \in Steps
  PROVE  (InboxConcerns(k) /\ AnswersConcern(k) /\ InboxFull(k) /\ NonePassed(k))'
<1>1. /\ step[k].inbox \subseteq 1 .. Len(requests)
      /\ \A n \in DOMAIN step[k].answers : step[k].answers[n] \in 1 .. Len(requests)
  BY StepFields DEF Scoped
<1>2. \A i \in 1 .. Len(requests) : requests'[i] = requests[i]
  BY AskedGrows DEF Scoped
<1>3. InboxConcerns(k)'
  BY <1>1, <1>2 DEF Scoped, InboxConcerns, Applies
<1>4. AnswersConcern(k)'
  BY <1>1, <1>2 DEF Scoped, AnswersConcern, Applies
<1>5. /\ Len(requests) \in Nat
      /\ requests \in Seq(Requests) /\ requests' \in Seq(Requests)
      /\ step[k].cursor \in 0 .. Len(requests)
  BY AskedGrows, StepFields DEF Scoped
<1>6. ASSUME NEW i \in 1 .. Limit, i \in 1 .. Len(requests), For(k, i)' PROVE For(k, i)
  BY <1>2, <1>5, <1>6 DEF For, Covered
<1>7. InboxFull(k)'
  <2>1. ASSUME NEW i \in 1 .. Limit, For(k, i)', i > step[k].cursor,
               NEW j \in step[k].inbox, i <= j
        PROVE  i \in step[k].inbox
    <3>1. i \in 1 .. Len(requests)
      BY <1>1, <1>5, <2>1, SplitAssumption DEF SplitAssumption
    <3>2. For(k, i)
      BY <1>6, <2>1, <3>1
    <3>3. QED BY <2>1, <3>2 DEF Scoped, InboxFull
  <2>2. QED BY <2>1 DEF InboxFull
<1>8. NonePassed(k)'
  <2>1. ASSUME NEW i \in 1 .. Limit, For(k, i)', i <= step[k].cursor PROVE Answered(k, i)
    <3>1. i \in 1 .. Len(requests)
      BY <1>5, <2>1, SplitAssumption DEF SplitAssumption
    <3>2. For(k, i)
      BY <1>6, <2>1, <3>1
    <3>3. QED BY <2>1, <3>2 DEF Scoped, NonePassed
  <2>2. QED BY <2>1 DEF NonePassed, Answered
<1>9. QED BY <1>3, <1>4, <1>7, <1>8

(* A step that moves answers the oldest request in its inbox, or none. *)
LEMMA MovingKeeps ==
  ASSUME Scoped, UNCHANGED requests, NEW k \in Steps, Rests(k) \/ Polls(k) \/ Responds(k)
  PROVE  (InboxConcerns(k) /\ AnswersConcern(k) /\ InboxFull(k) /\ NonePassed(k))'
<1>0. SignalsTypeOK /\ InboxConcerns(k) /\ AnswersConcern(k) /\ InboxFull(k) /\ NonePassed(k)
  BY DEF Scoped
<1>a. \A i : For(k, i)' <=> For(k, i)
  BY DEF For, Covered
<1>1. CASE Rests(k)
  <2>1. InboxConcerns(k)' /\ AnswersConcern(k)'
    BY <1>0, <1>1 DEF Rests, InboxConcerns, AnswersConcern, Applies
  <2>2. InboxFull(k)' /\ NonePassed(k)'
    BY <1>0, <1>a, <1>1 DEF Rests, InboxFull, NonePassed, Answered
  <2>3. QED BY <2>1, <2>2
<1>2. CASE Polls(k)
  <2>1. \A i \in Pending(k) : Applies(requests[i].scope, k)
    BY <1>0, PendingIsNew
  <2>2. InboxConcerns(k)'
    BY <1>2, <2>1 DEF Polls, InboxConcerns, Applies
  <2>3. AnswersConcern(k)'
    BY <1>0, <1>2 DEF Polls, AnswersConcern, Applies
  <2>4. NonePassed(k)'
    BY <1>0, <1>a, <1>2 DEF Polls, NonePassed, Answered
  <2>5. ASSUME NEW i \in 1 .. Limit, For(k, i), i > step[k].cursor,
               NEW j \in Pending(k), i <= j
        PROVE  i \in Pending(k)
    <3>1. requests[i] \in Requests
      BY <1>0, <2>5, ElementOfSeq, StepFields DEF For
    <3>2. Applies(requests[i].scope, k)
      BY <2>5, <3>1, CoveredApplies DEF For, Requests
    <3>3. i \in Window
      <4>1. j \in Window /\ Len(requests) \in Nat /\ Limit \in Nat
        BY <1>0, SplitAssumption, StepFields DEF Pending, SplitAssumption
      <4>2. QED BY <2>5, <4>1 DEF Window
    <3>4. QED BY <2>5, <3>2, <3>3 DEF Pending, For
  <2>6. InboxFull(k)'
    BY <1>a, <1>2, <2>5 DEF Polls, InboxFull
  <2>7. QED BY <2>2, <2>3, <2>4, <2>6
<1>3. CASE Responds(k)
  <2>1. PICK i : i = Min(step[k].inbox)
    OBVIOUS
  <2>2. /\ i \in step[k].inbox
        /\ step'[k].cursor = i /\ step'[k].inbox = step[k].inbox \ {i}
        /\ step'[k].answers = Append(step[k].answers, i)
    BY <1>0, <1>3, <2>1, InboxMin DEF Responds
  <2>3. PICK s \in Seq(1 .. Len(requests)) : s = step[k].answers
    BY <1>0, StepFields
  <2>4. PICK c \in 0 .. Len(requests) : c = step[k].cursor
    BY <1>0, StepFields
  <2>5. /\ i \in Nat /\ c \in Nat /\ c < i /\ Applies(requests[i].scope, k)
        /\ \A n \in DOMAIN s : s[n] \in Nat
    BY <1>0, <2>2, <2>3, <2>4, StepFields DEF InboxConcerns
  <2>6. \A n \in DOMAIN s : /\ s[n] <= c
                            /\ Applies(requests[s[n]].scope, k)
                            /\ \A m \in 1 .. n - 1 : s[m] < s[n]
    BY <1>0, <2>3, <2>4 DEF AnswersConcern
  <2>7. /\ Len(s) \in Nat /\ DOMAIN s = 1 .. Len(s)
        /\ DOMAIN Append(s, i) = 1 .. Len(s) + 1
        /\ \A n \in 1 .. Len(s) : Append(s, i)[n] = s[n]
        /\ Append(s, i)[Len(s) + 1] = i
    <3>1. s \in Seq(Nat)
      BY <2>3, <2>5, <1>0, StepFields, SeqMonotonic
    <3>2. QED BY <2>5, <3>1, AppendProperties
  <2>8. ASSUME NEW n \in DOMAIN Append(s, i)
        PROVE  /\ Append(s, i)[n] <= i
               /\ Applies(requests[Append(s, i)[n]].scope, k)
               /\ \A m \in 1 .. n - 1 : Append(s, i)[m] < Append(s, i)[n]
    <3>1. CASE n = Len(s) + 1
      <4>1. Append(s, i)[n] = i /\ i <= i
        BY <2>5, <2>7, <3>1
      <4>2. ASSUME NEW m \in 1 .. n - 1 PROVE Append(s, i)[m] < i
        <5>1. m \in 1 .. Len(s)
          BY <2>7, <3>1
        <5>2. Append(s, i)[m] = s[m] /\ s[m] \in Nat /\ s[m] <= c
          BY <2>5, <2>6, <2>7, <5>1
        <5>3. PICK a \in Nat : a = s[m] /\ a <= c
          BY <5>2
        <5>4. c \in Nat /\ i \in Nat /\ c < i
          BY <2>5
        <5>5. a < i
          BY <5>3, <5>4
        <5>6. QED BY <5>2, <5>3, <5>5
      <4>3. QED BY <2>5, <4>1, <4>2
    <3>2. CASE n \in 1 .. Len(s)
      <4>1. /\ Append(s, i)[n] = s[n] /\ s[n] \in Nat /\ s[n] <= c
            /\ Applies(requests[s[n]].scope, k)
            /\ \A m \in 1 .. n - 1 : s[m] < s[n]
        BY <2>5, <2>6, <2>7, <3>2
      <4>2. \A m \in 1 .. n - 1 : Append(s, i)[m] = s[m]
        BY <2>7, <3>2
      <4>3. s[n] <= i
        BY <2>5, <4>1
      <4>4. QED BY <4>1, <4>2, <4>3
    <3>3. QED BY <2>7, <3>1, <3>2
  <2>9. AnswersConcern(k)'
    BY <2>2, <2>3, <2>8 DEF AnswersConcern, Applies
  <2>10. InboxConcerns(k)'
    BY <1>0, <2>2 DEF InboxConcerns, Applies
  <2>11. \A h \in step[k].inbox : i <= h
    BY <1>0, <2>1, <2>2, InboxMin
  <2>12. ASSUME NEW h \in 1 .. Limit, For(k, h), h > i, NEW j \in step[k].inbox \ {i}, h <= j
         PROVE  h \in step[k].inbox \ {i}
    <3>1. h \in Nat /\ i \in Nat /\ c \in Nat /\ c < i
      BY <2>5, SplitAssumption DEF SplitAssumption
    <3>2. h > c /\ h # i
      BY <2>12, <3>1
    <3>3. h \in step[k].inbox
      BY <1>0, <2>4, <2>12, <3>2 DEF InboxFull
    <3>4. QED BY <3>2, <3>3
  <2>13. InboxFull(k)'
    BY <1>a, <2>2, <2>12 DEF InboxFull
  <2>14. ASSUME NEW h \in 1 .. Limit, For(k, h), h <= i PROVE Answered(k, h)'
    <3>0. h \in Nat /\ i \in Nat /\ c \in Nat
      BY <2>5, SplitAssumption DEF SplitAssumption
    <3>1. CASE h <= c
      <4>1. PICK n \in DOMAIN s : s[n] = h
        BY <1>0, <2>3, <2>4, <2>14, <3>1 DEF NonePassed, Answered
      <4>2. n \in DOMAIN Append(s, i) /\ Append(s, i)[n] = h
        BY <2>7, <4>1
      <4>3. QED BY <2>2, <2>3, <4>2 DEF Answered
    <3>2. CASE h > c
      <4>1. h \in step[k].inbox
        BY <1>0, <2>2, <2>4, <2>14, <3>2 DEF InboxFull
      <4>2. h = i
        BY <2>11, <2>14, <3>0, <4>1
      <4>3. Len(s) + 1 \in DOMAIN Append(s, i) /\ Append(s, i)[Len(s) + 1] = h
        BY <2>7, <4>2
      <4>4. QED BY <2>2, <2>3, <4>3 DEF Answered
    <3>3. QED BY <3>0, <3>1, <3>2
  <2>15. NonePassed(k)'
    BY <1>a, <2>2, <2>14 DEF NonePassed
  <2>16. QED BY <2>9, <2>10, <2>13, <2>15
<1>4. QED BY <1>1, <1>2, <1>3

LEMMA NextScoped ==
  ASSUME Scoped, [SignalsNext]_signalsVars
  PROVE  Scoped'
<1>1. SignalsTypeOK /\ SignalsTypeOK'
  BY NextSignalsTyped DEF Scoped
<1>2. CASE UNCHANGED step /\ Asked
  BY <1>1, <1>2, AskingKeeps DEF Scoped
<1>3. ASSUME UNCHANGED requests, NEW k \in Steps, RunStep(k) \/ EndStep(k) PROVE Scoped'
  <2>1. \A p \in Steps \ {k} : step'[p] = step[p]
    BY <1>1, <1>3, StepMoves
  <2>2. ASSUME NEW p \in Steps PROVE Rests(p) \/ Polls(p) \/ Responds(p)
    <3>1. CASE p = k
      BY <1>1, <1>3, <3>1, StepMoves
    <3>2. CASE p # k
      BY <2>1, <3>2 DEF Rests
    <3>3. QED BY <3>1, <3>2
  <2>3. QED BY <1>1, <1>3, <2>2, MovingKeeps DEF Scoped
<1>4. QED BY <1>1, <1>2, <1>3, SignalsMove

(* AnswersAreScoped: a commandlet answers only requests whose target it belongs to, in *)
(* their order and none twice, and passes over none of the first Limit that concern it, *)
(* whatever else is requested, attached, ended or killed.                               *)
THEOREM AnswersStayScoped == SignalsSpec => []AnswersAreScoped
<1>1. Scoped /\ [SignalsNext]_signalsVars => Scoped'
  BY NextScoped
<1>2. Scoped => AnswersAreScoped
  <2> SUFFICES ASSUME Scoped, NEW k \in Steps, NEW n \in DOMAIN step[k].answers
               PROVE  /\ k \in Covered(requests[step[k].answers[n]].scope)
                      /\ \A m \in 1 .. n - 1 : step[k].answers[m] < step[k].answers[n]
    BY DEF AnswersAreScoped, Scoped, NonePassed
  <2>1. AnswersConcern(k) /\ SignalsTypeOK
    BY DEF Scoped
  <2>2. PICK i \in 1 .. Len(requests) : i = step[k].answers[n]
    BY <2>1, StepFields
  <2>3. requests[i].scope \in Scopes \union {Earlier}
    <3>1. requests \in Seq(Requests)
      BY <2>1 DEF SignalsTypeOK
    <3>2. requests[i] \in Requests
      BY <2>2, <3>1, ElementOfSeq
    <3>3. QED BY <3>2 DEF Requests
  <2>4. Applies(requests[i].scope, k)
    BY <2>1, <2>2 DEF AnswersConcern
  <2>5. QED BY <2>1, <2>2, <2>3, <2>4, AppliesCovers DEF AnswersConcern
<1>3. QED BY <1>1, <1>2, InitScoped, PTL DEF SignalsSpec
-----------------------------------------------------------------------------
(* Signals: what a command leaves. *)

JobScope(j) == [type |-> "job", id |-> j]

\* The commands that are to stop their target.
Stops == {"cancel", "stop", "kill"}

\* What a command has done so far, at each of its places.
Progress ==
  /\ order.pc = "mark" => order.scope.type # "job"
  /\ order.pc \in {"list", "visit"} /\ order.verb = "cancel" /\ order.scope.type # "job" =>
       order.scope \in cancellations
  /\ order.pc = "list" /\ order.scope.type = "job" => Visible(order.scope.id)
  /\ order.pc = "visit" =>
       /\ order.verb \in Stops => \A j \in order.listed \ order.jobs :
            JobScope(j) \in cancellations \/ process[j] \notin Alive
       /\ order.verb = "cancel" /\ order.scope.type = "job" =>
            \A k \in Covered(order.scope) : JobOf(k) \in order.listed

Promises == SignalsTypeOK /\ Progress /\ OrdersAreRecorded

\* No step of the system withdraws a cancellation, detaches a job or revives a process.
Lasts == /\ cancellations \subseteq cancellations'
         /\ attached => attached'
         /\ \A j \in Jobs : process[j] \notin Alive => process'[j] \notin Alive

LEMMA SignalsLast ==
  ASSUME SignalsTypeOK, [SignalsNext]_signalsVars
  PROVE  Lasts
<1>0. process \in [Jobs -> {"running", "stopped", "over"}]
  BY DEF SignalsTypeOK
<1>1. CASE UNCHANGED signalsVars
  BY <1>1 DEF signalsVars, Lasts
<1>2. CASE Attach \/ OperatorDies \/ MarkScope \/ ListJobs \/ CancelJob \/ Return
  BY <1>2 DEF Attach, OperatorDies, MarkScope, ListJobs, CancelJob, Return, storeVars, Lasts
<1>3. CASE KillJob \/ SuspendJob \/ ResumeJob
  <2>1. PICK verb \in Verbs, taken \in SUBSET Alive, after \in Alive \union {"over"} :
          SignalJob(verb, taken, after)
    BY <1>3, SignalKinds
  <2>2. \/ UNCHANGED process
        \/ \E j \in Jobs : process' = [process EXCEPT ![j] = IF @ \in taken THEN after ELSE @]
    BY <2>1, VisitedIsJob DEF SignalJob, Signal
  <2>3. UNCHANGED <<cancellations, attached>>
    BY <2>1 DEF SignalJob, storeVars
  <2>4. QED BY <1>0, <2>2, <2>3 DEF Lasts
<1>4. ASSUME NEW k \in Steps, RunStep(k) \/ EndStep(k) PROVE Lasts
  <2>1. UNCHANGED <<cancellations, attached>>
        /\ (UNCHANGED process \/ process' = [process EXCEPT ![JobOf(k)] = "over"])
    BY <1>4 DEF RunStep, CheckStep, StartStep, RunProgram, ProgramEnds, Poll, Respond, StopStep,
                EndStep, Over, storeVars
  <2>2. QED BY <1>0, <2>1 DEF Lasts, Alive
<1>5. ASSUME NEW j \in Jobs, ProcessDies(j) PROVE Lasts
  BY <1>0, <1>5 DEF ProcessDies, storeVars, Lasts, Alive
<1>6. ASSUME NEW verb \in Verbs, NEW scope \in Scopes, PublishRequest(verb, scope) PROVE Lasts
  BY <1>6 DEF PublishRequest, Lasts
<1>7. QED BY <1>1, <1>2, <1>3, <1>4, <1>5, <1>6 DEF SignalsNext, Command

(* What holds of a place goes on holding while the operator stays at it. *)
LEMMA ProgressLasts ==
  ASSUME SignalsTypeOK, Progress, Lasts, UNCHANGED order
  PROVE  Progress'
<1>1. order.listed \subseteq Jobs
  BY DEF SignalsTypeOK
<1>2. QED BY <1>1 DEF Progress, Lasts, Visible

LEMMA VisitLasts ==
  ASSUME SignalsTypeOK, Progress, Lasts, order.pc = "visit", order.jobs # {}, order' = Visited,
         order.verb \in Stops => \/ JobScope(Min(order.jobs)) \in cancellations'
                                \/ process'[Min(order.jobs)] \notin Alive
  PROVE  Progress'
<1>1. PICK j \in Jobs : j = Min(order.jobs)
  BY VisitedIsJob
<1>2. /\ order'.pc = "visit" /\ order'.verb = order.verb /\ order'.scope = order.scope
      /\ order'.listed = order.listed /\ order'.jobs = order.jobs \ {j}
  BY <1>1, OrderFields
<1>3. order.listed \subseteq Jobs
  BY DEF SignalsTypeOK
<1>4. ASSUME order.verb \in Stops, NEW i \in order'.listed \ order'.jobs
      PROVE  JobScope(i) \in cancellations' \/ process'[i] \notin Alive
  <2>1. CASE i = j
    BY <1>1, <1>4, <2>1
  <2>2. CASE i # j
    <3>1. i \in order.listed \ order.jobs /\ i \in Jobs
      BY <1>2, <1>3, <1>4, <2>2
    <3>2. JobScope(i) \in cancellations \/ process[i] \notin Alive
      BY <1>4, <3>1 DEF Progress
    <3>3. QED BY <3>1, <3>2 DEF Lasts
  <2>3. QED BY <2>1, <2>2
<1>5. order.verb = "cancel" /\ order.scope.type # "job" => order.scope \in cancellations'
  BY DEF Progress, Lasts
<1>6. order.verb = "cancel" /\ order.scope.type = "job" =>
        \A k \in Covered(order.scope) : JobOf(k) \in order.listed
  BY DEF Progress
<1>7. (\A k \in Covered(order.scope) : JobOf(k) \in order.listed) =>
        (\A k \in Covered(order.scope) : JobOf(k) \in order.listed)'
  BY <1>2
<1>8. QED BY <1>2, <1>4, <1>5, <1>6, <1>7 DEF Progress

LEMMA NextProgress ==
  ASSUME SignalsTypeOK, Progress, [SignalsNext]_signalsVars
  PROVE  Progress'
<1>0. Lasts
  BY SignalsLast
<1>1. CASE UNCHANGED order
  BY <1>0, <1>1, ProgressLasts
<1>2. CASE order' = Idle
  BY <1>2, JobsAreNumbers DEF Progress
<1>3. ASSUME NEW verb \in Verbs, NEW scope \in Scopes, PublishRequest(verb, scope)
      PROVE  Progress'
  <2>1. CASE UNCHANGED order
    BY <1>1, <2>1
  <2>2. CASE /\ order'.pc \in {"mark", "list"} /\ order'.verb = verb /\ order'.scope = scope
             /\ verb = "cancel" => (order'.pc = "mark" <=> scope.type # "job")
             /\ verb # "cancel" => order'.pc = "list"
    <3>1. (scope.type = "job" => Visible(scope.id)) /\ UNCHANGED attached
      BY <1>3 DEF PublishRequest
    <3>2. order'.pc = "mark" => order'.scope.type # "job"
      BY <2>2
    <3>3. ~ (order'.pc \in {"list", "visit"} /\ order'.verb = "cancel" /\ order'.scope.type # "job")
      BY <2>2
    <3>4. order'.scope.type = "job" => order'.scope.id = 2 \/ attached'
      BY <2>2, <3>1 DEF Visible
    <3>5. QED BY <2>2, <3>2, <3>3, <3>4 DEF Progress, Visible
  <2>3. QED BY <1>3, <2>1, <2>2, PublishedOrder
<1>4. CASE MarkScope
  <2>1. /\ order.pc = "mark" /\ order'.pc = "list" /\ order'.scope = order.scope
        /\ cancellations' = cancellations \union {order.scope}
    BY <1>4, OrderFields DEF MarkScope
  <2>2. order.scope.type # "job" /\ order'.scope \in cancellations'
    BY <2>1 DEF Progress
  <2>3. QED BY <2>1, <2>2 DEF Progress
<1>5. CASE ListJobs
  <2>1. /\ order'.pc = "visit" /\ order'.verb = order.verb /\ order'.scope = order.scope
        /\ order'.jobs = order'.listed
        /\ order'.listed = {j \in Jobs : Visible(j) /\ Covered(order.scope) \intersect StepsOf(j) # {}}
        /\ order.pc = "list" /\ UNCHANGED cancellations
    BY <1>5, ListedOrder DEF ListJobs, storeVars
  <2>2. ASSUME order.scope.type = "job", NEW k \in Covered(order.scope)
        PROVE  JobOf(k) \in order'.listed
    <3>1. JobOf(k) = order.scope.id /\ k \in StepsOf(JobOf(k)) /\ k \in Steps
      BY <2>2 DEF Covered, StepsOf
    <3>2. Visible(order.scope.id)
      BY <2>1, <2>2 DEF Progress
    <3>3. JobOf(k) \in Jobs
      BY <3>1, JobsAreNumbers
    <3>4. QED BY <2>1, <2>2, <3>1, <3>2, <3>3
  <2>3. (\A k \in Covered(order.scope) : JobOf(k) \in order'.listed) =>
          (\A k \in Covered(order.scope) : JobOf(k) \in order.listed)'
    BY <2>1
  <2>4. order.verb = "cancel" /\ order.scope.type # "job" => order.scope \in cancellations
    BY <2>1 DEF Progress
  <2>5. QED BY <2>1, <2>2, <2>3, <2>4 DEF Progress
<1>6. CASE CancelJob
  <2>1. /\ order.pc = "visit" /\ order.jobs # {} /\ order' = Visited
        /\ JobScope(Min(order.jobs)) \in cancellations'
    BY <1>6 DEF CancelJob, JobScope
  <2>2. QED BY <1>0, <2>1, VisitLasts
<1>7. CASE KillJob \/ SuspendJob \/ ResumeJob
  <2>1. PICK verb \in Verbs, taken \in SUBSET Alive, after \in Alive \union {"over"} :
          /\ SignalJob(verb, taken, after)
          /\ verb = "kill" => taken = Alive /\ after = "over"
          /\ verb \in {"kill", "suspend", "resume"}
    BY <1>7, SignalKinds
  <2>2. /\ order.pc = "visit" /\ order.jobs # {} /\ order.verb = verb
        /\ Signal(Min(order.jobs), taken, after)
    BY <2>1 DEF SignalJob
  <2>3. PICK j \in Jobs : j = Min(order.jobs)
    BY <2>2, VisitedIsJob
  <2>4. CASE order' = Idle
    BY <1>2, <2>4
  <2>5. CASE order' = Visited
    <3>1. CASE order.verb \in Stops
      <4>1. verb = "kill"
        BY <2>1, <2>2, <3>1 DEF Stops
      <4>2. process[j] \in Alive => process'[j] = "over"
        BY <2>1, <2>2, <2>3, <4>1 DEF Signal, SignalsTypeOK
      <4>3. process'[j] \notin Alive
        BY <1>0, <4>2 DEF Lasts, Alive
      <4>4. QED BY <1>0, <2>2, <2>3, <2>5, <4>3, VisitLasts
    <3>2. CASE order.verb \notin Stops
      BY <1>0, <2>2, <2>5, <3>2, VisitLasts
    <3>3. QED BY <3>1, <3>2
  <2>6. QED BY <2>2, <2>4, <2>5 DEF Signal
<1>8. CASE Return \/ OperatorDies
  BY <1>2, <1>8 DEF Return, OperatorDies
<1>9. ASSUME UNCHANGED signalsVars \/ Attach
             \/ (\E k \in Steps : RunStep(k) \/ EndStep(k)) \/ \E j \in Jobs : ProcessDies(j)
      PROVE  UNCHANGED order
  BY <1>9 DEF signalsVars, Attach, RunStep, CheckStep, StartStep, RunProgram, ProgramEnds, Poll,
              Respond, StopStep, EndStep, ProcessDies, orderVars
<1>10. QED BY <1>1, <1>3, <1>4, <1>5, <1>6, <1>7, <1>8, <1>9 DEF SignalsNext, Command

(* What a command has done when it returns binds each of the steps that it was for. *)
LEMMA ReturnBinds ==
  ASSUME SignalsTypeOK, Progress, Return, NEW k \in promised' \ promised
  PROVE  Cancelled(k) \/ process[JobOf(k)] \notin Alive
<1>1. /\ order.pc = "visit" /\ order.jobs = {} /\ k \in Covered(order.scope)
      /\ order.verb \in Stops
      /\ order.verb = "cancel" \/ JobOf(k) \in order.listed
  BY DEF Return, Stops
<1>2. order.scope \in Scopes
  BY DEF SignalsTypeOK
<1>3. CASE JobOf(k) \in order.listed
  <2>1. JobScope(JobOf(k)) \in cancellations \/ process[JobOf(k)] \notin Alive
    BY <1>1, <1>3 DEF Progress
  <2>2. QED BY <2>1 DEF Cancelled, JobScope
<1>4. CASE order.verb = "cancel" /\ order.scope.type = "job"
  BY <1>1, <1>3, <1>4 DEF Progress
<1>5. CASE order.verb = "cancel" /\ order.scope.type # "job"
  <2>1. order.scope \in cancellations
    BY <1>1, <1>5 DEF Progress
  <2>2. order.scope \in {[type |-> "pipeline", id |-> 1], [type |-> "run", id |-> k]}
    <3>1. CASE order.scope.type = "run"
      <4>1. order.scope.id = k
        BY <1>1, <3>1 DEF Covered
      <4>2. QED BY <1>2, <3>1, <4>1 DEF Scopes
    <3>2. CASE order.scope.type = "pipeline"
      BY <1>2, <3>2 DEF Scopes
    <3>3. QED BY <1>2, <1>5, <3>1, <3>2 DEF Scopes
  <2>3. QED BY <2>1, <2>2 DEF Cancelled
<1>6. QED BY <1>1, <1>3, <1>4, <1>5

LEMMA NextRecorded ==
  ASSUME Promises, [SignalsNext]_signalsVars
  PROVE  OrdersAreRecorded'
<1>1. SignalsTypeOK /\ Progress /\ Lasts
  BY SignalsLast DEF Promises
<1>2. promised' = promised \/ Return
  BY DEF SignalsNext, signalsVars, Attach, Command, OperatorDies, ProcessDies, MarkScope, ListJobs,
         CancelJob, KillJob, SuspendJob, ResumeJob, SignalJob, RunStep, CheckStep, StartStep,
         RunProgram, ProgramEnds, Poll, Respond, StopStep, EndStep, PublishRequest, orderVars
<1>3. ASSUME NEW k \in promised' PROVE Cancelled(k) \/ process[JobOf(k)] \notin Alive
  <2>1. CASE k \in promised
    BY <2>1 DEF Promises, OrdersAreRecorded
  <2>2. CASE k \notin promised
    BY <1>1, <1>2, <1>3, <2>2, ReturnBinds
  <2>3. QED BY <2>1, <2>2
<1>4. ASSUME NEW k \in promised' PROVE (Cancelled(k) \/ process[JobOf(k)] \notin Alive)'
  <2>1. k \in Steps
    BY <1>1, <1>4, NextSignalsTyped DEF SignalsTypeOK
  <2>2. JobOf(k) \in Jobs
    BY <2>1, JobsAreNumbers
  <2>3. QED BY <1>1, <1>3, <1>4, <2>2 DEF Lasts, Cancelled
<1>5. QED BY <1>4 DEF OrdersAreRecorded

(* OrdersAreRecorded: when a cancel, a stop or a kill has returned, each step that it was *)
(* for is cancelled, or its process has ended, and stays so; with the polls of its        *)
(* commandlet this is why it stops (OrdersStopSteps, which the run checks).               *)
THEOREM OrdersStayRecorded == SignalsSpec => []OrdersAreRecorded
<1>1. SignalsInit => Promises
  BY InitSignalsTyped, JobsAreNumbers DEF SignalsInit, Promises, Progress, OrdersAreRecorded
<1>2. Promises /\ [SignalsNext]_signalsVars => Promises'
  BY NextSignalsTyped, NextProgress, NextRecorded DEF Promises
<1>3. Promises => OrdersAreRecorded
  BY DEF Promises
<1>4. QED BY <1>1, <1>2, <1>3, PTL DEF SignalsSpec

(* Only CheckStep takes a step from its place before the check, and not one that is     *)
(* cancelled, or whose process has ended or is suspended.                               *)
LEMMA NextStartsUnbound ==
  ASSUME Promises, [SignalsNext]_signalsVars, NEW k \in promised, step[k].at = "waiting"
  PROVE  step'[k].at = "waiting"
<1>1. SignalsTypeOK /\ k \in Steps
  BY DEF Promises, SignalsTypeOK
<1>2. Cancelled(k) \/ process[JobOf(k)] \notin Alive
  BY DEF Promises, OrdersAreRecorded
<1>3. ASSUME NEW n \in Steps, RunStep(n) \/ EndStep(n) PROVE step'[k].at = "waiting"
  <2>1. CASE n # k
    BY <1>1, <1>3, <2>1, StepMoves
  <2>2. CASE CheckStep(k)
    <3>1. process[JobOf(k)] \in Alive
      BY <2>2 DEF CheckStep, Due, Alive
    <3>2. QED BY <1>2, <2>2, <3>1 DEF CheckStep
  <2>3. CASE Poll(k) \/ Respond(k) \/ RunProgram(k) \/ StopStep(k) \/ EndStep(k)
    BY <2>3 DEF Poll, Respond, RunProgram, StopStep, EndStep, Running
  <2>4. CASE StartStep(k) \/ ProgramEnds(k)
    BY <2>4 DEF StartStep, ProgramEnds
  <2>5. QED BY <1>3, <2>1, <2>2, <2>3, <2>4 DEF RunStep
<1>4. CASE UNCHANGED step
  BY <1>4
<1>5. QED BY <1>1, <1>3, <1>4, SignalsMove

(* BoundStepsNeverStart: from the return of a cancel, a stop or a kill on, none of the    *)
(* steps that it was for passes its check, in whatever order jobs are attached, suspended, *)
(* resumed, polled and ended.  A step that has passed its check when the command returns   *)
(* still starts; it is the step's polls that stop it then.                                 *)
THEOREM BoundStepsStayUnstarted == SignalsSpec => BoundStepsNeverStart
<1>1. SignalsInit => Promises
  BY InitSignalsTyped, JobsAreNumbers DEF SignalsInit, Promises, Progress, OrdersAreRecorded
<1>2. Promises /\ [SignalsNext]_signalsVars => Promises'
  BY NextSignalsTyped, NextProgress, NextRecorded DEF Promises
<1>3. Promises /\ [SignalsNext]_signalsVars
        => [\A k \in promised : step[k].at = "waiting" => step'[k].at = "waiting"]_signalsVars
  BY NextStartsUnbound
<1>4. QED BY <1>1, <1>2, <1>3, PTL DEF SignalsSpec, BoundStepsNeverStart
=============================================================================
