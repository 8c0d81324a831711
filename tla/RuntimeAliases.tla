--------------------------- MODULE RuntimeAliases ---------------------------
(***************************************************************************)
(* Allocation of local ids for pipeline and step serials, by any number of *)
(* processes over one SQLite database (RuntimeMixin in db/runtime.py).     *)
(*                                                                         *)
(* Publishing an event inserts it and then calls ensure_runtime_entity for *)
(* its serial.  A listing first backfills: it reads the serials that have  *)
(* events, and calls ensure_runtime_entity for each, oldest first.  A call *)
(* looks the serial up outside any transaction, and allocates under BEGIN  *)
(* IMMEDIATE.  A process that dies inside its transaction loses it.        *)
(***************************************************************************)
EXTENDS Naturals

CONSTANTS
  Processes,   \* threads of control of sessions and background workers
  Listers,     \* those that list; the others publish
  Serials      \* durable serials of one entity type, numbered by first event

ASSUME SerialsAssumption == Serials \subseteq Nat /\ Listers \subseteq Processes

VARIABLES
  known,    \* serials that have events
  table,    \* runtime_entities: serial to local id, 0 where there is no row
  writer,   \* the process that holds the write lock, if any
  pc,       \* where each process is in ensure_runtime_entity
  scan,     \* the serials its backfill has read, or the one it publishes for
  todo,     \* of those, the ones still to be ensured
  next,     \* the id it computed inside its transaction
  shown     \* the ids it last listed

vars == <<known, table, writer, pc, scan, todo, next, shown>>

PC == {"idle", "lookup", "begin", "recheck", "max", "insert", "commit", "list"}

TypeOK ==
  /\ known \subseteq Serials
  /\ table \in [Serials -> Nat]
  /\ writer \subseteq Processes
  /\ pc \in [Processes -> PC]
  /\ scan \in [Processes -> SUBSET Serials]
  /\ todo \in [Processes -> SUBSET Serials]
  /\ next \in [Processes -> Nat]
  /\ shown \in [Processes -> [Serials -> Nat]]

Init ==
  /\ known = {}
  /\ table = [s \in Serials |-> 0]
  /\ writer = {}
  /\ pc = [p \in Processes |-> "idle"]
  /\ scan = [p \in Processes |-> {}]
  /\ todo = [p \in Processes |-> {}]
  /\ next = [p \in Processes |-> 0]
  /\ shown = [p \in Processes |-> [s \in Serials |-> 0]]

-----------------------------------------------------------------------------
To(p, where) == pc' = [pc EXCEPT ![p] = where]

\* The serial a process is at: the oldest it has still to ensure.
At(p, where, s) == pc[p] = where /\ s \in todo[p] /\ \A t \in todo[p] : s <= t

\* Mutant: a serial that has its id is looked up again.
EnsuredAgain(p, s) == UNCHANGED todo /\ To(p, "lookup")

\* The serial has its id: on to the next one, to the listing, or back to the publisher.
Ensured(p, s) == /\ todo' = [todo EXCEPT ![p] = @ \ {s}]
                 /\ To(p, IF todo[p] # {s} THEN "lookup"
                          ELSE IF p \in Listers THEN "list" ELSE "idle")

\* publish: the event is in, and its step or pipeline is to have an id.
Publish(p, s) ==
  /\ pc[p] = "idle" /\ p \notin Listers
  /\ known' = known \union {s}
  /\ scan' = [scan EXCEPT ![p] = {s}]
  /\ todo' = [todo EXCEPT ![p] = {s}]
  /\ To(p, "lookup")
  /\ UNCHANGED <<table, writer, next, shown>>

\* ensure_run_aliases, ensure_pipeline_aliases: read the serials, then loop.
Backfill(p) ==
  /\ pc[p] = "idle" /\ p \in Listers
  /\ scan' = [scan EXCEPT ![p] = known]
  /\ todo' = [todo EXCEPT ![p] = known]
  /\ To(p, IF known = {} THEN "list" ELSE "lookup")
  /\ UNCHANGED <<known, table, writer, next, shown>>

\* The lookup before any lock is taken.
Lookup(p, s) ==
  /\ At(p, "lookup", s)
  /\ IF table[s] # 0 THEN Ensured(p, s) ELSE To(p, "begin") /\ UNCHANGED todo
  /\ UNCHANGED <<known, table, writer, scan, next, shown>>

\* Mutant: BEGIN DEFERRED takes no lock before the first write.
BeginDeferred(p) ==
  /\ pc[p] = "begin"
  /\ writer' = writer \union {p}
  /\ To(p, "recheck")
  /\ UNCHANGED <<known, table, scan, todo, next, shown>>

BeginImmediate(p) ==
  /\ pc[p] = "begin"
  /\ writer = {}
  /\ writer' = {p}
  /\ To(p, "recheck")
  /\ UNCHANGED <<known, table, scan, todo, next, shown>>

\* Another process may have allocated the id since the lookup.
Recheck(p, s) ==
  /\ At(p, "recheck", s)
  /\ IF table[s] # 0 THEN Ensured(p, s) /\ writer' = {}
                     ELSE To(p, "max") /\ UNCHANGED <<todo, writer>>
  /\ UNCHANGED <<known, table, scan, next, shown>>

\* Mutant: COALESCE(MAX(local_id), 1) + 1.
ReadMaxFromOne(p) ==
  /\ pc[p] = "max"
  /\ \E n \in {table[t] + 2 : t \in Serials} :
       /\ \A t \in Serials : table[t] < n - 1
       /\ next' = [next EXCEPT ![p] = n]
  /\ To(p, "insert")
  /\ UNCHANGED <<known, table, writer, scan, todo, shown>>

\* COALESCE(MAX(local_id), 0) + 1: a serial without an id counts as 0.
ReadMax(p) ==
  /\ pc[p] = "max"
  /\ \E n \in {table[t] + 1 : t \in Serials} :
       /\ \A t \in Serials : table[t] < n
       /\ next' = [next EXCEPT ![p] = n]
  /\ To(p, "insert")
  /\ UNCHANGED <<known, table, writer, scan, todo, shown>>

\* The row is the transaction's own until it commits; both keys are unique.
Insert(p, s) ==
  /\ At(p, "insert", s)
  /\ table[s] = 0 /\ \A t \in Serials : table[t] # next[p]
  /\ To(p, "commit")
  /\ UNCHANGED <<known, table, writer, scan, todo, next, shown>>

Commit(p, s) ==
  /\ At(p, "commit", s)
  /\ table' = [table EXCEPT ![s] = next[p]]
  /\ writer' = {}
  /\ Ensured(p, s)
  /\ UNCHANGED <<known, scan, next, shown>>

\* runtime_aliases: what the listing shows.
ListAliases(p) ==
  /\ pc[p] = "list"
  /\ shown' = [shown EXCEPT ![p] = table]
  /\ To(p, "idle")
  /\ UNCHANGED <<known, table, writer, scan, todo, next>>

\* Mutant: the error is swallowed and the listing goes on.
AbortSwallowed(p) ==
  /\ pc[p] # "idle"
  /\ writer' = writer \ {p}
  /\ To(p, IF p \in Listers THEN "list" ELSE "idle")
  /\ UNCHANGED <<known, table, scan, todo, next, shown>>

\* Mutant: an interrupted backfill takes its ids back.
AbortUndoes(p) ==
  /\ pc[p] # "idle"
  /\ writer' = writer \ {p}
  /\ table' = [s \in Serials |-> IF s \in scan[p] \ todo[p] THEN 0 ELSE table[s]]
  /\ To(p, "idle")
  /\ UNCHANGED <<known, scan, todo, next, shown>>

\* A statement raises (the busy timeout of BEGIN IMMEDIATE, or an error that is
\* rolled back), or the process dies: the transaction is lost, and what it was for.
Abort(p) ==
  /\ pc[p] # "idle"
  /\ writer' = writer \ {p}
  /\ To(p, "idle")
  /\ UNCHANGED <<known, table, scan, todo, next, shown>>

-----------------------------------------------------------------------------
Step(p) == \/ BeginImmediate(p) \/ ReadMax(p) \/ ListAliases(p)
           \/ \E s \in Serials : \/ Lookup(p, s) \/ Recheck(p, s)
                                 \/ Insert(p, s) \/ Commit(p, s)

Next == \E p \in Processes : \/ \E s \in Serials : Publish(p, s)
                             \/ Backfill(p) \/ Step(p) \/ Abort(p)

Spec == Init /\ [][Next]_vars

\* A process goes on with its statements; one that waits for the lock gets it or
\* gives up, because the busy timeout is finite.  Nobody has to publish or to list.
Fairness == \A p \in Processes : WF_vars(Step(p) \/ (pc[p] = "begin" /\ Abort(p)))

FairSpec == Spec /\ Fairness

-----------------------------------------------------------------------------
\* Two serials never share a local id, and the ids in use are 1 .. n: none is
\* skipped, whatever process raised or died between reading MAX and committing.
IdsAreUniqueAndDense ==
  /\ \A s, t \in Serials : (table[s] = table[t] /\ table[s] # 0) => s = t
  /\ \A s \in Serials : \A i \in 1 .. table[s] : \E t \in Serials : table[t] = i

\* A transaction that holds the lock can always insert what it computed: the UNIQUE
\* constraints never fire on the recheck, the MAX and the INSERT of one process.
InsertNeverConflicts ==
  \A p \in Processes : pc[p] \in {"insert", "commit"} =>
    /\ \A t \in Serials : table[t] # next[p]
    /\ \A s \in Serials : At(p, pc[p], s) => table[s] = 0

\* An id a user has read off a listing still names the same serial, in any session,
\* however old the listing ("Local IDs are stable and non-reused").
ShownIdsStayValid ==
  \A p \in Processes, s \in Serials : shown[p][s] # 0 => table[s] = shown[p][s]

\* A backfill that gets to its listing has an id for every serial it read, although
\* others allocate, raise and die meanwhile (run_aliases, pipeline_aliases).
BackfillIsComplete ==
  \A p \in Processes : pc[p] = "list" => \A s \in scan[p] : table[s] # 0

Abstract == INSTANCE AliasAllocation WITH ids <- table

\* The locking protocol implements plain allocation of the next number.
ImplementsAllocation == Abstract!Spec

\* No publish and no listing hangs: a dead holder's lock is free again (ensure_runtime_entity).
CallsEnd == \A p \in Processes : pc[p] # "idle" ~> pc[p] = "idle"
=============================================================================
