-------------------------- MODULE AliasAllocation --------------------------
(***************************************************************************)
(* What the runtime promises of the short local ids it shows for durable   *)
(* serials: an id is given once, for good, and ids are the next numbers.   *)
(***************************************************************************)
EXTENDS Naturals

CONSTANT Serials   \* durable serials of one entity type

VARIABLE ids       \* the local id of each serial; 0 while it has none

Init == ids = [s \in Serials |-> 0]

\* Every id so far is below n, and n has no gap before it.
IsNext(n) == /\ \A s \in Serials : ids[s] < n
             /\ \A i \in 1 .. n - 1 : \E s \in Serials : ids[s] = i

Allocate(s) == /\ ids[s] = 0
               /\ \E n \in {ids[t] + 1 : t \in Serials} :
                    IsNext(n) /\ ids' = [ids EXCEPT ![s] = n]

Next == \E s \in Serials : Allocate(s)

Spec == Init /\ [][Next]_ids
=============================================================================
