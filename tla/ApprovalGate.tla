----------------------------- MODULE ApprovalGate -----------------------------
(***************************************************************************)
(* What the approval of plans promises, for the steps of one pipeline: a   *)
(* decision is taken once, a step that needs one runs after it was taken   *)
(* in its favour, and a denial is the end of the pipeline.                 *)
(***************************************************************************)
EXTENDS Integers

CONSTANT Steps

VARIABLES decision,   \* per step: "none", "exempt", "approved" or "denied"
          ran         \* per step: did its commandlet run

Denied == \E k \in Steps : decision[k] = "denied"

Init == decision = [k \in Steps |-> "none"] /\ ran = [k \in Steps |-> FALSE]

\* Steps are decided in order, and a step before the present one is done with.
Current(k) == /\ ~ ran[k] /\ ~ Denied
              /\ \A n \in Steps : n > k => decision[n] = "none" /\ ~ ran[n]

Decide(k, d) ==
  /\ Current(k) /\ decision[k] = "none"
  /\ decision' = [decision EXCEPT ![k] = d]
  /\ UNCHANGED ran

\* A step whose plan was not requested needs no decision.
RunExempt(k) ==
  /\ Current(k) /\ decision[k] = "none"
  /\ decision' = [decision EXCEPT ![k] = "exempt"]
  /\ ran' = [ran EXCEPT ![k] = TRUE]

RunApproved(k) ==
  /\ Current(k) /\ decision[k] = "approved"
  /\ ran' = [ran EXCEPT ![k] = TRUE]
  /\ UNCHANGED decision

Next == \E k \in Steps :
  RunExempt(k) \/ RunApproved(k) \/ \E d \in {"approved", "denied"} : Decide(k, d)

Spec == Init /\ [][Next]_<<decision, ran>>
=============================================================================
