------------------------------ MODULE EffectOnce ------------------------------
(***************************************************************************)
(* What the operation journal promises about an external effect: it        *)
(* happens at most once, "done" is only ever said of an effect that        *)
(* happened and "failed" of one that did not, and what was said stays      *)
(* said.  An operation nobody can decide about is blocked.                 *)
(***************************************************************************)
CONSTANT Ops

VARIABLES
    happened,   \* the operations whose effect happened
    verdict     \* what the journal says of each

vars == <<happened, verdict>>

Init == happened = {} /\ verdict = [op \in Ops |-> "open"]

Happen(op) ==
    /\ op \notin happened
    /\ verdict[op] = "open"
    /\ happened' = happened \cup {op}
    /\ UNCHANGED verdict

Decide(op, said) ==
    /\ verdict[op] = "open"
    /\ said = "done" => op \in happened
    /\ said = "failed" => op \notin happened
    /\ verdict' = [verdict EXCEPT ![op] = said]
    /\ UNCHANGED happened

Next == \E op \in Ops :
           Happen(op) \/ \E said \in {"done", "failed", "blocked"} : Decide(op, said)

Spec == Init /\ [][Next]_vars
=============================================================================
