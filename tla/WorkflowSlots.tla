---------------------------- MODULE WorkflowSlots ----------------------------
(***************************************************************************)
(* What "one active run of a workflow per work item" means, without tables *)
(* or statuses.  A slot is a work item and a workflow.  Runs that predate  *)
(* the rule may share a slot; from then on a run starts only in a slot     *)
(* nobody uses, and a run that ended never becomes active again.           *)
(***************************************************************************)
CONSTANTS Slots, Runs

VARIABLES
    active,     \* the active runs of each slot
    ended       \* the runs that were decided or failed

vars == <<active, ended>>

Init == active \in [Slots -> SUBSET Runs] /\ ended = {}

Start(s, r) ==
    /\ active[s] = {}
    /\ r \notin ended
    /\ active' = [active EXCEPT ![s] = {r}]
    /\ UNCHANGED ended

End(s, r) ==
    /\ r \in active[s]
    /\ active' = [active EXCEPT ![s] = @ \ {r}]
    /\ ended' = ended \cup {r}

Next == \E s \in Slots, r \in Runs : Start(s, r) \/ End(s, r)

Spec == Init /\ [][Next]_vars
=============================================================================
