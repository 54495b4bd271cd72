--------------------------- MODULE MCMissionRecords ---------------------------
(* A mission from its plan to its end: planning decides it, the parent and its *)
(* children deliver it, the ledger takes revisions, item states and            *)
(* checkpoints, a handoff replaces its epoch; and without handoffs, two        *)
(* operations of the mission, one its child's, the other executed again after  *)
(* it was killed.  One of the five moves in a behaviour, the others keep their *)
(* initial state.                                                              *)
EXTENDS MCEpochHandoff, MissionLedger, MissionPlanning, MissionDelivery

CONSTANTS b, r3, i1, i2, d1, d2, p1, p2, k1, k2, e1, e2, o1, o2

MCDoesTwo == [r \in Runners |-> IF r = r3 THEN b ELSE a]
MCItems == {i1, i2}
MCItemDeps == [i \in MCItems |-> IF i = i2 THEN {i1} ELSE {}]
MCEdits == {[i \in MCItems |-> "same"],
            [i \in MCItems |-> IF i = i1 THEN "material" ELSE "same"]}

MCRoleOrder == <<k1, k2>>

VARIABLE moving     \* the one that moves

MCInit == /\ HInit /\ LInit /\ PInit /\ DInit
          /\ moving \in {"handoff", "control", "ledger", "planning", "delivery"}
MCNext ==
    /\ \/ moving = "handoff" /\ HNext /\ UNCHANGED <<lvars, plvars, dvars>>
       \/ moving = "control" /\ Next /\ UNCHANGED <<request, step, lvars, plvars, dvars>>
       \/ moving = "ledger" /\ LNext /\ UNCHANGED <<hvars, plvars, dvars>>
       \/ moving = "planning" /\ PNext /\ UNCHANGED <<hvars, lvars, dvars>>
       \/ moving = "delivery" /\ DNext /\ UNCHANGED <<hvars, lvars, plvars>>
    /\ UNCHANGED moving
MCSpec == MCInit /\ [][MCNext]_<<hvars, lvars, plvars, dvars, moving>>

\* Handoffs meet one execution of one operation, with no other
\* change of the mission; an owner's command meets two of them, or a second
\* execution of one of them.
MCHandoffBound == moving = "handoff" =>
    /\ claim[b] = Unbound /\ pc[r2] = "idle" /\ pc[r1] # "killed"
    /\ version = epoch + Cardinality({c \in Commands : cmd[c].at = "applied" /\ cmd[c].action # "RETRY"})
    /\ cmd[c1].at # "unsent" =>
          request[h1].stage = "none" \/ request[h2].stage = "none" \/ step[x2] = "idle"
\* Without handoffs there are two commands; the second is sent after the first,
\* where no execution was killed.
MCControlBound == moving = "control" =>
    /\ \A h \in Handoffs : cmd[StopOf[h]].at = "unsent"
    /\ cmd[u2].at = "unsent"
    /\ cmd[c1].at = "unsent" \/ (\E r \in Runners : pc[r] = "killed") => cmd[u1].at = "unsent"

\* The second order is sent after the first one, and where no activity is killed.
MCDeliveryBound ==
    /\ order[o1].at = "unsent" => order[o2].at = "unsent"
    /\ order[o2].at # "unsent" => kills = 0

Untouched(n) == \A i \in Items : work[n][i].seq = 1

\* One call is under way before the second one begins, the calls about items
\* are made by the first, and a third revision meets no item that moved.
MCLedgerBound == moving = "ledger" =>
    /\ work[1][i1].seq <= 3 /\ work[1][i2].seq <= 2
    /\ work[1][i2].seq = 2 => work[1][i1].status = "DONE"
    /\ call[d1].op = "none" => call[d2].op = "none"
    /\ ~(call[d2].op = "item" /\ (call[d1].op = "item" \/ call[d2].item = i2))
    /\ Latest > 1 => Untouched(Latest)
    /\ Latest = 3 => /\ checkpoints = <<>> /\ Untouched(1) /\ Untouched(2)
                     /\ \A c \in LCallers : call[c].op \in {"none", "apply"}

Ended(r) == run[r].completed \/ run[r].failed

\* The second run is planned from the second source after the first one ended,
\* with valid answers; of the first, the answers of one role may be invalid. Two
\* executions at work are of the first run, while the mission is running and before
\* decisions are made; a person's revision comes while no run is executed.
MCPlanningBound == moving = "planning" =>
    /\ run[p2].source # 0 => run[p1].source = 1 /\ run[p2].source = 2 /\ Ended(p1)
    /\ \A k \in RoleSet : tries[p2][k] \in {<<>>, <<TRUE>>}
    /\ tries[p1][k1] \in {<<>>, <<TRUE>>} \/ tries[p1][k2] \in {<<>>, <<TRUE>>}
    /\ executor[e2].pc # "idle" => plan.version <= 2 /\ executor[e2].run = p1
    /\ \A c \in Deciders : decision[c].pc # "idle" =>
          /\ executor[e2].pc = "idle"
          /\ executor[e1].pc # "idle" => executor[e1].run = p2
    /\ run[p1].authority \in {"owner", "expired"} => executor[e2].pc = "idle" /\ run[p2].source = 0
    /\ (\E i \in 1..Len(proposals) : proposals[i].run = "none") =>
          run[p2].source = 0 /\ \A x \in Executors : executor[x].pc = "idle"
    /\ plan.disposition = "STOPPED" => executor[e2].pc = "idle" /\ run[p2].source = 0
=============================================================================
