---------------------------- MODULE MCWorkflowRun ----------------------------
(* Two legacy runs and a new one compete for a slot; the new one may be a     *)
(* durable run of two independent stages and a third that waits for the       *)
(* first, moved by two callers. Beside them, but never in one behaviour, two  *)
(* gates of one provider execution and a scoped approval, and the sessions of *)
(* two workers on one executor: other tables, that share with a run only the  *)
(* stop each refuses to begin under; and the chain of a mission's parent runs. *)
EXTENDS WorkflowRun, ExecutionGates, WorkerRuntime, MissionRuns, TLC

CONSTANTS s1, c1, c2, g1, g2, i1, i2, i3, p1, t1,
          w1, m1, m2, n1, l1, l2, l3, l4,
          pl1, nt1, q1, q2

MCStageDeps ==
    [k \in Stages |-> IF k = "review" THEN Stages \cap {"build"} ELSE {}]

\* Bound of the model: stages are moved while nothing else is under way.
MCStagesAlone ==
    (\E r \in Runs : log[r] # {} \/ \E c \in Callers : reading[c].run # 0) =>
        /\ ~stop /\ cleared = {}
        /\ \A r \in Legacy : run[r] = "failed" /\ gate[r] = "none"

MCKeyOf == [g \in {g1, g2} |-> "key"]
MCInvokerOf == [i \in {i1, i2, i3} |-> IF i = i3 THEN g2 ELSE g1]
MCAttemptOf == [p \in {p1} |-> t1]

MCWorkerOf == [a \in {m1, m2} |-> w1]
MCLaunchOf == [l \in {l1, l2, l3, l4} |->
                  IF l = l4 THEN n1 ELSE IF l = l3 THEN m2 ELSE m1]

VARIABLE moving     \* which of them moves

MCInit ==
    /\ Init /\ GInit /\ WInit /\ MRInit /\ moving \in {"runs", "gates", "workers", "parent"}
    /\ moving # "runs" => run[1] = "running" /\ run[2] = "running"
MCNext ==
    /\ \/ moving = "runs" /\ Next /\ UNCHANGED <<gvars, wvars, mrvars>>
       \/ moving = "gates" /\ GNext /\ UNCHANGED <<vars, wvars, mrvars>>
       \/ moving = "workers" /\ WNext /\ UNCHANGED <<vars, gvars, mrvars>>
       \/ moving = "parent" /\ MRNext /\ UNCHANGED <<vars, gvars, wvars>>
    /\ UNCHANGED moving
MCSpec == MCInit /\ [][MCNext]_<<vars, gvars, wvars, mrvars, moving>>

\* Bound of the model: two starts of the four, one beside a second change of the
\* registry, which meets no stop, or beside a stop after a first; the start of an
\* unregistered worker alone, its assignment while no admission is at work and
\* nothing was changed. Of two starts alike l1 is the first; one session is suspended,
\* succeeds or fails.
MCTwoStarts ==
    /\ Cardinality({l \in Launches : starting[l] # "idle"}) <=
          IF changes > 1 \/ (halted /\ changes > 0) THEN 1 ELSE 2
    /\ changes > 1 => ~halted
    /\ starting[l2] # "idle" => starting[l1] # "idle"
    /\ Cardinality({l \in Launches : session[l] \in {"suspended", "succeeded", "failed"}}) <= 1
    /\ starting[l4] # "idle" => \A l \in {l1, l2, l3} : starting[l] = "idle"
    /\ assigned[n1] = "none" \/ (Occupied = {} /\ changes = 0)

\* Bound of the model: the scoped approval is asked for while no gate is open.
\* Of two invocations alike i1 is the first.
MCScopedAlone ==
    /\ scoped[p1] = "none" \/ \A g \in Gates : providerGate[g] = "none"
    /\ invoking[i2].at # "idle" => invoking[i1].at # "idle"

\* A run is paused before it is resumed, with nothing sent twice until then.
MCRunsBound == post[q2].at # "unsent" =>
    /\ stored[q1] # Nothing
    /\ \A s \in Signals : post[s].at # "unsent" => ~post[s].again

CallersAlike == Permutations(Callers)
=============================================================================
