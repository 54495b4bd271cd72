---------------------------- MODULE ExecutionGates ----------------------------
(* What a person approves one use of: a provider execution (storage.py,       *)
(* application.py) and a scoped execution (storage.py, policy.py), and what   *)
(* the emergency stop does to both.                                           *)
(*                                                                            *)
(* A provider attempt is mirrored in an assignment, an attempt and a session  *)
(* so that the rest of the system sees it. Rows are moved by whoever calls:   *)
(* the process that runs the provider, a person, the operator's reconcile and *)
(* the stop. Reads before a transaction are repeated by its WHERE clause or   *)
(* by the trigger on the attempt's status, so each call is one action; a stop *)
(* or a clear that acts on an old reading is a later stop or clear.           *)
EXTENDS Naturals, FiniteSets

CONSTANTS
    Gates,          \* provider_execution_gates
    KeyOf,          \* the provider, agent and work item of each
    Invokers,       \* calls of invoke_provider
    InvokerOf,      \* the gate each invokes
    Approvals,      \* scoped_execution_approvals
    AttemptOf,      \* the attempt each is to be used by
    MaxStops,       \* bound of the model: activations of the stop
    MaxSnapshots    \* bound of the model: changes of agent, item or definition

ASSUME GatesAssumption ==
    /\ InvokerOf \in [Invokers -> Gates]
    /\ MaxStops \in Nat /\ MaxSnapshots \in Nat \ {0}

VARIABLES
    providerGate,   \* provider_execution_gates.status
    pending,        \* the gates of pending_provider_gate_claims
    snapshot,       \* what provider_snapshot_hashes would return now
    asked,          \* the hashes each gate was requested with
    tried,          \* provider_execution_attempts.status of the gate
    mirror,         \* its assignment, attempt and session
    invoking,       \* how far a call of invoke_provider is, and its hashes
    scoped,         \* scoped_execution_approvals.status
    due,            \* whether expires_at has passed
    consumed,       \* stage_approval_consumptions: attempt and approval
    emergency,      \* policy_state.emergency_stop
    stops,          \* how often it was activated
    decidedAt       \* history: the stops there were when a person approved

gateRows == <<providerGate, pending, asked, tried, mirror, decidedAt>>
scopedRows == <<scoped, due, consumed, decidedAt>>
gvars == <<providerGate, pending, snapshot, asked, tried, mirror, invoking, scoped, due,
           consumed, emergency, stops, decidedAt>>

Running == {"claimed", "running"}
NoMirror == [assignment |-> "none", attempt |-> "none", session |-> "none"]
Grantable == Gates \cup Approvals

-----------------------------------------------------------------------------
GInit ==
    /\ providerGate = [g \in Gates |-> "none"]
    /\ pending = {}
    /\ snapshot = 1
    /\ asked = [g \in Gates |-> 0]
    /\ tried = [g \in Gates |-> "none"]
    /\ mirror = [g \in Gates |-> NoMirror]
    /\ invoking = [i \in Invokers |-> [at |-> "idle", hash |-> 0]]
    /\ scoped = [p \in Approvals |-> "none"]
    /\ due = [p \in Approvals |-> FALSE]
    /\ consumed = {}
    /\ emergency = FALSE
    /\ stops = 0
    /\ decidedAt = [x \in Grantable |-> 0]

\* request_provider_execution: one pending gate of a key, also under the stop.
RequestGate(g) ==
    /\ providerGate[g] = "none"
    /\ \A h \in pending : KeyOf[h] # KeyOf[g]
    /\ providerGate' = [providerGate EXCEPT ![g] = "pending"]
    /\ pending' = pending \cup {g}
    /\ asked' = [asked EXCEPT ![g] = snapshot]
    /\ UNCHANGED <<snapshot, tried, mirror, invoking, scoped, due, consumed,
                   emergency, stops, decidedAt>>

\* decide_provider_execution; cancel_provider_execution also withdraws an
\* approval nobody used.
DecideGate(g, decision) ==
    /\ \/ providerGate[g] = "pending"
       \/ providerGate[g] = "approved" /\ decision = "rejected"
    /\ providerGate' = [providerGate EXCEPT ![g] = decision]
    /\ pending' = pending \ {g}
    /\ decidedAt' = [decidedAt EXCEPT ![g] = stops]
    /\ UNCHANGED <<snapshot, asked, tried, mirror, invoking, scoped, due,
                   consumed, emergency, stops>>

\* The agent, the work item or the provider's definition is edited.
Edit ==
    /\ snapshot < MaxSnapshots
    /\ snapshot' = snapshot + 1
    /\ UNCHANGED <<gateRows, invoking, scoped, due, consumed, emergency, stops>>

To(i, at) == invoking' = [invoking EXCEPT ![i].at = at]

\* invoke_provider computes the hashes of what it is going to run.
Invoke(i) ==
    /\ invoking[i].at = "idle" /\ providerGate[InvokerOf[i]] # "none"
    /\ invoking' = [invoking EXCEPT ![i] = [at |-> "hashed", hash |-> snapshot]]
    /\ UNCHANGED <<gateRows, snapshot, scoped, due, consumed, emergency, stops>>

\* Mutant: the claim trusts the decision, not the hashes it was made on.
MatchesAny(g, hash) == asked[g] # 0

\* The request, agent, item and definition are those the gate was asked with.
Matches(g, hash) == hash = asked[g]

\* claim_provider_execution under the lock: the attempt and its mirror, or,
\* when the hashes differ, the end of the gate.
ClaimGate(i) ==
    LET g == InvokerOf[i] IN
    /\ invoking[i].at = "hashed"
    /\ ~emergency /\ providerGate[g] = "approved"
    /\ IF Matches(g, invoking[i].hash)
       THEN /\ providerGate' = [providerGate EXCEPT ![g] = "claimed"]
            /\ tried' = [tried EXCEPT ![g] = "claimed"]
            /\ mirror' = [mirror EXCEPT ![g] =
                  [assignment |-> "active", attempt |-> "claimed", session |-> "starting"]]
            /\ To(i, "claimed")
       ELSE /\ providerGate' = [providerGate EXCEPT ![g] = "rejected"]
            /\ To(i, "done")
            /\ UNCHANGED <<tried, mirror>>
    /\ UNCHANGED <<pending, snapshot, asked, scoped, due, consumed, emergency,
                   stops, decidedAt>>

\* How mark_provider_attempt_running moves attempt and session.
MirrorStarted(m) ==
    [assignment |-> m.assignment,
     attempt |-> IF m.attempt = "claimed" THEN "running" ELSE m.attempt,
     session |-> IF m.session = "starting" THEN "running" ELSE m.session]

\* mark_provider_attempt_running; refused once the attempt was ended.
MarkRunning(i) ==
    LET g == InvokerOf[i] IN
    /\ invoking[i].at = "claimed" /\ tried[g] = "claimed"
    /\ tried' = [tried EXCEPT ![g] = "running"]
    /\ mirror' = [mirror EXCEPT ![g] = MirrorStarted(@)]
    /\ To(i, "running")
    /\ UNCHANGED <<providerGate, pending, snapshot, asked, scoped, due, consumed,
                   emergency, stops, decidedAt>>

\* How finish_provider_attempt moves assignment, attempt and session.
MirrorEnded(m, status) ==
    LET other == IF status = "abandoned" THEN "cancelled" ELSE status IN
    [assignment |-> IF m.assignment = "active" THEN other ELSE m.assignment,
     attempt |-> IF m.attempt \in Running THEN status ELSE m.attempt,
     session |-> IF m.session \in {"starting", "running"} THEN other ELSE m.session]

FinishAttempt(g, status) ==
    /\ tried[g] \in Running
    /\ tried' = [tried EXCEPT ![g] = status]
    /\ providerGate' = [providerGate EXCEPT ![g] = IF @ = "claimed" THEN "consumed" ELSE @]
    /\ mirror' = [mirror EXCEPT ![g] = MirrorEnded(@, status)]

\* The provider ran; its result is recorded unless the attempt was ended.
Finish(i, status) ==
    /\ invoking[i].at = "running"
    /\ FinishAttempt(InvokerOf[i], status)
    /\ To(i, "done")
    /\ UNCHANGED <<pending, snapshot, asked, scoped, due, consumed, emergency,
                   stops, decidedAt>>

\* reconcile_provider_attempts: the operator takes an attempt for interrupted,
\* whether or not its process is alive.
ReconcileAttempt(g) ==
    /\ FinishAttempt(g, "abandoned")
    /\ UNCHANGED <<pending, snapshot, asked, invoking, scoped, due, consumed,
                   emergency, stops, decidedAt>>

\* The process is killed, or refused by the row it meets.
StopInvoking(i) ==
    /\ invoking[i].at \notin {"idle", "done"}
    /\ To(i, "done")
    /\ UNCHANGED <<gateRows, snapshot, scoped, due, consumed, emergency, stops>>

-----------------------------------------------------------------------------
ScopedMoves(p, from, to) ==
    /\ scoped[p] \in from
    /\ scoped' = [scoped EXCEPT ![p] = to]
    /\ UNCHANGED <<providerGate, pending, snapshot, asked, tried, mirror, invoking,
                   emergency, stops>>

\* request_scoped_approval does not look at the stop.
RequestApproval(p) ==
    /\ ScopedMoves(p, {"none"}, "pending")
    /\ UNCHANGED <<due, consumed, decidedAt>>

\* decide_scoped_approval
DecideScoped(p, decision) ==
    /\ ~due[p]
    /\ ScopedMoves(p, {"pending"}, decision)
    /\ decidedAt' = [decidedAt EXCEPT ![p] = stops]
    /\ UNCHANGED <<due, consumed>>

TimePasses(p) ==
    /\ scoped[p] # "none" /\ ~due[p]
    /\ due' = [due EXCEPT ![p] = TRUE]
    /\ UNCHANGED <<gateRows, snapshot, invoking, scoped, consumed, emergency, stops>>

\* authorize evaluates the request and consumes the approval in one transaction,
\* in which consume_scoped_approval finds the assignment and attempt live and
\* without another approval. An approval found too old expires.
Authorize(p) ==
    /\ ~emergency
    /\ \/ /\ due[p]
          /\ ScopedMoves(p, {"approved"}, "expired")
          /\ UNCHANGED consumed
       \/ /\ ~due[p]
          /\ \A u \in consumed : u.attempt # AttemptOf[p]
          /\ ScopedMoves(p, {"approved"}, "consumed")
          /\ consumed' = consumed \cup {[attempt |-> AttemptOf[p], approval |-> p]}
    /\ UNCHANGED <<due, decidedAt>>

\* What the stop takes back of gates and approvals.
Withdrawn == {"pending", "approved"}

\* set_emergency_stop(True)
StopEverything ==
    /\ ~emergency /\ stops < MaxStops
    /\ emergency' = TRUE
    /\ stops' = stops + 1
    /\ tried' = [g \in Gates |-> IF tried[g] \in Running THEN "abandoned" ELSE tried[g]]
    /\ providerGate' = [g \in Gates |->
          CASE providerGate[g] = "claimed" /\ tried[g] \in Running -> "consumed"
            [] providerGate[g] \in Withdrawn -> "rejected"
            [] OTHER -> providerGate[g]]
    /\ mirror' = [g \in Gates |->
          [assignment |-> IF mirror[g].assignment = "active" THEN "cancelled" ELSE mirror[g].assignment,
           attempt |-> IF mirror[g].attempt \in Running THEN "cancelled" ELSE mirror[g].attempt,
           session |-> IF mirror[g].session \in {"starting", "running", "suspended"}
                       THEN "cancelled" ELSE mirror[g].session]]
    /\ pending' = {}
    /\ scoped' = [p \in Approvals |-> IF scoped[p] \in Withdrawn THEN "cancelled" ELSE scoped[p]]
    /\ UNCHANGED <<snapshot, asked, invoking, due, consumed, decidedAt>>

ClearEmergency ==
    /\ emergency
    /\ emergency' = FALSE
    /\ UNCHANGED <<gateRows, snapshot, invoking, scoped, due, consumed, stops>>

GNext ==
    \/ \E g \in Gates :
          \/ RequestGate(g) \/ ReconcileAttempt(g)
          \/ \E d \in {"approved", "rejected"} : DecideGate(g, d)
    \/ \E i \in Invokers :
          \/ Invoke(i) \/ ClaimGate(i) \/ MarkRunning(i) \/ StopInvoking(i)
          \/ \E s \in {"succeeded", "failed"} : Finish(i, s)
    \/ \E p \in Approvals :
          \/ RequestApproval(p) \/ TimePasses(p) \/ Authorize(p)
          \/ \E d \in {"approved", "rejected"} : DecideScoped(p, d)
    \/ Edit \/ StopEverything \/ ClearEmergency

GSpec == GInit /\ [][GNext]_gvars

-----------------------------------------------------------------------------
GTypeOK ==
    /\ providerGate \in [Gates -> {"none", "pending", "approved", "rejected", "claimed", "consumed"}]
    /\ pending \subseteq Gates
    /\ snapshot \in 1..MaxSnapshots
    /\ asked \in [Gates -> 0..MaxSnapshots]
    /\ tried \in [Gates -> Running \cup {"none", "succeeded", "failed", "abandoned"}]
    /\ mirror \in [Gates -> [
          assignment : {"none", "active", "succeeded", "failed", "cancelled"},
          attempt : Running \cup {"none", "succeeded", "failed", "abandoned", "cancelled"},
          session : {"none", "starting", "running", "succeeded", "failed", "cancelled"}]]
    /\ invoking \in [Invokers -> [at : {"idle", "hashed", "claimed", "running", "done"},
                                  hash : 0..MaxSnapshots]]
    /\ scoped \in [Approvals -> {"none", "pending", "approved", "rejected",
                                 "consumed", "expired", "cancelled"}]
    /\ due \in [Approvals -> BOOLEAN]
    /\ consumed \subseteq [attempt : {AttemptOf[p] : p \in Approvals}, approval : Approvals]
    /\ emergency \in BOOLEAN
    /\ stops \in 0..MaxStops
    /\ decidedAt \in [Grantable -> 0..MaxStops]

\* The four tables an execution is written to tell one story: the gate is
\* claimed, the provider attempt unfinished and its assignment, attempt and
\* session live together or not at all, whoever ended them.
MirrorsAgree ==
    \A g \in Gates :
        LET live == tried[g] \in Running IN
        /\ live <=> providerGate[g] = "claimed"
        /\ live <=> mirror[g].assignment = "active"
        /\ live <=> mirror[g].attempt \in Running
        /\ live <=> mirror[g].session \in {"starting", "running"}

\* Of the calls that invoke one gate at most one runs the provider, and on the
\* agent, item and definition the person saw, though all may change meanwhile.
RunsWhatWasApproved ==
    \A i, j \in Invokers : invoking[i].at = "running" =>
        /\ invoking[i].hash = asked[InvokerOf[i]]
        /\ InvokerOf[j] = InvokerOf[i] /\ invoking[j].at \in {"claimed", "running"} => i = j

\* An approval that can still be used was given after the last emergency stop,
\* also one that was decided while the stop was in force.
ApprovedSinceStop ==
    /\ \A g \in Gates : providerGate[g] = "approved" => decidedAt[g] = stops
    /\ \A p \in Approvals : scoped[p] = "approved" => decidedAt[p] = stops

\* The three together, of every gate's execution.
GatesSound == MirrorsAgree /\ RunsWhatWasApproved /\ ApprovedSinceStop

\* What makes them inductive: a call that claimed a gate has the hashes it was
\* asked with, the gate never becomes claimable again, and no other call has it.
Claims(i) == invoking[i].at \in {"claimed", "running"}

ClaimsExclusive ==
    \A i \in Invokers : Claims(i) =>
        /\ invoking[i].hash = asked[InvokerOf[i]]
        /\ providerGate[InvokerOf[i]] \in {"claimed", "consumed"}
        /\ \A j \in Invokers : Claims(j) /\ InvokerOf[j] = InvokerOf[i] => i = j

GatesInv == GTypeOK /\ MirrorsAgree /\ ClaimsExclusive /\ ApprovedSinceStop
=============================================================================
