----------------------------- MODULE LaunchProofs -----------------------------
(***************************************************************************)
(* What is started outside the database, for any number of gates, calls,   *)
(* assignments and launches: a provider runs once under a gate and on what *)
(* was approved, an admission starts one process, in its place in the      *)
(* pool, and the stages of a run are executed, reviewed and answered once, *)
(* however often they are tried.                                           *)
(***************************************************************************)
EXTENDS ExecutionGates, WorkerRuntime, StageExecution, FiniteSetTheorems, WellFoundedInduction,
        TLAPS

(* Provider execution gates and scoped approvals (storage.py, application.py).*)

LEMMA GatesInit == GInit => GatesInv
<1> SUFFICES ASSUME GInit PROVE GatesInv
  OBVIOUS
<1>1. GTypeOK
  <2>1. NoMirror \in [assignment : {"none", "active", "succeeded", "failed", "cancelled"},
          attempt : Running \cup {"none", "succeeded", "failed", "abandoned", "cancelled"},
          session : {"none", "starting", "running", "succeeded", "failed", "cancelled"}]
    BY DEF NoMirror
  <2>2. [at |-> "idle", hash |-> 0] \in [at : {"idle", "hashed", "claimed", "running", "done"},
                                        hash : 0..MaxSnapshots]
    BY GatesAssumption
  <2>3. mirror = [g \in Gates |-> NoMirror] /\ invoking = [i \in Invokers |-> [at |-> "idle", hash |-> 0]]
    BY DEF GInit
  <2>4. /\ providerGate \in [Gates -> {"none", "pending", "approved", "rejected", "claimed", "consumed"}]
        /\ pending \subseteq Gates
        /\ tried \in [Gates -> Running \cup {"none", "succeeded", "failed", "abandoned"}]
        /\ mirror \in [Gates -> [
              assignment : {"none", "active", "succeeded", "failed", "cancelled"},
              attempt : Running \cup {"none", "succeeded", "failed", "abandoned", "cancelled"},
              session : {"none", "starting", "running", "succeeded", "failed", "cancelled"}]]
    BY <2>1, <2>3 DEF GInit
  <2>5. /\ snapshot \in 1..MaxSnapshots /\ asked \in [Gates -> 0..MaxSnapshots]
    BY GatesAssumption DEF GInit
  <2>7. /\ emergency \in BOOLEAN /\ stops \in 0..MaxStops
        /\ decidedAt \in [Grantable -> 0..MaxStops]
    <3>1. 0 \in 0..MaxStops
      BY GatesAssumption
    <3> QED
      BY <3>1 DEF GInit
  <2>6. /\ scoped \in [Approvals -> {"none", "pending", "approved", "rejected",
                                     "consumed", "expired", "cancelled"}]
        /\ due \in [Approvals -> BOOLEAN]
        /\ consumed \subseteq [attempt : {AttemptOf[p] : p \in Approvals}, approval : Approvals]
    BY DEF GInit
  <2> QED
    BY <2>2, <2>3, <2>4, <2>5, <2>6, <2>7 DEF GTypeOK
<1>2. MirrorsAgree /\ ClaimsExclusive /\ ApprovedSinceStop
  BY DEF GInit, MirrorsAgree, ClaimsExclusive, ApprovedSinceStop, Claims, Running, NoMirror
<1> QED
  BY <1>1, <1>2 DEF GatesInv

\* A step that leaves the attempt and its mirrors alone, and every gate that is
\* or becomes claimed.
LEMMA MirrorsUntouched ==
    ASSUME GTypeOK, MirrorsAgree, UNCHANGED <<tried, mirror>>,
           \A g \in Gates : (providerGate'[g] = "claimed") <=> (providerGate[g] = "claimed")
    PROVE  MirrorsAgree'
  BY DEF MirrorsAgree

LEMMA GateRequests ==
    ASSUME GatesInv, NEW g \in Gates, RequestGate(g)
    PROVE  GatesInv'
<1> USE GatesAssumption DEF GatesInv, RequestGate
<1>1. GTypeOK'
  BY DEF GTypeOK
<1>2. MirrorsAgree'
  BY MirrorsUntouched DEF GTypeOK
<1>3. ClaimsExclusive'
  BY DEF GTypeOK, ClaimsExclusive, Claims
<1>4. ApprovedSinceStop'
  BY DEF GTypeOK, ApprovedSinceStop
<1> QED
  BY <1>1, <1>2, <1>3, <1>4

LEMMA GateDecisions ==
    ASSUME GatesInv, NEW g \in Gates, NEW d \in {"approved", "rejected"}, DecideGate(g, d)
    PROVE  GatesInv'
<1> USE GatesAssumption DEF GatesInv, DecideGate
<1>1. GTypeOK'
  BY DEF GTypeOK, Grantable
<1>2. MirrorsAgree'
  BY MirrorsUntouched DEF GTypeOK
<1>3. ClaimsExclusive'
  BY DEF GTypeOK, ClaimsExclusive, Claims
<1>4. ApprovedSinceStop'
  BY DEF GTypeOK, ApprovedSinceStop, Grantable
<1> QED
  BY <1>1, <1>2, <1>3, <1>4

\* A step that moves calls only, none of them to where a gate is claimed.
LEMMA CallsMove ==
    ASSUME GatesInv, NEW i \in Invokers,
           UNCHANGED <<gateRows, scoped, due, consumed, emergency, stops>>,
           snapshot' \in 1..MaxSnapshots,
           NEW to \in [at : {"idle", "hashed", "done"}, hash : 0..MaxSnapshots],
           invoking' = [invoking EXCEPT ![i] = to]
    PROVE  GatesInv'
<1> USE GatesAssumption DEF GatesInv, gateRows
<1>1. GTypeOK'
  BY DEF GTypeOK
<1>2. MirrorsAgree'
  BY MirrorsUntouched
<1>3. ClaimsExclusive'
  BY DEF GTypeOK, ClaimsExclusive, Claims
<1>4. ApprovedSinceStop'
  BY DEF ApprovedSinceStop
<1> QED
  BY <1>1, <1>2, <1>3, <1>4

LEMMA Invocations ==
    ASSUME GatesInv, NEW i \in Invokers, Invoke(i) \/ StopInvoking(i)
    PROVE  GatesInv'
<1>1. CASE Invoke(i)
  <2>1. [at |-> "hashed", hash |-> snapshot] \in
           [at : {"idle", "hashed", "done"}, hash : 0..MaxSnapshots]
    BY DEF GatesInv, GTypeOK
  <2> QED
    BY <1>1, <2>1, CallsMove DEF Invoke, GatesInv, GTypeOK
<1>2. CASE StopInvoking(i)
  <2> DEFINE to == [invoking[i] EXCEPT !.at = "done"]
  <2>1. to \in [at : {"idle", "hashed", "done"}, hash : 0..MaxSnapshots]
    BY DEF GatesInv, GTypeOK
  <2>2. invoking' = [invoking EXCEPT ![i] = to]
    BY <1>2 DEF StopInvoking, To
  <2> QED
    BY <1>2, <2>1, <2>2, CallsMove DEF StopInvoking, GatesInv, GTypeOK
<1> QED
  BY <1>1, <1>2

LEMMA Edits ==
    ASSUME GatesInv, Edit \/ ClearEmergency
    PROVE  GatesInv'
<1> USE GatesAssumption DEF GatesInv, Edit, ClearEmergency, gateRows
<1>1. GTypeOK'
  <2>1. CASE Edit
    BY <2>1 DEF GTypeOK
  <2>2. CASE ClearEmergency
    BY <2>2 DEF GTypeOK
  <2> QED
    BY <2>1, <2>2
<1>2. MirrorsAgree'
  BY MirrorsUntouched
<1>3. ClaimsExclusive'
  BY DEF ClaimsExclusive, Claims
<1>4. ApprovedSinceStop'
  BY DEF ApprovedSinceStop
<1> QED
  BY <1>1, <1>2, <1>3, <1>4

LEMMA GateClaims ==
    ASSUME GatesInv, NEW i \in Invokers, ClaimGate(i)
    PROVE  GatesInv'
<1> DEFINE g == InvokerOf[i]
<1> USE GatesAssumption DEF GatesInv
<1>1. /\ g \in Gates /\ invoking[i].at = "hashed" /\ providerGate[g] = "approved"
      /\ invoking[i] \in [at : {"idle", "hashed", "claimed", "running", "done"},
                          hash : 0..MaxSnapshots]
      /\ UNCHANGED <<pending, snapshot, asked, scoped, due, consumed, emergency, stops, decidedAt>>
  BY DEF ClaimGate, GTypeOK
<1>2. \A j \in Invokers : InvokerOf[j] = g => ~Claims(j)
  BY <1>1 DEF ClaimsExclusive
<1>3. CASE Matches(g, invoking[i].hash)
  <2>1. /\ invoking' = [invoking EXCEPT ![i].at = "claimed"]
        /\ providerGate' = [providerGate EXCEPT ![g] = "claimed"]
        /\ tried' = [tried EXCEPT ![g] = "claimed"]
        /\ mirror' = [mirror EXCEPT ![g] =
              [assignment |-> "active", attempt |-> "claimed", session |-> "starting"]]
    BY <1>3 DEF ClaimGate, To
  <2>2. GTypeOK'
    BY <1>1, <2>1 DEF GTypeOK, Running
  <2>3. MirrorsAgree'
    BY <1>1, <2>1 DEF GTypeOK, MirrorsAgree, Running
  <2>4. ClaimsExclusive'
    <3>1. \A j \in Invokers : Claims(j)' => j = i \/ Claims(j)
      BY <1>1, <2>1 DEF GTypeOK, Claims
    <3>2. invoking'[i].hash = asked'[g]
      BY <1>1, <1>3, <2>1 DEF GTypeOK, Matches
    <3> QED
      BY <1>1, <1>2, <2>1, <3>1, <3>2 DEF GTypeOK, ClaimsExclusive, Claims
  <2>5. ApprovedSinceStop'
    BY <1>1, <2>1 DEF GTypeOK, ApprovedSinceStop
  <2> QED
    BY <2>2, <2>3, <2>4, <2>5
<1>4. CASE ~Matches(g, invoking[i].hash)
  <2>1. /\ invoking' = [invoking EXCEPT ![i].at = "done"]
        /\ providerGate' = [providerGate EXCEPT ![g] = "rejected"]
        /\ UNCHANGED <<tried, mirror>>
    BY <1>4 DEF ClaimGate, To
  <2>2. GTypeOK'
    BY <1>1, <2>1 DEF GTypeOK
  <2>3. MirrorsAgree'
    BY <1>1, <2>1, MirrorsUntouched DEF GTypeOK
  <2>4. ClaimsExclusive'
    BY <1>1, <1>2, <2>1 DEF GTypeOK, ClaimsExclusive, Claims
  <2>5. ApprovedSinceStop'
    BY <1>1, <2>1 DEF GTypeOK, ApprovedSinceStop
  <2> QED
    BY <2>2, <2>3, <2>4, <2>5
<1> QED
  BY <1>3, <1>4

LEMMA MarksRunning ==
    ASSUME GatesInv, NEW i \in Invokers, MarkRunning(i)
    PROVE  GatesInv'
<1> DEFINE g == InvokerOf[i]
           m == MirrorStarted(mirror[g])
<1> USE GatesAssumption DEF GatesInv
<1>1. /\ g \in Gates /\ invoking[i].at = "claimed" /\ tried[g] = "claimed"
      /\ tried' = [tried EXCEPT ![g] = "running"]
      /\ invoking' = [invoking EXCEPT ![i].at = "running"]
      /\ UNCHANGED <<providerGate, pending, snapshot, asked, scoped, due, consumed,
                     emergency, stops, decidedAt>>
  BY DEF MarkRunning, To
<1>2. mirror' = [mirror EXCEPT ![g] = m]
  BY DEF MarkRunning
<1>3. /\ m.assignment = mirror[g].assignment
      /\ m.attempt \in Running <=> mirror[g].attempt \in Running
      /\ m.session \in {"starting", "running"} <=> mirror[g].session \in {"starting", "running"}
      /\ m \in [assignment : {"none", "active", "succeeded", "failed", "cancelled"},
                attempt : Running \cup {"none", "succeeded", "failed", "abandoned", "cancelled"},
                session : {"none", "starting", "running", "succeeded", "failed", "cancelled"}]
  BY <1>1 DEF GTypeOK, MirrorStarted, Running
<1>4. GTypeOK'
  BY <1>1, <1>2, <1>3 DEF GTypeOK, Running
<1>5. MirrorsAgree'
  BY <1>1, <1>2, <1>3 DEF GTypeOK, MirrorsAgree, Running
<1>6. ClaimsExclusive'
  <2>1. \A j \in Invokers : /\ Claims(j)' <=> Claims(j)
                            /\ invoking'[j].hash = invoking[j].hash
    BY <1>1 DEF GTypeOK, Claims
  <2> QED
    BY <1>1, <2>1 DEF ClaimsExclusive
<1>7. ApprovedSinceStop'
  BY <1>1 DEF ApprovedSinceStop
<1> QED
  BY <1>4, <1>5, <1>6, <1>7

\* How an attempt ends, by its process or by the operator.
LEMMA AttemptFinishes ==
    ASSUME GatesInv, NEW g \in Gates, NEW s \in {"succeeded", "failed", "abandoned"},
           FinishAttempt(g, s),
           UNCHANGED <<pending, snapshot, asked, scoped, due, consumed, emergency, stops, decidedAt>>,
           invoking' \in [Invokers -> [at : {"idle", "hashed", "claimed", "running", "done"},
                                       hash : 0..MaxSnapshots]],
           \A j \in Invokers : /\ Claims(j)' => Claims(j)
                               /\ invoking'[j].hash = invoking[j].hash
    PROVE  GatesInv'
<1> USE GatesAssumption DEF GatesInv
<1> DEFINE m == MirrorEnded(mirror[g], s)
<1>1. /\ tried[g] \in Running
      /\ tried' = [tried EXCEPT ![g] = s]
      /\ providerGate' = [providerGate EXCEPT ![g] = IF providerGate[g] = "claimed" THEN "consumed"
                                                     ELSE providerGate[g]]
      /\ mirror' = [mirror EXCEPT ![g] = m]
  BY DEF FinishAttempt
<1>2. /\ m.assignment # "active" /\ m.attempt \notin Running
      /\ m.session \notin {"starting", "running"}
      /\ m \in [assignment : {"none", "active", "succeeded", "failed", "cancelled"},
                attempt : Running \cup {"none", "succeeded", "failed", "abandoned", "cancelled"},
                session : {"none", "starting", "running", "succeeded", "failed", "cancelled"}]
  BY DEF GTypeOK, MirrorEnded, Running
<1>3. GTypeOK'
  BY <1>1, <1>2 DEF GTypeOK, Running
<1>4. MirrorsAgree'
  BY <1>1, <1>2 DEF GTypeOK, MirrorsAgree, Running
<1>5. ClaimsExclusive'
  BY <1>1 DEF GTypeOK, ClaimsExclusive
<1>6. ApprovedSinceStop'
  BY <1>1 DEF GTypeOK, ApprovedSinceStop
<1> QED
  BY <1>3, <1>4, <1>5, <1>6

LEMMA AttemptsEnd ==
    ASSUME GatesInv,
           \/ \E i \in Invokers, s \in {"succeeded", "failed"} : Finish(i, s)
           \/ \E g \in Gates : ReconcileAttempt(g)
    PROVE  GatesInv'
<1>1. ASSUME NEW i \in Invokers, NEW s \in {"succeeded", "failed"}, Finish(i, s)
      PROVE  GatesInv'
  <2>1. invoking' = [invoking EXCEPT ![i].at = "done"]
    BY <1>1 DEF Finish, To
  <2>2. /\ invoking' \in [Invokers -> [at : {"idle", "hashed", "claimed", "running", "done"},
                                       hash : 0..MaxSnapshots]]
        /\ \A j \in Invokers : /\ Claims(j)' => Claims(j)
                               /\ invoking'[j].hash = invoking[j].hash
    BY <2>1 DEF GatesInv, GTypeOK, Claims
  <2>3. InvokerOf[i] \in Gates
    BY GatesAssumption
  <2> QED
    BY <1>1, <2>2, <2>3, AttemptFinishes DEF Finish
<1>2. ASSUME NEW g \in Gates, ReconcileAttempt(g)
      PROVE  GatesInv'
  <2>1. \A j \in Invokers : /\ Claims(j)' => Claims(j)
                            /\ invoking'[j].hash = invoking[j].hash
    BY <1>2 DEF ReconcileAttempt, Claims
  <2> QED
    BY <1>2, <2>1, AttemptFinishes DEF ReconcileAttempt, GatesInv, GTypeOK
<1> QED
  BY <1>1, <1>2

\* Requests, decisions, uses and ages of scoped approvals.
LEMMA ScopedSteps ==
    ASSUME GatesInv, NEW p \in Approvals,
           \/ RequestApproval(p) \/ TimePasses(p) \/ Authorize(p)
           \/ \E d \in {"approved", "rejected"} : DecideScoped(p, d)
    PROVE  GatesInv'
<1> USE GatesAssumption DEF GatesInv
<1>1. UNCHANGED <<providerGate, pending, snapshot, asked, tried, mirror, invoking, emergency, stops>>
  BY DEF RequestApproval, TimePasses, Authorize, DecideScoped, ScopedMoves, gateRows
<1>2. /\ scoped' \in [Approvals -> {"none", "pending", "approved", "rejected",
                                    "consumed", "expired", "cancelled"}]
      /\ due' \in [Approvals -> BOOLEAN]
      /\ consumed' \subseteq [attempt : {AttemptOf[q] : q \in Approvals}, approval : Approvals]
      /\ decidedAt' \in [Grantable -> 0..MaxStops]
  <2>1. CASE RequestApproval(p)
    BY <2>1 DEF RequestApproval, ScopedMoves, GTypeOK
  <2>2. CASE TimePasses(p)
    BY <2>2 DEF TimePasses, GTypeOK, gateRows
  <2>3. CASE Authorize(p)
    BY <2>3 DEF Authorize, ScopedMoves, GTypeOK
  <2>4. ASSUME NEW d \in {"approved", "rejected"}, DecideScoped(p, d)
        PROVE  <1>2!1 /\ <1>2!2 /\ <1>2!3 /\ <1>2!4
    BY <2>4 DEF DecideScoped, ScopedMoves, GTypeOK, Grantable
  <2> QED
    BY <2>1, <2>2, <2>3, <2>4
<1>3. GTypeOK'
  BY <1>1, <1>2 DEF GTypeOK
<1>4. MirrorsAgree'
  BY <1>1, MirrorsUntouched
<1>5. ClaimsExclusive'
  BY <1>1 DEF ClaimsExclusive, Claims
<1>6. ApprovedSinceStop'
  <2>1. CASE RequestApproval(p)
    BY <1>1, <2>1 DEF RequestApproval, ScopedMoves, GTypeOK, ApprovedSinceStop
  <2>2. CASE TimePasses(p)
    BY <1>1, <2>2 DEF TimePasses, ApprovedSinceStop, gateRows
  <2>3. CASE Authorize(p)
    BY <1>1, <2>3 DEF Authorize, ScopedMoves, GTypeOK, ApprovedSinceStop
  <2>4. ASSUME NEW d \in {"approved", "rejected"}, DecideScoped(p, d)
        PROVE  ApprovedSinceStop'
    BY <1>1, <2>4 DEF DecideScoped, ScopedMoves, GTypeOK, ApprovedSinceStop, Grantable
  <2> QED
    BY <2>1, <2>2, <2>3, <2>4
<1> QED
  BY <1>3, <1>4, <1>5, <1>6

LEMMA EverythingStops ==
    ASSUME GatesInv, StopEverything
    PROVE  GatesInv'
<1> USE GatesAssumption DEF GatesInv, StopEverything
<1>1. /\ emergency' \in BOOLEAN /\ stops' \in 0..MaxStops /\ stops' = stops + 1
      /\ pending' \subseteq Gates
  BY DEF GTypeOK
<1>2. tried' \in [Gates -> Running \cup {"none", "succeeded", "failed", "abandoned"}]
  BY DEF GTypeOK
<1>3. providerGate' \in [Gates -> {"none", "pending", "approved", "rejected", "claimed", "consumed"}]
  <2>1. \A g \in Gates : providerGate'[g] \in
            {"none", "pending", "approved", "rejected", "claimed", "consumed"}
    BY DEF GTypeOK, Withdrawn
  <2> QED
    BY <2>1
<1>4. mirror' \in [Gates -> [
          assignment : {"none", "active", "succeeded", "failed", "cancelled"},
          attempt : Running \cup {"none", "succeeded", "failed", "abandoned", "cancelled"},
          session : {"none", "starting", "running", "succeeded", "failed", "cancelled"}]]
  BY DEF GTypeOK
<1>5. scoped' \in [Approvals -> {"none", "pending", "approved", "rejected",
                                  "consumed", "expired", "cancelled"}]
  BY DEF GTypeOK, Withdrawn
<1>6. GTypeOK'
  BY <1>1, <1>2, <1>3, <1>4, <1>5 DEF GTypeOK
<1>7. \A g \in Gates : /\ providerGate'[g] \notin {"claimed", "approved"}
                       /\ tried'[g] \notin Running
                       /\ providerGate[g] \in {"claimed", "consumed"} => providerGate'[g] = "consumed"
  BY DEF GTypeOK, MirrorsAgree, Running, Withdrawn
<1>8. \A g \in Gates : /\ mirror'[g].assignment # "active" /\ mirror'[g].attempt \notin Running
                       /\ mirror'[g].session \notin {"starting", "running"}
  BY DEF GTypeOK, Running
<1>9. MirrorsAgree'
  BY <1>7, <1>8 DEF MirrorsAgree
<1>10. ClaimsExclusive'
  BY <1>7 DEF ClaimsExclusive, Claims
<1>11. ApprovedSinceStop'
  BY <1>7 DEF ApprovedSinceStop, Withdrawn
<1> QED
  BY <1>6, <1>9, <1>10, <1>11

LEMMA GatesStep == GatesInv /\ [GNext]_gvars => GatesInv'
<1> SUFFICES ASSUME GatesInv, [GNext]_gvars PROVE GatesInv'
  OBVIOUS
<1>1. CASE UNCHANGED gvars
  BY <1>1 DEF gvars, GatesInv, GTypeOK, MirrorsAgree, ClaimsExclusive, Claims, ApprovedSinceStop
<1>2. ASSUME NEW g \in Gates, RequestGate(g) PROVE GatesInv'
  BY <1>2, GateRequests
<1>3. ASSUME NEW g \in Gates, NEW d \in {"approved", "rejected"}, DecideGate(g, d) PROVE GatesInv'
  BY <1>3, GateDecisions
<1>4. ASSUME NEW i \in Invokers, Invoke(i) \/ StopInvoking(i) PROVE GatesInv'
  BY <1>4, Invocations
<1>5. ASSUME NEW i \in Invokers, ClaimGate(i) PROVE GatesInv'
  BY <1>5, GateClaims
<1>6. ASSUME NEW i \in Invokers, MarkRunning(i) PROVE GatesInv'
  BY <1>6, MarksRunning
<1>7. CASE \/ \E i \in Invokers, s \in {"succeeded", "failed"} : Finish(i, s)
           \/ \E g \in Gates : ReconcileAttempt(g)
  BY <1>7, AttemptsEnd
<1>8. ASSUME NEW p \in Approvals,
             \/ RequestApproval(p) \/ TimePasses(p) \/ Authorize(p)
             \/ \E d \in {"approved", "rejected"} : DecideScoped(p, d)
      PROVE  GatesInv'
  BY <1>8, ScopedSteps
<1>9. CASE Edit \/ ClearEmergency
  BY <1>9, Edits
<1>10. CASE StopEverything
  BY <1>10, EverythingStops
<1> QED
  BY <1>1, <1>2, <1>3, <1>4, <1>5, <1>6, <1>7, <1>8, <1>9, <1>10 DEF GNext

\* Whatever a person approved one use of, and whoever ends it: the gate's four
\* tables tell one story, at most one call runs the provider, on exactly the
\* agent, item and definition the gate was asked for, and no approval outlives an
\* emergency stop (claim_provider_execution, finish_provider_attempt,
\* set_emergency_stop).
THEOREM GatesAreSound == GSpec => []GatesSound
<1>1. GatesInv => GatesSound
  BY GatesAssumption DEF GatesInv, GatesSound, RunsWhatWasApproved, ClaimsExclusive, Claims
<1> QED
  BY GatesInit, GatesStep, <1>1, PTL DEF GSpec

\* The rows and the calls keep their types (the CHECK constraints of the tables).
THEOREM GatesTypeCorrect == GSpec => []GTypeOK
<1>1. GatesInv => GTypeOK
  BY DEF GatesInv
<1> QED
  BY GatesInit, GatesStep, <1>1, PTL DEF GSpec

-----------------------------------------------------------------------------
(* Admission, runtime sessions and the processes of the driver               *)
(* (worker_admission.py, worker_runtime.py, storage.py).                     *)

\* The admissions that count are some of finitely many.
LEMMA OccupiedFinite ==
    /\ IsFiniteSet(Occupied) /\ Cardinality(Occupied) \in Nat
    /\ Occupied' \subseteq Admitted => IsFiniteSet(Occupied') /\ Cardinality(Occupied') \in Nat
<1>1. IsFiniteSet(Admitted) /\ Occupied \in SUBSET Admitted
  BY WorkersAssumption DEF Occupied
<1> QED
  BY <1>1, FS_Subset, FS_CardinalityType

LEMMA WorkersInit == WInit => WorkersInv
<1> SUFFICES ASSUME WInit PROVE WorkersInv
  OBVIOUS
<1> USE WorkersAssumption
<1>1. WTypeOK
  <2>1. [state |-> "active", version |-> 1] \in [state : DOMAIN LifecycleMoves, version : Nat]
    BY DEF LifecycleMoves
  <2>2. /\ lifecycle \in [Workers -> [state : DOMAIN LifecycleMoves, version : Nat]]
        /\ registered \in [Workers -> Nat]
    BY <2>1 DEF WInit
  <2>4. capacity \in 1..MaxCapacity /\ changes \in 0..MaxChanges
    BY DEF WInit
  <2>3. admission \in [Admitted -> [occupancy : {"none", "occupied", "stopped"},
                                   version : Nat, registered : Nat]]
    BY DEF WInit
  <2> QED
    BY <2>2, <2>3, <2>4 DEF WInit, WTypeOK
<1>2. ReservedOnes /\ NothingLiveUnderStop
  BY DEF WInit, ReservedOnes, NothingLiveUnderStop
<1>3. Occupied = {}
  BY DEF WInit, Occupied
<1>4. Cardinality(Occupied) <= capacity
  BY <1>3, FS_EmptySet DEF WInit
<1> QED
  BY <1>1, <1>2, <1>4 DEF WorkersInv

\* Steps of the assignment's tables and of the registry that give no admission
\* a place or take one away.
LEMMA PoolUntouched ==
    ASSUME WorkersInv, WTypeOK', UNCHANGED <<session, reserved, halted, starting, process>>,
           \A a \in Admitted : admission'[a].occupancy = admission[a].occupancy,
           Cardinality(Occupied) <= capacity',
           halted => \A a \in Assignments : assigned'[a] # "active" /\ attempt'[a] # "live"
    PROVE  WorkersInv'
<1>1. Occupied' = Occupied
  BY DEF Occupied
<1> QED
  BY <1>1 DEF WorkersInv, ReservedOnes, NothingLiveUnderStop

LEMMA RegistryMoves == ASSUME WorkersInv, Registry PROVE WorkersInv'
<1> USE WorkersAssumption DEF WorkersInv, registry, rows
<1>1. UNCHANGED <<rows, halted, starting, process>>
  BY DEF Registry, SetLifecycle, Register, ConfigurePool
<1>2. Cardinality(Occupied) \in Nat
  BY OccupiedFinite
<1>3. /\ lifecycle' \in [Workers -> [state : DOMAIN LifecycleMoves, version : Nat]]
      /\ registered' \in [Workers -> Nat] /\ capacity' \in 1..MaxCapacity
      /\ changes' \in 0..MaxChanges /\ Cardinality(Occupied) <= capacity'
  <2>1. ASSUME NEW w \in Workers, NEW s \in DOMAIN LifecycleMoves, SetLifecycle(w, s)
        PROVE  <1>3
    BY <2>1 DEF SetLifecycle, WTypeOK
  <2>2. ASSUME NEW ws \in SUBSET Workers, Register(ws)
        PROVE  <1>3
    BY <2>2 DEF Register, WTypeOK
  <2>3. ASSUME NEW c \in 1..MaxCapacity, ConfigurePool(c)
        PROVE  <1>3
    BY <1>2, <2>3 DEF ConfigurePool, WTypeOK
  <2>4. \A w \in Workers : {w} \in SUBSET Workers
    OBVIOUS
  <2> QED
    BY <2>1, <2>2, <2>3, <2>4 DEF Registry
<1>4. WTypeOK'
  BY <1>1, <1>3 DEF WTypeOK
<1> QED
  BY <1>1, <1>3, <1>4, PoolUntouched DEF NothingLiveUnderStop

LEMMA AssignmentSteps ==
    ASSUME WorkersInv, NEW a \in Assignments,
           \/ a \in Unregistered /\ (ClaimUnregistered(a) \/ CreateAttempt(a))
           \/ LeaseEnds(a) \/ AttemptEnds(a)
    PROVE  WorkersInv'
<1> USE WorkersAssumption DEF WorkersInv, registry
<1>1. /\ UNCHANGED <<session, reserved, halted, starting, process, admission, registry>>
      /\ assigned' \in [Assignments -> {"none", "active", "over"}]
      /\ attempt' \in [Assignments -> {"none", "live", "over"}]
      /\ halted => \A b \in Assignments : assigned'[b] # "active" /\ attempt'[b] # "live"
  BY DEF ClaimUnregistered, CreateAttempt, LeaseEnds, AttemptEnds, WTypeOK, Authority,
         NothingLiveUnderStop
<1>2. WTypeOK'
  BY <1>1 DEF WTypeOK
<1> QED
  BY <1>1, <1>2, PoolUntouched

LEMMA Admits == ASSUME WorkersInv, NEW a \in Admitted, Admit(a) PROVE WorkersInv'
<1> USE WorkersAssumption DEF WorkersInv, registry
<1>1. WTypeOK'
  <2>1. [occupancy |-> "occupied", version |-> lifecycle[WorkerOf[a]].version,
         registered |-> registered[WorkerOf[a]]]
          \in [occupancy : {"none", "occupied", "stopped"}, version : Nat, registered : Nat]
    BY DEF WTypeOK
  <2> QED
    BY <2>1 DEF Admit, WTypeOK, Assignments
<1>2. Occupied' = Occupied \cup {a} /\ a \notin Occupied
  BY DEF Admit, WTypeOK, Occupied
<1>3. ReservedOnes'
  BY <1>2 DEF Admit, ReservedOnes
<1>4. NothingLiveUnderStop'
  BY DEF Admit, NothingLiveUnderStop
<1>5. Cardinality(Occupied)' <= capacity'
  <2>1. Cardinality(Occupied') = Cardinality(Occupied) + 1
    BY <1>2, OccupiedFinite, FS_AddElement
  <2> QED
    BY <2>1, OccupiedFinite DEF Admit, WTypeOK
<1> QED
  BY <1>1, <1>3, <1>4, <1>5

LEMMA Reconciles == ASSUME WorkersInv, NEW a \in Admitted, ReconcileStopped(a) PROVE WorkersInv'
<1> USE WorkersAssumption DEF WorkersInv, registry
<1>1. WTypeOK'
  <2>1. admission' \in [Admitted -> [occupancy : {"none", "occupied", "stopped"},
                                     version : Nat, registered : Nat]]
    BY DEF ReconcileStopped, WTypeOK
  <2>2. session' \in [Launches -> LiveSession \cup {"none", "succeeded", "failed", "cancelled"}]
    BY DEF ReconcileStopped, WTypeOK
  <2> QED
    BY <2>1, <2>2 DEF ReconcileStopped, WTypeOK
<1>2. Occupied' = Occupied \ {a}
  BY DEF ReconcileStopped, WTypeOK, Occupied
<1>3. ReservedOnes'
  BY <1>2 DEF ReconcileStopped, ReservedOnes, Quiesced
<1>4. NothingLiveUnderStop'
  BY DEF ReconcileStopped, NothingLiveUnderStop, WTypeOK, LiveSession
<1>5. Cardinality(Occupied)' <= capacity'
  <2>1. Cardinality(Occupied') <= Cardinality(Occupied)
    BY <1>2, OccupiedFinite, FS_Subset
  <2>2. Cardinality(Occupied') \in Nat
    BY <1>2, OccupiedFinite DEF Occupied
  <2> QED
    BY <2>1, <2>2, OccupiedFinite DEF ReconcileStopped, WTypeOK
<1> QED
  BY <1>1, <1>3, <1>4, <1>5

\* Steps of a start or of its session, whose admissions stay where they are.
LEMMA LaunchUntouched ==
    ASSUME WorkersInv, UNCHANGED <<admission, assigned, attempt, registry, halted>>,
           session' \in [Launches -> LiveSession \cup {"none", "succeeded", "failed", "cancelled"}],
           reserved' \in [Admitted -> Launches \cup {NoLaunch}],
           starting' \in [Launches -> {"idle", "validated", "reserved", "cleared",
                                       "dispatched", "failed", "done"}],
           process' \in [Launches -> {"none", "alive", "gone"}],
           ReservedOnes',
           halted => \A l \in Launches : session'[l] \notin LiveSession
    PROVE  WorkersInv'
<1> USE DEF WorkersInv, registry
<1>1. WTypeOK'
  BY DEF WTypeOK
<1>2. NothingLiveUnderStop'
  BY DEF NothingLiveUnderStop
<1>3. Occupied' = Occupied
  BY DEF Occupied
<1> QED
  BY <1>1, <1>2, <1>3

LEMMA StartSteps ==
    ASSUME WorkersInv, NEW l \in Launches, Start(l)
    PROVE  WorkersInv'
<1> USE WorkersAssumption DEF WorkersInv, rows, Step
<1>1. CASE Validate(l) \/ Clear(l) \/ Raise(l) \/ KillStarter(l)
  <2>1. /\ UNCHANGED <<admission, assigned, attempt, session, reserved, registry, halted, process>>
        /\ starting' \in [Launches -> {"idle", "validated", "reserved", "cleared",
                                       "dispatched", "failed", "done"}]
        /\ \A k \in Launches : k # l => starting'[k] = starting[k]
        /\ starting'[l] \in {"reserved", "cleared", "dispatched", "failed"} =>
              starting[l] \in {"reserved", "cleared", "dispatched"}
        /\ starting'[l] \in {"reserved", "cleared"} => starting[l] \in {"reserved", "cleared"}
    BY <1>1 DEF Validate, Clear, Raise, KillStarter, WTypeOK
  <2>2. ReservedOnes'
    BY <2>1 DEF ReservedOnes, Occupied
  <2> QED
    BY <2>1, <2>2, LaunchUntouched DEF WTypeOK, NothingLiveUnderStop
<1>2. CASE Reserve(l)
  <2> DEFINE a == LaunchOf[l]
  <2>1. /\ a \in Admitted /\ starting[l] = "validated" /\ Authority(a)
        /\ UNCHANGED <<admission, assigned, attempt, registry, halted, process>>
    BY <1>2 DEF Reserve, MayStart
  <2>2. a \in Occupied /\ ~halted
    BY <2>1 DEF Authority, Occupied, NothingLiveUnderStop, Assignments
  <2>3. CASE Reservable(a)
    <3>1. /\ starting' = [starting EXCEPT ![l] = "reserved"]
          /\ session' = [session EXCEPT ![l] = "starting"]
          /\ reserved' = [reserved EXCEPT ![a] = l]
          /\ reserved[a] = NoLaunch
      BY <1>2, <2>3 DEF Reserve, Reservable
    <3>2. ReservedOnes'
      BY <2>1, <2>2, <3>1 DEF ReservedOnes, WTypeOK, Occupied
    <3> QED
      BY <2>1, <2>2, <3>1, <3>2, LaunchUntouched DEF WTypeOK, LiveSession
  <2>4. CASE ~Reservable(a)
    <3>1. starting' = [starting EXCEPT ![l] = "done"] /\ UNCHANGED <<session, reserved>>
      BY <1>2, <2>4 DEF Reserve
    <3>2. ReservedOnes'
      BY <2>1, <3>1 DEF ReservedOnes, WTypeOK, Occupied
    <3> QED
      BY <2>1, <2>2, <3>1, <3>2, LaunchUntouched DEF WTypeOK
  <2> QED
    BY <2>3, <2>4
<1>3. CASE CreateSession(l)
  <2>1. /\ LaunchOf[l] \notin Admitted /\ LaunchOf[l] \in Assignments
        /\ starting' = [starting EXCEPT ![l] = "reserved"]
        /\ session' = [session EXCEPT ![l] = "starting"]
        /\ UNCHANGED <<admission, assigned, attempt, reserved, registry, halted, process>>
    BY <1>3 DEF CreateSession, Assignments
  <2>2. ~halted
    BY <1>3, <2>1 DEF CreateSession, Authority, NothingLiveUnderStop
  <2>3. ReservedOnes'
    BY <2>1 DEF ReservedOnes, WTypeOK, Occupied
  <2> QED
    BY <2>1, <2>2, <2>3, LaunchUntouched DEF WTypeOK, LiveSession
<1>4. ASSUME NEW answered \in BOOLEAN, Dispatch(l, answered)
      PROVE  WorkersInv'
  <2>1. /\ starting[l] = "cleared"
        /\ starting' = [starting EXCEPT ![l] = IF answered THEN "dispatched" ELSE "failed"]
        /\ process' = [process EXCEPT ![l] = "alive"]
        /\ UNCHANGED <<admission, assigned, attempt, session, reserved, registry, halted>>
    BY <1>4 DEF Dispatch
  <2>2. starting'[l] \in {"dispatched", "failed"} /\ process'[l] = "alive"
    BY <2>1 DEF WTypeOK
  <2>3. /\ starting' \in [Launches -> {"idle", "validated", "reserved", "cleared",
                                       "dispatched", "failed", "done"}]
        /\ process' \in [Launches -> {"none", "alive", "gone"}]
    BY <2>1 DEF WTypeOK
  <2>4. ReservedOnes'
    BY <2>1, <2>2 DEF ReservedOnes, WTypeOK, Occupied
  <2> QED
    BY <2>1, <2>3, <2>4, LaunchUntouched DEF WTypeOK, NothingLiveUnderStop
<1>5. CASE Bind(l)
  <2>1. /\ starting[l] = "dispatched" /\ session[l] = "starting"
        /\ starting' = [starting EXCEPT ![l] = "done"]
        /\ session' = [session EXCEPT ![l] = "running"]
        /\ UNCHANGED <<admission, assigned, attempt, reserved, registry, halted, process>>
    BY <1>5 DEF Bind
  <2>2. ReservedOnes'
    BY <2>1 DEF ReservedOnes, WTypeOK, Occupied
  <2> QED
    BY <2>1, <2>2, LaunchUntouched DEF WTypeOK, NothingLiveUnderStop, LiveSession
<1>6. CASE Fail(l)
  <2>1. /\ starting[l] = "failed" /\ starting' = [starting EXCEPT ![l] = "done"]
        /\ UNCHANGED <<admission, assigned, attempt, reserved, registry, halted, process>>
    BY <1>6 DEF Fail
  <2>2. /\ session' \in [Launches -> LiveSession \cup {"none", "succeeded", "failed", "cancelled"}]
        /\ \A k \in Launches : session'[k] \in LiveSession => session[k] \in LiveSession
    BY <1>6 DEF Fail, WTypeOK, LiveSession
  <2>3. ReservedOnes'
    BY <2>1 DEF ReservedOnes, WTypeOK, Occupied
  <2> QED
    BY <2>1, <2>2, <2>3, LaunchUntouched DEF WTypeOK, NothingLiveUnderStop
<1> QED
  BY <1>1, <1>2, <1>3, <1>4, <1>5, <1>6 DEF Start

\* What happens to a session or a process by itself or by a person.
LEMMA SessionSteps ==
    ASSUME WorkersInv, NEW l \in Launches,
           \/ ProcessEnds(l) \/ Suspend(l) \/ Resume(l) \/ Cancel(l)
           \/ \E outcome \in {"succeeded", "failed", "cancelled"} : Finalize(l, outcome)
    PROVE  WorkersInv'
<1> USE WorkersAssumption DEF WorkersInv, rows
<1>1. CASE ProcessEnds(l)
  <2>1. /\ process[l] = "alive" /\ process' = [process EXCEPT ![l] = "gone"]
        /\ UNCHANGED <<admission, assigned, attempt, session, reserved, registry, halted, starting>>
    BY <1>1 DEF ProcessEnds
  <2>2. ReservedOnes'
    BY <2>1 DEF ReservedOnes, WTypeOK, Occupied
  <2> QED
    BY <2>1, <2>2, LaunchUntouched DEF WTypeOK, NothingLiveUnderStop
<1>2. ASSUME NEW from \in SUBSET LiveSession,
             NEW to \in LiveSession \cup {"succeeded", "failed", "cancelled"},
             SessionMoves(l, from, to)
      PROVE  WorkersInv'
  <2>1. /\ session[l] \in LiveSession /\ session' = [session EXCEPT ![l] = to]
        /\ UNCHANGED <<admission, assigned, attempt, reserved, registry, halted, starting, process>>
    BY <1>2 DEF SessionMoves
  <2>2. session' \in [Launches -> LiveSession \cup {"none", "succeeded", "failed", "cancelled"}]
    BY <2>1 DEF WTypeOK
  <2>3. ReservedOnes'
    BY <2>1 DEF ReservedOnes, Occupied
  <2>4. ~halted
    BY <2>1 DEF NothingLiveUnderStop
  <2> QED
    BY <2>1, <2>2, <2>3, <2>4, LaunchUntouched DEF WTypeOK
<1>3. /\ {"running"} \in SUBSET LiveSession /\ {"suspended"} \in SUBSET LiveSession
      /\ "suspended" \in LiveSession /\ "running" \in LiveSession
  BY DEF LiveSession
<1>4. CASE Suspend(l) \/ Resume(l) \/ Cancel(l)
  BY <1>2, <1>3, <1>4 DEF Suspend, Resume, Cancel
<1>5. ASSUME NEW outcome \in {"succeeded", "failed", "cancelled"}, Finalize(l, outcome)
      PROVE  WorkersInv'
  BY <1>2, <1>3, <1>5 DEF Finalize
<1> QED
  BY <1>1, <1>4, <1>5

LEMMA Halts == ASSUME WorkersInv, HaltAll \/ Unhalt PROVE WorkersInv'
<1> USE WorkersAssumption DEF WorkersInv, registry, rows
<1>1. CASE HaltAll
  <2>1. /\ assigned' \in [Assignments -> {"none", "active", "over"}]
        /\ attempt' \in [Assignments -> {"none", "live", "over"}]
        /\ session' \in [Launches -> LiveSession \cup {"none", "succeeded", "failed", "cancelled"}]
        /\ \A l \in Launches : session'[l] \notin LiveSession
        /\ \A a \in Assignments : assigned'[a] # "active" /\ attempt'[a] # "live"
    BY <1>1 DEF HaltAll, WTypeOK, LiveSession
  <2>2. /\ halted' = TRUE
        /\ UNCHANGED <<admission, reserved, registry, starting, process>>
    BY <1>1 DEF HaltAll
  <2>3. WTypeOK'
    BY <2>1, <2>2 DEF WTypeOK
  <2>4. ReservedOnes' /\ Occupied' = Occupied
    BY <2>2 DEF ReservedOnes, Occupied
  <2> QED
    BY <2>1, <2>2, <2>3, <2>4 DEF NothingLiveUnderStop
<1>2. CASE Unhalt
  BY <1>2 DEF Unhalt, WTypeOK, ReservedOnes, NothingLiveUnderStop, Occupied
<1> QED
  BY <1>1, <1>2

LEMMA WorkersStep == WorkersInv /\ [WNext]_wvars => WorkersInv'
<1> SUFFICES ASSUME WorkersInv, [WNext]_wvars PROVE WorkersInv'
  OBVIOUS
<1>1. CASE UNCHANGED wvars
  BY <1>1 DEF wvars, rows, registry, WorkersInv, WTypeOK, ReservedOnes, NothingLiveUnderStop, Occupied
<1>2. ASSUME NEW a \in Admitted, Admit(a) \/ ReconcileStopped(a) PROVE WorkersInv'
  BY <1>2, Admits, Reconciles
<1>3. ASSUME NEW a \in Unregistered, ClaimUnregistered(a) \/ CreateAttempt(a) PROVE WorkersInv'
  BY <1>3, AssignmentSteps DEF Assignments
<1>4. ASSUME NEW a \in Assignments, LeaseEnds(a) \/ AttemptEnds(a) PROVE WorkersInv'
  BY <1>4, AssignmentSteps
<1>5. CASE Registry
  BY <1>5, RegistryMoves
<1>6. ASSUME NEW l \in Launches, Start(l) PROVE WorkersInv'
  BY <1>6, StartSteps
<1>7. ASSUME NEW l \in Launches,
             \/ ProcessEnds(l) \/ Suspend(l) \/ Resume(l) \/ Cancel(l)
             \/ \E outcome \in {"succeeded", "failed", "cancelled"} : Finalize(l, outcome)
      PROVE  WorkersInv'
  BY <1>7, SessionSteps
<1>8. CASE HaltAll \/ Unhalt
  BY <1>8, Halts
<1> QED
  BY <1>1, <1>2, <1>3, <1>4, <1>5, <1>6, <1>7, <1>8 DEF WNext

\* A set in which any two are the same has at most one element.
LEMMA AtMostOne ==
    ASSUME NEW S, \A x, y \in S : x = y
    PROVE  Cardinality(S) <= 1
<1>1. CASE S = {}
  BY <1>1, FS_EmptySet
<1>2. CASE S # {}
  <2>1. PICK x \in S : S = {x}
    BY <1>2
  <2> QED
    BY <2>1, FS_Singleton
<1> QED
  BY <1>1, <1>2

\* However often a start is repeated, fails half-way or is killed, the driver is
\* called for an admission by one launch; and under the emergency stop nothing is
\* live, also what was validated before it (WorkerRuntime.start,
\* set_emergency_stop).
THEOREM LaunchesAreSound == WSpec => []LaunchesSound
<1>1. ASSUME WorkersInv PROVE LaunchesSound
  <2>1. ASSUME NEW a \in Admitted
        PROVE  Cardinality({l \in Launches : LaunchOf[l] = a /\ process[l] # "none"}) <= 1
    BY <1>1, AtMostOne DEF WorkersInv, ReservedOnes
  <2> QED
    BY <1>1, <2>1 DEF WorkersInv, LaunchesSound, DispatchedOnce
<1> QED
  BY WorkersInit, WorkersStep, <1>1, PTL DEF WSpec

\* The processes of an executor are never more than its pool has places, for any
\* pool and any number of launches: each is its admission's one launch, and the
\* admission keeps its place until the process was shown to be gone
\* (admit, configure_pool, reconcile_stopped).
THEOREM ProcessesFit == WSpec => []ProcessesWithinCapacity
<1>1. ASSUME WorkersInv PROVE ProcessesWithinCapacity
  <2> DEFINE Busy == {a \in Admitted : \E l \in Processes : LaunchOf[l] = a}
             f == [a \in Busy |-> reserved[a]]
  <2>1. \A l \in Processes : LaunchOf[l] \in Busy /\ f[LaunchOf[l]] = l
    BY <1>1 DEF WorkersInv, ReservedOnes, Processes
  <2>2. f \in Surjection(Busy, Processes)
    BY <2>1 DEF Surjection
  <2>3. Busy \in SUBSET Occupied
    BY <1>1 DEF WorkersInv, ReservedOnes, Processes
  <2>4. /\ IsFiniteSet(Busy)
        /\ Cardinality(Busy) <= Cardinality(Occupied)
    BY <2>3, OccupiedFinite, FS_Subset
  <2>5. /\ IsFiniteSet(Processes)
        /\ Cardinality(Processes) <= Cardinality(Busy)
    BY <2>2, <2>4, FS_Surjection
  <2>6. Cardinality(Processes) \in Nat /\ Cardinality(Busy) \in Nat
    BY <2>4, <2>5, FS_CardinalityType
  <2> QED
    BY <1>1, <2>4, <2>5, <2>6, OccupiedFinite DEF WorkersInv, WTypeOK, ProcessesWithinCapacity
<1> QED
  BY WorkersInit, WorkersStep, <1>1, PTL DEF WSpec

\* The rows keep their types, and the pool's capacity its limit.
THEOREM WorkersTypeCorrect == WSpec => []WTypeOK
<1>1. WorkersInv => WTypeOK
  BY DEF WorkersInv
<1> QED
  BY WorkersInit, WorkersStep, <1>1, PTL DEF WSpec

-----------------------------------------------------------------------------
(* The stages of one run (orchestration/temporal/activities.py, workflow.py). *)

CallPoints == {"called", "inserting", "recovering", "choosing", "assigning", "working", "saving",
               "storing", "answered", "failed", "refused", "dead", "over"}
CallRows == [at : CallPoints, label : Nat \X Nat, open : BOOLEAN,
             agent : {NoAgent} \cup DOMAIN ModelOf, subjects : SUBSET Nat,
             result : {NoAgent} \cup Verdicts]
ArtifactRows == [label : Labels, agent : DOMAIN ModelOf, verdict : Verdicts,
                 status : {"pending", "approved", "rejected"}, verifier : Int]
EvidenceRows == [artifact : Nat, status : {"proposed", "accepted", "rejected"},
                 saw : {"nothing", "locked", "free"}]
ReviewerRows == [agent : {NoAgent} \cup DOMAIN ModelOf, subjects : SUBSET Nat]

StageTablesTyped ==
    /\ definition \in Definitions
    /\ mutations \in [Labels -> {"none", "reserved"} \cup Verdicts]
    /\ reviewers \in [Labels -> ReviewerRows]
    /\ calls \in Seq(CallRows) /\ artifacts \in Seq(ArtifactRows) /\ evidence \in Seq(EvidenceRows)

Rows(table) == {table[i] : i \in 1..Len(table)}
HasArtifact(l) == \E e \in Rows(artifacts) : e.label = l

\* The stages before a label's were executed, under a definition that orders them.
Reached(l) ==
    /\ ValidWorkflow(definition) /\ l \in Labels /\ l[1] \in 1..N
    /\ \A x \in 1..(l[1] - 1) : HasArtifact(<<x, 0>>)

\* Who a label's artifacts are by, and of which models it may not be.
AgentOf(l) == IF definition.pool[l[1]] = {} THEN definition.agent[l[1]] ELSE reviewers[l].agent
Independent(l, a) == \A x \in definition.reviews[l[1]] : ModelOf[AgentOf(<<x, 0>>)] # ModelOf[a]
Authored(l, a) ==
    /\ a = AgentOf(l)
    /\ definition.pool[l[1]] # {} => ~Unassigned(l) /\ Independent(l, a)

CallKnown(k) ==
    /\ k.at # "over" => Reached(k.label)
    /\ k.at \in {"saving", "storing", "answered"} => k.result \in Verdicts
    /\ k.at = "storing" => HasArtifact(k.label)
    /\ k.at = "answered" => k.result = mutations[k.label]
    /\ k.at = "assigning" =>
          /\ definition.pool[k.label[1]] # {} /\ k.agent \in DOMAIN ModelOf
          /\ Independent(k.label, k.agent)
    /\ k.at \in {"working", "saving"} => Authored(k.label, k.agent)

ArtifactKnown(e) == Reached(e.label) /\ Authored(e.label, e.agent)

CallsKnown == \A k \in Rows(calls) : CallKnown(k)
ArtifactsKnown == \A e \in Rows(artifacts) : ArtifactKnown(e)
AnswersSaved == \A l \in Labels : mutations[l] \in Verdicts => HasArtifact(l)

Earned(s) ==
    \/ \E r \in 0..MaxStageRepairs : mutations[<<s, r>>] = "passed"
    \/ job.by = "engine" /\ \E e \in Rows(artifacts) : e.label = <<s, 0>> /\ e.verdict = "passed"

\* Where the workflow is: what it waits for is the newest execution of its stage, and what it
\* left behind was answered.
JobTyped ==
    /\ DOMAIN job = {"at", "by", "stage", "repair", "tries", "paused", "cancelled"}
    /\ job.stage \in 1..(Stages + 1) /\ job.repair \in 0..MaxStageRepairs
    /\ job.at \in {"asked", "load"} => job.stage = 1
    /\ job.at \in {"stage", "await", "finalize", "engine"} =>
          ValidWorkflow(definition) /\ job.stage \in 1..N
    /\ job.at = "asked" => calls = <<>> /\ artifacts = <<>> /\ \A l \in Labels : Unassigned(l)
    /\ job.by = "engine" =>
          calls = <<>> /\ job.at \in {"asked", "engine", "finalize", "failing", "close", "over"}
    /\ job.at = "engine" =>
          /\ job.by = "engine"
          /\ \A l \in Labels : l[1] >= job.stage => Unassigned(l) /\ ~HasArtifact(l)
JobProgress ==
    /\ \A x \in 1..(job.stage - 1) : Earned(x) /\ HasArtifact(<<x, 0>>)
    /\ job.repair > 0 => \A x \in {job.stage} : HasArtifact(<<x, 0>>)
    /\ job.at = "finalize" \/ gate => \A s \in 1..N : Earned(s)
OpenCalls ==
    \A c \in 1..Len(calls) : calls[c].open =>
        /\ job.at = "await" /\ calls[c].label = <<job.stage, job.repair>> /\ calls[c].at # "over"
        /\ \A d \in 1..Len(calls) : calls[d].open => c = d

EvidenceKnown ==
    /\ \A k \in 1..Len(evidence) :
          /\ evidence[k].artifact \in 1..Len(artifacts)
          /\ evidence[k].saw = "locked" => Locked(evidence[k].artifact)
    /\ VerifierKept

StagesInv ==
    /\ StageTablesTyped /\ CallsKnown /\ ArtifactsKnown /\ AnswersSaved
    /\ JobTyped /\ JobProgress /\ OpenCalls /\ EvidenceKnown

-----------------------------------------------------------------------------
\* A non-empty set of naturals has a least element, and one of numbers up to n a greatest.
LEMMA LeastOf == ASSUME NEW T \in SUBSET Nat, T # {} PROVE \E x \in T : \A y \in T : x <= y
<1> DEFINE R == OpToRel(<, Nat)
<1>1. IsWellFoundedOn(R, Nat)
  BY NatLessThanWellFounded, Zenon
<1>2. \A x, y \in Nat : x < y => <<x, y>> \in R
  BY DEF OpToRel
<1>3. \E x \in T : \A y \in T : ~(<<y, x>> \in R)
  <2> HIDE DEF R
  <2> QED BY <1>1, WFMin
<1> HIDE DEF R
<1>4. \A x, y \in T : ~(y < x) => x <= y
  OBVIOUS
<1> QED BY <1>2, <1>3, <1>4

LEMMA GreatestOf ==
    ASSUME NEW n \in Nat, NEW T \in SUBSET (1..n), T # {}
    PROVE  \E x \in T : \A y \in T : y <= x
<1> DEFINE S == {n - i : i \in T}
<1>1. S \in SUBSET Nat /\ S # {}
  <2>1. \A i \in 1..n : n - i \in Nat
    OBVIOUS
  <2> QED BY <2>1
<1>2. PICK m \in S : \A y \in S : m <= y
  BY <1>1, LeastOf
<1>3. PICK x \in T : m = n - x
  OBVIOUS
<1>4. \A y \in T : n - x <= n - y
  BY <1>2, <1>3
<1>5. \A y \in T : y \in Int
  <2>1. \A i \in 1..n : i \in Int
    OBVIOUS
  <2> QED BY <2>1
<1> QED BY <1>4, <1>5

\* Tables as sequences of rows.
LEMMA TypedRows ==
    ASSUME NEW S, NEW s \in Seq(S)
    PROVE  /\ Len(s) \in Nat /\ DOMAIN s = 1..Len(s)
           /\ \A i \in 1..Len(s) : s[i] \in S
           /\ \A e \in Rows(s) : e \in S
           /\ \A i \in 1..Len(s) : s[i] \in Rows(s)
  BY DEF Rows

\* A definition's stages, and what a pool's stage reviews.
LEMMA DefinitionKnown ==
    ASSUME definition \in Definitions
    PROVE  /\ N \in 0..Stages
           /\ \A s \in 1..N : definition.agent[s] \in DOMAIN ModelOf
                              /\ definition.pool[s] \subseteq DOMAIN ModelOf
  BY StageAssumption DEF N

LEMMA ReviewsEarlier ==
    ASSUME ValidWorkflow(definition), NEW s \in 1..N, definition.pool[s] # {}
    PROVE  \A x \in definition.reviews[s] : x \in 1..(s - 1)
<1>1. EarlierOf(definition)[s] \subseteq 1..(s - 1)
  BY DEF EarlierOf, N
<1>2. definition.reviews[s] \subseteq EarlierOf(definition)[s]
  BY DEF ValidWorkflow, N
<1> QED BY <1>1, <1>2

-----------------------------------------------------------------------------
\* What every step leaves of what was known.
Grows ==
    /\ definition' = definition /\ job'.by = job.by
    /\ \A e \in Rows(artifacts) : \E g \in Rows(artifacts)' :
          g.label = e.label /\ g.agent = e.agent /\ g.verdict = e.verdict
    /\ \A l \in Labels : mutations[l] \in Verdicts => mutations'[l] = mutations[l]
    /\ \A l \in Labels : ~Unassigned(l) => reviewers'[l] = reviewers[l]

LEMMA LabelParts ==
    /\ \A l \in Labels : l[1] \in 1..Stages /\ l[2] \in 0..MaxStageRepairs /\ l = <<l[1], l[2]>>
    /\ \A s \in 1..Stages, r \in 0..MaxStageRepairs : <<s, r>> \in Labels
    /\ \A s \in 1..Stages : <<s, 0>> \in Labels
  BY StageAssumption DEF Labels

LEMMA ArtifactsStay ==
    ASSUME Grows
    PROVE  \A l : HasArtifact(l) => HasArtifact(l)'
  BY DEF Grows, HasArtifact

LEMMA ReachedStays ==
    ASSUME Grows
    PROVE  \A l : Reached(l) => Reached(l)'
<1>1. definition' = definition /\ N' = N
  BY DEF Grows, N
<1> SUFFICES ASSUME NEW l, Reached(l) PROVE Reached(l)'
  OBVIOUS
<1>2. ValidWorkflow(definition)' /\ l \in Labels /\ l[1] \in 1..N'
  BY <1>1 DEF Reached
<1>3. \A x \in 1..(l[1] - 1) : HasArtifact(<<x, 0>>)'
  BY ArtifactsStay DEF Reached
<1> QED BY <1>2, <1>3 DEF Reached

\* An artifact of a pool's stage has a reviewer, so who wrote what is reviewed stays.
LEMMA WrittenBy ==
    ASSUME ArtifactsKnown, NEW l, HasArtifact(l)
    PROVE  /\ Reached(l) /\ l \in Labels
           /\ definition.pool[l[1]] # {} => ~Unassigned(l)
  BY DEF ArtifactsKnown, ArtifactKnown, HasArtifact, Authored, Reached

LEMMA AgentStays ==
    ASSUME Grows, NEW l \in Labels, definition.pool[l[1]] # {} => ~Unassigned(l)
    PROVE  AgentOf(l)' = AgentOf(l) /\ (~Unassigned(l) => ~Unassigned(l)')
  BY DEF Grows, AgentOf, Unassigned

LEMMA ReviewedWritten ==
    ASSUME ArtifactsKnown, NEW l, Reached(l), definition.pool[l[1]] # {},
           NEW x \in definition.reviews[l[1]]
    PROVE  /\ x \in 1..(l[1] - 1) /\ HasArtifact(<<x, 0>>) /\ <<x, 0>> \in Labels
           /\ definition.pool[x] # {} => ~Unassigned(<<x, 0>>)
<1>1. x \in 1..(l[1] - 1)
  BY ReviewsEarlier DEF Reached
<1>2. HasArtifact(<<x, 0>>)
  BY <1>1 DEF Reached
<1> QED BY <1>1, <1>2, WrittenBy

LEMMA IndependentStays ==
    ASSUME ArtifactsKnown, Grows, NEW l, Reached(l), definition.pool[l[1]] # {}, NEW a
    PROVE  Independent(l, a) => Independent(l, a)'
<1>1. definition' = definition
  BY DEF Grows
<1>2. \A x \in definition.reviews[l[1]] : AgentOf(<<x, 0>>)' = AgentOf(<<x, 0>>)
  BY ReviewedWritten, AgentStays
<1> QED BY <1>1, <1>2 DEF Independent

LEMMA AuthoredStays ==
    ASSUME ArtifactsKnown, Grows, NEW l, Reached(l), NEW a, Authored(l, a)
    PROVE  Authored(l, a)'
<1>1. l \in Labels /\ definition' = definition
  BY DEF Reached, Grows
<1> QED BY <1>1, IndependentStays, AgentStays DEF Authored

LEMMA CallStays ==
    ASSUME ArtifactsKnown, Grows, NEW k, CallKnown(k)
    PROVE  CallKnown(k)'
<1>1. k.at # "over" => Reached(k.label) /\ Reached(k.label)' /\ k.label \in Labels
  BY ReachedStays DEF CallKnown, Reached
<1>2. k.at = "storing" => HasArtifact(k.label)'
  BY ArtifactsStay DEF CallKnown
<1>3. k.at = "answered" => k.result = mutations'[k.label]
  BY <1>1 DEF CallKnown, Grows
<1>4. k.at = "assigning" =>
          /\ definition'.pool[k.label[1]] # {} /\ k.agent \in DOMAIN ModelOf
          /\ Independent(k.label, k.agent)'
  BY <1>1, IndependentStays DEF CallKnown, Grows
<1>5. k.at \in {"working", "saving"} => Authored(k.label, k.agent)'
  BY <1>1, AuthoredStays DEF CallKnown
<1> QED BY <1>1, <1>2, <1>3, <1>4, <1>5 DEF CallKnown

LEMMA EarnedStays ==
    ASSUME Grows, NEW s \in 1..Stages, Earned(s)
    PROVE  Earned(s)'
<1>1. CASE \E r \in 0..MaxStageRepairs : mutations[<<s, r>>] = "passed"
  BY <1>1, LabelParts DEF Earned, Grows, Verdicts
<1>2. CASE job.by = "engine" /\ \E e \in Rows(artifacts) : e.label = <<s, 0>> /\ e.verdict = "passed"
  BY <1>2 DEF Earned, Grows
<1> QED BY <1>1, <1>2 DEF Earned

-----------------------------------------------------------------------------
\* Tables a step leaves alone.
LEMMA TablesStay ==
    ASSUME StagesInv, UNCHANGED <<definition, artifacts, reviewers, mutations>>, job'.by = job.by
    PROVE  Grows /\ ArtifactsKnown' /\ AnswersSaved'
<1>1. Rows(artifacts)' = Rows(artifacts)
  BY DEF Rows
<1>2. Grows
  BY <1>1 DEF Grows
<1>3. ArtifactsKnown'
  BY <1>1, <1>2, ReachedStays, AuthoredStays DEF StagesInv, ArtifactsKnown, ArtifactKnown
<1>4. AnswersSaved'
  BY <1>2, ArtifactsStay DEF StagesInv, AnswersSaved
<1> QED BY <1>2, <1>3, <1>4

LEMMA EvidenceStays ==
    ASSUME StagesInv, UNCHANGED <<artifacts, evidence>>
    PROVE  EvidenceKnown'
  BY DEF StagesInv, EvidenceKnown, VerifierKept, Locked

LEMMA CallsStay ==
    ASSUME StagesInv, Grows, calls' = calls
    PROVE  CallsKnown'
<1>1. Rows(calls)' = Rows(calls)
  BY DEF Rows
<1> QED BY <1>1, CallStays DEF StagesInv, CallsKnown

LEMMA StagesWithin ==
    ASSUME StagesInv
    PROVE  /\ N \in 0..Stages /\ Stages \in Nat
           /\ \A s \in 1..N : s \in 1..Stages
           /\ \A x \in 1..(job.stage - 1) : x \in 1..Stages
<1>1. N \in 0..Stages /\ Stages \in Nat
  BY DefinitionKnown, StageAssumption DEF StagesInv, StageTablesTyped
<1>2. \A s \in 1..N : s \in 1..Stages
  BY <1>1
<1>3. job.stage \in 1..(Stages + 1)
  BY DEF StagesInv, JobTyped
<1>4. \A x \in 1..(job.stage - 1) : x \in 1..Stages
  BY <1>1, <1>3
<1> QED BY <1>1, <1>2, <1>4

LEMMA ProgressStays ==
    ASSUME StagesInv, Grows, UNCHANGED <<job, gate>>
    PROVE  JobProgress'
<1>1. N' = N
  BY DEF Grows, N
<1>2. \A x \in 1..(job.stage - 1) : Earned(x)' /\ HasArtifact(<<x, 0>>)'
  BY StagesWithin, EarnedStays, ArtifactsStay DEF StagesInv, JobProgress
<1>3. job.repair > 0 => \A x \in {job.stage} : HasArtifact(<<x, 0>>)'
  BY ArtifactsStay DEF StagesInv, JobProgress
<1>4. job.at = "finalize" \/ gate => \A s \in 1..N : Earned(s)'
  BY StagesWithin, EarnedStays DEF StagesInv, JobProgress
<1> QED BY <1>1, <1>2, <1>3, <1>4 DEF JobProgress

\* An execution's step of its own.
LEMMA CallMoves ==
    ASSUME StagesInv, NEW c \in 1..Len(calls), NEW v \in CallRows,
           calls' = [calls EXCEPT ![c] = v],
           v.open => calls[c].open /\ v.label = calls[c].label /\ v.at # "over",
           Grows, CallKnown(v)', ArtifactsKnown', AnswersSaved', EvidenceKnown',
           mutations' \in [Labels -> {"none", "reserved"} \cup Verdicts],
           reviewers' \in [Labels -> ReviewerRows], artifacts' \in Seq(ArtifactRows),
           UNCHANGED <<job, gate, evidence>>
    PROVE  StagesInv'
<1>1. calls \in Seq(CallRows) /\ Len(calls) \in Nat
  BY DEF StagesInv, StageTablesTyped
<1>2. /\ calls' \in Seq(CallRows) /\ Len(calls') = Len(calls) /\ calls'[c] = v
      /\ \A j \in 1..Len(calls) : j # c => calls'[j] = calls[j]
      /\ \A e \in Rows(calls)' : e = v \/ e \in Rows(calls)
  <2>1. calls' \in Seq(CallRows) /\ Len(calls') = Len(calls) /\ calls'[c] = v
    BY <1>1
  <2>2. \A j \in 1..Len(calls) : j # c => calls'[j] = calls[j]
    BY <1>1
  <2>3. \A e \in Rows(calls)' : e = v \/ e \in Rows(calls)
    BY <2>1, <2>2 DEF Rows
  <2> QED BY <2>1, <2>2, <2>3
<1>3. StageTablesTyped'
  BY <1>2 DEF StagesInv, StageTablesTyped, Grows
<1>4. CallsKnown'
  BY <1>2, CallStays DEF StagesInv, CallsKnown
<1>5. calls # <<>>
  BY <1>1
<1>6. job.by # "engine" /\ job.at # "asked" /\ job.at # "engine"
  BY <1>5 DEF StagesInv, JobTyped
<1>7. JobTyped'
  BY <1>6 DEF StagesInv, JobTyped, Grows, N
<1>8. JobProgress'
  BY ProgressStays
<1>9. OpenCalls'
  <2>1. \A j \in 1..Len(calls) : calls'[j].open =>
           calls[j].open /\ calls'[j].label = calls[j].label
           /\ (calls[j].at # "over" => calls'[j].at # "over")
    <3>1. calls'[c].open => calls[c].open /\ calls'[c].label = calls[c].label
                            /\ calls'[c].at # "over"
      BY <1>2
    <3> QED BY <1>2, <3>1
  <2>2. \A j \in 1..Len(calls) : calls[j].open =>
           /\ job.at = "await" /\ calls[j].label = <<job.stage, job.repair>> /\ calls[j].at # "over"
           /\ \A d \in 1..Len(calls) : calls[d].open => j = d
    BY DEF StagesInv, OpenCalls
  <2>3. Len(calls') = Len(calls)
    BY <1>2
  <2> QED BY <2>1, <2>2, <2>3 DEF OpenCalls
<1> QED BY <1>3, <1>4, <1>7, <1>8, <1>9 DEF StagesInv

\* ... that writes nothing else.
LEMMA CallAlone ==
    ASSUME StagesInv, NEW c \in 1..Len(calls), NEW v \in CallRows,
           calls' = [calls EXCEPT ![c] = v],
           v.open => calls[c].open /\ v.label = calls[c].label /\ v.at # "over",
           CallKnown(v),
           UNCHANGED <<definition, job, gate, mutations, artifacts, reviewers, evidence>>
    PROVE  StagesInv'
<1>1. Grows /\ ArtifactsKnown' /\ AnswersSaved'
  BY TablesStay
<1>2. EvidenceKnown'
  BY EvidenceStays
<1>3. CallKnown(v)'
  BY <1>1, CallStays DEF StagesInv
<1>4. /\ mutations' \in [Labels -> {"none", "reserved"} \cup Verdicts]
      /\ reviewers' \in [Labels -> ReviewerRows] /\ artifacts' \in Seq(ArtifactRows)
  BY DEF StagesInv, StageTablesTyped
<1> QED BY <1>1, <1>2, <1>3, <1>4, CallMoves

\* A row of calls, spelled out.
LEMMA CallRow ==
    ASSUME StagesInv, NEW c \in 1..Len(calls)
    PROVE  /\ calls[c] \in CallRows /\ CallKnown(calls[c])
           /\ calls[c].open => calls[c].at # "over"
<1>1. calls \in Seq(CallRows)
  BY DEF StagesInv, StageTablesTyped
<1>2. calls[c] \in CallRows /\ calls[c] \in Rows(calls)
  BY <1>1, TypedRows
<1> QED BY <1>2 DEF StagesInv, CallsKnown, OpenCalls

-----------------------------------------------------------------------------
\* The executions of the activity.
LEMMA MutationIsLooked ==
    ASSUME StagesInv, NEW c \in 1..Len(calls), LookMutation(c)
    PROVE  StagesInv'
<1> DEFINE k == calls[c] found == mutations[Of(c)]
           to == IF found = "none" THEN "inserting" ELSE "recovering"
           v == IF found \in Verdicts THEN [k EXCEPT !.at = "answered", !.result = found]
                ELSE [k EXCEPT !.at = to]
<1>1. k \in CallRows /\ CallKnown(k) /\ (k.open => k.at # "over") /\ k.at = "called"
  BY CallRow DEF LookMutation
<1>2. calls' = [calls EXCEPT ![c] = v]
  BY DEF LookMutation
<1>3. found \in Verdicts => found \in {NoAgent} \cup Verdicts
  OBVIOUS
<1>4. /\ v \in CallRows /\ v.label = k.label /\ v.open = k.open
      /\ v.at \in {"answered", "inserting", "recovering"}
      /\ v.at = "answered" => found \in Verdicts /\ v.result = found
  <2>1. CASE found \in Verdicts
    BY <1>1, <2>1 DEF CallRows, CallPoints, Verdicts
  <2>2. CASE found \notin Verdicts
    BY <1>1, <2>2 DEF CallRows, CallPoints, Verdicts
  <2> QED BY <2>1, <2>2
<1>5. CallKnown(v)
  BY <1>1, <1>4 DEF CallKnown, Of
<1> HIDE DEF v
<1> QED BY <1>2, <1>4, <1>5, CallAlone DEF LookMutation, Reviewed

LEMMA SavedKnown ==
    ASSUME StagesInv, NEW l
    PROVE  /\ Saved(l) # {} => HasArtifact(l)
           /\ \A i \in Saved(l) : artifacts[i] \in Rows(artifacts) /\ artifacts[i].label = l
           /\ HasArtifact(l) => Saved(l) # {}
           /\ Saved(l) \in SUBSET (1..Len(artifacts))
  BY DEF Saved, HasArtifact, Rows

LEMMA MutationIsInserted ==
    ASSUME StagesInv, NEW c \in 1..Len(calls), InsertMutation(c)
    PROVE  StagesInv'
<1> DEFINE k == calls[c]
           to == IF mutations[Of(c)] = "none" THEN "recovering" ELSE "failed"
<1> PICK v : v = [k EXCEPT !.at = to]
  OBVIOUS
<1>1. k \in CallRows /\ CallKnown(k) /\ (k.open => k.at # "over") /\ k.at = "inserting"
  BY CallRow DEF InsertMutation
<1>2. calls' = [calls EXCEPT ![c] = v]
  BY DEF InsertMutation, MovesCall
<1>3. v \in CallRows /\ v.label = k.label /\ v.open = k.open /\ v.at = to
  BY <1>1 DEF CallRows, CallPoints, Verdicts
<1>4. CallKnown(v)
  BY <1>1, <1>3 DEF CallKnown
<1>5. /\ mutations' \in [Labels -> {"none", "reserved"} \cup Verdicts]
      /\ \A l \in Labels : mutations[l] \in Verdicts \/ mutations'[l] \in Verdicts =>
            mutations'[l] = mutations[l]
  BY DEF InsertMutation, Of, StagesInv, StageTablesTyped, Verdicts
<1>6. UNCHANGED <<definition, job, gate, artifacts, reviewers, evidence>>
  BY DEF InsertMutation, Reviewed
<1>7. Rows(artifacts)' = Rows(artifacts)
  BY <1>6 DEF Rows
<1>8. Grows
  BY <1>5, <1>6, <1>7 DEF Grows
<1>9. ArtifactsKnown'
  BY <1>7, <1>8, ReachedStays, AuthoredStays DEF StagesInv, ArtifactsKnown, ArtifactKnown
<1>10. AnswersSaved'
  BY <1>5, <1>8, ArtifactsStay DEF StagesInv, AnswersSaved
<1>11. EvidenceKnown' /\ CallKnown(v)'
  BY <1>4, <1>6, <1>8, EvidenceStays, CallStays DEF StagesInv
<1>12. reviewers' \in [Labels -> ReviewerRows] /\ artifacts' \in Seq(ArtifactRows)
  BY <1>6 DEF StagesInv, StageTablesTyped
<1>13. v.open => calls[c].open /\ v.label = calls[c].label /\ v.at # "over"
  BY <1>3
<1>14. v \in CallRows /\ mutations' \in [Labels -> {"none", "reserved"} \cup Verdicts]
       /\ UNCHANGED <<job, gate, evidence>> /\ CallKnown(v)' /\ EvidenceKnown'
  BY <1>3, <1>5, <1>6, <1>11
<1> QED BY <1>2, <1>8, <1>9, <1>10, <1>12, <1>13, <1>14, CallMoves

LEMMA ArtifactIsRecovered ==
    ASSUME StagesInv, NEW c \in 1..Len(calls), Recover(c)
    PROVE  StagesInv'
<1> DEFINE k == calls[c]
           v == IF Saved(Of(c)) = {} THEN [k EXCEPT !.at = "choosing"]
                ELSE [k EXCEPT !.at = "storing", !.result = "passed"]
<1>1. k \in CallRows /\ CallKnown(k) /\ (k.open => k.at # "over") /\ k.at = "recovering"
  BY CallRow DEF Recover
<1>2. calls' = [calls EXCEPT ![c] = v]
  BY DEF Recover
<1>3. /\ v \in CallRows /\ v.label = k.label /\ v.open = k.open /\ v.at \in {"choosing", "storing"}
      /\ v.at = "storing" => v.result = "passed" /\ Saved(k.label) # {}
  <2>1. CASE Saved(Of(c)) = {}
    BY <1>1, <2>1 DEF CallRows, CallPoints, Of, Verdicts
  <2>2. CASE Saved(Of(c)) # {}
    BY <1>1, <2>2 DEF CallRows, CallPoints, Of, Verdicts
  <2> QED BY <2>1, <2>2
<1>4. CallKnown(v)
  BY <1>1, <1>3, SavedKnown DEF CallKnown, Verdicts
<1> HIDE DEF v
<1> QED BY <1>1, <1>2, <1>3, <1>4, CallAlone DEF Recover, Reviewed

LEMMA ProviderIsCalled ==
    ASSUME StagesInv, NEW c \in 1..Len(calls), CallProvider(c) \/ CancelCall(c)
    PROVE  StagesInv'
<1> DEFINE k == calls[c]
<1>1. k \in CallRows /\ CallKnown(k) /\ (k.open => k.at # "over") /\ k.at = "working"
  BY CallRow DEF CallProvider, CancelCall
<1>2. UNCHANGED <<definition, job, gate, mutations, artifacts, reviewers, evidence>>
  BY DEF CallProvider, CancelCall, Reviewed
<1>3. ASSUME NEW v \in CallRows, calls' = [calls EXCEPT ![c] = v], v.label = k.label,
             v.open = k.open, v.agent = k.agent,
             v.at \in {"failed", "refused"} \/ (v.at = "saving" /\ v.result \in Verdicts)
      PROVE  StagesInv'
  <2>1. CallKnown(v)
    BY <1>1, <1>3 DEF CallKnown
  <2> QED BY <1>1, <1>2, <1>3, <2>1, CallAlone
<1>4. ASSUME NEW r \in Verdicts, calls' = [calls EXCEPT ![c].at = "saving", ![c].result = r]
      PROVE  StagesInv'
  <2> PICK v : v = [k EXCEPT !.at = "saving", !.result = r]
    OBVIOUS
  <2>1. calls \in Seq(CallRows)
    BY DEF StagesInv, StageTablesTyped
  <2>2. calls' = [calls EXCEPT ![c] = v]
    BY <1>4, <2>1
  <2>3. /\ v \in CallRows /\ v.label = k.label /\ v.open = k.open /\ v.agent = k.agent
        /\ v.at = "saving" /\ v.result = r
    BY <1>1 DEF CallRows, CallPoints, Verdicts
  <2> QED BY <1>3, <2>2, <2>3
<1>5. ASSUME NEW to \in {"failed", "refused"}, MovesCall(c, to) PROVE StagesInv'
  <2> PICK v : v = [k EXCEPT !.at = to]
    OBVIOUS
  <2>1. calls' = [calls EXCEPT ![c] = v]
    BY <1>5 DEF MovesCall
  <2>2. /\ v \in CallRows /\ v.label = k.label /\ v.open = k.open /\ v.agent = k.agent
        /\ v.at = to
    BY <1>1 DEF CallRows, CallPoints, Verdicts
  <2>3. v.at \in {"failed", "refused"} \/ (v.at = "saving" /\ v.result \in Verdicts)
    BY <2>2
  <2>4. v \in CallRows /\ v.label = k.label /\ v.open = k.open /\ v.agent = k.agent
    BY <2>2
  <2> HIDE DEF k
  <2> QED BY ONLY <1>3, <2>1, <2>3, <2>4
<1> QED BY <1>4, <1>5 DEF CallProvider, CancelCall

LEMMA OverRow == OverCall \in CallRows /\ OverCall.at = "over" /\ OverCall.open = FALSE
  BY DEF OverCall, CallRows, CallPoints

LEMMA OverKnown == CallKnown(OverCall)
  BY OverRow DEF CallKnown

LEMMA CallIsKilled ==
    ASSUME StagesInv, NEW c \in 1..Len(calls), KillCall(c)
    PROVE  StagesInv'
<1> DEFINE k == calls[c]
<1> PICK v : v = IF k.open THEN [k EXCEPT !.at = "dead"] ELSE OverCall
  OBVIOUS
<1>1. k \in CallRows /\ CallKnown(k) /\ k.at # "over"
  BY CallRow DEF KillCall
<1>2. calls' = [calls EXCEPT ![c] = v]
  BY DEF KillCall
<1>3. v \in CallRows /\ CallKnown(v) /\ (v.open => k.open /\ v.label = k.label /\ v.at # "over")
  <2>1. CASE k.open
    <3>1. v \in CallRows /\ v.label = k.label /\ v.at = "dead"
      BY <1>1, <2>1 DEF CallRows, CallPoints
    <3> QED BY <1>1, <2>1, <3>1 DEF CallKnown
  <2>2. CASE ~k.open
    BY <2>2, OverRow, OverKnown
  <2> QED BY <2>1, <2>2
<1>4. UNCHANGED <<definition, job, gate, mutations, artifacts, reviewers, evidence>>
  BY DEF KillCall, Reviewed
<1> QED BY <1>2, <1>3, <1>4, CallAlone

LEMMA AnswerIsStored ==
    ASSUME StagesInv, NEW c \in 1..Len(calls), StoreAnswer(c)
    PROVE  StagesInv'
<1> DEFINE k == calls[c] l == k.label
<1>1. k \in CallRows /\ CallKnown(k) /\ (k.open => k.at # "over") /\ k.at = "storing"
  BY CallRow DEF StoreAnswer
<1>2. k.result \in Verdicts /\ HasArtifact(l) /\ l \in Labels /\ Reached(l)
  BY <1>1 DEF CallKnown, Reached
<1>3. PICK v : /\ calls' = [calls EXCEPT ![c] = v]
               /\ \/ v = [k EXCEPT !.at = "answered"] /\ mutations'[l] = k.result
                  \/ v = [k EXCEPT !.at = "failed"]
  <2>1. mutations \in [Labels -> {"none", "reserved"} \cup Verdicts]
    BY DEF StagesInv, StageTablesTyped
  <2> QED BY <1>2, <2>1 DEF StoreAnswer, MovesCall, Of
<1>4. /\ v \in CallRows /\ v.label = l /\ v.open = k.open /\ v.result = k.result
      /\ v.at \in {"answered", "failed"} /\ (v.at = "answered" => mutations'[l] = k.result)
  BY <1>1, <1>3 DEF CallRows, CallPoints
<1>5. UNCHANGED <<definition, job, gate, artifacts, reviewers, evidence>>
  BY DEF StoreAnswer, Reviewed
<1>6. /\ mutations' \in [Labels -> {"none", "reserved"} \cup Verdicts]
      /\ \A m \in Labels : mutations'[m] = mutations[m]
                           \/ (m = l /\ mutations[m] = "reserved")
  BY <1>2 DEF StoreAnswer, Of, StagesInv, StageTablesTyped
<1>7. Rows(artifacts)' = Rows(artifacts)
  BY <1>5 DEF Rows
<1>8. Grows
  BY <1>5, <1>6, <1>7 DEF Grows, Verdicts
<1>9. ArtifactsKnown'
  BY <1>7, <1>8, ReachedStays, AuthoredStays DEF StagesInv, ArtifactsKnown, ArtifactKnown
<1>10. AnswersSaved'
  BY <1>2, <1>6, <1>8, ArtifactsStay DEF StagesInv, AnswersSaved
<1>12. CallKnown(v)'
  <2>1. PICK m : m = l
    OBVIOUS
  <2>2. Reached(m)'
    BY <1>2, <1>8, <2>1, ReachedStays
  <2> HIDE DEF l
  <2>3. Reached(v.label)'
    BY <1>4, <2>1, <2>2
  <2> QED BY <1>2, <1>4, <2>3 DEF CallKnown
<1>13. EvidenceKnown'
  BY <1>5, EvidenceStays
<1>14. reviewers' \in [Labels -> ReviewerRows] /\ artifacts' \in Seq(ArtifactRows)
  BY <1>5 DEF StagesInv, StageTablesTyped
<1>15. v.open => calls[c].open /\ v.label = calls[c].label /\ v.at # "over"
  BY <1>4
<1>16. v \in CallRows /\ UNCHANGED <<job, gate, evidence>>
       /\ mutations' \in [Labels -> {"none", "reserved"} \cup Verdicts]
  BY <1>4, <1>5, <1>6
<1> QED BY <1>3, <1>8, <1>9, <1>10, <1>12, <1>13, <1>14, <1>15, <1>16, CallMoves

LEMMA AuthorKnown ==
    ASSUME StagesInv, NEW l, Reached(l), NEW a, Authored(l, a)
    PROVE  a \in DOMAIN ModelOf
<1>1. l \in Labels /\ l[1] \in 1..N /\ definition \in Definitions
      /\ reviewers \in [Labels -> ReviewerRows]
  BY DEF Reached, StagesInv, StageTablesTyped
<1>2. definition.agent[l[1]] \in DOMAIN ModelOf
  BY <1>1, DefinitionKnown
<1>3. reviewers[l].agent \in {NoAgent} \cup DOMAIN ModelOf
  BY <1>1 DEF ReviewerRows
<1> QED BY <1>2, <1>3 DEF Authored, AgentOf, Unassigned

LEMMA ArtifactIsAdded ==
    ASSUME StagesInv, NEW e \in ArtifactRows, artifacts' = Append(artifacts, e),
           evidence' = evidence
    PROVE  /\ artifacts' \in Seq(ArtifactRows) /\ EvidenceKnown'
           /\ \A g \in Rows(artifacts)' : g = e \/ g \in Rows(artifacts)
           /\ \A g \in Rows(artifacts) : g \in Rows(artifacts)'
           /\ e \in Rows(artifacts)'
<1>1. artifacts \in Seq(ArtifactRows) /\ Len(artifacts) \in Nat
  BY DEF StagesInv, StageTablesTyped
<1>2. artifacts' \in Seq(ArtifactRows) /\ Len(artifacts') = Len(artifacts) + 1
  BY <1>1
<1>3. /\ artifacts'[Len(artifacts) + 1] = e
      /\ \A j \in 1..Len(artifacts) : j \in 1..Len(artifacts') /\ artifacts'[j] = artifacts[j]
  BY <1>1
<1>4. \A j \in 1..Len(artifacts') : j \in 1..Len(artifacts) \/ j = Len(artifacts) + 1
  BY <1>1, <1>2
<1>5. Len(artifacts) + 1 \in 1..Len(artifacts')
  BY <1>1, <1>2
<1>6. /\ \A g \in Rows(artifacts)' : g = e \/ g \in Rows(artifacts)
      /\ \A g \in Rows(artifacts) : g \in Rows(artifacts)'
      /\ e \in Rows(artifacts)'
  BY <1>3, <1>4, <1>5 DEF Rows
<1>7. Len(artifacts) + 1 \notin 1..Len(artifacts)
  BY <1>1
<1>8. EvidenceKnown'
  BY <1>3, <1>4, <1>7 DEF StagesInv, EvidenceKnown, VerifierKept, Locked
<1> QED BY <1>2, <1>6, <1>8

LEMMA ArtifactIsSaved ==
    ASSUME StagesInv, NEW c \in 1..Len(calls), SaveArtifact(c)
    PROVE  StagesInv'
<1> PICK k : k = calls[c]
  OBVIOUS
<1> DEFINE l == k.label
<1>1. k \in CallRows /\ CallKnown(k) /\ (k.open => k.at # "over") /\ k.at = "saving"
  BY CallRow DEF SaveArtifact
<1>2. k.result \in Verdicts /\ l \in Labels /\ Reached(l) /\ Authored(l, k.agent)
  BY <1>1 DEF CallKnown, Reached
<1> PICK v : v = [k EXCEPT !.at = "storing"]
  OBVIOUS
<1> PICK e : e = Artifact(l, k.agent, k.result)
  OBVIOUS
<1>3. /\ v \in CallRows /\ v.label = l /\ v.open = k.open /\ v.result = k.result
      /\ v.at = "storing"
  BY <1>1 DEF CallRows, CallPoints
<1>4. k.agent \in DOMAIN ModelOf
  BY <1>2, AuthorKnown
<1>5. e \in ArtifactRows /\ e.label = l /\ e.agent = k.agent
  BY <1>2, <1>4 DEF Artifact, ArtifactRows
<1>6. calls' = [calls EXCEPT ![c] = v] /\ artifacts' = Append(artifacts, e)
  BY DEF SaveArtifact, MovesCall, Of
<1>7. UNCHANGED <<definition, job, gate, mutations, reviewers, evidence>>
  BY DEF SaveArtifact, Reviewed
<1>8. /\ artifacts' \in Seq(ArtifactRows) /\ EvidenceKnown'
      /\ \A g \in Rows(artifacts)' : g = e \/ g \in Rows(artifacts)
      /\ \A g \in Rows(artifacts) : g \in Rows(artifacts)'
      /\ e \in Rows(artifacts)'
  BY <1>5, <1>6, <1>7, ArtifactIsAdded
<1>9. Grows
  BY <1>7, <1>8 DEF Grows
<1>10. \A g \in Rows(artifacts)' : Reached(g.label)' /\ Authored(g.label, g.agent)'
  <2>1. Reached(l)' /\ Authored(l, k.agent)'
    BY <1>2, <1>9, ReachedStays, AuthoredStays DEF StagesInv
  <2>2. \A g \in Rows(artifacts) : Reached(g.label)' /\ Authored(g.label, g.agent)'
    BY <1>9, ReachedStays, AuthoredStays DEF StagesInv, ArtifactsKnown, ArtifactKnown
  <2> HIDE DEF l
  <2> QED BY <1>5, <1>8, <2>1, <2>2
<1>11. ArtifactsKnown'
  BY <1>10 DEF ArtifactsKnown, ArtifactKnown
<1>12. AnswersSaved'
  BY <1>7, <1>9, ArtifactsStay DEF StagesInv, AnswersSaved
<1>13. CallKnown(v)'
  <2>1. HasArtifact(v.label)'
    BY <1>3, <1>5, <1>8 DEF HasArtifact
  <2>2. Reached(v.label)'
    BY <1>2, <1>3, <1>9, ReachedStays
  <2> QED BY <1>2, <1>3, <2>1, <2>2 DEF CallKnown
<1>14. /\ mutations' \in [Labels -> {"none", "reserved"} \cup Verdicts]
       /\ reviewers' \in [Labels -> ReviewerRows]
  BY <1>7 DEF StagesInv, StageTablesTyped
<1>15. v.open => calls[c].open /\ v.label = calls[c].label /\ v.at # "over"
  BY <1>3
<1>16. v \in CallRows /\ UNCHANGED <<job, gate, evidence>>
  BY <1>3, <1>7
<1> HIDE DEF l
<1> QED BY <1>6, <1>8, <1>9, <1>11, <1>12, <1>13, <1>14, <1>15, <1>16, CallMoves

-----------------------------------------------------------------------------
\* The reviewers.

\* A reviewer that is eligible is of another model than whoever wrote what is reviewed: the
\* newest artifact of each stage that is reviewed is among the subjects.
LEMMA EligibleIndependent ==
    ASSUME StagesInv, NEW l, Reached(l), definition.pool[l[1]] # {},
           NEW a \in Eligible(l[1], Subjects(l[1]))
    PROVE  Independent(l, a) /\ a \in DOMAIN ModelOf /\ a \in definition.pool[l[1]]
<1>1. Len(artifacts) \in Nat
  BY DEF StagesInv, StageTablesTyped
<1>2. ASSUME NEW x \in definition.reviews[l[1]]
      PROVE  ModelOf[AgentOf(<<x, 0>>)] # ModelOf[a]
  <2>1. HasArtifact(<<x, 0>>)
    BY ReviewedWritten DEF StagesInv
  <2>2. Saved(<<x, 0>>) # {} /\ Saved(<<x, 0>>) \in SUBSET (1..Len(artifacts))
    BY <2>1, SavedKnown
  <2>3. PICK i \in Saved(<<x, 0>>) : \A k \in Saved(<<x, 0>>) : k <= i
    BY <1>1, <2>2, GreatestOf
  <2>4. i \in Subjects(l[1])
    BY <2>2, <2>3 DEF Subjects
  <2>5. artifacts[i].agent = AgentOf(<<x, 0>>)
    BY SavedKnown DEF StagesInv, ArtifactsKnown, ArtifactKnown, Authored
  <2>6. artifacts[i].agent \in Producers(Subjects(l[1]))
    BY <2>4 DEF Producers
  <2> QED BY <2>5, <2>6 DEF Eligible
<1>3. a \in definition.pool[l[1]]
  BY DEF Eligible
<1>4. a \in DOMAIN ModelOf
  BY <1>3, DefinitionKnown DEF Reached, StagesInv, StageTablesTyped
<1> QED BY <1>2, <1>3, <1>4 DEF Independent

LEMMA AgentIsChosen ==
    ASSUME StagesInv, NEW c \in 1..Len(calls), ChooseAgent(c)
    PROVE  StagesInv'
<1> PICK k : k = calls[c]
  OBVIOUS
<1> DEFINE l == k.label
           able == Eligible(l[1], Subjects(l[1]))
<1>1. k \in CallRows /\ CallKnown(k) /\ (k.open => k.at # "over") /\ k.at = "choosing"
  BY CallRow DEF ChooseAgent
<1>2. l \in Labels /\ Reached(l)
  BY <1>1 DEF CallKnown, Reached
<1>3. UNCHANGED <<definition, job, gate, mutations, artifacts, reviewers, evidence>>
  BY DEF ChooseAgent, Reviewed
<1>4. calls \in Seq(CallRows)
  BY DEF StagesInv, StageTablesTyped
<1>5. ASSUME NEW v \in CallRows, calls' = [calls EXCEPT ![c] = v], v.label = l, v.open = k.open,
             \/ v.at = "failed"
             \/ v.at = "working" /\ Authored(l, v.agent)
             \/ /\ v.at = "assigning" /\ definition.pool[l[1]] # {}
                /\ v.agent \in DOMAIN ModelOf /\ Independent(l, v.agent)
      PROVE  StagesInv'
  <2>1. CallKnown(v)
    BY <1>2, <1>5 DEF CallKnown
  <2>2. v.open => calls[c].open /\ v.label = calls[c].label /\ v.at # "over"
    BY <1>5
  <2> QED BY <1>3, <1>5, <2>1, <2>2, CallAlone
<1>6. CASE /\ definition.pool[l[1]] = {}
           /\ calls' = [calls EXCEPT ![c].at = "working", ![c].agent = definition.agent[l[1]]]
  <2> PICK v : v = [k EXCEPT !.at = "working", !.agent = definition.agent[l[1]]]
    OBVIOUS
  <2>1. calls' = [calls EXCEPT ![c] = v]
    BY <1>4, <1>6
  <2>2. Authored(l, definition.agent[l[1]])
    BY <1>6 DEF Authored, AgentOf
  <2>3. definition.agent[l[1]] \in DOMAIN ModelOf
    BY <1>2, <2>2, AuthorKnown
  <2>4. /\ v \in CallRows /\ v.label = l /\ v.open = k.open /\ v.at = "working"
        /\ v.agent = definition.agent[l[1]]
    BY <1>1, <2>3 DEF CallRows, CallPoints
  <2> QED BY <1>5, <2>1, <2>2, <2>4
<1>7. ASSUME MovesCall(c, "failed") PROVE StagesInv'
  <2> PICK v : v = [k EXCEPT !.at = "failed"]
    OBVIOUS
  <2>1. calls' = [calls EXCEPT ![c] = v]
    BY <1>7 DEF MovesCall
  <2>2. v \in CallRows /\ v.label = l /\ v.open = k.open /\ v.at = "failed"
    BY <1>1 DEF CallRows, CallPoints
  <2> QED BY <1>5, <2>1, <2>2
<1>8. ASSUME definition.pool[l[1]] # {}, ~Unassigned(l), reviewers[l].agent \in able,
             calls' = [calls EXCEPT ![c] = [@ EXCEPT !.at = "working", !.agent = reviewers[l].agent]]
      PROVE  StagesInv'
  <2> PICK v : v = [k EXCEPT !.at = "working", !.agent = reviewers[l].agent]
    OBVIOUS
  <2>1. calls' = [calls EXCEPT ![c] = v]
    BY <1>8
  <2>2. Independent(l, reviewers[l].agent) /\ reviewers[l].agent \in DOMAIN ModelOf
    BY <1>2, <1>8, EligibleIndependent
  <2>3. Authored(l, reviewers[l].agent)
    BY <1>8, <2>2 DEF Authored, AgentOf
  <2>4. /\ v \in CallRows /\ v.label = l /\ v.open = k.open /\ v.at = "working"
        /\ v.agent = reviewers[l].agent
    BY <1>1, <2>2 DEF CallRows, CallPoints
  <2> QED BY <1>5, <2>1, <2>3, <2>4
<1>9. ASSUME NEW a \in able, definition.pool[l[1]] # {},
             calls' = [calls EXCEPT ![c].at = "assigning", ![c].agent = a,
                                    ![c].subjects = Subjects(l[1])]
      PROVE  StagesInv'
  <2> PICK v : v = [k EXCEPT !.at = "assigning", !.agent = a, !.subjects = Subjects(l[1])]
    OBVIOUS
  <2>1. calls' = [calls EXCEPT ![c] = v]
    BY <1>4, <1>9
  <2>2. Independent(l, a) /\ a \in DOMAIN ModelOf
    BY <1>2, <1>9, EligibleIndependent
  <2>3. Subjects(l[1]) \in SUBSET Nat
    <3>1. \A n \in Nat : \A i \in 1..n : i \in Nat
      OBVIOUS
    <3>2. Len(artifacts) \in Nat
      BY DEF StagesInv, StageTablesTyped
    <3> QED BY <3>1, <3>2 DEF Subjects
  <2>4. v \in CallRows /\ v.label = l /\ v.open = k.open /\ v.at = "assigning" /\ v.agent = a
    BY <1>1, <2>2, <2>3 DEF CallRows, CallPoints
  <2> QED BY <1>5, <1>9, <2>1, <2>2, <2>4
<1>10. Of(c) = l
  BY DEF Of
<1>11. CASE definition.pool[l[1]] # {} /\ ~Unassigned(l)
  <2>1. \/ /\ reviewers[l].agent \in able
           /\ calls' = [calls EXCEPT ![c] = [@ EXCEPT !.at = "working",
                                                       !.agent = reviewers[l].agent]]
        \/ calls' = [calls EXCEPT ![c] = [@ EXCEPT !.at = "failed"]]
    BY <1>10, <1>11 DEF ChooseAgent
  <2>2. ASSUME calls' = [calls EXCEPT ![c] = [@ EXCEPT !.at = "failed"]]
        PROVE  MovesCall(c, "failed")
    BY <2>2 DEF MovesCall
  <2> QED BY <1>7, <1>8, <1>11, <2>1, <2>2
<1>12. CASE definition.pool[l[1]] # {} /\ Unassigned(l)
  BY <1>7, <1>9, <1>10, <1>12 DEF ChooseAgent
<1> QED BY <1>6, <1>10, <1>11, <1>12 DEF ChooseAgent

LEMMA ReviewerIsAssigned ==
    ASSUME StagesInv, NEW c \in 1..Len(calls), Assign(c)
    PROVE  StagesInv'
<1> PICK k : k = calls[c]
  OBVIOUS
<1> DEFINE l == k.label
           to == IF Unassigned(l) THEN "working" ELSE "failed"
<1> PICK v : v = [k EXCEPT !.at = to]
  OBVIOUS
<1>1. k \in CallRows /\ CallKnown(k) /\ (k.open => k.at # "over") /\ k.at = "assigning"
  BY CallRow DEF Assign
<1>2. /\ l \in Labels /\ Reached(l) /\ definition.pool[l[1]] # {} /\ k.agent \in DOMAIN ModelOf
      /\ Independent(l, k.agent)
  BY <1>1 DEF CallKnown, Reached
<1>3. calls' = [calls EXCEPT ![c] = v]
  BY DEF Assign, MovesCall, Of
<1>4. v \in CallRows /\ v.label = l /\ v.open = k.open /\ v.at = to /\ v.agent = k.agent
  BY <1>1 DEF CallRows, CallPoints
<1>5. UNCHANGED <<definition, job, gate, mutations, artifacts, evidence>>
  BY DEF Assign, Reviewed
<1>6. reviewers \in [Labels -> ReviewerRows] /\ k.subjects \in SUBSET Nat
  BY <1>1 DEF StagesInv, StageTablesTyped, CallRows
<1>7. /\ reviewers' \in [Labels -> ReviewerRows]
      /\ \A m \in Labels : ~Unassigned(m) => reviewers'[m] = reviewers[m]
      /\ Unassigned(l) => reviewers'[l].agent = k.agent
  <2>1. CASE Unassigned(l)
    <3>1. reviewers' = [reviewers EXCEPT ![l] = [agent |-> k.agent, subjects |-> k.subjects]]
      BY <2>1 DEF Assign, Of
    <3>2. [agent |-> k.agent, subjects |-> k.subjects] \in ReviewerRows
      BY <1>2, <1>6 DEF ReviewerRows
    <3> QED BY <1>2, <1>6, <2>1, <3>1, <3>2
  <2>2. CASE ~Unassigned(l)
    BY <1>6, <2>2 DEF Assign, Of
  <2> QED BY <2>1, <2>2
<1>8. Rows(artifacts)' = Rows(artifacts)
  BY <1>5 DEF Rows
<1>9. Grows
  BY <1>5, <1>7, <1>8 DEF Grows
<1>10. ArtifactsKnown'
  BY <1>8, <1>9, ReachedStays, AuthoredStays DEF StagesInv, ArtifactsKnown, ArtifactKnown
<1>11. AnswersSaved'
  BY <1>5, <1>9, ArtifactsStay DEF StagesInv, AnswersSaved
<1>12. CallKnown(v)'
  <2>1. Reached(v.label)'
    BY <1>2, <1>4, <1>9, ReachedStays
  <2>2. v.at = "working" => Authored(v.label, v.agent)'
    <3>1. Independent(v.label, v.agent)'
      BY <1>2, <1>4, <1>9, IndependentStays DEF StagesInv
    <3>2. Unassigned(l) => reviewers'[v.label].agent = v.agent /\ v.agent # NoAgent
      BY <1>2, <1>4, <1>7, StageAssumption
    <3> QED BY <1>2, <1>4, <1>5, <3>1, <3>2 DEF Authored, AgentOf, Unassigned
  <2> QED BY <1>4, <2>1, <2>2 DEF CallKnown
<1>13. EvidenceKnown'
  BY <1>5, EvidenceStays
<1>14. /\ mutations' \in [Labels -> {"none", "reserved"} \cup Verdicts]
       /\ artifacts' \in Seq(ArtifactRows)
  BY <1>5 DEF StagesInv, StageTablesTyped
<1>15. v.open => calls[c].open /\ v.label = calls[c].label /\ v.at # "over"
  BY <1>4
<1>16. v \in CallRows /\ UNCHANGED <<job, gate, evidence>> /\ reviewers' \in [Labels -> ReviewerRows]
  BY <1>4, <1>5, <1>7
<1> QED BY <1>3, <1>9, <1>10, <1>11, <1>12, <1>13, <1>14, <1>15, <1>16, CallMoves

-----------------------------------------------------------------------------
\* The workflow.
LEMMA JobMoves ==
    ASSUME StagesInv, UNCHANGED <<definition, calls, mutations, artifacts, reviewers, evidence>>,
           job'.by = job.by, JobTyped', JobProgress', OpenCalls'
    PROVE  StagesInv'
<1>1. Grows /\ ArtifactsKnown' /\ AnswersSaved'
  BY TablesStay
<1>2. CallsKnown' /\ EvidenceKnown'
  BY <1>1, CallsStay, EvidenceStays
<1>3. StageTablesTyped'
  BY DEF StagesInv, StageTablesTyped
<1> QED BY <1>1, <1>2, <1>3 DEF StagesInv

LEMMA KnownStays ==
    ASSUME StagesInv, Grows
    PROVE  /\ N' = N /\ definition' = definition
           /\ \A x \in 1..(job.stage - 1) : Earned(x)' /\ HasArtifact(<<x, 0>>)'
           /\ job.repair > 0 => \A x \in {job.stage} : HasArtifact(<<x, 0>>)'
           /\ job.at = "finalize" \/ gate => \A s \in 1..N : Earned(s)'
<1>1. N' = N /\ definition' = definition
  BY DEF Grows, N
<1>2. \A x \in 1..(job.stage - 1) : Earned(x)' /\ HasArtifact(<<x, 0>>)'
  BY StagesWithin, EarnedStays, ArtifactsStay DEF StagesInv, JobProgress
<1>3. job.repair > 0 => \A x \in {job.stage} : HasArtifact(<<x, 0>>)'
  BY ArtifactsStay DEF StagesInv, JobProgress
<1>4. job.at = "finalize" \/ gate => \A s \in 1..N : Earned(s)'
  BY StagesWithin, EarnedStays DEF StagesInv, JobProgress
<1> QED BY <1>1, <1>2, <1>3, <1>4

\* ... goes somewhere, with its stage as it was.
LEMMA AtMoves ==
    ASSUME StagesInv, NEW to, job' = [job EXCEPT !.at = to],
           UNCHANGED <<definition, calls, mutations, artifacts, reviewers, evidence>>,
           job.at # "await", to \notin {"asked", "await", "finalize"},
           to = "load" => job.at = "asked",
           to = "engine" => job.by = "engine" /\ job.at = "asked",
           to \in {"stage", "engine"} => ValidWorkflow(definition) /\ job.stage \in 1..N,
           job.by = "engine" => to \in {"engine", "failing", "close", "over"},
           gate' = gate \/ job.at = "finalize"
    PROVE  StagesInv'
<1>1. /\ DOMAIN job' = DOMAIN job /\ job'.at = to /\ job'.by = job.by
      /\ job'.stage = job.stage /\ job'.repair = job.repair
  BY DEF StagesInv, JobTyped
<1>2. Grows
  BY <1>1, TablesStay
<1>3. JobTyped'
  <2>1. to = "engine" => \A l \in Labels : l[1] >= job.stage => Unassigned(l)' /\ ~HasArtifact(l)'
    BY DEF StagesInv, JobTyped, Unassigned, HasArtifact, Rows
  <2>2. N' = N
    BY DEF N
  <2> HIDE DEF N
  <2> QED BY <1>1, <2>1, <2>2 DEF StagesInv, JobTyped
<1>4. JobProgress'
  BY <1>1, <1>2, KnownStays DEF JobProgress
<1>5. OpenCalls'
  BY DEF StagesInv, OpenCalls
<1> QED BY <1>1, <1>3, <1>4, <1>5, JobMoves

LEMMA RunIsStarted ==
    ASSUME StagesInv, StartRun
    PROVE  StagesInv'
<1>1. UNCHANGED <<gate, definition, calls, mutations, artifacts, reviewers, evidence>>
  BY DEF StartRun, Written, Reviewed
<1>2. job.at = "asked" /\ job.stage = 1
  BY DEF StartRun, StagesInv, JobTyped
<1>3. CASE job.by = "temporal" /\ \E to \in {"load", "over"} : job' = [job EXCEPT !.at = to]
  BY <1>1, <1>2, <1>3, AtMoves
<1>4. CASE job.by = "engine" /\ job' = [job EXCEPT !.at = "over"]
  BY <1>1, <1>2, <1>4, AtMoves
<1>5. CASE job.by = "engine" /\ ValidWorkflow(definition) /\ job' = [job EXCEPT !.at = "engine"]
  <2>1. N \in Nat /\ N > 0
    BY <1>5, StagesWithin DEF ValidWorkflow, N
  <2>2. job.stage \in 1..N
    BY <1>2, <2>1
  <2> QED BY <1>1, <1>2, <1>5, <2>2, AtMoves
<1> QED BY <1>3, <1>4, <1>5 DEF StartRun

LEMMA ContextIsLoaded ==
    ASSUME StagesInv, LoadContext
    PROVE  StagesInv'
<1>1. UNCHANGED <<gate, definition, calls, mutations, artifacts, reviewers, evidence>>
  BY DEF LoadContext, Written, Reviewed
<1>2. job.at = "load" /\ job.stage = 1 /\ job.by # "engine"
  BY DEF LoadContext, StagesInv, JobTyped
<1>3. CASE job' = [job EXCEPT !.at = "failing"]
  BY <1>1, <1>2, <1>3, AtMoves
<1>4. CASE ValidWorkflow(definition) /\ job' = [job EXCEPT !.at = "stage"]
  <2>1. N \in Nat /\ N > 0
    BY <1>4, StagesWithin DEF ValidWorkflow, N
  <2>2. job.stage \in 1..N
    BY <1>2, <2>1
  <2> QED BY <1>1, <1>2, <1>4, <2>2, AtMoves
<1> QED BY <1>3, <1>4 DEF LoadContext, Goes

LEMMA JobIsFinished ==
    ASSUME StagesInv, FinalizeJob \/ CloseJob \/ PersistFailure
    PROVE  StagesInv'
<1>1. UNCHANGED <<definition, calls, mutations, artifacts, reviewers, evidence>>
  BY DEF FinalizeJob, CloseJob, PersistFailure, Written, Reviewed
<1>2. gate' = gate \/ job.at = "finalize"
  BY DEF FinalizeJob, CloseJob, PersistFailure
<1>3. job.at \in {"finalize", "close", "failing"}
  BY DEF FinalizeJob, CloseJob, PersistFailure
<1>4. PICK to \in {"failing", "close", "over"} : job' = [job EXCEPT !.at = to]
  BY DEF FinalizeJob, CloseJob, PersistFailure, Goes
<1> QED BY <1>1, <1>2, <1>3, <1>4, AtMoves

LEMMA JobIsSignalled ==
    ASSUME StagesInv, CancelJob \/ PauseJob
    PROVE  StagesInv'
<1>1. UNCHANGED <<gate, definition, calls, mutations, artifacts, reviewers, evidence>>
  BY DEF CancelJob, PauseJob, Written, Reviewed
<1>2. /\ DOMAIN job' = DOMAIN job /\ job'.at = job.at /\ job'.by = job.by
      /\ job'.stage = job.stage /\ job'.repair = job.repair /\ job.by = "temporal"
      /\ job.at # "asked"
  BY DEF CancelJob, PauseJob, StagesInv, JobTyped
<1>3. Grows
  BY <1>1, <1>2, TablesStay
<1>4. N' = N
  BY <1>1 DEF N
<1>5. JobTyped'
  <2> HIDE DEF N
  <2> QED BY <1>1, <1>2, <1>4 DEF StagesInv, JobTyped
<1>6. JobProgress'
  BY <1>1, <1>2, <1>3, KnownStays DEF JobProgress
<1>7. OpenCalls'
  BY <1>1, <1>2 DEF StagesInv, OpenCalls
<1> QED BY <1>1, <1>2, <1>5, <1>6, <1>7, JobMoves

LEMMA StagesStay ==
    ASSUME StagesInv,
           UNCHANGED <<job, gate, definition, calls, mutations, artifacts, reviewers, evidence>>
    PROVE  StagesInv'
<1>1. UNCHANGED <<job, gate, definition, calls, mutations, artifacts, reviewers, evidence>>
  OBVIOUS
<1>2. Grows
  BY <1>1, TablesStay
<1>3. JobTyped'
  BY <1>1 DEF StagesInv, JobTyped, N, Unassigned, HasArtifact, Rows
<1>4. JobProgress'
  BY <1>1, <1>2, ProgressStays
<1>5. OpenCalls'
  BY <1>1 DEF StagesInv, OpenCalls
<1> QED BY <1>1, <1>3, <1>4, <1>5, JobMoves

LEMMA AgentIsDisabled ==
    ASSUME StagesInv, NEW a, Disable(a)
    PROVE  StagesInv'
<1> UNCHANGED <<job, gate, definition, calls, mutations, artifacts, reviewers, evidence>>
  BY DEF Disable, Written
<1> QED BY StagesStay

\* A step of the workflow and of one of its executions.
LEMMA WorkflowMoves ==
    ASSUME StagesInv, UNCHANGED <<definition, mutations, artifacts, reviewers, evidence>>,
           job'.by = job.by, calls' \in Seq(CallRows), CallsKnown', JobTyped', JobProgress', OpenCalls'
    PROVE  StagesInv'
<1>1. Grows /\ ArtifactsKnown' /\ AnswersSaved'
  BY TablesStay
<1>2. EvidenceKnown'
  BY EvidenceStays
<1>3. StageTablesTyped'
  BY DEF StagesInv, StageTablesTyped
<1> QED BY <1>1, <1>2, <1>3 DEF StagesInv

LEMMA NewRow ==
    ASSUME NEW l \in Nat \X Nat
    PROVE  /\ NewCall(l) \in CallRows /\ NewCall(l).at = "called" /\ NewCall(l).label = l
           /\ NewCall(l).open = TRUE
           /\ Reached(l) => CallKnown(NewCall(l))
<1>1. /\ NewCall(l) \in CallRows /\ NewCall(l).at = "called" /\ NewCall(l).label = l
      /\ NewCall(l).open = TRUE
  BY DEF NewCall, CallRows, CallPoints
<1> QED BY <1>1 DEF CallKnown

LEMMA LabelNumbers == \A l \in Labels : l \in Nat \X Nat
<1>1. \A s \in 1..Stages : s \in Nat
  BY StageAssumption
<1>2. \A r \in 0..MaxStageRepairs : r \in Nat
  BY StageAssumption
<1> QED BY <1>1, <1>2 DEF Labels

LEMMA StageIsScheduled ==
    ASSUME StagesInv, ScheduleStage
    PROVE  StagesInv'
<1>1. UNCHANGED <<gate, definition, mutations, artifacts, reviewers, evidence>> /\ job.at = "stage"
  BY DEF ScheduleStage, Reviewed
<1>2. CASE job' = [job EXCEPT !.at = "failing"] /\ UNCHANGED calls
  BY <1>1, <1>2, AtMoves
<1>3. CASE /\ job' = [job EXCEPT !.at = "await", !.tries = 1]
           /\ calls' = Append(calls, NewCall(<<job.stage, job.repair>>))
  <2>1. /\ DOMAIN job' = DOMAIN job /\ job'.at = "await" /\ job'.by = job.by
        /\ job'.stage = job.stage /\ job'.repair = job.repair
    BY <1>3 DEF StagesInv, JobTyped
  <2>2. Grows
    BY <1>1, <2>1, TablesStay
  <2> PICK l : l = <<job.stage, job.repair>>
    OBVIOUS
  <2>3. l \in Labels /\ Reached(l)
    <3>1. ValidWorkflow(definition) /\ job.stage \in 1..N /\ job.repair \in 0..MaxStageRepairs
      BY <1>1 DEF StagesInv, JobTyped
    <3>2. l \in Labels /\ l[1] = job.stage
      BY <3>1, LabelParts, StagesWithin
    <3>3. \A x \in 1..(job.stage - 1) : HasArtifact(<<x, 0>>)
      BY DEF StagesInv, JobProgress
    <3> QED BY <3>1, <3>2, <3>3 DEF Reached
  <2> PICK v : v = NewCall(l)
    OBVIOUS
  <2>4. v \in CallRows /\ v.at = "called" /\ v.label = l /\ v.open = TRUE /\ CallKnown(v)
    BY <2>3, LabelNumbers, NewRow
  <2>5. calls \in Seq(CallRows) /\ Len(calls) \in Nat /\ calls' = Append(calls, v)
    BY <1>3 DEF StagesInv, StageTablesTyped
  <2>6. calls' \in Seq(CallRows) /\ Len(calls') = Len(calls) + 1
    BY <2>4, <2>5
  <2>7. calls'[Len(calls) + 1] = v /\ \A j \in 1..Len(calls) : calls'[j] = calls[j]
    BY <2>4, <2>5
  <2>8. \A j \in 1..Len(calls') : j \in 1..Len(calls) \/ j = Len(calls) + 1
    BY <2>5, <2>6
  <2>9. \A k \in Rows(calls)' : k = v \/ k \in Rows(calls)
    BY <2>7, <2>8 DEF Rows
  <2>10. CallsKnown'
    BY <2>2, <2>4, <2>9, CallStays DEF StagesInv, CallsKnown
  <2>11. JobTyped'
    <3>1. N' = N
      BY <1>1 DEF N
    <3>2. job.by # "engine"
      BY <1>1 DEF StagesInv, JobTyped
    <3> HIDE DEF N
    <3> QED BY <1>1, <2>1, <3>1, <3>2 DEF StagesInv, JobTyped
  <2>12. JobProgress'
    BY <1>1, <2>1, <2>2, KnownStays DEF JobProgress
  <2>13. OpenCalls'
    <3>1. \A j \in 1..Len(calls) : ~calls[j].open
      BY <1>1 DEF StagesInv, OpenCalls
    <3> QED BY <2>1, <2>4, <2>7, <2>8, <3>1 DEF OpenCalls
  <2> QED BY <1>1, <2>1, <2>6, <2>10, <2>11, <2>12, <2>13, WorkflowMoves
<1> QED BY <1>2, <1>3 DEF ScheduleStage

\* The execution the workflow waits for.
LEMMA Awaited ==
    ASSUME StagesInv, NEW c \in 1..Len(calls), calls[c].open
    PROVE  /\ job.at = "await" /\ job.by # "engine" /\ calls[c].label = <<job.stage, job.repair>>
           /\ calls[c].at # "over" /\ Reached(calls[c].label) /\ calls[c].label \in Labels
           /\ ValidWorkflow(definition) /\ job.stage \in 1..N
           /\ \A d \in 1..Len(calls) : d # c => calls[d].open = FALSE
<1>1. calls[c] \in CallRows /\ CallKnown(calls[c])
  BY CallRow
<1>2. /\ job.at = "await" /\ calls[c].label = <<job.stage, job.repair>> /\ calls[c].at # "over"
      /\ \A d \in 1..Len(calls) : calls[d].open => c = d
  BY DEF StagesInv, OpenCalls
<1>3. \A d \in 1..Len(calls) : calls[d] \in CallRows
  BY CallRow
<1>4. Reached(calls[c].label)
  BY <1>1, <1>2 DEF CallKnown
<1> QED BY <1>2, <1>3, <1>4 DEF StagesInv, JobTyped, Reached, CallRows

LEMMA AnswerIsTaken ==
    ASSUME StagesInv, NEW c \in 1..Len(calls), TakeAnswer(c)
    PROVE  StagesInv'
<1>1. UNCHANGED <<gate, definition, mutations, artifacts, reviewers, evidence>>
      /\ calls[c].at = "answered" /\ calls[c].open
  BY DEF TakeAnswer, Reviewed
<1> DEFINE s == job.stage r == job.repair
<1>2. /\ job.at = "await" /\ job.by # "engine" /\ ValidWorkflow(definition) /\ s \in 1..N
      /\ calls[c].label = <<s, r>> /\ \A d \in 1..Len(calls) : d # c => calls[d].open = FALSE
  BY <1>1, Awaited
<1>3. r \in 0..MaxStageRepairs /\ s \in Nat /\ N \in Nat /\ N <= Stages /\ MaxStageRepairs \in Nat
      /\ Stages \in Nat /\ <<s, r>> \in Labels
  BY <1>2, StagesWithin, StageAssumption, LabelParts DEF StagesInv, JobTyped
<1>4. HasArtifact(<<s, r>>) /\ calls[c].result = mutations[<<s, r>>]
  BY <1>1, <1>2, <1>3, CallRow DEF CallKnown, StagesInv, AnswersSaved
<1>5. \A x \in {s} : HasArtifact(<<x, 0>>)
  <2>1. CASE r = 0
    BY <1>4, <2>1
  <2>2. CASE r > 0
    BY <2>2 DEF StagesInv, JobProgress
  <2>3. r = 0 \/ r > 0
    BY <1>3
  <2> QED BY <2>1, <2>2, <2>3
<1>6. calls' = [calls EXCEPT ![c] = OverCall] /\ calls \in Seq(CallRows)
  BY DEF TakeAnswer, StagesInv, StageTablesTyped
<1>7. calls' \in Seq(CallRows) /\ Len(calls') = Len(calls) /\ calls'[c] = OverCall
  BY <1>6, OverRow
<1>8. \A j \in 1..Len(calls) : j # c => calls'[j] = calls[j]
  BY <1>6
<1>9. \A k \in Rows(calls)' : k = OverCall \/ k \in Rows(calls)
  BY <1>7, <1>8 DEF Rows
<1>10. job'.by = job.by /\ DOMAIN job' = DOMAIN job
  BY DEF TakeAnswer, StagesInv, JobTyped
<1>11. Grows
  BY <1>1, <1>10, TablesStay
<1>12. CallsKnown'
  <2> PICK v : v = OverCall
    OBVIOUS
  <2> QED BY <1>9, <1>11, CallStays, OverKnown DEF StagesInv, CallsKnown
<1>13. OpenCalls'
  BY <1>2, <1>7, <1>8, OverRow DEF OpenCalls
<1>14. N' = N /\ \A x \in 1..(s - 1) : Earned(x)' /\ HasArtifact(<<x, 0>>)'
  BY <1>11, KnownStays
<1>15. \A x \in {s} : HasArtifact(<<x, 0>>)'
  BY <1>5, <1>11, ArtifactsStay
<1>16. \A x \in {s} : mutations[<<x, r>>] = "passed" => Earned(x)'
  BY <1>1, <1>3 DEF Earned
<1>17. gate => \A x \in 1..N : Earned(x)'
  BY <1>11, KnownStays
<1>18. JobTyped' /\ JobProgress'
  <2>1. CASE job' = [job EXCEPT !.at = "failing"]
    <3>1. job'.at = "failing" /\ job'.stage = s /\ job'.repair = r
      BY <2>1 DEF StagesInv, JobTyped
    <3>2. JobTyped'
      BY <1>2, <1>10, <3>1 DEF StagesInv, JobTyped
    <3>3. JobProgress'
      BY <1>1, <1>14, <1>15, <1>17, <3>1 DEF JobProgress
    <3> QED BY <3>2, <3>3
  <2>2. CASE mutations[<<s, r>>] = "passed" /\ s = N /\ job' = [job EXCEPT !.at = "finalize"]
    <3>1. job'.at = "finalize" /\ job'.stage = s /\ job'.repair = r
      BY <2>2 DEF StagesInv, JobTyped
    <3>2. JobTyped'
      <4> HIDE DEF N
      <4> QED BY <1>1, <1>2, <1>10, <1>14, <3>1 DEF StagesInv, JobTyped
    <3>3. \A x \in 1..N : x \in 1..(s - 1) \/ x \in {s}
      BY <1>3, <2>2
    <3>4. JobProgress'
      BY <1>1, <1>14, <1>15, <1>16, <2>2, <3>1, <3>3 DEF JobProgress
    <3> QED BY <3>2, <3>4
  <2>3. CASE /\ mutations[<<s, r>>] = "passed" /\ s # N
             /\ job' = [job EXCEPT !.at = "stage", !.stage = @ + 1, !.repair = 0]
    <3>1. job'.at = "stage" /\ job'.stage = s + 1 /\ job'.repair = 0
      BY <2>3 DEF StagesInv, JobTyped
    <3>2. s + 1 \in 1..N /\ s + 1 \in 1..(Stages + 1) /\ 0 \in 0..MaxStageRepairs
      BY <1>2, <1>3, <2>3
    <3>3. JobTyped'
      <4> HIDE DEF N
      <4> QED BY <1>1, <1>2, <1>10, <1>14, <3>1, <3>2 DEF StagesInv, JobTyped
    <3>4. \A x \in 1..((s + 1) - 1) : x \in 1..(s - 1) \/ x \in {s}
      BY <1>3
    <3>5. JobProgress'
      BY <1>1, <1>14, <1>15, <1>16, <1>17, <2>3, <3>1, <3>4 DEF JobProgress
    <3> QED BY <3>3, <3>5
  <2>4. CASE r # MaxStageRepairs /\ job' = [job EXCEPT !.at = "stage", !.repair = @ + 1]
    <3>1. job'.at = "stage" /\ job'.stage = s /\ job'.repair = r + 1
      BY <2>4 DEF StagesInv, JobTyped
    <3>2. r + 1 \in 0..MaxStageRepairs
      BY <1>3, <2>4
    <3>3. JobTyped'
      <4> HIDE DEF N
      <4> QED BY <1>1, <1>2, <1>10, <1>14, <3>1, <3>2 DEF StagesInv, JobTyped
    <3>4. JobProgress'
      BY <1>1, <1>14, <1>15, <1>17, <3>1 DEF JobProgress
    <3> QED BY <3>3, <3>4
  <2> QED BY <1>4, <2>1, <2>2, <2>3, <2>4 DEF TakeAnswer
<1> QED BY <1>1, <1>7, <1>10, <1>12, <1>13, <1>18, WorkflowMoves

LEMMA CallIsTried ==
    ASSUME StagesInv, NEW c \in 1..Len(calls), TryAgain(c)
    PROVE  StagesInv'
<1>1. UNCHANGED <<gate, definition, mutations, artifacts, reviewers, evidence>> /\ calls[c].open
  BY DEF TryAgain, Reviewed
<1>2. /\ job.at = "await" /\ job.by # "engine" /\ calls[c].label = <<job.stage, job.repair>>
      /\ Reached(calls[c].label) /\ calls[c].label \in Labels
      /\ \A d \in 1..Len(calls) : d # c => calls[d].open = FALSE
  BY <1>1, Awaited
<1> PICK k : k = calls[c]
  OBVIOUS
<1>a. PICK v : v = IF k.at \in {"failed", "refused", "dead"} THEN OverCall
                 ELSE [k EXCEPT !.open = FALSE]
  OBVIOUS
<1>3. k \in CallRows /\ CallKnown(k)
  BY CallRow
<1>4. v \in CallRows /\ v.open = FALSE /\ CallKnown(v)
  <2>1. CASE k.at \in {"failed", "refused", "dead"}
    BY <1>a, <2>1, OverRow, OverKnown
  <2>2. CASE k.at \notin {"failed", "refused", "dead"}
    <3>1. /\ v \in CallRows /\ v.open = FALSE /\ v.at = k.at /\ v.label = k.label
          /\ v.agent = k.agent /\ v.result = k.result
      BY <1>3, <1>a, <2>2 DEF CallRows
    <3> QED BY <1>3, <3>1 DEF CallKnown
  <2> QED BY <2>1, <2>2
<1>0. PICK once : once = [calls EXCEPT ![c] = v]
  OBVIOUS
<1>5. calls \in Seq(CallRows) /\ Len(calls) \in Nat
  BY DEF StagesInv, StageTablesTyped
<1>6. once \in Seq(CallRows) /\ Len(once) = Len(calls) /\ once[c] = v
  <2>1. once \in Seq(CallRows) /\ Len(once) = Len(calls)
    BY <1>0, <1>4, <1>5
  <2>2. once[c] = v
    BY <1>0, <1>5
  <2> QED BY <2>1, <2>2
<1>7. \A j \in 1..Len(calls) : j # c => once[j] = calls[j]
  BY <1>0, <1>5
<1>8. \A j \in 1..Len(calls) : once[j].open = FALSE
  BY <1>2, <1>4, <1>6, <1>7
<1>9. \A j \in 1..Len(calls) : CallKnown(once[j])
  BY <1>4, <1>6, <1>7, CallRow
<1>10. /\ DOMAIN job' = DOMAIN job /\ job'.by = job.by /\ job'.stage = job.stage
       /\ job'.repair = job.repair /\ job'.at \in {"failing", "await"}
  BY <1>2 DEF TryAgain, StagesInv, JobTyped
<1>11. Grows
  BY <1>1, <1>10, TablesStay
<1>12. JobTyped'
  <2>1. N' = N
    BY <1>1 DEF N
  <2> HIDE DEF N
  <2> QED BY <1>1, <1>2, <1>10, <2>1 DEF StagesInv, JobTyped
<1>13. JobProgress'
  BY <1>1, <1>10, <1>11, KnownStays DEF JobProgress
<1>14. \/ calls' = once
       \/ job'.at = "await" /\ calls' = Append(once, NewCall(k.label))
  BY <1>0, <1>2, <1>a DEF TryAgain, StagesInv, JobTyped
<1>15. CASE calls' = once
  <2>1. \A e \in Rows(calls)' : CallKnown(e)
    BY <1>6, <1>9, <1>15 DEF Rows
  <2>2. CallsKnown'
    BY <1>11, <2>1, CallStays DEF StagesInv, CallsKnown
  <2>3. OpenCalls'
    BY <1>6, <1>8, <1>15 DEF OpenCalls
  <2> QED BY <1>1, <1>6, <1>10, <1>12, <1>13, <1>15, <2>2, <2>3, WorkflowMoves
<1>16. CASE job'.at = "await" /\ calls' = Append(once, NewCall(k.label))
  <2> PICK w : w = NewCall(k.label)
    OBVIOUS
  <2>1. w \in CallRows /\ w.at = "called" /\ w.label = k.label /\ w.open = TRUE /\ CallKnown(w)
    BY <1>2, LabelNumbers, NewRow
  <2>2. calls' = Append(once, w)
    BY <1>16
  <2>3. calls' \in Seq(CallRows) /\ Len(calls') = Len(calls) + 1
    BY <1>6, <2>1, <2>2
  <2>4. calls'[Len(calls) + 1] = w /\ \A j \in 1..Len(calls) : calls'[j] = once[j]
    BY <1>6, <2>1, <2>2
  <2>5. \A j \in 1..Len(calls') : j \in 1..Len(calls) \/ j = Len(calls) + 1
    BY <1>5, <2>3
  <2>6. \A e \in Rows(calls)' : CallKnown(e)
    BY <1>9, <2>1, <2>4, <2>5 DEF Rows
  <2>7. CallsKnown'
    BY <1>11, <2>6, CallStays DEF StagesInv, CallsKnown
  <2>8. OpenCalls'
    <3>1. \A j \in 1..Len(calls') : calls'[j].open => j = Len(calls) + 1
      BY <1>8, <2>4, <2>5
    <3>2. w.label = <<job'.stage, job'.repair>> /\ w.at # "over" /\ job'.at = "await"
      BY <1>2, <1>10, <1>16, <2>1
    <3> QED BY <2>4, <3>1, <3>2 DEF OpenCalls
  <2> QED BY <1>1, <1>10, <1>12, <1>13, <2>3, <2>7, <2>8, WorkflowMoves
<1> QED BY <1>14, <1>15, <1>16

-----------------------------------------------------------------------------
\* The people.
LEMMA RecordsMove ==
    ASSUME StagesInv, UNCHANGED <<definition, job, gate, calls, mutations, reviewers>>, Grows,
           artifacts' \in Seq(ArtifactRows), evidence' \in Seq(EvidenceRows),
           \A g \in Rows(artifacts)' : \E e \in Rows(artifacts) :
              g.label = e.label /\ g.agent = e.agent,
           artifacts = <<>> => artifacts' = <<>>,
           EvidenceKnown'
    PROVE  StagesInv'
<1>1. StageTablesTyped'
  BY DEF StagesInv, StageTablesTyped
<1>2. CallsKnown' /\ JobProgress'
  BY CallsStay, ProgressStays
<1>3. AnswersSaved'
  BY ArtifactsStay DEF StagesInv, AnswersSaved
<1>4. ArtifactsKnown'
  BY ReachedStays, AuthoredStays DEF StagesInv, ArtifactsKnown, ArtifactKnown
<1>5. \A l : HasArtifact(l)' => HasArtifact(l)
  BY DEF HasArtifact
<1>6. JobTyped'
  <2>1. N' = N
    BY DEF N
  <2>2. \A l \in Labels : Unassigned(l)' = Unassigned(l)
    BY DEF Unassigned
  <2> HIDE DEF N
  <2> QED BY <1>5, <2>1, <2>2 DEF StagesInv, JobTyped
<1>7. OpenCalls'
  BY DEF StagesInv, OpenCalls
<1> QED BY <1>1, <1>2, <1>3, <1>4, <1>6, <1>7 DEF StagesInv

LEMMA ArtifactIsReviewed ==
    ASSUME StagesInv, NEW i \in 1..Len(artifacts), ReviewArtifact(i)
    PROVE  StagesInv'
<1>1. UNCHANGED <<definition, job, gate, calls, mutations, reviewers, evidence>> /\ ~Locked(i)
  BY DEF ReviewArtifact
<1>2. artifacts \in Seq(ArtifactRows)
  BY DEF StagesInv, StageTablesTyped
<1>3. artifacts[i] \in ArtifactRows
  BY <1>2
<1>4. PICK s \in {"approved", "rejected"} :
         artifacts' = [artifacts EXCEPT ![i].status = s, ![i].verifier = -1]
  BY DEF ReviewArtifact
<1>a. PICK e : e = [artifacts[i] EXCEPT !.status = s, !.verifier = -1]
  OBVIOUS
<1>5. /\ e \in ArtifactRows /\ e.label = artifacts[i].label /\ e.agent = artifacts[i].agent
      /\ e.verdict = artifacts[i].verdict
  <2>1. -1 \in Int
    OBVIOUS
  <2>2. e \in ArtifactRows
    BY <1>3, <1>a, <2>1 DEF ArtifactRows
  <2>3. e.label = artifacts[i].label /\ e.agent = artifacts[i].agent /\ e.verdict = artifacts[i].verdict
    BY <1>3, <1>a DEF ArtifactRows
  <2> QED BY <2>2, <2>3
<1>6. artifacts' = [artifacts EXCEPT ![i] = e]
  BY <1>2, <1>4, <1>a
<1>7. artifacts' \in Seq(ArtifactRows) /\ Len(artifacts') = Len(artifacts)
  BY <1>2, <1>5, <1>6
<1>8. artifacts'[i] = e
  BY <1>2, <1>6
<1>9. \A j \in 1..Len(artifacts) : j # i => artifacts'[j] = artifacts[j]
  BY <1>2, <1>6
<1>10. /\ \A g \in Rows(artifacts)' : \E h \in Rows(artifacts) : g.label = h.label /\ g.agent = h.agent
       /\ \A h \in Rows(artifacts) : \E g \in Rows(artifacts)' :
             g.label = h.label /\ g.agent = h.agent /\ g.verdict = h.verdict
  BY <1>5, <1>7, <1>8, <1>9 DEF Rows
<1>11. Grows
  BY <1>1, <1>10 DEF Grows
<1>12. EvidenceKnown'
  <2>1. \A j : Locked(j)' = Locked(j)
    BY <1>1 DEF Locked
  <2>2. VerifierKept'
    <3>1. \A j \in 1..Len(artifacts) : Locked(j) => artifacts'[j] = artifacts[j]
      BY <1>1, <1>9
    <3>2. \A j \in 1..Len(artifacts) : Locked(j) => \E k \in 1..Len(evidence) :
             /\ artifacts[j].verifier = k /\ evidence[k].artifact = j
             /\ evidence[k].status = "accepted"
      BY DEF StagesInv, EvidenceKnown, VerifierKept
    <3>3. evidence' = evidence /\ Len(artifacts') = Len(artifacts)
      BY <1>1, <1>7
    <3> QED BY <2>1, <3>1, <3>2, <3>3 DEF VerifierKept
  <2>3. \A k \in 1..Len(evidence) : /\ evidence[k].artifact \in 1..Len(artifacts)
                                    /\ evidence[k].saw = "locked" => Locked(evidence[k].artifact)
    BY DEF StagesInv, EvidenceKnown
  <2> QED BY <1>1, <1>7, <2>2, <2>3 DEF EvidenceKnown, Locked
<1>13. artifacts # <<>> /\ evidence' \in Seq(EvidenceRows)
  BY <1>1, <1>2 DEF StagesInv, StageTablesTyped
<1> QED BY <1>1, <1>7, <1>10, <1>11, <1>12, <1>13, RecordsMove

LEMMA EvidenceIsLinked ==
    ASSUME StagesInv, NEW i \in 1..Len(artifacts), LinkEvidence(i)
    PROVE  StagesInv'
<1>1. UNCHANGED <<definition, job, gate, calls, mutations, artifacts, reviewers>>
  BY DEF LinkEvidence, Written
<1> PICK w : w = [artifact |-> i, status |-> "proposed", saw |-> "nothing"]
  OBVIOUS
<1>2. evidence \in Seq(EvidenceRows) /\ Len(evidence) \in Nat /\ evidence' = Append(evidence, w)
      /\ artifacts \in Seq(ArtifactRows)
  BY DEF StagesInv, StageTablesTyped, LinkEvidence
<1>3. w \in EvidenceRows /\ w.artifact = i /\ w.status = "proposed" /\ w.saw = "nothing"
  <2>1. i \in Nat
    BY <1>2
  <2> QED BY <2>1 DEF EvidenceRows
<1>4. evidence' \in Seq(EvidenceRows) /\ Len(evidence') = Len(evidence) + 1
  BY <1>2, <1>3
<1>5. /\ evidence'[Len(evidence) + 1] = w
      /\ \A j \in 1..Len(evidence) : j \in 1..Len(evidence') /\ evidence'[j] = evidence[j]
  BY <1>2, <1>3
<1>6. \A j \in 1..Len(evidence') : j \in 1..Len(evidence) \/ j = Len(evidence) + 1
  BY <1>2, <1>4
<1>7. EvidenceKnown'
  <2>1. \A j : Locked(j)' = Locked(j)
    BY <1>3, <1>5, <1>6 DEF Locked
  <2>2. VerifierKept'
    BY <1>1, <1>5, <2>1 DEF StagesInv, EvidenceKnown, VerifierKept
  <2>3. \A j \in 1..Len(evidence') : evidence'[j].artifact \in 1..Len(artifacts')
    BY <1>1, <1>3, <1>5, <1>6 DEF StagesInv, EvidenceKnown
  <2>4. \A j \in 1..Len(evidence) : evidence[j].saw = "locked" => Locked(evidence[j].artifact)
    BY DEF StagesInv, EvidenceKnown
  <2>5. \A j \in 1..Len(evidence') : evidence'[j].saw = "locked" => Locked(evidence'[j].artifact)
    BY <1>3, <1>5, <1>6, <2>4
  <2>6. \A j \in 1..Len(evidence') : evidence'[j].saw = "locked" =>
           \E d \in 1..Len(evidence') : /\ evidence'[d].artifact = evidence'[j].artifact
                                        /\ evidence'[d].status = "accepted"
    BY <1>5, <2>5 DEF Locked
  <2> QED BY <2>2, <2>3, <2>6 DEF EvidenceKnown, Locked
<1>8. Grows
  BY <1>1, TablesStay
<1>9. Rows(artifacts)' = Rows(artifacts)
  BY <1>1 DEF Rows
<1> QED BY <1>1, <1>2, <1>4, <1>7, <1>8, <1>9, RecordsMove

\* A link that is not accepted, or not yet: what is locked is locked still.
LEMMA EvidenceMoves ==
    ASSUME StagesInv, NEW k \in 1..Len(evidence), NEW w \in EvidenceRows,
           evidence' = [evidence EXCEPT ![k] = w], w.artifact = evidence[k].artifact
    PROVE  /\ evidence' \in Seq(EvidenceRows) /\ Len(evidence') = Len(evidence)
           /\ evidence'[k] = w
           /\ \A j \in 1..Len(evidence) : j # k => evidence'[j] = evidence[j]
<1>1. evidence \in Seq(EvidenceRows)
  BY DEF StagesInv, StageTablesTyped
<1>2. evidence' \in Seq(EvidenceRows) /\ Len(evidence') = Len(evidence)
  BY <1>1
<1>3. evidence'[k] = w
  BY <1>1
<1>4. \A j \in 1..Len(evidence) : j # k => evidence'[j] = evidence[j]
  BY <1>1
<1> QED BY <1>2, <1>3, <1>4

LEMMA EvidenceRow ==
    ASSUME StagesInv, NEW k \in 1..Len(evidence)
    PROVE  evidence[k] \in EvidenceRows
<1>1. evidence \in Seq(EvidenceRows)
  BY DEF StagesInv, StageTablesTyped
<1> QED BY <1>1

LEMMA UndecidedStays ==
    ASSUME StagesInv, NEW k \in 1..Len(evidence), NEW w \in EvidenceRows,
           evidence' = [evidence EXCEPT ![k] = w], w.artifact = evidence[k].artifact,
           evidence[k].status # "accepted", w.status # "accepted",
           w.saw = "locked" => Locked(evidence[k].artifact),
           UNCHANGED <<definition, job, gate, calls, mutations, artifacts, reviewers>>
    PROVE  StagesInv'
<1>1. /\ evidence' \in Seq(EvidenceRows) /\ Len(evidence') = Len(evidence) /\ evidence'[k] = w
      /\ \A j \in 1..Len(evidence) : j # k => evidence'[j] = evidence[j]
  BY EvidenceMoves
<1>2. \A j \in 1..Len(evidence) : /\ evidence'[j].artifact = evidence[j].artifact
                                  /\ evidence'[j].status = "accepted" <=> evidence[j].status = "accepted"
                                  /\ evidence'[j].status = "accepted" => evidence'[j] = evidence[j]
  BY <1>1
<1>3. \A i : Locked(i)' = Locked(i)
  BY <1>1, <1>2 DEF Locked
<1>4. \A j \in 1..Len(evidence) : evidence'[j].saw = "locked" => Locked(evidence[j].artifact)
  BY <1>1 DEF StagesInv, EvidenceKnown
<1>5. VerifierKept'
  BY <1>1, <1>2, <1>3 DEF StagesInv, EvidenceKnown, VerifierKept
<1>6. \A j \in 1..Len(evidence') : evidence'[j].artifact \in 1..Len(artifacts')
  BY <1>1, <1>2 DEF StagesInv, EvidenceKnown
<1>7. \A j \in 1..Len(evidence') : evidence'[j].saw = "locked" => Locked(evidence[j].artifact)'
  BY <1>1, <1>3, <1>4
<1>8. EvidenceKnown'
  BY <1>1, <1>2, <1>5, <1>6, <1>7 DEF EvidenceKnown, Locked
<1>9. Grows
  BY TablesStay
<1>10. Rows(artifacts)' = Rows(artifacts) /\ artifacts' \in Seq(ArtifactRows)
  BY DEF Rows, StagesInv, StageTablesTyped
<1> QED BY <1>1, <1>8, <1>9, <1>10, RecordsMove

LEMMA LockIsRead ==
    ASSUME StagesInv, NEW k \in 1..Len(evidence), ReadLock(k)
    PROVE  StagesInv'
<1>1. UNCHANGED <<definition, job, gate, calls, mutations, artifacts, reviewers>>
      /\ evidence[k].status = "proposed"
  BY DEF ReadLock, Written
<1>a. PICK w : w = [evidence[k] EXCEPT !.saw = IF Locked(evidence[k].artifact) THEN "locked"
                                             ELSE "free"]
  OBVIOUS
<1>2. evidence' = [evidence EXCEPT ![k] = w]
  BY <1>a DEF ReadLock
<1>3. /\ w \in EvidenceRows /\ w.artifact = evidence[k].artifact /\ w.status = "proposed"
      /\ w.saw = "locked" => Locked(evidence[k].artifact)
  BY <1>1, <1>a, EvidenceRow DEF EvidenceRows
<1> QED BY <1>1, <1>2, <1>3, UndecidedStays

LEMMA EvidenceIsRejected ==
    ASSUME StagesInv, NEW k \in 1..Len(evidence), RejectEvidence(k)
    PROVE  StagesInv'
<1>1. UNCHANGED <<definition, job, gate, calls, mutations, artifacts, reviewers>>
      /\ evidence[k].status = "proposed"
  BY DEF RejectEvidence, Written
<1>a. PICK w : w = [evidence[k] EXCEPT !.status = "rejected"]
  OBVIOUS
<1>2. evidence' = [evidence EXCEPT ![k] = w]
  BY <1>a DEF RejectEvidence
<1>3. /\ w \in EvidenceRows /\ w.artifact = evidence[k].artifact /\ w.status = "rejected"
      /\ w.saw = evidence[k].saw
  BY <1>a, EvidenceRow DEF EvidenceRows
<1>4. w.saw = "locked" => Locked(evidence[k].artifact)
  BY <1>3 DEF StagesInv, EvidenceKnown
<1> QED BY <1>1, <1>2, <1>3, <1>4, UndecidedStays

LEMMA ArtifactReplaced ==
    ASSUME artifacts \in Seq(ArtifactRows), NEW i \in 1..Len(artifacts), NEW e \in ArtifactRows,
           artifacts' = [artifacts EXCEPT ![i] = e]
    PROVE  /\ artifacts' \in Seq(ArtifactRows) /\ Len(artifacts') = Len(artifacts)
           /\ artifacts'[i] = e
           /\ \A j \in 1..Len(artifacts) : j # i => artifacts'[j] = artifacts[j]
<1>1. artifacts' \in Seq(ArtifactRows) /\ Len(artifacts') = Len(artifacts)
  OBVIOUS
<1>2. artifacts'[i] = e
  OBVIOUS
<1>3. \A j \in 1..Len(artifacts) : j # i => artifacts'[j] = artifacts[j]
  OBVIOUS
<1> QED BY <1>1, <1>2, <1>3

LEMMA EvidenceIsAccepted ==
    ASSUME StagesInv, NEW k \in 1..Len(evidence), AcceptEvidence(k)
    PROVE  StagesInv'
<1> DEFINE i == evidence[k].artifact
<1>1. UNCHANGED <<definition, job, gate, calls, mutations, reviewers>>
      /\ evidence[k].status = "proposed" /\ evidence[k].saw # "nothing"
  BY DEF AcceptEvidence
<1>2. evidence[k] \in EvidenceRows
  BY EvidenceRow
<1>3. i \in 1..Len(artifacts) /\ (evidence[k].saw = "locked" => Locked(i))
  BY DEF StagesInv, EvidenceKnown
<1>4. CASE evidence' = [evidence EXCEPT ![k].saw = "nothing"] /\ UNCHANGED artifacts
  <2>a. PICK w : w = [evidence[k] EXCEPT !.saw = "nothing"]
    OBVIOUS
  <2>1. evidence' = [evidence EXCEPT ![k] = w]
    BY <1>4, <2>a
  <2>2. /\ w \in EvidenceRows /\ w.artifact = evidence[k].artifact /\ w.status = "proposed"
        /\ w.saw = "nothing"
    BY <1>1, <1>2, <2>a DEF EvidenceRows
  <2> QED BY <1>1, <1>4, <2>1, <2>2, UndecidedStays
<1>5. CASE /\ evidence' = [evidence EXCEPT ![k].status = "accepted"]
           /\ \/ evidence[k].saw = "locked" /\ UNCHANGED artifacts
              \/ ~Locked(i) /\ artifacts' = [artifacts EXCEPT ![i].verifier = k]
  <2>a. PICK w : w = [evidence[k] EXCEPT !.status = "accepted"]
    OBVIOUS
  <2>1. evidence' = [evidence EXCEPT ![k] = w]
    BY <1>5, <2>a
  <2>2. /\ w \in EvidenceRows /\ w.artifact = i /\ w.status = "accepted"
        /\ w.saw = evidence[k].saw
    BY <1>2, <2>a DEF EvidenceRows
  <2>3. /\ evidence' \in Seq(EvidenceRows) /\ Len(evidence') = Len(evidence) /\ evidence'[k] = w
        /\ \A j \in 1..Len(evidence) : j # k => evidence'[j] = evidence[j]
    BY <2>1, <2>2, EvidenceMoves
  <2>4. artifacts \in Seq(ArtifactRows) /\ k \in Int
    <3>1. evidence \in Seq(EvidenceRows) /\ Len(evidence) \in Nat
      BY DEF StagesInv, StageTablesTyped
    <3> QED BY <3>1 DEF StagesInv, StageTablesTyped
  <2>5. artifacts[i] \in ArtifactRows
    BY <1>3, <2>4
  <2>b. PICK e : e = IF Locked(i) THEN artifacts[i] ELSE [artifacts[i] EXCEPT !.verifier = k]
    OBVIOUS
  <2>6. /\ e \in ArtifactRows /\ e.label = artifacts[i].label /\ e.agent = artifacts[i].agent
        /\ e.verdict = artifacts[i].verdict /\ (~Locked(i) => e.verifier = k)
        /\ Locked(i) => e = artifacts[i]
    <3>1. CASE Locked(i)
      BY <2>5, <2>b, <3>1
    <3>2. CASE ~Locked(i)
      BY <2>4, <2>5, <2>b, <3>2 DEF ArtifactRows
    <3> QED BY <3>1, <3>2
  <2>7. artifacts' \in Seq(ArtifactRows) /\ Len(artifacts') = Len(artifacts) /\ artifacts'[i] = e
        /\ \A j \in 1..Len(artifacts) : j # i => artifacts'[j] = artifacts[j]
    <3>1. CASE Locked(i)
      BY <1>3, <1>5, <2>4, <2>6, <3>1
    <3>2. CASE ~Locked(i)
      <4>1. artifacts' = [artifacts EXCEPT ![i] = e]
        BY <1>3, <1>5, <2>b, <3>2
      <4> HIDE DEF i
      <4> QED BY <1>3, <2>4, <2>6, <4>1, ArtifactReplaced
    <3> QED BY <3>1, <3>2
  <2>8. /\ \A g \in Rows(artifacts)' : \E h \in Rows(artifacts) :
              g.label = h.label /\ g.agent = h.agent
        /\ \A h \in Rows(artifacts) : \E g \in Rows(artifacts)' :
              g.label = h.label /\ g.agent = h.agent /\ g.verdict = h.verdict
    BY <1>3, <2>6, <2>7 DEF Rows
  <2>9. Grows
    BY <1>1, <2>8 DEF Grows
  <2>10. artifacts # <<>>
    BY <1>3, <2>4
  <2> HIDE DEF i
  <2>11. \A j : Locked(j)' <=> Locked(j) \/ j = i
    BY <2>2, <2>3 DEF Locked, i
  <2>12. VerifierKept'
    <3>1. ASSUME NEW j \in 1..Len(artifacts), Locked(j), ~(j = i /\ ~Locked(i))
          PROVE  \E d \in 1..Len(evidence) : /\ artifacts'[j].verifier = d
                                             /\ evidence'[d].artifact = j
                                             /\ evidence'[d].status = "accepted"
      <4>1. PICK d \in 1..Len(evidence) : /\ artifacts[j].verifier = d /\ evidence[d].artifact = j
                                          /\ evidence[d].status = "accepted"
        BY <3>1 DEF StagesInv, EvidenceKnown, VerifierKept
      <4>2. artifacts'[j] = artifacts[j]
        BY <2>6, <2>7, <3>1
      <4>3. evidence'[d] = evidence[d]
        BY <1>1, <2>3, <4>1
      <4> QED BY <4>1, <4>2, <4>3
    <3>2. ~Locked(i) => /\ artifacts'[i].verifier = k /\ evidence'[k].artifact = i
                        /\ evidence'[k].status = "accepted"
      BY <2>2, <2>3, <2>6, <2>7
    <3>3. ASSUME NEW j \in 1..Len(artifacts), Locked(j) \/ j = i
          PROVE  \E d \in 1..Len(evidence) : /\ artifacts'[j].verifier = d
                                             /\ evidence'[d].artifact = j
                                             /\ evidence'[d].status = "accepted"
      BY <3>1, <3>2, <3>3
    <3> QED BY <2>3, <2>7, <2>11, <3>3 DEF VerifierKept
  <2>13. \A j \in 1..Len(evidence') : evidence'[j].artifact \in 1..Len(artifacts')
    BY <2>2, <2>3, <2>7 DEF StagesInv, EvidenceKnown, i
  <2>14. \A j \in 1..Len(evidence) : evidence'[j].saw = "locked" => Locked(evidence'[j].artifact)
    BY <1>3, <2>2, <2>3 DEF StagesInv, EvidenceKnown, i
  <2>15. \A j \in 1..Len(evidence') : evidence'[j].saw = "locked" =>
           \E d \in 1..Len(evidence') : /\ evidence'[d].artifact = evidence'[j].artifact
                                        /\ evidence'[d].status = "accepted"
    <3>1. \A d \in 1..Len(evidence) : evidence[d].status = "accepted" =>
             evidence'[d].artifact = evidence[d].artifact /\ evidence'[d].status = "accepted"
      BY <2>2, <2>3 DEF i
    <3>2. \A x : Locked(x) => \E d \in 1..Len(evidence) : evidence'[d].artifact = x
                                                         /\ evidence'[d].status = "accepted"
      BY <3>1 DEF Locked
    <3> QED BY <2>3, <2>14, <3>2
  <2>16. EvidenceKnown'
    BY <2>12, <2>13, <2>15 DEF EvidenceKnown, Locked
  <2> QED BY <1>1, <2>3, <2>7, <2>8, <2>9, <2>10, <2>16, RecordsMove
<1>6. \/ evidence' = [evidence EXCEPT ![k].saw = "nothing"] /\ UNCHANGED artifacts
      \/ /\ evidence' = [evidence EXCEPT ![k].status = "accepted"]
         /\ \/ evidence[k].saw = "locked" /\ UNCHANGED artifacts
            \/ ~Locked(i) /\ artifacts' = [artifacts EXCEPT ![i].verifier = k]
  BY <1>1, <1>2 DEF AcceptEvidence, EvidenceRows
<1> QED BY <1>4, <1>5, <1>6

-----------------------------------------------------------------------------
\* A stage of the engine.
LEMMA StageIsRun ==
    ASSUME StagesInv, EngineStage
    PROVE  StagesInv'
<1> DEFINE s == job.stage pooled == definition.pool[s] # {}
<1>1. UNCHANGED <<gate, definition, calls, mutations, evidence>> /\ job.at = "engine"
  BY DEF EngineStage, Reviewed
<1>2. /\ job.by = "engine" /\ calls = <<>> /\ ValidWorkflow(definition) /\ s \in 1..N
      /\ \A m \in Labels : m[1] >= s => Unassigned(m) /\ ~HasArtifact(m)
  BY <1>1 DEF StagesInv, JobTyped
<1>3. s \in Nat /\ N \in Nat /\ N <= Stages /\ Stages \in Nat /\ MaxStageRepairs \in Nat
  BY <1>2, StagesWithin, StageAssumption
<1>a. PICK l : l = <<s, 0>>
  OBVIOUS
<1>4. l \in Labels /\ l[1] = s /\ Reached(l)
  <2>1. l \in Labels /\ l[1] = s
    BY <1>a, <1>2, LabelParts, StagesWithin
  <2> QED BY <1>2, <2>1 DEF Reached, StagesInv, JobProgress
<1>5. reviewers \in [Labels -> ReviewerRows] /\ mutations \in [Labels -> {"none", "reserved"} \cup Verdicts]
      /\ artifacts \in Seq(ArtifactRows) /\ Unassigned(l)
  BY <1>2, <1>3, <1>4 DEF StagesInv, StageTablesTyped
<1>6. /\ DOMAIN job' = DOMAIN job /\ job'.by = job.by /\ job'.repair = job.repair
  BY DEF EngineStage, StagesInv, JobTyped

\* Who reviews, when the stage has a pool.
<1>7. ASSUME NEW r \in ReviewerRows,
             \/ UNCHANGED reviewers
             \/ reviewers' = [reviewers EXCEPT ![l] = r]
      PROVE  /\ reviewers' \in [Labels -> ReviewerRows]
             /\ \A m \in Labels : ~Unassigned(m) => reviewers'[m] = reviewers[m]
             /\ \A m \in Labels : m # l => reviewers'[m] = reviewers[m]
  BY <1>4, <1>5, <1>7

\* ... and the run fails,
<1>8. ASSUME reviewers' \in [Labels -> ReviewerRows], UNCHANGED artifacts,
             \A m \in Labels : ~Unassigned(m) => reviewers'[m] = reviewers[m],
             job' = [job EXCEPT !.at = "over"]
      PROVE  StagesInv'
  <2>1. job'.at = "over" /\ job'.stage = s /\ job'.repair = job.repair
    BY <1>8 DEF StagesInv, JobTyped
  <2>2. Rows(artifacts)' = Rows(artifacts)
    BY <1>8 DEF Rows
  <2>3. Grows
    BY <1>1, <1>6, <1>8, <2>2 DEF Grows
  <2>4. ArtifactsKnown'
    BY <2>2, <2>3, ReachedStays, AuthoredStays DEF StagesInv, ArtifactsKnown, ArtifactKnown
  <2>5. AnswersSaved'
    BY <1>1, <2>3, ArtifactsStay DEF StagesInv, AnswersSaved
  <2>6. CallsKnown' /\ EvidenceKnown'
    BY <1>1, <1>8, <2>3, CallsStay, EvidenceStays
  <2>7. StageTablesTyped'
    BY <1>1, <1>8 DEF StagesInv, StageTablesTyped
  <2>8. JobTyped'
    BY <1>1, <1>2, <1>6, <2>1 DEF StagesInv, JobTyped
  <2>9. JobProgress'
    BY <1>1, <2>1, <2>3, KnownStays DEF JobProgress
  <2>10. OpenCalls'
    BY <1>1, <1>2 DEF OpenCalls
  <2> QED BY <2>4, <2>5, <2>6, <2>7, <2>8, <2>9, <2>10 DEF StagesInv

\* ... or the stage has its artifact.
<1>9. ASSUME NEW a, a \in DOMAIN ModelOf, reviewers' \in [Labels -> ReviewerRows],
             \A m \in Labels : ~Unassigned(m) => reviewers'[m] = reviewers[m],
             \A m \in Labels : m # l => reviewers'[m] = reviewers[m],
             definition.pool[s] = {} => a = definition.agent[s],
             definition.pool[s] # {} => reviewers'[l].agent = a /\ Independent(l, a),
             artifacts' = Append(artifacts, Artifact(l, a, "passed")),
             job' = IF s = N THEN [job EXCEPT !.at = "finalize"] ELSE [job EXCEPT !.stage = @ + 1]
      PROVE  StagesInv'
  <2>a. PICK e : e = Artifact(l, a, "passed")
    OBVIOUS
  <2>1. e \in ArtifactRows /\ e.label = l /\ e.agent = a /\ e.verdict = "passed"
    BY <1>4, <1>9, <2>a DEF Artifact, ArtifactRows, Verdicts
  <2>2. /\ artifacts' \in Seq(ArtifactRows) /\ EvidenceKnown'
        /\ \A g \in Rows(artifacts)' : g = e \/ g \in Rows(artifacts)
        /\ \A g \in Rows(artifacts) : g \in Rows(artifacts)'
        /\ e \in Rows(artifacts)'
    BY <1>1, <1>9, <2>1, <2>a, ArtifactIsAdded
  <2>3. Grows
    BY <1>1, <1>6, <1>9, <2>2 DEF Grows
  <2>4. Reached(l)' /\ Authored(l, a)'
    <3>1. Reached(l)'
      BY <1>4, <2>3, ReachedStays
    <3>2. CASE definition.pool[s] = {}
      BY <1>1, <1>4, <1>9, <3>1, <3>2 DEF Authored, AgentOf
    <3>3. CASE definition.pool[s] # {}
      <4>1. Independent(l, a)'
        BY <1>4, <1>9, <2>3, <3>3, IndependentStays DEF StagesInv
      <4>2. a # NoAgent
        BY <1>9, StageAssumption
      <4> QED BY <1>1, <1>4, <1>9, <3>1, <3>3, <4>1, <4>2 DEF Authored, AgentOf, Unassigned
    <3> QED BY <3>1, <3>2, <3>3
  <2>5. ArtifactsKnown'
    <3>1. \A g \in Rows(artifacts) : Reached(g.label)' /\ Authored(g.label, g.agent)'
      BY <2>3, ReachedStays, AuthoredStays DEF StagesInv, ArtifactsKnown, ArtifactKnown
    <3>2. \A g \in Rows(artifacts)' : Reached(g.label)' /\ Authored(g.label, g.agent)'
      BY <2>1, <2>2, <2>4, <3>1
    <3> QED BY <3>2 DEF ArtifactsKnown, ArtifactKnown
  <2>6. AnswersSaved'
    BY <1>1, <2>3, ArtifactsStay DEF StagesInv, AnswersSaved
  <2>7. CallsKnown'
    BY <1>1, <2>3, CallsStay
  <2>8. StageTablesTyped'
    BY <1>1, <1>9, <2>2 DEF StagesInv, StageTablesTyped
  <2>9. OpenCalls'
    BY <1>1, <1>2 DEF OpenCalls
  <2>10. /\ N' = N /\ \A x \in 1..(s - 1) : Earned(x)' /\ HasArtifact(<<x, 0>>)'
         /\ job.repair > 0 => \A x \in {s} : HasArtifact(<<x, 0>>)'
         /\ gate => \A x \in 1..N : Earned(x)'
    BY <2>3, KnownStays
  <2>11. \A x \in {s} : Earned(x)' /\ HasArtifact(<<x, 0>>)'
    <3>1. \A x \in {s} : HasArtifact(<<x, 0>>)'
      BY <1>a, <2>1, <2>2 DEF HasArtifact
    <3>2. \A x \in {s} : Earned(x)'
      BY <1>2, <1>6, <1>a, <2>1, <2>2 DEF Earned
    <3> QED BY <3>1, <3>2
  <2>12. \A m \in Labels : m[1] >= s + 1 => Unassigned(m)' /\ ~HasArtifact(m)'
    <3>1. \A m \in Labels : m[1] >= s + 1 => m # l /\ m[1] >= s
      BY <1>3, <1>4, LabelParts
    <3>2. \A m : HasArtifact(m)' => HasArtifact(m) \/ m = l
      BY <2>1, <2>2 DEF HasArtifact
    <3> QED BY <1>2, <1>9, <3>1, <3>2 DEF Unassigned
  <2>13. artifacts' # <<>>
    BY <2>2 DEF Rows
  <2>14. CASE s = N /\ job' = [job EXCEPT !.at = "finalize"]
    <3>1. job'.at = "finalize" /\ job'.stage = s
      BY <2>14 DEF StagesInv, JobTyped
    <3>2. JobTyped'
      <4> HIDE DEF N
      <4> QED BY <1>1, <1>2, <1>6, <2>10, <3>1 DEF StagesInv, JobTyped
    <3>3. \A x \in 1..N : x \in 1..(s - 1) \/ x \in {s}
      BY <1>3, <2>14
    <3>4. JobProgress'
      BY <1>1, <1>6, <2>10, <2>11, <3>1, <3>3 DEF JobProgress
    <3> QED BY <2>2, <2>5, <2>6, <2>7, <2>8, <2>9, <3>2, <3>4 DEF StagesInv
  <2>15. CASE s # N /\ job' = [job EXCEPT !.stage = @ + 1]
    <3>1. job'.at = "engine" /\ job'.stage = s + 1
      BY <1>1, <2>15 DEF StagesInv, JobTyped
    <3>2. s + 1 \in 1..N /\ s + 1 \in 1..(Stages + 1)
      BY <1>2, <1>3, <2>15
    <3>3. JobTyped'
      <4> HIDE DEF N
      <4> QED BY <1>1, <1>2, <1>6, <2>10, <2>12, <3>1, <3>2 DEF StagesInv, JobTyped
    <3>4. \A x \in 1..((s + 1) - 1) : x \in 1..(s - 1) \/ x \in {s}
      BY <1>3
    <3>5. job.repair > 0 => FALSE
      BY <1>2, <1>3, <1>4, <1>a DEF StagesInv, JobProgress
    <3>6. JobProgress'
      BY <1>1, <1>6, <2>10, <2>11, <3>1, <3>4, <3>5 DEF JobProgress
    <3> QED BY <2>2, <2>5, <2>6, <2>7, <2>8, <2>9, <3>3, <3>6 DEF StagesInv
  <2> QED BY <1>9, <2>14, <2>15
<1>10. Subjects(s) \in SUBSET Nat
  <2>1. \A n \in Nat : \A i \in 1..n : i \in Nat
    OBVIOUS
  <2>2. Len(artifacts) \in Nat
    BY <1>5
  <2> QED BY <2>1, <2>2 DEF Subjects
<1>11. ASSUME NEW a,
              a \in IF definition.pool[s] = {} THEN {definition.agent[s]} \ disabled
                    ELSE Eligible(s, Subjects(s)),
              reviewers' = IF definition.pool[s] = {} THEN reviewers
                           ELSE [reviewers EXCEPT ![l] = [agent |-> a, subjects |-> Subjects(s)]],
              \/ /\ artifacts' = Append(artifacts, Artifact(l, a, "passed"))
                 /\ job' = IF s = N THEN [job EXCEPT !.at = "finalize"]
                           ELSE [job EXCEPT !.stage = @ + 1]
              \/ UNCHANGED artifacts /\ job' = [job EXCEPT !.at = "over"]
       PROVE  StagesInv'
  <2>1. a \in DOMAIN ModelOf
    <3>1. CASE definition.pool[s] = {}
      BY <1>2, <1>11, <3>1, DefinitionKnown DEF StagesInv, StageTablesTyped
    <3>2. CASE definition.pool[s] # {}
      BY <1>4, <1>11, <3>2, EligibleIndependent
    <3> QED BY <3>1, <3>2
  <2>2. definition.pool[s] # {} => Independent(l, a)
    BY <1>4, <1>11, EligibleIndependent
  <2>3. PICK r \in ReviewerRows : r = [agent |-> a, subjects |-> Subjects(s)]
    BY <1>10, <2>1 DEF ReviewerRows
  <2>4. /\ reviewers' \in [Labels -> ReviewerRows]
        /\ \A m \in Labels : ~Unassigned(m) => reviewers'[m] = reviewers[m]
        /\ \A m \in Labels : m # l => reviewers'[m] = reviewers[m]
    BY <1>7, <1>11, <2>3
  <2>5. definition.pool[s] # {} => reviewers'[l].agent = a
    BY <1>4, <1>5, <1>11
  <2>6. definition.pool[s] = {} => a = definition.agent[s]
    BY <1>11
  <2>7. CASE UNCHANGED artifacts /\ job' = [job EXCEPT !.at = "over"]
    BY <1>8, <2>4, <2>7
  <2>8. CASE /\ artifacts' = Append(artifacts, Artifact(l, a, "passed"))
             /\ job' = IF s = N THEN [job EXCEPT !.at = "finalize"]
                       ELSE [job EXCEPT !.stage = @ + 1]
    BY <1>9, <2>1, <2>2, <2>4, <2>5, <2>6, <2>8
  <2> QED BY <1>11, <2>7, <2>8
<1>12. CASE /\ UNCHANGED <<artifacts, reviewers>> /\ job' = [job EXCEPT !.at = "over"]
  BY <1>5, <1>8, <1>12
<1> QED BY <1>a, <1>11, <1>12 DEF EngineStage

-----------------------------------------------------------------------------
LEMMA StagesBegin == SEInit => StagesInv
<1> SUFFICES ASSUME SEInit PROVE StagesInv
  OBVIOUS
<1>1. calls = <<>> /\ artifacts = <<>> /\ evidence = <<>> /\ Rows(<<>>) = {} /\ Len(<<>>) = 0
  BY DEF SEInit, Rows
<1>2. /\ DOMAIN job = {"at", "by", "stage", "repair", "tries", "paused", "cancelled"}
      /\ job.at = "asked" /\ job.stage = 1 /\ job.repair = 0 /\ ~gate
  BY DEF SEInit
<1>3. StageTablesTyped
  <2>1. NoReviewer \in ReviewerRows
    BY DEF NoReviewer, ReviewerRows
  <2>2. <<>> \in Seq(CallRows) /\ <<>> \in Seq(ArtifactRows) /\ <<>> \in Seq(EvidenceRows)
    OBVIOUS
  <2> QED BY <1>1, <2>1, <2>2 DEF SEInit, StageTablesTyped
<1>4. \A l \in Labels : Unassigned(l)
  BY DEF SEInit, Unassigned, NoReviewer
<1>5. JobTyped
  BY <1>1, <1>2, <1>4, StageAssumption DEF JobTyped
<1>6. JobProgress
  BY <1>2 DEF JobProgress
<1>7. AnswersSaved
  BY DEF SEInit, AnswersSaved, Verdicts
<1>8. OpenCalls /\ EvidenceKnown
  BY <1>1 DEF OpenCalls, EvidenceKnown, VerifierKept
<1>9. CallsKnown /\ ArtifactsKnown
  BY <1>1 DEF CallsKnown, ArtifactsKnown
<1> QED BY <1>3, <1>5, <1>6, <1>7, <1>8, <1>9 DEF StagesInv

LEMMA StagesStep == StagesInv /\ [SENext]_sevars => StagesInv'
<1> SUFFICES ASSUME StagesInv, [SENext]_sevars PROVE StagesInv'
  OBVIOUS
<1>1. CASE UNCHANGED sevars
  <2> UNCHANGED <<job, gate, definition, calls, mutations, artifacts, reviewers, evidence>>
    BY <1>1 DEF sevars
  <2> QED BY StagesStay
<1>2. CASE SENext
  BY <1>2, RunIsStarted, JobIsSignalled, ContextIsLoaded, StageIsScheduled, JobIsFinished,
     StageIsRun, AnswerIsTaken, CallIsTried, MutationIsLooked, MutationIsInserted,
     ArtifactIsRecovered, AgentIsChosen, ReviewerIsAssigned, ProviderIsCalled, ArtifactIsSaved,
     AnswerIsStored, CallIsKilled, AgentIsDisabled, ArtifactIsReviewed, EvidenceIsLinked,
     LockIsRead, EvidenceIsAccepted, EvidenceIsRejected DEF SENext
<1> QED BY <1>1, <1>2

LEMMA StagesHold == SESpec => []StagesInv
  BY StagesBegin, StagesStep, PTL DEF SESpec

\* Every execution of a stage's activity answers with the one answer that is stored for it; what
\* a pool's stage wrote was written by its one reviewer, of another model than all it reviewed;
\* the founder is asked only when every stage was answered as passed; and who verified an
\* artifact is kept once it is evidence. For any stages, repairs, executions and faults.
THEOREM StagesAreSound == SESpec => []StagesSound
<1>1. StagesInv => StagesSound
  <2> SUFFICES ASSUME StagesInv PROVE StagesSound
    OBVIOUS
  <2>1. AnswersStored
    BY CallRow DEF AnswersStored, CallKnown
  <2>2. ReviewsIndependent
    <3>1. ASSUME NEW i \in 1..Len(artifacts), NEW l, l = artifacts[i].label,
                 definition.pool[l[1]] # {}
          PROVE  /\ ~Unassigned(l) /\ artifacts[i].agent = reviewers[l].agent
                 /\ \A x \in definition.reviews[l[1]] : \A k \in Saved(<<x, 0>>) :
                       ModelOf[artifacts[k].agent] # ModelOf[artifacts[i].agent]
      <4>1. artifacts[i] \in Rows(artifacts)
        BY DEF Rows
      <4>2. Reached(l) /\ Authored(l, artifacts[i].agent)
        BY <3>1, <4>1 DEF StagesInv, ArtifactsKnown, ArtifactKnown
      <4>3. ASSUME NEW x \in definition.reviews[l[1]], NEW k \in Saved(<<x, 0>>)
            PROVE  artifacts[k].agent = AgentOf(<<x, 0>>)
        BY SavedKnown DEF StagesInv, ArtifactsKnown, ArtifactKnown, Authored
      <4>4. ~Unassigned(l) /\ artifacts[i].agent = reviewers[l].agent
        BY <3>1, <4>2 DEF Authored, AgentOf
      <4>5. \A x \in definition.reviews[l[1]] : ModelOf[AgentOf(<<x, 0>>)] # ModelOf[artifacts[i].agent]
        BY <3>1, <4>2 DEF Authored, Independent
      <4> QED BY <4>3, <4>4, <4>5
    <3> QED BY <3>1 DEF ReviewsIndependent
  <2>3. GateEarned
    <3>1. gate => \A s \in 1..N : Earned(s)
      BY DEF StagesInv, JobProgress
    <3>2. \A l : \A e \in Rows(artifacts) : e.label = l => \E i \in Saved(l) : artifacts[i] = e
      BY DEF Rows, Saved
    <3> QED BY <3>1, <3>2 DEF GateEarned, Earned
  <2> QED BY <2>1, <2>2, <2>3 DEF StagesSound, StagesInv, EvidenceKnown
<1> QED BY <1>1, StagesHold, PTL

=============================================================================
