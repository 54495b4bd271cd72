---------------------------- MODULE WorkerRuntime ----------------------------
(* Qualified admission of workers (worker_admission.py), the start boundary   *)
(* of a runtime (worker_runtime.py) and the sessions of storage.py, up to the *)
(* emergency stop.                                                            *)
(*                                                                            *)
(* An assignment and its lease move together here: which lease is due is the  *)
(* concern of TaskScheduler, and here any active lease may end. Every         *)
(* operation of storage.py below is one transaction; a start is a sequence of *)
(* them around a call of an external driver, and its process may be killed at *)
(* any point. The driver's process is outside the database: it goes on after  *)
(* its lease, its session or its starter ended.                               *)
EXTENDS Naturals, FiniteSets

CONSTANTS
    Workers,        \* logical workers, aliases on one executor with one pool
    Admitted,       \* assignments made by admit
    Unregistered,   \* assignments of workers outside any pool
    WorkerOf,       \* the worker of each admitted assignment
    Launches,       \* calls of WorkerRuntime.start
    LaunchOf,       \* the assignment each starts
    MaxCapacity,    \* the largest pool a host configures
    MaxChanges,     \* bound of the model: changes of registration or lifecycle
    NoLaunch        \* runtime_session_id IS NULL

ASSUME WorkersAssumption ==
    /\ IsFiniteSet(Admitted) /\ Admitted \cap Unregistered = {}
    /\ WorkerOf \in [Admitted -> Workers]
    /\ LaunchOf \in [Launches -> Admitted \cup Unregistered]
    /\ NoLaunch \notin Launches
    /\ MaxCapacity \in Nat \ {0} /\ MaxChanges \in Nat

VARIABLES
    lifecycle,      \* worker_lifecycle: state and version
    registered,     \* pool, worker, project and qualification versions, per worker
    capacity,       \* worker_capacity_pools.capacity
    admission,      \* worker_admissions: occupancy and the versions admitted under
    assigned,       \* assignments.status and that of the lease
    attempt,        \* attempts.status
    session,        \* worker_sessions.status of the session a start inserted
    reserved,       \* worker_admissions.runtime_session_id
    halted,         \* policy_state.emergency_stop
    starting,       \* how far a start is
    process,        \* the external process a start called the driver for
    changes         \* how many of the bounded changes happened

rows == <<admission, assigned, attempt, session, reserved>>
registry == <<lifecycle, registered, capacity, changes>>
wvars == <<rows, registry, halted, starting, process>>

Assignments == Admitted \cup Unregistered
LiveSession == {"starting", "running", "suspended"}

\* lifecycle.py: where set_worker_lifecycle may move from a state.
LifecycleMoves ==
    [active |-> {"draining", "quarantined", "offline"},
     draining |-> {"active", "quarantined", "offline"},
     quarantined |-> {"active", "offline"},
     offline |-> {"active", "quarantined"}]

\* Mutant: an admission whose lease ended no longer counts.
OccupiedWhileLeased ==
    {a \in Admitted : admission[a].occupancy = "occupied" /\ assigned[a] = "active"}

\* The admissions that count against the pool.
Occupied == {a \in Admitted : admission[a].occupancy = "occupied"}

\* The lifecycle part of _authority: the version admitted under, or the one
\* right after it, if that is the move to draining.
Standing(a) ==
    LET w == WorkerOf[a] IN
    \/ /\ lifecycle[w].version = admission[a].version
       /\ lifecycle[w].state \in {"active", "draining"}
    \/ /\ lifecycle[w].version = admission[a].version + 1
       /\ lifecycle[w].state = "draining"

\* _assert_fenced_lease with guard_lease and _authority.
Authority(a) ==
    /\ assigned[a] = "active"
    /\ a \in Admitted =>
          /\ admission[a].occupancy = "occupied"
          /\ registered[WorkerOf[a]] = admission[a].registered
          /\ Standing(a)
          /\ attempt[a] = "live"

\* validate_launch: a start also needs the worker active and unchanged.
MayStart(a) ==
    /\ Authority(a)
    /\ a \in Admitted => /\ lifecycle[WorkerOf[a]].state = "active"
                         /\ lifecycle[WorkerOf[a]].version = admission[a].version

-----------------------------------------------------------------------------
WInit ==
    /\ lifecycle = [w \in Workers |-> [state |-> "active", version |-> 1]]
    /\ registered = [w \in Workers |-> 1]
    /\ capacity = 1
    /\ admission = [a \in Admitted |-> [occupancy |-> "none", version |-> 0, registered |-> 0]]
    /\ assigned = [a \in Assignments |-> "none"]
    /\ attempt = [a \in Assignments |-> "none"]
    /\ session = [l \in Launches |-> "none"]
    /\ reserved = [a \in Admitted |-> NoLaunch]
    /\ halted = FALSE
    /\ starting = [l \in Launches |-> "idle"]
    /\ process = [l \in Launches |-> "none"]
    /\ changes = 0

\* admit: capacity, current worker and project, then the existing claim and the
\* first attempt. A repeated request returns the receipt it made.
Admit(a) ==
    /\ ~halted
    /\ admission[a].occupancy = "none"
    /\ lifecycle[WorkerOf[a]].state = "active"
    /\ Cardinality(Occupied) < capacity
    /\ admission' = [admission EXCEPT ![a] =
          [occupancy |-> "occupied", version |-> lifecycle[WorkerOf[a]].version,
           registered |-> registered[WorkerOf[a]]]]
    /\ assigned' = [assigned EXCEPT ![a] = "active"]
    /\ attempt' = [attempt EXCEPT ![a] = "live"]
    /\ UNCHANGED <<session, reserved, registry, halted, starting, process>>

\* claim_runnable_task of a worker nobody registered.
ClaimUnregistered(a) ==
    /\ ~halted
    /\ assigned[a] = "none"
    /\ assigned' = [assigned EXCEPT ![a] = "active"]
    /\ UNCHANGED <<admission, attempt, session, reserved, registry, halted,
                   starting, process>>

\* create_assignment_attempt, refused for an admitted assignment.
CreateAttempt(a) ==
    /\ a \in Unregistered /\ Authority(a)
    /\ attempt' = [attempt EXCEPT ![a] = "live"]
    /\ UNCHANGED <<admission, assigned, session, reserved, registry, halted,
                   starting, process>>

\* The lease is released by its holder or expired by whoever sees it due.
\* Attempts and sessions keep their status.
LeaseEnds(a) ==
    /\ assigned[a] = "active"
    /\ assigned' = [assigned EXCEPT ![a] = "over"]
    /\ UNCHANGED <<admission, attempt, session, reserved, registry, halted,
                   starting, process>>

\* update_hermes_acp_session with a terminal status ends the attempt.
AttemptEnds(a) ==
    /\ attempt[a] = "live"
    /\ attempt' = [attempt EXCEPT ![a] = "over"]
    /\ UNCHANGED <<admission, assigned, session, reserved, registry, halted,
                   starting, process>>

\* set_worker_lifecycle
SetLifecycle(w, state) ==
    /\ changes < MaxChanges
    /\ state \in LifecycleMoves[lifecycle[w].state]
    /\ lifecycle' = [lifecycle EXCEPT ![w] = [state |-> state, version |-> @.version + 1]]
    /\ changes' = changes + 1
    /\ UNCHANGED <<rows, registered, capacity, halted, starting, process>>

\* bind_worker and record_worker_qualification concern one worker, bind_project
\* those of the project's tenant.
Register(ws) ==
    /\ changes < MaxChanges
    /\ registered' = [w \in Workers |-> registered[w] + IF w \in ws THEN 1 ELSE 0]
    /\ changes' = changes + 1
    /\ UNCHANGED <<rows, lifecycle, capacity, halted, starting, process>>

\* configure_pool: never below what is occupied.
ConfigurePool(c) ==
    /\ changes < MaxChanges
    /\ c >= Cardinality(Occupied)
    /\ capacity' = c
    /\ registered' = [w \in Workers |-> registered[w] + 1]
    /\ changes' = changes + 1
    /\ UNCHANGED <<rows, lifecycle, halted, starting, process>>

\* The launcher of an admission can no longer call the driver.
Quiesced(a) ==
    \A l \in Launches : LaunchOf[l] = a =>
        /\ starting[l] \notin {"reserved", "cleared"}
        /\ process[l] # "alive"

\* reconcile_stopped: the host has shown that the process is gone and that no
\* start is in flight (docs/worker-admission.md asks for both).
ReconcileStopped(a) ==
    /\ a \in Occupied /\ Quiesced(a)
    /\ admission' = [admission EXCEPT ![a].occupancy = "stopped"]
    /\ assigned' = [assigned EXCEPT ![a] = "over"]
    /\ attempt' = [attempt EXCEPT ![a] = "over"]
    /\ session' = [l \in Launches |-> IF reserved[a] = l /\ session[l] \in LiveSession
                                      THEN "cancelled" ELSE session[l]]
    /\ UNCHANGED <<reserved, registry, halted, starting, process>>

-----------------------------------------------------------------------------
Step(l, from, to) ==
    /\ starting[l] = from
    /\ starting' = [starting EXCEPT ![l] = to]

\* _validate_launch
Validate(l) ==
    /\ MayStart(LaunchOf[l])
    /\ Step(l, "idle", "validated")
    /\ UNCHANGED <<rows, registry, halted, process>>

\* Mutant: a reservation whose session has not started yet is made again.
ReservableUnlessStarted(a) ==
    reserved[a] # NoLaunch => session[reserved[a]] = "starting"

Reservable(a) == reserved[a] = NoLaunch

\* _reserve_admitted_launch: the session and its reservation in one transaction.
\* A start that finds the reservation returns the session it names.
Reserve(l) ==
    LET a == LaunchOf[l] IN
    /\ a \in Admitted /\ MayStart(a)
    /\ IF Reservable(a)
       THEN /\ Step(l, "validated", "reserved")
            /\ session' = [session EXCEPT ![l] = "starting"]
            /\ reserved' = [reserved EXCEPT ![a] = l]
       ELSE /\ Step(l, "validated", "done")
            /\ UNCHANGED <<session, reserved>>
    /\ UNCHANGED <<admission, assigned, attempt, registry, halted, process>>

\* create_runtime_session under the assignment's fence.
CreateSession(l) ==
    LET a == LaunchOf[l] IN
    /\ a \in Unregistered /\ Authority(a)
    /\ Step(l, "validated", "reserved")
    /\ session' = [session EXCEPT ![l] = "starting"]
    /\ UNCHANGED <<admission, assigned, attempt, reserved, registry, halted, process>>

\* The last validation before the driver is called, after the approval and the
\* mission's fence; assignments outside admission are not validated again.
Clear(l) ==
    /\ LaunchOf[l] \in Admitted => MayStart(LaunchOf[l])
    /\ Step(l, "reserved", "cleared")
    /\ UNCHANGED <<rows, registry, halted, process>>

\* driver.start: the process may start although the answer is lost.
Dispatch(l, answered) ==
    /\ Step(l, "cleared", IF answered THEN "dispatched" ELSE "failed")
    /\ process' = [process EXCEPT ![l] = "alive"]
    /\ UNCHANGED <<rows, registry, halted>>

\* start_runtime_session binds the external identity.
Bind(l) ==
    /\ session[l] = "starting"
    /\ LaunchOf[l] \in Admitted => Authority(LaunchOf[l])
    /\ Step(l, "dispatched", "done")
    /\ session' = [session EXCEPT ![l] = "running"]
    /\ UNCHANGED <<admission, assigned, attempt, reserved, registry, halted, process>>

\* Any step of a start may refuse or raise from the moment it has a session.
Raise(l) ==
    /\ starting[l] \in {"reserved", "cleared", "dispatched"}
    /\ starting' = [starting EXCEPT ![l] = "failed"]
    /\ UNCHANGED <<rows, registry, halted, process>>

\* The exception handler: an event in the live session, and the end of a
\* session without reservation; a reservation is kept as uncertain.
Fail(l) ==
    /\ Step(l, "failed", "done")
    /\ session' = IF session[l] \in LiveSession /\ LaunchOf[l] \in Unregistered
                  THEN [session EXCEPT ![l] = "failed"] ELSE session
    /\ UNCHANGED <<admission, assigned, attempt, reserved, registry, halted, process>>

KillStarter(l) ==
    /\ starting[l] \notin {"idle", "done"}
    /\ starting' = [starting EXCEPT ![l] = "done"]
    /\ UNCHANGED <<rows, registry, halted, process>>

ProcessEnds(l) ==
    /\ process[l] = "alive"
    /\ process' = [process EXCEPT ![l] = "gone"]
    /\ UNCHANGED <<rows, registry, halted, starting>>

SessionMoves(l, from, to) ==
    /\ session[l] \in from
    /\ session' = [session EXCEPT ![l] = to]
    /\ UNCHANGED <<admission, assigned, attempt, reserved, registry, halted,
                   starting, process>>

Suspend(l) == SessionMoves(l, {"running"}, "suspended")

Owned(l) == LaunchOf[l] \in Admitted =>
               /\ reserved[LaunchOf[l]] = l
               /\ Authority(LaunchOf[l])

Resume(l) == Owned(l) /\ SessionMoves(l, {"suspended"}, "running")

\* cancel reads the status before its transaction; the trigger on the session's
\* status refuses a cancellation that a finalize overtook. The driver is asked
\* to stop the process, which ends in its own time.
Cancel(l) == SessionMoves(l, LiveSession, "cancelled")

\* finalize records what the driver reports; success needs the authority still.
Finalize(l, outcome) ==
    IF outcome = "succeeded" THEN Owned(l) /\ SessionMoves(l, {"running"}, "succeeded")
                             ELSE SessionMoves(l, LiveSession, outcome)

\* set_emergency_stop: every session, attempt, assignment and lease at once. The
\* state is read before the transaction: a stop or a clear that acts on an old
\* reading is a later stop or clear.
HaltAll ==
    /\ ~halted
    /\ halted' = TRUE
    /\ assigned' = [a \in Assignments |-> IF assigned[a] = "active" THEN "over" ELSE assigned[a]]
    /\ attempt' = [a \in Assignments |-> IF attempt[a] = "live" THEN "over" ELSE attempt[a]]
    /\ session' = [l \in Launches |-> IF session[l] \in LiveSession THEN "cancelled" ELSE session[l]]
    /\ UNCHANGED <<admission, reserved, registry, starting, process>>

Unhalt ==
    /\ halted
    /\ halted' = FALSE
    /\ UNCHANGED <<rows, registry, starting, process>>

Start(l) ==
    \/ Validate(l) \/ Reserve(l) \/ CreateSession(l) \/ Clear(l) \/ Bind(l)
    \/ \E answered \in BOOLEAN : Dispatch(l, answered)
    \/ Raise(l) \/ Fail(l) \/ KillStarter(l)

Registry ==
    \/ \E w \in Workers, s \in DOMAIN LifecycleMoves : SetLifecycle(w, s)
    \/ \E w \in Workers : Register({w})
    \/ Register(Workers)
    \/ \E c \in 1..MaxCapacity : ConfigurePool(c)

WNext ==
    \/ \E a \in Admitted : Admit(a) \/ ReconcileStopped(a)
    \/ \E a \in Unregistered : ClaimUnregistered(a) \/ CreateAttempt(a)
    \/ \E a \in Assignments : LeaseEnds(a) \/ AttemptEnds(a)
    \/ Registry
    \/ \E l \in Launches :
          \/ Start(l) \/ ProcessEnds(l)
          \/ Suspend(l) \/ Resume(l) \/ Cancel(l)
          \/ \E outcome \in {"succeeded", "failed", "cancelled"} : Finalize(l, outcome)
    \/ HaltAll \/ Unhalt

WSpec == WInit /\ [][WNext]_wvars

-----------------------------------------------------------------------------
Processes == {l \in Launches : LaunchOf[l] \in Admitted /\ process[l] = "alive"}

WTypeOK ==
    /\ lifecycle \in [Workers -> [state : DOMAIN LifecycleMoves, version : Nat]]
    /\ registered \in [Workers -> Nat]
    /\ capacity \in 1..MaxCapacity
    /\ admission \in [Admitted -> [occupancy : {"none", "occupied", "stopped"},
                                   version : Nat, registered : Nat]]
    /\ assigned \in [Assignments -> {"none", "active", "over"}]
    /\ attempt \in [Assignments -> {"none", "live", "over"}]
    /\ session \in [Launches -> LiveSession \cup {"none", "succeeded", "failed", "cancelled"}]
    /\ reserved \in [Admitted -> Launches \cup {NoLaunch}]
    /\ halted \in BOOLEAN
    /\ starting \in [Launches -> {"idle", "validated", "reserved", "cleared",
                                  "dispatched", "failed", "done"}]
    /\ process \in [Launches -> {"none", "alive", "gone"}]
    /\ changes \in 0..MaxChanges

\* The executor never runs more processes than its pool allows, although leases
\* expire, sessions are cancelled, starters die and the stop revokes everything
\* while a process goes on: only reconcile_stopped gives its place away.
ProcessesWithinCapacity == Cardinality(Processes) <= capacity

\* At most one start of an admission calls the driver, whatever repeats, fails
\* or is killed: "not an invitation to retry the external start"
\* (docs/worker-admission.md).
DispatchedOnce ==
    \A a \in Admitted :
        Cardinality({l \in Launches : LaunchOf[l] = a /\ process[l] # "none"}) <= 1

\* Under the emergency stop no session, attempt or lease is live, although
\* sessions are inserted and resumed without looking at the stop.
NothingLiveUnderStop ==
    halted => /\ \A l \in Launches : session[l] \notin LiveSession
              /\ \A a \in Assignments : assigned[a] # "active" /\ attempt[a] # "live"

\* The two together, of every admitted assignment's launches.
LaunchesSound == DispatchedOnce /\ NothingLiveUnderStop

\* What makes them inductive: the pool is never overbooked, a start that is past
\* its reservation, and its process, are the reserved ones, and their admission
\* keeps its place for as long as the driver may be called or runs.
ReservedOnes ==
    \A l \in Launches : LaunchOf[l] \in Admitted =>
        /\ starting[l] \in {"reserved", "cleared", "dispatched", "failed"} \/ process[l] # "none"
              => reserved[LaunchOf[l]] = l
        /\ starting[l] \in {"reserved", "cleared"} \/ process[l] = "alive"
              => LaunchOf[l] \in Occupied

WorkersInv ==
    WTypeOK /\ ReservedOnes /\ NothingLiveUnderStop /\ Cardinality(Occupied) <= capacity
=============================================================================
