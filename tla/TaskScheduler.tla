---------------------------- MODULE TaskScheduler ----------------------------
(***************************************************************************)
(* The dependency scheduler of storage.py: work items, the assignments and *)
(* fenced leases claimed on them, the conflict domains a claim reserves,   *)
(* lease expiry and the emergency stop.                                    *)
(*                                                                         *)
(* Every process (web server, CLI, worker) opens the same SQLite file. An  *)
(* operation that begins with BEGIN IMMEDIATE holds the only write lock    *)
(* from its first read, so it is one action here.  set_emergency_stop      *)
(* reads before it takes the lock; only a late clear makes that visible,   *)
(* and it is split in two.  transition_task reads first too, but its       *)
(* UPDATE repeats the status and version it read.                          *)
(*                                                                         *)
(* The clock is read after the lock is taken, by whichever process runs    *)
(* the operation, and callers may pass `now` themselves: a reading is any  *)
(* instant, so no property relies on clocks that agree or never step back. *)
(***************************************************************************)
EXTENDS Integers, SequencesExt

CONSTANTS
    Tasks,      \* work items of kind "task"
    Project,    \* the project of each work item
    Deps,       \* the work items each depends on
    Ids,        \* row ids for assignments (each claim inserts one, with one lease)
    Requests,   \* the conflict-domain lists a caller may pass, sets of paths
    Instants,   \* clock readings
    Ttls        \* lease durations

ASSUME SchedulerAssumption ==
    /\ Deps \in [Tasks -> SUBSET Tasks]
    /\ DOMAIN Project = Tasks
    /\ \A r \in Requests : r \subseteq Seq(STRING)
    /\ Instants \subseteq Nat
    /\ Ttls \subseteq Nat \ {0}

VARIABLES
    status,     \* work_items.status, "absent" before create_task
    claim,      \* the columns of an assignment and its lease that never change
    asg,        \* assignments.status
    lease,      \* leases.status
    expires,    \* leases.expires_at
    stop,       \* policy_state.emergency_stop
    clearing,   \* a clear of the stop has read the state and not yet written
    high        \* newest token in the authorised events of each domain

vars == <<status, claim, asg, lease, expires, stop, clearing, high>>
leases == <<claim, asg, lease, expires>>

-----------------------------------------------------------------------------
\* Conflict domains are paths below the project; no request claims it whole.
Normalize(t, paths) ==
    IF paths = {} THEN {<<Project[t]>>}
                  ELSE {<<Project[t]>> \o p : p \in paths}

\* Mutant: forgets that a request may also lie above a reserved domain.
OverlapBelowOnly(d, e) == IsPrefix(d, e)

Overlap(d, e) == IsPrefix(d, e) \/ IsPrefix(e, d)

Scopes == {Normalize(t, r) : t \in Tasks, r \in Requests}
Domains == UNION Scopes

NoClaim == [token |-> 0]
Claims == [task : Tasks, scope : Scopes, token : Nat \ {0}]

TaskMoves ==
    {<<"pending", "running">>, <<"pending", "failed">>,
     <<"running", "completed">>, <<"running", "failed">>,
     <<"completed", "approved">>, <<"completed", "rejected">>,
     <<"failed", "pending">>}

Live(a) == asg[a] = "active" /\ lease[a] = "active"

\* _expire_scheduler_leases: the lease and, if still active, its assignment.
Due(now) == {a \in Ids : lease[a] = "active" /\ expires[a] <= now}
LeaseAt(now) == [a \in Ids |-> IF a \in Due(now) THEN "expired" ELSE lease[a]]
AsgAt(now) == [a \in Ids |-> IF a \in Due(now) /\ asg[a] = "active"
                               THEN "cancelled" ELSE asg[a]]
Expire(now) == lease' = LeaseAt(now) /\ asg' = AsgAt(now)

Holding(now) == {a \in Ids : Live(a) /\ expires[a] > now}

\* Mutant: the fence compares the token and forgets the lease's state.
FencedByToken(a, k, now) == asg[a] # "none" /\ claim[a].token = k

\* _assert_fenced_lease, evaluated after the expiry above.
Fenced(a, k, now) == a \in Holding(now) /\ claim[a].token = k

\* _task_blockers: status, dependencies of the same project, live assignment.
Runnable(t, now) ==
    /\ status[t] = "pending"
    /\ \A d \in Deps[t] : /\ Project[d] = Project[t]
                          /\ status[d] \in {"completed", "approved"}
    /\ \A a \in Holding(now) : claim[a].task # t

\* Mutant: only the work item itself conflicts.
ConflictingTask(t, scope, now) == {a \in Holding(now) : claim[a].task = t}

Conflicting(t, scope, now) ==
    {a \in Holding(now) : \/ claim[a].task = t
                          \/ \E d \in scope, e \in claim[a].scope : Overlap(d, e)}

\* SELECT COALESCE(MAX(fencing_token),0)+1 FROM leases: unused rows count as 0.
NextTokens ==
    {k \in {claim[a].token + 1 : a \in Ids} : \A a \in Ids : claim[a].token < k}

-----------------------------------------------------------------------------
Init ==
    /\ status = [t \in Tasks |-> "absent"]
    /\ claim = [a \in Ids |-> NoClaim]
    /\ asg = [a \in Ids |-> "none"]
    /\ lease = [a \in Ids |-> "none"]
    /\ expires = [a \in Ids |-> 0]
    /\ stop = FALSE
    /\ clearing = FALSE
    /\ high = [d \in Domains |-> 0]

\* A dependency is named by its id, so it exists already.
CreateTask(t) ==
    /\ status[t] = "absent"
    /\ \A d \in Deps[t] : status[d] # "absent"
    /\ status' = [status EXCEPT ![t] = "pending"]
    /\ UNCHANGED <<leases, stop, clearing, high>>

TransitionTask(t, target) ==
    /\ <<status[t], target>> \in TaskMoves
    /\ status' = [status EXCEPT ![t] = target]
    /\ UNCHANGED <<leases, stop, clearing, high>>

\* claim_runnable_task inserts the assignment, its domains and its lease.
Claim(t, paths, ttl, now) ==
    LET scope == Normalize(t, paths) IN
    /\ ~stop
    /\ Runnable(t, now)
    /\ Conflicting(t, scope, now) = {}
    /\ \E a \in Ids, k \in NextTokens :
          /\ asg[a] = "none"
          /\ claim' = [claim EXCEPT ![a] = [task |-> t, scope |-> scope, token |-> k]]
          /\ asg' = [AsgAt(now) EXCEPT ![a] = "active"]
          /\ lease' = [LeaseAt(now) EXCEPT ![a] = "active"]
          /\ expires' = [expires EXCEPT ![a] = now + ttl]
    /\ UNCHANGED <<status, stop, clearing, high>>

\* A busy domain is recorded and committed: only the expiries it made last.
ClaimConflict(t, paths, now) ==
    /\ ~stop
    /\ Runnable(t, now)
    /\ Conflicting(t, Normalize(t, paths), now) # {}
    /\ Expire(now)
    /\ UNCHANGED <<status, claim, expires, stop, clearing, high>>

\* assert_fenced_lease commits the expiries whether or not the fence holds.
AssertFencedLease(now) ==
    /\ Expire(now)
    /\ UNCHANGED <<status, claim, expires, stop, clearing, high>>

RenewLease(a, k, ttl, now) ==
    /\ Fenced(a, k, now)
    /\ Expire(now)
    /\ expires' = [expires EXCEPT ![a] = now + ttl]
    /\ UNCHANGED <<status, claim, stop, clearing, high>>

ReleaseLease(a, k, outcome, now) ==
    /\ Fenced(a, k, now)
    /\ lease' = [LeaseAt(now) EXCEPT ![a] = "released"]
    /\ asg' = [AsgAt(now) EXCEPT ![a] = outcome]
    /\ UNCHANGED <<status, claim, expires, stop, clearing, high>>

\* record_fenced_mutation, add_fenced_artifact, create_managed_worktree and
\* create_assignment_attempt: a write authorised by the fence it presents.
FencedMutation(a, k, now) ==
    /\ Fenced(a, k, now)
    /\ Expire(now)
    /\ high' = [d \in Domains |-> IF d \in claim[a].scope THEN k ELSE high[d]]
    /\ UNCHANGED <<status, claim, expires, stop, clearing>>

ActivateStop ==
    /\ ~stop
    /\ stop' = TRUE
    /\ asg' = [a \in Ids |-> IF asg[a] = "active" THEN "cancelled" ELSE asg[a]]
    /\ lease' = [a \in Ids |-> IF lease[a] = "active" THEN "revoked" ELSE lease[a]]
    /\ UNCHANGED <<status, claim, expires, clearing, high>>

ClearStopRead ==
    /\ stop
    /\ clearing' = TRUE
    /\ UNCHANGED <<status, leases, stop, high>>

ClearStopWrite ==
    /\ clearing
    /\ clearing' = FALSE
    /\ stop' = FALSE
    /\ UNCHANGED <<status, leases, high>>

Tokens == {claim[a].token : a \in Ids}

Next ==
    \/ \E t \in Tasks : CreateTask(t)
    \/ \E move \in TaskMoves, t \in Tasks : TransitionTask(t, move[2])
    \/ \E t \in Tasks, r \in Requests, ttl \in Ttls, now \in Instants :
          Claim(t, r, ttl, now)
    \/ \E t \in Tasks, r \in Requests, now \in Instants : ClaimConflict(t, r, now)
    \/ \E now \in Instants : AssertFencedLease(now)
    \/ \E a \in Ids, k \in Tokens, now \in Instants :
          \/ \E ttl \in Ttls : RenewLease(a, k, ttl, now)
          \/ \E outcome \in {"succeeded", "failed", "cancelled"} :
                ReleaseLease(a, k, outcome, now)
          \/ FencedMutation(a, k, now)
    \/ ActivateStop
    \/ ClearStopRead
    \/ ClearStopWrite

Spec == Init /\ [][Next]_vars

-----------------------------------------------------------------------------
\* Types of the tables' columns, and which rows exist.
TypeOK ==
    /\ status \in [Tasks -> {"absent", "pending", "running", "completed",
                             "approved", "rejected", "failed"}]
    /\ claim \in [Ids -> Claims \cup {NoClaim}]
    /\ asg \in [Ids -> {"none", "active", "cancelled", "succeeded", "failed"}]
    /\ lease \in [Ids -> {"none", "active", "expired", "released", "revoked"}]
    /\ expires \in [Ids -> Nat]
    /\ stop \in BOOLEAN
    /\ clearing \in BOOLEAN
    /\ high \in [Domains -> Nat]

\* Two workers never hold leases over overlapping conflict domains, nor over
\* the same work item, whatever clock each transaction read: the expiry, the
\* conflict query and the insert of claim_runnable_task are one transaction.
DomainsExclusive ==
    \A a, b \in Ids : a # b /\ Live(a) /\ Live(b) =>
        /\ claim[a].task # claim[b].task
        /\ \A d \in claim[a].scope, e \in claim[b].scope : ~Overlap(d, e)

\* While the emergency stop is in force no lease is active, so nothing is
\* renewed, released or written under it, also by a worker claimed before it.
StopRevokesLeases == stop => \A a \in Ids : lease[a] # "active"

\* Fencing: a worker that lost its lease and comes back late never writes
\* behind the worker that took over an overlapping part of the project.
WritesFollowTokens ==
    [][\A d \in Domains : high'[d] # high[d] =>
          \A e \in Domains : Overlap(d, e) => high[e] <= high'[d]]_vars

\* An expired, released or revoked lease stays so: renewing updates the row by
\* id alone and must never bring one back.
LeaseEndsOnce ==
    [][\A a \in Ids : lease[a] \notin {"none", "active"} =>
          lease'[a] = lease[a] /\ expires'[a] = expires[a] /\ asg'[a] = asg[a]]_vars

\* The inductive invariant: what the two theorems above a step rest on.
\* Both tables tell the same story about a row, every recorded write carries a
\* token that was issued, and no live lease is behind a write in its reach.
RowsMatch ==
    \A a \in Ids : /\ (asg[a] = "active") <=> (lease[a] = "active")
                   /\ (asg[a] = "none") <=> (lease[a] = "none")
                   /\ (asg[a] = "none") <=> (claim[a] = NoClaim)
HighIssued ==
    \A d \in Domains : high[d] = 0 \/ \E a \in Ids : high[d] = claim[a].token
FencesHold ==
    \A a \in Ids : Live(a) =>
        \A d \in claim[a].scope, e \in Domains :
            Overlap(d, e) => high[e] <= claim[a].token
IInv == /\ TypeOK /\ RowsMatch /\ StopRevokesLeases
        /\ DomainsExclusive /\ HighIssued /\ FencesHold

\* The scheduler implements exclusive, fenced grants of its conflict domains.
LiveIds == {a \in Ids : lease[a] = "active"}
Grants == INSTANCE FencedExclusion WITH
    granted <- {[token |-> claim[a].token, scope |-> claim[a].scope] : a \in LiveIds},
    issued <- {claim[a].token : a \in Ids} \ {0}
RefinesFencedExclusion == Grants!Spec
=============================================================================
