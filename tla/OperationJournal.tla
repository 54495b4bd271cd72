--------------------------- MODULE OperationJournal ---------------------------
(***************************************************************************)
(* MissionOperationJournal of durable_workflow.py with the part of         *)
(* LocalRecoveryService.reconstruct_mission that works on it.  An external *)
(* effect is reserved under a stable key, started, and completed, each by  *)
(* an event appended under the write lock; after a restart a recovery pass *)
(* decides what became of every operation before callers may go on.        *)
(*                                                                         *)
(* An event key names one event for good: appending under a used key       *)
(* repeats that event instead of adding one.                               *)
(***************************************************************************)
EXTENDS Integers, FiniteSets

CONSTANTS
    Ops,            \* the operation keys of a mission
    Retryable,      \* those with policy verify_then_retry or idempotent_replay
    VerifyOnly,     \* those of the installer, with policy verify_only
    Callers,        \* the processes that perform operations, each with its own key
    About,          \* the operation each performs
    Returning,      \* the callers that call again, under their key, after they died
    RecoveryKeys,   \* the keys recovery passes are run under
    MaxVersion,     \* bound of the model: changes of the mission
    MaxRestarts,    \* bound of the model: restarts of the host
    MaxRecords      \* bound of the model: recovery records per restart

ASSUME JournalAssumption ==
    /\ Retryable \subseteq Ops
    /\ VerifyOnly \subseteq Ops \ Retryable
    /\ About \in [Callers -> Ops]
    /\ Returning \subseteq Callers
    /\ MaxVersion \in Nat
    /\ MaxRestarts \in Nat
    /\ MaxRecords \in Nat
    /\ "none" \notin RecoveryKeys

VARIABLES
    life,       \* the lifecycle of the latest event, "absent" without a row
    keys,       \* the event keys used, with the lifecycle each was used for
    bound,      \* the mission version an operation was reserved under
    version,    \* autonomous_missions.version, standing for the whole scope
    running,    \* whether mission and control fence are RUNNING
    pc,         \* how far a caller is
    seen,       \* the mission version a caller read before it reserves
    effects,    \* the callers whose effect reached the outside world
    mode,       \* "up", or "recovering" from a restart to a RESUME_SAFE record
    pass,       \* the recovery pass under way
    recovered,  \* the keys with a row in autonomous_mission_recoveries
    restarts

vars == <<life, keys, bound, version, running, pc, seen, effects, mode, pass,
          recovered, restarts>>
journal == <<life, keys>>
mission == <<version, running>>
recovery == <<mode, pass, recovered, restarts>>

-----------------------------------------------------------------------------
EventKeys == ({"reserved"} \X Ops) \cup ({"start", "end", "unknown"} \X Callers)
             \cup ({"operator"} \X Ops)
             \cup ({"mark-unknown", "unsafe-reservation", "reserved-retry", "reconcile"}
                   \X RecoveryKeys)

Idle == [key |-> "none", version |-> 0, run |-> FALSE, sound |-> FALSE,
         todo |-> {}, safe |-> FALSE]

Executable(op) == life[op] \in {"reserved", "retry_ready"}
Terminal(op) == life[op] \in {"completed", "failed", "reconciled", "needs_attention"}
Used(op, key) == \E entry \in keys[op] : entry[1] = key

\* _append: a new event from one of the expected lifecycles.
AppendEvent(op, key, from, to) ==
    /\ ~Used(op, key)
    /\ life[op] \in from
    /\ life' = [life EXCEPT ![op] = to]
    /\ keys' = [keys EXCEPT ![op] = @ \cup {<<key, to>>}]

\* _append: the event is there already and the same; nothing is written.
Repeat(op, key, to) == <<key, to>> \in keys[op] /\ UNCHANGED journal

\* _append raises: bound differently, or another lifecycle than expected.
Refused(op, key, from, to) ==
    /\ IF Used(op, key) THEN <<key, to>> \notin keys[op] ELSE life[op] \notin from
    /\ UNCHANGED journal

-----------------------------------------------------------------------------
Init ==
    /\ life = [op \in Ops |-> "absent"]
    /\ keys = [op \in Ops |-> {}]
    /\ bound = [op \in Ops |-> 0]
    /\ version = 1
    /\ running = TRUE
    /\ pc = [c \in Callers |-> "idle"]
    /\ seen = [c \in Callers |-> 0]
    /\ effects = [op \in Ops |-> {}]
    /\ mode = "up"
    /\ pass = Idle
    /\ recovered = {}
    /\ restarts = 0

\* A mission mutation, or a pause or resume through the control fence.
ChangeMission(run) ==
    /\ version <= MaxVersion
    /\ version' = version + 1
    /\ running' = run
    /\ UNCHANGED <<journal, bound, pc, seen, effects, recovery>>

\* What reserve answers for an operation that exists.
Tell(op) == IF Executable(op) THEN "told" ELSE "gone"

\* reserve, outside the lock: an existing operation answers; otherwise the
\* scope is read.
ReserveRead(c) ==
    LET op == About[c] IN
    /\ mode = "up" /\ pc[c] = "idle"
    /\ \/ /\ life[op] # "absent"
          /\ pc' = [pc EXCEPT ![c] = Tell(op)]
          /\ UNCHANGED seen
       \/ /\ life[op] = "absent" /\ running
          /\ pc' = [pc EXCEPT ![c] = "scoped"]
          /\ seen' = [seen EXCEPT ![c] = version]
    /\ UNCHANGED <<journal, bound, mission, effects, recovery>>

\* The trigger autonomous_mission_operation_scope_valid.
ScopeHolds(c) == running /\ version = seen[c]

\* reserve, under the lock: inserted, or the scope went stale, or a concurrent
\* reservation answers.
ReserveInsert(c) ==
    LET op == About[c] IN
    /\ pc[c] = "scoped"
    /\ \/ /\ life[op] = "absent" /\ ScopeHolds(c)
          /\ AppendEvent(op, <<"reserved", op>>, {"absent"}, "reserved")
          /\ bound' = [bound EXCEPT ![op] = seen[c]]
          /\ pc' = [pc EXCEPT ![c] = "told"]
       \/ /\ ~ScopeHolds(c)
          /\ pc' = [pc EXCEPT ![c] = "gone"]
          /\ UNCHANGED <<journal, bound>>
       \/ /\ life[op] # "absent" /\ ScopeHolds(c)
          /\ pc' = [pc EXCEPT ![c] = Tell(op)]
          /\ UNCHANGED <<journal, bound>>
    /\ UNCHANGED <<mission, seen, effects, recovery>>

\* Mutant: start goes on from every lifecycle that is not terminal.
StartsFromOpen == {"reserved", "retry_ready", "running", "unknown"}

StartsFrom == {"reserved", "retry_ready"}

\* start; a caller goes on when the returned operation is running.
Start(c) ==
    LET op == About[c]  key == <<"start", c>> IN
    /\ pc[c] = "told"
    /\ \/ /\ AppendEvent(op, key, StartsFrom, "running")
          /\ pc' = [pc EXCEPT ![c] = "started"]
       \/ /\ Repeat(op, key, "running")
          /\ pc' = [pc EXCEPT ![c] = IF life[op] = "running" THEN "started" ELSE "gone"]
       \/ /\ Refused(op, key, StartsFrom, "running")
          /\ pc' = [pc EXCEPT ![c] = "gone"]
    /\ UNCHANGED <<bound, mission, seen, effects, recovery>>

\* The caller's effect on the outside world.
Effect(c) ==
    /\ pc[c] = "started"
    /\ effects' = [effects EXCEPT ![About[c]] = @ \cup {c}]
    /\ pc' = [pc EXCEPT ![c] = "applied"]
    /\ UNCHANGED <<journal, bound, mission, seen, recovery>>

\* complete after the effect, fail when it is known not to have happened, and
\* mark_unknown when an exception leaves that open.
Report(c, to) ==
    LET op == About[c]  key == <<IF to = "unknown" THEN "unknown" ELSE "end", c>>
        from == IF to = "unknown" THEN {"reserved", "running", "retry_ready"} ELSE {"running"}
    IN
    /\ pc[c] \in CASE to = "completed" -> {"applied"}
                   [] to = "failed" -> {"started"}
                   [] to = "unknown" -> {"started", "applied"}
    /\ \/ AppendEvent(op, key, from, to)
       \/ Repeat(op, key, to)
       \/ Refused(op, key, from, to)
    /\ pc' = [pc EXCEPT ![c] = "gone"]
    /\ UNCHANGED <<bound, mission, seen, effects, recovery>>

\* A caller is killed, or a gone one is called again under its key.
CallerDies(c) ==
    /\ pc[c] \notin {"idle", "gone"}
    /\ pc' = [pc EXCEPT ![c] = "gone"]
    /\ UNCHANGED <<journal, bound, mission, seen, effects, recovery>>

CallAgain(c) ==
    /\ c \in Returning /\ pc[c] = "gone"
    /\ pc' = [pc EXCEPT ![c] = "idle"]
    /\ UNCHANGED <<journal, bound, mission, seen, effects, recovery>>

-----------------------------------------------------------------------------
\* What a typed observer may report: the truth, or that it cannot tell.
Observations(op) == {"indeterminate", IF effects[op] = {} THEN "absent" ELSE "present"}

\* Mutant: whoever cannot tell retries.
OutcomeHopeful(op, observation) ==
    CASE observation = "present" -> "reconciled"
      [] observation # "present" /\ op \in Retryable -> "retry_ready"
      [] OTHER -> "needs_attention"

\* Mutant: an indeterminate observation leaves the operation unknown.
OutcomeUndecided(op, observation) ==
    CASE observation = "present" -> "reconciled"
      [] observation = "absent" /\ op \in Retryable -> "retry_ready"
      [] OTHER -> "unknown"

\* reconcile_unknown: what an observation makes of an unknown operation.
Outcome(op, observation) ==
    CASE observation = "present" -> "reconciled"
      [] observation = "absent" /\ op \in Retryable -> "retry_ready"
      [] OTHER -> "needs_attention"

\* InstallationPublicationJournal.reconcile_unknown, between restarts.
ReconcilePublication(op, observation) ==
    /\ mode = "up" /\ op \in VerifyOnly
    /\ life[op] = "unknown" /\ observation \in Observations(op)
    /\ AppendEvent(op, <<"operator", op>>, {"unknown"}, Outcome(op, observation))
    /\ UNCHANGED <<bound, mission, pc, seen, effects, recovery>>

\* The host restarts: callers and a recovery pass are lost.
Restart ==
    /\ restarts < MaxRestarts
    /\ restarts' = restarts + 1
    /\ mode' = "recovering"
    /\ pass' = Idle
    /\ pc' = [c \in Callers |-> IF pc[c] = "idle" THEN "idle" ELSE "gone"]
    /\ UNCHANGED <<journal, bound, mission, seen, effects, recovered>>

\* A key whose record exists returns that record and does nothing.
BeginRecovery(k, sound) ==
    /\ mode = "recovering" /\ pass = Idle
    /\ k \notin recovered
    /\ Cardinality(recovered) < MaxRecords * restarts
    /\ pass' = [key |-> k, version |-> version, run |-> running, sound |-> sound,
                todo |-> {op \in Ops : life[op] # "absent"}, safe |-> TRUE]
    /\ UNCHANGED <<journal, bound, mission, pc, seen, effects, mode, recovered, restarts>>

\* Mutant: only an operation that needs attention blocks the pass.
ExaminedBlocked(op, lifecycle) ==
    pass' = [pass EXCEPT !.todo = @ \ {op}, !.safe = @ /\ lifecycle # "needs_attention"]

\* The pass is through with an operation it leaves in a lifecycle.
Examined(op, lifecycle) ==
    pass' = [pass EXCEPT !.todo = @ \ {op},
                         !.safe = @ /\ lifecycle \notin
                            {"unknown", "running", "reserved", "needs_attention"}]

RecoverRunning(op) ==
    LET key == <<"mark-unknown", pass.key>> IN
    /\ op \in pass.todo /\ life[op] = "running"
    /\ \/ AppendEvent(op, key, {"running"}, "unknown") /\ UNCHANGED pass
       \/ Repeat(op, key, "unknown") /\ Examined(op, "running")
    /\ UNCHANGED <<bound, mission, pc, seen, effects, mode, recovered, restarts>>

\* An operation that is still reserved has no effect yet, unless the mission's
\* evidence is damaged.
RecoverReserved(op) ==
    /\ op \in pass.todo /\ life[op] = "reserved"
    /\ IF pass.sound
         THEN /\ AppendEvent(op, <<"reserved-retry", pass.key>>, {"reserved"}, "retry_ready")
              /\ Examined(op, "retry_ready")
         ELSE /\ AppendEvent(op, <<"unsafe-reservation", pass.key>>, {"reserved"}, "unknown")
              /\ UNCHANGED pass
    /\ UNCHANGED <<bound, mission, pc, seen, effects, mode, recovered, restarts>>

\* With damaged evidence every observation is indeterminate.  A pass that comes
\* back to an operation under a used key ends, unless its evidence is the same.
RecoverUnknown(op, observation) ==
    LET key == <<"reconcile", pass.key>>  to == Outcome(op, observation) IN
    /\ op \in pass.todo /\ life[op] = "unknown"
    /\ observation \in IF pass.sound THEN Observations(op) ELSE {"indeterminate"}
    /\ \/ AppendEvent(op, key, {"unknown"}, to) /\ Examined(op, to)
       \/ Repeat(op, key, to) /\ Examined(op, "unknown")
       \/ Used(op, key) /\ UNCHANGED journal /\ pass' = Idle
    /\ UNCHANGED <<bound, mission, pc, seen, effects, mode, recovered, restarts>>

RecoverSettled(op) ==
    /\ op \in pass.todo /\ (life[op] = "retry_ready" \/ Terminal(op))
    /\ Examined(op, life[op])
    /\ UNCHANGED <<journal, bound, mission, pc, seen, effects, mode, recovered, restarts>>

\* The record is written if the mission did not change; callers go on only
\* after RESUME_SAFE.
FinishRecovery ==
    /\ pass # Idle /\ pass.todo = {}
    /\ pass' = Idle
    /\ IF version = pass.version
         THEN /\ recovered' = recovered \cup {pass.key}
              /\ mode' = IF pass.safe /\ pass.sound /\ pass.run THEN "up" ELSE mode
         ELSE UNCHANGED <<recovered, mode>>
    /\ UNCHANGED <<journal, bound, mission, pc, seen, effects, restarts>>

-----------------------------------------------------------------------------
RecoverOp(op) ==
    \/ RecoverRunning(op)
    \/ RecoverReserved(op)
    \/ \E observation \in {"present", "absent", "indeterminate"} : RecoverUnknown(op, observation)
    \/ RecoverSettled(op)

Next ==
    \/ \E run \in BOOLEAN : ChangeMission(run)
    \/ \E c \in Callers :
          \/ ReserveRead(c) \/ ReserveInsert(c) \/ Start(c) \/ Effect(c)
          \/ \E to \in {"completed", "failed", "unknown"} : Report(c, to)
          \/ CallerDies(c) \/ CallAgain(c)
    \/ \E op \in Ops, observation \in {"present", "absent", "indeterminate"} :
          ReconcilePublication(op, observation)
    \/ Restart
    \/ \E k \in RecoveryKeys, sound \in BOOLEAN : BeginRecovery(k, sound)
    \/ \E op \in Ops : RecoverOp(op)
    \/ FinishRecovery

Spec == Init /\ [][Next]_vars

\* No event was written under a recovery key.
NewKey(k) == \A op \in Ops : \A entry \in keys[op] : entry[1][2] # k

\* reconstruct_mission runs to its end unless the host restarts; sooner or
\* later it is called under a new key, as each restart is asked to.
Fairness ==
    /\ SF_vars(\E k \in RecoveryKeys, sound \in BOOLEAN : NewKey(k) /\ BeginRecovery(k, sound))
    /\ WF_vars(\E op \in Ops : RecoverOp(op))
    /\ WF_vars(FinishRecovery)
FairSpec == Spec /\ Fairness

-----------------------------------------------------------------------------
Lifecycles == {"reserved", "running", "unknown", "retry_ready", "completed", "failed",
               "reconciled", "needs_attention"}

\* Types of the tables' columns and of the callers' variables.
TypeOK ==
    /\ life \in [Ops -> Lifecycles \cup {"absent"}]
    /\ keys \in [Ops -> SUBSET (EventKeys \X Lifecycles)]
    /\ bound \in [Ops -> Nat]
    /\ version \in Nat
    /\ running \in BOOLEAN
    /\ pc \in [Callers -> {"idle", "scoped", "told", "started", "applied", "gone"}]
    /\ seen \in [Callers -> Nat]
    /\ effects \in [Ops -> SUBSET Callers]
    /\ mode \in {"up", "recovering"}
    /\ pass \in [key : RecoveryKeys \cup {"none"}, version : Nat, run : BOOLEAN,
                 sound : BOOLEAN, todo : SUBSET Ops, safe : BOOLEAN]
    /\ recovered \in SUBSET RecoveryKeys
    /\ restarts \in Nat

\* An effect happens at most once, whoever dies where and however often the
\* host restarts in between, as long as no caller reuses its key.
EffectAtMostOnce ==
    \A op \in Ops : \A c, d \in effects[op] : c = d

\* What the journal calls done was done, and what it is ready to do was not.
JournalTellsEffects ==
    \A op \in Ops :
        /\ life[op] \in {"completed", "reconciled"} => effects[op] # {}
        /\ life[op] \in {"absent", "reserved", "retry_ready", "failed"} => effects[op] = {}

\* An operation whose policy forbids a retry is attempted once, however often
\* it is reserved, recovered or reconciled by the operator.
AttemptedOnce ==
    \A op \in Ops \ Retryable : \A c, d \in Callers :
        Used(op, <<"start", c>>) /\ Used(op, <<"start", d>>) => c = d

\* A caller that may still touch the outside world is the one the running
\* event was written for, and it is alone.
RunnerAlone ==
    \A c \in Callers : pc[c] \in {"started", "applied"} =>
        /\ mode = "up"
        /\ life[About[c]] = "running"
        /\ \A d \in Callers : d # c /\ About[d] = About[c] => pc[d] \notin {"started", "applied"}
        /\ effects[About[c]] = IF pc[c] = "applied" THEN {c} ELSE {}

\* The inductive invariant: the properties above and what they rest on.  While
\* the host recovers no caller is alive; a pass that is still safe left no
\* operation behind that an effect could come from; and who used its start key
\* is not waiting to start.
Passing ==
    pass # Idle => mode = "recovering" /\ pass.key \in RecoveryKeys
Quiet == mode = "recovering" => \A c \in Callers : pc[c] \in {"idle", "gone"}
StartsOnce ==
    \A c \in Callers : Used(About[c], <<"start", c>>) => pc[c] \in {"started", "applied", "gone"}
FirstAttempt ==
    \A op \in Ops \ Retryable : life[op] \in {"absent", "reserved", "retry_ready"} =>
        \A c \in Callers : ~Used(op, <<"start", c>>)
Settled == {"absent", "retry_ready", "completed", "failed", "reconciled"}
PassTells == pass.safe => \A op \in Ops \ pass.todo : life[op] \in Settled
IInv ==
    /\ TypeOK /\ Passing
    /\ Quiet /\ RunnerAlone /\ StartsOnce
    /\ JournalTellsEffects /\ EffectAtMostOnce
    /\ AttemptedOnce /\ FirstAttempt
    /\ PassTells

\* "Completed or reconciled work never becomes executable again."
DecidedForGood ==
    [][\A op \in Ops : Terminal(op) => life'[op] = life[op]]_vars

\* An operation enters the journal only under the scope of that moment.
ReservedInScope ==
    [][\A op \in Ops : life[op] = "absent" /\ life'[op] # "absent" =>
          running /\ bound'[op] = version]_vars

\* A mission goes on after a restart only when nothing is left that an effect
\* could still come from, also when a pass repeats under a key used before.
ResumeOnlyDecided ==
    [][mode = "recovering" /\ mode' = "up" => \A op \in Ops : life[op] \in Settled]_vars

\* After a restart every operation that was under way is decided, or the
\* mission goes on, however many passes are lost on the way.
EveryOperationDecided ==
    mode = "recovering" ~>
        \/ mode = "up"
        \/ \A op \in Ops : life[op] \notin {"reserved", "running", "unknown"}

\* The journal implements effects that happen at most once.
Happened == {op \in Ops : effects[op] # {}}
Verdict ==
    [op \in Ops |->
        CASE life[op] \in {"completed", "reconciled"} -> "done"
          [] life[op] = "failed" -> "failed"
          [] life[op] = "needs_attention" -> "blocked"
          [] OTHER -> "open"]
Once == INSTANCE EffectOnce WITH happened <- Happened, verdict <- Verdict
RefinesEffectOnce == Once!Spec
=============================================================================
