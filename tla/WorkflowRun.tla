----------------------------- MODULE WorkflowRun -----------------------------
(***************************************************************************)
(* Workflow runs of storage.py: the claim that keeps a work item to one    *)
(* active run of a workflow, the durable stages with their checkpoint log, *)
(* the final approval gate and the end of a run.                           *)
(*                                                                         *)
(* A `with self.db` block that reads first takes the write lock only at    *)
(* its first UPDATE or INSERT.  What it read before may be stale by then:  *)
(* the emergency stop of start_run, and a stage's status, dependencies and *)
(* checkpoint number, are read in one action and used in a later one.  The *)
(* other operations repeat what they read in the UPDATE that takes the     *)
(* lock, so they are one action.                                           *)
(***************************************************************************)
EXTENDS Integers

CONSTANTS
    Slots,      \* pairs of a work item and a workflow
    Runs,       \* row ids of workflow_runs
    Legacy,     \* the rows that were active before claims existed
    Stages,     \* the stages of a durable workflow definition
    StageDeps,  \* the stages each depends on
    Callers,    \* processes that move stages
    MaxSeq      \* bound of the model: stage moves of one run

ASSUME WorkflowAssumption ==
    /\ Runs \subseteq Nat \ {0}
    /\ Legacy \subseteq Runs
    /\ "none" \notin Slots
    /\ "workflow" \notin Stages
    /\ StageDeps \in [Stages -> SUBSET Stages]
    /\ MaxSeq \in Nat

VARIABLES
    run,        \* workflow_runs.status, "absent" before it is inserted
    slot,       \* workflow_runs.task_id and workflow_id
    stage,      \* workflow_stages.status, "none" where there is no such row
    seq,        \* workflow_runs.checkpoint_sequence
    log,        \* the run's rows of stage_checkpoints
    held,       \* active_workflow_claims.run_id, 0 where there is no row
    gate,       \* approval_gates.status
    stop,       \* policy_state.emergency_stop
    cleared,    \* starts that passed the stop and are not inserted yet
    reading     \* what a caller inside transition_durable_stage has read

vars == <<run, slot, stage, seq, log, held, gate, stop, cleared, reading>>
stages == <<stage, seq, log>>

-----------------------------------------------------------------------------
Keys == Stages \cup {"workflow"}
Kinds == {"linear", "durable"}

RunMoves ==
    {<<"running", "awaiting_approval">>, <<"running", "failed">>,
     <<"awaiting_approval", "approved">>, <<"awaiting_approval", "rejected">>,
     <<"awaiting_approval", "failed">>}

StageMoves ==
    {<<"pending", "running">>, <<"pending", "failed">>,
     <<"running", "waiting_approval">>, <<"running", "succeeded">>,
     <<"running", "failed">>, <<"waiting_approval", "running">>,
     <<"waiting_approval", "succeeded">>, <<"waiting_approval", "failed">>,
     <<"failed", "pending">>}

Active(r) == run[r] \in {"running", "awaiting_approval"}
Ended(status) == status \in {"approved", "rejected", "failed"}

\* What _transition_run makes of the stage keyed 'workflow'.
StageOf(status) ==
    CASE status = "awaiting_approval" -> "waiting_approval"
      [] status = "approved" -> "succeeded"
      [] OTHER -> "failed"

\* Mutant: the dependencies only have to have started.
ReadyStarted(r, k) == k \in Stages => \A d \in StageDeps[k] : stage[r][d] # "pending"

Ready(r, k) == k \in Stages => \A d \in StageDeps[k] : stage[r][d] = "succeeded"

\* A row inserted now: its id is larger than every id in use.
Fresh(r) == run[r] = "absent" /\ \A q \in Runs : run[q] # "absent" => q < r

\* Mutant: the claim is only deleted.
HeirsNone(r) == {IF held[slot[r]] = r THEN 0 ELSE held[slot[r]]}

\* Who holds r's slot once r ended: DELETE its claim, then INSERT OR IGNORE
\* one for the smallest run still active.
Heirs(r) ==
    LET left == IF held[slot[r]] = r THEN 0 ELSE held[slot[r]]
        others == {q \in Runs \ {r} : Active(q) /\ slot[q] = slot[r]}
    IN  IF left # 0 \/ others = {} THEN {left}
        ELSE {q \in others : \A p \in others : q <= p}

-----------------------------------------------------------------------------
\* Migration 5 gives each slot's claim to the smallest run it finds active.
Init ==
    /\ slot \in [Runs -> Slots \cup {"none"}]
    /\ run \in [Runs -> {"absent", "running", "awaiting_approval"}]
    /\ \A r \in Runs : /\ r \in Legacy <=> run[r] # "absent"
                       /\ r \in Legacy <=> slot[r] # "none"
    /\ held \in [Slots -> Legacy \cup {0}]
    /\ \A s \in Slots :
          \/ held[s] = 0 /\ \A r \in Legacy : slot[r] # s
          \/ /\ held[s] \in Legacy /\ slot[held[s]] = s
             /\ \A r \in Legacy : slot[r] = s => held[s] <= r
    /\ stage = [r \in Runs |-> [k \in Keys |-> "none"]]
    /\ seq = [r \in Runs |-> 0]
    /\ log = [r \in Runs |-> {}]
    /\ gate = [r \in Runs |-> IF run[r] = "awaiting_approval" THEN "pending" ELSE "none"]
    /\ stop = FALSE
    /\ cleared = {}
    /\ reading = [c \in Callers |-> [run |-> 0]]

SetEmergencyStop ==
    /\ stop' = ~stop
    /\ UNCHANGED <<run, slot, stages, held, gate, cleared, reading>>

\* start_run and start_durable_run: the stop is read before the transaction.
AssertDispatchAllowed(s, kind) ==
    /\ ~stop
    /\ cleared' = cleared \cup {<<s, kind>>}
    /\ UNCHANGED <<run, slot, stages, held, gate, stop, reading>>

\* The run, its stages and its claim, whose primary key is the slot.
StartRun(r, s, kind) ==
    /\ <<s, kind>> \in cleared
    /\ held[s] = 0
    /\ Fresh(r)
    /\ run' = [run EXCEPT ![r] = "running"]
    /\ slot' = [slot EXCEPT ![r] = s]
    /\ stage' = [stage EXCEPT ![r] =
          [k \in Keys |-> IF kind = "linear"
                            THEN IF k = "workflow" THEN "running" ELSE "none"
                            ELSE IF k = "workflow" THEN "none" ELSE "pending"]]
    /\ held' = [held EXCEPT ![s] = r]
    /\ cleared' = cleared \ {<<s, kind>>}
    /\ UNCHANGED <<seq, log, gate, stop, reading>>

\* "Active workflow already exists": everything is rolled back.
StartRefused(s, kind) ==
    /\ <<s, kind>> \in cleared
    /\ held[s] # 0
    /\ cleared' = cleared \ {<<s, kind>>}
    /\ UNCHANGED <<run, slot, stages, held, gate, stop, reading>>

-----------------------------------------------------------------------------
\* transition_durable_stage up to its first UPDATE.
ReadStage(c, r, k, target) ==
    /\ reading[c].run = 0
    /\ seq[r] < MaxSeq
    /\ <<stage[r][k], target>> \in StageMoves
    /\ target = "running" => Ready(r, k)
    /\ reading' = [reading EXCEPT ![c] =
          [run |-> r, key |-> k, source |-> stage[r][k],
           target |-> target, number |-> seq[r] + 1]]
    /\ UNCHANGED <<run, slot, stages, held, gate, stop, cleared>>

\* The stage is as read, and UNIQUE(run_id, sequence) lets the checkpoint in.
Current(read) ==
    /\ stage[read.run][read.key] = read.source
    /\ \A checkpoint \in log[read.run] : checkpoint.number # read.number

\* The stage, the run's sequence and the checkpoint commit together.
WriteStage(c) ==
    LET read == reading[c] IN
    /\ read.run # 0
    /\ Current(read)
    /\ stage' = [stage EXCEPT ![read.run][read.key] = read.target]
    /\ seq' = [seq EXCEPT ![read.run] = read.number]
    /\ log' = [log EXCEPT ![read.run] = @ \cup
          {[number |-> read.number, key |-> read.key, state |-> read.target]}]
    /\ reading' = [reading EXCEPT ![c] = [run |-> 0]]
    /\ UNCHANGED <<run, slot, held, gate, stop, cleared>>

\* "changed concurrently", or the checkpoint's number is taken: rolled back.
WriteStageFails(c) ==
    /\ reading[c].run # 0
    /\ ~Current(reading[c])
    /\ reading' = [reading EXCEPT ![c] = [run |-> 0]]
    /\ UNCHANGED <<run, slot, stages, held, gate, stop, cleared>>

-----------------------------------------------------------------------------
\* _transition_run, part of each operation below.  The stage keyed 'workflow'
\* follows without a checkpoint; a trigger refuses to repeat its status.
TransitionRun(r, target) ==
    /\ <<run[r], target>> \in RunMoves
    /\ run' = [run EXCEPT ![r] = target]
    /\ IF stage[r]["workflow"] \in {"running", "waiting_approval"}
         THEN /\ stage[r]["workflow"] # StageOf(target)
              /\ stage' = [stage EXCEPT ![r]["workflow"] = StageOf(target)]
         ELSE UNCHANGED stage
    /\ IF Ended(target)
         THEN \E heir \in Heirs(r) : held' = [held EXCEPT ![slot[r]] = heir]
         ELSE UNCHANGED held
    /\ UNCHANGED <<slot, seq, log, stop, cleared, reading>>

\* finish_run: failures and cancellations, and an autonomous child's
\* _converge_child_transport, which approves without a gate.
FinishRun(r, target) == TransitionRun(r, target) /\ UNCHANGED gate

CreateApprovalGate(r) ==
    /\ gate[r] = "none"
    /\ TransitionRun(r, "awaiting_approval")
    /\ gate' = [gate EXCEPT ![r] = "pending"]

DecideApproval(r, decision) ==
    /\ gate[r] = "pending"
    /\ gate' = [gate EXCEPT ![r] = decision]
    /\ TransitionRun(r, decision)

Next ==
    \/ SetEmergencyStop
    \/ \E s \in Slots, kind \in Kinds :
          \/ AssertDispatchAllowed(s, kind)
          \/ StartRefused(s, kind)
          \/ \E r \in Runs : StartRun(r, s, kind)
    \/ \E c \in Callers :
          \/ \E r \in Runs, k \in Keys, move \in StageMoves : ReadStage(c, r, k, move[2])
          \/ WriteStage(c)
          \/ WriteStageFails(c)
    \/ \E r \in Runs :
          \/ \E target \in {"awaiting_approval", "approved", "failed"} : FinishRun(r, target)
          \/ CreateApprovalGate(r)
          \/ \E decision \in {"approved", "rejected"} : DecideApproval(r, decision)

Spec == Init /\ [][Next]_vars

-----------------------------------------------------------------------------
Reads == [run : {0}] \cup
         [run : Runs, key : Keys, source : {"pending", "running", "waiting_approval", "failed"},
          target : {"pending", "running", "waiting_approval", "succeeded", "failed"},
          number : Nat \ {0}]
Checkpoints == [number : Nat \ {0}, key : Keys,
                state : {"pending", "running", "waiting_approval", "succeeded", "failed"}]

\* Types of the tables' columns.
TypeOK ==
    /\ run \in [Runs -> {"absent", "running", "awaiting_approval",
                         "approved", "rejected", "failed"}]
    /\ slot \in [Runs -> Slots \cup {"none"}]
    /\ stage \in [Runs -> [Keys -> {"none", "pending", "running",
                                    "waiting_approval", "succeeded", "failed"}]]
    /\ seq \in [Runs -> Nat]
    /\ log \in [Runs -> SUBSET Checkpoints]
    /\ held \in [Slots -> Runs \cup {0}]
    /\ gate \in [Runs -> {"none", "pending", "approved", "rejected"}]
    /\ stop \in BOOLEAN
    /\ cleared \in SUBSET (Slots \X Kinds)
    /\ reading \in [Callers -> Reads]

\* A slot is claimed exactly as long as a run of it is active, by such a run:
\* also when a legacy run that shares the slot outlives the one that held it.
SlotHeldByActive ==
    /\ \A s \in Slots : held[s] # 0 => Active(held[s]) /\ slot[held[s]] = s
    /\ \A r \in Runs : Active(r) => slot[r] \in Slots /\ held[slot[r]] # 0

\* A new run never joins an active run of the same workflow and work item.
OneRunPerSlot ==
    [][\A r, q \in Runs : run[r] = "absent" /\ run'[r] # "absent" =>
          ~(Active(q) /\ slot[q] = slot'[r])]_vars

\* The checkpoints of a run are numbered without gap or repetition, and the
\* newest one of a stage tells its status: recovery may replay the log.  Two
\* callers moving independent stages read the same number.
NewestOf(r, k, c) ==
    /\ c \in log[r] /\ c.key = k
    /\ \A d \in log[r] : d.key = k => d.number <= c.number
CheckpointsTellStages ==
    \A r \in Runs :
        /\ {c.number : c \in log[r]} = 1..seq[r]
        /\ \A c, d \in log[r] : c.number = d.number => c = d
        /\ \A k \in Stages :
              \/ stage[r][k] \in {"none", "pending"} /\ \A c \in log[r] : c.key # k
              \/ \E c \in log[r] : NewestOf(r, k, c) /\ c.state = stage[r][k]

\* A stage never runs, waits or succeeds before everything it depends on has
\* succeeded, although the dependencies are read outside the transaction.
DependenciesSucceeded ==
    \A r \in Runs, k \in Stages :
        stage[r][k] \in {"running", "waiting_approval", "succeeded"} =>
            \A d \in StageDeps[k] : stage[r][d] = "succeeded"

\* The gate and the run never disagree: a decision moves both or neither, also
\* when the run was cancelled while the gate was pending.
GateFollowsRun ==
    \A r \in Runs : /\ (gate[r] = "rejected") <=> (run[r] = "rejected")
                    /\ gate[r] = "approved" => run[r] = "approved"
                    /\ gate[r] = "pending" => run[r] \in {"awaiting_approval", "approved", "failed"}

\* What a caller read and has not used yet: a checkpoint number the run has
\* reached or comes next, and dependencies that succeeded for good.
ReadsHold ==
    \A c \in Callers : reading[c].run # 0 =>
        /\ reading[c].number <= seq[reading[c].run] + 1
        /\ <<reading[c].source, reading[c].target>> \in StageMoves
        /\ reading[c].target = "running" => Ready(reading[c].run, reading[c].key)
RowsExist ==
    \A r \in Runs : /\ (run[r] = "absent") <=> (slot[r] = "none")
                    /\ run[r] = "absent" => /\ gate[r] = "none"
                                            /\ log[r] = {}
                                            /\ seq[r] = 0
                                            /\ \A k \in Keys : stage[r][k] = "none"
                    /\ \A k \in Keys : stage[r][k] = "none" => \A c \in log[r] : c.key # k
\* The inductive invariant.
IInv == /\ TypeOK /\ SlotHeldByActive /\ CheckpointsTellStages
        /\ DependenciesSucceeded /\ GateFollowsRun /\ ReadsHold /\ RowsExist

\* The claims implement one active run per slot.
Use == INSTANCE WorkflowSlots WITH
    active <- [s \in Slots |-> {r \in Runs : Active(r) /\ slot[r] = s}],
    ended <- {r \in Runs : Ended(run[r])}
RefinesWorkflowSlots == Use!Spec
=============================================================================
